---------------------------- MODULE TokenRefresh ----------------------------
(***************************************************************************)
(* Refreshing the OAuth tokens of one account (internal/tokens/manager.go) *)
(* under the refresh lock kept in the shared store                         *)
(* (internal/store/sqlite_refresh_locks.go).                               *)
(*                                                                         *)
(* Refreshers are goroutines of any number of broker processes (hosts).    *)
(* The lock is a row with an expiry in whole seconds; the code inside it   *)
(* calls the provider, which may replace the refresh token by a new one    *)
(* and accepts the old one no more.  Time passes between any two steps;    *)
(* calls time out, answers get lost, processes crash, writes fail.         *)
(*                                                                         *)
(* The account is one row.  Whoever changes it (pool_accounts.go,          *)
(* pool_observe.go) takes its process's mutex, reloads the rows, and       *)
(* writes the WHOLE row back, refresh token included; the mutex keeps out  *)
(* the other writers of its process, and nobody of another one.            *)
(***************************************************************************)
EXTENDS Integers, FiniteSets

CONSTANTS
  Procs,         \* refresher goroutines
  Hosts,         \* broker processes that share the store
  HostOf,        \* the process a refresher runs in
  Writers,       \* bound: the processes where others rewrite the row too
  AfterMishap,   \* bound: "yes" if anything still begins after a mishap
  TicksPerSec,   \* clock resolution: the store truncates it to seconds
  LockTTL,       \* ticks: the 30 s of AcquireRefreshLock
  WaitTime,      \* ticks: the 2 s sleep of a refused refresher
  MaxTime,       \* bound: the clock goes further only for a sleeper
  LastStart,     \* bound: no refresh begins after this tick
  MaxTokens,     \* bound: refresh tokens the provider ever issues
  Gone           \* lock owner that no longer exists

ASSUME RefreshAssumption ==
  /\ TicksPerSec \in Nat \ {0}
  /\ LockTTL \in Nat /\ WaitTime \in Nat
  /\ MaxTime \in Nat /\ LastStart \in Nat /\ MaxTokens \in Nat \ {0}
  /\ Gone \notin Procs
  /\ HostOf \in [Procs -> Hosts]
  /\ Writers \subseteq Hosts

VARIABLES
  now,      \* clock
  lock,     \* the account's refresh_locks row: owner (or none) and expiry
  acct,     \* the stored account: presence, status, refresh token
  valid,    \* provider: the refresh tokens it accepts
  issued,   \* provider: how many refresh tokens it has issued
  stray,    \* refresh tokens in requests whose sender gave up on them
  pc,       \* where a refresher is
  due,      \* expiry (seconds) of the lock it holds, or end of its timer
  snap,     \* the refresh token it read
  answer,   \* the provider's answer to it
  copy,     \* per process: the row reloaded under its mutex, to be written
  login,    \* per process: the refresh token a sign-in is about to store
  mishap,   \* history: something went wrong that voids a refresh token
  restored  \* history: a write put back a row changed since its reload

vars == <<now, lock, acct, valid, issued, stray, pc, due, snap, answer, copy,
          login, mishap, restored>>
row == <<acct, copy, login, restored>>
provider == <<valid, issued, stray>>
locals == <<pc, due, snap, answer>>

NoLock == [id |-> Gone, exp |-> 0]
NoAnswer == [kind |-> "none", rt |-> 0]
Refused == [kind |-> "refused", rt |-> 0]
Granted(t) == [kind |-> "granted", rt |-> t]
\* "active" stands for "blocked" and "disabled" too: a refresh is begun and
\* runs alike under all three.
Statuses == {"active", "error"}
NoCopy == [op |-> "none", rt |-> 0, status |-> "active"]
NoLogin == [kind |-> "none", rt |-> 0]
\* Between acquiring the lock and releasing it.
Critical == {"get", "call", "store", "storing", "fail", "marking", "release"}
PCs == {"idle", "acquire", "sleep"} \union Critical

\* time.Time.Unix()
Unix(t) == t \div TicksPerSec

\* p's lock has not expired yet.
InLease(p) == pc[p] \in Critical /\ Unix(now) < due[p]

\* p has an answer from the provider that is not stored yet.
Unstored(p) ==
  \/ pc[p] \in {"call", "store"} /\ answer[p].kind = "granted"
  \/ pc[p] = "storing"

\* A sign-in holds a refresh token it has not stored yet.
SigningIn == \E h \in Hosts : login[h].kind = "new"

\* The refreshers of process h.
On(h) == {p \in Procs : HostOf[p] = h}

\* p's call returns or dies: its locals are gone.
Leave(p) ==
  /\ pc' = [pc EXCEPT ![p] = "idle"]
  /\ due' = [due EXCEPT ![p] = 0]
  /\ snap' = [snap EXCEPT ![p] = 0]
  /\ answer' = [answer EXCEPT ![p] = NoAnswer]

\* p goes on without what it read and was answered, its locals from there on.
Proceed(p, l) ==
  /\ pc' = [pc EXCEPT ![p] = l]
  /\ snap' = [snap EXCEPT ![p] = 0]
  /\ answer' = [answer EXCEPT ![p] = NoAnswer]

\* Nothing has happened that voids the stored refresh token: no refresher
\* overstayed its lock, no answer got lost, no read or write of a token
\* failed, no sign-in revoked or put back a token in use, and no process
\* wrote back a copy of the row that another one had changed meanwhile.
Calm == mishap = "no" /\ restored = "no"

NoteIf(P) == mishap' = IF P THEN "yes" ELSE mishap

\* p.mu.Lock and reloadStateLocked: from here on process h is to write the
\* row with refresh token t and status s.  An absent account ends the call.
\* A reload that fails is only warned of by Observe, RecoverBucket and
\* MarkError, which go on with the rows reloaded last: an earlier reload.
Reload(h, op, t, s) ==
  /\ copy[h] = NoCopy
  /\ acct.present = "yes"
  /\ copy' = [copy EXCEPT ![h] = [op |-> op, rt |-> t, status |-> s]]

\* p.mu.Unlock
Unlock(h) == copy' = [copy EXCEPT ![h] = NoCopy]

\* SaveAccount: INSERT ... ON CONFLICT(id) DO UPDATE of every column, so a
\* row deleted meanwhile is there again.
SaveAccount(h, t, s) ==
  /\ acct' = [present |-> "yes", status |-> s, rt |-> t]
  /\ Unlock(h)

\* Since process h reloaded it, the row has got another refresh token, or
\* has been deleted.
Stale(h) == acct.present = "no" \/ acct.rt # copy[h].rt

\* A write that leaves the refresh token as the reload found it.
WriteBack(h, s) ==
  /\ SaveAccount(h, copy[h].rt, s)
  /\ restored' = IF Stale(h) THEN "yes" ELSE restored

-----------------------------------------------------------------------------
Init ==
  /\ now = 0
  /\ lock = NoLock
  /\ acct = [present |-> "yes", status |-> "active", rt |-> 1]
  /\ valid = {1}
  /\ issued = 1
  /\ stray = {}
  /\ pc = [p \in Procs |-> "idle"]
  /\ due = [p \in Procs |-> 0]
  /\ snap = [p \in Procs |-> 0]
  /\ answer = [p \in Procs |-> NoAnswer]
  /\ copy = [h \in Hosts |-> NoCopy]
  /\ login = [h \in Hosts |-> NoLogin]
  /\ mishap = "no"
  /\ restored = "no"

\* EnsureValidToken finds the token close to expiry, or ForceRefresh.
Start(p) ==
  /\ pc[p] = "idle"
  /\ now <= LastStart
  /\ pc' = [pc EXCEPT ![p] = "acquire"]
  /\ UNCHANGED <<now, lock, provider, due, snap, answer, mishap, row>>

\* The upsert succeeds: no row (NoLock has expiry 0), or the row is one
\* WHERE expires_at <= created_at.
LockFree == lock.exp <= Unix(now)

AcquireRefreshLock(p) ==
  /\ pc[p] = "acquire"
  /\ LockFree
  /\ lock' = [id |-> p, exp |-> Unix(now + LockTTL)]
  /\ due' = [due EXCEPT ![p] = Unix(now + LockTTL)]
  /\ pc' = [pc EXCEPT ![p] = "get"]
  /\ NoteIf(\E q \in Procs : pc[q] \in Critical)
  /\ UNCHANGED <<now, provider, snap, answer, row>>

\* A mutant of AcquireRefused: the sleeper goes on to refresh by itself.
AcquireRefusedGoesOn(p) ==
  /\ pc[p] = "acquire"
  /\ ~LockFree
  /\ due' = [due EXCEPT ![p] = 0]
  /\ pc' = [pc EXCEPT ![p] = "get"]
  /\ UNCHANGED <<now, lock, provider, snap, answer, mishap, row>>

\* Somebody else holds it: sleep, then look whether the token is good by now.
AcquireRefused(p) ==
  /\ pc[p] = "acquire"
  /\ ~LockFree
  /\ due' = [due EXCEPT ![p] = now + WaitTime]
  /\ pc' = [pc EXCEPT ![p] = "sleep"]
  /\ UNCHANGED <<now, lock, provider, snap, answer, mishap, row>>

\* A mutant of GiveUp: the sleeper waits until the account is active.
GiveUpWhenActive(p) ==
  /\ pc[p] = "acquire" \/ (pc[p] = "sleep" /\ acct.status = "active")
  /\ Leave(p)
  /\ UNCHANGED <<now, lock, provider, mishap, row>>

\* The upsert fails, or the sleep is over: the call returns.
GiveUp(p) ==
  /\ pc[p] = "acquire" \/ (pc[p] = "sleep" /\ due[p] <= now)
  /\ Leave(p)
  /\ UNCHANGED <<now, lock, provider, mishap, row>>

\* pool.Get under the lock, and the request leaves.  A token that a sign-in
\* has just made the provider revoke is refused.
Get(p) ==
  /\ pc[p] = "get"
  /\ copy[HostOf[p]] = NoCopy
  /\ acct.present = "yes"
  /\ snap' = [snap EXCEPT ![p] = acct.rt]
  /\ pc' = [pc EXCEPT ![p] = "call"]
  /\ NoteIf(SigningIn /\ acct.rt \notin valid)
  /\ UNCHANGED <<now, lock, provider, due, answer, row>>

GetNoAccount(p) ==
  /\ pc[p] = "get"
  /\ copy[HostOf[p]] = NoCopy
  /\ acct.present = "no"
  /\ Proceed(p, "release")
  /\ UNCHANGED <<now, lock, provider, due, mishap, row>>

\* The reload of Get fails, which is only warned of: the process goes by the
\* rows it has reloaded before.
GetStale(p) ==
  /\ pc[p] = "get"
  /\ copy[HostOf[p]] = NoCopy
  /\ \E t \in 1..issued : snap' = [snap EXCEPT ![p] = t] /\ t # acct.rt
  /\ pc' = [pc EXCEPT ![p] = "call"]
  /\ NoteIf(TRUE)
  /\ UNCHANGED <<now, lock, provider, due, answer, row>>

\* The refresh token does not decrypt, is empty, or no driver knows it.
GetUnusable(p) ==
  /\ pc[p] = "get"
  /\ copy[HostOf[p]] = NoCopy
  /\ acct.present = "yes"
  /\ pc' = [pc EXCEPT ![p] = "fail"]
  /\ NoteIf(TRUE)
  /\ UNCHANGED <<now, lock, provider, due, snap, answer, row>>

\* The provider takes a valid refresh token and issues the next one.
RotateUpstream(t) ==
  /\ issued < MaxTokens
  /\ issued' = issued + 1
  /\ valid' = (valid \ {t}) \union {issued + 1}

\* Provider: the token is accepted.  It is replaced, or kept and the answer
\* carries no refresh token (then the driver's RefreshToken is "").
UpstreamGrants(p) ==
  /\ pc[p] = "call" /\ answer[p] = NoAnswer
  /\ snap[p] \in valid
  /\ \/ /\ RotateUpstream(snap[p])
        /\ answer' = [answer EXCEPT ![p] = Granted(issued')]
     \/ /\ answer' = [answer EXCEPT ![p] = Granted(0)]
        /\ UNCHANGED <<issued, valid>>
  /\ UNCHANGED <<now, lock, stray, pc, due, snap, mishap, row>>

\* Provider: invalid_grant.
UpstreamRefuses(p) ==
  /\ pc[p] = "call" /\ answer[p] = NoAnswer
  /\ snap[p] \notin valid
  /\ answer' = [answer EXCEPT ![p] = Refused]
  /\ UNCHANGED <<now, lock, provider, pc, due, snap, mishap, row>>

\* RefreshToken returns the tokens, or the provider's refusal.
Receive(p) ==
  /\ pc[p] = "call" /\ answer[p].kind = "granted"
  /\ pc' = [pc EXCEPT ![p] = "store"]
  /\ UNCHANGED <<now, lock, provider, due, snap, answer, mishap, row>>

ReceiveRefusal(p) ==
  /\ pc[p] = "call" /\ answer[p] = Refused
  /\ Proceed(p, "fail")
  /\ UNCHANGED <<now, lock, provider, due, mishap, row>>

\* What is left behind when p stops listening: an answer it will never see,
\* or a request the provider may still work on.
Abandon(p) ==
  /\ stray' = IF pc[p] = "call" /\ answer[p] = NoAnswer
              THEN stray \union {snap[p]} ELSE stray
  /\ NoteIf(Unstored(p))

\* A transport error or the client timeout, on an account with an egress
\* cell (the cell is cooled down), or on one without (markError follows).
CallFails(p) ==
  /\ pc[p] = "call"
  /\ Proceed(p, "release")
  /\ Abandon(p)
  /\ UNCHANGED <<now, lock, valid, issued, due, row>>

CallFailsMarked(p) ==
  /\ pc[p] = "call"
  /\ Proceed(p, "fail")
  /\ stray' = IF answer[p] = NoAnswer THEN stray \union {snap[p]} ELSE stray
  /\ NoteIf(TRUE)
  /\ UNCHANGED <<now, lock, valid, issued, due, row>>

\* Provider: an abandoned request is worked on after all.
StrayRotates(t) ==
  /\ t \in stray
  /\ stray' = stray \ {t}
  /\ IF t \in valid
     THEN RotateUpstream(t) /\ NoteIf(TRUE)
     ELSE UNCHANGED <<issued, valid, mishap>>
  /\ UNCHANGED <<now, lock, locals, row>>

\* A mutant of NewRefreshToken: an empty answer overwrites the token.
NewRefreshTokenBlank(p) == answer[p].rt

\* encRefresh: the answer's token, or the one read before the call.
NewRefreshToken(p) == IF answer[p].rt = 0 THEN snap[p] ELSE answer[p].rt

\* A mutant of StoreTokens: only the access token is stored.
StoreTokensAccessOnly(p) ==
  /\ pc[p] = "store"
  /\ Reload(HostOf[p], "refresh", acct.rt, "active")
  /\ Proceed(p, "storing")
  /\ UNCHANGED <<now, lock, acct, provider, due, login, mishap, restored>>

\* StoreTokens: the account is active again, whatever it was; ...
StoreTokens(p) ==
  /\ pc[p] = "store"
  /\ Reload(HostOf[p], "refresh", NewRefreshToken(p), "active")
  /\ Proceed(p, "storing")
  /\ UNCHANGED <<now, lock, acct, provider, due, login, mishap, restored>>

\* ... an account that is gone makes it an error; ...
StoreTokensNoAccount(p) ==
  /\ pc[p] = "store"
  /\ copy[HostOf[p]] = NoCopy
  /\ acct.present = "no"
  /\ Proceed(p, "release")
  /\ UNCHANGED <<now, lock, provider, due, mishap, row>>

\* ... and persistLocked writes the row.
TokensPersisted(p) ==
  /\ pc[p] = "storing"
  /\ SaveAccount(HostOf[p], copy[HostOf[p]].rt, "active")
  /\ Proceed(p, "release")
  /\ UNCHANGED <<now, lock, provider, due, login, mishap, restored>>

\* The tokens do not encrypt, or the reload of StoreTokens fails, ...
StoreFails(p) ==
  /\ pc[p] = "store"
  /\ Proceed(p, "release")
  /\ NoteIf(TRUE)
  /\ UNCHANGED <<now, lock, provider, due, row>>

\* ... or its write, which is only logged: the row keeps the old token.
PersistFails(p) ==
  /\ pc[p] \in {"storing", "marking"}
  /\ Unlock(HostOf[p])
  /\ Proceed(p, "release")
  /\ NoteIf(TRUE)
  /\ UNCHANGED <<now, lock, acct, provider, due, login, restored>>

\* markError, and its write of the row as it was read.
MarkError(p) ==
  /\ pc[p] = "fail"
  /\ Reload(HostOf[p], "refresh", acct.rt, "error")
  /\ Proceed(p, "marking")
  /\ UNCHANGED <<now, lock, acct, provider, due, login, mishap, restored>>

MarkErrorNoAccount(p) ==
  /\ pc[p] = "fail"
  /\ copy[HostOf[p]] = NoCopy
  /\ acct.present = "no"
  /\ Proceed(p, "release")
  /\ UNCHANGED <<now, lock, provider, due, mishap, row>>

ErrorPersisted(p) ==
  /\ pc[p] = "marking"
  /\ WriteBack(HostOf[p], "error")
  /\ Proceed(p, "release")
  /\ UNCHANGED <<now, lock, provider, due, login, mishap>>

\* A mutant of ReleaseRefreshLock: the row is deleted by account only.
ReleaseAnyLock(p) ==
  /\ pc[p] = "release"
  /\ lock' = NoLock
  /\ Leave(p)
  /\ UNCHANGED <<now, provider, mishap, row>>

\* The deferred release: DELETE ... WHERE account_id = ? AND lock_id = ?
ReleaseRefreshLock(p) ==
  /\ pc[p] = "release"
  /\ lock' = IF lock.id = p THEN NoLock ELSE lock
  /\ Leave(p)
  /\ UNCHANGED <<now, provider, mishap, row>>

\* A lock row whose owner is among P outlives it.
Orphan(P) == IF lock.id \in P THEN [lock EXCEPT !.id = Gone] ELSE lock

\* The release is refused by the store; the failure is only logged.
ReleaseFails(p) ==
  /\ pc[p] = "release"
  /\ lock' = Orphan({p})
  /\ Leave(p)
  /\ UNCHANGED <<now, provider, mishap, row>>

-----------------------------------------------------------------------------
(* A sign-in of the account (admin_oauth.go), without the refresh lock.    *)

\* Exchange: the provider issues a token and may revoke what it issued
\* before, in use or about to be stored, ...
Exchange(h) ==
  /\ login[h] = NoLogin
  /\ issued < MaxTokens
  /\ issued' = issued + 1
  /\ login' = [login EXCEPT ![h] = [kind |-> "new", rt |-> issued + 1]]
  /\ \/ valid' = valid \union {issued + 1} /\ UNCHANGED mishap
     \/ /\ valid' = {issued + 1}
        /\ NoteIf(SigningIn \/ \E p \in Procs : pc[p] \in Critical)
  /\ UNCHANGED <<now, lock, acct, stray, locals, copy, restored>>

\* ... or none, and the sign-in keeps the one FindBySubject reads.
ExchangeKeeps(h) ==
  /\ login[h] = NoLogin
  /\ acct.present = "yes"
  /\ login' = [login EXCEPT ![h] = [kind |-> "kept", rt |-> acct.rt]]
  /\ UNCHANGED <<now, lock, acct, provider, locals, copy, mishap, restored>>

\* updateExchangedAccount calls StoreTokens: its reload, ...
LoginReloads(h) ==
  /\ login[h] # NoLogin
  /\ Reload(h, "login", login[h].rt, "active")
  /\ UNCHANGED <<now, lock, acct, provider, locals, login, mishap, restored>>

\* ... and its write, which may put a kept token back over a newer one.
LoginStores(h) ==
  /\ copy[h].op = "login"
  /\ SaveAccount(h, copy[h].rt, "active")
  /\ login' = [login EXCEPT ![h] = NoLogin]
  /\ NoteIf(login[h].kind = "kept" /\ (acct.present = "no" \/ acct.rt # login[h].rt))
  /\ UNCHANGED <<now, lock, provider, locals, restored>>

\* The new token is lost, and the row is left with a revoked one.
LoginVoids(h) ==
  /\ login[h].kind = "new"
  /\ acct.rt \notin valid
  /\ ~(\E p \in Procs : Unstored(p))

\* The account is gone, or the cell check or the reload fails, ...
LoginFails(h) ==
  /\ login[h] # NoLogin /\ copy[h].op # "login"
  /\ login' = [login EXCEPT ![h] = NoLogin]
  /\ NoteIf(LoginVoids(h))
  /\ UNCHANGED <<now, lock, acct, provider, locals, copy, restored>>

\* ... or the write.
LoginUnstored(h) ==
  /\ copy[h].op = "login"
  /\ login' = [login EXCEPT ![h] = NoLogin]
  /\ Unlock(h)
  /\ NoteIf(LoginVoids(h))
  /\ UNCHANGED <<now, lock, acct, provider, locals, restored>>

-----------------------------------------------------------------------------
(* Crashes, the clock and the rest of the broker.                          *)

\* Process h dies; lock rows and requests of its refreshers stay behind.
Crash(h) ==
  /\ copy[h] # NoCopy \/ login[h] # NoLogin \/ \E p \in On(h) : pc[p] # "idle"
  /\ stray' = stray \union
       {snap[p] : p \in {q \in On(h) : pc[q] = "call" /\ answer[q] = NoAnswer}}
  /\ NoteIf(LoginVoids(h) \/ \E p \in On(h) : Unstored(p))
  /\ lock' = Orphan(On(h))
  /\ pc' = [p \in Procs |-> IF p \in On(h) THEN "idle" ELSE pc[p]]
  /\ due' = [p \in Procs |-> IF p \in On(h) THEN 0 ELSE due[p]]
  /\ snap' = [p \in Procs |-> IF p \in On(h) THEN 0 ELSE snap[p]]
  /\ answer' = [p \in Procs |-> IF p \in On(h) THEN NoAnswer ELSE answer[p]]
  /\ login' = [login EXCEPT ![h] = NoLogin]
  /\ Unlock(h)
  /\ UNCHANGED <<now, acct, valid, issued, restored>>

\* PurgeExpiredRefreshLocks
Purge ==
  /\ lock # NoLock
  /\ lock.exp <= Unix(now)
  /\ lock' = NoLock
  /\ UNCHANGED <<now, provider, locals, mishap, row>>

\* Observe, Update and RecoverBucket reload the row, ...
PoolReloads(h) ==
  /\ Reload(h, "pool", acct.rt, acct.status)
  /\ UNCHANGED <<now, lock, acct, provider, locals, login, mishap, restored>>

\* ... change its status or only other columns, and write all of it.
SetStatus(h, s) ==
  /\ copy[h].op = "pool"
  /\ WriteBack(h, s)
  /\ UNCHANGED <<now, lock, provider, locals, login, mishap>>

\* The write fails, or there is nothing to write.
PoolLeaves(h) ==
  /\ copy[h].op = "pool"
  /\ Unlock(h)
  /\ UNCHANGED <<now, lock, acct, provider, locals, login, mishap, restored>>

Delete(h) ==
  /\ copy[h] = NoCopy
  /\ acct.present = "yes"
  /\ acct' = [acct EXCEPT !.present = "no"]
  /\ UNCHANGED <<now, lock, provider, locals, copy, login, mishap, restored>>

Tick ==
  /\ now < MaxTime \/ \E p \in Procs : pc[p] = "sleep" /\ now < due[p]
  /\ now' = now + 1
  /\ UNCHANGED <<lock, provider, locals, mishap, row>>

refresh(p) ==
  \/ AcquireRefreshLock(p) \/ AcquireRefused(p) \/ GiveUp(p)
  \/ Get(p) \/ GetNoAccount(p) \/ GetUnusable(p)
  \/ Receive(p) \/ ReceiveRefusal(p) \/ CallFails(p) \/ CallFailsMarked(p)
  \/ StoreTokens(p) \/ StoreTokensNoAccount(p) \/ StoreFails(p)
  \/ MarkError(p) \/ MarkErrorNoAccount(p)
  \/ TokensPersisted(p) \/ ErrorPersisted(p) \/ PersistFails(p)
  \/ ReleaseRefreshLock(p) \/ ReleaseFails(p)

\* A sign-in or a change of the row that holds h's mutex.
holder(h) ==
  \/ LoginStores(h) \/ LoginUnstored(h) \/ PoolLeaves(h)
  \/ \E s \in {"active", copy[h].status} : SetStatus(h, s)

\* Others than the refreshers begin to change the row.
Begins(h) ==
  \/ Exchange(h) \/ ExchangeKeeps(h) \/ LoginReloads(h)
  \/ PoolReloads(h) \/ Delete(h)

\* Refreshes, other changes of the row and failing reloads may begin.
Unbounded == Calm \/ AfterMishap = "yes"

Next ==
  \/ \E p \in Procs : refresh(p) \/ UpstreamGrants(p) \/ UpstreamRefuses(p)
                        \/ (Unbounded /\ (Start(p) \/ GetStale(p)))
  \/ \E t \in stray : StrayRotates(t)
  \/ \E h \in Writers : holder(h) \/ LoginFails(h) \/ (Unbounded /\ Begins(h))
  \/ \E h \in Hosts : Crash(h)
  \/ Purge \/ Tick

Spec == Init /\ [][Next]_vars

\* The clock advances and every goroutine keeps running; the HTTP client's
\* timeout ends a call the provider never answers.  Whoever has the mutex
\* gives it back, and a sync.Mutex starves none of those who wait for it.
FairSpec ==
  /\ Spec
  /\ WF_vars(Tick)
  /\ \A h \in Writers : WF_vars(holder(h))
  /\ \A p \in Procs : SF_vars(refresh(p))

-----------------------------------------------------------------------------
(* Correctness.                                                            *)

Tokens == 1..MaxTokens

TypeOK ==
  /\ now \in Nat
  /\ lock \in [id : Procs \union {Gone}, exp : Nat]
  /\ acct \in [present : {"yes", "no"}, status : Statuses, rt : Tokens]
  /\ valid \subseteq Tokens
  /\ issued \in Tokens
  /\ stray \subseteq Tokens
  /\ pc \in [Procs -> PCs]
  /\ due \in [Procs -> Nat]
  /\ snap \in [Procs -> Tokens \union {0}]
  /\ answer \in [Procs -> [kind : {"none", "refused", "granted"},
                          rt : Tokens \union {0}]]
  /\ copy \in [Hosts -> [op : {"none", "refresh", "pool", "login"},
                         rt : Tokens \union {0}, status : Statuses]]
  /\ login \in [Hosts -> [kind : {"none", "new", "kept"}, rt : Tokens \union {0}]]
  /\ mishap \in {"no", "yes"}
  /\ restored \in {"no", "yes"}

\* Until the lock a refresher took has expired, the row in the store is that
\* lock: no late release, purge or takeover of another process removes it
\* (AcquireRefreshLock, ReleaseRefreshLock, PurgeExpiredRefreshLocks).  So two
\* refreshers are never both within their leases.
ExclusiveUntilExpiry ==
  \A p \in Procs : InLease(p) => lock = [id |-> p, exp |-> due[p]]

\* Unless one of the mishaps happened or another process wrote an outdated
\* copy of the row back (Calm), the stored refresh token is one the provider
\* still accepts, except while a refresher or a sign-in has its replacement
\* in hand: whatever else rewrites the row at the same time (refresh,
\* StoreTokens, persistLocked).
StoredTokenUsable ==
  Calm /\ acct.present = "yes" /\ ~SigningIn /\ ~(\E p \in Procs : Unstored(p))
    => acct.rt \in valid

\* With neither of the two, no refresher is ever refused by the provider, so
\* no account is marked in error by refreshes racing one another (markError).
NoSpuriousError ==
  Calm => acct.status # "error"

\* Every refresh returns: neither a crashed holder's row, nor a slow
\* provider, nor a failed release keeps a refresher waiting for ever.
RefreshReturns ==
  \A p \in Procs : pc[p] # "idle" ~> pc[p] = "idle"
=============================================================================
