----------------------------- MODULE PoolHealth -----------------------------
(***************************************************************************)
(* The health of accounts: status, bucket cooldowns, quota state and the   *)
(* circuit breaker, as every writer in internal/pool keeps them            *)
(* (pool_accounts.go, pool_buckets.go, pool_observe.go).                   *)
(*                                                                         *)
(* The rows live in the store, which several broker processes share (blue  *)
(* and green).  An operation takes its process's mutex, reloads all rows,  *)
(* decides, and writes whole rows back: bucket rows and account rows in    *)
(* separate statements.  So an operation is Begin (the reload and the      *)
(* decision, which leave the rows to write in pend) and one Write per      *)
(* table; other processes run in between, and a crash loses what is left.  *)
(*                                                                         *)
(* A bucket's key is derived from the account's subject and, for Gemini,   *)
(* from the project named in the bucket's own state, so learning the       *)
(* project moves the bucket, and a late answer without it moves it back.   *)
(***************************************************************************)
EXTENDS Integers

CONSTANTS
  Procs,         \* broker processes
  Accounts,      \* account IDs
  Subjects,      \* (provider, subject) pairs: UNIQUE in the store
  Keys,          \* bucket keys
  SubjectOf,     \* [Accounts -> Subjects]
  KeyFor,        \* [Subjects \X {"blank", "project"} -> Keys]: Driver.BucketKey
  Pauses,        \* lengths of the cooldowns drivers ask for
  BreakerPause,  \* the 30 s of the circuit breaker
  Resets,        \* times at which a quota window ends
  MaxTime,       \* bound on the clock
  NoRow          \* a row that is not there

ASSUME PoolAssumption ==
  /\ SubjectOf \in [Accounts -> Subjects]
  /\ KeyFor \in [Subjects \X {"blank", "project"} -> Keys]
  /\ Pauses \subseteq Nat \ {0}
  /\ BreakerPause \in Nat \ {0}
  /\ Resets \subseteq Nat \ {0}
  /\ MaxTime \in Nat

VARIABLES
  now,         \* clock, in the store's seconds
  acctRow,     \* accounts table: status and bucket key
  bucketRow,   \* quota_buckets table: cooldown (0 is NULL) and state
  errs,        \* serverErrCount, per process and bucket key
  pend,        \* the operation a process is in: the rows it is yet to write
  refreshing,  \* accounts with a token refresh under way, and who asked
  probing,     \* blocked accounts an administrator is testing
  owed,        \* history: until when upstream told us to leave an account alone
  torn         \* history: an operation was cut short between its writes

vars == <<now, acctRow, bucketRow, errs, pend, refreshing, probing, owed, torn>>

Statuses == {"active", "disabled", "blocked", "error"}
\* What the quota state tells apart: is the project known, and until when is
\* the quota exhausted (0: it is not).
States == [proj : {"blank", "project"}, reset : Resets \union {0}]
Blank == [cd |-> 0, state |-> [proj |-> "blank", reset |-> 0]]
BucketRows == [cd : Nat, state : States]
AcctRows == [status : Statuses, key : Keys]

ASSUME NoRowAssumption == NoRow \notin AcctRows \union BucketRows \union States

Present == {a \in Accounts : acctRow[a] # NoRow}
Members(k) == {a \in Present : acctRow[a].key = k}

\* reloadStateLocked fills in a blank bucket for an account without one.
Loaded == {k \in Keys : bucketRow[k] # NoRow \/ Members(k) # {}}
Bucket(k) == IF bucketRow[k] = NoRow THEN Blank ELSE bucketRow[k]

-----------------------------------------------------------------------------
(* Operations in general.                                                  *)

None == [x \in {} |-> NoRow]
Idle == [op |-> "none", first |-> "none", bk |-> None, ac |-> None]

BucketsFirst == "buckets"
AccountsFirst == "accounts"

\* What operation op still has to write: the rows of bk and ac (functions on
\* some of the keys and accounts), the table named by first before the other.
Pending(op, first, bk, ac) ==
  IF bk = None /\ ac = None THEN Idle
  ELSE [op |-> op, first |-> first, bk |-> bk, ac |-> ac]

\* Process p, with its mutex and freshly loaded rows, decides what to write.
Begin(p, op, first, bk, ac) ==
  /\ pend[p] = Idle
  /\ pend' = [pend EXCEPT ![p] = Pending(op, first, bk, ac)]
  /\ UNCHANGED <<now, acctRow, bucketRow, torn>>

\* SaveQuotaBucket and DeleteQuotaBucket, whole rows.
WriteBuckets(p) ==
  /\ pend[p].bk # None
  /\ pend[p].first = BucketsFirst \/ pend[p].ac = None
  /\ LET bk == pend[p].bk
     IN bucketRow' = [k \in Keys |-> IF k \in DOMAIN bk THEN bk[k] ELSE bucketRow[k]]
  /\ pend' = [pend EXCEPT ![p] = Pending(@.op, @.first, None, @.ac)]
  /\ UNCHANGED <<now, acctRow, errs, refreshing, probing, owed, torn>>

\* Would the row of a new account break UNIQUE(provider, subject)?
Taken(a) == acctRow[a] = NoRow /\ \E b \in Present : SubjectOf[b] = SubjectOf[a]

\* SaveAccount (an upsert of the whole row) and DeleteAccount.
WriteAccounts(p) ==
  /\ pend[p].ac # None
  /\ pend[p].first = AccountsFirst \/ pend[p].bk = None
  /\ LET ac == pend[p].ac
         refused == {a \in DOMAIN ac : ac[a] # NoRow /\ Taken(a)}
     IN /\ acctRow' = [a \in Accounts |->
                         IF a \in DOMAIN ac \ refused THEN ac[a] ELSE acctRow[a]]
        /\ torn' = IF refused # {} THEN "yes" ELSE torn
  /\ pend' = [pend EXCEPT ![p] = Pending(@.op, @.first, @.bk, None)]
  /\ UNCHANGED <<now, bucketRow, errs, refreshing, probing, owed>>

\* f where it is defined, else g.
Over(f, g) ==
  [x \in DOMAIN f \union DOMAIN g |-> IF x \in DOMAIN f THEN f[x] ELSE g[x]]

\* A mutant of Rekey: the moved bucket starts out blank.
RekeyBlank(k, l, row) ==
  IF k = l THEN [x \in {k} |-> row] ELSE [x \in {k, l} |-> IF x = l THEN Blank ELSE NoRow]

\* refreshBucketKeyLocked: the bucket at k, with new contents row, belongs
\* at l.  It moves there unless l has a bucket already; the row at k goes.
Rekey(k, l, row) ==
  IF k = l
  THEN [x \in {k} |-> row]
  ELSE IF l \in Loaded
       THEN [x \in {k} |-> NoRow]
       ELSE [x \in {k, l} |-> IF x = l THEN row ELSE NoRow]

-----------------------------------------------------------------------------
(* Observe: the effect of an upstream answer.                              *)

\* The longer cooldown wins.
applyBucketCooldown(cd, until) == IF cd > until THEN cd ELSE until

\* EffectCooldown, EffectOverload, EffectBlock and EffectAuthFail carry one.
Cooling == {"cooldown", "block", "authFail"}
\* EffectCooldown and EffectOverload do the same to the pool.
Kinds == Cooling \union {"success", "reject", "serverError"}

\* A mutant of Trips: the breaker needs a fourth error.
TripsLate(p, k, kind) == kind = "serverError" /\ errs[p][k] + 1 > 3

\* The circuit breaker: this is the third server error in a row.
Trips(p, k, kind) == kind = "serverError" /\ errs[p][k] + 1 >= 3

\* What the effect demands of the pool, by the same words.
Due(p, k, kind, until) ==
  IF kind \in Cooling THEN until
  ELSE IF kind = "serverError" /\ errs[p][k] = 2 THEN now + BreakerPause
  ELSE 0

\* kind at account a, with a cooldown until `until`, and the state the answer
\* carried (UpdatedState), or NoRow for none.
Observe(p, a, kind, until, state) ==
  LET k == acctRow[a].key
      old == Bucket(k)
      trip == Trips(p, k, kind)
      cd == IF kind \in Cooling THEN applyBucketCooldown(old.cd, until)
            ELSE IF trip THEN applyBucketCooldown(old.cd, now + BreakerPause)
            ELSE old.cd
      st == IF state = NoRow THEN old.state ELSE state
      l == IF state = NoRow THEN k ELSE KeyFor[<<SubjectOf[a], st.proj>>]
      row == [cd |-> cd, state |-> st]
      \* accounts to persist: this one, and the members whose key moves
      touched == {m \in Members(k) : (m = a /\ kind \in {"success", "serverError", "block"})
                                       \/ l # k}
      status(m) == IF m = a /\ kind = "block" THEN "blocked" ELSE acctRow[m].status
      due == Due(p, k, kind, until)
  IN /\ Begin(p, "observe", BucketsFirst,
              IF row # old \/ l # k THEN Rekey(k, l, row) ELSE None,
              [m \in touched |-> [status |-> status(m), key |-> l]])
     /\ errs' = [errs EXCEPT ![p][k] =
                   IF kind # "serverError" \/ trip THEN 0 ELSE @ + 1]
     /\ refreshing' = IF kind = "authFail" /\ refreshing[a] = "no"
                      THEN [refreshing EXCEPT ![a] = "auto"] ELSE refreshing
     /\ owed' = [m \in Accounts |->
                   IF m \in Members(k) /\ due > owed[m] THEN due ELSE owed[m]]
     /\ UNCHANGED probing

-----------------------------------------------------------------------------
(* The other writers.  Forgive(k) marks those that drop a cooldown on      *)
(* purpose.                                                                *)

Uncooled(k) ==
  IF Bucket(k).cd = 0 THEN None ELSE [x \in {k} |-> [Bucket(k) EXCEPT !.cd = 0]]
Forgive(k) ==
  owed' = [m \in Accounts |-> IF m \in Members(k) THEN 0 ELSE owed[m]]

ClearCooldown(p, a) ==
  LET k == acctRow[a].key
  IN /\ a \in Present
     /\ Bucket(k).cd # 0
     /\ Begin(p, "clear", BucketsFirst, Uncooled(k), None)
     /\ Forgive(k)
     /\ UNCHANGED <<errs, refreshing, probing>>

\* Update, by the administrator: of the status ("active" or "disabled"), of
\* something else (s is the status it has, state NoRow), or, after a sign-in
\* of a known subject, to "active" with the state the provider returned.  The
\* projected cooldown is written back as it was read, wherever the bucket is.
Update(p, a, s, state) ==
  LET k == acctRow[a].key
      l == IF state = NoRow THEN k ELSE KeyFor[<<SubjectOf[a], state.proj>>]
      row == [Bucket(k) EXCEPT !.state = IF state = NoRow THEN @ ELSE state]
  IN /\ s \in {"active", "disabled", acctRow[a].status}
     /\ state # NoRow => s = "active"
     /\ Begin(p, IF s = acctRow[a].status THEN "update" ELSE "setStatus",
              BucketsFirst,
              IF row = Bucket(k) /\ l = k THEN None
              ELSE Over([x \in {l} |-> row], Rekey(k, l, row)),
              [x \in {a} |-> [status |-> s, key |-> l]])
     /\ UNCHANGED <<errs, refreshing, probing, owed>>

\* A new sign-in, with the state the provider returned (Gemini's names the
\* project): its bucket starts with that state and without a cooldown,
\* whatever was there.
Add(p, a, state) ==
  LET k == KeyFor[<<SubjectOf[a], state.proj>>]
  IN /\ a \notin Present
     /\ Begin(p, "add", BucketsFirst, [x \in {k} |-> [cd |-> 0, state |-> state]],
              [x \in {a} |-> [status |-> "active", key |-> k]])
     /\ Forgive(k)
     /\ UNCHANGED <<errs, refreshing, probing>>

\* A mutant of Delete: the bucket stays behind.
DeleteKeepsBucket(p, a) ==
  /\ a \in Present
  /\ Begin(p, "delete", AccountsFirst, None, [x \in {a} |-> NoRow])
  /\ owed' = [owed EXCEPT ![a] = 0]
  /\ refreshing' = [refreshing EXCEPT ![a] = "no"]
  /\ probing' = probing \ {a}
  /\ UNCHANGED errs

\* The bucket goes with its last member.  The ID is not used again: what is
\* under way for it comes to nothing.
Delete(p, a) ==
  LET k == acctRow[a].key
  IN /\ a \in Present
     /\ Begin(p, "delete", AccountsFirst,
              IF Members(k) = {a} THEN [x \in {k} |-> NoRow] ELSE None,
              [x \in {a} |-> NoRow])
     /\ owed' = [owed EXCEPT ![a] = 0]
     /\ refreshing' = [refreshing EXCEPT ![a] = "no"]
     /\ probing' = probing \ {a}
     /\ UNCHANGED errs

\* A token refresh begins: a routed account's token is about to expire, or
\* the administrator asks for it.  It reads the account under the mutex.
StartRefresh(p, a, by) ==
  /\ pend[p] = Idle
  /\ a \in Present
  /\ refreshing[a] = "no"
  /\ by = "admin" \/ acctRow[a].status = "active"
  /\ refreshing' = [refreshing EXCEPT ![a] = by]
  /\ UNCHANGED <<now, acctRow, bucketRow, errs, pend, probing, owed, torn>>

\* It succeeded: StoreTokens makes the account active and drops the cooldown.
StoreTokens(p, a) ==
  LET k == acctRow[a].key
  IN /\ a \in Present
     /\ refreshing[a] # "no"
     /\ Begin(p, IF refreshing[a] = "auto" THEN "storeTokens" ELSE "adminTokens",
              BucketsFirst, Uncooled(k),
              [x \in {a} |-> [acctRow[a] EXCEPT !.status = "active"]])
     /\ Forgive(k)
     /\ refreshing' = [refreshing EXCEPT ![a] = "no"]
     /\ UNCHANGED <<errs, probing>>

\* It failed: the account is marked, or only its egress cell suffers.
MarkError(p, a) ==
  /\ a \in Present
  /\ refreshing[a] # "no"
  /\ Begin(p, "markError", AccountsFirst, None,
           [x \in {a} |-> [acctRow[a] EXCEPT !.status = "error"]])
  /\ refreshing' = [refreshing EXCEPT ![a] = "no"]
  /\ UNCHANGED <<errs, probing, owed>>

AbandonRefresh(p, a) ==
  /\ pend[p] = Idle
  /\ refreshing[a] # "no"
  /\ refreshing' = [refreshing EXCEPT ![a] = "no"]
  /\ UNCHANGED <<now, acctRow, bucketRow, errs, pend, probing, owed, torn>>

\* handleTestAccount: the status is looked at before the probe ...
StartProbe(p, a) ==
  /\ pend[p] = Idle
  /\ a \in Present
  /\ acctRow[a].status = "blocked"
  /\ probing' = probing \union {a}
  /\ UNCHANGED <<now, acctRow, bucketRow, errs, pend, refreshing, owed, torn>>

\* ... and a successful probe recovers every blocked member of the bucket.
RecoverBucket(p, a) ==
  LET k == acctRow[a].key
      blocked == {m \in Members(k) : acctRow[m].status = "blocked"}
  IN /\ a \in Present \intersect probing
     /\ Begin(p, "recover", AccountsFirst, Uncooled(k),
              [m \in blocked |-> [acctRow[m] EXCEPT !.status = "active"]])
     /\ Forgive(k)
     /\ probing' = probing \ {a}
     /\ UNCHANGED <<errs, refreshing>>

\* cleanup, phase 1 and 2 for bucket k: an expired cooldown is cleared, then
\* a bucket with an active member and exhausted quota cools until the reset.
CleanBucket(k) ==
  LET b == Bucket(k)
      cd == IF b.cd # 0 /\ now > b.cd THEN 0 ELSE b.cd
      exhausted == /\ \E a \in Members(k) : acctRow[a].status = "active"
                   /\ b.state.reset > now
  IN [b EXCEPT !.cd = IF cd = 0 /\ exhausted THEN b.state.reset ELSE cd]

\* A mutant of cleanup: blocked accounts recover with their bucket, as they
\* did before the comment at the top of phase 1 was written.
cleanupRecovers(p) ==
  LET changed == {k \in Loaded : CleanBucket(k) # Bucket(k)}
  IN /\ changed # {}
     /\ Begin(p, "cleanup", BucketsFirst, [k \in changed |-> CleanBucket(k)],
              [a \in UNION {Members(k) : k \in changed} |->
                 [acctRow[a] EXCEPT !.status = IF @ = "blocked" THEN "active" ELSE @]])
     /\ UNCHANGED <<errs, refreshing, probing, owed>>

cleanup(p) ==
  LET changed == {k \in Loaded : CleanBucket(k) # Bucket(k)}
  IN /\ changed # {}
     /\ Begin(p, "cleanup", BucketsFirst, [k \in changed |-> CleanBucket(k)], None)
     /\ UNCHANGED <<errs, refreshing, probing, owed>>

-----------------------------------------------------------------------------
(* Process life.                                                           *)

\* Process p stops, perhaps in the middle of an operation, and starts again:
\* New loads the rows, SetDrivers derives the bucket keys afresh.
Restart(p) ==
  LET derived(a) == KeyFor[<<SubjectOf[a], Bucket(acctRow[a].key).state.proj>>]
      moved == {a \in Present : derived(a) # acctRow[a].key}
      moves == {Rekey(acctRow[a].key, derived(a), Bucket(acctRow[a].key)) : a \in moved}
  IN /\ errs' = [errs EXCEPT ![p] = [k \in Keys |-> 0]]
     /\ torn' = IF pend[p] # Idle THEN "yes" ELSE torn
     /\ pend' = [pend EXCEPT ![p] =
          Pending("setDrivers", BucketsFirst,
                  [k \in UNION {DOMAIN m : m \in moves} |->
                     (CHOOSE m \in moves : k \in DOMAIN m)[k]],
                  [a \in moved |-> [acctRow[a] EXCEPT !.key = derived(a)]])]
     /\ refreshing' = [a \in Accounts |-> "no"]
     /\ probing' = {}
     /\ UNCHANGED <<now, acctRow, bucketRow, owed>>

Tick ==
  /\ now < MaxTime
  /\ now' = now + 1
  /\ owed' = [a \in Accounts |-> IF owed[a] <= now' THEN 0 ELSE owed[a]]
  /\ UNCHANGED <<acctRow, bucketRow, errs, pend, refreshing, probing, torn>>

Init ==
  /\ now = 0
  /\ acctRow = [a \in Accounts |-> NoRow]
  /\ bucketRow = [k \in Keys |-> NoRow]
  /\ errs = [p \in Procs |-> [k \in Keys |-> 0]]
  /\ pend = [p \in Procs |-> Idle]
  /\ refreshing = [a \in Accounts |-> "no"]
  /\ probing = {}
  /\ owed = [a \in Accounts |-> 0]
  /\ torn = "no"

\* The states an answer may carry.  It is worked out from the account as it
\* was when the request or the probe began, so it may be older than the
\* bucket's: even the project may be missing from it again.
Answers == {NoRow} \union States

Operate(p, a) ==
  \/ /\ a \in Present
     /\ \E kind \in Kinds, d \in Pauses, s \in Answers :
          Observe(p, a, kind, now + d, s)
  \/ /\ a \in Present
     /\ \E s \in Statuses, t \in Answers : Update(p, a, s, t)
  \/ \E s \in States : Add(p, a, s)
  \/ ClearCooldown(p, a) \/ Delete(p, a)
  \/ StoreTokens(p, a) \/ MarkError(p, a) \/ RecoverBucket(p, a)
  \/ AbandonRefresh(p, a) \/ StartProbe(p, a)
  \/ \E by \in {"auto", "admin"} : StartRefresh(p, a, by)

Next ==
  \/ \E p \in Procs : \/ \E a \in Accounts : Operate(p, a)
                      \/ cleanup(p) \/ WriteBuckets(p) \/ WriteAccounts(p)
                      \/ Restart(p)
  \/ Tick

Spec == Init /\ [][Next]_vars

\* An operation that has the mutex goes on to write its rows.
FairSpec ==
  Spec /\ \A p \in Procs : WF_vars(WriteBuckets(p) \/ WriteAccounts(p))

-----------------------------------------------------------------------------
(* Correctness.                                                            *)

TypeOK ==
  /\ now \in Nat
  /\ acctRow \in [Accounts -> AcctRows \union {NoRow}]
  /\ bucketRow \in [Keys -> BucketRows \union {NoRow}]
  /\ errs \in [Procs -> [Keys -> 0..2]]
  /\ \A p \in Procs : /\ DOMAIN pend[p].bk \subseteq Keys
                      /\ DOMAIN pend[p].ac \subseteq Accounts
  /\ refreshing \in [Accounts -> {"no", "auto", "admin"}]
  /\ probing \subseteq Accounts
  /\ owed \in [Accounts -> Nat]
  /\ torn \in {"no", "yes"}

\* No process is between the writes of an operation.
Quiet == \A p \in Procs : pend[p] = Idle

\* An account the upstream told us to leave alone until t (by a cooldown, a
\* block, a failed authentication or three server errors in a row) is cooling
\* until t at least, whatever is observed, updated, re-keyed, cleaned up or
\* restarted meanwhile, unless its cooldown was dropped on purpose or an
\* operation was cut short (applyBucketCooldown, refreshBucketKeyLocked, cleanup).
CooldownHonoured ==
  Quiet /\ torn = "no" =>
    \A a \in Present : now < owed[a] => Bucket(acctRow[a].key).cd >= owed[a]

\* Every bucket row has an account: moving and deleting leave no row behind
\* that a later account of the subject would inherit.
BucketsHaveMembers ==
  Quiet /\ torn = "no" => \A k \in Keys : bucketRow[k] # NoRow => Members(k) # {}

\* The operations that may turn account a from blocked to active.
Unblocks(a, ops) ==
  (a \in Present /\ acctRow[a].status = "blocked" /\ acctRow'[a] # NoRow
     /\ acctRow'[a].status = "active")
    => \E p \in Procs : pend[p].op \in ops /\ a \in DOMAIN pend[p].ac

\* A blocked account becomes active only by the administrator's status update,
\* a recovery after a probe, or newly stored tokens; no observation, clean-up
\* or restart does it.
UnblockedOnPurpose ==
  [][\A a \in Accounts :
       Unblocks(a, {"setStatus", "recover", "storeTokens", "adminTokens"})]_vars

\* As the comment on cleanup has it: "Blocked accounts are NOT auto-recovered -
\* they require manual admin intervention (set status to active) or a
\* successful probe."
BlockedNeedsAdminOrProbe ==
  [][\A a \in Accounts : Unblocks(a, {"setStatus", "recover", "adminTokens"})]_vars
=============================================================================
