----------------------------- MODULE RouteLease -----------------------------
(***************************************************************************)
(* The account pool's scheduler: AcquireRoute, the AttemptLease it returns *)
(* and the affinity claims that elect one owner for a cold conversation    *)
(* (internal/pool/pool_schedule.go).                                       *)
(*                                                                         *)
(* A request goroutine runs AcquireRoute in three interleavable pieces:    *)
(* the store read of the session binding, made WITHOUT the pool mutex; the *)
(* critical section that decides; and, for a follower of a pending claim,  *)
(* the wait on the claim's done channel.  Accept is two pieces (the store  *)
(* write, then the critical section that releases the claim), Finish and   *)
(* Abort are one.                                                          *)
(*                                                                         *)
(* Account health (status, cooldown, egress cell, surface, model capacity) *)
(* is one set, usable, that other parts of the broker change at any time.  *)
(* An account's bucket key may change while leases are out.                *)
(***************************************************************************)
EXTENDS Integers, FiniteSets

CONSTANTS
  Requests,     \* goroutines that call AcquireRoute
  Accounts,     \* account IDs
  Identities,   \* (provider, subject) pairs
  Providers,    \* upstream providers
  Buckets,      \* quota bucket keys, as numbers in the order of their strings
  Classes,      \* capacity classes (routeLoadKey.class)
  Keys,         \* affinity keys
  Ident,        \* [Accounts -> Identities]
  ProviderOf,   \* [Identities -> Providers]
  HomeBuckets,  \* [Accounts -> SUBSET Buckets]: the keys an account may have
  Weight,       \* [Accounts -> Nat]: bucketPriorityWeight of the account
  Calls,        \* the RouteRequest values a caller may pass
  MaxCalls,     \* bound: AcquireRoute calls per goroutine
  Unsteady,     \* bound: the accounts whose health and presence change
  NoAccount, NoIdent, NoKey, Nobody

ASSUME ConstantsAssumption ==
  /\ IsFiniteSet(Requests)
  /\ Buckets \subseteq Nat
  /\ Ident \in [Accounts -> Identities]
  /\ ProviderOf \in [Identities -> Providers]
  /\ HomeBuckets \in [Accounts -> SUBSET Buckets]
  /\ Weight \in [Accounts -> Nat \ {0}]
  /\ MaxCalls \in Nat
  /\ Unsteady \subseteq Accounts
  /\ Calls \subseteq [hard : Accounts \union {NoAccount},
                      key : Keys \union {NoKey},
                      require : BOOLEAN,
                      provider : Providers,
                      class : Classes,
                      exAccounts : SUBSET Accounts,
                      exBuckets : SUBSET Buckets]
  /\ Calls # {}
  /\ NoAccount \notin Accounts
  /\ NoIdent \notin Identities
  /\ NoKey \notin Keys
  /\ Nobody \notin Requests

VARIABLES
  accounts,  \* IDs the pool knows (p.accounts)
  usable,    \* IDs that pass surface, structural and capacity checks
  bucketOf,  \* bucket key of every ID
  binding,   \* store: session_bindings, by affinity key, live rows only
  claims,    \* p.affinityClaims: the goroutine whose claim is pending
  inflight,  \* p.routeLoads[k].inflight
  older,     \* pairs <<j, k>>: routeLoads[j].lastAssigned < routeLoads[k].lastAssigned
  pc,        \* where a goroutine is
  req,       \* its RouteRequest
  seen,      \* the binding it read before taking the mutex
  waitOn,    \* the claim it waits on
  lease,     \* its AttemptLease
  calls,     \* calls made so far (bounded by MaxCalls)
  owners     \* history: identities ever saved as the binding of a key

poolVars == <<accounts, usable, bucketOf>>
callVars == <<req, seen, calls>>
loadVars == <<inflight, older>>
vars == <<accounts, usable, bucketOf, binding, claims, inflight, older, pc,
          req, seen, waitOn, lease, calls, owners>>

LoadKeys == Buckets \X Classes
NoLease == [acct |-> NoAccount, load |-> <<0, 0>>, claim |-> NoKey]
Leases == [acct : Accounts, load : LoadKeys, claim : Keys \union {NoKey}]
Refusals == {"ownerMissing", "ownerUnavailable", "noRoute"}
\* A lease is out: inflight counts it until finish().
Holding == {"leased", "saved", "saveFailed", "accepted"}
\* Steps inside AcquireRoute.
Acquiring == {"load", "decide", "wait", "woken"}
PCs == {"idle"} \union Acquiring \union Holding \union Refusals

Provider(a) == ProviderOf[Ident[a]]

-----------------------------------------------------------------------------
(* acquireLocked: which accounts may it return?  {} stands for its error.  *)

Excluded(q, a) == a \in q.exAccounts \/ bucketOf[a] \in q.exBuckets

\* Accounts that survive the filters of the candidate loop.
Eligible(q) ==
  {a \in accounts : /\ ~Excluded(q, a)
                    /\ Provider(a) = q.provider
                    /\ a \in usable}

\* A bucket's priority is its best member's.
BucketWeight(q, b) ==
  LET ws == {Weight[a] : a \in {x \in Eligible(q) : bucketOf[x] = b}}
  IN CHOOSE w \in ws : \A v \in ws : v <= w

\* score(b) < score(c), then the least recently assigned, then the key order.
Beats(q, b, c) ==
  LET kb == <<b, q.class>>
      kc == <<c, q.class>>
      sb == (inflight[kb] + 1) * BucketWeight(q, c)
      sc == (inflight[kc] + 1) * BucketWeight(q, b)
  IN \/ sb < sc
     \/ /\ sb = sc
        /\ \/ <<kb, kc>> \in older
           \/ <<kc, kb>> \notin older /\ b < c

leastInflightCandidateLocked(q) ==
  LET cs == {bucketOf[a] : a \in Eligible(q)}
  IN {b \in cs : \A c \in cs \ {b} : Beats(q, b, c)}

\* The winning bucket's least recently used account: any of its candidates,
\* as LastUsedAt is not kept here.
Balanced(q) ==
  {a \in Eligible(q) : bucketOf[a] \in leastInflightCandidateLocked(q)}

\* A mutant of acquireLocked: a bound account skips the exclusions.
acquireLockedSkipsExclusions(q, bound) ==
  IF bound \in accounts /\ Provider(bound) = q.provider
  THEN {bound} \intersect usable
  ELSE IF bound \notin accounts /\ bound # NoAccount
       THEN {}
       ELSE Balanced(q)

\* With a bound account: that account or an error; but an account of another
\* provider is ignored and the call is balanced as if it were not bound.
acquireLocked(q, bound) ==
  IF bound \in accounts /\ Provider(bound) = q.provider
  THEN {bound} \intersect Eligible(q)
  ELSE IF bound \notin accounts /\ bound # NoAccount
       THEN {}
       ELSE Balanced(q)

\* accountIDForBindingLocked; (provider, subject) is unique in the store.
accountIDForBindingLocked(i) ==
  IF \E a \in accounts : Ident[a] = i
  THEN CHOOSE a \in accounts : Ident[a] = i
  ELSE NoAccount

-----------------------------------------------------------------------------
Init ==
  /\ accounts \in SUBSET Accounts
  /\ Accounts \ Unsteady \subseteq accounts
  /\ \A a, b \in accounts : Ident[a] = Ident[b] => a = b
  /\ usable = Accounts
  /\ bucketOf \in {f \in [Accounts -> Buckets] :
                     \A a \in Accounts : f[a] \in HomeBuckets[a]}
  /\ binding = [k \in Keys |-> NoIdent]
  /\ claims = [k \in Keys |-> Nobody]
  /\ inflight = [k \in LoadKeys |-> 0]
  /\ older = {}
  /\ pc = [r \in Requests |-> "idle"]
  /\ req \in [Requests -> {CHOOSE q \in Calls : TRUE}]
  /\ seen = [r \in Requests |-> NoIdent]
  /\ waitOn = [r \in Requests |-> Nobody]
  /\ lease = [r \in Requests |-> NoLease]
  /\ calls = [r \in Requests |-> 0]
  /\ owners = [k \in Keys |-> {}]

\* The caller enters AcquireRoute with a RouteRequest.
Call(r) ==
  /\ pc[r] = "idle"
  /\ calls[r] < MaxCalls
  /\ calls' = [calls EXCEPT ![r] = @ + 1]
  /\ \E q \in Calls : req' = [req EXCEPT ![r] = q]
  /\ pc' = [pc EXCEPT ![r] = "load"]
  /\ seen' = [seen EXCEPT ![r] = NoIdent]
  /\ UNCHANGED <<poolVars, binding, claims, loadVars, waitOn, lease, owners>>

\* Top of the loop: the binding is read from the store, before p.mu.Lock().
LoadBinding(r) ==
  /\ pc[r] \in {"load", "woken"}
  /\ seen' = [seen EXCEPT ![r] =
                IF req[r].hard = NoAccount /\ req[r].key # NoKey
                THEN binding[req[r].key]
                ELSE NoIdent]
  /\ pc' = [pc EXCEPT ![r] = "decide"]
  /\ waitOn' = [waitOn EXCEPT ![r] = Nobody]
  /\ UNCHANGED <<poolVars, binding, claims, loadVars, req, calls, lease, owners>>

\* refreshState or GetSessionBinding fails, or the caller's context ends:
\* AcquireRoute returns an error with nothing held.
AcquireAborts(r) ==
  /\ pc[r] \in Acquiring \ {"decide"}
  /\ pc' = [pc EXCEPT ![r] = "noRoute"]
  /\ waitOn' = [waitOn EXCEPT ![r] = Nobody]
  /\ UNCHANGED <<poolVars, binding, claims, loadVars, callVars, lease, owners>>

\* The account the call must try first: the hard one, else the owner the
\* binding named, if that owner is of the provider asked for.
Bound(r) ==
  IF req[r].hard # NoAccount
  THEN req[r].hard
  ELSE IF seen[r] # NoIdent /\ ProviderOf[seen[r]] = req[r].provider
       THEN accountIDForBindingLocked(seen[r])
       ELSE NoAccount

BoundRoutes(r) ==
  IF Bound(r) = NoAccount THEN {} ELSE acquireLocked(req[r], Bound(r))

\* Continuity is required, but no owner is known.
OwnerMissing(r) ==
  /\ req[r].require
  /\ IF req[r].key = NoKey
     THEN ~(req[r].hard \in accounts /\ Provider(req[r].hard) = req[r].provider)
     ELSE req[r].hard = NoAccount /\ seen[r] = NoIdent

\* Continuity is required and the known owner cannot take the call.
OwnerUnavailable(r) ==
  /\ req[r].require
  /\ req[r].hard = NoAccount
  /\ seen[r] # NoIdent
  /\ BoundRoutes(r) = {}

\* A mutant of Free: the continuity requirement is forgotten.
FreeIgnoresContinuity(r) ==
  /\ req[r].hard = NoAccount
  /\ BoundRoutes(r) = {}

\* Neither pinned nor tied to an owner that can serve: schedule it freely.
Free(r) ==
  /\ ~req[r].require
  /\ req[r].hard = NoAccount
  /\ BoundRoutes(r) = {}

Refuse(r, why) ==
  /\ pc' = [pc EXCEPT ![r] = why]
  /\ UNCHANGED <<poolVars, binding, claims, loadVars, callVars, waitOn, lease, owners>>

RefuseMissing(r) ==
  /\ pc[r] = "decide"
  /\ OwnerMissing(r)
  /\ Refuse(r, "ownerMissing")

RefuseUnavailable(r) ==
  /\ pc[r] = "decide"
  /\ ~OwnerMissing(r)
  /\ OwnerUnavailable(r)
  /\ Refuse(r, "ownerUnavailable")

\* The hard account is excluded, unavailable or unknown.
RefuseHard(r) ==
  /\ pc[r] = "decide"
  /\ ~OwnerMissing(r)
  /\ req[r].hard # NoAccount
  /\ BoundRoutes(r) = {}
  /\ Refuse(r, "noRoute")

\* leaseAccountLocked: count the lease and make its load key the newest.
\* claimed is the key whose claim the lease carries, NoKey for none.
leaseAccountLocked(r, a, claimed) ==
  LET k == <<bucketOf[a], req[r].class>>
  IN /\ inflight' = [inflight EXCEPT ![k] = @ + 1]
     /\ older' = {p \in older : p[1] # k /\ p[2] # k}
                   \union {<<j, k>> : j \in LoadKeys \ {k}}
     /\ lease' = [lease EXCEPT ![r] = [acct |-> a, load |-> k, claim |-> claimed]]
     /\ pc' = [pc EXCEPT ![r] = "leased"]

\* The bound account serves; no claim is taken, pending ones are passed by.
GrantBound(r) ==
  /\ pc[r] = "decide"
  /\ ~OwnerMissing(r)
  /\ \E a \in BoundRoutes(r) : leaseAccountLocked(r, a, NoKey)
  /\ UNCHANGED <<poolVars, binding, claims, callVars, waitOn, owners>>

\* Another goroutine is electing the owner of this key: wait for its claim.
Follow(r) ==
  /\ pc[r] = "decide"
  /\ Free(r)
  /\ req[r].key # NoKey
  /\ claims[req[r].key] # Nobody
  /\ pc' = [pc EXCEPT ![r] = "wait"]
  /\ waitOn' = [waitOn EXCEPT ![r] = claims[req[r].key]]
  /\ UNCHANGED <<poolVars, binding, claims, loadVars, callVars, lease, owners>>

NoPendingClaim(r) == req[r].key # NoKey => claims[req[r].key] = Nobody

\* The balanced grant; with an affinity key it installs the key's claim.
GrantFree(r) ==
  /\ pc[r] = "decide"
  /\ Free(r)
  /\ NoPendingClaim(r)
  /\ \E a \in Balanced(req[r]) : leaseAccountLocked(r, a, req[r].key)
  /\ claims' = IF req[r].key = NoKey
               THEN claims
               ELSE [claims EXCEPT ![req[r].key] = r]
  /\ UNCHANGED <<poolVars, binding, callVars, waitOn, owners>>

\* No candidate; the claim just installed is removed before the unlock.
RefuseFree(r) ==
  /\ pc[r] = "decide"
  /\ Free(r)
  /\ NoPendingClaim(r)
  /\ Balanced(req[r]) = {}
  /\ Refuse(r, "noRoute")

AcquireRoute(r) ==
  \/ LoadBinding(r)
  \/ RefuseMissing(r) \/ RefuseUnavailable(r) \/ RefuseHard(r) \/ RefuseFree(r)
  \/ GrantBound(r) \/ GrantFree(r)
  \/ Follow(r)

-----------------------------------------------------------------------------
(* The lease.                                                              *)

\* The claim r's lease points to is still the pending one of its key.
HoldsClaim(r) == lease[r].claim # NoKey /\ claims[lease[r].claim] = r

\* A mutant of releaseAffinityClaimLocked: any claim of the key is removed,
\* whoever owns it.
releaseAnyClaim(r, next) ==
  /\ claims' = IF lease[r].claim # NoKey
               THEN [claims EXCEPT ![lease[r].claim] = Nobody]
               ELSE claims
  /\ pc' = [w \in Requests |->
              IF w = r THEN next
              ELSE IF pc[w] = "wait" /\ waitOn[w] = r THEN "woken" ELSE pc[w]]

\* A mutant of releaseAffinityClaimLocked: done is never closed.
releaseWithoutClose(r, next) ==
  /\ claims' = IF HoldsClaim(r)
               THEN [claims EXCEPT ![lease[r].claim] = Nobody]
               ELSE claims
  /\ pc' = [pc EXCEPT ![r] = next]

\* releaseAffinityClaimLocked, and r moves on to next.  The claim is dropped
\* only if it is still r's; closing its done channel wakes every follower.
releaseAffinityClaimLocked(r, next) ==
  /\ claims' = IF HoldsClaim(r)
               THEN [claims EXCEPT ![lease[r].claim] = Nobody]
               ELSE claims
  /\ pc' = [w \in Requests |->
              IF w = r THEN next
              ELSE IF HoldsClaim(r) /\ pc[w] = "wait" /\ waitOn[w] = r
                   THEN "woken"
                   ELSE pc[w]]

\* Accept, first half: the binding is written, without the pool mutex.
AcceptSave(r) ==
  /\ pc[r] = "leased"
  /\ pc' = [pc EXCEPT ![r] = "saved"]
  /\ IF req[r].key = NoKey
     THEN UNCHANGED <<binding, owners>>
     ELSE /\ binding' = [binding EXCEPT ![req[r].key] = Ident[lease[r].acct]]
          /\ owners' = [owners EXCEPT ![req[r].key] = @ \union {Ident[lease[r].acct]}]
  /\ UNCHANGED <<poolVars, claims, loadVars, callVars, waitOn, lease>>

\* The store write failed: the claim is released, the lease stays.
AcceptFails(r) ==
  /\ pc[r] = "leased"
  /\ req[r].key # NoKey
  /\ releaseAffinityClaimLocked(r, "saveFailed")
  /\ UNCHANGED <<poolVars, binding, loadVars, callVars, waitOn, lease, owners>>

\* Accept, second half: accepted is set and the claim released.
AcceptRelease(r) ==
  /\ pc[r] = "saved"
  /\ releaseAffinityClaimLocked(r, "accepted")
  /\ UNCHANGED <<poolVars, binding, loadVars, callVars, waitOn, lease, owners>>

\* A mutant of Finish: a lease that was never accepted is not counted down.
FinishLeaksUnaccepted(r) ==
  /\ pc[r] \in Holding \ {"saved"}
  /\ inflight' = [inflight EXCEPT ![lease[r].load] =
                    IF pc[r] = "accepted" THEN @ - 1 ELSE @]
  /\ releaseAffinityClaimLocked(r, "idle")
  /\ lease' = [lease EXCEPT ![r] = NoLease]
  /\ UNCHANGED <<poolVars, binding, older, callVars, waitOn, owners>>

\* A mutant of Finish: the load key is computed again from the account, and
\* the counter is not guarded against zero.
FinishRecomputesKey(r) ==
  LET k == <<bucketOf[lease[r].acct], req[r].class>>
  IN /\ pc[r] \in Holding \ {"saved"}
     /\ inflight' = [inflight EXCEPT ![k] = @ - 1]
     /\ releaseAffinityClaimLocked(r, "idle")
     /\ lease' = [lease EXCEPT ![r] = NoLease]
     /\ UNCHANGED <<poolVars, binding, older, callVars, waitOn, owners>>

\* A mutant of Finish: only the counter is released, the claim stays.
FinishKeepsClaim(r) ==
  /\ pc[r] \in Holding \ {"saved"}
  /\ inflight' = [inflight EXCEPT ![lease[r].load] = IF @ > 0 THEN @ - 1 ELSE @]
  /\ pc' = [pc EXCEPT ![r] = "idle"]
  /\ lease' = [lease EXCEPT ![r] = NoLease]
  /\ UNCHANGED <<poolVars, binding, claims, older, callVars, waitOn, owners>>

\* Finish and Abort, in any state of the lease outside Accept itself.
Finish(r) ==
  /\ pc[r] \in Holding \ {"saved"}
  /\ inflight' = [inflight EXCEPT ![lease[r].load] = IF @ > 0 THEN @ - 1 ELSE @]
  /\ releaseAffinityClaimLocked(r, "idle")
  /\ lease' = [lease EXCEPT ![r] = NoLease]
  /\ UNCHANGED <<poolVars, binding, older, callVars, waitOn, owners>>

\* The caller has its error.
Return(r) ==
  /\ pc[r] \in Refusals
  /\ pc' = [pc EXCEPT ![r] = "idle"]
  /\ UNCHANGED <<poolVars, binding, claims, loadVars, callVars, waitOn, lease, owners>>

-----------------------------------------------------------------------------
(* The rest of the broker, as the scheduler sees it.                       *)

schedVars == <<claims, loadVars, pc, callVars, waitOn, lease, owners>>

\* A binding expires, is purged, or is deleted by an administrator.
DropBinding(k) ==
  /\ binding[k] # NoIdent
  /\ binding' = [binding EXCEPT ![k] = NoIdent]
  /\ UNCHANGED <<poolVars, schedVars>>

\* Cooldowns, blocks, cell failures and recoveries.
ChangeHealth(a) ==
  /\ usable' = IF a \in usable THEN usable \ {a} ELSE usable \union {a}
  /\ UNCHANGED <<accounts, bucketOf, binding, schedVars>>

\* Delete, and Add under a new ID (subject to UNIQUE(provider, subject)).
ChangeAccounts(a) ==
  /\ accounts' = IF a \in accounts THEN accounts \ {a} ELSE accounts \union {a}
  /\ a \notin accounts => \A b \in accounts : Ident[b] # Ident[a]
  /\ UNCHANGED <<usable, bucketOf, binding, schedVars>>

\* refreshBucketKeyLocked: the account's bucket key is derived anew.
ChangeBucket(a) ==
  /\ \E b \in HomeBuckets[a] \ {bucketOf[a]} : bucketOf' = [bucketOf EXCEPT ![a] = b]
  /\ UNCHANGED <<accounts, usable, binding, schedVars>>

\* The process restarts: everything but the store's rows is lost.
Restart ==
  /\ claims' = [k \in Keys |-> Nobody]
  /\ inflight' = [k \in LoadKeys |-> 0]
  /\ older' = {}
  /\ pc' = [r \in Requests |-> "idle"]
  /\ waitOn' = [r \in Requests |-> Nobody]
  /\ lease' = [r \in Requests |-> NoLease]
  /\ UNCHANGED <<poolVars, binding, callVars, owners>>

Step(r) == AcquireRoute(r) \/ AcceptSave(r) \/ AcceptRelease(r) \/ Finish(r) \/ Return(r)

Next ==
  \/ \E r \in Requests : Step(r) \/ Call(r) \/ AcquireAborts(r) \/ AcceptFails(r)
  \/ \E k \in Keys : DropBinding(k)
  \/ \E a \in Unsteady : ChangeHealth(a) \/ ChangeAccounts(a)
  \/ \E a \in Accounts : ChangeBucket(a)
  \/ Restart

Spec == Init /\ [][Next]_vars

\* Every goroutine keeps running: the scheduler runs it, the relay defers
\* lease.Abort() and its upstream calls have timeouts.
FairSpec == Spec /\ \A r \in Requests : WF_vars(Step(r))

-----------------------------------------------------------------------------
(* Correctness.                                                            *)

TypeOK ==
  /\ accounts \subseteq Accounts
  /\ usable \subseteq Accounts
  /\ bucketOf \in [Accounts -> Buckets]
  /\ binding \in [Keys -> Identities \union {NoIdent}]
  /\ claims \in [Keys -> Requests \union {Nobody}]
  /\ inflight \in [LoadKeys -> Nat]
  /\ older \subseteq LoadKeys \X LoadKeys
  /\ pc \in [Requests -> PCs]
  /\ req \in [Requests -> Calls]
  /\ seen \in [Requests -> Identities \union {NoIdent}]
  /\ waitOn \in [Requests -> Requests \union {Nobody}]
  /\ lease \in [Requests -> Leases \union {NoLease}]
  /\ calls \in [Requests -> Nat]
  /\ owners \in [Keys -> SUBSET Identities]

\* Leases that count against load key k.
LeasesOn(k) == {r \in Requests : pc[r] \in Holding /\ lease[r].load = k}

\* Every in-flight counter is the number of leases out on its key: no lease
\* is leaked or counted twice, whatever order Accept, Finish, Abort, account
\* deletion and bucket re-keying happen in (leaseAccountLocked, finish).
LoadMatchesLeases ==
  \A k \in LoadKeys : inflight[k] = Cardinality(LeasesOn(k))

\* A pending claim always belongs to a lease that is still out and not yet
\* accepted: no claim is orphaned by an error path, so followers of a key
\* always wait for somebody (AcquireRoute, Accept, finish).
ClaimsHaveOwners ==
  \A k \in Keys : claims[k] # Nobody =>
    LET r == claims[k] IN /\ pc[r] \in {"leased", "saved"}
                          /\ lease[r].claim = k

\* While a goroutine is electing the owner of a key its claim stands: nobody
\* else's release can remove it, so a key never has two electors.
OneElectorPerKey ==
  \A r \in Requests :
    pc[r] \in {"leased", "saved"} /\ lease[r].claim # NoKey => claims[lease[r].claim] = r

\* A follower waits on the claim that is pending for its key now: no wakeup
\* is lost (affinityClaim.done).
FollowersTrackClaim ==
  \A r \in Requests : pc[r] = "wait" => /\ waitOn[r] # Nobody
                                        /\ claims[req[r].key] = waitOn[r]

\* A lease honours its RouteRequest: the account is of the provider asked
\* for, is not an excluded account, and is the pinned account when the pin is
\* of that provider (acquireLocked).
LeaseHonoursRequest ==
  \A r \in Requests : pc[r] \in Holding =>
    LET a == lease[r].acct
        q == req[r]
    IN /\ Provider(a) = q.provider
       /\ a \notin q.exAccounts
       /\ lease[r].load[1] \notin q.exBuckets
       /\ q.hard # NoAccount /\ Provider(q.hard) = q.provider => a = q.hard

\* A call that requires continuity and carries no pin is only ever leased an
\* account whose identity was accepted for its key before.
RequireStaysWithOwner ==
  \A r \in Requests :
    pc[r] \in Holding /\ req[r].require /\ req[r].hard = NoAccount =>
      Ident[lease[r].acct] \in owners[req[r].key]

\* The same for every call that requires continuity, unless it is pinned to
\* an account of the provider it asks for.
RequireNeverMigrates ==
  \A r \in Requests :
    /\ pc[r] \in Holding /\ req[r].require
    /\ req[r].hard = NoAccount \/ Provider(req[r].hard) # req[r].provider
    => /\ req[r].key # NoKey
       /\ Ident[lease[r].acct] \in owners[req[r].key]

\* A call scheduled while its key is bound to an account that could serve it
\* gets that account: followers join the accepted owner.
JoinsOwner(r) ==
  LET own == accountIDForBindingLocked(binding[req[r].key])
  IN /\ pc[r] = "decide"
     /\ pc'[r] = "leased"
     /\ req[r].key # NoKey
     /\ req[r].hard = NoAccount
     /\ binding[req[r].key] # NoIdent
     /\ own \in Eligible(req[r])
     => lease'[r].acct = own

FollowerJoinsOwner == [][\A r \in Requests : JoinsOwner(r)]_vars

\* Every call of AcquireRoute returns: no follower waits for ever.
AcquireReturns ==
  \A r \in Requests : pc[r] \in Acquiring ~> pc[r] \notin Acquiring
=============================================================================
