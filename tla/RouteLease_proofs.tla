------------------------- MODULE RouteLease_proofs -------------------------
(***************************************************************************)
(* Proofs about the scheduler, for every set of goroutines, accounts,      *)
(* buckets, classes, keys and calls.                                       *)
(***************************************************************************)
EXTENDS RouteLease, FiniteSetTheorems, TLAPS

\* A lease record is there exactly while the lease is out, and only a call
\* with an affinity key holds a claim or waits for one.
LeaseShape ==
  \A r \in Requests :
    /\ pc[r] \in Holding => lease[r] \in Leases
    /\ pc[r] \notin Holding => lease[r] = NoLease
    /\ lease[r].claim \in {req[r].key, NoKey}
    /\ pc[r] = "wait" => req[r].key \in Keys

\* What a goroutine read, and what the store holds, was accepted before.
OwnersKnown ==
  /\ \A k \in Keys : binding[k] # NoIdent => binding[k] \in owners[k]
  /\ \A r \in Requests : pc[r] = "decide" /\ seen[r] # NoIdent =>
       req[r].key \in Keys /\ seen[r] \in owners[req[r].key]

ClaimInv ==
  /\ ClaimsHaveOwners
  /\ OneElectorPerKey
  /\ FollowersTrackClaim

USE DEF Holding, Acquiring, Refusals, PCs

\* acquireLocked only ever returns accounts that passed the filters.
LEMMA RoutesAreEligible ==
  ASSUME NEW q, NEW b
  PROVE  /\ Balanced(q) \subseteq Eligible(q)
         /\ acquireLocked(q, b) \subseteq Eligible(q)
         /\ Eligible(q) \subseteq accounts
BY DEF Balanced, acquireLocked, Eligible

\* So do the routes of a bound call.
LEMMA BoundRoutesAreEligible ==
  ASSUME NEW r
  PROVE  BoundRoutes(r) \subseteq Eligible(req[r])
BY RoutesAreEligible DEF BoundRoutes

\* The fields of a call have their types.
LEMMA CallFields ==
  ASSUME NEW q \in Calls
  PROVE  /\ q.hard \in Accounts \union {NoAccount}
         /\ q.key \in Keys \union {NoKey}
         /\ q.require \in BOOLEAN
         /\ q.provider \in Providers
         /\ q.class \in Classes
BY ConstantsAssumption

\* The effect of leaseAccountLocked on the types.
LEMMA LeaseTypes ==
  ASSUME TypeOK, NEW r \in Requests, NEW a \in Accounts, NEW c \in Keys \union {NoKey},
         leaseAccountLocked(r, a, c)
  PROVE  /\ inflight' \in [LoadKeys -> Nat]
         /\ older' \subseteq LoadKeys \X LoadKeys
         /\ lease' \in [Requests -> Leases \union {NoLease}]
         /\ pc' \in [Requests -> PCs]
<1> DEFINE k == <<bucketOf[a], req[r].class>>
<1>1. k \in LoadKeys
  BY CallFields DEF TypeOK, LoadKeys
<1>2. inflight' \in [LoadKeys -> Nat]
  BY <1>1 DEF TypeOK, leaseAccountLocked
<1>3. older' \subseteq LoadKeys \X LoadKeys
  <2>1. older' = {p \in older : p[1] # k /\ p[2] # k}
                   \union {<<j, k>> : j \in LoadKeys \ {k}}
    BY DEF leaseAccountLocked
  <2> HIDE DEF k
  <2>2. {<<j, k>> : j \in LoadKeys \ {k}} \subseteq LoadKeys \X LoadKeys
    BY <1>1
  <2>3. QED
    BY <2>1, <2>2 DEF TypeOK
<1>4. lease' \in [Requests -> Leases \union {NoLease}]
  BY <1>1 DEF TypeOK, leaseAccountLocked, Leases
<1>5. pc' \in [Requests -> PCs]
  BY DEF TypeOK, leaseAccountLocked
<1>6. QED
  BY <1>2, <1>3, <1>4, <1>5

\* The effect of releaseAffinityClaimLocked on the types.
LEMMA ReleaseTypes ==
  ASSUME TypeOK, NEW r \in Requests, NEW s \in PCs,
         releaseAffinityClaimLocked(r, s)
  PROVE  /\ claims' \in [Keys -> Requests \union {Nobody}]
         /\ pc' \in [Requests -> PCs]
BY DEF TypeOK, releaseAffinityClaimLocked

\* One step preserves the types.
LEMMA NextType ==
  ASSUME TypeOK, LeaseShape, [Next]_vars
  PROVE  TypeOK'
<1> USE DEF TypeOK, poolVars, callVars, loadVars
<1>1. ASSUME NEW r \in Requests, Call(r) PROVE TypeOK'
  BY <1>1 DEF Call
<1>2. ASSUME NEW r \in Requests, LoadBinding(r) PROVE TypeOK'
  BY <1>2, CallFields DEF LoadBinding
<1>3. ASSUME NEW r \in Requests, AcquireAborts(r) PROVE TypeOK'
  BY <1>3 DEF AcquireAborts
<1>4. ASSUME NEW r \in Requests, NEW why \in Refusals, Refuse(r, why) PROVE TypeOK'
  BY <1>4 DEF Refuse
<1>5. ASSUME NEW r \in Requests,
             RefuseMissing(r) \/ RefuseUnavailable(r) \/ RefuseHard(r) \/ RefuseFree(r)
      PROVE  TypeOK'
  BY <1>4, <1>5 DEF RefuseMissing, RefuseUnavailable, RefuseHard, RefuseFree
<1>6. ASSUME NEW r \in Requests, GrantBound(r) PROVE TypeOK'
  <2>1. PICK a \in Accounts : leaseAccountLocked(r, a, NoKey)
    BY <1>6, BoundRoutesAreEligible DEF GrantBound, Eligible
  <2>2. QED
    BY <1>6, <2>1, LeaseTypes DEF GrantBound
<1>7. ASSUME NEW r \in Requests, GrantFree(r) PROVE TypeOK'
  <2>1. PICK a \in Accounts : leaseAccountLocked(r, a, req[r].key)
    BY <1>7, RoutesAreEligible DEF GrantFree, Eligible
  <2>2. req[r].key \in Keys \union {NoKey}
    BY CallFields
  <2>3. claims' \in [Keys -> Requests \union {Nobody}]
    BY <1>7, CallFields DEF GrantFree
  <2>4. /\ inflight' \in [LoadKeys -> Nat]
        /\ older' \subseteq LoadKeys \X LoadKeys
        /\ lease' \in [Requests -> Leases \union {NoLease}]
        /\ pc' \in [Requests -> PCs]
    BY <2>1, <2>2, LeaseTypes
  <2>5. QED
    BY <1>7, <2>3, <2>4 DEF GrantFree
<1>8. ASSUME NEW r \in Requests, Follow(r) PROVE TypeOK'
  BY <1>8, CallFields DEF Follow
<1>9. ASSUME NEW r \in Requests, AcceptSave(r) PROVE TypeOK'
  <2>1. Ident[lease[r].acct] \in Identities
    BY <1>9, ConstantsAssumption DEF LeaseShape, Leases, AcceptSave
  <2>2. QED
    BY <1>9, <2>1, CallFields DEF AcceptSave
<1>10. ASSUME NEW r \in Requests, AcceptFails(r) PROVE TypeOK'
  BY <1>10, ReleaseTypes DEF AcceptFails
<1>11. ASSUME NEW r \in Requests, AcceptRelease(r) PROVE TypeOK'
  BY <1>11, ReleaseTypes DEF AcceptRelease
<1>12. ASSUME NEW r \in Requests, Finish(r) PROVE TypeOK'
  <2>1. lease[r].load \in LoadKeys
    BY <1>12 DEF Finish, LeaseShape, Leases
  <2>2. inflight' \in [LoadKeys -> Nat]
    BY <1>12, <2>1 DEF Finish
  <2>3. QED
    BY <1>12, <2>2, ReleaseTypes DEF Finish
<1>13. ASSUME NEW r \in Requests, Return(r) PROVE TypeOK'
  BY <1>13 DEF Return
<1>14. ASSUME NEW k \in Keys, DropBinding(k) PROVE TypeOK'
  BY <1>14 DEF DropBinding, schedVars
<1>15. ASSUME NEW a \in Unsteady, ChangeHealth(a) \/ ChangeAccounts(a) PROVE TypeOK'
  BY <1>15, ConstantsAssumption DEF ChangeHealth, ChangeAccounts, schedVars
<1>16. ASSUME NEW a \in Accounts, ChangeBucket(a) PROVE TypeOK'
  <2>1. PICK b \in HomeBuckets[a] : bucketOf' = [bucketOf EXCEPT ![a] = b]
    BY <1>16 DEF ChangeBucket
  <2>2. b \in Buckets
    BY <2>1, ConstantsAssumption
  <2>3. bucketOf' \in [Accounts -> Buckets]
    BY <2>1, <2>2
  <2>4. QED
    BY <1>16, <2>3 DEF ChangeBucket, schedVars
<1>17. CASE Restart
  BY <1>17 DEF Restart
<1>18. CASE UNCHANGED vars
  BY <1>18 DEF vars
<1>19. QED
  BY <1>1, <1>2, <1>3, <1>5, <1>6, <1>7, <1>8, <1>9, <1>10, <1>11, <1>12,
     <1>13, <1>14, <1>15, <1>16, <1>17, <1>18
     DEF Next, Step, AcquireRoute

\* One step preserves the shape of the leases.
LEMMA NextShape ==
  ASSUME TypeOK, LeaseShape, [Next]_vars
  PROVE  LeaseShape'
<1> USE DEF TypeOK, LeaseShape, poolVars, callVars, loadVars
<1>1. ASSUME NEW r \in Requests, Call(r) PROVE LeaseShape'
  BY <1>1 DEF Call, NoLease
<1>2. ASSUME NEW r \in Requests, LoadBinding(r) \/ AcquireAborts(r) \/ Follow(r)
      PROVE  LeaseShape'
  BY <1>2, CallFields DEF LoadBinding, AcquireAborts, Follow
<1>3. ASSUME NEW r \in Requests,
             RefuseMissing(r) \/ RefuseUnavailable(r) \/ RefuseHard(r) \/ RefuseFree(r)
      PROVE  LeaseShape'
  BY <1>3 DEF RefuseMissing, RefuseUnavailable, RefuseHard, RefuseFree, Refuse
<1>4. ASSUME NEW r \in Requests, GrantBound(r) PROVE LeaseShape'
  <2>1. PICK a \in Accounts : leaseAccountLocked(r, a, NoKey)
    BY <1>4, BoundRoutesAreEligible DEF GrantBound, Eligible
  <2>2. <<bucketOf[a], req[r].class>> \in LoadKeys
    BY CallFields DEF LoadKeys
  <2>3. QED
    BY <1>4, <2>1, <2>2 DEF GrantBound, leaseAccountLocked, Leases
<1>5. ASSUME NEW r \in Requests, GrantFree(r) PROVE LeaseShape'
  <2>1. PICK a \in Accounts : leaseAccountLocked(r, a, req[r].key)
    BY <1>5, RoutesAreEligible DEF GrantFree, Eligible
  <2>2. <<bucketOf[a], req[r].class>> \in LoadKeys
    BY CallFields DEF LoadKeys
  <2>3. QED
    BY <1>5, <2>1, <2>2, CallFields DEF GrantFree, leaseAccountLocked, Leases
<1>6. ASSUME NEW r \in Requests, AcceptSave(r) \/ Return(r) PROVE LeaseShape'
  BY <1>6 DEF AcceptSave, Return
<1>7. ASSUME NEW r \in Requests, AcceptFails(r) \/ AcceptRelease(r) PROVE LeaseShape'
  BY <1>7 DEF AcceptFails, AcceptRelease, releaseAffinityClaimLocked
<1>8. ASSUME NEW r \in Requests, Finish(r) PROVE LeaseShape'
  BY <1>8 DEF Finish, releaseAffinityClaimLocked, NoLease
<1>9. ASSUME NEW k \in Keys, DropBinding(k) PROVE LeaseShape'
  BY <1>9 DEF DropBinding, schedVars
<1>10. ASSUME NEW a, ChangeHealth(a) \/ ChangeAccounts(a) \/ ChangeBucket(a)
       PROVE  LeaseShape'
  BY <1>10 DEF ChangeHealth, ChangeAccounts, ChangeBucket, schedVars
<1>11. CASE Restart
  BY <1>11 DEF Restart, NoLease
<1>12. CASE UNCHANGED vars
  BY <1>12 DEF vars
<1>13. QED
  BY <1>1, <1>2, <1>3, <1>4, <1>5, <1>6, <1>7, <1>8, <1>9, <1>10, <1>11, <1>12
     DEF Next, Step, AcquireRoute

\* Every state of the scheduler is well typed, and every goroutine between
\* AcquireRoute and Finish holds a proper lease.
THEOREM TypeCorrect == Spec => [](TypeOK /\ LeaseShape)
<1>1. Init => TypeOK /\ LeaseShape
  BY ConstantsAssumption DEF Init, TypeOK, LeaseShape, NoLease
<1>2. TypeOK /\ LeaseShape /\ [Next]_vars => (TypeOK /\ LeaseShape)'
  BY NextType, NextShape
<1>3. QED
  BY <1>1, <1>2, PTL DEF Spec

-----------------------------------------------------------------------------
\* Dropping a claim keeps the claim invariant, as long as the goroutine that
\* drops it leaves the states in which it elects.
LEMMA ReleaseKeepsClaims ==
  ASSUME TypeOK, LeaseShape, ClaimInv, NEW r \in Requests,
         pc[r] \in Holding,
         NEW s \in {"idle", "saveFailed", "accepted"},
         releaseAffinityClaimLocked(r, s),
         req' = req, waitOn' = waitOn,
         \A w \in Requests \ {r} : lease'[w] = lease[w]
  PROVE  ClaimInv'
<1> USE DEF TypeOK, ClaimInv, LeaseShape
<1>1. \A w \in Requests \ {r} :
        pc'[w] = IF HoldsClaim(r) /\ pc[w] = "wait" /\ waitOn[w] = r
                 THEN "woken" ELSE pc[w]
  BY DEF releaseAffinityClaimLocked
<1>2. pc'[r] = s
  BY DEF releaseAffinityClaimLocked
<1>3. \A k \in Keys : claims'[k] = IF HoldsClaim(r) /\ k = lease[r].claim
                                   THEN Nobody ELSE claims[k]
  BY DEF releaseAffinityClaimLocked, HoldsClaim
<1>4. \A k \in Keys : claims[k] = r => HoldsClaim(r) /\ k = lease[r].claim
  BY ConstantsAssumption DEF ClaimsHaveOwners, HoldsClaim
<1>5. ClaimsHaveOwners'
  BY <1>1, <1>2, <1>3, <1>4 DEF ClaimsHaveOwners
<1>6. OneElectorPerKey'
  <2> SUFFICES ASSUME NEW w \in Requests, pc'[w] \in {"leased", "saved"},
                      lease'[w].claim # NoKey
               PROVE  claims'[lease'[w].claim] = w
    BY DEF OneElectorPerKey
  <2>1. w # r /\ pc[w] \in {"leased", "saved"} /\ lease'[w] = lease[w]
    BY <1>1, <1>2
  <2>2. lease[w].claim \in Keys /\ claims[lease[w].claim] = w
    BY <2>1 DEF OneElectorPerKey, Leases
  <2>3. QED
    BY <1>3, <2>1, <2>2 DEF HoldsClaim
<1>7. FollowersTrackClaim'
  <2> SUFFICES ASSUME NEW w \in Requests, pc'[w] = "wait"
               PROVE  waitOn[w] # Nobody /\ claims'[req[w].key] = waitOn[w]
    BY DEF FollowersTrackClaim
  <2>1. w # r /\ pc[w] = "wait" /\ ~(HoldsClaim(r) /\ waitOn[w] = r)
    BY <1>1, <1>2
  <2>2. waitOn[w] # Nobody /\ claims[req[w].key] = waitOn[w]
    BY <2>1 DEF FollowersTrackClaim
  <2>3. claims' = claims \/ claims' = [claims EXCEPT ![lease[r].claim] = Nobody]
    BY DEF releaseAffinityClaimLocked
  <2>4. CASE ~HoldsClaim(r)
    BY <2>2, <2>4 DEF releaseAffinityClaimLocked
  <2>5. CASE HoldsClaim(r)
    <3>1. req[w].key # lease[r].claim
      BY <2>1, <2>2, <2>5 DEF HoldsClaim
    <3>2. claims'[req[w].key] = claims[req[w].key]
      BY <2>1, <2>3, <3>1
    <3>3. QED
      BY <2>2, <3>2
  <2>6. QED
    BY <2>4, <2>5
<1>8. QED
  BY <1>5, <1>6, <1>7

\* One step preserves the claim invariant.
LEMMA NextClaims ==
  ASSUME TypeOK, LeaseShape, ClaimInv, [Next]_vars
  PROVE  ClaimInv'
<1> USE DEF TypeOK, poolVars, callVars, loadVars
<1>1. ASSUME NEW r \in Requests, Call(r) PROVE ClaimInv'
  BY <1>1 DEF Call, ClaimInv, ClaimsHaveOwners, OneElectorPerKey, FollowersTrackClaim
<1>2. ASSUME NEW r \in Requests, LoadBinding(r) \/ AcquireAborts(r) PROVE ClaimInv'
  BY <1>2 DEF LoadBinding, AcquireAborts, ClaimInv, ClaimsHaveOwners,
              OneElectorPerKey, FollowersTrackClaim
<1>3. ASSUME NEW r \in Requests, Follow(r) PROVE ClaimInv'
  BY <1>3 DEF Follow, ClaimInv, ClaimsHaveOwners, OneElectorPerKey, FollowersTrackClaim
<1>4. ASSUME NEW r \in Requests,
             RefuseMissing(r) \/ RefuseUnavailable(r) \/ RefuseHard(r) \/ RefuseFree(r)
      PROVE  ClaimInv'
  BY <1>4 DEF RefuseMissing, RefuseUnavailable, RefuseHard, RefuseFree, Refuse,
              ClaimInv, ClaimsHaveOwners, OneElectorPerKey, FollowersTrackClaim
<1>5. ASSUME NEW r \in Requests, GrantBound(r) PROVE ClaimInv'
  <2>1. PICK a \in Accounts : leaseAccountLocked(r, a, NoKey)
    BY <1>5, BoundRoutesAreEligible DEF GrantBound, Eligible
  <2>2. /\ pc' = [pc EXCEPT ![r] = "leased"]
        /\ lease'[r].claim = NoKey
        /\ \A w \in Requests \ {r} : lease'[w] = lease[w]
    BY <2>1 DEF leaseAccountLocked
  <2>3. pc[r] = "decide" /\ UNCHANGED <<claims, req, waitOn>>
    BY <1>5 DEF GrantBound
  <2>4. QED
    BY <2>2, <2>3 DEF ClaimInv, ClaimsHaveOwners, OneElectorPerKey, FollowersTrackClaim
<1>6. ASSUME NEW r \in Requests, GrantFree(r) PROVE ClaimInv'
  <2>1. PICK a \in Accounts : leaseAccountLocked(r, a, req[r].key)
    BY <1>6, RoutesAreEligible DEF GrantFree, Eligible
  <2>2. /\ pc' = [pc EXCEPT ![r] = "leased"]
        /\ lease'[r].claim = req[r].key
        /\ \A w \in Requests \ {r} : lease'[w] = lease[w]
    BY <2>1 DEF leaseAccountLocked
  <2>3. pc[r] = "decide" /\ UNCHANGED <<req, waitOn>>
    BY <1>6 DEF GrantFree
  <2>4. CASE req[r].key = NoKey
    <3>1. claims' = claims
      BY <1>6, <2>4 DEF GrantFree
    <3>2. QED
      BY <2>2, <2>3, <2>4, <3>1
         DEF ClaimInv, ClaimsHaveOwners, OneElectorPerKey, FollowersTrackClaim
  <2>5. CASE req[r].key # NoKey
    <3>1. req[r].key \in Keys /\ claims[req[r].key] = Nobody
      BY <1>6, <2>5, CallFields DEF GrantFree, NoPendingClaim
    <3>2. claims' = [claims EXCEPT ![req[r].key] = r]
      BY <1>6, <2>5 DEF GrantFree
    <3>3. \A k \in Keys : claims'[k] = IF k = req[r].key THEN r ELSE claims[k]
      BY <3>2
    <3>4. ClaimsHaveOwners'
      BY <2>2, <2>3, <3>1, <3>3 DEF ClaimInv, ClaimsHaveOwners
    <3>5. OneElectorPerKey'
      BY <2>2, <2>3, <3>1, <3>3, ConstantsAssumption
         DEF ClaimInv, OneElectorPerKey, LeaseShape
    <3>6. FollowersTrackClaim'
      BY <2>2, <2>3, <3>1, <3>2, <3>3 DEF ClaimInv, FollowersTrackClaim
    <3>7. QED
      BY <3>4, <3>5, <3>6 DEF ClaimInv
  <2>6. QED
    BY <2>4, <2>5
<1>7. ASSUME NEW r \in Requests, AcceptSave(r) \/ Return(r) PROVE ClaimInv'
  BY <1>7 DEF AcceptSave, Return, ClaimInv, ClaimsHaveOwners, OneElectorPerKey,
              FollowersTrackClaim
<1>8. ASSUME NEW r \in Requests, AcceptFails(r) \/ AcceptRelease(r) PROVE ClaimInv'
  BY <1>8, ReleaseKeepsClaims DEF AcceptFails, AcceptRelease
<1>9. ASSUME NEW r \in Requests, Finish(r) PROVE ClaimInv'
  <2>1. \A w \in Requests \ {r} : lease'[w] = lease[w]
    BY <1>9 DEF Finish
  <2>2. QED
    BY <1>9, <2>1, ReleaseKeepsClaims DEF Finish
<1>10. ASSUME NEW k \in Keys, DropBinding(k) PROVE ClaimInv'
  BY <1>10 DEF DropBinding, schedVars, ClaimInv, ClaimsHaveOwners, OneElectorPerKey,
               FollowersTrackClaim
<1>11. ASSUME NEW a, ChangeHealth(a) \/ ChangeAccounts(a) \/ ChangeBucket(a)
       PROVE  ClaimInv'
  BY <1>11 DEF ChangeHealth, ChangeAccounts, ChangeBucket, schedVars, ClaimInv,
               ClaimsHaveOwners, OneElectorPerKey, FollowersTrackClaim
<1>12. CASE Restart
  BY <1>12 DEF Restart, ClaimInv, ClaimsHaveOwners, OneElectorPerKey,
               FollowersTrackClaim
<1>13. CASE UNCHANGED vars
  BY <1>13 DEF vars, ClaimInv, ClaimsHaveOwners, OneElectorPerKey, FollowersTrackClaim
<1>14. QED
  BY <1>1, <1>2, <1>3, <1>4, <1>5, <1>6, <1>7, <1>8, <1>9, <1>10, <1>11, <1>12, <1>13
     DEF Next, Step, AcquireRoute

\* The claim invariant holds in every reachable state.
LEMMA ClaimInvHolds == Spec => []ClaimInv
<1>1. Init => ClaimInv
  BY DEF Init, ClaimInv, ClaimsHaveOwners, OneElectorPerKey, FollowersTrackClaim
<1>2. TypeOK /\ LeaseShape /\ ClaimInv /\ [Next]_vars => ClaimInv'
  BY NextClaims
<1>3. QED
  BY <1>1, <1>2, TypeCorrect, PTL DEF Spec

\* The election of a conversation's owner is mutually exclusive: of the requests
\* of one conversation, at most one holds an unaccepted lease with the claim.
THEOREM ElectionExclusive == Spec => []OneElectorPerKey
<1>1. ClaimInv => OneElectorPerKey
  BY DEF ClaimInv
<1>2. QED
  BY <1>1, ClaimInvHolds, PTL

\* No claim is orphaned: whatever is accepted, abandoned, cancelled or lost in a
\* restart, a pending claim belongs to a live lease that has still to resolve it.
THEOREM ClaimsOwned == Spec => []ClaimsHaveOwners
<1>1. ClaimInv => ClaimsHaveOwners
  BY DEF ClaimInv
<1>2. QED
  BY <1>1, ClaimInvHolds, PTL

\* No wakeup is lost: a follower that waits, waits on the claim that is pending.
THEOREM FollowersCorrect == Spec => []FollowersTrackClaim
<1>1. ClaimInv => FollowersTrackClaim
  BY DEF ClaimInv
<1>2. QED
  BY <1>1, ClaimInvHolds, PTL

-----------------------------------------------------------------------------
\* The leases out on a load key, and one added or removed.
LEMMA LeasesOnFinite ==
  \A k : IsFiniteSet(LeasesOn(k)) /\ Cardinality(LeasesOn(k)) \in Nat
BY FS_Subset, FS_CardinalityType, ConstantsAssumption DEF LeasesOn

\* A lease adds one to the load of its key and to the leases out on it.
LEMMA LeaseAdds ==
  ASSUME TypeOK, LeaseShape, LoadMatchesLeases, NEW r \in Requests,
         NEW a \in Accounts, NEW c, pc[r] = "decide",
         leaseAccountLocked(r, a, c)
  PROVE  LoadMatchesLeases'
<1> DEFINE l == <<bucketOf[a], req[r].class>>
<1>1. l \in LoadKeys
  BY CallFields DEF TypeOK, LoadKeys
<1>2. /\ pc' = [pc EXCEPT ![r] = "leased"]
      /\ inflight' = [inflight EXCEPT ![l] = @ + 1]
      /\ lease'[r].load = l
      /\ \A w \in Requests \ {r} : lease'[w] = lease[w]
  BY DEF leaseAccountLocked, TypeOK
<1> HIDE DEF l
<1> SUFFICES ASSUME NEW k \in LoadKeys
             PROVE  inflight'[k] = Cardinality(LeasesOn(k)')
  BY DEF LoadMatchesLeases
<1>3. r \notin LeasesOn(k)
  BY DEF LeasesOn
<1>4. CASE k = l
  <2>1. LeasesOn(k)' = LeasesOn(k) \union {r}
    BY <1>2, <1>4 DEF LeasesOn, TypeOK
  <2>2. Cardinality(LeasesOn(k) \union {r}) = Cardinality(LeasesOn(k)) + 1
    BY <1>3, LeasesOnFinite, FS_AddElement
  <2>3. QED
    BY <1>2, <1>4, <2>1, <2>2 DEF LoadMatchesLeases, TypeOK
<1>5. CASE k # l
  <2>1. LeasesOn(k)' = LeasesOn(k)
    BY <1>2, <1>5 DEF LeasesOn, TypeOK
  <2>2. QED
    BY <1>2, <1>5, <2>1 DEF LoadMatchesLeases, TypeOK
<1>6. QED
  BY <1>4, <1>5

\* The end of a request takes its lease off both.
LEMMA FinishRemoves ==
  ASSUME TypeOK, LeaseShape, LoadMatchesLeases, NEW r \in Requests, Finish(r)
  PROVE  LoadMatchesLeases'
<1> DEFINE l == lease[r].load
<1>1. l \in LoadKeys
  BY DEF Finish, LeaseShape, Leases
<1>2. /\ pc'[r] = "idle"
      /\ \A w \in Requests \ {r} : /\ pc'[w] \in Holding <=> pc[w] \in Holding
                                   /\ lease'[w] = lease[w]
  BY DEF Finish, releaseAffinityClaimLocked, TypeOK
<1>3. inflight' = [inflight EXCEPT ![l] = IF @ > 0 THEN @ - 1 ELSE @]
  BY DEF Finish
<1> SUFFICES ASSUME NEW k \in LoadKeys
             PROVE  inflight'[k] = Cardinality(LeasesOn(k)')
  BY DEF LoadMatchesLeases
<1>4. LeasesOn(k)' = LeasesOn(k) \ {r}
  BY <1>2 DEF LeasesOn
<1>5. CASE k = l
  <2>1. r \in LeasesOn(k)
    BY <1>5 DEF LeasesOn, Finish
  <2>2. Cardinality(LeasesOn(k) \ {r}) = Cardinality(LeasesOn(k)) - 1
    BY <2>1, LeasesOnFinite, FS_RemoveElement
  <2>3. Cardinality(LeasesOn(k)) > 0
    BY <2>1, LeasesOnFinite, FS_EmptySet
  <2>4. QED
    BY <1>3, <1>4, <1>5, <2>2, <2>3, LeasesOnFinite DEF LoadMatchesLeases, TypeOK
<1>6. CASE k # l
  <2>1. r \notin LeasesOn(k)
    BY <1>6 DEF LeasesOn
  <2>2. LeasesOn(k)' = LeasesOn(k)
    BY <1>4, <2>1
  <2>3. QED
    BY <1>3, <1>6, <2>2 DEF LoadMatchesLeases, TypeOK
<1>7. QED
  BY <1>5, <1>6

\* The in-flight counters are exact: at all times each is the number of
\* leases out on its load key, so no error path, retry, re-keying or account
\* deletion leaks a slot or frees one twice.
THEOREM LoadCorrect == Spec => []LoadMatchesLeases
<1>1. Init => LoadMatchesLeases
  <2> SUFFICES ASSUME Init PROVE LoadMatchesLeases
    OBVIOUS
  <2>1. \A k : LeasesOn(k) = {}
    BY DEF Init, LeasesOn
  <2>2. QED
    BY <2>1, FS_EmptySet DEF Init, LoadMatchesLeases
<1>2. TypeOK /\ LeaseShape /\ LoadMatchesLeases /\ [Next]_vars => LoadMatchesLeases'
  <2> SUFFICES ASSUME TypeOK, LeaseShape, LoadMatchesLeases, [Next]_vars
               PROVE  LoadMatchesLeases'
    OBVIOUS
  <2>1. ASSUME UNCHANGED <<inflight, lease>>,
               \A w \in Requests : pc'[w] \in Holding <=> pc[w] \in Holding
        PROVE  LoadMatchesLeases'
    <3>1. \A k : LeasesOn(k)' = LeasesOn(k)
      BY <2>1 DEF LeasesOn
    <3>2. QED
      BY <2>1, <3>1 DEF LoadMatchesLeases
  <2>2. ASSUME NEW r \in Requests,
               \/ Call(r) \/ LoadBinding(r) \/ AcquireAborts(r) \/ Follow(r)
               \/ AcceptSave(r) \/ Return(r)
        PROVE  LoadMatchesLeases'
    BY <2>1, <2>2 DEF Call, LoadBinding, AcquireAborts, Follow, AcceptSave, Return,
                      loadVars, TypeOK
  <2>3. ASSUME NEW r \in Requests,
               RefuseMissing(r) \/ RefuseUnavailable(r) \/ RefuseHard(r) \/ RefuseFree(r)
        PROVE  LoadMatchesLeases'
    BY <2>1, <2>3 DEF RefuseMissing, RefuseUnavailable, RefuseHard, RefuseFree, Refuse,
                      loadVars, TypeOK
  <2>4. ASSUME NEW r \in Requests, AcceptFails(r) \/ AcceptRelease(r)
        PROVE  LoadMatchesLeases'
    BY <2>1, <2>4 DEF AcceptFails, AcceptRelease, releaseAffinityClaimLocked,
                      loadVars, TypeOK
  <2>5. ASSUME NEW r \in Requests, GrantBound(r) PROVE LoadMatchesLeases'
    <3>1. PICK a \in Accounts : leaseAccountLocked(r, a, NoKey)
      BY <2>5, BoundRoutesAreEligible DEF GrantBound, Eligible, TypeOK
    <3>2. QED
      BY <2>5, <3>1, LeaseAdds DEF GrantBound
  <2>6. ASSUME NEW r \in Requests, GrantFree(r) PROVE LoadMatchesLeases'
    <3>1. PICK a \in Accounts : leaseAccountLocked(r, a, req[r].key)
      BY <2>6, RoutesAreEligible DEF GrantFree, Eligible, TypeOK
    <3>2. QED
      BY <2>6, <3>1, LeaseAdds DEF GrantFree
  <2>7. ASSUME NEW r \in Requests, Finish(r) PROVE LoadMatchesLeases'
    BY <2>7, FinishRemoves
  <2>8. ASSUME NEW k \in Keys, DropBinding(k) PROVE LoadMatchesLeases'
    BY <2>1, <2>8 DEF DropBinding, schedVars, loadVars
  <2>9. ASSUME NEW a, ChangeHealth(a) \/ ChangeAccounts(a) \/ ChangeBucket(a)
        PROVE  LoadMatchesLeases'
    BY <2>1, <2>9 DEF ChangeHealth, ChangeAccounts, ChangeBucket, schedVars, loadVars
  <2>10. CASE Restart
    <3>1. \A k : LeasesOn(k)' = {}
      BY <2>10 DEF Restart, LeasesOn
    <3>2. QED
      BY <2>10, <3>1, FS_EmptySet DEF Restart, LoadMatchesLeases
  <2>11. CASE UNCHANGED vars
    BY <2>1, <2>11 DEF vars
  <2>12. QED
    BY <2>2, <2>3, <2>4, <2>5, <2>6, <2>7, <2>8, <2>9, <2>10, <2>11
       DEF Next, Step, AcquireRoute
<1>3. QED
  BY <1>1, <1>2, TypeCorrect, PTL DEF Spec

-----------------------------------------------------------------------------
\* What a granted lease owes its call, stated of the account alone.
Honours(q, a) ==
  /\ Provider(a) = q.provider
  /\ a \notin q.exAccounts
  /\ bucketOf[a] \notin q.exBuckets
  /\ q.hard # NoAccount /\ Provider(q.hard) = q.provider => a = q.hard

\* A bound route honours its call, and is the owner where one is required.
LEMMA BoundHonours ==
  ASSUME TypeOK, OwnersKnown, NEW r \in Requests, pc[r] = "decide",
         ~OwnerMissing(r), NEW a \in BoundRoutes(r)
  PROVE  /\ Honours(req[r], a)
         /\ req[r].require /\ req[r].hard = NoAccount =>
              req[r].key \in Keys /\ Ident[a] \in owners[req[r].key]
<1>1. a \in Eligible(req[r]) /\ Bound(r) # NoAccount
  BY BoundRoutesAreEligible DEF BoundRoutes
<1>2. a \in acquireLocked(req[r], Bound(r))
  BY DEF BoundRoutes
<1>3. req[r].hard # NoAccount /\ Provider(req[r].hard) = req[r].provider => a = req[r].hard
  BY <1>2 DEF Bound, acquireLocked
<1>4. Honours(req[r], a)
  BY <1>1, <1>3 DEF Eligible, Excluded, Honours
<1>5. ASSUME req[r].require, req[r].hard = NoAccount
      PROVE  req[r].key \in Keys /\ Ident[a] \in owners[req[r].key]
  <2>1. /\ seen[r] # NoIdent
        /\ ProviderOf[seen[r]] = req[r].provider
        /\ Bound(r) = accountIDForBindingLocked(seen[r])
    BY <1>1, <1>5 DEF Bound
  <2>2. Bound(r) \in accounts /\ Ident[Bound(r)] = seen[r]
    BY <1>1, <2>1 DEF accountIDForBindingLocked
  <2>3. a = Bound(r)
    BY <1>2, <2>1, <2>2 DEF acquireLocked, Provider
  <2>4. QED
    BY <2>1, <2>2, <2>3 DEF OwnersKnown
<1>6. QED
  BY <1>4, <1>5

\* A route chosen among the balanced ones honours its call.
LEMMA FreeHonours ==
  ASSUME NEW r \in Requests, Free(r), NEW a \in Balanced(req[r])
  PROVE  Honours(req[r], a)
BY RoutesAreEligible DEF Free, Eligible, Excluded, Honours

RouteInv ==
  /\ OwnersKnown
  /\ LeaseHonoursRequest
  /\ RequireStaysWithOwner

\* Every step keeps the leases true to their calls.
LEMMA NextRoutes ==
  ASSUME TypeOK, LeaseShape, RouteInv, [Next]_vars
  PROVE  RouteInv'
<1> USE DEF TypeOK, poolVars, callVars, loadVars
<1>1. ASSUME NEW r \in Requests, Call(r) PROVE RouteInv'
  BY <1>1 DEF Call, RouteInv, OwnersKnown, LeaseHonoursRequest, RequireStaysWithOwner
<1>2. ASSUME NEW r \in Requests, LoadBinding(r) PROVE RouteInv'
  BY <1>2, CallFields DEF LoadBinding, RouteInv, OwnersKnown, LeaseHonoursRequest,
                          RequireStaysWithOwner
<1>3. ASSUME NEW r \in Requests, AcquireAborts(r) \/ Follow(r) \/ Return(r)
      PROVE  RouteInv'
  BY <1>3 DEF AcquireAborts, Follow, Return, RouteInv, OwnersKnown,
              LeaseHonoursRequest, RequireStaysWithOwner
<1>4. ASSUME NEW r \in Requests,
             RefuseMissing(r) \/ RefuseUnavailable(r) \/ RefuseHard(r) \/ RefuseFree(r)
      PROVE  RouteInv'
  BY <1>4 DEF RefuseMissing, RefuseUnavailable, RefuseHard, RefuseFree, Refuse,
              RouteInv, OwnersKnown, LeaseHonoursRequest, RequireStaysWithOwner
<1>5. ASSUME NEW r \in Requests, NEW a \in Accounts, NEW c,
             leaseAccountLocked(r, a, c), Honours(req[r], a),
             req[r].require /\ req[r].hard = NoAccount => Ident[a] \in owners[req[r].key],
             UNCHANGED <<req, seen, owners, binding>>
      PROVE  RouteInv'
  <2>1. /\ pc' = [pc EXCEPT ![r] = "leased"]
        /\ lease' = [lease EXCEPT ![r] = [acct |-> a, claim |-> c,
                        load |-> <<bucketOf[a], req[r].class>>]]
    BY <1>5 DEF leaseAccountLocked
  <2>2. OwnersKnown'
    BY <1>5, <2>1 DEF RouteInv, OwnersKnown
  <2>3. LeaseHonoursRequest'
    BY <1>5, <2>1 DEF RouteInv, LeaseHonoursRequest, Honours, Provider
  <2>4. RequireStaysWithOwner'
    BY <1>5, <2>1 DEF RouteInv, RequireStaysWithOwner
  <2>5. QED
    BY <2>2, <2>3, <2>4 DEF RouteInv
<1>6. ASSUME NEW r \in Requests, GrantBound(r) PROVE RouteInv'
  <2>1. PICK a \in BoundRoutes(r) : leaseAccountLocked(r, a, NoKey)
    BY <1>6 DEF GrantBound
  <2>2. a \in Accounts
    BY <2>1, BoundRoutesAreEligible DEF Eligible
  <2>3. /\ Honours(req[r], a)
        /\ req[r].require /\ req[r].hard = NoAccount => Ident[a] \in owners[req[r].key]
    BY <1>6, <2>1, BoundHonours DEF GrantBound, RouteInv
  <2>4. QED
    BY <1>5, <1>6, <2>1, <2>2, <2>3 DEF GrantBound
<1>7. ASSUME NEW r \in Requests, GrantFree(r) PROVE RouteInv'
  <2>1. PICK a \in Balanced(req[r]) : leaseAccountLocked(r, a, req[r].key)
    BY <1>7 DEF GrantFree
  <2>2. a \in Accounts /\ Honours(req[r], a) /\ ~req[r].require
    BY <1>7, <2>1, FreeHonours, RoutesAreEligible DEF GrantFree, Eligible, Free
  <2>3. QED
    BY <1>5, <1>7, <2>1, <2>2 DEF GrantFree
<1>8. ASSUME NEW r \in Requests, AcceptSave(r) PROVE RouteInv'
  <2>1. lease[r].acct \in Accounts
    BY <1>8 DEF AcceptSave, LeaseShape, Leases
  <2>2. CASE req[r].key = NoKey
    BY <1>8, <2>2 DEF AcceptSave, RouteInv, OwnersKnown, LeaseHonoursRequest,
                      RequireStaysWithOwner
  <2>3. CASE req[r].key # NoKey
    <3>1. /\ binding' = [binding EXCEPT ![req[r].key] = Ident[lease[r].acct]]
          /\ owners' = [owners EXCEPT ![req[r].key] = @ \union {Ident[lease[r].acct]}]
          /\ pc' = [pc EXCEPT ![r] = "saved"]
          /\ pc[r] = "leased"
          /\ UNCHANGED <<req, seen, lease>>
      BY <1>8, <2>3 DEF AcceptSave
    <3>2. \A k \in Keys : owners[k] \subseteq owners'[k]
      BY <3>1
    <3>3. OwnersKnown'
      BY <3>1, <3>2 DEF RouteInv, OwnersKnown
    <3>4. LeaseHonoursRequest'
      BY <3>1 DEF RouteInv, LeaseHonoursRequest, Provider
    <3>5. RequireStaysWithOwner'
      BY <3>1 DEF RouteInv, RequireStaysWithOwner
    <3>6. QED
      BY <3>3, <3>4, <3>5 DEF RouteInv
  <2>4. QED
    BY <2>2, <2>3
<1>9. ASSUME NEW r \in Requests, AcceptFails(r) \/ AcceptRelease(r) PROVE RouteInv'
  BY <1>9 DEF AcceptFails, AcceptRelease, releaseAffinityClaimLocked, RouteInv,
              OwnersKnown, LeaseHonoursRequest, RequireStaysWithOwner, Provider
<1>10. ASSUME NEW r \in Requests, Finish(r) PROVE RouteInv'
  BY <1>10 DEF Finish, releaseAffinityClaimLocked, RouteInv,
               OwnersKnown, LeaseHonoursRequest, RequireStaysWithOwner, Provider
<1>11. ASSUME NEW k \in Keys, DropBinding(k) PROVE RouteInv'
  BY <1>11 DEF DropBinding, schedVars, RouteInv, OwnersKnown, LeaseHonoursRequest,
               RequireStaysWithOwner, Provider
<1>12. ASSUME NEW a, ChangeHealth(a) \/ ChangeAccounts(a) \/ ChangeBucket(a)
       PROVE  RouteInv'
  BY <1>12 DEF ChangeHealth, ChangeAccounts, ChangeBucket, schedVars, RouteInv,
               OwnersKnown, LeaseHonoursRequest, RequireStaysWithOwner, Provider
<1>13. CASE Restart
  BY <1>13 DEF Restart, RouteInv, OwnersKnown, LeaseHonoursRequest, RequireStaysWithOwner
<1>14. CASE UNCHANGED vars
  BY <1>14 DEF vars, RouteInv, OwnersKnown, LeaseHonoursRequest, RequireStaysWithOwner,
               Provider
<1>15. QED
  BY <1>1, <1>2, <1>3, <1>4, <1>6, <1>7, <1>8, <1>9, <1>10, <1>11, <1>12, <1>13, <1>14
     DEF Next, Step, AcquireRoute

\* The routing invariant holds in every reachable state.
LEMMA RouteInvHolds == Spec => []RouteInv
<1>1. Init => RouteInv
  BY DEF Init, RouteInv, OwnersKnown, LeaseHonoursRequest, RequireStaysWithOwner
<1>2. TypeOK /\ LeaseShape /\ RouteInv /\ [Next]_vars => RouteInv'
  BY NextRoutes
<1>3. QED
  BY <1>1, <1>2, TypeCorrect, PTL DEF Spec

\* Every lease honours its call's provider, exclusions and pin.
THEOREM LeasesHonour == Spec => []LeaseHonoursRequest
<1>1. RouteInv => LeaseHonoursRequest
  BY DEF RouteInv
<1>2. QED
  BY <1>1, RouteInvHolds, PTL

\* A call that requires continuity and has no pin is only routed to an identity
\* accepted for its conversation before, however old the binding it read.
THEOREM RequiredOwnerKept == Spec => []RequireStaysWithOwner
<1>1. RouteInv => RequireStaysWithOwner
  BY DEF RouteInv
<1>2. QED
  BY <1>1, RouteInvHolds, PTL
=============================================================================
