------------------------- MODULE PoolHealth_proofs -------------------------
(***************************************************************************)
(* Proofs about the health of accounts (module PoolHealth).                *)
(*                                                                         *)
(* An operation decides once, from freshly loaded rows, and then writes    *)
(* table by table.  In between the store holds half of it, so nothing      *)
(* useful is invariant of the rows as they are: the invariants below       *)
(* (HomeInv, SoundInv) speak of the rows as they will be once the          *)
(* operation under way is through, NextAcct and NextBucket.  A write       *)
(* leaves those as they are; what has to be proved is that each decision   *)
(* makes them good.  Only with one process is "the operation under way"    *)
(* the only writer: that is the hypothesis OneProcess.                     *)
(***************************************************************************)
EXTENDS PoolHealth, TLAPS

\* One broker process works on the database.
OneProcess == \E p : Procs = {p}

-----------------------------------------------------------------------------
(* Types.                                                                  *)

\* Rows to be written.
BkOK(f) == DOMAIN f \subseteq Keys /\ \A k \in DOMAIN f : f[k] \in BucketRows \union {NoRow}
AcOK(f) == DOMAIN f \subseteq Accounts /\ \A a \in DOMAIN f : f[a] \in AcctRows \union {NoRow}
PendOK ==
  /\ pend = [p \in Procs |-> pend[p]]
  /\ \A p \in Procs : BkOK(pend[p].bk) /\ AcOK(pend[p].ac)

\* The inductive form of TypeOK.
TypeInv ==
  /\ now \in Nat
  /\ acctRow \in [Accounts -> AcctRows \union {NoRow}]
  /\ bucketRow \in [Keys -> BucketRows \union {NoRow}]
  /\ errs \in [Procs -> [Keys -> 0..2]]
  /\ PendOK
  /\ refreshing \in [Accounts -> {"no", "auto", "admin"}]
  /\ probing \subseteq Accounts
  /\ owed \in [Accounts -> Nat]
  /\ torn \in {"no", "yes"}

\* Pending keeps the rows it is given, and the operation while there are any.
LEMMA PendingFields ==
  ASSUME NEW o, NEW first, NEW bk, NEW ac
  PROVE  /\ Pending(o, first, bk, ac).bk = bk
         /\ Pending(o, first, bk, ac).ac = ac
         /\ Pending(o, first, bk, ac).op = o \/ ac = None
<1>1. CASE bk = None /\ ac = None
  <2>1. Pending(o, first, bk, ac) = Idle
    BY <1>1 DEF Pending
  <2>2. Idle.bk = None /\ Idle.ac = None
    BY DEF Idle
  <2> QED
    BY <1>1, <2>1, <2>2
<1>2. CASE ~(bk = None /\ ac = None)
  <2>1. Pending(o, first, bk, ac) = [op |-> o, first |-> first, bk |-> bk, ac |-> ac]
    BY <1>2 DEF Pending
  <2> QED
    BY <2>1
<1> QED
  BY <1>1, <1>2

\* No rows.
LEMMA NoRowsOK == BkOK(None) /\ AcOK(None) /\ DOMAIN None = {}
  BY DEF BkOK, AcOK, None

\* What pend holds after process p has something else to write.
LEMMA PendRead ==
  ASSUME PendOK, NEW p \in Procs, NEW o, NEW first, NEW bk, NEW ac,
         pend' = [pend EXCEPT ![p] = Pending(o, first, bk, ac)]
  PROVE  /\ pend'[p].bk = bk /\ pend'[p].ac = ac /\ (pend'[p].op = o \/ ac = None)
         /\ \A q \in Procs \ {p} : pend'[q] = pend[q]
<1>1. pend'[p] = Pending(o, first, bk, ac)
  BY DEF PendOK
<1>2. \A q \in Procs \ {p} : pend'[q] = pend[q]
  BY DEF PendOK
<1> QED
  BY <1>1, <1>2, PendingFields

\* It is of the right type.
LEMMA PendSet ==
  ASSUME PendOK, NEW p \in Procs, NEW o, NEW first, NEW bk, NEW ac,
         pend' = [pend EXCEPT ![p] = Pending(o, first, bk, ac)], BkOK(bk), AcOK(ac)
  PROVE  PendOK'
<1>1. pend' = [q \in Procs |-> pend'[q]]
  BY DEF PendOK
<1>2. \A q \in Procs : BkOK(pend'[q].bk) /\ AcOK(pend'[q].ac)
  BY PendRead DEF PendOK
<1>3. \A q \in Procs : BkOK(pend[q].bk)' /\ AcOK(pend[q].ac)'
  BY <1>2 DEF BkOK, AcOK, BucketRows, AcctRows
<1> QED
  BY <1>1, <1>3 DEF PendOK

\* A bucket row and its parts.
LEMMA RowParts ==
  /\ Blank \in BucketRows
  /\ \A r \in BucketRows :
       /\ r.cd \in Nat /\ r.state \in States
       /\ r.state.proj \in {"blank", "project"} /\ r.state.reset \in Nat
  /\ \A c \in Nat, s \in States : [cd |-> c, state |-> s] \in BucketRows
<1>1. Blank \in BucketRows
  BY DEF Blank, BucketRows, States
<1>2. ASSUME NEW r \in BucketRows
      PROVE  /\ r.cd \in Nat /\ r.state \in States
             /\ r.state.proj \in {"blank", "project"} /\ r.state.reset \in Nat
  <2>1. r.cd \in Nat /\ r.state \in States
    BY DEF BucketRows
  <2>2. r.state.proj \in {"blank", "project"} /\ r.state.reset \in Resets \union {0}
    BY <2>1 DEF States
  <2>3. Resets \subseteq Nat
    BY Zenon, PoolAssumption
  <2>4. ASSUME NEW t, t \in Resets \union {0} PROVE t \in Nat
    BY <2>3, <2>4
  <2>5. r.state.reset \in Nat
    BY <2>2, <2>4
  <2> QED
    BY <2>1, <2>2, <2>5
<1>3. \A c \in Nat, s \in States : [cd |-> c, state |-> s] \in BucketRows
  BY DEF BucketRows
<1> QED
  BY <1>1, <1>2, <1>3

\* The bucket of a key, and the key of an account.
LEMMA BucketType ==
  ASSUME TypeInv
  PROVE  /\ \A k \in Keys : Bucket(k) \in BucketRows
         /\ \A a \in Present : a \in Accounts /\ acctRow[a] \in AcctRows
                               /\ acctRow[a].key \in Keys /\ acctRow[a].status \in Statuses
         /\ \A a \in Accounts, x \in {"blank", "project"} : KeyFor[<<SubjectOf[a], x>>] \in Keys
<1>1. \A k \in Keys : Bucket(k) \in BucketRows
  BY RowParts DEF TypeInv, Bucket
<1>2. \A a \in Present : a \in Accounts /\ acctRow[a] \in AcctRows
  BY DEF TypeInv, Present
<1>3. \A r \in AcctRows : r.key \in Keys /\ r.status \in Statuses
  BY DEF AcctRows
<1>4. \A a \in Accounts, x \in {"blank", "project"} : KeyFor[<<SubjectOf[a], x>>] \in Keys
  BY PoolAssumption
<1> QED
  BY <1>1, <1>2, <1>3, <1>4

\* Moving a bucket writes bucket rows.
LEMMA RekeyType ==
  ASSUME NEW k \in Keys, NEW l \in Keys, NEW row \in BucketRows
  PROVE  BkOK(Rekey(k, l, row)) /\ BkOK(Over([x \in {l} |-> row], Rekey(k, l, row)))
<1>1. BkOK(Rekey(k, l, row))
  BY DEF Rekey, BkOK
<1> QED
  BY <1>1 DEF BkOK, Over

\* A step that begins an operation, or writes, and changes the rest as typed.
LEMMA BeginType ==
  ASSUME TypeInv, NEW p \in Procs, NEW o, NEW first, NEW bk, NEW ac,
         Begin(p, o, first, bk, ac), BkOK(bk), AcOK(ac),
         (errs \in [Procs -> [Keys -> 0..2]])',
         (refreshing \in [Accounts -> {"no", "auto", "admin"}])',
         (probing \subseteq Accounts)', (owed \in [Accounts -> Nat])'
  PROVE  TypeInv'
<1>1. PendOK'
  BY PendSet DEF Begin, TypeInv
<1> QED
  BY <1>1 DEF Begin, TypeInv, BucketRows, AcctRows, States, Statuses

\* Dropping a cooldown, and forgiving what was owed.
LEMMA UncooledType ==
  ASSUME TypeInv, NEW k \in Keys
  PROVE  BkOK(Uncooled(k))
<1>1. Bucket(k) \in BucketRows
  BY BucketType
<1>2. [Bucket(k) EXCEPT !.cd = 0] \in BucketRows
  BY <1>1 DEF BucketRows
<1> QED
  BY <1>2, NoRowsOK DEF Uncooled, BkOK

\* Forgiving keeps the type of owed.
LEMMA ForgiveType ==
  ASSUME TypeInv, NEW k, Forgive(k)
  PROVE  (owed \in [Accounts -> Nat])'
  BY DEF TypeInv, Forgive

\* The account row with another status is an account row.
LEMMA StatusType ==
  ASSUME NEW r \in AcctRows, NEW s \in Statuses
  PROVE  [r EXCEPT !.status = s] \in AcctRows
  BY DEF AcctRows

\* An observation.
LEMMA ObserveType ==
  ASSUME TypeInv, NEW p \in Procs, NEW a \in Present, NEW kind \in Kinds, NEW until \in Nat,
         NEW state \in {NoRow} \union States, Observe(p, a, kind, until, state)
  PROVE  TypeInv'
<1> DEFINE k == acctRow[a].key
           old == Bucket(k)
           trip == Trips(p, k, kind)
           cd == IF kind \in Cooling THEN applyBucketCooldown(old.cd, until)
                 ELSE IF trip THEN applyBucketCooldown(old.cd, now + BreakerPause)
                 ELSE old.cd
           st == IF state = NoRow THEN old.state ELSE state
           l == IF state = NoRow THEN k ELSE KeyFor[<<SubjectOf[a], st.proj>>]
           row == [cd |-> cd, state |-> st]
           touched == {m \in Members(k) : (m = a /\ kind \in {"success", "serverError", "block"})
                                            \/ l # k}
           status(m) == IF m = a /\ kind = "block" THEN "blocked" ELSE acctRow[m].status
           due == Due(p, k, kind, until)
           bk == IF row # old \/ l # k THEN Rekey(k, l, row) ELSE None
           ac == [m \in touched |-> [status |-> status(m), key |-> l]]
<1>1. /\ Begin(p, "observe", BucketsFirst, bk, ac)
      /\ errs' = [errs EXCEPT ![p][k] = IF kind # "serverError" \/ trip THEN 0 ELSE @ + 1]
      /\ refreshing' = IF kind = "authFail" /\ refreshing[a] = "no"
                       THEN [refreshing EXCEPT ![a] = "auto"] ELSE refreshing
      /\ owed' = [m \in Accounts |-> IF m \in Members(k) /\ due > owed[m] THEN due ELSE owed[m]]
      /\ UNCHANGED probing
  BY DEF Observe
<1>2. a \in Accounts /\ k \in Keys /\ old \in BucketRows
  BY BucketType
<1>3. now \in Nat /\ BreakerPause \in Nat
  BY PoolAssumption DEF TypeInv
<1>4. now + BreakerPause \in Nat
  BY <1>3
<1>5. old.cd \in Nat /\ old.state \in States
  BY <1>2, RowParts
<1>6. cd \in Nat
  BY <1>4, <1>5 DEF applyBucketCooldown
<1>7. st \in States
  BY <1>5
<1>8. l \in Keys
  BY <1>2, <1>7, BucketType DEF States
<1>9. row \in BucketRows
  BY <1>6, <1>7, RowParts
<1>10. BkOK(bk)
  BY <1>2, <1>8, <1>9, RekeyType, NoRowsOK
<1>11. AcOK(ac)
  <2>1. \A m \in touched : m \in Present /\ m \in Accounts /\ acctRow[m].status \in Statuses
    BY BucketType DEF Members
  <2>2. "blocked" \in Statuses
    BY DEF Statuses
  <2>3. \A m \in touched : status(m) \in Statuses
    BY <2>1, <2>2
  <2>4. \A m \in touched : [status |-> status(m), key |-> l] \in AcctRows
    BY <2>3, <1>8 DEF AcctRows
  <2> QED
    BY <2>1, <2>4 DEF AcOK
<1>12. errs' \in [Procs -> [Keys -> 0..2]]
  <2>1. errs[p][k] \in 0..2
    BY <1>2 DEF TypeInv
  <2>2. kind = "serverError" /\ ~trip => errs[p][k] + 1 \in 0..2
    BY <2>1 DEF Trips
  <2>3. (IF kind # "serverError" \/ trip THEN 0 ELSE errs[p][k] + 1) \in 0..2
    BY <2>2
  <2> HIDE DEF k, trip
  <2> QED
    BY <1>1, <1>2, <2>3 DEF TypeInv
<1>13. due \in Nat
  BY <1>4 DEF Due
<1>14. owed' \in [Accounts -> Nat]
  <2> HIDE DEF due, k
  <2> QED
    BY <1>1, <1>13 DEF TypeInv
<1>15. /\ refreshing' \in [Accounts -> {"no", "auto", "admin"}]
       /\ probing' \subseteq Accounts
  BY <1>1 DEF TypeInv
<1> HIDE DEF bk, ac
<1> QED
  BY <1>1, <1>10, <1>11, <1>12, <1>14, <1>15, BeginType

\* An update of the account by the administrator.
LEMMA UpdateType ==
  ASSUME TypeInv, NEW p \in Procs, NEW a \in Present, NEW s \in Statuses,
         NEW state \in {NoRow} \union States, Update(p, a, s, state)
  PROVE  TypeInv'
<1> DEFINE k == acctRow[a].key
           l == IF state = NoRow THEN k ELSE KeyFor[<<SubjectOf[a], state.proj>>]
           row == [Bucket(k) EXCEPT !.state = IF state = NoRow THEN @ ELSE state]
           bk == IF row = Bucket(k) /\ l = k THEN None
                 ELSE Over([x \in {l} |-> row], Rekey(k, l, row))
           ac == [x \in {a} |-> [status |-> s, key |-> l]]
<1>1. /\ Begin(p, IF s = acctRow[a].status THEN "update" ELSE "setStatus", BucketsFirst, bk, ac)
      /\ UNCHANGED <<errs, refreshing, probing, owed>>
  BY DEF Update
<1>2. a \in Accounts /\ k \in Keys /\ Bucket(k) \in BucketRows
  BY BucketType
<1>3. l \in Keys
  BY <1>2, BucketType DEF States
<1>4. row \in BucketRows
  BY <1>2 DEF BucketRows
<1>5. BkOK(bk)
  BY <1>2, <1>3, <1>4, RekeyType, NoRowsOK
<1>6. AcOK(ac)
  BY <1>2, <1>3 DEF AcOK, AcctRows
<1> HIDE DEF bk, ac
<1> QED
  BY <1>1, <1>5, <1>6, BeginType DEF TypeInv

\* Clean-up writes bucket rows.
LEMMA CleanType ==
  ASSUME TypeInv, NEW k \in Keys
  PROVE  CleanBucket(k) \in BucketRows
<1> DEFINE b == Bucket(k)
           cd == IF b.cd # 0 /\ now > b.cd THEN 0 ELSE b.cd
           exhausted == /\ \E a \in Members(k) : acctRow[a].status = "active"
                        /\ b.state.reset > now
           new == IF cd = 0 /\ exhausted THEN b.state.reset ELSE cd
<1>1. b \in BucketRows
  BY BucketType
<1>2. b.cd \in Nat /\ b.state.reset \in Nat
  BY <1>1, RowParts
<1>3. new \in Nat
  BY <1>2
<1>4. CleanBucket(k) = [b EXCEPT !.cd = new]
  BY DEF CleanBucket
<1> HIDE DEF b, new
<1> QED
  BY <1>1, <1>3, <1>4 DEF BucketRows

\* The bucket rows SetDrivers writes when process p starts.
RestartBk ==
  LET derived(a) == KeyFor[<<SubjectOf[a], Bucket(acctRow[a].key).state.proj>>]
      moved == {a \in Present : derived(a) # acctRow[a].key}
      moves == {Rekey(acctRow[a].key, derived(a), Bucket(acctRow[a].key)) : a \in moved}
  IN [k \in UNION {DOMAIN m : m \in moves} |-> (CHOOSE m \in moves : k \in DOMAIN m)[k]]
\* And the account rows.
RestartAc ==
  LET derived(a) == KeyFor[<<SubjectOf[a], Bucket(acctRow[a].key).state.proj>>]
      moved == {a \in Present : derived(a) # acctRow[a].key}
  IN [a \in moved |-> [acctRow[a] EXCEPT !.key = derived(a)]]

\* They are rows.
LEMMA RestartType ==
  ASSUME TypeInv
  PROVE  BkOK(RestartBk) /\ AcOK(RestartAc)
<1> DEFINE derived(a) == KeyFor[<<SubjectOf[a], Bucket(acctRow[a].key).state.proj>>]
           moved == {a \in Present : derived(a) # acctRow[a].key}
           moves == {Rekey(acctRow[a].key, derived(a), Bucket(acctRow[a].key)) : a \in moved}
<1>1. \A a \in Present : derived(a) \in Keys
  <2> TAKE a \in Present
  <2>1. Bucket(acctRow[a].key).state.proj \in {"blank", "project"}
    BY BucketType, RowParts
  <2> QED
    BY <2>1, BucketType
<1>2. \A m \in moves : BkOK(m)
  <2> TAKE m \in moves
  <2>1. PICK a \in moved : m = Rekey(acctRow[a].key, derived(a), Bucket(acctRow[a].key))
    OBVIOUS
  <2>2. acctRow[a].key \in Keys /\ Bucket(acctRow[a].key) \in BucketRows /\ derived(a) \in Keys
    BY <1>1, BucketType
  <2> HIDE DEF derived
  <2> QED
    BY <2>1, <2>2, RekeyType
<1>3. BkOK(RestartBk)
  <2> HIDE DEF moves
  <2> DEFINE picked(k) == CHOOSE m \in moves : k \in DOMAIN m
             f == [k \in UNION {DOMAIN m : m \in moves} |-> picked(k)[k]]
  <2>1. \A k \in DOMAIN f : \E m \in moves : k \in DOMAIN m
    OBVIOUS
  <2>2. \A k \in DOMAIN f : picked(k) \in moves /\ k \in DOMAIN picked(k)
    BY <2>1
  <2>3. \A k \in DOMAIN f : f[k] = picked(k)[k]
    OBVIOUS
  <2>4. \A k \in DOMAIN f : BkOK(picked(k))
    BY <1>2, <2>2
  <2> HIDE DEF f, picked
  <2>5. BkOK(f)
    BY <2>2, <2>3, <2>4 DEF BkOK
  <2>6. RestartBk = f
    BY DEF RestartBk, f, picked, moves
  <2> QED
    BY <2>5, <2>6
<1>4. AcOK(RestartAc)
  <2>1. \A a \in moved : a \in Accounts /\ acctRow[a] \in AcctRows /\ derived(a) \in Keys
    BY <1>1, BucketType
  <2> HIDE DEF derived
  <2>2. \A a \in moved : [acctRow[a] EXCEPT !.key = derived(a)] \in AcctRows
    BY <2>1 DEF AcctRows
  <2> HIDE DEF moved
  <2>3. RestartAc = [a \in moved |-> [acctRow[a] EXCEPT !.key = derived(a)]]
    BY DEF RestartAc, moved, derived
  <2> QED
    BY <2>1, <2>2, <2>3 DEF AcOK
<1> QED
  BY <1>3, <1>4

\* Process life and the clock.
LEMMA RestartStep ==
  ASSUME TypeInv, NEW p \in Procs, Restart(p)
  PROVE  /\ TypeInv'
         /\ pend' = [pend EXCEPT ![p] = Pending("setDrivers", BucketsFirst, RestartBk, RestartAc)]
<1>1. pend' = [pend EXCEPT ![p] = Pending("setDrivers", BucketsFirst, RestartBk, RestartAc)]
  BY DEF Restart, RestartBk, RestartAc
<1>2. PendOK'
  BY <1>1, RestartType, PendSet DEF TypeInv
<1>3. /\ errs' = [errs EXCEPT ![p] = [k \in Keys |-> 0]]
      /\ torn' \in {torn, "yes"}
      /\ refreshing' = [a \in Accounts |-> "no"]
      /\ probing' = {}
      /\ UNCHANGED <<now, acctRow, bucketRow, owed>>
  BY DEF Restart
<1>4. errs' \in [Procs -> [Keys -> 0..2]]
  <2>1. [k \in Keys |-> 0] \in [Keys -> 0..2]
    OBVIOUS
  <2> QED
    BY <1>3, <2>1 DEF TypeInv
<1>5. TypeInv'
  BY <1>2, <1>3, <1>4 DEF TypeInv, BucketRows, AcctRows, States, Statuses
<1> QED
  BY <1>1, <1>5

\* The rows a write leaves.
LEMMA WriteType ==
  ASSUME TypeInv, NEW p \in Procs, WriteBuckets(p) \/ WriteAccounts(p)
  PROVE  TypeInv'
<1>1. CASE WriteBuckets(p)
  <2>1. BkOK(pend[p].bk) /\ AcOK(pend[p].ac)
    BY DEF TypeInv, PendOK
  <2>2. pend' = [pend EXCEPT ![p] = Pending(pend[p].op, pend[p].first, None, pend[p].ac)]
    BY <1>1 DEF WriteBuckets, TypeInv, PendOK
  <2>3. PendOK'
    BY <2>1, <2>2, PendSet, NoRowsOK DEF TypeInv
  <2>4. bucketRow' \in [Keys -> BucketRows \union {NoRow}]
    BY <1>1, <2>1 DEF WriteBuckets, TypeInv, BkOK
  <2> QED
    BY <1>1, <2>3, <2>4 DEF WriteBuckets, TypeInv, BucketRows, AcctRows, States, Statuses
<1>2. CASE WriteAccounts(p)
  <2>1. BkOK(pend[p].bk) /\ AcOK(pend[p].ac)
    BY DEF TypeInv, PendOK
  <2>2. pend' = [pend EXCEPT ![p] = Pending(pend[p].op, pend[p].first, pend[p].bk, None)]
    BY <1>2 DEF WriteAccounts, TypeInv, PendOK
  <2>3. PendOK'
    BY <2>1, <2>2, PendSet, NoRowsOK DEF TypeInv
  <2>4. acctRow' \in [Accounts -> AcctRows \union {NoRow}] /\ torn' \in {"no", "yes"}
    BY <1>2, <2>1 DEF WriteAccounts, TypeInv, AcOK
  <2> QED
    BY <1>2, <2>3, <2>4 DEF WriteAccounts, TypeInv, BucketRows, AcctRows, States, Statuses
<1> QED
  BY <1>1, <1>2

\* What an operation on account a other than an observation or an update does.
LEMMA OtherOpType ==
  ASSUME TypeInv, NEW p \in Procs, NEW a \in Accounts,
         \/ ClearCooldown(p, a) \/ (\E s \in States : Add(p, a, s)) \/ Delete(p, a)
         \/ StoreTokens(p, a) \/ MarkError(p, a) \/ RecoverBucket(p, a)
         \/ AbandonRefresh(p, a) \/ StartProbe(p, a)
         \/ \E by \in {"auto", "admin"} : StartRefresh(p, a, by)
  PROVE  TypeInv'
<1> DEFINE k == acctRow[a].key
<1>0. a \in Present => k \in Keys /\ acctRow[a] \in AcctRows
  BY BucketType
<1>1. CASE ClearCooldown(p, a)
  <2>1. Begin(p, "clear", BucketsFirst, Uncooled(k), None) /\ Forgive(k)
    BY <1>1 DEF ClearCooldown
  <2>2. k \in Keys
    BY <1>0, <1>1 DEF ClearCooldown
  <2>3. BkOK(Uncooled(k)) /\ AcOK(None) /\ owed' \in [Accounts -> Nat]
    BY <2>1, <2>2, UncooledType, NoRowsOK, ForgiveType
  <2> QED
    BY <1>1, <2>1, <2>3, BeginType DEF ClearCooldown, TypeInv
<1>2. ASSUME NEW s \in States, Add(p, a, s) PROVE TypeInv'
  <2> DEFINE n == KeyFor[<<SubjectOf[a], s.proj>>]
             bk == [x \in {n} |-> [cd |-> 0, state |-> s]]
             ac == [x \in {a} |-> [status |-> "active", key |-> n]]
  <2>1. Begin(p, "add", BucketsFirst, bk, ac) /\ Forgive(n)
    BY <1>2 DEF Add
  <2>2. n \in Keys /\ [cd |-> 0, state |-> s] \in BucketRows
    BY <1>2, BucketType, RowParts DEF States
  <2>3. BkOK(bk) /\ AcOK(ac) /\ owed' \in [Accounts -> Nat]
    <3>1. BkOK(bk)
      BY <2>2, RowParts DEF BkOK
    <3>2. AcOK(ac)
      BY <2>2 DEF AcOK, AcctRows, Statuses
    <3>3. owed' \in [Accounts -> Nat]
      BY <2>1, ForgiveType
    <3> QED
      BY <3>1, <3>2, <3>3
  <2> HIDE DEF bk, ac
  <2> QED
    BY <1>2, <2>1, <2>3, BeginType DEF Add, TypeInv
<1>3. CASE Delete(p, a)
  <2> DEFINE bk == IF Members(k) = {a} THEN [x \in {k} |-> NoRow] ELSE None
             ac == [x \in {a} |-> NoRow]
  <2>1. /\ Begin(p, "delete", AccountsFirst, bk, ac)
        /\ owed' = [owed EXCEPT ![a] = 0]
        /\ refreshing' = [refreshing EXCEPT ![a] = "no"]
        /\ probing' = probing \ {a}
        /\ UNCHANGED errs
        /\ k \in Keys
    BY <1>0, <1>3 DEF Delete
  <2>2. BkOK(bk) /\ AcOK(ac)
    BY <2>1, NoRowsOK DEF BkOK, AcOK
  <2>3. /\ owed' \in [Accounts -> Nat]
        /\ refreshing' \in [Accounts -> {"no", "auto", "admin"}]
        /\ probing' \subseteq Accounts
    BY <2>1 DEF TypeInv
  <2> HIDE DEF bk, ac
  <2> QED
    BY <2>1, <2>2, <2>3, BeginType DEF TypeInv
<1>4. CASE StoreTokens(p, a)
  <2> DEFINE o == IF refreshing[a] = "auto" THEN "storeTokens" ELSE "adminTokens"
             ac == [x \in {a} |-> [acctRow[a] EXCEPT !.status = "active"]]
  <2>1. /\ Begin(p, o, BucketsFirst, Uncooled(k), ac) /\ Forgive(k)
        /\ refreshing' = [refreshing EXCEPT ![a] = "no"]
        /\ UNCHANGED <<errs, probing>>
        /\ k \in Keys /\ acctRow[a] \in AcctRows
    BY <1>0, <1>4 DEF StoreTokens
  <2>2. [acctRow[a] EXCEPT !.status = "active"] \in AcctRows
    BY <2>1, StatusType DEF Statuses
  <2>3. BkOK(Uncooled(k)) /\ AcOK(ac) /\ owed' \in [Accounts -> Nat]
    BY <2>1, <2>2, UncooledType, ForgiveType DEF AcOK
  <2>4. refreshing' \in [Accounts -> {"no", "auto", "admin"}] /\ probing' \subseteq Accounts
    BY <2>1 DEF TypeInv
  <2> HIDE DEF ac
  <2> QED
    BY <2>1, <2>3, <2>4, BeginType DEF TypeInv
<1>5. CASE MarkError(p, a)
  <2> DEFINE ac == [x \in {a} |-> [acctRow[a] EXCEPT !.status = "error"]]
  <2>1. /\ Begin(p, "markError", AccountsFirst, None, ac)
        /\ refreshing' = [refreshing EXCEPT ![a] = "no"]
        /\ UNCHANGED <<errs, probing, owed>>
        /\ acctRow[a] \in AcctRows
    BY <1>0, <1>5 DEF MarkError
  <2>2. [acctRow[a] EXCEPT !.status = "error"] \in AcctRows
    BY <2>1, StatusType DEF Statuses
  <2>3. BkOK(None) /\ AcOK(ac)
    BY <2>2, NoRowsOK DEF AcOK
  <2>4. refreshing' \in [Accounts -> {"no", "auto", "admin"}] /\ probing' \subseteq Accounts
    BY <2>1 DEF TypeInv
  <2> HIDE DEF ac
  <2> QED
    BY <2>1, <2>3, <2>4, BeginType DEF TypeInv
<1>6. CASE RecoverBucket(p, a)
  <2> DEFINE blocked == {m \in Members(k) : acctRow[m].status = "blocked"}
             ac == [m \in blocked |-> [acctRow[m] EXCEPT !.status = "active"]]
  <2>1. /\ Begin(p, "recover", AccountsFirst, Uncooled(k), ac) /\ Forgive(k)
        /\ probing' = probing \ {a}
        /\ UNCHANGED <<errs, refreshing>>
        /\ k \in Keys
    BY <1>0, <1>6 DEF RecoverBucket
  <2>2. \A m \in blocked : m \in Accounts /\ acctRow[m] \in AcctRows
    BY BucketType DEF Members
  <2>3. \A m \in blocked : [acctRow[m] EXCEPT !.status = "active"] \in AcctRows
    BY <2>2, StatusType DEF Statuses
  <2>4. BkOK(Uncooled(k)) /\ owed' \in [Accounts -> Nat]
    BY <2>1, UncooledType, ForgiveType
  <2>5. AcOK(ac)
    <3> HIDE DEF blocked
    <3> QED
      BY <2>2, <2>3 DEF AcOK
  <2>6. probing' \subseteq Accounts
    BY <2>1 DEF TypeInv
  <2> HIDE DEF ac
  <2> QED
    BY <2>1, <2>4, <2>5, <2>6, BeginType DEF TypeInv
<1>7. CASE AbandonRefresh(p, a) \/ StartProbe(p, a) \/ \E by \in {"auto", "admin"} : StartRefresh(p, a, by)
  <2>1. /\ UNCHANGED <<now, acctRow, bucketRow, errs, pend, owed, torn>>
        /\ refreshing' \in {refreshing} \union
             {[refreshing EXCEPT ![a] = x] : x \in {"no", "auto", "admin"}}
        /\ probing' \in {probing, probing \union {a}}
    BY <1>7 DEF AbandonRefresh, StartProbe, StartRefresh
  <2>2. refreshing' \in [Accounts -> {"no", "auto", "admin"}] /\ probing' \subseteq Accounts
    BY <2>1 DEF TypeInv
  <2>3. PendOK'
    BY <2>1 DEF TypeInv, PendOK, BkOK, AcOK, BucketRows, AcctRows
  <2> QED
    BY <2>1, <2>2, <2>3 DEF TypeInv, BucketRows, AcctRows, States, Statuses
<1> QED
  BY <1>1, <1>2, <1>3, <1>4, <1>5, <1>6, <1>7

\* Every step keeps the types.
LEMMA TypeStep == TypeInv /\ [Next]_vars => TypeInv'
<1> SUFFICES ASSUME TypeInv, [Next]_vars PROVE TypeInv'
  OBVIOUS
<1>1. ASSUME NEW p \in Procs, NEW a \in Accounts, Operate(p, a)
      PROVE  TypeInv'
  <2>1. ASSUME a \in Present, NEW kind \in Kinds, NEW d \in Pauses, NEW s \in Answers,
               Observe(p, a, kind, now + d, s)
        PROVE  TypeInv'
    <3>1. now \in Nat /\ d \in Nat
      BY PoolAssumption DEF TypeInv
    <3>2. now + d \in Nat
      BY <3>1
    <3>3. s \in {NoRow} \union States
      BY DEF Answers
    <3> QED
      BY <2>1, <3>2, <3>3, ObserveType
  <2>2. ASSUME a \in Present, NEW s \in Statuses, NEW t \in Answers, Update(p, a, s, t)
        PROVE  TypeInv'
    BY <2>2, UpdateType DEF Answers
  <2>3. CASE \/ ClearCooldown(p, a) \/ (\E s \in States : Add(p, a, s)) \/ Delete(p, a)
             \/ StoreTokens(p, a) \/ MarkError(p, a) \/ RecoverBucket(p, a)
             \/ AbandonRefresh(p, a) \/ StartProbe(p, a)
             \/ \E by \in {"auto", "admin"} : StartRefresh(p, a, by)
    BY <2>3, OtherOpType
  <2> QED
    BY <1>1, <2>1, <2>2, <2>3 DEF Operate
<1>2. ASSUME NEW p \in Procs, cleanup(p)
      PROVE  TypeInv'
  <2> DEFINE changed == {k \in Loaded : CleanBucket(k) # Bucket(k)}
             bk == [k \in changed |-> CleanBucket(k)]
  <2>1. Begin(p, "cleanup", BucketsFirst, bk, None) /\ UNCHANGED <<errs, refreshing, probing, owed>>
    BY <1>2 DEF cleanup
  <2>2. \A k \in changed : k \in Keys /\ CleanBucket(k) \in BucketRows
    BY CleanType DEF Loaded
  <2>3. BkOK(bk) /\ AcOK(None)
    <3> HIDE DEF changed
    <3> QED
      BY <2>2, NoRowsOK DEF BkOK
  <2> HIDE DEF bk
  <2> QED
    BY <2>1, <2>3, BeginType DEF TypeInv
<1>3. CASE Tick
  <2>1. now' \in Nat /\ owed' \in [Accounts -> Nat]
    BY <1>3 DEF Tick, TypeInv
  <2>2. PendOK'
    BY <1>3 DEF Tick, TypeInv, PendOK, BkOK, AcOK, BucketRows, AcctRows
  <2> QED
    BY <1>3, <2>1, <2>2 DEF Tick, TypeInv, BucketRows, AcctRows, States, Statuses
<1>4. CASE UNCHANGED vars
  BY <1>4 DEF vars, TypeInv, PendOK, BkOK, AcOK, BucketRows, AcctRows, States, Statuses
<1> QED
  BY <1>1, <1>2, <1>3, <1>4, WriteType, RestartStep DEF Next

\* The types hold at the start.
LEMMA TypeInit == Init => TypeInv
<1> SUFFICES ASSUME Init PROVE TypeInv
  OBVIOUS
<1>1. \A p \in Procs : pend[p].bk = None /\ pend[p].ac = None
  BY DEF Init, Idle
<1>2. PendOK
  BY <1>1, NoRowsOK DEF Init, PendOK
<1> QED
  BY <1>2 DEF Init, TypeInv

\* The pool's rows, counters and operations have their types: no row an operation has
\* still to write is of a key or an account there is not, and no process counts more than
\* two server errors before the breaker trips.
THEOREM TypeCorrect == Spec => []TypeOK
<1>1. TypeInv => TypeOK
  BY DEF TypeInv, TypeOK, PendOK, BkOK, AcOK
<1> QED
  BY <1>1, TypeInit, TypeStep, PTL DEF Spec

-----------------------------------------------------------------------------
(* Blocked accounts.                                                       *)

\* The operations that may make a blocked account active.
OnPurpose == {"setStatus", "recover", "storeTokens", "adminTokens"}

\* A row operation o is to write for account a does not unblock it.
KeepsBlock(o, ac) ==
  o \notin OnPurpose =>
    \A a \in DOMAIN ac :
      ac[a] # NoRow /\ acctRow[a] # NoRow /\ acctRow[a].status = "blocked"
        => ac[a].status # "active"

\* The inductive invariant: it says of the rows under way what UnblockedOnPurpose says of
\* the step that writes them, about the account rows there are now.  With a second process
\* those may have changed since the operation read them.
BlockInv == \A p \in Procs : KeepsBlock(pend[p].op, pend[p].ac)

\* A process starts to write rows that keep a block.
LEMMA BlockBegin ==
  ASSUME TypeInv, BlockInv, NEW p \in Procs, NEW o, NEW first, NEW bk, NEW ac,
         pend' = [pend EXCEPT ![p] = Pending(o, first, bk, ac)],
         UNCHANGED acctRow, KeepsBlock(o, ac)
  PROVE  BlockInv'
<1>0. PendOK
  BY DEF TypeInv
<1>1. /\ pend'[p].ac = ac /\ (pend'[p].op = o \/ ac = None)
      /\ \A q \in Procs \ {p} : pend'[q] = pend[q]
  <2>1. /\ pend'[p] = Pending(o, first, bk, ac)
        /\ \A q \in Procs \ {p} : pend'[q] = pend[q]
    BY <1>0 DEF PendOK
  <2> QED
    BY <2>1, PendingFields
<1>2. KeepsBlock(pend[p].op, pend[p].ac)'
  BY <1>1, NoRowsOK DEF KeepsBlock
<1>3. \A q \in Procs \ {p} : KeepsBlock(pend[q].op, pend[q].ac)'
  BY <1>1 DEF KeepsBlock, BlockInv
<1> QED
  BY <1>2, <1>3 DEF BlockInv

\* The same, of an operation that begins.
LEMMA BlockBegun ==
  ASSUME TypeInv, BlockInv, NEW p \in Procs, NEW o, NEW first, NEW bk, NEW ac,
         Begin(p, o, first, bk, ac), KeepsBlock(o, ac)
  PROVE  BlockInv'
  BY BlockBegin DEF Begin

\* An operation on account a keeps blocks, or is meant to end one.
LEMMA BlockOperate ==
  ASSUME TypeInv, BlockInv, NEW p \in Procs, NEW a \in Accounts, Operate(p, a)
  PROVE  BlockInv'
<1>1. ASSUME a \in Present, NEW kind \in Kinds, NEW d \in Pauses, NEW state \in Answers,
             Observe(p, a, kind, now + d, state)
      PROVE  BlockInv'
  <2> DEFINE k == acctRow[a].key
             old == Bucket(k)
             cd == IF kind \in Cooling THEN applyBucketCooldown(old.cd, now + d)
                   ELSE IF Trips(p, k, kind) THEN applyBucketCooldown(old.cd, now + BreakerPause)
                   ELSE old.cd
             st == IF state = NoRow THEN old.state ELSE state
             l == IF state = NoRow THEN k ELSE KeyFor[<<SubjectOf[a], st.proj>>]
             row == [cd |-> cd, state |-> st]
             bk == IF row # old \/ l # k THEN Rekey(k, l, row) ELSE None
             touched == {m \in Members(k) : (m = a /\ kind \in {"success", "serverError", "block"})
                                              \/ l # k}
             status(m) == IF m = a /\ kind = "block" THEN "blocked" ELSE acctRow[m].status
             ac == [m \in touched |-> [status |-> status(m), key |-> l]]
  <2>1. Begin(p, "observe", BucketsFirst, bk, ac)
    BY <1>1 DEF Observe
  <2>2. \A m \in DOMAIN ac : ac[m].status \in {"blocked", acctRow[m].status}
    <3> HIDE DEF touched, l
    <3> QED
      OBVIOUS
  <2> HIDE DEF bk, ac
  <2>3. KeepsBlock("observe", ac)
    BY <2>2 DEF KeepsBlock
  <2> QED
    BY <2>1, <2>3, BlockBegun
<1>2. ASSUME a \in Present, NEW s \in Statuses, NEW state \in Answers, Update(p, a, s, state)
      PROVE  BlockInv'
  <2> DEFINE o == IF s = acctRow[a].status THEN "update" ELSE "setStatus"
  <2>1. PICK bk, l : Begin(p, o, BucketsFirst, bk, [x \in {a} |-> [status |-> s, key |-> l]])
    BY <1>2 DEF Update
  <2>2. KeepsBlock(o, [x \in {a} |-> [status |-> s, key |-> l]])
    BY DEF KeepsBlock, OnPurpose
  <2> QED
    BY <2>1, <2>2, BlockBegun
<1>3. ASSUME NEW s \in States, Add(p, a, s) PROVE BlockInv'
  <2>1. PICK bk, l : Begin(p, "add", BucketsFirst, bk, [x \in {a} |-> [status |-> "active", key |-> l]])
    BY <1>3 DEF Add
  <2>2. KeepsBlock("add", [x \in {a} |-> [status |-> "active", key |-> l]])
    BY <1>3 DEF KeepsBlock, Add, Present
  <2> QED
    BY <2>1, <2>2, BlockBegun
<1>4. CASE Delete(p, a)
  <2>1. PICK bk : Begin(p, "delete", AccountsFirst, bk, [x \in {a} |-> NoRow])
    BY <1>4 DEF Delete
  <2>2. KeepsBlock("delete", [x \in {a} |-> NoRow])
    BY DEF KeepsBlock
  <2> QED
    BY <2>1, <2>2, BlockBegun
<1>5. CASE MarkError(p, a)
  <2> DEFINE ac == [x \in {a} |-> [acctRow[a] EXCEPT !.status = "error"]]
  <2>1. Begin(p, "markError", AccountsFirst, None, ac) /\ a \in Present
    BY <1>5 DEF MarkError
  <2>2. acctRow[a] \in AcctRows
    BY <2>1, BucketType
  <2>3. [acctRow[a] EXCEPT !.status = "error"].status = "error"
    BY <2>2 DEF AcctRows
  <2>4. KeepsBlock("markError", ac)
    BY <2>3 DEF KeepsBlock
  <2> HIDE DEF ac
  <2> QED
    BY <2>1, <2>4, BlockBegun
<1>6. CASE ClearCooldown(p, a)
  <2>1. Begin(p, "clear", BucketsFirst, Uncooled(acctRow[a].key), None)
    BY <1>6 DEF ClearCooldown
  <2>2. KeepsBlock("clear", None)
    BY NoRowsOK DEF KeepsBlock
  <2> QED
    BY <2>1, <2>2, BlockBegun
<1>7. CASE StoreTokens(p, a) \/ RecoverBucket(p, a)
  <2>1. PICK o \in OnPurpose : \E first, bk, ac : Begin(p, o, first, bk, ac)
    BY <1>7 DEF StoreTokens, RecoverBucket, OnPurpose
  <2>2. PICK first, bk, ac : Begin(p, o, first, bk, ac)
    BY <2>1
  <2>3. KeepsBlock(o, ac)
    BY DEF KeepsBlock
  <2> QED
    BY <2>2, <2>3, BlockBegun
<1>8. CASE AbandonRefresh(p, a) \/ StartProbe(p, a) \/ \E by \in {"auto", "admin"} : StartRefresh(p, a, by)
  BY <1>8 DEF AbandonRefresh, StartProbe, StartRefresh, BlockInv, KeepsBlock
<1> QED
  BY <1>1, <1>2, <1>3, <1>4, <1>5, <1>6, <1>7, <1>8 DEF Operate

\* With one process nobody else changes the rows an operation has read.
LEMMA BlockStep == OneProcess /\ TypeInv /\ BlockInv /\ [Next]_vars => BlockInv'
<1> SUFFICES ASSUME OneProcess, TypeInv, BlockInv, [Next]_vars PROVE BlockInv'
  OBVIOUS
<1>1. ASSUME NEW p \in Procs, cleanup(p) PROVE BlockInv'
  <2>1. PICK bk : Begin(p, "cleanup", BucketsFirst, bk, None)
    BY <1>1 DEF cleanup
  <2>2. KeepsBlock("cleanup", None)
    BY NoRowsOK DEF KeepsBlock
  <2> QED
    BY <2>1, <2>2, BlockBegun
<1>2. ASSUME NEW p \in Procs, Restart(p) PROVE BlockInv'
  <2>1. /\ pend' = [pend EXCEPT ![p] = Pending("setDrivers", BucketsFirst, RestartBk, RestartAc)]
        /\ UNCHANGED acctRow
    BY <1>2, RestartStep DEF Restart
  <2>2. \A x \in DOMAIN RestartAc : RestartAc[x].status = acctRow[x].status
    <3> DEFINE derived(x) == KeyFor[<<SubjectOf[x], Bucket(acctRow[x].key).state.proj>>]
    <3>1. DOMAIN RestartAc \subseteq Present
      BY DEF RestartAc
    <3>2. \A x \in DOMAIN RestartAc : RestartAc[x] = [acctRow[x] EXCEPT !.key = derived(x)]
      BY DEF RestartAc
    <3> HIDE DEF derived
    <3> QED
      BY <3>1, <3>2, BucketType DEF AcctRows
  <2>3. KeepsBlock("setDrivers", RestartAc)
    BY <2>2 DEF KeepsBlock
  <2> QED
    BY <2>1, <2>3, BlockBegin
<1>3. ASSUME NEW p \in Procs, WriteBuckets(p) PROVE BlockInv'
  <2>1. /\ pend' = [pend EXCEPT ![p] = Pending(pend[p].op, pend[p].first, None, pend[p].ac)]
        /\ UNCHANGED acctRow
    BY <1>3 DEF WriteBuckets, TypeInv, PendOK
  <2> QED
    BY <2>1, BlockBegin DEF BlockInv
<1>4. ASSUME NEW p \in Procs, WriteAccounts(p) PROVE BlockInv'
  <2>1. pend' = [pend EXCEPT ![p] = Pending(pend[p].op, pend[p].first, pend[p].bk, None)]
    BY <1>4 DEF WriteAccounts, TypeInv, PendOK
  <2>0. PendOK
    BY DEF TypeInv
  <2>3. pend'[p] = Pending(pend[p].op, pend[p].first, pend[p].bk, None)
    BY <2>0, <2>1 DEF PendOK
  <2>2. pend'[p].ac = None
    BY <2>0, <2>3, PendingFields
  <2>4. Procs = {p}
    BY DEF OneProcess
  <2> QED
    BY <2>2, <2>4, NoRowsOK DEF BlockInv, KeepsBlock
<1>5. CASE Tick \/ UNCHANGED vars
  BY <1>5 DEF Tick, vars, BlockInv, KeepsBlock
<1> QED
  BY <1>1, <1>2, <1>3, <1>4, <1>5, BlockOperate DEF Next

\* An account becomes active only when an operation writes its row.
LEMMA UnblockStep ==
  TypeInv /\ BlockInv /\ [Next]_vars => (\A a \in Accounts : Unblocks(a, OnPurpose)) \/ UNCHANGED vars
<1> SUFFICES ASSUME TypeInv, BlockInv, Next, NEW a \in Accounts,
                    a \in Present, acctRow[a].status = "blocked", acctRow'[a] # NoRow,
                    acctRow'[a].status = "active"
             PROVE  \E p \in Procs : pend[p].op \in OnPurpose /\ a \in DOMAIN pend[p].ac
  BY DEF Unblocks
<1>1. acctRow'[a] # acctRow[a]
  OBVIOUS
<1>2. PICK p \in Procs : WriteAccounts(p)
  <2>1. ASSUME NEW p \in Procs, NEW b \in Accounts, Operate(p, b) PROVE UNCHANGED acctRow
    <3>1. CASE \E kind \in Kinds, d \in Pauses, s \in Answers : Observe(p, b, kind, now + d, s)
      BY <3>1 DEF Observe, Begin
    <3>2. CASE \E s \in Statuses, t \in Answers : Update(p, b, s, t)
      BY <3>2 DEF Update, Begin
    <3>3. CASE ClearCooldown(p, b) \/ (\E s \in States : Add(p, b, s)) \/ Delete(p, b)
      BY <3>3 DEF ClearCooldown, Add, Delete, Begin
    <3>4. CASE StoreTokens(p, b) \/ MarkError(p, b) \/ RecoverBucket(p, b)
      BY <3>4 DEF StoreTokens, MarkError, RecoverBucket, Begin
    <3>5. CASE AbandonRefresh(p, b) \/ StartProbe(p, b)
               \/ \E by \in {"auto", "admin"} : StartRefresh(p, b, by)
      BY <3>5 DEF AbandonRefresh, StartProbe, StartRefresh
    <3> QED
      BY <2>1, <3>1, <3>2, <3>3, <3>4, <3>5 DEF Operate
  <2>2. ASSUME NEW p \in Procs, cleanup(p) \/ WriteBuckets(p) \/ Restart(p) PROVE UNCHANGED acctRow
    BY <2>2 DEF cleanup, WriteBuckets, Restart, Begin
  <2>3. Tick => UNCHANGED acctRow
    BY DEF Tick
  <2> QED
    BY <1>1, <2>1, <2>2, <2>3 DEF Next
<1>3. a \in DOMAIN pend[p].ac /\ acctRow'[a] = pend[p].ac[a]
  BY <1>1, <1>2 DEF WriteAccounts
<1>4. acctRow[a] # NoRow
  BY DEF Present
<1> QED
  BY <1>3, <1>4 DEF BlockInv, KeepsBlock

\* Where one process works on the database, a blocked account becomes active only by the
\* administrator's status update, a recovery after a probe, or newly stored tokens.  The
\* hypothesis is needed: a second process that read the account before the block writes the
\* whole row back (SaveAccount).
THEOREM BlocksStay == OneProcess => (Spec => UnblockedOnPurpose)
<1> SUFFICES ASSUME OneProcess PROVE Spec => UnblockedOnPurpose
  OBVIOUS
<1>1. Init => BlockInv
  BY NoRowsOK DEF Init, BlockInv, KeepsBlock, Idle
<1>2. TypeInv /\ BlockInv /\ [Next]_vars => BlockInv'
  BY BlockStep
<1>3. TypeInv /\ BlockInv /\ [Next]_vars
        => [\A a \in Accounts :
              Unblocks(a, {"setStatus", "recover", "storeTokens", "adminTokens"})]_vars
  BY UnblockStep DEF OnPurpose
<1> QED
  BY <1>1, <1>2, <1>3, TypeInit, TypeStep, PTL DEF Spec, UnblockedOnPurpose

-----------------------------------------------------------------------------
(* Bucket rows have accounts.                                              *)

\* Rows f with those of g written over them.
Put(f, g) == [x \in DOMAIN f |-> IF x \in DOMAIN g THEN g[x] ELSE f[x]]

\* The rows as they will be when the operation of p is through.
NextAcct(p) == Put(acctRow, pend[p].ac)
NextBucket(p) == Put(bucketRow, pend[p].bk)

\* The store takes the account rows of ac.
Accepted(ac) == \A a \in DOMAIN ac : ac[a] # NoRow => ~Taken(a)

\* Every bucket row has an account row at its key.
Inhabited(acct, bucket) ==
  \A k \in Keys : bucket[k] # NoRow => \E a \in Accounts : acct[a] # NoRow /\ acct[a].key = k

\* The inductive invariant: so it will be after the operation under way, if the store takes
\* its rows and nothing cuts it short.
HomeInv ==
  \A p \in Procs :
    torn = "no" /\ Accepted(pend[p].ac) => Inhabited(NextAcct(p), NextBucket(p))

\* Rows written over others.
LEMMA PutRows ==
  ASSUME TypeInv, NEW bk, NEW ac
  PROVE  /\ \A a \in Accounts : Put(acctRow, ac)[a] = IF a \in DOMAIN ac THEN ac[a] ELSE acctRow[a]
         /\ \A k \in Keys : Put(bucketRow, bk)[k] = IF k \in DOMAIN bk THEN bk[k] ELSE bucketRow[k]
<1>1. DOMAIN acctRow = Accounts /\ DOMAIN bucketRow = Keys
  BY DEF TypeInv
<1> QED
  BY <1>1 DEF Put

\* A row is a row.
LEMMA RowsAre ==
  /\ \A r \in AcctRows : r # NoRow
  /\ \A r \in BucketRows : r # NoRow
  /\ \A r \in States : r # NoRow
  BY NoRowAssumption

\* The rows of an idle process are those of the store.
LEMMA IdleInhabited ==
  ASSUME TypeInv, HomeInv, NEW p \in Procs, pend[p] = Idle, torn = "no"
  PROVE  Inhabited(acctRow, bucketRow)
<1>1. pend[p].ac = None /\ pend[p].bk = None
  BY DEF Idle
<1>2. NextAcct(p) = acctRow /\ NextBucket(p) = bucketRow
  BY <1>1, NoRowsOK DEF NextAcct, NextBucket, Put, TypeInv
<1>3. Accepted(pend[p].ac)
  BY <1>1, NoRowsOK DEF Accepted
<1> QED
  BY <1>2, <1>3 DEF HomeInv

\* An operation begins that will leave no bucket row without an account.
LEMMA BeginHome ==
  ASSUME TypeInv, HomeInv, NEW p, Procs = {p}, NEW o, NEW first, NEW bk, NEW ac,
         Begin(p, o, first, bk, ac),
         Inhabited(acctRow, bucketRow) => Inhabited(Put(acctRow, ac), Put(bucketRow, bk))
  PROVE  HomeInv'
<1>1. pend'[p] = Pending(o, first, bk, ac) /\ pend[p] = Idle
      /\ UNCHANGED <<acctRow, bucketRow, torn>>
  BY DEF Begin, TypeInv, PendOK
<1>2. pend'[p].bk = bk /\ pend'[p].ac = ac
  BY <1>1, PendingFields
<1>3. NextAcct(p)' = Put(acctRow, ac) /\ NextBucket(p)' = Put(bucketRow, bk)
  BY <1>1, <1>2 DEF NextAcct, NextBucket
<1>4. torn = "no" => Inhabited(NextAcct(p)', NextBucket(p)')
  BY <1>1, <1>3, IdleInhabited
<1> QED
  BY <1>1, <1>4 DEF HomeInv, Inhabited

\* New contents of buckets that have accounts, where no account moves or goes.
LEMMA HomeKept ==
  ASSUME TypeInv, NEW bk, NEW ac, Inhabited(acctRow, bucketRow),
         \A m \in DOMAIN ac : m \in Present /\ ac[m] \in AcctRows /\ ac[m].key = acctRow[m].key,
         \A k \in DOMAIN bk : k \in Keys => k \in Loaded
  PROVE  Inhabited(Put(acctRow, ac), Put(bucketRow, bk))
<1> SUFFICES ASSUME NEW k \in Keys, Put(bucketRow, bk)[k] # NoRow
             PROVE  \E a \in Accounts : Put(acctRow, ac)[a] # NoRow /\ Put(acctRow, ac)[a].key = k
  BY DEF Inhabited
<1>1. k \in Loaded
  BY PutRows DEF Loaded
<1>2. PICK a \in Accounts : acctRow[a] # NoRow /\ acctRow[a].key = k
  BY <1>1 DEF Loaded, Members, Present, Inhabited
<1>3. Put(acctRow, ac)[a] # NoRow /\ Put(acctRow, ac)[a].key = k
  BY <1>2, PutRows, RowsAre
<1> QED
  BY <1>3

\* The bucket at k is gone and one at l may be there, where those who leave k go to l.
LEMMA HomeMoved ==
  ASSUME TypeInv, NEW bk, NEW ac, Inhabited(acctRow, bucketRow), NEW k \in Keys, NEW l \in Keys,
         k # l, DOMAIN bk \subseteq {k, l}, k \in DOMAIN bk, bk[k] = NoRow,
         \A m \in DOMAIN ac : m \in Present /\ ac[m] \in AcctRows /\ acctRow[m].key = k /\ ac[m].key = l,
         NEW a \in DOMAIN ac
  PROVE  Inhabited(Put(acctRow, ac), Put(bucketRow, bk))
<1> SUFFICES ASSUME NEW q \in Keys, Put(bucketRow, bk)[q] # NoRow
             PROVE  \E m \in Accounts : Put(acctRow, ac)[m] # NoRow /\ Put(acctRow, ac)[m].key = q
  BY DEF Inhabited
<1>1. q # k
  BY PutRows
<1>2. CASE q = l
  <2>1. a \in Accounts /\ Put(acctRow, ac)[a] = ac[a]
    BY PutRows DEF Present
  <2> QED
    BY <1>2, <2>1, RowsAre
<1>3. CASE q # l
  <2>1. bucketRow[q] # NoRow
    BY <1>1, <1>3, PutRows
  <2>2. PICK m \in Accounts : acctRow[m] # NoRow /\ acctRow[m].key = q
    BY <2>1 DEF Inhabited
  <2>3. m \notin DOMAIN ac
    BY <1>1, <2>2
  <2>4. Put(acctRow, ac)[m] = acctRow[m]
    BY <2>3, PutRows
  <2> QED
    BY <2>2, <2>4
<1> QED
  BY <1>2, <1>3

\* An upstream answer that moves the bucket moves every member with it.
LEMMA ObserveHome ==
  ASSUME TypeInv, HomeInv, NEW p, Procs = {p}, NEW a \in Present, NEW kind \in Kinds,
         NEW until \in Nat, NEW state \in {NoRow} \union States, Observe(p, a, kind, until, state)
  PROVE  HomeInv'
<1> DEFINE k == acctRow[a].key
           old == Bucket(k)
           cd == IF kind \in Cooling THEN applyBucketCooldown(old.cd, until)
                 ELSE IF Trips(p, k, kind) THEN applyBucketCooldown(old.cd, now + BreakerPause)
                 ELSE old.cd
           st == IF state = NoRow THEN old.state ELSE state
           l == IF state = NoRow THEN k ELSE KeyFor[<<SubjectOf[a], st.proj>>]
           row == [cd |-> cd, state |-> st]
           touched == {m \in Members(k) : (m = a /\ kind \in {"success", "serverError", "block"})
                                            \/ l # k}
           status(m) == IF m = a /\ kind = "block" THEN "blocked" ELSE acctRow[m].status
           bk == IF row # old \/ l # k THEN Rekey(k, l, row) ELSE None
           ac == [m \in touched |-> [status |-> status(m), key |-> l]]
<1>1. Begin(p, "observe", BucketsFirst, bk, ac)
  BY DEF Observe
<1>2. k \in Keys /\ a \in Members(k)
  BY BucketType DEF Members
<1>3. l \in Keys
  BY <1>2, BucketType DEF States, Present
<1>4. \A m \in touched : m \in Present /\ acctRow[m].key = k /\ status(m) \in Statuses
  BY BucketType DEF Members, Statuses
<1>5. DOMAIN ac = touched /\ \A m \in touched : ac[m] \in AcctRows /\ ac[m].key = l
  <2> HIDE DEF touched, status, l
  <2> QED
    BY <1>3, <1>4 DEF AcctRows
<1>6. ASSUME Inhabited(acctRow, bucketRow)
      PROVE  Inhabited(Put(acctRow, ac), Put(bucketRow, bk))
  <2>1. CASE l = k
    <3>1. DOMAIN bk \subseteq {k} /\ k \in Loaded
      BY <1>2, <2>1, NoRowsOK DEF Rekey, Loaded
    <3> HIDE DEF ac, bk, touched
    <3> QED
      BY <1>4, <1>5, <1>6, <2>1, <3>1, HomeKept
  <2>2. CASE l # k
    <3>1. DOMAIN bk \subseteq {k, l} /\ k \in DOMAIN bk /\ bk[k] = NoRow
      BY <2>2 DEF Rekey
    <3>2. a \in touched
      BY <1>2, <2>2
    <3> HIDE DEF ac, bk, touched, l
    <3> QED
      BY <1>2, <1>3, <1>4, <1>5, <1>6, <2>2, <3>1, <3>2, HomeMoved
  <2> QED
    BY <2>1, <2>2
<1> HIDE DEF ac, bk
<1> QED
  BY <1>1, <1>6, BeginHome

\* An update moves the account's bucket with it; those who stay at the old key get a new one.
LEMMA UpdateHome ==
  ASSUME TypeInv, HomeInv, NEW p, Procs = {p}, NEW a \in Present, NEW s \in Statuses,
         NEW state \in {NoRow} \union States, Update(p, a, s, state)
  PROVE  HomeInv'
<1> DEFINE k == acctRow[a].key
           l == IF state = NoRow THEN k ELSE KeyFor[<<SubjectOf[a], state.proj>>]
           row == [Bucket(k) EXCEPT !.state = IF state = NoRow THEN @ ELSE state]
           bk == IF row = Bucket(k) /\ l = k THEN None
                 ELSE Over([x \in {l} |-> row], Rekey(k, l, row))
           ac == [x \in {a} |-> [status |-> s, key |-> l]]
           o == IF s = acctRow[a].status THEN "update" ELSE "setStatus"
<1>1. Begin(p, o, BucketsFirst, bk, ac)
  BY DEF Update
<1>2. k \in Keys /\ a \in Members(k)
  BY BucketType DEF Members
<1>3. l \in Keys
  BY <1>2, BucketType DEF States, Present
<1>4. DOMAIN ac = {a} /\ ac[a] \in AcctRows /\ ac[a].key = l
  BY <1>3 DEF AcctRows
<1>5. ASSUME Inhabited(acctRow, bucketRow)
      PROVE  Inhabited(Put(acctRow, ac), Put(bucketRow, bk))
  <2> HIDE DEF row
  <2>1. CASE l = k
    <3>1. DOMAIN bk \subseteq {k} /\ k \in Loaded
      BY <1>2, <2>1, NoRowsOK DEF Rekey, Over, Loaded
    <3> HIDE DEF ac, bk
    <3> QED
      BY <1>4, <1>5, <2>1, <3>1, HomeKept
  <2>2. CASE l # k
    <3>1. /\ DOMAIN Rekey(k, l, row) \subseteq {k, l} /\ k \in DOMAIN Rekey(k, l, row)
          /\ Rekey(k, l, row)[k] = NoRow
      BY <2>2 DEF Rekey
    <3>2. DOMAIN bk \subseteq {k, l} /\ k \in DOMAIN bk /\ bk[k] = NoRow
      BY <2>2, <3>1 DEF Over
    <3> HIDE DEF ac, bk, l
    <3> QED
      BY <1>2, <1>3, <1>4, <1>5, <2>2, <3>2, HomeMoved
  <2> QED
    BY <2>1, <2>2
<1> HIDE DEF ac, bk, o
<1> QED
  BY <1>1, <1>5, BeginHome

\* A sign-in brings its bucket, and the last account takes it away.
LEMMA AddDeleteHome ==
  ASSUME TypeInv, HomeInv, NEW p, Procs = {p}, NEW a \in Accounts,
         (\E s \in States : Add(p, a, s)) \/ Delete(p, a)
  PROVE  HomeInv'
<1>1. ASSUME NEW s \in States, Add(p, a, s) PROVE HomeInv'
  <2> DEFINE k == KeyFor[<<SubjectOf[a], s.proj>>]
             bk == [x \in {k} |-> [cd |-> 0, state |-> s]]
             ac == [x \in {a} |-> [status |-> "active", key |-> k]]
  <2>1. acctRow[a] = NoRow /\ Begin(p, "add", BucketsFirst, bk, ac)
    BY <1>1 DEF Add, Present
  <2>2. ac[a] \in AcctRows /\ ac[a].key = k /\ DOMAIN ac = {a} /\ DOMAIN bk = {k}
    <3>1. s.proj \in {"blank", "project"}
      BY DEF States
    <3>2. k \in Keys
      BY <3>1, BucketType
    <3> HIDE DEF k
    <3> QED
      BY <3>2 DEF AcctRows, Statuses
  <2> HIDE DEF ac, bk
  <2>3. ASSUME Inhabited(acctRow, bucketRow)
        PROVE  Inhabited(Put(acctRow, ac), Put(bucketRow, bk))
    <3> SUFFICES ASSUME NEW q \in Keys, Put(bucketRow, bk)[q] # NoRow
                 PROVE  \E m \in Accounts : Put(acctRow, ac)[m] # NoRow /\ Put(acctRow, ac)[m].key = q
      BY DEF Inhabited
    <3>1. CASE q = k
      <4>1. Put(acctRow, ac)[a] = ac[a]
        BY <2>2, PutRows
      <4> QED
        BY <2>2, <3>1, <4>1, RowsAre
    <3>2. CASE q # k
      <4>1. bucketRow[q] # NoRow
        BY <2>2, <3>2, PutRows
      <4>2. PICK m \in Accounts : acctRow[m] # NoRow /\ acctRow[m].key = q
        BY <2>3, <4>1 DEF Inhabited
      <4>3. Put(acctRow, ac)[m] = acctRow[m]
        BY <2>1, <2>2, <4>2, PutRows
      <4> QED
        BY <4>2, <4>3
    <3> QED
      BY <3>1, <3>2
  <2> QED
    BY <2>1, <2>3, BeginHome
<1>2. CASE Delete(p, a)
  <2> DEFINE k == acctRow[a].key
             bk == IF Members(k) = {a} THEN [x \in {k} |-> NoRow] ELSE None
             ac == [x \in {a} |-> NoRow]
  <2>1. a \in Present /\ Begin(p, "delete", AccountsFirst, bk, ac)
    BY <1>2 DEF Delete
  <2>2. DOMAIN ac = {a} /\ DOMAIN bk = (IF Members(k) = {a} THEN {k} ELSE {})
        /\ (k \in DOMAIN bk => bk[k] = NoRow)
    BY NoRowsOK
  <2>3. a \in Members(k)
    BY <2>1 DEF Members
  <2> HIDE DEF ac, bk
  <2>4. ASSUME Inhabited(acctRow, bucketRow)
        PROVE  Inhabited(Put(acctRow, ac), Put(bucketRow, bk))
    <3> SUFFICES ASSUME NEW q \in Keys, Put(bucketRow, bk)[q] # NoRow
                 PROVE  \E m \in Accounts : Put(acctRow, ac)[m] # NoRow /\ Put(acctRow, ac)[m].key = q
      BY DEF Inhabited
    <3>1. bucketRow[q] # NoRow /\ ~(q = k /\ Members(k) = {a})
      BY <2>2, PutRows
    <3>2. PICK m \in Accounts \ {a} : acctRow[m] # NoRow /\ acctRow[m].key = q
      <4>1. CASE q = k
        BY <2>3, <3>1, <4>1 DEF Members, Present
      <4>2. CASE q # k
        BY <2>4, <3>1, <4>2 DEF Inhabited
      <4> QED
        BY <4>1, <4>2
    <3>3. Put(acctRow, ac)[m] = acctRow[m]
      BY <2>2, PutRows
    <3> QED
      BY <3>2, <3>3
  <2> QED
    BY <2>1, <2>4, BeginHome
<1> QED
  BY <1>1, <1>2

\* Operations that change the status of accounts and the cooldown of buckets with accounts.
LEMMA StatusHome ==
  ASSUME TypeInv, HomeInv, NEW p, Procs = {p}, NEW a \in Accounts,
         ClearCooldown(p, a) \/ StoreTokens(p, a) \/ MarkError(p, a) \/ RecoverBucket(p, a)
  PROVE  HomeInv'
<1> DEFINE k == acctRow[a].key
           one(s) == [x \in {a} |-> [acctRow[a] EXCEPT !.status = s]]
           blocked == {m \in Members(k) : acctRow[m].status = "blocked"}
           all == [m \in blocked |-> [acctRow[m] EXCEPT !.status = "active"]]
<1>1. a \in Present
  BY DEF ClearCooldown, StoreTokens, MarkError, RecoverBucket
<1>2. \A bk \in {None, Uncooled(k)} : \A q \in DOMAIN bk : q \in Keys => q \in Loaded
  BY <1>1, NoRowsOK DEF Uncooled, Loaded, Members
<1>3. ASSUME NEW o, NEW first, NEW bk \in {None, Uncooled(k)}, NEW ac, Begin(p, o, first, bk, ac),
             \A m \in DOMAIN ac : m \in Present /\ ac[m] \in AcctRows /\ ac[m].key = acctRow[m].key
      PROVE  HomeInv'
  BY <1>2, <1>3, BeginHome, HomeKept
<1>4. ASSUME NEW s \in Statuses
      PROVE  \A m \in DOMAIN one(s) : /\ m \in Present /\ one(s)[m] \in AcctRows
                                      /\ one(s)[m].key = acctRow[m].key
  BY <1>1, BucketType DEF AcctRows
<1>5. \A m \in DOMAIN all : m \in Present /\ all[m] \in AcctRows /\ all[m].key = acctRow[m].key
  <2>1. \A m \in blocked : m \in Present /\ acctRow[m] \in AcctRows
    BY BucketType DEF Members
  <2> HIDE DEF blocked
  <2> QED
    BY <2>1 DEF AcctRows, Statuses
<1>6. CASE ClearCooldown(p, a)
  <2>1. Begin(p, "clear", BucketsFirst, Uncooled(k), None)
    BY <1>6 DEF ClearCooldown
  <2> QED
    BY <1>3, <2>1, NoRowsOK
<1>7. CASE StoreTokens(p, a)
  <2> DEFINE o == IF refreshing[a] = "auto" THEN "storeTokens" ELSE "adminTokens"
  <2>1. Begin(p, o, BucketsFirst, Uncooled(k), one("active")) /\ "active" \in Statuses
    BY <1>7 DEF StoreTokens, Statuses
  <2> HIDE DEF o, one
  <2> QED
    BY <1>3, <1>4, <2>1
<1>8. CASE MarkError(p, a)
  <2>1. Begin(p, "markError", AccountsFirst, None, one("error")) /\ "error" \in Statuses
    BY <1>8 DEF MarkError, Statuses
  <2> HIDE DEF one
  <2> QED
    BY <1>3, <1>4, <2>1
<1>9. CASE RecoverBucket(p, a)
  <2>1. Begin(p, "recover", AccountsFirst, Uncooled(k), all)
    BY <1>9 DEF RecoverBucket
  <2> HIDE DEF all
  <2> QED
    BY <1>3, <1>5, <2>1
<1> QED
  BY <1>6, <1>7, <1>8, <1>9

\* Clean-up writes only buckets that have accounts.
LEMMA CleanHome ==
  ASSUME TypeInv, HomeInv, NEW p, Procs = {p}, cleanup(p)
  PROVE  HomeInv'
<1> DEFINE changed == {k \in Loaded : CleanBucket(k) # Bucket(k)}
           bk == [k \in changed |-> CleanBucket(k)]
<1>1. Begin(p, "cleanup", BucketsFirst, bk, None)
  BY DEF cleanup
<1>2. \A k \in DOMAIN bk : k \in Keys => k \in Loaded
  OBVIOUS
<1> HIDE DEF bk
<1> QED
  BY <1>1, <1>2, NoRowsOK, BeginHome, HomeKept

\* Writing a table leaves the rows to come as they were.
LEMMA WriteKeeps ==
  ASSUME TypeInv, NEW p \in Procs, WriteBuckets(p) \/ WriteAccounts(p),
         (torn = "no")', Accepted(pend[p].ac)'
  PROVE  /\ UNCHANGED <<now, owed>> /\ torn = "no" /\ Accepted(pend[p].ac)
         /\ NextAcct(p)' = NextAcct(p) /\ NextBucket(p)' = NextBucket(p)
<1>1. CASE WriteBuckets(p)
  <2>1. pend'[p] = Pending(pend[p].op, pend[p].first, None, pend[p].ac)
    BY <1>1 DEF WriteBuckets, TypeInv, PendOK
  <2>2. pend'[p].bk = None /\ pend'[p].ac = pend[p].ac
    BY <2>1, PendingFields
  <2>3. UNCHANGED <<now, owed, torn, acctRow>> /\ bucketRow' = Put(bucketRow, pend[p].bk)
    BY <1>1 DEF WriteBuckets, Put, TypeInv
  <2>4. NextBucket(p)' = NextBucket(p)
    BY <2>2, <2>3, NoRowsOK DEF NextBucket, Put
  <2>5. Accepted(pend[p].ac) /\ NextAcct(p)' = NextAcct(p)
    BY <2>2, <2>3 DEF NextAcct, Accepted, Taken, Present
  <2> QED
    BY <2>3, <2>4, <2>5
<1>2. CASE WriteAccounts(p)
  <2>1. pend'[p] = Pending(pend[p].op, pend[p].first, pend[p].bk, None)
    BY <1>2 DEF WriteAccounts, TypeInv, PendOK
  <2>2. pend'[p].ac = None /\ pend'[p].bk = pend[p].bk
    BY <2>1, PendingFields
  <2>3. UNCHANGED <<now, owed, bucketRow>> /\ torn = "no"
    BY <1>2 DEF WriteAccounts
  <2>4. {a \in DOMAIN pend[p].ac : pend[p].ac[a] # NoRow /\ Taken(a)} = {}
    BY <1>2 DEF WriteAccounts
  <2>5. acctRow' = Put(acctRow, pend[p].ac)
    BY <1>2, <2>4 DEF WriteAccounts, Put, TypeInv
  <2>6. NextAcct(p)' = NextAcct(p)
    BY <2>2, <2>5, NoRowsOK DEF NextAcct, Put
  <2>7. Accepted(pend[p].ac) /\ NextBucket(p)' = NextBucket(p)
    BY <2>2, <2>3, <2>4 DEF NextBucket, Accepted
  <2> QED
    BY <2>3, <2>6, <2>7
<1> QED
  BY <1>1, <1>2

\* A process that starts re-keys accounts together with their buckets.
LEMMA RestartHome ==
  ASSUME TypeInv, HomeInv, NEW p, Procs = {p}, Restart(p)
  PROVE  HomeInv'
<1> DEFINE derived(a) == KeyFor[<<SubjectOf[a], Bucket(acctRow[a].key).state.proj>>]
           moved == {a \in Present : derived(a) # acctRow[a].key}
           move(a) == Rekey(acctRow[a].key, derived(a), Bucket(acctRow[a].key))
           moves == {move(a) : a \in moved}
           picked(k) == CHOOSE m \in moves : k \in DOMAIN m
           acct == Put(acctRow, RestartAc)
           bucket == Put(bucketRow, RestartBk)
<1> SUFFICES ASSUME (torn = "no")' PROVE Inhabited(NextAcct(p), NextBucket(p))'
  BY DEF HomeInv
<1>1. pend[p] = Idle /\ torn = "no" /\ UNCHANGED <<acctRow, bucketRow>>
  BY DEF Restart
<1>2. Inhabited(acctRow, bucketRow)
  BY <1>1, IdleInhabited
<1>3. pend'[p] = Pending("setDrivers", BucketsFirst, RestartBk, RestartAc)
  BY RestartStep DEF TypeInv, PendOK
<1>4. NextAcct(p)' = acct /\ NextBucket(p)' = bucket
  BY <1>1, <1>3, PendingFields DEF NextAcct, NextBucket
<1>5. /\ DOMAIN RestartAc = moved
      /\ \A a \in moved : RestartAc[a] = [acctRow[a] EXCEPT !.key = derived(a)]
  BY DEF RestartAc
<1>6. \A a \in moved : RestartAc[a] # NoRow /\ RestartAc[a].key = derived(a)
  <2>1. \A a \in moved : acctRow[a] \in AcctRows
    BY BucketType
  <2>2. \A a \in moved : derived(a) \in Keys
    <3>1. \A a \in moved : /\ a \in Accounts
                           /\ Bucket(acctRow[a].key).state.proj \in {"blank", "project"}
      BY BucketType, RowParts DEF Present
    <3> QED
      BY <3>1, BucketType
  <2> HIDE DEF derived, moved
  <2>3. \A a \in moved : RestartAc[a] \in AcctRows /\ RestartAc[a].key = derived(a)
    BY <1>5, <2>1, <2>2 DEF AcctRows
  <2> QED
    BY <2>3, RowsAre
<1>7. /\ DOMAIN RestartBk = UNION {DOMAIN m : m \in moves}
      /\ \A k \in DOMAIN RestartBk : RestartBk[k] = picked(k)[k]
  BY DEF RestartBk
<1>8. \A a \in moved : /\ acctRow[a].key \in DOMAIN move(a)
                       /\ \A k \in DOMAIN move(a) : move(a)[k] # NoRow => k = derived(a)
  BY DEF Rekey
<1> SUFFICES Inhabited(acct, bucket)
  BY <1>4 DEF Inhabited
<1> SUFFICES ASSUME NEW k \in Keys, bucket[k] # NoRow
             PROVE  \E a \in Accounts : acct[a] # NoRow /\ acct[a].key = k
  BY DEF Inhabited
<1> HIDE DEF derived, move
<1>9. CASE k \in DOMAIN RestartBk
  <2>1. picked(k) \in moves /\ k \in DOMAIN picked(k)
    BY <1>7, <1>9
  <2>2. PICK a \in moved : picked(k) = move(a)
    BY <2>1
  <2> HIDE DEF picked, moves
  <2>3. move(a)[k] # NoRow /\ k \in DOMAIN move(a)
    BY <1>7, <1>9, <2>1, <2>2, PutRows
  <2>4. k = derived(a)
    BY <1>8, <2>3
  <2>5. a \in Accounts /\ acct[a] = RestartAc[a]
    BY <1>5, PutRows DEF Present
  <2> QED
    BY <1>6, <2>4, <2>5
<1>10. CASE k \notin DOMAIN RestartBk
  <2>1. bucketRow[k] # NoRow
    BY <1>10, PutRows
  <2>2. PICK a \in Accounts : acctRow[a] # NoRow /\ acctRow[a].key = k
    BY <1>2, <2>1 DEF Inhabited
  <2>3. a \notin moved
    BY <1>7, <1>8, <1>10, <2>2
  <2>4. acct[a] = acctRow[a]
    BY <1>5, <2>3, PutRows
  <2> QED
    BY <2>2, <2>4
<1> QED
  BY <1>9, <1>10

\* Every step of a broker alone on its database keeps the invariant.
LEMMA HomeStep == OneProcess /\ TypeInv /\ HomeInv /\ [Next]_vars => HomeInv'
<1> SUFFICES ASSUME OneProcess, TypeInv, HomeInv, [Next]_vars PROVE HomeInv'
  OBVIOUS
<1>1. PICK p : Procs = {p}
  BY DEF OneProcess
<1>2. ASSUME UNCHANGED <<acctRow, bucketRow, pend, torn>> PROVE HomeInv'
  <2> SUFFICES ASSUME NEW q \in Procs, (torn = "no")', Accepted(pend[q].ac)'
               PROVE  Inhabited(NextAcct(q), NextBucket(q))'
    BY DEF HomeInv
  <2>1. NextAcct(q)' = NextAcct(q) /\ NextBucket(q)' = NextBucket(q) /\ Accepted(pend[q].ac)
    BY <1>2 DEF NextAcct, NextBucket, Accepted, Taken, Present
  <2>2. Inhabited(NextAcct(q)', NextBucket(q)')
    BY <1>2, <2>1 DEF HomeInv
  <2> QED
    BY <2>2 DEF Inhabited
<1>3. ASSUME NEW a \in Accounts, Operate(p, a) PROVE HomeInv'
  <2>1. ASSUME a \in Present, NEW kind \in Kinds, NEW d \in Pauses, NEW s \in Answers,
               Observe(p, a, kind, now + d, s)
        PROVE  HomeInv'
    <3>1. now \in Nat /\ d \in Nat
      BY PoolAssumption DEF TypeInv
    <3>2. now + d \in Nat
      BY <3>1
    <3>3. s \in {NoRow} \union States
      BY DEF Answers
    <3> QED
      BY <1>1, <2>1, <3>2, <3>3, ObserveHome
  <2>2. ASSUME a \in Present, NEW s \in Statuses, NEW t \in Answers, Update(p, a, s, t)
        PROVE  HomeInv'
    BY <1>1, <2>2, UpdateHome DEF Answers
  <2>3. CASE (\E s \in States : Add(p, a, s)) \/ Delete(p, a)
    BY <1>1, <2>3, AddDeleteHome
  <2>4. CASE ClearCooldown(p, a) \/ StoreTokens(p, a) \/ MarkError(p, a) \/ RecoverBucket(p, a)
    BY <1>1, <2>4, StatusHome
  <2>5. CASE AbandonRefresh(p, a) \/ StartProbe(p, a)
             \/ \E by \in {"auto", "admin"} : StartRefresh(p, a, by)
    BY <1>2, <2>5 DEF AbandonRefresh, StartProbe, StartRefresh
  <2> QED
    BY <1>3, <2>1, <2>2, <2>3, <2>4, <2>5 DEF Operate
<1>4. CASE WriteBuckets(p) \/ WriteAccounts(p)
  <2> SUFFICES ASSUME (torn = "no")', Accepted(pend[p].ac)'
               PROVE  Inhabited(NextAcct(p), NextBucket(p))'
    BY <1>1 DEF HomeInv
  <2>1. /\ torn = "no" /\ Accepted(pend[p].ac)
        /\ NextAcct(p)' = NextAcct(p) /\ NextBucket(p)' = NextBucket(p)
    BY <1>1, <1>4, WriteKeeps
  <2>2. Inhabited(NextAcct(p), NextBucket(p))
    BY <1>1, <2>1 DEF HomeInv
  <2>3. Inhabited(NextAcct(p)', NextBucket(p)')
    BY <2>1, <2>2
  <2> QED
    BY <2>3 DEF Inhabited
<1>5. CASE cleanup(p) \/ Restart(p)
  BY <1>1, <1>5, CleanHome, RestartHome
<1>6. CASE Tick \/ UNCHANGED vars
  BY <1>2, <1>6 DEF Tick, vars
<1> QED
  BY <1>1, <1>3, <1>4, <1>5, <1>6 DEF Next

\* No bucket rows at the start.
LEMMA HomeInit == Init => HomeInv
<1> SUFFICES ASSUME Init, NEW p \in Procs PROVE Inhabited(NextAcct(p), NextBucket(p))
  BY DEF HomeInv
<1>1. pend[p].bk = None
  BY DEF Init, Idle
<1>2. \A k \in Keys : NextBucket(p)[k] = NoRow
  BY <1>1, NoRowsOK DEF Init, NextBucket, Put
<1> QED
  BY <1>2 DEF Inhabited

\* Where one process works on the database, moving and deleting leave no bucket row behind,
\* however many subjects share a bucket.
THEOREM BucketsInhabited == OneProcess => (Spec => []BucketsHaveMembers)
<1> SUFFICES ASSUME OneProcess PROVE Spec => []BucketsHaveMembers
  OBVIOUS
<1>1. TypeInv /\ HomeInv /\ [Next]_vars => HomeInv'
  BY HomeStep
<1>2. TypeInv /\ HomeInv => BucketsHaveMembers
  <2> SUFFICES ASSUME TypeInv, HomeInv, Quiet, torn = "no", NEW k \in Keys, bucketRow[k] # NoRow
               PROVE  Members(k) # {}
    BY DEF BucketsHaveMembers
  <2>1. Inhabited(acctRow, bucketRow)
    BY IdleInhabited DEF OneProcess, Quiet
  <2> QED
    BY <2>1 DEF Inhabited, Members, Present
<1> QED
  BY <1>1, <1>2, TypeInit, TypeStep, HomeInit, PTL DEF Spec

-----------------------------------------------------------------------------
(* Cooldowns.                                                              *)

\* No two subjects share a bucket: the BucketKey of every driver begins with the
\* provider and the subject, and Gemini's only adds the project to it.
OwnBuckets ==
  \A s, t \in Subjects : \A x, y \in {"blank", "project"} :
    KeyFor[<<s, x>>] = KeyFor[<<t, y>>] => s = t

BucketIn(bucket, k) == IF bucket[k] = NoRow THEN Blank ELSE bucket[k]

\* Account rows acct and bucket rows bucket are sound, at time t with cooldowns due:
\* one account for a subject, at the key its bucket's state derives;
OneEach(acct) ==
  \A a, b \in Accounts :
    acct[a] # NoRow /\ acct[b] # NoRow /\ SubjectOf[a] = SubjectOf[b] => a = b
KeysDerived(acct, bucket) ==
  \A a \in Accounts : acct[a] # NoRow =>
    acct[a].key = KeyFor[<<SubjectOf[a], BucketIn(bucket, acct[a].key).state.proj>>]
\* what an account is owed is in its bucket, and nothing is owed to an account that is gone.
CoolingIn(t, due, acct, bucket) ==
  \A a \in Accounts :
    IF acct[a] = NoRow THEN due[a] = 0
    ELSE t < due[a] => BucketIn(bucket, acct[a].key).cd >= due[a]

Sound(t, due, acct, bucket) ==
  OneEach(acct) /\ KeysDerived(acct, bucket) /\ CoolingIn(t, due, acct, bucket)

\* The inductive invariant: what an operation leaves will be sound, if the store takes its
\* rows and nothing cuts it short.
SoundInv ==
  \A p \in Procs :
    torn = "no" /\ Accepted(pend[p].ac) => Sound(now, owed, NextAcct(p), NextBucket(p))

\* The rows of an idle process are those of the store.
LEMMA IdleSound ==
  ASSUME TypeInv, SoundInv, NEW p \in Procs, pend[p] = Idle, torn = "no"
  PROVE  Sound(now, owed, acctRow, bucketRow)
<1>1. pend[p].ac = None /\ pend[p].bk = None
  BY DEF Idle
<1>2. NextAcct(p) = acctRow /\ NextBucket(p) = bucketRow
  BY <1>1, NoRowsOK DEF NextAcct, NextBucket, Put, TypeInv
<1>3. Accepted(pend[p].ac)
  BY <1>1, NoRowsOK DEF Accepted
<1> QED
  BY <1>2, <1>3 DEF SoundInv

\* An operation that will leave sound rows begins.
LEMMA BeginSound ==
  ASSUME TypeInv, HomeInv, SoundInv, NEW p, Procs = {p}, NEW o, NEW first, NEW bk, NEW ac,
         Begin(p, o, first, bk, ac),
         Inhabited(acctRow, bucketRow) /\ Sound(now, owed, acctRow, bucketRow) /\ Accepted(ac) =>
           Sound(now, owed', Put(acctRow, ac), Put(bucketRow, bk))
  PROVE  SoundInv'
<1>1. pend'[p] = Pending(o, first, bk, ac) /\ pend[p] = Idle
      /\ UNCHANGED <<now, acctRow, bucketRow, torn>>
  BY DEF Begin, TypeInv, PendOK
<1>2. pend'[p].bk = bk /\ pend'[p].ac = ac
  BY <1>1, PendingFields
<1> SUFFICES ASSUME (torn = "no")', Accepted(pend[p].ac)'
             PROVE  Sound(now, owed, NextAcct(p), NextBucket(p))'
  BY DEF SoundInv
<1>3. Inhabited(acctRow, bucketRow) /\ Sound(now, owed, acctRow, bucketRow)
  BY <1>1, IdleSound, IdleInhabited
<1>4. Accepted(ac)
  BY <1>1, <1>2 DEF Accepted, Taken, Present
<1>5. Sound(now, owed', Put(acctRow, ac), Put(bucketRow, bk))
  BY <1>3, <1>4
<1>6. NextAcct(p)' = Put(acctRow, ac) /\ NextBucket(p)' = Put(bucketRow, bk)
  BY <1>1, <1>2 DEF NextAcct, NextBucket
<1>7. Sound(now', owed', NextAcct(p)', NextBucket(p)')
  BY <1>1, <1>5, <1>6
<1> QED
  BY <1>7 DEF Sound, OneEach, KeysDerived, CoolingIn, BucketIn, Blank

\* Where no two subjects share a bucket, a bucket has one member.
LEMMA Alone ==
  ASSUME TypeInv, OwnBuckets, Sound(now, owed, acctRow, bucketRow),
         NEW a \in Present, NEW b \in Accounts, NEW x \in {"blank", "project"},
         acctRow[a].key = KeyFor[<<SubjectOf[b], x>>]
  PROVE  SubjectOf[a] = SubjectOf[b] /\ (b \in Present => a = b)
<1> DEFINE y == BucketIn(bucketRow, acctRow[a].key).state.proj
<1>1. a \in Accounts /\ acctRow[a] # NoRow /\ acctRow[a].key \in Keys
  BY BucketType DEF Present
<1>2. acctRow[a].key = KeyFor[<<SubjectOf[a], y>>]
  BY <1>1 DEF Sound, KeysDerived
<1>3. y \in {"blank", "project"}
  <2>1. BucketIn(bucketRow, acctRow[a].key) = Bucket(acctRow[a].key)
    BY DEF BucketIn, Bucket
  <2> QED
    BY <1>1, <2>1, BucketType, RowParts
<1>4. SubjectOf[a] \in Subjects /\ SubjectOf[b] \in Subjects
  BY <1>1, PoolAssumption
<1>5. SubjectOf[a] = SubjectOf[b]
  <2> HIDE DEF y
  <2> QED
    BY <1>2, <1>3, <1>4 DEF OwnBuckets
<1> QED
  BY <1>1, <1>5 DEF Sound, OneEach, Present

\* The bucket of a present account is of the key its state derives.
LEMMA OwnKey ==
  ASSUME TypeInv, Sound(now, owed, acctRow, bucketRow), NEW a \in Present
  PROVE  /\ Bucket(acctRow[a].key).state.proj \in {"blank", "project"}
         /\ acctRow[a].key = KeyFor[<<SubjectOf[a], Bucket(acctRow[a].key).state.proj>>]
         /\ now < owed[a] => Bucket(acctRow[a].key).cd >= owed[a]
<1>1. a \in Accounts /\ acctRow[a] # NoRow /\ acctRow[a].key \in Keys
  BY BucketType DEF Present
<1>2. BucketIn(bucketRow, acctRow[a].key) = Bucket(acctRow[a].key)
  BY DEF BucketIn, Bucket
<1>3. Bucket(acctRow[a].key).state.proj \in {"blank", "project"}
  BY <1>1, BucketType, RowParts
<1> QED
  BY <1>1, <1>2, <1>3 DEF Sound, KeysDerived, CoolingIn

\* So an account shares its bucket with nobody ...
LEMMA OneMember ==
  ASSUME TypeInv, OwnBuckets, Sound(now, owed, acctRow, bucketRow), NEW a \in Present
  PROVE  Members(acctRow[a].key) = {a}
<1>1. ASSUME NEW b \in Present, acctRow[b].key = acctRow[a].key PROVE a = b
  <2>1. b \in Accounts /\ a \in Accounts
    BY DEF Present
  <2>2. acctRow[b].key = KeyFor[<<SubjectOf[a], Bucket(acctRow[a].key).state.proj>>]
    BY <1>1, OwnKey
  <2> QED
    BY <2>1, <2>2, OwnKey, Alone, ZenonT(60)
<1> QED
  BY <1>1 DEF Members

\* ... and another key of its subject has no bucket.
LEMMA FreshKey ==
  ASSUME TypeInv, OwnBuckets, Sound(now, owed, acctRow, bucketRow), Inhabited(acctRow, bucketRow), NEW a \in Present,
         NEW x \in {"blank", "project"}, KeyFor[<<SubjectOf[a], x>>] # acctRow[a].key
  PROVE  KeyFor[<<SubjectOf[a], x>>] \notin Loaded
<1> DEFINE l == KeyFor[<<SubjectOf[a], x>>]
<1>1. a \in Accounts
  BY DEF Present
<1>2. ASSUME NEW b \in Present, acctRow[b].key = l PROVE FALSE
  BY <1>1, <1>2, Alone
<1>3. Members(l) = {}
  BY <1>2 DEF Members
<1>4. ASSUME l \in Keys, bucketRow[l] # NoRow PROVE FALSE
  BY <1>2, <1>4 DEF Inhabited, Present
<1> QED
  BY <1>3, <1>4 DEF Loaded

\* An operation that keeps account a's bucket where it is.
LEMMA SameKey ==
  ASSUME TypeInv, OwnBuckets, Sound(now, owed, acctRow, bucketRow),
         NEW a \in Present, NEW bk, NEW ac, NEW due, NEW row \in BucketRows,
         \A m \in DOMAIN ac : m \in Present /\ ac[m] \in AcctRows /\ ac[m].key = acctRow[m].key,
         DOMAIN bk \subseteq {acctRow[a].key},
         acctRow[a].key \in DOMAIN bk => bk[acctRow[a].key] = row,
         acctRow[a].key \notin DOMAIN bk => Bucket(acctRow[a].key) = row,
         KeyFor[<<SubjectOf[a], row.state.proj>>] = acctRow[a].key,
         \A m \in Accounts \ {a} : due[m] = owed[m],
         now < due[a] => row.cd >= due[a]
  PROVE  Sound(now, due, Put(acctRow, ac), Put(bucketRow, bk))
<1> DEFINE k == acctRow[a].key
           acct == Put(acctRow, ac)
           bucket == Put(bucketRow, bk)
<1>1. k \in Keys /\ a \in Accounts /\ acctRow[a] # NoRow
  BY BucketType DEF Present
<1>2. \A m \in Accounts : /\ acct[m] = NoRow <=> acctRow[m] = NoRow
                          /\ acct[m] # NoRow => acct[m].key = acctRow[m].key
  BY PutRows, RowsAre DEF Present
<1>3. \A q \in Keys \ {k} : bucket[q] = bucketRow[q]
  BY PutRows
<1>4. BucketIn(bucket, k) = row
  <2>1. CASE k \in DOMAIN bk
    <3>1. bucket[k] = row
      BY <1>1, <2>1, PutRows
    <3> QED
      BY <3>1, RowsAre DEF BucketIn
  <2>2. CASE k \notin DOMAIN bk
    <3>1. bucket[k] = bucketRow[k]
      BY <1>1, <2>2, PutRows
    <3> QED
      BY <2>2, <3>1 DEF BucketIn, Bucket
  <2> QED
    BY <2>1, <2>2
<1>5. \A m \in Accounts \ {a} : acctRow[m] # NoRow => acctRow[m].key \in Keys \ {k}
  <2>1. \A m \in Present : acctRow[m].key = k => m = a
    BY OneMember DEF Members
  <2> QED
    BY <2>1, BucketType DEF Present
<1>6. \A q \in Keys \ {k} : BucketIn(bucket, q) = BucketIn(bucketRow, q)
  BY <1>3 DEF BucketIn
<1> HIDE DEF acct, bucket, k
<1>7. OneEach(acct)
  BY <1>2 DEF Sound, OneEach
<1>8. KeysDerived(acct, bucket)
  <2> SUFFICES ASSUME NEW m \in Accounts, acct[m] # NoRow
               PROVE  acct[m].key = KeyFor[<<SubjectOf[m], BucketIn(bucket, acct[m].key).state.proj>>]
    BY DEF KeysDerived
  <2>1. CASE m = a
    BY <1>1, <1>2, <1>4, <2>1 DEF k
  <2>2. CASE m # a
    <3>1. acctRow[m] # NoRow /\ acct[m].key = acctRow[m].key
      BY <1>2
    <3>2. BucketIn(bucket, acctRow[m].key) = BucketIn(bucketRow, acctRow[m].key)
      BY <1>5, <1>6, <2>2, <3>1
    <3> QED
      BY <3>1, <3>2 DEF Sound, KeysDerived
  <2> QED
    BY <2>1, <2>2
<1>9. CoolingIn(now, due, acct, bucket)
  <2> SUFFICES ASSUME NEW m \in Accounts
               PROVE  IF acct[m] = NoRow THEN due[m] = 0
                      ELSE now < due[m] => BucketIn(bucket, acct[m].key).cd >= due[m]
    BY DEF CoolingIn
  <2>1. CASE m = a
    BY <1>1, <1>2, <1>4, <2>1 DEF k
  <2>2. CASE m # a /\ acctRow[m] = NoRow
    BY <1>2, <2>2 DEF Sound, CoolingIn
  <2>3. CASE m # a /\ acctRow[m] # NoRow
    <3>1. acct[m] # NoRow /\ acct[m].key = acctRow[m].key /\ due[m] = owed[m]
      BY <1>2, <2>3
    <3>2. BucketIn(bucket, acctRow[m].key) = BucketIn(bucketRow, acctRow[m].key)
      BY <1>5, <1>6, <2>3
    <3> QED
      BY <2>3, <3>1, <3>2 DEF Sound, CoolingIn
  <2> QED
    BY <2>1, <2>2, <2>3
<1> QED
  BY <1>7, <1>8, <1>9 DEF Sound, acct, bucket

\* An operation that moves account a's bucket to another key of its subject.
LEMMA OtherKey ==
  ASSUME TypeInv, OwnBuckets, Sound(now, owed, acctRow, bucketRow), Inhabited(acctRow, bucketRow),
         NEW a \in Present, NEW bk, NEW ac, NEW due, NEW row \in BucketRows, NEW l \in Keys,
         l = KeyFor[<<SubjectOf[a], row.state.proj>>], l # acctRow[a].key,
         DOMAIN ac = {a}, ac[a] \in AcctRows, ac[a].key = l,
         DOMAIN bk = {acctRow[a].key, l}, bk[acctRow[a].key] = NoRow, bk[l] = row,
         \A m \in Accounts \ {a} : due[m] = owed[m],
         now < due[a] => row.cd >= due[a]
  PROVE  Sound(now, due, Put(acctRow, ac), Put(bucketRow, bk))
<1> DEFINE k == acctRow[a].key
           acct == Put(acctRow, ac)
           bucket == Put(bucketRow, bk)
<1>1. k \in Keys /\ a \in Accounts /\ acctRow[a] # NoRow
  BY BucketType DEF Present
<1>2. /\ acct[a] = ac[a] /\ acct[a] # NoRow
      /\ \A m \in Accounts \ {a} : acct[m] = acctRow[m]
  BY <1>1, PutRows, RowsAre
<1>3. /\ \A q \in Keys \ {k, l} : bucket[q] = bucketRow[q]
      /\ bucket[k] = NoRow /\ bucket[l] = row
  BY <1>1, PutRows
<1>4. BucketIn(bucket, l) = row
  BY <1>3, RowsAre DEF BucketIn
<1>5. \A m \in Accounts \ {a} : acctRow[m] # NoRow => acctRow[m].key \in Keys \ {k, l}
  <2>1. \A m \in Present : acctRow[m].key = k => m = a
    BY OneMember DEF Members
  <2>2. row.state.proj \in {"blank", "project"}
    BY RowParts
  <2>3. l \notin Loaded
    BY <2>2, FreshKey
  <2>4. \A m \in Present : acctRow[m].key # l
    BY <2>3 DEF Loaded, Members
  <2> QED
    BY <2>1, <2>4, BucketType DEF Present
<1>6. \A q \in Keys \ {k, l} : BucketIn(bucket, q) = BucketIn(bucketRow, q)
  BY <1>3 DEF BucketIn
<1> HIDE DEF acct, bucket, k
<1>7. OneEach(acct)
  BY <1>1, <1>2 DEF Sound, OneEach
<1>8. KeysDerived(acct, bucket)
  <2> SUFFICES ASSUME NEW m \in Accounts, acct[m] # NoRow
               PROVE  acct[m].key = KeyFor[<<SubjectOf[m], BucketIn(bucket, acct[m].key).state.proj>>]
    BY DEF KeysDerived
  <2>1. CASE m = a
    BY <1>2, <1>4, <2>1
  <2>2. CASE m # a
    <3>1. acctRow[m] # NoRow /\ acct[m] = acctRow[m]
      BY <1>2, <2>2
    <3>2. BucketIn(bucket, acctRow[m].key) = BucketIn(bucketRow, acctRow[m].key)
      BY <1>5, <1>6, <2>2, <3>1
    <3> QED
      BY <3>1, <3>2 DEF Sound, KeysDerived
  <2> QED
    BY <2>1, <2>2
<1>9. CoolingIn(now, due, acct, bucket)
  <2> SUFFICES ASSUME NEW m \in Accounts
               PROVE  IF acct[m] = NoRow THEN due[m] = 0
                      ELSE now < due[m] => BucketIn(bucket, acct[m].key).cd >= due[m]
    BY DEF CoolingIn
  <2>1. CASE m = a
    BY <1>2, <1>4, <2>1
  <2>2. CASE m # a /\ acctRow[m] = NoRow
    BY <1>2, <2>2 DEF Sound, CoolingIn
  <2>3. CASE m # a /\ acctRow[m] # NoRow
    <3>1. acct[m] = acctRow[m] /\ due[m] = owed[m]
      BY <1>2, <2>3
    <3>2. BucketIn(bucket, acctRow[m].key) = BucketIn(bucketRow, acctRow[m].key)
      BY <1>5, <1>6, <2>3
    <3> QED
      BY <2>3, <3>1, <3>2 DEF Sound, CoolingIn
  <2> QED
    BY <2>1, <2>2, <2>3
<1> QED
  BY <1>7, <1>8, <1>9 DEF Sound, acct, bucket

\* An upstream answer leaves sound rows.
LEMMA ObserveSound ==
  ASSUME TypeInv, HomeInv, SoundInv, OwnBuckets, NEW p, Procs = {p}, NEW a \in Present, NEW kind \in Kinds,
         NEW until \in Nat, NEW state \in {NoRow} \union States, Observe(p, a, kind, until, state)
  PROVE  SoundInv'
<1> DEFINE k == acctRow[a].key
           old == Bucket(k)
           trip == Trips(p, k, kind)
           cd == IF kind \in Cooling THEN applyBucketCooldown(old.cd, until)
                 ELSE IF trip THEN applyBucketCooldown(old.cd, now + BreakerPause)
                 ELSE old.cd
           st == IF state = NoRow THEN old.state ELSE state
           l == IF state = NoRow THEN k ELSE KeyFor[<<SubjectOf[a], st.proj>>]
           row == [cd |-> cd, state |-> st]
           touched == {m \in Members(k) : (m = a /\ kind \in {"success", "serverError", "block"})
                                            \/ l # k}
           status(m) == IF m = a /\ kind = "block" THEN "blocked" ELSE acctRow[m].status
           due == Due(p, k, kind, until)
           bk == IF row # old \/ l # k THEN Rekey(k, l, row) ELSE None
           ac == [m \in touched |-> [status |-> status(m), key |-> l]]
<1>1. /\ Begin(p, "observe", BucketsFirst, bk, ac)
      /\ owed' = [m \in Accounts |-> IF m \in Members(k) /\ due > owed[m] THEN due ELSE owed[m]]
  BY DEF Observe
<1>2. a \in Accounts /\ k \in Keys /\ old \in BucketRows /\ p \in Procs
  BY BucketType
<1>3. now \in Nat /\ BreakerPause \in Nat
  BY PoolAssumption DEF TypeInv
<1>4. now + BreakerPause \in Nat
  BY <1>3
<1>5. old.cd \in Nat /\ old.state \in States
  BY <1>2, RowParts
<1>6. cd \in Nat /\ cd >= old.cd
  BY <1>4, <1>5 DEF applyBucketCooldown
<1>7. st \in States
  BY <1>5
<1>8. l \in Keys
  BY <1>2, <1>7, BucketType DEF States
<1>9. row \in BucketRows /\ row.cd = cd /\ row.state = st
  BY <1>6, <1>7, RowParts
<1>10. due \in Nat /\ cd >= due
  <2>1. errs[p][k] \in 0..2
    BY <1>2 DEF TypeInv
  <2>2. CASE kind \in Cooling
    <3>1. due = until /\ cd = applyBucketCooldown(old.cd, until)
      BY <2>2 DEF Due
    <3> QED
      BY <1>5, <3>1 DEF applyBucketCooldown
  <2>3. CASE kind \notin Cooling /\ kind = "serverError" /\ errs[p][k] = 2
    <3>1. trip
      BY <2>3 DEF Trips
    <3>2. due = now + BreakerPause /\ cd = applyBucketCooldown(old.cd, now + BreakerPause)
      BY <2>3, <3>1 DEF Due
    <3> QED
      BY <1>4, <1>5, <3>2 DEF applyBucketCooldown
  <2>4. CASE kind \notin Cooling /\ ~(kind = "serverError" /\ errs[p][k] = 2)
    <3>1. due = 0
      BY <2>4 DEF Due
    <3> QED
      BY <1>6, <3>1
  <2> QED
    BY <2>2, <2>3, <2>4
<1>11. \A m \in touched : status(m) \in Statuses
  <2>1. \A m \in touched : m \in Present /\ acctRow[m].status \in Statuses
    BY BucketType DEF Members
  <2> QED
    BY <2>1 DEF Statuses
<1>12. ASSUME Sound(now, owed, acctRow, bucketRow), Inhabited(acctRow, bucketRow)
       PROVE  Sound(now, owed', Put(acctRow, ac), Put(bucketRow, bk))
  <2>1. Members(k) = {a}
    BY <1>12, OneMember
  <2>2. /\ old.state.proj \in {"blank", "project"}
        /\ k = KeyFor[<<SubjectOf[a], old.state.proj>>]
        /\ now < owed[a] => old.cd >= owed[a]
    BY <1>12, OwnKey
  <2>3. l = KeyFor[<<SubjectOf[a], row.state.proj>>]
    BY <1>9, <2>2
  <2>4. row.state.proj \in {"blank", "project"}
    BY <1>9, RowParts
  <2>5. \A m \in Accounts \ {a} : owed'[m] = owed[m]
    BY <1>1, <2>1
  <2>6. now < owed'[a] => row.cd >= owed'[a]
    <3>1. owed[a] \in Nat
      BY <1>2 DEF TypeInv
    <3>2. owed'[a] = IF due > owed[a] THEN due ELSE owed[a]
      BY <1>1, <1>2, <2>1
    <3> HIDE DEF cd, due, old, row
    <3>3. row.cd = cd /\ cd \in Nat /\ cd >= due /\ due \in Nat /\ old.cd \in Nat /\ cd >= old.cd
      BY <1>5, <1>6, <1>9, <1>10
    <3> QED
      BY <1>3, <2>2, <3>1, <3>2, <3>3
  <2> HIDE DEF row, old, st
  <2>7. CASE l = k
    <3>1. \A m \in DOMAIN ac : m \in Present /\ ac[m] \in AcctRows /\ ac[m].key = acctRow[m].key
      <4>1. DOMAIN ac \subseteq {a} /\ \A m \in DOMAIN ac : ac[m] = [status |-> status(m), key |-> k]
        BY <2>1, <2>7
      <4>2. \A m \in DOMAIN ac : [status |-> status(m), key |-> k] \in AcctRows
        BY <1>2, <1>11 DEF AcctRows
      <4> HIDE DEF ac, status
      <4> QED
        BY <4>1, <4>2
    <3>2. DOMAIN bk \subseteq {k} /\ (k \in DOMAIN bk => bk[k] = row) /\ (k \notin DOMAIN bk => old = row)
      BY <2>7, NoRowsOK DEF Rekey
    <3> HIDE DEF ac, bk
    <3> QED
      BY <1>9, <1>12, <2>3, <2>5, <2>6, <2>7, <3>1, <3>2, SameKey DEF old
  <2>8. CASE l # k
    <3>1. l \notin Loaded
      BY <1>12, <2>3, <2>4, <2>8, FreshKey
    <3>2. DOMAIN bk = {k, l} /\ bk[k] = NoRow /\ bk[l] = row
      BY <2>8, <3>1 DEF Rekey
    <3>3. DOMAIN ac = {a} /\ ac[a] = [status |-> status(a), key |-> l] /\ a \in touched
      BY <2>1, <2>8
    <3>4. ac[a] \in AcctRows /\ ac[a].key = l
      BY <1>8, <1>11, <3>3 DEF AcctRows
    <3> HIDE DEF ac, bk, l
    <3> QED
      BY <1>8, <1>9, <1>12, <2>3, <2>5, <2>6, <2>8, <3>2, <3>3, <3>4, OtherKey
  <2> QED
    BY <2>7, <2>8
<1> HIDE DEF ac, bk
<1> QED
  BY <1>1, <1>12, BeginSound

\* So does an update by the administrator.
LEMMA UpdateSound ==
  ASSUME TypeInv, HomeInv, SoundInv, OwnBuckets, NEW p, Procs = {p}, NEW a \in Present, NEW s \in Statuses,
         NEW state \in {NoRow} \union States, Update(p, a, s, state)
  PROVE  SoundInv'
<1> DEFINE k == acctRow[a].key
           old == Bucket(k)
           l == IF state = NoRow THEN k ELSE KeyFor[<<SubjectOf[a], state.proj>>]
           row == [old EXCEPT !.state = IF state = NoRow THEN @ ELSE state]
           bk == IF row = Bucket(k) /\ l = k THEN None
                 ELSE Over([x \in {l} |-> row], Rekey(k, l, row))
           ac == [x \in {a} |-> [status |-> s, key |-> l]]
           o == IF s = acctRow[a].status THEN "update" ELSE "setStatus"
<1>1. Begin(p, o, BucketsFirst, bk, ac) /\ UNCHANGED owed
  BY DEF Update
<1>2. a \in Accounts /\ k \in Keys /\ old \in BucketRows
  BY BucketType
<1>3. l \in Keys
  BY <1>2, BucketType DEF States
<1>4. /\ row \in BucketRows /\ row.cd = old.cd
      /\ row.state = IF state = NoRow THEN old.state ELSE state
  BY <1>2 DEF BucketRows
<1>5. ASSUME Sound(now, owed, acctRow, bucketRow), Inhabited(acctRow, bucketRow)
      PROVE  Sound(now, owed, Put(acctRow, ac), Put(bucketRow, bk))
  <2>1. /\ k = KeyFor[<<SubjectOf[a], old.state.proj>>]
        /\ now < owed[a] => row.cd >= owed[a]
    BY <1>4, <1>5, OwnKey
  <2>2. l = KeyFor[<<SubjectOf[a], row.state.proj>>]
    BY <1>4, <2>1
  <2>3. row.state.proj \in {"blank", "project"}
    BY <1>4, RowParts
  <2>4. DOMAIN ac = {a} /\ ac[a] \in AcctRows /\ ac[a].key = l
    BY <1>3 DEF AcctRows
  <2> HIDE DEF row, old
  <2>5. CASE l = k
    <3>1. DOMAIN bk \subseteq {k} /\ (k \in DOMAIN bk => bk[k] = row) /\ (k \notin DOMAIN bk => old = row)
      BY <2>5, NoRowsOK DEF Rekey, Over, old
    <3>2. \A m \in DOMAIN ac : m \in Present /\ ac[m] \in AcctRows /\ ac[m].key = acctRow[m].key
      BY <2>4, <2>5
    <3> HIDE DEF ac, bk
    <3> QED
      BY <1>4, <1>5, <2>1, <2>2, <2>5, <3>1, <3>2, SameKey DEF old
  <2>6. CASE l # k
    <3>1. l \notin Loaded
      BY <1>5, <2>2, <2>3, <2>6, FreshKey
    <3>2. Rekey(k, l, row) = [x \in {k, l} |-> IF x = l THEN row ELSE NoRow]
      BY <2>6, <3>1 DEF Rekey
    <3>3. DOMAIN bk = {k, l} /\ bk[k] = NoRow /\ bk[l] = row
      BY <2>6, <3>2 DEF Over
    <3> HIDE DEF ac, bk, l
    <3> QED
      BY <1>3, <1>4, <1>5, <2>1, <2>2, <2>4, <2>6, <3>3, OtherKey
  <2> QED
    BY <2>5, <2>6
<1> HIDE DEF ac, bk, o
<1> QED
  BY <1>1, <1>5, BeginSound

\* So does an operation that drops the cooldown of account a's bucket on purpose.
LEMMA ForgivenSound ==
  ASSUME TypeInv, HomeInv, SoundInv, OwnBuckets, NEW p, Procs = {p}, NEW a \in Present, NEW o, NEW first,
         NEW ac, Begin(p, o, first, Uncooled(acctRow[a].key), ac), Forgive(acctRow[a].key),
         \A m \in DOMAIN ac : m \in Present /\ ac[m] \in AcctRows /\ ac[m].key = acctRow[m].key
  PROVE  SoundInv'
<1> DEFINE k == acctRow[a].key
           old == Bucket(k)
           row == IF old.cd = 0 THEN old ELSE [old EXCEPT !.cd = 0]
           bk == Uncooled(k)
<1>1. a \in Accounts /\ k \in Keys /\ old \in BucketRows
  BY BucketType
<1>2. row \in BucketRows /\ row.cd = 0 /\ row.state = old.state
  BY <1>1 DEF BucketRows
<1>3. DOMAIN bk \subseteq {k} /\ (k \in DOMAIN bk => bk[k] = row) /\ (k \notin DOMAIN bk => old = row)
  BY NoRowsOK DEF Uncooled
<1>4. ASSUME Sound(now, owed, acctRow, bucketRow)
      PROVE  Sound(now, owed', Put(acctRow, ac), Put(bucketRow, bk))
  <2>1. k = KeyFor[<<SubjectOf[a], row.state.proj>>]
    BY <1>2, <1>4, OwnKey
  <2>2. Members(k) = {a}
    BY <1>4, OneMember
  <2>3. owed'[a] = 0 /\ \A m \in Accounts \ {a} : owed'[m] = owed[m]
    BY <1>1, <2>2 DEF Forgive
  <2>4. now < owed'[a] => row.cd >= owed'[a]
    BY <1>2, <2>3
  <2> HIDE DEF bk, row
  <2> QED
    BY <1>2, <1>3, <1>4, <2>1, <2>3, <2>4, SameKey
<1> HIDE DEF bk
<1> QED
  BY <1>4, BeginSound DEF bk

\* So do a failed refresh, which marks the account, ...
LEMMA MarkSound ==
  ASSUME TypeInv, HomeInv, SoundInv, OwnBuckets, NEW p, Procs = {p}, NEW a \in Accounts, MarkError(p, a)
  PROVE  SoundInv'
<1> DEFINE ac == [x \in {a} |-> [acctRow[a] EXCEPT !.status = "error"]]
           k == acctRow[a].key
<1>1. a \in Present /\ Begin(p, "markError", AccountsFirst, None, ac) /\ UNCHANGED owed
  BY DEF MarkError
<1>2. k \in Keys /\ Bucket(k) \in BucketRows /\ acctRow[a] \in AcctRows
  BY <1>1, BucketType
<1>3. \A m \in DOMAIN ac : m \in Present /\ ac[m] \in AcctRows /\ ac[m].key = acctRow[m].key
  BY <1>1, <1>2 DEF AcctRows, Statuses
<1>4. ASSUME Sound(now, owed, acctRow, bucketRow)
      PROVE  Sound(now, owed', Put(acctRow, ac), Put(bucketRow, None))
  <2>1. /\ k = KeyFor[<<SubjectOf[a], Bucket(k).state.proj>>]
        /\ now < owed[a] => Bucket(k).cd >= owed[a]
    BY <1>1, <1>4, OwnKey
  <2>2. owed' = owed
    BY <1>1
  <2> HIDE DEF ac
  <2> QED
    BY <1>1, <1>2, <1>3, <1>4, <2>1, <2>2, NoRowsOK, SameKey
<1> HIDE DEF ac
<1> QED
  BY <1>1, <1>4, BeginSound

\* ... a sign-in whose subject the store takes, ...
LEMMA AddSound ==
  ASSUME TypeInv, HomeInv, SoundInv, OwnBuckets, NEW p, Procs = {p}, NEW a \in Accounts,
         NEW s \in States, Add(p, a, s)
  PROVE  SoundInv'
<1> DEFINE k == KeyFor[<<SubjectOf[a], s.proj>>]
           row == [cd |-> 0, state |-> s]
           bk == [x \in {k} |-> row]
           ac == [x \in {a} |-> [status |-> "active", key |-> k]]
           acct == Put(acctRow, ac)
           bucket == Put(bucketRow, bk)
<1>1. a \notin Present /\ Begin(p, "add", BucketsFirst, bk, ac) /\ Forgive(k)
  BY DEF Add
<1>2. k \in Keys /\ acctRow[a] = NoRow /\ row # NoRow
  BY <1>1, BucketType, RowParts, RowsAre DEF Present, States
<1>3. ac[a] \in AcctRows /\ ac[a].key = k /\ DOMAIN ac = {a}
  BY <1>2 DEF AcctRows, Statuses
<1>4. ASSUME Sound(now, owed, acctRow, bucketRow), Accepted(ac)
      PROVE  Sound(now, owed', acct, bucket)
  <2>1. \A b \in Present : SubjectOf[b] # SubjectOf[a]
    <3>1. ~Taken(a)
      BY <1>3, <1>4, RowsAre DEF Accepted
    <3> QED
      BY <1>2, <3>1 DEF Taken
  <2>2. \A b \in Present : acctRow[b].key # k
    <3>1. s.proj \in {"blank", "project"}
      BY DEF States
    <3> QED
      BY <1>4, <2>1, <3>1, Alone
  <2>3. owed' = owed
    <3>1. Members(k) = {}
      BY <2>2 DEF Members
    <3> QED
      BY <1>1, <3>1 DEF Forgive, TypeInv
  <2>4. acct[a] = ac[a] /\ acct[a] # NoRow /\ \A m \in Accounts \ {a} : acct[m] = acctRow[m]
    BY <1>3, PutRows, RowsAre
  <2>5. bucket[k] = row /\ \A q \in Keys \ {k} : bucket[q] = bucketRow[q]
    BY <1>2, PutRows
  <2>6. BucketIn(bucket, k) = row
    BY <1>2, <2>5, Zenon DEF BucketIn
  <2>7. \A q \in Keys \ {k} : BucketIn(bucket, q) = BucketIn(bucketRow, q)
    BY <2>5 DEF BucketIn
  <2>8. row.state = s
    OBVIOUS
  <2>9. \A m \in Accounts \ {a} : acctRow[m] # NoRow => acctRow[m].key \in Keys \ {k}
    BY <2>2, BucketType DEF Present
  <2> HIDE DEF acct, bucket, k, row
  <2>10. OneEach(acct)
    BY <1>4, <2>1, <2>4 DEF Sound, OneEach, Present
  <2>11. KeysDerived(acct, bucket)
    <3> SUFFICES ASSUME NEW m \in Accounts, acct[m] # NoRow
                 PROVE  acct[m].key = KeyFor[<<SubjectOf[m], BucketIn(bucket, acct[m].key).state.proj>>]
      BY DEF KeysDerived
    <3>1. CASE m = a
      BY <1>3, <2>4, <2>6, <2>8, <3>1 DEF k
    <3>2. CASE m # a
      <4>1. acctRow[m] # NoRow /\ acct[m] = acctRow[m]
        BY <2>4, <3>2
      <4>2. BucketIn(bucket, acctRow[m].key) = BucketIn(bucketRow, acctRow[m].key)
        BY <2>7, <2>9, <3>2, <4>1
      <4> QED
        BY <1>4, <4>1, <4>2 DEF Sound, KeysDerived
    <3> QED
      BY <3>1, <3>2
  <2>12. CoolingIn(now, owed, acct, bucket)
    <3> SUFFICES ASSUME NEW m \in Accounts
                 PROVE  IF acct[m] = NoRow THEN owed[m] = 0
                        ELSE now < owed[m] => BucketIn(bucket, acct[m].key).cd >= owed[m]
      BY DEF CoolingIn
    <3>1. CASE m = a
      <4>1. owed[m] = 0 /\ now \in Nat
        BY <1>2, <1>4, <3>1 DEF Sound, CoolingIn, TypeInv
      <4> QED
        BY <2>4, <3>1, <4>1
    <3>2. CASE m # a /\ acctRow[m] = NoRow
      BY <1>4, <2>4, <3>2 DEF Sound, CoolingIn
    <3>3. CASE m # a /\ acctRow[m] # NoRow
      <4>1. acct[m] = acctRow[m]
        BY <2>4, <3>3
      <4>2. BucketIn(bucket, acctRow[m].key) = BucketIn(bucketRow, acctRow[m].key)
        BY <2>7, <2>9, <3>3
      <4> QED
        BY <1>4, <3>3, <4>1, <4>2 DEF Sound, CoolingIn
    <3> QED
      BY <3>1, <3>2, <3>3
  <2> QED
    BY <2>3, <2>10, <2>11, <2>12 DEF Sound
<1> HIDE DEF ac, bk
<1> QED
  BY <1>1, <1>4, BeginSound DEF acct, bucket

\* ... and the end of an account, whose bucket goes with it.
LEMMA DeleteSound ==
  ASSUME TypeInv, HomeInv, SoundInv, OwnBuckets, NEW p, Procs = {p}, NEW a \in Accounts, Delete(p, a)
  PROVE  SoundInv'
<1> DEFINE k == acctRow[a].key
           bk == IF Members(k) = {a} THEN [x \in {k} |-> NoRow] ELSE None
           ac == [x \in {a} |-> NoRow]
           acct == Put(acctRow, ac)
           bucket == Put(bucketRow, bk)
<1>1. a \in Present /\ Begin(p, "delete", AccountsFirst, bk, ac) /\ owed' = [owed EXCEPT ![a] = 0]
  BY DEF Delete
<1>2. k \in Keys
  BY <1>1, BucketType
<1>3. owed'[a] = 0 /\ \A m \in Accounts \ {a} : owed'[m] = owed[m]
  BY <1>1 DEF TypeInv
<1>4. ASSUME Sound(now, owed, acctRow, bucketRow)
      PROVE  Sound(now, owed', acct, bucket)
  <2>1. Members(k) = {a}
    BY <1>1, <1>4, OneMember
  <2>2. acct[a] = NoRow /\ \A m \in Accounts \ {a} : acct[m] = acctRow[m]
    BY PutRows
  <2>3. bucket[k] = NoRow /\ \A q \in Keys \ {k} : bucket[q] = bucketRow[q]
    BY <1>2, <2>1, PutRows
  <2>4. \A q \in Keys \ {k} : BucketIn(bucket, q) = BucketIn(bucketRow, q)
    BY <2>3 DEF BucketIn
  <2>5. \A m \in Accounts \ {a} : acctRow[m] # NoRow => acctRow[m].key \in Keys \ {k}
    <3>1. \A m \in Present : acctRow[m].key = k => m = a
      BY <2>1 DEF Members
    <3> QED
      BY <3>1, BucketType DEF Present
  <2> HIDE DEF acct, bucket, k
  <2>6. OneEach(acct)
    BY <1>4, <2>2 DEF Sound, OneEach
  <2>7. KeysDerived(acct, bucket)
    <3> SUFFICES ASSUME NEW m \in Accounts, acct[m] # NoRow
                 PROVE  acct[m].key = KeyFor[<<SubjectOf[m], BucketIn(bucket, acct[m].key).state.proj>>]
      BY DEF KeysDerived
    <3>1. m # a /\ acctRow[m] # NoRow /\ acct[m] = acctRow[m]
      BY <2>2
    <3>2. BucketIn(bucket, acctRow[m].key) = BucketIn(bucketRow, acctRow[m].key)
      BY <2>4, <2>5, <3>1
    <3> QED
      BY <1>4, <3>1, <3>2 DEF Sound, KeysDerived
  <2>8. CoolingIn(now, owed', acct, bucket)
    <3> SUFFICES ASSUME NEW m \in Accounts
                 PROVE  IF acct[m] = NoRow THEN owed'[m] = 0
                        ELSE now < owed'[m] => BucketIn(bucket, acct[m].key).cd >= owed'[m]
      BY DEF CoolingIn
    <3>1. CASE m = a
      BY <1>3, <2>2, <3>1
    <3>2. CASE m # a /\ acctRow[m] = NoRow
      BY <1>3, <1>4, <2>2, <3>2 DEF Sound, CoolingIn
    <3>3. CASE m # a /\ acctRow[m] # NoRow
      <4>1. acct[m] = acctRow[m] /\ owed'[m] = owed[m]
        BY <1>3, <2>2, <3>3
      <4>2. BucketIn(bucket, acctRow[m].key) = BucketIn(bucketRow, acctRow[m].key)
        BY <2>4, <2>5, <3>3
      <4> QED
        BY <1>4, <3>3, <4>1, <4>2 DEF Sound, CoolingIn
    <3> QED
      BY <3>1, <3>2, <3>3
  <2> QED
    BY <2>6, <2>7, <2>8 DEF Sound
<1> HIDE DEF ac, bk
<1> QED
  BY <1>1, <1>4, BeginSound DEF acct, bucket

\* Clean-up drops no cooldown that still runs.
LEMMA CleanSound ==
  ASSUME TypeInv, HomeInv, SoundInv, NEW p, Procs = {p}, cleanup(p)
  PROVE  SoundInv'
<1> DEFINE changed == {k \in Loaded : CleanBucket(k) # Bucket(k)}
           bk == [k \in changed |-> CleanBucket(k)]
           bucket == Put(bucketRow, bk)
<1>1. Begin(p, "cleanup", BucketsFirst, bk, None) /\ UNCHANGED owed
  BY DEF cleanup
<1>2. \A k \in Keys : CleanBucket(k).state = Bucket(k).state
  BY BucketType DEF CleanBucket, BucketRows
<1>3. \A k \in Keys : now < Bucket(k).cd => CleanBucket(k).cd = Bucket(k).cd
  <2> SUFFICES ASSUME NEW k \in Keys, now < Bucket(k).cd PROVE CleanBucket(k).cd = Bucket(k).cd
    OBVIOUS
  <2>1. Bucket(k) \in BucketRows /\ Bucket(k).cd \in Nat /\ now \in Nat
    BY BucketType, RowParts DEF TypeInv
  <2>2. Bucket(k).cd # 0 /\ ~(now > Bucket(k).cd)
    BY <2>1
  <2>3. CleanBucket(k) = [Bucket(k) EXCEPT !.cd = Bucket(k).cd]
    BY <2>2 DEF CleanBucket
  <2> QED
    BY <2>1, <2>3 DEF BucketRows
<1>4. \A k \in Keys : BucketIn(bucket, k) \in {CleanBucket(k), Bucket(k)}
  <2> SUFFICES ASSUME NEW k \in Keys PROVE BucketIn(bucket, k) \in {CleanBucket(k), Bucket(k)}
    OBVIOUS
  <2>1. bucket[k] = IF k \in changed THEN CleanBucket(k) ELSE bucketRow[k]
    <3>1. DOMAIN bk = changed /\ (k \in changed => bk[k] = CleanBucket(k))
      OBVIOUS
    <3> HIDE DEF bk, changed
    <3> QED
      BY <3>1, PutRows
  <2>2. CleanBucket(k) # NoRow
    BY CleanType, RowsAre
  <2> HIDE DEF bucket, changed
  <2> QED
    BY <2>1, <2>2 DEF BucketIn, Bucket
<1> HIDE DEF bk, bucket
<1>6. ASSUME Sound(now, owed, acctRow, bucketRow)
      PROVE  Sound(now, owed, acctRow, bucket)
  <2>1. \A a \in Accounts : acctRow[a] # NoRow => a \in Present /\ acctRow[a].key \in Keys
    BY BucketType DEF Present
  <2>2. KeysDerived(acctRow, bucket)
    <3> SUFFICES ASSUME NEW a \in Accounts, acctRow[a] # NoRow
                 PROVE  acctRow[a].key
                          = KeyFor[<<SubjectOf[a], BucketIn(bucket, acctRow[a].key).state.proj>>]
      BY DEF KeysDerived
    <3>1. a \in Present /\ acctRow[a].key \in Keys
      BY <2>1
    <3>2. BucketIn(bucket, acctRow[a].key).state = Bucket(acctRow[a].key).state
      BY <1>2, <1>4, <3>1
    <3> QED
      BY <1>6, <3>1, <3>2, OwnKey
  <2>3. CoolingIn(now, owed, acctRow, bucket)
    <3> SUFFICES ASSUME NEW a \in Accounts
                 PROVE  IF acctRow[a] = NoRow THEN owed[a] = 0
                        ELSE now < owed[a] => BucketIn(bucket, acctRow[a].key).cd >= owed[a]
      BY DEF CoolingIn
    <3>1. CASE acctRow[a] = NoRow
      BY <1>6, <3>1 DEF Sound, CoolingIn
    <3>2. ASSUME acctRow[a] # NoRow, now < owed[a]
          PROVE  BucketIn(bucket, acctRow[a].key).cd >= owed[a]
      <4>1. a \in Present /\ acctRow[a].key \in Keys
        BY <2>1, <3>2
      <4>2. Bucket(acctRow[a].key).cd >= owed[a]
        BY <1>6, <3>2, <4>1, OwnKey
      <4>3. Bucket(acctRow[a].key).cd \in Nat /\ owed[a] \in Nat /\ now \in Nat
        BY <4>1, BucketType, RowParts DEF TypeInv
      <4>4. now < Bucket(acctRow[a].key).cd
        BY <3>2, <4>2, <4>3
      <4> QED
        BY <1>3, <1>4, <4>1, <4>2, <4>4
    <3> QED
      BY <3>1, <3>2
  <2> QED
    BY <1>6, <2>2, <2>3 DEF Sound
<1>7. Put(acctRow, None) = acctRow
  BY NoRowsOK DEF Put, TypeInv
<1> QED
  BY <1>1, <1>6, <1>7, BeginSound DEF bucket

\* Writing a table leaves the rows to come as they were.
LEMMA WriteSound ==
  ASSUME TypeInv, SoundInv, NEW p, Procs = {p}, WriteBuckets(p) \/ WriteAccounts(p)
  PROVE  SoundInv'
<1> SUFFICES ASSUME (torn = "no")', Accepted(pend[p].ac)'
             PROVE  Sound(now, owed, NextAcct(p), NextBucket(p))'
  BY DEF SoundInv
<1>2. /\ UNCHANGED <<now, owed>> /\ torn = "no" /\ Accepted(pend[p].ac)
      /\ NextAcct(p)' = NextAcct(p) /\ NextBucket(p)' = NextBucket(p)
  BY WriteKeeps
<1>3. Sound(now, owed, NextAcct(p), NextBucket(p))
  BY <1>2 DEF SoundInv
<1>4. Sound(now', owed', NextAcct(p)', NextBucket(p)')
  BY <1>2, <1>3
<1> QED
  BY <1>4 DEF Sound, OneEach, KeysDerived, CoolingIn, BucketIn, Blank

\* A process that starts on sound rows has nothing to re-key.
LEMMA RestartSound ==
  ASSUME TypeInv, SoundInv, NEW p, Procs = {p}, Restart(p)
  PROVE  SoundInv'
<1> SUFFICES ASSUME (torn = "no")' PROVE Sound(now, owed, NextAcct(p), NextBucket(p))'
  BY DEF SoundInv
<1>1. pend[p] = Idle /\ torn = "no" /\ UNCHANGED <<now, owed, acctRow, bucketRow>>
  BY DEF Restart
<1>2. Sound(now, owed, acctRow, bucketRow)
  BY <1>1, IdleSound
<1>3. \A a \in Present :
        KeyFor[<<SubjectOf[a], Bucket(acctRow[a].key).state.proj>>] = acctRow[a].key
  BY <1>2, OwnKey
<1>4. DOMAIN RestartAc = {} /\ DOMAIN RestartBk = {}
  BY <1>3 DEF RestartAc, RestartBk
<1>5. pend' = [pend EXCEPT ![p] = Pending("setDrivers", BucketsFirst, RestartBk, RestartAc)]
  BY RestartStep
<1>6. pend'[p] = Pending("setDrivers", BucketsFirst, RestartBk, RestartAc)
  BY <1>5 DEF TypeInv, PendOK
<1>7. pend'[p].bk = RestartBk /\ pend'[p].ac = RestartAc
  BY <1>6, PendingFields
<1>8. NextAcct(p)' = acctRow /\ NextBucket(p)' = bucketRow
  BY <1>1, <1>4, <1>7 DEF NextAcct, NextBucket, Put, TypeInv
<1>9. Sound(now', owed', NextAcct(p)', NextBucket(p)')
  BY <1>1, <1>2, <1>8
<1> QED
  BY <1>9 DEF Sound, OneEach, KeysDerived, CoolingIn, BucketIn, Blank

\* Time runs only towards the end of a cooldown.
LEMMA TickSound ==
  ASSUME TypeInv, SoundInv, Tick
  PROVE  SoundInv'
<1> SUFFICES ASSUME NEW p \in Procs, (torn = "no")', Accepted(pend[p].ac)'
             PROVE  Sound(now, owed, NextAcct(p), NextBucket(p))'
  BY DEF SoundInv
<1>1. UNCHANGED <<acctRow, bucketRow, pend, torn>>
  BY DEF Tick
<1>2. NextAcct(p)' = NextAcct(p) /\ NextBucket(p)' = NextBucket(p) /\ Accepted(pend[p].ac)
  BY <1>1 DEF NextAcct, NextBucket, Accepted, Taken, Present
<1>3. Sound(now, owed, NextAcct(p), NextBucket(p))
  BY <1>1, <1>2 DEF SoundInv
<1>4. now \in Nat /\ now' = now + 1 /\ \A a \in Accounts : owed[a] \in Nat /\ owed'[a] \in {0, owed[a]}
  BY DEF Tick, TypeInv
<1>5. CoolingIn(now', owed', NextAcct(p), NextBucket(p))
  <2> SUFFICES ASSUME NEW a \in Accounts
               PROVE  IF NextAcct(p)[a] = NoRow THEN owed'[a] = 0
                      ELSE now' < owed'[a] => BucketIn(NextBucket(p), NextAcct(p)[a].key).cd >= owed'[a]
    BY DEF CoolingIn
  <2>1. CASE NextAcct(p)[a] = NoRow
    BY <1>3, <1>4, <2>1 DEF Sound, CoolingIn
  <2>2. ASSUME NextAcct(p)[a] # NoRow, now' < owed'[a]
        PROVE  BucketIn(NextBucket(p), NextAcct(p)[a].key).cd >= owed'[a]
    <3>1. owed'[a] = owed[a] /\ now < owed[a]
      BY <1>4, <2>2
    <3> QED
      BY <1>3, <2>2, <3>1 DEF Sound, CoolingIn
  <2> QED
    BY <2>1, <2>2
<1>6. Sound(now', owed', NextAcct(p)', NextBucket(p)')
  BY <1>2, <1>3, <1>5 DEF Sound
<1> QED
  BY <1>6 DEF Sound, OneEach, KeysDerived, CoolingIn, BucketIn, Blank

\* What touches neither rows nor cooldowns.
LEMMA StaysSound ==
  ASSUME SoundInv, UNCHANGED <<now, acctRow, bucketRow, pend, owed, torn>>
  PROVE  SoundInv'
<1> SUFFICES ASSUME NEW p \in Procs, (torn = "no")', Accepted(pend[p].ac)'
             PROVE  Sound(now, owed, NextAcct(p), NextBucket(p))'
  BY DEF SoundInv
<1>1. NextAcct(p)' = NextAcct(p) /\ NextBucket(p)' = NextBucket(p) /\ Accepted(pend[p].ac)
  BY DEF NextAcct, NextBucket, Accepted, Taken, Present
<1>2. Sound(now', owed', NextAcct(p)', NextBucket(p)')
  BY <1>1 DEF SoundInv
<1> QED
  BY <1>2 DEF Sound, OneEach, KeysDerived, CoolingIn, BucketIn, Blank

\* Every step of a broker alone on its database keeps the rows sound.
LEMMA SoundStep ==
  OneProcess /\ OwnBuckets /\ TypeInv /\ HomeInv /\ SoundInv /\ [Next]_vars => SoundInv'
<1> SUFFICES ASSUME OneProcess, OwnBuckets, TypeInv, HomeInv, SoundInv, [Next]_vars PROVE SoundInv'
  OBVIOUS
<1>1. PICK p : Procs = {p}
  BY DEF OneProcess
<1>2. ASSUME NEW a \in Accounts, Operate(p, a) PROVE SoundInv'
  <2>1. ASSUME a \in Present, NEW kind \in Kinds, NEW d \in Pauses, NEW s \in Answers,
               Observe(p, a, kind, now + d, s)
        PROVE  SoundInv'
    <3>1. now \in Nat /\ d \in Nat
      BY PoolAssumption DEF TypeInv
    <3>2. now + d \in Nat
      BY <3>1
    <3>3. s \in {NoRow} \union States
      BY DEF Answers
    <3> QED
      BY <1>1, <2>1, <3>2, <3>3, ObserveSound
  <2>2. ASSUME a \in Present, NEW s \in Statuses, NEW t \in Answers, Update(p, a, s, t)
        PROVE  SoundInv'
    BY <1>1, <2>2, UpdateSound DEF Answers
  <2>3. CASE ClearCooldown(p, a)
    <3>1. /\ a \in Present /\ Forgive(acctRow[a].key)
          /\ Begin(p, "clear", BucketsFirst, Uncooled(acctRow[a].key), None)
      BY <2>3 DEF ClearCooldown
    <3> QED
      BY <1>1, <3>1, NoRowsOK, ForgivenSound
  <2>4. CASE StoreTokens(p, a)
    <3> DEFINE ac == [x \in {a} |-> [acctRow[a] EXCEPT !.status = "active"]]
               o == IF refreshing[a] = "auto" THEN "storeTokens" ELSE "adminTokens"
    <3>1. /\ a \in Present /\ Forgive(acctRow[a].key)
          /\ Begin(p, o, BucketsFirst, Uncooled(acctRow[a].key), ac)
      BY <2>4 DEF StoreTokens
    <3>2. \A m \in DOMAIN ac : m \in Present /\ ac[m] \in AcctRows /\ ac[m].key = acctRow[m].key
      BY <3>1, BucketType DEF AcctRows, Statuses
    <3> HIDE DEF ac, o
    <3> QED
      BY <1>1, <3>1, <3>2, ForgivenSound
  <2>5. CASE RecoverBucket(p, a)
    <3> DEFINE blocked == {m \in Members(acctRow[a].key) : acctRow[m].status = "blocked"}
               ac == [m \in blocked |-> [acctRow[m] EXCEPT !.status = "active"]]
    <3>1. /\ a \in Present /\ Forgive(acctRow[a].key)
          /\ Begin(p, "recover", AccountsFirst, Uncooled(acctRow[a].key), ac)
      BY <2>5 DEF RecoverBucket
    <3>2. \A m \in blocked : m \in Present /\ acctRow[m] \in AcctRows
      BY BucketType DEF Members
    <3>3. \A m \in DOMAIN ac : m \in Present /\ ac[m] \in AcctRows /\ ac[m].key = acctRow[m].key
      <4> HIDE DEF blocked
      <4> QED
        BY <3>2 DEF AcctRows, Statuses
    <3> HIDE DEF ac
    <3> QED
      BY <1>1, <3>1, <3>3, ForgivenSound
  <2>6. CASE AbandonRefresh(p, a) \/ StartProbe(p, a)
             \/ \E by \in {"auto", "admin"} : StartRefresh(p, a, by)
    <3>1. UNCHANGED <<now, acctRow, bucketRow, pend, owed, torn>>
      BY <2>6 DEF AbandonRefresh, StartProbe, StartRefresh
    <3> QED
      BY <3>1, StaysSound
  <2>7. CASE (\E s \in States : Add(p, a, s)) \/ Delete(p, a) \/ MarkError(p, a)
    BY <1>1, <2>7, AddSound, DeleteSound, MarkSound
  <2> QED
    BY <1>2, <2>1, <2>2, <2>3, <2>4, <2>5, <2>6, <2>7 DEF Operate
<1>3. CASE cleanup(p) \/ WriteBuckets(p) \/ WriteAccounts(p) \/ Restart(p)
  BY <1>1, <1>3, CleanSound, WriteSound, RestartSound
<1>4. CASE Tick
  BY <1>4, TickSound
<1>5. CASE UNCHANGED vars
  BY <1>5, StaysSound DEF vars
<1> QED
  BY <1>1, <1>2, <1>3, <1>4, <1>5 DEF Next

\* No rows are sound rows.
LEMMA SoundInit == Init => SoundInv
<1> SUFFICES ASSUME Init, NEW p \in Procs PROVE Sound(now, owed, NextAcct(p), NextBucket(p))
  BY DEF SoundInv
<1>1. pend[p].ac = None /\ pend[p].bk = None
  BY DEF Init, Idle
<1>2. /\ \A a \in Accounts : NextAcct(p)[a] = NoRow /\ owed[a] = 0
      /\ \A k \in Keys : NextBucket(p)[k] = NoRow
  BY <1>1, NoRowsOK DEF Init, NextAcct, NextBucket, Put
<1> QED
  BY <1>2 DEF Sound, OneEach, KeysDerived, CoolingIn

\* Where one process works on the database and no two subjects share a bucket, an account
\* the upstream told us to leave alone is cooling as long as it said, through every
\* observation, update, move of its bucket, clean-up and restart.  Both hypotheses are
\* needed: where two subjects share a project, an update after a sign-in writes the bucket it
\* moves over the one its new neighbour cools in.
THEOREM CooldownsKept == OneProcess /\ OwnBuckets => (Spec => []CooldownHonoured)
<1> SUFFICES ASSUME OneProcess, OwnBuckets PROVE Spec => []CooldownHonoured
  OBVIOUS
<1>1. Init => TypeInv /\ HomeInv /\ SoundInv
  BY TypeInit, HomeInit, SoundInit
<1>2. TypeInv /\ HomeInv /\ SoundInv /\ [Next]_vars => (TypeInv /\ HomeInv /\ SoundInv)'
  BY TypeStep, HomeStep, SoundStep
<1>3. TypeInv /\ SoundInv => CooldownHonoured
  <2> SUFFICES ASSUME TypeInv, SoundInv, Quiet, torn = "no", NEW a \in Present, now < owed[a]
               PROVE  Bucket(acctRow[a].key).cd >= owed[a]
    BY DEF CooldownHonoured
  <2>1. Sound(now, owed, acctRow, bucketRow)
    BY IdleSound DEF OneProcess, Quiet
  <2> QED
    BY <2>1, OwnKey
<1> QED
  BY <1>1, <1>2, <1>3, PTL DEF Spec
=============================================================================
