------------------------- MODULE TokenRefresh_proofs -------------------------
(* Proofs about TokenRefresh, for any number of refreshers and processes,    *)
(* any clock resolution and any durations.                                   *)
EXTENDS TokenRefresh, TLAPS

\* Unix() is a natural number, ...
LEMMA UnixNat == ASSUME NEW t \in Nat PROVE Unix(t) \in Nat
BY RefreshAssumption DEF Unix

\* ... and it never goes back when the clock advances.
LEMMA UnixMonotone == ASSUME NEW t \in Nat PROVE Unix(t) <= Unix(t + 1)
BY RefreshAssumption DEF Unix

\* The processes where others rewrite the row are processes.
LEMMA WritersAreHosts == \A h \in Writers : h \in Hosts
BY RefreshAssumption

\* A refresher past Get has read a refresh token; what it was granted came
\* with one or with none.
Shape ==
  /\ \A p \in Procs : pc[p] \in {"call", "store"} => snap[p] \in Tokens
  /\ \A p \in Procs : answer[p].kind # "granted" => answer[p].rt = 0
  /\ \A p \in Procs : pc[p] \notin {"call", "store"} => answer[p] = NoAnswer

\* A process's mutex: while somebody has it the copy holds a row to write,
\* and it is the only refresher of its process that has; a sign-in that has
\* it is about to write the token it holds.
Mutex ==
  /\ \A h \in Hosts : copy[h].op = "none" => copy[h] = NoCopy
  /\ \A h \in Hosts : copy[h].op # "none" => copy[h].rt \in Tokens
  /\ \A p \in Procs : pc[p] \in {"storing", "marking"} => copy[HostOf[p]].op = "refresh"
  /\ \A p, q \in Procs : /\ pc[p] \in {"storing", "marking"}
                         /\ pc[q] \in {"storing", "marking"}
                         /\ HostOf[p] = HostOf[q]
                         => p = q
  /\ \A h \in Hosts : copy[h].op = "login" =>
        login[h].kind # "none" /\ copy[h].rt = login[h].rt
  /\ \A h \in Hosts : login[h].kind = "none" => login[h] = NoLogin
  /\ \A h \in Hosts : login[h].kind # "none" => login[h].rt \in Tokens

\* Every refresh token in use has been issued.
Known ==
  /\ acct.rt <= issued
  /\ \A p \in Procs : snap[p] <= issued /\ answer[p].rt <= issued
  /\ \A h \in Hosts : copy[h].rt <= issued /\ login[h].rt <= issued

\* While nothing has gone wrong: one refresher at a time, the token it sends
\* is accepted and so is the answer in its hands, ...
Lone ==
  /\ \A p, q \in Procs : pc[p] \in Critical /\ pc[q] \in Critical => p = q
  /\ \A p \in Procs : pc[p] = "call" /\ answer[p] = NoAnswer => snap[p] \in valid
  /\ \A p \in Procs : pc[p] \in {"call", "store"} /\ answer[p].kind = "granted"
                        => NewRefreshToken(p) \in valid
  /\ \A p \in Procs : pc[p] = "storing" => copy[HostOf[p]].rt \in valid
  /\ \A p \in Procs : pc[p] = "call" => answer[p] # Refused
  /\ \A p \in Procs : pc[p] = "store" => answer[p].kind = "granted"

\* ... nobody has a reason to mark an error, nor an old copy that does, ...
Clean ==
  /\ \A p \in Procs : pc[p] \notin {"fail", "marking"}
  /\ acct.status # "error"
  /\ \A h \in Hosts : copy[h].status # "error"

\* ... a token that a sign-in is about to store is good and in nobody else's
\* hands, ...
Apart ==
  \A h \in Hosts : login[h].kind = "new" =>
    /\ login[h].rt \in valid
    /\ login[h].rt # acct.rt
    /\ \A p \in Procs : pc[p] \in {"call", "store"} =>
          snap[p] # login[h].rt /\ answer[p].rt # login[h].rt
    /\ \A p \in Procs : pc[p] = "storing" => copy[HostOf[p]].rt # login[h].rt
    /\ \A g \in Hosts : login[g].kind = "new" /\ login[g].rt = login[h].rt => g = h

\* ... and the stored token is good when nobody has a replacement.
Good ==
  acct.present = "yes" /\ ~SigningIn /\ ~(\E p \in Procs : Unstored(p))
    => acct.rt \in valid

Chain == Calm => Lone /\ Clean /\ Apart /\ Good

USE DEF PCs, Critical, Tokens, Statuses, NoLock, NoAnswer, Refused, Granted,
        NoCopy, NoLogin

-----------------------------------------------------------------------------
\* The initial state satisfies every invariant.
LEMMA InitInv ==
  Init => TypeOK /\ Shape /\ Mutex /\ Known /\ ExclusiveUntilExpiry /\ Chain
BY RefreshAssumption
DEF Init, TypeOK, Shape, Mutex, Known, ExclusiveUntilExpiry, InLease, Chain, Lone,
    Clean, Apart, Good, Unstored, SigningIn

\* A newly issued token is within the bound.
LEMMA RotateType ==
  ASSUME TypeOK, issued < MaxTokens
  PROVE  issued + 1 \in Tokens
BY RefreshAssumption DEF TypeOK

\* A rotation at the provider keeps the types of its state.
LEMMA RotateKeepsType ==
  ASSUME TypeOK, NEW t, RotateUpstream(t)
  PROVE  issued' \in Tokens /\ valid' \subseteq Tokens
BY RotateType DEF RotateUpstream, TypeOK

\* Every step keeps the types and the shape of a refresher's locals.
LEMMA TypeStep ==
  ASSUME TypeOK, Shape, Mutex, [Next]_vars
  PROVE  TypeOK' /\ Shape'
<1> USE RefreshAssumption DEF TypeOK, Shape
<1>1. CASE UNCHANGED vars
  BY <1>1 DEF vars, row, provider, locals
<1>2. ASSUME NEW p \in Procs, Start(p) PROVE TypeOK' /\ Shape'
  BY <1>2 DEF Start, row, provider, locals
<1>3. ASSUME NEW p \in Procs, AcquireRefreshLock(p) PROVE TypeOK' /\ Shape'
  <2>1. now + LockTTL \in Nat
    OBVIOUS
  <2>2. Unix(now + LockTTL) \in Nat
    BY <2>1, UnixNat
  <2> QED BY <1>3, <2>2 DEF AcquireRefreshLock, NoteIf, row, provider, locals
<1>4. ASSUME NEW p \in Procs, AcquireRefused(p) PROVE TypeOK' /\ Shape'
  BY <1>4 DEF AcquireRefused, row, provider, locals
<1>5. ASSUME NEW p \in Procs, GiveUp(p) PROVE TypeOK' /\ Shape'
  BY <1>5 DEF GiveUp, Leave, row, provider, locals
<1>6. ASSUME NEW p \in Procs, Get(p) PROVE TypeOK' /\ Shape'
  BY <1>6 DEF Get, NoteIf, row, provider, locals
<1>7. ASSUME NEW p \in Procs, GetNoAccount(p) PROVE TypeOK' /\ Shape'
  BY <1>7 DEF GetNoAccount, Proceed, row, provider, locals
<1>8. ASSUME NEW p \in Procs, GetStale(p) PROVE TypeOK' /\ Shape'
  BY <1>8 DEF GetStale, NoteIf, row, provider, locals
<1>9. ASSUME NEW p \in Procs, GetUnusable(p) PROVE TypeOK' /\ Shape'
  BY <1>9 DEF GetUnusable, NoteIf, row, provider, locals
<1>10. ASSUME NEW p \in Procs, UpstreamGrants(p) PROVE TypeOK' /\ Shape'
  <2>1. CASE RotateUpstream(snap[p]) /\ answer' = [answer EXCEPT ![p] = Granted(issued')]
    <3>1. issued' \in Tokens /\ valid' \subseteq Tokens
      BY <2>1, RotateKeepsType
    <3> QED BY <1>10, <2>1, <3>1 DEF UpstreamGrants, row, provider, locals
  <2>2. CASE answer' = [answer EXCEPT ![p] = Granted(0)] /\ UNCHANGED <<issued, valid>>
    BY <1>10, <2>2 DEF UpstreamGrants, row, provider, locals
  <2> QED BY <1>10, <2>1, <2>2 DEF UpstreamGrants
<1>11. ASSUME NEW p \in Procs, UpstreamRefuses(p) PROVE TypeOK' /\ Shape'
  BY <1>11 DEF UpstreamRefuses, row, provider, locals
<1>12. ASSUME NEW p \in Procs, Receive(p) PROVE TypeOK' /\ Shape'
  BY <1>12 DEF Receive, row, provider, locals
<1>13. ASSUME NEW p \in Procs, ReceiveRefusal(p) PROVE TypeOK' /\ Shape'
  BY <1>13 DEF ReceiveRefusal, Proceed, row, provider, locals
<1>14. ASSUME NEW p \in Procs, CallFails(p) PROVE TypeOK' /\ Shape'
  BY ZenonT(60), <1>14 DEF CallFails, Proceed, Abandon, NoteIf, row, provider, locals
<1>15. ASSUME NEW p \in Procs, CallFailsMarked(p) PROVE TypeOK' /\ Shape'
  BY ZenonT(60), <1>15 DEF CallFailsMarked, Proceed, NoteIf, row, provider, locals
<1>16. ASSUME NEW p \in Procs, StoreTokens(p) PROVE TypeOK' /\ Shape'
  BY <1>16 DEF StoreTokens, Reload, Proceed, row, provider, locals, NewRefreshToken
<1>17. ASSUME NEW p \in Procs, StoreTokensNoAccount(p) PROVE TypeOK' /\ Shape'
  BY <1>17 DEF StoreTokensNoAccount, Proceed, row, provider, locals
<1>18. ASSUME NEW p \in Procs, StoreFails(p) PROVE TypeOK' /\ Shape'
  BY <1>18 DEF StoreFails, Proceed, NoteIf, row, provider, locals
<1>19. ASSUME NEW p \in Procs, MarkError(p) PROVE TypeOK' /\ Shape'
  BY <1>19 DEF MarkError, Reload, Proceed, row, provider, locals
<1>20. ASSUME NEW p \in Procs, MarkErrorNoAccount(p) PROVE TypeOK' /\ Shape'
  BY <1>20 DEF MarkErrorNoAccount, Proceed, row, provider, locals
<1>21. ASSUME NEW p \in Procs, TokensPersisted(p) PROVE TypeOK' /\ Shape'
  BY <1>21 DEF TokensPersisted, SaveAccount, Unlock, Proceed, row, provider, locals, Mutex
<1>22. ASSUME NEW p \in Procs, ErrorPersisted(p) PROVE TypeOK' /\ Shape'
  BY <1>22 DEF ErrorPersisted, WriteBack, SaveAccount, Unlock, Proceed, row, provider, locals, Mutex
<1>23. ASSUME NEW p \in Procs, PersistFails(p) PROVE TypeOK' /\ Shape'
  BY <1>23 DEF PersistFails, Unlock, Proceed, NoteIf, row, provider, locals
<1>24. ASSUME NEW p \in Procs, ReleaseRefreshLock(p) PROVE TypeOK' /\ Shape'
  BY <1>24 DEF ReleaseRefreshLock, Leave, row, provider, locals
<1>25. ASSUME NEW p \in Procs, ReleaseFails(p) PROVE TypeOK' /\ Shape'
  BY <1>25 DEF ReleaseFails, Leave, Orphan, row, provider, locals
<1>26. ASSUME NEW t \in stray, StrayRotates(t) PROVE TypeOK' /\ Shape'
  <2>1. issued' \in Tokens /\ valid' \subseteq Tokens
    BY <1>26, RotateKeepsType DEF StrayRotates
  <2> QED BY <1>26, <2>1 DEF StrayRotates, NoteIf, row, provider, locals
<1>27. ASSUME NEW h \in Hosts, Exchange(h) PROVE TypeOK' /\ Shape'
  <2>1. issued + 1 \in Tokens
    BY <1>27, RotateType DEF Exchange
  <2> QED BY <1>27, <2>1 DEF Exchange, NoteIf, row, provider, locals
<1>28. ASSUME NEW h \in Hosts, ExchangeKeeps(h) PROVE TypeOK' /\ Shape'
  BY <1>28 DEF ExchangeKeeps, row, provider, locals
<1>29. ASSUME NEW h \in Hosts, LoginReloads(h) PROVE TypeOK' /\ Shape'
  BY <1>29 DEF LoginReloads, Reload, row, provider, locals
<1>30. ASSUME NEW h \in Hosts, PoolReloads(h) PROVE TypeOK' /\ Shape'
  BY <1>30 DEF PoolReloads, Reload, row, provider, locals
<1>31. ASSUME NEW h \in Hosts, Delete(h) PROVE TypeOK' /\ Shape'
  BY <1>31 DEF Delete, row, provider, locals
<1>32. ASSUME NEW h \in Hosts, LoginStores(h) PROVE TypeOK' /\ Shape'
  BY <1>32 DEF LoginStores, SaveAccount, Unlock, NoteIf, row, provider, locals, Mutex
<1>33. ASSUME NEW h \in Hosts, LoginUnstored(h) PROVE TypeOK' /\ Shape'
  BY <1>33 DEF LoginUnstored, Unlock, NoteIf, row, provider, locals
<1>34. ASSUME NEW h \in Hosts, PoolLeaves(h) PROVE TypeOK' /\ Shape'
  BY <1>34 DEF PoolLeaves, Unlock, row, provider, locals
<1>35. ASSUME NEW h \in Hosts, LoginFails(h) PROVE TypeOK' /\ Shape'
  BY <1>35 DEF LoginFails, NoteIf, row, provider, locals
<1>36. ASSUME NEW h \in Hosts, NEW s \in {"active", copy[h].status}, SetStatus(h, s)
       PROVE  TypeOK' /\ Shape'
  BY <1>36 DEF SetStatus, WriteBack, SaveAccount, Unlock, row, provider, locals, Mutex
<1>37. ASSUME NEW h \in Hosts, Crash(h) PROVE TypeOK' /\ Shape'
  BY <1>37 DEF Crash, On, Orphan, Unlock, NoteIf, row, provider, locals
<1>38. CASE Purge
  BY <1>38 DEF Purge, row, provider, locals
<1>39. CASE Tick
  BY <1>39 DEF Tick, row, provider, locals
<1> HIDE DEF TypeOK, Shape
<1> QED
  BY <1>1, <1>2, <1>3, <1>4, <1>5, <1>6, <1>7, <1>8, <1>9, <1>10, <1>11,
     <1>12, <1>13, <1>14, <1>15, <1>16, <1>17, <1>18, <1>19, <1>20,
     <1>21, <1>22, <1>23, <1>24, <1>25, <1>26, <1>27, <1>28, <1>29,
     <1>30, <1>31, <1>32, <1>33, <1>34, <1>35, <1>36, <1>37, <1>38,
     <1>39,
     WritersAreHosts
  DEF Next, refresh, holder, Begins

-----------------------------------------------------------------------------
\* Every step keeps what the mutex of a process assures.
LEMMA MutexStep ==
  ASSUME TypeOK, TypeOK', Shape, Mutex, [Next]_vars
  PROVE  Mutex'
<1> USE RefreshAssumption DEF TypeOK, Shape, Mutex
<1>1. CASE UNCHANGED vars
  BY <1>1 DEF vars, row, provider, locals
<1>2. ASSUME NEW p \in Procs, Start(p) PROVE Mutex'
  BY <1>2 DEF Start, row, provider, locals
<1>3. ASSUME NEW p \in Procs, AcquireRefreshLock(p) PROVE Mutex'
  BY <1>3 DEF AcquireRefreshLock, NoteIf, row, provider, locals
<1>4. ASSUME NEW p \in Procs, AcquireRefused(p) PROVE Mutex'
  BY <1>4 DEF AcquireRefused, row, provider, locals
<1>5. ASSUME NEW p \in Procs, GiveUp(p) PROVE Mutex'
  BY <1>5 DEF GiveUp, Leave, row, provider, locals
<1>6. ASSUME NEW p \in Procs, Get(p) PROVE Mutex'
  BY <1>6 DEF Get, NoteIf, row, provider, locals
<1>7. ASSUME NEW p \in Procs, GetNoAccount(p) PROVE Mutex'
  BY <1>7 DEF GetNoAccount, Proceed, row, provider, locals
<1>8. ASSUME NEW p \in Procs, GetStale(p) PROVE Mutex'
  BY <1>8 DEF GetStale, NoteIf, row, provider, locals
<1>9. ASSUME NEW p \in Procs, GetUnusable(p) PROVE Mutex'
  BY <1>9 DEF GetUnusable, NoteIf, row, provider, locals
<1>10. ASSUME NEW p \in Procs, UpstreamGrants(p) PROVE Mutex'
  BY <1>10 DEF UpstreamGrants, row, provider, locals
<1>11. ASSUME NEW p \in Procs, UpstreamRefuses(p) PROVE Mutex'
  BY <1>11 DEF UpstreamRefuses, row, provider, locals
<1>12. ASSUME NEW p \in Procs, Receive(p) PROVE Mutex'
  BY <1>12 DEF Receive, row, provider, locals
<1>13. ASSUME NEW p \in Procs, ReceiveRefusal(p) PROVE Mutex'
  BY <1>13 DEF ReceiveRefusal, Proceed, row, provider, locals
<1>14. ASSUME NEW p \in Procs, CallFails(p) PROVE Mutex'
  BY <1>14 DEF CallFails, Proceed, Abandon, NoteIf, row, provider, locals
<1>15. ASSUME NEW p \in Procs, CallFailsMarked(p) PROVE Mutex'
  BY <1>15 DEF CallFailsMarked, Proceed, NoteIf, row, provider, locals
<1>16. ASSUME NEW p \in Procs, StoreTokens(p) PROVE Mutex'
  BY <1>16 DEF StoreTokens, Reload, Proceed, row, provider, locals, NewRefreshToken
<1>17. ASSUME NEW p \in Procs, StoreTokensNoAccount(p) PROVE Mutex'
  BY <1>17 DEF StoreTokensNoAccount, Proceed, row, provider, locals
<1>18. ASSUME NEW p \in Procs, StoreFails(p) PROVE Mutex'
  BY <1>18 DEF StoreFails, Proceed, NoteIf, row, provider, locals
<1>19. ASSUME NEW p \in Procs, MarkError(p) PROVE Mutex'
  BY <1>19 DEF MarkError, Reload, Proceed, row, provider, locals
<1>20. ASSUME NEW p \in Procs, MarkErrorNoAccount(p) PROVE Mutex'
  BY <1>20 DEF MarkErrorNoAccount, Proceed, row, provider, locals
<1>21. ASSUME NEW p \in Procs, TokensPersisted(p) PROVE Mutex'
  BY <1>21 DEF TokensPersisted, SaveAccount, Unlock, Proceed, row, provider, locals
<1>22. ASSUME NEW p \in Procs, ErrorPersisted(p) PROVE Mutex'
  BY <1>22 DEF ErrorPersisted, WriteBack, SaveAccount, Unlock, Proceed, row, provider, locals
<1>23. ASSUME NEW p \in Procs, PersistFails(p) PROVE Mutex'
  BY <1>23 DEF PersistFails, Unlock, Proceed, NoteIf, row, provider, locals
<1>24. ASSUME NEW p \in Procs, ReleaseRefreshLock(p) PROVE Mutex'
  BY <1>24 DEF ReleaseRefreshLock, Leave, row, provider, locals
<1>25. ASSUME NEW p \in Procs, ReleaseFails(p) PROVE Mutex'
  BY <1>25 DEF ReleaseFails, Leave, Orphan, row, provider, locals
<1>26. ASSUME NEW t \in stray, StrayRotates(t) PROVE Mutex'
  BY <1>26 DEF StrayRotates, NoteIf, row, provider, locals
<1>27. ASSUME NEW h \in Hosts, Exchange(h) PROVE Mutex'
  <2>1. issued + 1 \in Tokens
    BY <1>27, RotateType DEF Exchange
  <2> QED BY <1>27, <2>1 DEF Exchange, NoteIf, row, provider, locals
<1>28. ASSUME NEW h \in Hosts, ExchangeKeeps(h) PROVE Mutex'
  BY <1>28 DEF ExchangeKeeps, row, provider, locals
<1>29. ASSUME NEW h \in Hosts, LoginReloads(h) PROVE Mutex'
  BY <1>29 DEF LoginReloads, Reload, row, provider, locals
<1>30. ASSUME NEW h \in Hosts, PoolReloads(h) PROVE Mutex'
  BY <1>30 DEF PoolReloads, Reload, row, provider, locals
<1>31. ASSUME NEW h \in Hosts, Delete(h) PROVE Mutex'
  BY <1>31 DEF Delete, row, provider, locals
<1>32. ASSUME NEW h \in Hosts, LoginStores(h) PROVE Mutex'
  BY <1>32 DEF LoginStores, SaveAccount, Unlock, NoteIf, row, provider, locals
<1>33. ASSUME NEW h \in Hosts, LoginUnstored(h) PROVE Mutex'
  BY <1>33 DEF LoginUnstored, Unlock, NoteIf, row, provider, locals
<1>34. ASSUME NEW h \in Hosts, PoolLeaves(h) PROVE Mutex'
  BY <1>34 DEF PoolLeaves, Unlock, row, provider, locals
<1>35. ASSUME NEW h \in Hosts, LoginFails(h) PROVE Mutex'
  BY <1>35 DEF LoginFails, NoteIf, row, provider, locals
<1>36. ASSUME NEW h \in Hosts, NEW s \in {"active", copy[h].status}, SetStatus(h, s)
       PROVE  Mutex'
  BY <1>36 DEF SetStatus, WriteBack, SaveAccount, Unlock, row, provider, locals
<1>37. ASSUME NEW h \in Hosts, Crash(h) PROVE Mutex'
  BY <1>37 DEF Crash, On, Orphan, Unlock, NoteIf, row, provider, locals
<1>38. CASE Purge
  BY <1>38 DEF Purge, row, provider, locals
<1>39. CASE Tick
  BY <1>39 DEF Tick, row, provider, locals
<1> HIDE DEF TypeOK, Shape, Mutex
<1> QED
  BY <1>1, <1>2, <1>3, <1>4, <1>5, <1>6, <1>7, <1>8, <1>9, <1>10, <1>11,
     <1>12, <1>13, <1>14, <1>15, <1>16, <1>17, <1>18, <1>19, <1>20,
     <1>21, <1>22, <1>23, <1>24, <1>25, <1>26, <1>27, <1>28, <1>29,
     <1>30, <1>31, <1>32, <1>33, <1>34, <1>35, <1>36, <1>37, <1>38,
     <1>39,
     WritersAreHosts
  DEF Next, refresh, holder, Begins

\* Every step uses issued tokens only.
LEMMA KnownStep ==
  ASSUME TypeOK, TypeOK', Shape, Mutex, Known, [Next]_vars
  PROVE  Known'
<1> USE RefreshAssumption DEF TypeOK, Known
<1>1. CASE UNCHANGED vars
  BY <1>1 DEF vars, row, provider, locals
<1>2. ASSUME NEW p \in Procs, Start(p) PROVE Known'
  BY <1>2 DEF Start, row, provider, locals
<1>3. ASSUME NEW p \in Procs, AcquireRefreshLock(p) PROVE Known'
  BY <1>3 DEF AcquireRefreshLock, NoteIf, row, provider, locals
<1>4. ASSUME NEW p \in Procs, AcquireRefused(p) PROVE Known'
  BY <1>4 DEF AcquireRefused, row, provider, locals
<1>5. ASSUME NEW p \in Procs, GiveUp(p) PROVE Known'
  BY <1>5 DEF GiveUp, Leave, row, provider, locals
<1>6. ASSUME NEW p \in Procs, Get(p) PROVE Known'
  BY <1>6 DEF Get, NoteIf, row, provider, locals
<1>7. ASSUME NEW p \in Procs, GetNoAccount(p) PROVE Known'
  BY <1>7 DEF GetNoAccount, Proceed, row, provider, locals
<1>8. ASSUME NEW p \in Procs, GetStale(p) PROVE Known'
  BY <1>8 DEF GetStale, NoteIf, row, provider, locals
<1>9. ASSUME NEW p \in Procs, GetUnusable(p) PROVE Known'
  BY <1>9 DEF GetUnusable, NoteIf, row, provider, locals
<1>10. ASSUME NEW p \in Procs, UpstreamGrants(p) PROVE Known'
  <2>1. CASE RotateUpstream(snap[p]) /\ answer' = [answer EXCEPT ![p] = Granted(issued')]
    <3>1. issued' = issued + 1 /\ issued \in Nat
      BY <2>1 DEF RotateUpstream
    <3>2. \A x \in Tokens \union {0} : x <= issued => x <= issued'
      BY <3>1
    <3>3. acct'.rt <= issued'
      BY <1>10, <3>2 DEF UpstreamGrants, row, provider, locals
    <3>4. \A q \in Procs : snap'[q] <= issued'
      BY <1>10, <3>2 DEF UpstreamGrants, row, provider, locals
    <3>5. \A q \in Procs : answer'[q].rt <= issued'
      BY <2>1, <3>1, <3>2
    <3>6. \A h \in Hosts : copy'[h].rt <= issued' /\ login'[h].rt <= issued'
      BY <1>10, <3>2 DEF UpstreamGrants, row, provider, locals
    <3> QED BY <3>3, <3>4, <3>5, <3>6
  <2>2. CASE answer' = [answer EXCEPT ![p] = Granted(0)] /\ UNCHANGED <<issued, valid>>
    BY <1>10, <2>2 DEF UpstreamGrants, row, provider, locals
  <2> QED BY <1>10, <2>1, <2>2 DEF UpstreamGrants
<1>11. ASSUME NEW p \in Procs, UpstreamRefuses(p) PROVE Known'
  BY <1>11 DEF UpstreamRefuses, row, provider, locals
<1>12. ASSUME NEW p \in Procs, Receive(p) PROVE Known'
  BY <1>12 DEF Receive, row, provider, locals
<1>13. ASSUME NEW p \in Procs, ReceiveRefusal(p) PROVE Known'
  BY <1>13 DEF ReceiveRefusal, Proceed, row, provider, locals
<1>14. ASSUME NEW p \in Procs, CallFails(p) PROVE Known'
  BY <1>14 DEF CallFails, Proceed, Abandon, NoteIf, row, provider, locals
<1>15. ASSUME NEW p \in Procs, CallFailsMarked(p) PROVE Known'
  BY <1>15 DEF CallFailsMarked, Proceed, NoteIf, row, provider, locals
<1>16. ASSUME NEW p \in Procs, StoreTokens(p) PROVE Known'
  BY <1>16 DEF StoreTokens, Reload, Proceed, row, provider, locals, NewRefreshToken
<1>17. ASSUME NEW p \in Procs, StoreTokensNoAccount(p) PROVE Known'
  BY <1>17 DEF StoreTokensNoAccount, Proceed, row, provider, locals
<1>18. ASSUME NEW p \in Procs, StoreFails(p) PROVE Known'
  BY <1>18 DEF StoreFails, Proceed, NoteIf, row, provider, locals
<1>19. ASSUME NEW p \in Procs, MarkError(p) PROVE Known'
  BY <1>19 DEF MarkError, Reload, Proceed, row, provider, locals
<1>20. ASSUME NEW p \in Procs, MarkErrorNoAccount(p) PROVE Known'
  BY <1>20 DEF MarkErrorNoAccount, Proceed, row, provider, locals
<1>21. ASSUME NEW p \in Procs, TokensPersisted(p) PROVE Known'
  BY <1>21 DEF TokensPersisted, SaveAccount, Unlock, Proceed, row, provider, locals
<1>22. ASSUME NEW p \in Procs, ErrorPersisted(p) PROVE Known'
  BY <1>22 DEF ErrorPersisted, WriteBack, SaveAccount, Unlock, Proceed, row, provider, locals
<1>23. ASSUME NEW p \in Procs, PersistFails(p) PROVE Known'
  BY <1>23 DEF PersistFails, Unlock, Proceed, NoteIf, row, provider, locals
<1>24. ASSUME NEW p \in Procs, ReleaseRefreshLock(p) PROVE Known'
  BY <1>24 DEF ReleaseRefreshLock, Leave, row, provider, locals
<1>25. ASSUME NEW p \in Procs, ReleaseFails(p) PROVE Known'
  BY <1>25 DEF ReleaseFails, Leave, Orphan, row, provider, locals
<1>26. ASSUME NEW t \in stray, StrayRotates(t) PROVE Known'
  <2>1. issued \in Nat /\ issued' \in Nat /\ issued <= issued'
    <3>1. CASE t \in valid
      BY <1>26, <3>1 DEF StrayRotates, RotateUpstream
    <3>2. CASE t \notin valid
      BY <1>26, <3>2 DEF StrayRotates
    <3> QED BY <3>1, <3>2
  <2>2. \A x \in Tokens \union {0} : x <= issued => x <= issued'
    BY <2>1
  <2> QED BY <1>26, <2>2 DEF StrayRotates, row, locals
<1>27. ASSUME NEW h \in Hosts, Exchange(h) PROVE Known'
  <2>1. issued' = issued + 1 /\ issued \in Nat
    BY <1>27 DEF Exchange
  <2>2. \A x \in Tokens \union {0} : x <= issued => x <= issued'
    BY <2>1
  <2>3. acct'.rt <= issued' /\ \A p \in Procs : snap'[p] <= issued' /\ answer'[p].rt <= issued'
    BY <1>27, <2>2 DEF Exchange, NoteIf, row, provider, locals
  <2>4. \A g \in Hosts : copy'[g].rt <= issued'
    BY <1>27, <2>2 DEF Exchange, NoteIf, row, provider, locals
  <2>5. login' = [login EXCEPT ![h] = [kind |-> "new", rt |-> issued + 1]]
    BY <1>27 DEF Exchange
  <2>6. \A g \in Hosts : login'[g].rt <= issued'
    BY <2>1, <2>2, <2>5
  <2> QED BY <2>3, <2>4, <2>6
<1>28. ASSUME NEW h \in Hosts, ExchangeKeeps(h) PROVE Known'
  BY <1>28 DEF ExchangeKeeps, row, provider, locals
<1>29. ASSUME NEW h \in Hosts, LoginReloads(h) PROVE Known'
  BY <1>29 DEF LoginReloads, Reload, row, provider, locals
<1>30. ASSUME NEW h \in Hosts, PoolReloads(h) PROVE Known'
  BY <1>30 DEF PoolReloads, Reload, row, provider, locals
<1>31. ASSUME NEW h \in Hosts, Delete(h) PROVE Known'
  BY <1>31 DEF Delete, row, provider, locals
<1>32. ASSUME NEW h \in Hosts, LoginStores(h) PROVE Known'
  BY <1>32 DEF LoginStores, SaveAccount, Unlock, NoteIf, row, provider, locals
<1>33. ASSUME NEW h \in Hosts, LoginUnstored(h) PROVE Known'
  BY <1>33 DEF LoginUnstored, Unlock, NoteIf, row, provider, locals
<1>34. ASSUME NEW h \in Hosts, PoolLeaves(h) PROVE Known'
  BY <1>34 DEF PoolLeaves, Unlock, row, provider, locals
<1>35. ASSUME NEW h \in Hosts, LoginFails(h) PROVE Known'
  BY <1>35 DEF LoginFails, NoteIf, row, provider, locals
<1>36. ASSUME NEW h \in Hosts, NEW s \in {"active", copy[h].status}, SetStatus(h, s)
       PROVE  Known'
  BY <1>36 DEF SetStatus, WriteBack, SaveAccount, Unlock, row, provider, locals
<1>37. ASSUME NEW h \in Hosts, Crash(h) PROVE Known'
  BY <1>37 DEF Crash, On, Orphan, Unlock, NoteIf, row, provider, locals
<1>38. CASE Purge
  BY <1>38 DEF Purge, row, provider, locals
<1>39. CASE Tick
  BY <1>39 DEF Tick, row, provider, locals
<1> HIDE DEF TypeOK, Known
<1> QED
  BY <1>1, <1>2, <1>3, <1>4, <1>5, <1>6, <1>7, <1>8, <1>9, <1>10, <1>11,
     <1>12, <1>13, <1>14, <1>15, <1>16, <1>17, <1>18, <1>19, <1>20,
     <1>21, <1>22, <1>23, <1>24, <1>25, <1>26, <1>27, <1>28, <1>29,
     <1>30, <1>31, <1>32, <1>33, <1>34, <1>35, <1>36, <1>37, <1>38,
     <1>39,
     WritersAreHosts
  DEF Next, refresh, holder, Begins

-----------------------------------------------------------------------------
\* A step that touches neither the clock nor the row, and in which nobody
\* enters the critical section or changes the expiry it remembers there,
\* keeps the lock exclusive.
LEMMA ExclusiveFrame ==
  ASSUME TypeOK, ExclusiveUntilExpiry,
         UNCHANGED <<now, lock>>,
         \A q \in Procs : pc'[q] \in Critical =>
            pc[q] \in Critical /\ due'[q] = due[q]
  PROVE  ExclusiveUntilExpiry'
BY DEF TypeOK, ExclusiveUntilExpiry, InLease, Unix

\* A step in which the refreshers P leave, and their lock row with them,
\* keeps the lock exclusive.
LEMMA ExclusiveLeave ==
  ASSUME TypeOK, ExclusiveUntilExpiry, NEW P,
         now' = now,
         lock.id \notin P => lock' = lock,
         \A q \in P \intersect Procs : pc'[q] = "idle",
         \A q \in Procs \ P : pc'[q] = pc[q] /\ due'[q] = due[q]
  PROVE  ExclusiveUntilExpiry'
<1>1. \A q \in Procs : InLease(q)' => q \notin P /\ InLease(q) /\ due'[q] = due[q]
  BY DEF InLease, Unix
<1> QED BY <1>1 DEF ExclusiveUntilExpiry

\* Every step keeps the lock exclusive until it expires.
LEMMA ExclusiveStep ==
  ASSUME TypeOK, ExclusiveUntilExpiry, [Next]_vars
  PROVE  ExclusiveUntilExpiry'
<1> USE DEF TypeOK
<1>1. CASE UNCHANGED vars
  BY <1>1, ExclusiveFrame DEF vars, row, provider, locals
<1>2. ASSUME NEW p \in Procs, Start(p) PROVE ExclusiveUntilExpiry'
  BY <1>2, ExclusiveFrame DEF Start, row, provider, locals
<1>3. ASSUME NEW p \in Procs, AcquireRefreshLock(p) PROVE ExclusiveUntilExpiry'
  <2>1. \A q \in Procs : ~InLease(q)
    <3>1. lock.exp \in Int /\ Unix(now) \in Int
      BY UnixNat
    <3>2. lock.exp <= Unix(now)
      BY <1>3 DEF AcquireRefreshLock, LockFree
    <3> QED BY <3>1, <3>2 DEF ExclusiveUntilExpiry, InLease
  <2>2. /\ pc' = [pc EXCEPT ![p] = "get"]
        /\ due' = [due EXCEPT ![p] = Unix(now + LockTTL)]
        /\ lock' = [id |-> p, exp |-> Unix(now + LockTTL)]
        /\ Unix(now)' = Unix(now)
    BY <1>3 DEF AcquireRefreshLock, Unix
  <2>3. \A q \in Procs : q # p => ~InLease(q)'
    BY <2>1, <2>2 DEF InLease
  <2> QED BY <2>2, <2>3 DEF ExclusiveUntilExpiry
<1>4. ASSUME NEW p \in Procs, AcquireRefused(p) PROVE ExclusiveUntilExpiry'
  BY <1>4, ExclusiveFrame DEF AcquireRefused, row, provider, locals
<1>5. ASSUME NEW p \in Procs, GiveUp(p) PROVE ExclusiveUntilExpiry'
  BY <1>5, ExclusiveFrame DEF GiveUp, Leave, row, provider, locals
<1>6. ASSUME NEW p \in Procs, Get(p) PROVE ExclusiveUntilExpiry'
  BY <1>6, ExclusiveFrame DEF Get, NoteIf, row, provider, locals
<1>7. ASSUME NEW p \in Procs, GetNoAccount(p) PROVE ExclusiveUntilExpiry'
  BY <1>7, ExclusiveFrame DEF GetNoAccount, Proceed, row, provider, locals
<1>8. ASSUME NEW p \in Procs, GetStale(p) PROVE ExclusiveUntilExpiry'
  BY <1>8, ExclusiveFrame DEF GetStale, NoteIf, row, provider, locals
<1>9. ASSUME NEW p \in Procs, GetUnusable(p) PROVE ExclusiveUntilExpiry'
  BY <1>9, ExclusiveFrame DEF GetUnusable, NoteIf, row, provider, locals
<1>10. ASSUME NEW p \in Procs, UpstreamGrants(p) PROVE ExclusiveUntilExpiry'
  BY <1>10, ExclusiveFrame DEF UpstreamGrants, row, provider, locals
<1>11. ASSUME NEW p \in Procs, UpstreamRefuses(p) PROVE ExclusiveUntilExpiry'
  BY <1>11, ExclusiveFrame DEF UpstreamRefuses, row, provider, locals
<1>12. ASSUME NEW p \in Procs, Receive(p) PROVE ExclusiveUntilExpiry'
  BY <1>12, ExclusiveFrame DEF Receive, row, provider, locals
<1>13. ASSUME NEW p \in Procs, ReceiveRefusal(p) PROVE ExclusiveUntilExpiry'
  BY <1>13, ExclusiveFrame DEF ReceiveRefusal, Proceed, row, provider, locals
<1>14. ASSUME NEW p \in Procs, CallFails(p) PROVE ExclusiveUntilExpiry'
  BY <1>14, ExclusiveFrame DEF CallFails, Proceed, Abandon, NoteIf, row, provider, locals
<1>15. ASSUME NEW p \in Procs, CallFailsMarked(p) PROVE ExclusiveUntilExpiry'
  BY <1>15, ExclusiveFrame DEF CallFailsMarked, Proceed, NoteIf, row, provider, locals
<1>16. ASSUME NEW p \in Procs, StoreTokens(p) PROVE ExclusiveUntilExpiry'
  BY <1>16, ExclusiveFrame DEF StoreTokens, Reload, Proceed, row, provider, locals
<1>17. ASSUME NEW p \in Procs, StoreTokensNoAccount(p) PROVE ExclusiveUntilExpiry'
  BY <1>17, ExclusiveFrame DEF StoreTokensNoAccount, Proceed, row, provider, locals
<1>18. ASSUME NEW p \in Procs, StoreFails(p) PROVE ExclusiveUntilExpiry'
  BY <1>18, ExclusiveFrame DEF StoreFails, Proceed, NoteIf, row, provider, locals
<1>19. ASSUME NEW p \in Procs, MarkError(p) PROVE ExclusiveUntilExpiry'
  BY <1>19, ExclusiveFrame DEF MarkError, Reload, Proceed, row, provider, locals
<1>20. ASSUME NEW p \in Procs, MarkErrorNoAccount(p) PROVE ExclusiveUntilExpiry'
  BY <1>20, ExclusiveFrame DEF MarkErrorNoAccount, Proceed, row, provider, locals
<1>21. ASSUME NEW p \in Procs, TokensPersisted(p) PROVE ExclusiveUntilExpiry'
  BY <1>21, ExclusiveFrame DEF TokensPersisted, SaveAccount, Unlock, Proceed, row, provider, locals
<1>22. ASSUME NEW p \in Procs, ErrorPersisted(p) PROVE ExclusiveUntilExpiry'
  BY <1>22, ExclusiveFrame DEF ErrorPersisted, WriteBack, SaveAccount, Unlock, Proceed, row, provider, locals
<1>23. ASSUME NEW p \in Procs, PersistFails(p) PROVE ExclusiveUntilExpiry'
  BY <1>23, ExclusiveFrame DEF PersistFails, Unlock, Proceed, NoteIf, row, provider, locals
<1>24. ASSUME NEW p \in Procs, ReleaseRefreshLock(p) PROVE ExclusiveUntilExpiry'
  <2>1. /\ now' = now /\ (lock.id \notin {p} => lock' = lock)
        /\ \A q \in {p} \intersect Procs : pc'[q] = "idle"
        /\ \A q \in Procs \ {p} : pc'[q] = pc[q] /\ due'[q] = due[q]
    BY <1>24 DEF ReleaseRefreshLock, Leave, row, provider, locals
  <2> QED BY <2>1, ExclusiveLeave
<1>25. ASSUME NEW p \in Procs, ReleaseFails(p) PROVE ExclusiveUntilExpiry'
  <2>1. /\ now' = now /\ (lock.id \notin {p} => lock' = lock)
        /\ \A q \in {p} \intersect Procs : pc'[q] = "idle"
        /\ \A q \in Procs \ {p} : pc'[q] = pc[q] /\ due'[q] = due[q]
    BY <1>25 DEF ReleaseFails, Leave, Orphan, row, provider, locals
  <2> QED BY <2>1, ExclusiveLeave
<1>26. ASSUME NEW t \in stray, StrayRotates(t) PROVE ExclusiveUntilExpiry'
  BY <1>26, ExclusiveFrame DEF StrayRotates, NoteIf, row, provider, locals
<1>27. ASSUME NEW h \in Hosts, Exchange(h) PROVE ExclusiveUntilExpiry'
  BY <1>27, ExclusiveFrame DEF Exchange, NoteIf, row, provider, locals
<1>28. ASSUME NEW h \in Hosts, ExchangeKeeps(h) PROVE ExclusiveUntilExpiry'
  BY <1>28, ExclusiveFrame DEF ExchangeKeeps, row, provider, locals
<1>29. ASSUME NEW h \in Hosts, LoginReloads(h) PROVE ExclusiveUntilExpiry'
  BY <1>29, ExclusiveFrame DEF LoginReloads, Reload, row, provider, locals
<1>30. ASSUME NEW h \in Hosts, PoolReloads(h) PROVE ExclusiveUntilExpiry'
  BY <1>30, ExclusiveFrame DEF PoolReloads, Reload, row, provider, locals
<1>31. ASSUME NEW h \in Hosts, Delete(h) PROVE ExclusiveUntilExpiry'
  BY <1>31, ExclusiveFrame DEF Delete, row, provider, locals
<1>32. ASSUME NEW h \in Hosts, LoginStores(h) PROVE ExclusiveUntilExpiry'
  BY <1>32, ExclusiveFrame DEF LoginStores, SaveAccount, Unlock, NoteIf, row, provider, locals
<1>33. ASSUME NEW h \in Hosts, LoginUnstored(h) PROVE ExclusiveUntilExpiry'
  BY <1>33, ExclusiveFrame DEF LoginUnstored, Unlock, NoteIf, row, provider, locals
<1>34. ASSUME NEW h \in Hosts, PoolLeaves(h) PROVE ExclusiveUntilExpiry'
  BY <1>34, ExclusiveFrame DEF PoolLeaves, Unlock, row, provider, locals
<1>35. ASSUME NEW h \in Hosts, LoginFails(h) PROVE ExclusiveUntilExpiry'
  BY <1>35, ExclusiveFrame DEF LoginFails, NoteIf, row, provider, locals
<1>36. ASSUME NEW h \in Hosts, NEW s \in {"active", copy[h].status}, SetStatus(h, s)
       PROVE  ExclusiveUntilExpiry'
  BY <1>36, ExclusiveFrame DEF SetStatus, WriteBack, SaveAccount, Unlock, row, provider, locals
<1>37. ASSUME NEW h \in Hosts, Crash(h) PROVE ExclusiveUntilExpiry'
  <2>1. /\ now' = now /\ (lock.id \notin On(h) => lock' = lock)
        /\ \A q \in On(h) \intersect Procs : pc'[q] = "idle"
        /\ \A q \in Procs \ On(h) : pc'[q] = pc[q] /\ due'[q] = due[q]
    BY <1>37 DEF Crash, Orphan
  <2> QED BY <2>1, ExclusiveLeave
<1>38. CASE Purge
  <2>1. \A q \in Procs : ~InLease(q)
    <3>1. lock.exp \in Int /\ Unix(now) \in Int
      BY UnixNat
    <3> QED BY <1>38, <3>1 DEF Purge, ExclusiveUntilExpiry, InLease
  <2>2. \A q \in Procs : InLease(q)' = InLease(q)
    BY <1>38 DEF Purge, InLease, Unix, locals
  <2> QED BY <2>1, <2>2 DEF ExclusiveUntilExpiry
<1>39. CASE Tick
  <2>1. Unix(now) \in Int /\ Unix(now + 1) \in Int /\ Unix(now) <= Unix(now + 1)
    BY UnixNat, UnixMonotone
  <2>2. Unix(now)' = Unix(now + 1) /\ UNCHANGED <<pc, due, lock>>
    BY <1>39 DEF Tick, Unix, locals
  <2>3. \A q \in Procs : InLease(q)' => InLease(q)
    BY <2>1, <2>2 DEF InLease
  <2> QED BY <2>2, <2>3 DEF ExclusiveUntilExpiry
<1> HIDE DEF TypeOK
<1> QED
  BY <1>1, <1>2, <1>3, <1>4, <1>5, <1>6, <1>7, <1>8, <1>9, <1>10, <1>11,
     <1>12, <1>13, <1>14, <1>15, <1>16, <1>17, <1>18, <1>19, <1>20,
     <1>21, <1>22, <1>23, <1>24, <1>25, <1>26, <1>27, <1>28, <1>29,
     <1>30, <1>31, <1>32, <1>33, <1>34, <1>35, <1>36, <1>37, <1>38,
     <1>39,
     WritersAreHosts
  DEF Next, refresh, holder, Begins

-----------------------------------------------------------------------------
\* Every step keeps the chain of refresh tokens intact.
LEMMA ChainStep ==
  ASSUME TypeOK, TypeOK', Shape, Mutex, Known, Chain, [Next]_vars
  PROVE  Chain'
<1> USE RefreshAssumption
    DEF TypeOK, Shape, Mutex, Known, Chain, Calm, Lone, Clean, Apart, Good, Unstored,
        SigningIn, NewRefreshToken
<1>1. CASE UNCHANGED vars
  BY <1>1 DEF vars, row, provider, locals
<1>2. ASSUME NEW p \in Procs, Start(p) PROVE Chain'
  BY <1>2 DEF Start, row, provider, locals
<1>3. ASSUME NEW p \in Procs, AcquireRefreshLock(p) PROVE Chain'
  BY <1>3 DEF AcquireRefreshLock, NoteIf, row, provider, locals
<1>4. ASSUME NEW p \in Procs, AcquireRefused(p) PROVE Chain'
  BY <1>4 DEF AcquireRefused, row, provider, locals
<1>5. ASSUME NEW p \in Procs, GiveUp(p) PROVE Chain'
  BY <1>5 DEF GiveUp, Leave, row, provider, locals
<1>6. ASSUME NEW p \in Procs, Get(p) PROVE Chain'
  BY <1>6 DEF Get, NoteIf, row, provider, locals
<1>7. ASSUME NEW p \in Procs, GetNoAccount(p) PROVE Chain'
  BY <1>7 DEF GetNoAccount, Proceed, row, provider, locals
<1>8. ASSUME NEW p \in Procs, GetStale(p) PROVE Chain'
  BY <1>8 DEF GetStale, NoteIf, row, provider, locals
<1>9. ASSUME NEW p \in Procs, GetUnusable(p) PROVE Chain'
  BY <1>9 DEF GetUnusable, NoteIf, row, provider, locals
<1>10. ASSUME NEW p \in Procs, UpstreamGrants(p) PROVE Chain'
  <2>1. CASE RotateUpstream(snap[p]) /\ answer' = [answer EXCEPT ![p] = Granted(issued')]
    BY <1>10, <2>1 DEF UpstreamGrants, row, provider, locals, RotateUpstream
  <2>2. CASE answer' = [answer EXCEPT ![p] = Granted(0)] /\ UNCHANGED <<issued, valid>>
    BY <1>10, <2>2 DEF UpstreamGrants, row, provider, locals
  <2> QED BY <1>10, <2>1, <2>2 DEF UpstreamGrants
<1>11. ASSUME NEW p \in Procs, UpstreamRefuses(p) PROVE Chain'
  BY <1>11 DEF UpstreamRefuses, row, provider, locals
<1>12. ASSUME NEW p \in Procs, Receive(p) PROVE Chain'
  BY <1>12 DEF Receive, row, provider, locals
<1>13. ASSUME NEW p \in Procs, ReceiveRefusal(p) PROVE Chain'
  BY <1>13 DEF ReceiveRefusal, Proceed, row, provider, locals
<1>14. ASSUME NEW p \in Procs, CallFails(p) PROVE Chain'
  BY <1>14 DEF CallFails, Proceed, Abandon, NoteIf, row, provider, locals
<1>15. ASSUME NEW p \in Procs, CallFailsMarked(p) PROVE Chain'
  BY <1>15 DEF CallFailsMarked, Proceed, NoteIf, row, provider, locals
<1>16. ASSUME NEW p \in Procs, StoreTokens(p) PROVE Chain'
  BY <1>16 DEF StoreTokens, Reload, Proceed, row, provider, locals
<1>17. ASSUME NEW p \in Procs, StoreTokensNoAccount(p) PROVE Chain'
  BY <1>17 DEF StoreTokensNoAccount, Proceed, row, provider, locals
<1>18. ASSUME NEW p \in Procs, StoreFails(p) PROVE Chain'
  BY <1>18 DEF StoreFails, Proceed, NoteIf, row, provider, locals
<1>19. ASSUME NEW p \in Procs, MarkError(p) PROVE Chain'
  BY <1>19 DEF MarkError, Reload, Proceed, row, provider, locals
<1>20. ASSUME NEW p \in Procs, MarkErrorNoAccount(p) PROVE Chain'
  BY <1>20 DEF MarkErrorNoAccount, Proceed, row, provider, locals
<1>21. ASSUME NEW p \in Procs, TokensPersisted(p) PROVE Chain'
  BY <1>21 DEF TokensPersisted, SaveAccount, Unlock, Proceed, row, provider, locals
<1>22. ASSUME NEW p \in Procs, ErrorPersisted(p) PROVE Chain'
  BY <1>22 DEF ErrorPersisted, WriteBack, SaveAccount, Unlock, Proceed, row, provider, locals, Stale
<1>23. ASSUME NEW p \in Procs, PersistFails(p) PROVE Chain'
  BY <1>23 DEF PersistFails, Unlock, Proceed, NoteIf, row, provider, locals
<1>24. ASSUME NEW p \in Procs, ReleaseRefreshLock(p) PROVE Chain'
  BY <1>24 DEF ReleaseRefreshLock, Leave, row, provider, locals
<1>25. ASSUME NEW p \in Procs, ReleaseFails(p) PROVE Chain'
  BY <1>25 DEF ReleaseFails, Leave, Orphan, row, provider, locals
<1>26. ASSUME NEW t \in stray, StrayRotates(t) PROVE Chain'
  BY <1>26 DEF StrayRotates, NoteIf, row, provider, locals, RotateUpstream
<1>27. ASSUME NEW h \in Hosts, Exchange(h) PROVE Chain'
  BY <1>27 DEF Exchange, NoteIf, row, provider, locals
<1>28. ASSUME NEW h \in Hosts, ExchangeKeeps(h) PROVE Chain'
  BY <1>28 DEF ExchangeKeeps, row, provider, locals
<1>29. ASSUME NEW h \in Hosts, LoginReloads(h) PROVE Chain'
  BY <1>29 DEF LoginReloads, Reload, row, provider, locals
<1>30. ASSUME NEW h \in Hosts, PoolReloads(h) PROVE Chain'
  BY <1>30 DEF PoolReloads, Reload, row, provider, locals
<1>31. ASSUME NEW h \in Hosts, Delete(h) PROVE Chain'
  BY <1>31 DEF Delete, row, provider, locals
<1>32. ASSUME NEW h \in Hosts, LoginStores(h) PROVE Chain'
  BY <1>32 DEF LoginStores, SaveAccount, Unlock, NoteIf, row, provider, locals
<1>33. ASSUME NEW h \in Hosts, LoginUnstored(h) PROVE Chain'
  BY <1>33 DEF LoginUnstored, Unlock, NoteIf, row, provider, locals, LoginVoids
<1>34. ASSUME NEW h \in Hosts, PoolLeaves(h) PROVE Chain'
  BY <1>34 DEF PoolLeaves, Unlock, row, provider, locals
<1>35. ASSUME NEW h \in Hosts, LoginFails(h) PROVE Chain'
  BY <1>35 DEF LoginFails, NoteIf, row, provider, locals, LoginVoids
<1>36. ASSUME NEW h \in Hosts, NEW s \in {"active", copy[h].status}, SetStatus(h, s)
       PROVE  Chain'
  BY <1>36 DEF SetStatus, WriteBack, SaveAccount, Unlock, row, provider, locals, Stale
<1>37. ASSUME NEW h \in Hosts, Crash(h) PROVE Chain'
  BY <1>37 DEF Crash, On, Orphan, Unlock, NoteIf, row, provider, locals, LoginVoids
<1>38. CASE Purge
  BY <1>38 DEF Purge, row, provider, locals
<1>39. CASE Tick
  BY <1>39 DEF Tick, row, provider, locals
<1> HIDE DEF TypeOK, Shape, Mutex, Known, Chain, Calm
<1> QED
  BY <1>1, <1>2, <1>3, <1>4, <1>5, <1>6, <1>7, <1>8, <1>9, <1>10, <1>11,
     <1>12, <1>13, <1>14, <1>15, <1>16, <1>17, <1>18, <1>19, <1>20,
     <1>21, <1>22, <1>23, <1>24, <1>25, <1>26, <1>27, <1>28, <1>29,
     <1>30, <1>31, <1>32, <1>33, <1>34, <1>35, <1>36, <1>37, <1>38,
     <1>39,
     WritersAreHosts
  DEF Next, refresh, holder, Begins

-----------------------------------------------------------------------------
\* There is one broker process.
OneProcess == \A g, h \in Hosts : g = h

\* What a process has reloaded and leaves as it is, is what the row says.
Fresh ==
  /\ restored = "no"
  /\ \A h \in Hosts : copy[h].op = "pool" => ~Stale(h)
  /\ \A p \in Procs : pc[p] = "marking" => ~Stale(HostOf[p])

\* One process never writes back a row that has changed since its reload.
LEMMA FreshStep ==
  ASSUME TypeOK, Mutex, OneProcess, Fresh, [Next]_vars
  PROVE  Fresh'
<1> USE RefreshAssumption DEF TypeOK, Mutex, OneProcess, Fresh, Stale
<1>1. CASE UNCHANGED vars
  BY <1>1 DEF vars, row, provider, locals
<1>2. ASSUME NEW p \in Procs, Start(p) PROVE Fresh'
  BY <1>2 DEF Start, row, provider, locals
<1>3. ASSUME NEW p \in Procs, AcquireRefreshLock(p) PROVE Fresh'
  BY <1>3 DEF AcquireRefreshLock, NoteIf, row, provider, locals
<1>4. ASSUME NEW p \in Procs, AcquireRefused(p) PROVE Fresh'
  BY <1>4 DEF AcquireRefused, row, provider, locals
<1>5. ASSUME NEW p \in Procs, GiveUp(p) PROVE Fresh'
  BY <1>5 DEF GiveUp, Leave, row, provider, locals
<1>6. ASSUME NEW p \in Procs, Get(p) PROVE Fresh'
  BY <1>6 DEF Get, NoteIf, row, provider, locals
<1>7. ASSUME NEW p \in Procs, GetNoAccount(p) PROVE Fresh'
  BY <1>7 DEF GetNoAccount, Proceed, row, provider, locals
<1>8. ASSUME NEW p \in Procs, GetStale(p) PROVE Fresh'
  BY <1>8 DEF GetStale, NoteIf, row, provider, locals
<1>9. ASSUME NEW p \in Procs, GetUnusable(p) PROVE Fresh'
  BY <1>9 DEF GetUnusable, NoteIf, row, provider, locals
<1>10. ASSUME NEW p \in Procs, UpstreamGrants(p) PROVE Fresh'
  BY <1>10 DEF UpstreamGrants, row, provider, locals
<1>11. ASSUME NEW p \in Procs, UpstreamRefuses(p) PROVE Fresh'
  BY <1>11 DEF UpstreamRefuses, row, provider, locals
<1>12. ASSUME NEW p \in Procs, Receive(p) PROVE Fresh'
  BY <1>12 DEF Receive, row, provider, locals
<1>13. ASSUME NEW p \in Procs, ReceiveRefusal(p) PROVE Fresh'
  BY <1>13 DEF ReceiveRefusal, Proceed, row, provider, locals
<1>14. ASSUME NEW p \in Procs, CallFails(p) PROVE Fresh'
  BY <1>14 DEF CallFails, Proceed, Abandon, NoteIf, row, provider, locals
<1>15. ASSUME NEW p \in Procs, CallFailsMarked(p) PROVE Fresh'
  BY <1>15 DEF CallFailsMarked, Proceed, NoteIf, row, provider, locals
<1>16. ASSUME NEW p \in Procs, StoreTokens(p) PROVE Fresh'
  BY <1>16 DEF StoreTokens, Reload, Proceed, row, provider, locals
<1>17. ASSUME NEW p \in Procs, StoreTokensNoAccount(p) PROVE Fresh'
  BY <1>17 DEF StoreTokensNoAccount, Proceed, row, provider, locals
<1>18. ASSUME NEW p \in Procs, StoreFails(p) PROVE Fresh'
  BY <1>18 DEF StoreFails, Proceed, NoteIf, row, provider, locals
<1>19. ASSUME NEW p \in Procs, MarkError(p) PROVE Fresh'
  BY <1>19 DEF MarkError, Reload, Proceed, row, provider, locals
<1>20. ASSUME NEW p \in Procs, MarkErrorNoAccount(p) PROVE Fresh'
  BY <1>20 DEF MarkErrorNoAccount, Proceed, row, provider, locals
<1>21. ASSUME NEW p \in Procs, TokensPersisted(p) PROVE Fresh'
  BY <1>21 DEF TokensPersisted, SaveAccount, Unlock, Proceed, row, provider, locals
<1>22. ASSUME NEW p \in Procs, ErrorPersisted(p) PROVE Fresh'
  BY <1>22 DEF ErrorPersisted, WriteBack, SaveAccount, Unlock, Proceed, row, provider, locals
<1>23. ASSUME NEW p \in Procs, PersistFails(p) PROVE Fresh'
  BY <1>23 DEF PersistFails, Unlock, Proceed, NoteIf, row, provider, locals
<1>24. ASSUME NEW p \in Procs, ReleaseRefreshLock(p) PROVE Fresh'
  BY <1>24 DEF ReleaseRefreshLock, Leave, row, provider, locals
<1>25. ASSUME NEW p \in Procs, ReleaseFails(p) PROVE Fresh'
  BY <1>25 DEF ReleaseFails, Leave, Orphan, row, provider, locals
<1>26. ASSUME NEW t \in stray, StrayRotates(t) PROVE Fresh'
  BY <1>26 DEF StrayRotates, NoteIf, row, provider, locals
<1>27. ASSUME NEW h \in Hosts, Exchange(h) PROVE Fresh'
  BY <1>27 DEF Exchange, NoteIf, row, provider, locals
<1>28. ASSUME NEW h \in Hosts, ExchangeKeeps(h) PROVE Fresh'
  BY <1>28 DEF ExchangeKeeps, row, provider, locals
<1>29. ASSUME NEW h \in Hosts, LoginReloads(h) PROVE Fresh'
  BY <1>29 DEF LoginReloads, Reload, row, provider, locals
<1>30. ASSUME NEW h \in Hosts, PoolReloads(h) PROVE Fresh'
  BY <1>30 DEF PoolReloads, Reload, row, provider, locals
<1>31. ASSUME NEW h \in Hosts, Delete(h) PROVE Fresh'
  BY <1>31 DEF Delete, row, provider, locals
<1>32. ASSUME NEW h \in Hosts, LoginStores(h) PROVE Fresh'
  BY <1>32 DEF LoginStores, SaveAccount, Unlock, NoteIf, row, provider, locals
<1>33. ASSUME NEW h \in Hosts, LoginUnstored(h) PROVE Fresh'
  BY <1>33 DEF LoginUnstored, Unlock, NoteIf, row, provider, locals
<1>34. ASSUME NEW h \in Hosts, PoolLeaves(h) PROVE Fresh'
  BY <1>34 DEF PoolLeaves, Unlock, row, provider, locals
<1>35. ASSUME NEW h \in Hosts, LoginFails(h) PROVE Fresh'
  BY <1>35 DEF LoginFails, NoteIf, row, provider, locals
<1>36. ASSUME NEW h \in Hosts, NEW s \in {"active", copy[h].status}, SetStatus(h, s)
       PROVE  Fresh'
  BY <1>36 DEF SetStatus, WriteBack, SaveAccount, Unlock, row, provider, locals
<1>37. ASSUME NEW h \in Hosts, Crash(h) PROVE Fresh'
  BY <1>37 DEF Crash, On, Orphan, Unlock, NoteIf, row, provider, locals
<1>38. CASE Purge
  BY <1>38 DEF Purge, row, provider, locals
<1>39. CASE Tick
  BY <1>39 DEF Tick, row, provider, locals
<1> HIDE DEF TypeOK, Mutex, OneProcess, Fresh, Stale
<1> QED
  BY <1>1, <1>2, <1>3, <1>4, <1>5, <1>6, <1>7, <1>8, <1>9, <1>10, <1>11,
     <1>12, <1>13, <1>14, <1>15, <1>16, <1>17, <1>18, <1>19, <1>20,
     <1>21, <1>22, <1>23, <1>24, <1>25, <1>26, <1>27, <1>28, <1>29,
     <1>30, <1>31, <1>32, <1>33, <1>34, <1>35, <1>36, <1>37, <1>38,
     <1>39,
     WritersAreHosts
  DEF Next, refresh, holder, Begins

-----------------------------------------------------------------------------
\* The state stays well typed, and the mutexes do what they should.
THEOREM TypeCorrect == Spec => [](TypeOK /\ Shape /\ Mutex /\ Known)
<1>1. Init => TypeOK /\ Shape /\ Mutex /\ Known
  BY InitInv
<1>2. TypeOK /\ Shape /\ Mutex /\ Known /\ [Next]_vars
        => (TypeOK /\ Shape /\ Mutex /\ Known)'
  BY TypeStep, MutexStep, KnownStep
<1> QED BY <1>1, <1>2, PTL DEF Spec

\* The refresh lock is exclusive until it expires, for any number of
\* processes, any crashes and any delays.
THEOREM LockExclusive == Spec => []ExclusiveUntilExpiry
<1>1. Init => ExclusiveUntilExpiry
  BY InitInv
<1>2. TypeOK /\ ExclusiveUntilExpiry /\ [Next]_vars => ExclusiveUntilExpiry'
  BY ExclusiveStep
<1> QED BY <1>1, <1>2, TypeCorrect, PTL DEF Spec

\* What the lock protects is protected in every reachable state.
LEMMA ChainHolds == Spec => []Chain
<1>1. Init => Chain
  BY InitInv
<1>2. TypeOK /\ TypeOK' /\ Shape /\ Mutex /\ Known /\ Chain /\ [Next]_vars => Chain'
  BY ChainStep
<1> QED BY <1>1, <1>2, TypeCorrect, PTL DEF Spec

\* Refreshing never loses the account: unless one of the named mishaps
\* happened, or another process wrote an outdated row back, the stored
\* refresh token is one the provider accepts.
THEOREM TokensSafe == Spec => []StoredTokenUsable
<1>1. Chain => StoredTokenUsable
  BY DEF Chain, Good, StoredTokenUsable
<1> QED BY <1>1, ChainHolds, PTL

\* Under the same conditions no refresh puts the account in error.
THEOREM NoErrorByRace == Spec => []NoSpuriousError
<1>1. Chain => NoSpuriousError
  BY DEF Chain, Clean, NoSpuriousError
<1> QED BY <1>1, ChainHolds, PTL

\* Where one process runs alone, its mutex rules the outdated write out:
\* whatever it observes, marks, administers or refreshes at the same time, it
\* never writes back a row that has changed since it was reloaded.
THEOREM OneProcessRestoresNothing == Spec => [](OneProcess => restored = "no")
<1>1. Init => (OneProcess => Fresh)
  BY RefreshAssumption DEF Init, Fresh
<1>2. TypeOK /\ Mutex /\ (OneProcess => Fresh) /\ [Next]_vars
        => (OneProcess => Fresh)'
  BY FreshStep DEF OneProcess
<1>3. (OneProcess => Fresh) => (OneProcess => restored = "no")
  BY DEF Fresh
<1> QED BY <1>1, <1>2, <1>3, TypeCorrect, PTL DEF Spec
=============================================================================
