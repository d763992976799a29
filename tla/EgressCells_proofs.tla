------------------------- MODULE EgressCells_proofs -------------------------
(***************************************************************************)
(* Proofs about EgressCells and CellWatchdog, for any number of cells,     *)
(* accounts, sessions and overlapping requests.                            *)
(***************************************************************************)
EXTENDS CellWatchdog, TLAPS

CellNames == Cells \cup {""}
SessionNames == OAuthSessions \cup {""}

\* What a handler may be working on, by the request and how far it is.
SaveOps == [at : {"save"}, cell : Cells, row : CellRows]
BindOps == [at : {"cell", "owners", "write"}, for : {"bind"}, subject : Subjects,
            cell : CellNames, was : CellNames, free : {TRUE}]
RouteOps == [at : {"route", "exchange"}, for : {"login"}, session : SessionNames,
             cell : CellNames]
FindOps == [at : {"find"}, for : {"login"}, session : SessionNames, cell : CellNames,
            subject : Subjects, seen : Nat, free : {TRUE}, refresh : Nat]
LoginOps == [at : {"cell", "owners", "upsert", "add", "store", "write", "close"},
             for : {"login"}, session : SessionNames, cell : CellNames, subject : Subjects,
             was : CellNames, seen : Nat, free : {TRUE}, refresh : Nat]
Ops == {Idle} \cup SaveOps \cup BindOps \cup RouteOps \cup FindOps \cup LoginOps

AcctRows == [cell : CellNames, refresh : Nat] \cup {NoAcct}

\* The types of the state.  "free" is never false: CheckOwners asks for what Exclusive says.
CellsTyped ==
  /\ cellNow \in 0 .. MaxCellNow
  /\ cells \in [Cells -> CellRows \cup {NoCell}]
  /\ accts \in [Subjects -> AcctRows]
  /\ issued \in [Subjects -> Nat]
  /\ known \in [Subjects -> Nat]
  /\ writes \in [Subjects -> Nat]
  /\ op \in [Handlers -> Ops]
  /\ excused \subseteq Subjects /\ overtaken \subseteq Subjects

\* The clock's bound is a number.
LEMMA ClockBound == MaxCellNow \in Nat
BY CellsAssumption, Zenon

\* An account that exists is not NoAcct.
LEMMA AcctExists ==
  \A r \in [cell : CellNames, refresh : Nat] : r # NoAcct
<1>1. NoAcct.cell = "absent" /\ "absent" \notin CellNames
  BY CellsAssumption DEF NoAcct, CellNames
<1> QED
  BY <1>1

\* Where a handler is tells what it works on.
LEMMA OpStages ==
  ASSUME NEW o \in Ops
  PROVE  /\ o.at = "save" => o \in SaveOps
         /\ o.at \in {"route", "exchange"} => o \in RouteOps
         /\ o.at = "find" => o \in FindOps
         /\ o.at \in {"upsert", "add", "store", "close"} => o \in LoginOps
         /\ o.at \in {"cell", "owners", "write"} => o \in BindOps \cup LoginOps
<1>1. CASE o = Idle
  BY <1>1 DEF Idle
<1>2. CASE o \in SaveOps
  BY <1>2 DEF SaveOps
<1>3. CASE o \in BindOps
  BY <1>3 DEF BindOps
<1>4. CASE o \in RouteOps
  BY <1>4 DEF RouteOps
<1>5. CASE o \in FindOps
  BY <1>5 DEF FindOps
<1>6. CASE o \in LoginOps
  BY <1>6 DEF LoginOps
<1> QED
  BY <1>1, <1>2, <1>3, <1>4, <1>5, <1>6 DEF Ops

\* Moving on within an operation.
LEMMA OpMoves ==
  /\ \A o \in BindOps, x \in {"cell", "owners", "write"} : [o EXCEPT !.at = x] \in BindOps
  /\ \A o \in RouteOps, x \in {"route", "exchange"} : [o EXCEPT !.at = x] \in RouteOps
  /\ \A o \in LoginOps, x \in {"cell", "owners", "upsert", "add", "store", "write", "close"} :
       [o EXCEPT !.at = x] \in LoginOps
  /\ \A o \in LoginOps, x \in {"add", "store"}, n \in Nat :
       [o EXCEPT !.at = x, !.refresh = n] \in LoginOps
BY DEF BindOps, RouteOps, LoginOps

\* The check that CheckOwners makes is the one that makes a binding exclusive.
LEMMA FreeIsExclusive ==
  ASSUME NEW s, NEW c, ~accountOwnsCell(s, c) PROVE Exclusive(s, c) = TRUE
BY DEF accountOwnsCell, Exclusive

\* A handler ends, goes on or takes up an operation.
LEMMA OpTyped ==
  ASSUME CellsTyped, NEW h \in Handlers
  PROVE  /\ op[h] \in Ops
         /\ Done(h) => op' \in [Handlers -> Ops]
         /\ \A o \in Ops : op' = [op EXCEPT ![h] = o] => op' \in [Handlers -> Ops]
         /\ \A x : Goto(h, x) /\ [op[h] EXCEPT !.at = x] \in Ops => op' \in [Handlers -> Ops]
BY DEF CellsTyped, Done, Goto, Ops

\* Storing tokens keeps the types of the histories.
LEMMA StoredTyped ==
  ASSUME CellsTyped, NEW o, o.subject \in Subjects, o.refresh \in Nat, Stored(o)
  PROVE  /\ known' \in [Subjects -> Nat] /\ writes' \in [Subjects -> Nat]
         /\ overtaken' \subseteq Subjects
<1>1. known' \in [Subjects -> Nat]
  BY DEF Stored, CellsTyped
<1>2. writes' \in [Subjects -> Nat]
  BY DEF Stored, CellsTyped
<1> QED
  BY <1>1, <1>2 DEF Stored, CellsTyped

\* The steps of a handler keep the types.
LEMMA HandlerTyped ==
  ASSUME CellsTyped, NEW h \in Handlers,
         \/ UpsertRead(h) \/ SaveCell(h)
         \/ handleBindAccountCell(h) \/ CheckCell(h) \/ CheckOwners(h) \/ Update(h)
         \/ handleExchangeCode(h) \/ oauthClientForRoute(h) \/ ExchangeCode(h)
         \/ FindBySubject(h) \/ upsertExchangedAccount(h) \/ StoreTokens(h) \/ Add(h)
         \/ DelOAuthSession(h)
  PROVE  CellsTyped'
<1> USE DEF histVars
<1>0. op[h] \in Ops
  BY OpTyped
<1>1. CASE UpsertRead(h)
  <2>1. PICK c \in Cells, status \in {"active", "disabled"}, proxy \in {"socks5", "http", "none"} :
          op' = [op EXCEPT ![h] =
            [at |-> "save", cell |-> c,
             row |-> [status |-> status, proxy |-> proxy,
                      until |-> IF cells[c] = NoCell THEN 0 ELSE cells[c].until]]]
    BY <1>1 DEF UpsertRead
  <2>2. (IF cells[c] = NoCell THEN 0 ELSE cells[c].until) \in 0 .. MaxCellNow + 1
    <3>1. cells[c] \in CellRows \/ cells[c] = NoCell
      BY DEF CellsTyped
    <3>2. \A r \in CellRows : r.until \in 0 .. MaxCellNow + 1
      BY DEF CellRows
    <3>3. 0 \in 0 .. MaxCellNow + 1
      BY ClockBound
    <3> QED
      BY <3>1, <3>2, <3>3
  <2>3. [at |-> "save", cell |-> c,
         row |-> [status |-> status, proxy |-> proxy,
                  until |-> IF cells[c] = NoCell THEN 0 ELSE cells[c].until]] \in Ops
    BY <2>2 DEF Ops, SaveOps, CellRows
  <2>4. op' \in [Handlers -> Ops]
    BY <2>1, <2>3, OpTyped
  <2> QED
    BY <1>1, <2>4 DEF UpsertRead, CellsTyped
<1>2. CASE SaveCell(h)
  <2>1. op[h] \in SaveOps
    BY <1>0, <1>2, OpStages DEF SaveCell
  <2>2. op' \in [Handlers -> Ops]
    BY <1>2, OpTyped DEF SaveCell
  <2>3. cells' \in [Cells -> CellRows \cup {NoCell}]
    BY <1>2, <2>1 DEF SaveCell, SaveOps, CellsTyped
  <2> QED
    BY <1>2, <2>2, <2>3 DEF SaveCell, CellsTyped, Holders
<1>3. CASE handleBindAccountCell(h)
  <2>1. PICK s \in Subjects, c \in CellNames :
          /\ accts[s] # NoAcct
          /\ op' = [op EXCEPT ![h] =
               [at |-> IF c = "" THEN "write" ELSE "cell", for |-> "bind", subject |-> s,
                cell |-> c, was |-> accts[s].cell, free |-> TRUE]]
    BY <1>3 DEF handleBindAccountCell, CellNames
  <2>2. accts[s].cell \in CellNames
    BY <2>1 DEF CellsTyped, AcctRows
  <2>3. [at |-> IF c = "" THEN "write" ELSE "cell", for |-> "bind", subject |-> s,
         cell |-> c, was |-> accts[s].cell, free |-> TRUE] \in Ops
    BY <2>2 DEF Ops, BindOps
  <2>4. op' \in [Handlers -> Ops]
    BY <2>1, <2>3, OpTyped
  <2> QED
    BY <1>3, <2>4 DEF handleBindAccountCell, CellsTyped
<1>4. CASE CheckCell(h)
  <2>1. op[h] \in BindOps \cup LoginOps
    BY <1>0, <1>4, OpStages DEF CheckCell
  <2>2. [op[h] EXCEPT !.at = Checked(h)] \in Ops /\ [op[h] EXCEPT !.at = "owners"] \in Ops
    <3>1. CASE op[h] \in BindOps
      <4>1. Checked(h) = "write"
        BY <3>1 DEF Checked, BindOps
      <4> QED
        BY <3>1, <4>1, OpMoves DEF Ops
    <3>2. CASE op[h] \in LoginOps
      <4>1. Checked(h) = "upsert"
        BY <3>2 DEF Checked, LoginOps
      <4> QED
        BY <3>2, <4>1, OpMoves DEF Ops
    <3> QED
      BY <2>1, <3>1, <3>2
  <2>3. Done(h) \/ Goto(h, Checked(h)) \/ Goto(h, "owners")
    BY <1>4 DEF CheckCell
  <2>4. op' \in [Handlers -> Ops]
    BY <2>2, <2>3, OpTyped
  <2> QED
    BY <1>4, <2>4 DEF CheckCell, CellsTyped
<1>5. CASE CheckOwners(h)
  <2>1. op[h] \in BindOps \cup LoginOps
    BY <1>0, <1>5, OpStages DEF CheckOwners
  <2>2. CASE Done(h)
    BY <1>5, <2>2, OpTyped DEF CheckOwners, CellsTyped
  <2>3. CASE ~Done(h)
    <3>1. Exclusive(op[h].subject, op[h].cell) = TRUE
      BY <1>5, <2>3, FreeIsExclusive DEF CheckOwners
    <3>2. op' = [op EXCEPT ![h].at = Checked(h), ![h].free = TRUE]
      BY <1>5, <2>3, <3>1 DEF CheckOwners
    <3>3. [op[h] EXCEPT !.at = Checked(h), !.free = TRUE] \in Ops
      BY <2>1 DEF Ops, Checked, BindOps, LoginOps
    <3>4. op' \in [Handlers -> Ops]
      BY <3>2, <3>3 DEF CellsTyped
    <3> QED
      BY <1>5, <3>4 DEF CheckOwners, CellsTyped
  <2> QED
    BY <2>2, <2>3
<1>6. CASE Update(h)
  <2>1. op[h] \in BindOps \cup LoginOps
    BY <1>0, <1>6, OpStages DEF Update
  <2>2. op[h].subject \in Subjects /\ op[h].cell \in CellNames
    BY <2>1 DEF BindOps, LoginOps
  <2>3. op' \in [Handlers -> Ops]
    <3>1. CASE op[h].for = "login"
      <4>1. [op[h] EXCEPT !.at = "close"] \in Ops
        BY <2>1, <3>1, OpMoves DEF Ops, BindOps
      <4> QED
        BY <1>6, <3>1, <4>1, OpTyped DEF Update
    <3>2. CASE op[h].for # "login"
      BY <1>6, <3>2, OpTyped DEF Update
    <3> QED
      BY <3>1, <3>2
  <2>4. accts' \in [Subjects -> AcctRows]
    BY <1>6, <2>2 DEF Update, CellsTyped, AcctRows
  <2>5. excused' \subseteq Subjects
    BY <1>6, <2>2 DEF Update, CellsTyped, Written
  <2> QED
    BY <1>6, <2>3, <2>4, <2>5 DEF Update, CellsTyped
<1>7. CASE handleExchangeCode(h)
  <2>1. PICK x \in SessionNames, c \in CellNames :
          op' = [op EXCEPT ![h] = [at |-> "route", for |-> "login", session |-> x, cell |-> c]]
    BY <1>7 DEF handleExchangeCode, CellNames, SessionNames
  <2>2. [at |-> "route", for |-> "login", session |-> x, cell |-> c] \in Ops
    BY DEF Ops, RouteOps
  <2>3. op' \in [Handlers -> Ops]
    BY <2>1, <2>2, OpTyped
  <2> QED
    BY <1>7, <2>3 DEF handleExchangeCode, CellsTyped
<1>8. CASE oauthClientForRoute(h)
  <2>1. [op[h] EXCEPT !.at = "exchange"] \in Ops
    BY <1>0, <1>8, OpStages, OpMoves DEF oauthClientForRoute, Ops
  <2>2. Done(h) \/ Goto(h, "exchange")
    BY <1>8 DEF oauthClientForRoute
  <2>3. op' \in [Handlers -> Ops]
    BY <2>1, <2>2, OpTyped
  <2> QED
    BY <1>8, <2>3 DEF oauthClientForRoute, CellsTyped
<1>9. CASE ExchangeCode(h)
  <2>1. CASE Done(h) /\ UNCHANGED issued
    BY <1>9, <2>1, OpTyped DEF ExchangeCode, CellsTyped
  <2>2. CASE ~(Done(h) /\ UNCHANGED issued)
    <3>1. PICK s \in Subjects, withRefresh \in BOOLEAN :
          /\ issued' = IF withRefresh THEN [issued EXCEPT ![s] = @ + 1] ELSE issued
          /\ op' = [op EXCEPT ![h] =
               [at |-> "find", for |-> "login", session |-> op[h].session,
                cell |-> op[h].cell, subject |-> s, seen |-> writes[s], free |-> TRUE,
                refresh |-> IF withRefresh THEN issued'[s] ELSE 0]]
      BY <1>9, <2>2 DEF ExchangeCode
    <3>2. issued' \in [Subjects -> Nat]
      <4>1. [issued EXCEPT ![s] = @ + 1] \in [Subjects -> Nat] /\ issued \in [Subjects -> Nat]
        BY DEF CellsTyped
      <4> QED
        BY <3>1, <4>1
    <3>3. op[h] \in RouteOps
      BY <1>0, <1>9, OpStages DEF ExchangeCode
    <3>4. [at |-> "find", for |-> "login", session |-> op[h].session,
           cell |-> op[h].cell, subject |-> s, seen |-> writes[s], free |-> TRUE,
           refresh |-> IF withRefresh THEN issued'[s] ELSE 0] \in Ops
      BY <3>2, <3>3 DEF Ops, FindOps, RouteOps, CellsTyped
    <3>5. op' \in [Handlers -> Ops]
      BY <3>1, <3>4, OpTyped
    <3> QED
      BY <1>9, <3>2, <3>5 DEF ExchangeCode, CellsTyped
  <2> QED
    BY <2>1, <2>2
<1>10. CASE FindBySubject(h)
  <2> DEFINE o == op[h]
             was == IF accts[o.subject] = NoAcct THEN "" ELSE accts[o.subject].cell
             r == [at |-> IF o.cell = "" THEN "upsert" ELSE "cell", for |-> "login",
                   session |-> o.session, cell |-> o.cell, subject |-> o.subject, was |-> was,
                   seen |-> o.seen, free |-> TRUE, refresh |-> o.refresh]
  <2>1. o \in FindOps
    BY <1>0, <1>10, OpStages DEF FindBySubject
  <2>2. was \in CellNames
    BY <2>1 DEF FindOps, CellsTyped, AcctRows, CellNames
  <2>3. r \in Ops
    <3> HIDE DEF was
    <3> QED
      BY <2>1, <2>2 DEF Ops, FindOps, LoginOps
  <2>4. op' = [op EXCEPT ![h] = r]
    BY <1>10 DEF FindBySubject
  <2> HIDE DEF r
  <2>5. op' \in [Handlers -> Ops]
    BY <2>3, <2>4, OpTyped
  <2> QED
    BY <1>10, <2>5 DEF FindBySubject, CellsTyped
<1>11. CASE upsertExchangedAccount(h)
  <2> DEFINE x == IF accts[op[h].subject] = NoAcct THEN "add" ELSE "store"
             n == encryptExchangeTokens(op[h].refresh, Held(op[h].subject))
  <2>1. op[h] \in LoginOps
    BY <1>0, <1>11, OpStages DEF upsertExchangedAccount
  <2>2. n \in Nat /\ x \in {"add", "store"}
    BY <2>1 DEF LoginOps, encryptExchangeTokens, Held, CellsTyped, AcctRows
  <2>3. op' = [op EXCEPT ![h].at = x, ![h].refresh = n]
    BY <1>11 DEF upsertExchangedAccount
  <2> HIDE DEF x, n
  <2>4. [op[h] EXCEPT !.at = x, !.refresh = n] \in Ops
    BY <2>1, <2>2, OpMoves DEF Ops
  <2>5. op' \in [Handlers -> Ops]
    BY <2>3, <2>4 DEF CellsTyped
  <2> QED
    BY <1>11, <2>5 DEF upsertExchangedAccount, CellsTyped
<1>12. CASE StoreTokens(h)
  <2>1. op[h] \in LoginOps
    BY <1>0, <1>12, OpStages DEF StoreTokens
  <2>2. [op[h] EXCEPT !.at = "write"] \in Ops
    BY <2>1, OpMoves DEF Ops
  <2>3. op' \in [Handlers -> Ops]
    BY <1>12, <2>2, OpTyped DEF StoreTokens
  <2>4. CASE UNCHANGED <<accts, known, writes, overtaken>>
    BY <1>12, <2>3, <2>4 DEF StoreTokens, CellsTyped
  <2>5. CASE Stored(op[h]) /\ accts' = [accts EXCEPT ![op[h].subject].refresh = op[h].refresh]
               /\ accts[op[h].subject] # NoAcct
    <3>1. op[h].subject \in Subjects /\ op[h].refresh \in Nat
      BY <2>1 DEF LoginOps
    <3>2. accts' \in [Subjects -> AcctRows]
      BY <2>5, <3>1 DEF CellsTyped, AcctRows
    <3> QED
      BY <1>12, <2>3, <2>5, <3>1, <3>2, StoredTyped DEF StoreTokens, CellsTyped
  <2> QED
    BY <1>12, <2>4, <2>5 DEF StoreTokens
<1>13. CASE Add(h)
  <2>1. op[h] \in LoginOps
    BY <1>0, <1>13, OpStages DEF Add
  <2>2. [op[h] EXCEPT !.at = "close"] \in Ops
    BY <2>1, OpMoves DEF Ops
  <2>3. op' \in [Handlers -> Ops]
    BY <1>13, <2>2, OpTyped DEF Add
  <2>4. CASE UNCHANGED <<accts, known, writes, excused, overtaken>>
    BY <1>13, <2>3, <2>4 DEF Add, CellsTyped
  <2>5. CASE /\ accts' = [accts EXCEPT ![op[h].subject] =
                            [cell |-> op[h].cell, refresh |-> op[h].refresh]]
             /\ excused' = Written(op[h]) /\ Stored(op[h])
    <3>1. op[h].subject \in Subjects /\ op[h].refresh \in Nat /\ op[h].cell \in CellNames
      BY <2>1 DEF LoginOps
    <3>2. accts' \in [Subjects -> AcctRows]
      BY <2>5, <3>1 DEF CellsTyped, AcctRows
    <3>3. excused' \subseteq Subjects
      BY <2>5, <3>1 DEF Written, CellsTyped
    <3> QED
      BY <1>13, <2>3, <2>5, <3>1, <3>2, <3>3, StoredTyped DEF Add, CellsTyped
  <2> QED
    BY <1>13, <2>4, <2>5 DEF Add
<1>14. CASE DelOAuthSession(h)
  BY <1>14, OpTyped DEF DelOAuthSession, CellsTyped
<1> QED
  BY <1>1, <1>2, <1>3, <1>4, <1>5, <1>6, <1>7, <1>8, <1>9, <1>10, <1>11, <1>12, <1>13, <1>14

\* Every step keeps the types.
LEMMA CellsTypeStep == CellsTyped /\ [CellsNext]_cellVars => CellsTyped'
<1> SUFFICES ASSUME CellsTyped, [CellsNext]_cellVars PROVE CellsTyped'
  OBVIOUS
<1> USE DEF histVars
<1>1. CASE \E h \in Handlers :
             \/ UpsertRead(h) \/ SaveCell(h)
             \/ handleBindAccountCell(h) \/ CheckCell(h) \/ CheckOwners(h) \/ Update(h)
             \/ handleExchangeCode(h) \/ oauthClientForRoute(h) \/ ExchangeCode(h)
             \/ FindBySubject(h) \/ upsertExchangedAccount(h) \/ StoreTokens(h) \/ Add(h)
             \/ DelOAuthSession(h)
  BY <1>1, HandlerTyped
<1>2. CASE CellTick
  BY <1>2, ClockBound DEF CellTick, CellsTyped
<1>3. CASE PurgeExpiredOAuthSessions \/ \E x \in OAuthSessions : handleGenerateAuthURL(x)
  BY <1>3 DEF PurgeExpiredOAuthSessions, handleGenerateAuthURL, CellsTyped
<1>4. ASSUME NEW c \in Cells, NEW u \in 0 .. MaxCellNow + 1, cells[c] # NoCell,
             cells' = [cells EXCEPT ![c].until = u]
      PROVE  cells' \in [Cells -> CellRows \cup {NoCell}]
  <2>1. cells[c] \in CellRows
    BY <1>4 DEF CellsTyped
  <2>2. [cells[c] EXCEPT !.until = u] \in CellRows
    BY <2>1 DEF CellRows
  <2> QED
    BY <1>4, <2>2 DEF CellsTyped
<1>5. ASSUME NEW c \in Cells, ClearCellCooldown(c) PROVE CellsTyped'
  <2>1. cells' = [cells EXCEPT ![c].until = 0] /\ cells[c] # NoCell
    BY <1>5 DEF ClearCellCooldown, ClearedCell
  <2>2. 0 \in 0 .. MaxCellNow + 1
    BY ClockBound
  <2>3. cells' \in [Cells -> CellRows \cup {NoCell}]
    BY <1>4, <2>1, <2>2
  <2> QED
    BY <1>5, <2>3 DEF ClearCellCooldown, CellsTyped
<1>6. ASSUME NEW c \in Cells, NEW u \in 1 .. MaxCellNow + 1, CooldownCell(c, u) PROVE CellsTyped'
  <2>1. cells' = [cells EXCEPT ![c].until = u] /\ cells[c] # NoCell
    BY <1>6 DEF CooldownCell
  <2>2. u \in 0 .. MaxCellNow + 1
    BY ClockBound
  <2>3. cells' \in [Cells -> CellRows \cup {NoCell}]
    BY <1>4, <2>1, <2>2
  <2> QED
    BY <1>6, <2>3 DEF CooldownCell, CellsTyped
<1>7. ASSUME NEW s \in Subjects, DeleteAccount(s) PROVE CellsTyped'
  BY <1>7 DEF DeleteAccount, CellsTyped, AcctRows
<1>8. ASSUME NEW s \in Subjects, Rotate(s) PROVE CellsTyped'
  <2>1. issued' \in [Subjects -> Nat]
    BY <1>8 DEF Rotate, CellsTyped
  <2>2. known' \in [Subjects -> Nat]
    BY <1>8, <2>1 DEF Rotate, CellsTyped
  <2>3. writes' \in [Subjects -> Nat]
    BY <1>8 DEF Rotate, CellsTyped
  <2>4. accts' \in [Subjects -> AcctRows]
    BY <1>8, <2>1 DEF Rotate, CellsTyped, AcctRows
  <2> QED
    BY <1>8, <2>1, <2>2, <2>3, <2>4 DEF Rotate, CellsTyped
<1>9. CASE UNCHANGED cellVars
  BY <1>9 DEF cellVars, CellsTyped
<1> QED
  BY <1>1, <1>2, <1>3, <1>5, <1>6, <1>7, <1>8, <1>9 DEF CellsNext

\* The types hold from the start.
LEMMA CellsTypeInit == CellsInit => CellsTyped
<1> SUFFICES ASSUME CellsInit PROVE CellsTyped
  OBVIOUS
<1>1. cells \in [Cells -> CellRows \cup {NoCell}]
  <2>1. /\ [status |-> "active", proxy |-> "http", until |-> 0] \in CellRows
        /\ [status |-> "active", proxy |-> "socks5", until |-> 1] \in CellRows
    BY ClockBound DEF CellRows
  <2> QED
    BY <2>1 DEF CellsInit
<1>2. accts \in [Subjects -> AcctRows]
  <2>1. [cell |-> "", refresh |-> 1] \in AcctRows /\ NoAcct \in AcctRows
    BY DEF AcctRows, CellNames
  <2> QED
    BY <2>1 DEF CellsInit
<1>3. issued \in [Subjects -> Nat] /\ known = issued
  BY DEF CellsInit
<1>4. cellNow \in 0 .. MaxCellNow
  <2>1. cellNow = 0
    BY DEF CellsInit
  <2> QED
    BY <2>1, ClockBound
<1>6. writes \in [Subjects -> Nat]
  <2>1. writes = [s \in Subjects |-> 0]
    BY DEF CellsInit
  <2> QED
    BY <2>1
<1>5. op \in [Handlers -> Ops]
  BY DEF CellsInit, Ops
<1> QED
  BY <1>1, <1>2, <1>3, <1>4, <1>5, <1>6 DEF CellsInit, CellsTyped

\* The types hold.
LEMMA CellsTypesHold == CellsSpec => []CellsTyped
BY CellsTypeInit, CellsTypeStep, PTL DEF CellsSpec

-----------------------------------------------------------------------------
(* Sharing a cell.                                                         *)

\* The cell is one that two accounts of a provider may not share.
Guarded(c) == cells[c] # NoCell /\ cells[c].proxy # "socks5"

\* Steps that leave the bindings, and guard no cell that was not, keep the property.
LEMMA SharingStays ==
  ASSUME SharedOnlyByRace, excused \subseteq excused',
         \A s \in Subjects : \/ accts'[s] = NoAcct
                             \/ accts[s] # NoAcct /\ accts'[s].cell = accts[s].cell,
         \A c \in Cells : Guarded(c)' => Guarded(c) \/ Holders(c) \subseteq excused'
  PROVE  SharedOnlyByRace'
<1> SUFFICES ASSUME NEW s \in Subjects, NEW o \in Subjects, NEW c \in Cells,
                    s # o, {s, o} \subseteq Holders(c)', AcctProvider[s] = AcctProvider[o],
                    Guarded(c)'
             PROVE  {s, o} \cap excused' # {}
  BY DEF SharedOnlyByRace, Guarded
<1>1. {s, o} \subseteq Holders(c)
  BY DEF Holders
<1>2. CASE Guarded(c)
  BY <1>1, <1>2 DEF SharedOnlyByRace, Guarded
<1>3. CASE Holders(c) \subseteq excused'
  BY <1>1, <1>3
<1> QED
  BY <1>2, <1>3

\* A binding that is written is exclusive, or its account is excused.
LEMMA WrittenShares ==
  ASSUME CellsTyped, SharedOnlyByRace, NEW o \in BindOps \cup LoginOps, UNCHANGED cells,
         excused' = Written(o), accts'[o.subject] # NoAcct, accts'[o.subject].cell = o.cell,
         \A s \in Subjects \ {o.subject} : accts'[s] = accts[s]
  PROVE  SharedOnlyByRace'
<1>1. /\ o.subject \in Subjects /\ o.cell \in CellNames /\ o.free = TRUE
  BY DEF BindOps, LoginOps
<1>2. CASE accts[o.subject] # NoAcct /\ accts[o.subject].cell = o.cell
  <2>1. excused' = excused
    BY <1>2 DEF Written
  <2> QED
    BY <1>1, <1>2, <2>1, SharingStays DEF Guarded
<1>3. CASE ~(accts[o.subject] # NoAcct /\ accts[o.subject].cell = o.cell)
  <2> SUFFICES ASSUME NEW s \in Subjects, NEW t \in Subjects, NEW c \in Cells,
                      s # t, {s, t} \subseteq Holders(c)', AcctProvider[s] = AcctProvider[t],
                      Guarded(c)', {s, t} \cap excused' = {}
               PROVE  FALSE
    BY DEF SharedOnlyByRace, Guarded
  <2>1. Guarded(c) /\ excused \ {o.subject} \subseteq excused'
    BY <1>3 DEF Guarded, Written
  <2>2. CASE o.subject \notin {s, t}
    <3>1. {s, t} \subseteq Holders(c)
      BY <2>2 DEF Holders
    <3> QED
      BY <2>1, <2>2, <3>1 DEF SharedOnlyByRace, Guarded
  <2>3. ASSUME NEW u \in {s, t}, u # o.subject, o.subject \in {s, t} PROVE FALSE
    <3>1. u \in Holders(c) /\ AcctProvider[u] = AcctProvider[o.subject] /\ o.cell = c
      BY <2>3 DEF Holders
    <3>2. c # ""
      BY CellsAssumption
    <3>3. ~Exclusive(o.subject, c)
      BY <2>1, <2>3, <3>1, <3>2 DEF Exclusive, Guarded
    <3>4. o.subject \in excused'
      BY <1>1, <1>3, <3>1, <3>3 DEF Written
    <3> QED
      BY <2>3, <3>4
  <2> QED
    BY <2>2, <2>3
<1> QED
  BY <1>2, <1>3

\* Every step keeps the property.
LEMMA SharingStep == CellsTyped /\ SharedOnlyByRace /\ [CellsNext]_cellVars => SharedOnlyByRace'
<1> SUFFICES ASSUME CellsTyped, SharedOnlyByRace, [CellsNext]_cellVars PROVE SharedOnlyByRace'
  OBVIOUS
<1> USE DEF histVars
<1>1. CASE \/ CellTick \/ PurgeExpiredOAuthSessions
           \/ \E x \in OAuthSessions : handleGenerateAuthURL(x)
           \/ \E h \in Handlers :
                \/ UpsertRead(h) \/ handleBindAccountCell(h) \/ CheckCell(h) \/ CheckOwners(h)
                \/ handleExchangeCode(h) \/ oauthClientForRoute(h) \/ ExchangeCode(h)
                \/ FindBySubject(h) \/ upsertExchangedAccount(h) \/ DelOAuthSession(h)
           \/ UNCHANGED cellVars
  <2>1. UNCHANGED <<cells, accts, excused>>
    BY <1>1 DEF CellTick, PurgeExpiredOAuthSessions, handleGenerateAuthURL, UpsertRead,
                handleBindAccountCell, CheckCell, CheckOwners, handleExchangeCode,
                oauthClientForRoute, ExchangeCode, FindBySubject, upsertExchangedAccount,
                DelOAuthSession, cellVars
  <2> QED
    BY <2>1 DEF SharedOnlyByRace, Holders
<1>2. ASSUME NEW h \in Handlers, SaveCell(h) PROVE SharedOnlyByRace'
  <2>1. op[h] \in SaveOps
    BY <1>2, OpTyped, OpStages DEF SaveCell
  <2>2. /\ UNCHANGED accts
        /\ cells' = [cells EXCEPT ![op[h].cell] = op[h].row]
        /\ excused' = excused \cup IF op[h].row.proxy # "socks5" THEN Holders(op[h].cell) ELSE {}
    BY <1>2 DEF SaveCell
  <2>3. \A c \in Cells : Guarded(c)' => Guarded(c) \/ Holders(c) \subseteq excused'
    BY <2>1, <2>2 DEF Guarded, CellsTyped, SaveOps
  <2> QED
    BY <2>2, <2>3, SharingStays
<1>3. ASSUME NEW c \in Cells, \/ ClearCellCooldown(c)
                              \/ \E u \in 1 .. MaxCellNow + 1 : CooldownCell(c, u)
      PROVE  SharedOnlyByRace'
  <2>1. UNCHANGED <<accts, excused>> /\ cells[c] # NoCell /\ \E u : cells' = [cells EXCEPT ![c].until = u]
    BY <1>3 DEF ClearCellCooldown, CooldownCell, ClearedCell
  <2>2. cells[c] \in CellRows
    BY <2>1 DEF CellsTyped
  <2>3. \A u : [cells[c] EXCEPT !.until = u].proxy = cells[c].proxy
    BY <2>2 DEF CellRows
  <2>4. \A d \in Cells : Guarded(d)' => Guarded(d)
    BY <2>1, <2>3 DEF Guarded, CellsTyped
  <2> QED
    BY <2>1, <2>4, SharingStays
<1>4. ASSUME NEW h \in Handlers, Update(h) PROVE SharedOnlyByRace'
  <2>1. op[h] \in BindOps \cup LoginOps
    BY <1>4, OpTyped, OpStages DEF Update
  <2>2. op[h].subject \in Subjects /\ op[h].cell \in CellNames
    BY <2>1 DEF BindOps, LoginOps
  <2>3. CASE accts[op[h].subject] = NoAcct
    BY <1>4, <2>3 DEF Update, SharedOnlyByRace, Holders
  <2>4. CASE accts[op[h].subject] # NoAcct
    <3>1. /\ accts' = [accts EXCEPT ![op[h].subject].cell = op[h].cell]
          /\ excused' = Written(op[h]) /\ UNCHANGED cells
      BY <1>4, <2>4 DEF Update
    <3>2. accts[op[h].subject] \in [cell : CellNames, refresh : Nat]
      BY <2>2, <2>4 DEF CellsTyped, AcctRows
    <3>3. /\ accts'[op[h].subject] \in [cell : CellNames, refresh : Nat]
          /\ accts'[op[h].subject].cell = op[h].cell
      BY <2>2, <3>1, <3>2 DEF CellsTyped
    <3>4. \A s \in Subjects \ {op[h].subject} : accts'[s] = accts[s]
      BY <3>1 DEF CellsTyped
    <3> QED
      BY <2>1, <3>1, <3>3, <3>4, AcctExists, WrittenShares
  <2> QED
    BY <2>3, <2>4
<1>5. ASSUME NEW h \in Handlers, StoreTokens(h) PROVE SharedOnlyByRace'
  <2>1. op[h] \in LoginOps
    BY <1>5, OpTyped, OpStages DEF StoreTokens
  <2>2. CASE UNCHANGED accts
    BY <1>5, <2>2 DEF StoreTokens, SharedOnlyByRace, Holders
  <2>3. CASE /\ accts[op[h].subject] # NoAcct
             /\ accts' = [accts EXCEPT ![op[h].subject].refresh = op[h].refresh]
    <3>1. accts[op[h].subject] \in [cell : CellNames, refresh : Nat] /\ op[h].subject \in Subjects
      BY <2>1, <2>3 DEF CellsTyped, AcctRows, LoginOps
    <3>2. accts'[op[h].subject].cell = accts[op[h].subject].cell
      BY <2>3, <3>1 DEF CellsTyped
    <3>3. \A s \in Subjects : accts'[s] = NoAcct \/ (accts[s] # NoAcct /\ accts'[s].cell = accts[s].cell)
      BY <2>3, <3>2 DEF CellsTyped
    <3>4. UNCHANGED <<cells, excused>>
      BY <1>5 DEF StoreTokens
    <3> QED
      BY <3>3, <3>4, SharingStays DEF Guarded
  <2> QED
    BY <1>5, <2>2, <2>3 DEF StoreTokens
<1>6. ASSUME NEW h \in Handlers, Add(h) PROVE SharedOnlyByRace'
  <2>1. op[h] \in LoginOps
    BY <1>6, OpTyped, OpStages DEF Add
  <2>2. CASE UNCHANGED <<accts, excused>>
    BY <1>6, <2>2 DEF Add, SharedOnlyByRace, Holders
  <2>3. CASE /\ accts' = [accts EXCEPT ![op[h].subject] =
                            [cell |-> op[h].cell, refresh |-> op[h].refresh]]
             /\ excused' = Written(op[h])
    <3>1. /\ op[h].subject \in Subjects
          /\ [cell |-> op[h].cell, refresh |-> op[h].refresh] \in [cell : CellNames, refresh : Nat]
      BY <2>1 DEF LoginOps
    <3>2. /\ accts'[op[h].subject] = [cell |-> op[h].cell, refresh |-> op[h].refresh]
          /\ \A s \in Subjects \ {op[h].subject} : accts'[s] = accts[s]
      BY <2>3, <3>1 DEF CellsTyped
    <3>3. accts'[op[h].subject] # NoAcct /\ accts'[op[h].subject].cell = op[h].cell
      BY <3>1, <3>2, AcctExists
    <3>4. UNCHANGED cells
      BY <1>6 DEF Add
    <3> QED
      BY <2>1, <2>3, <3>2, <3>3, <3>4, WrittenShares
  <2> QED
    BY <1>6, <2>2, <2>3 DEF Add
<1>7. ASSUME NEW s \in Subjects, DeleteAccount(s) PROVE SharedOnlyByRace'
  BY <1>7 DEF DeleteAccount, SharedOnlyByRace, Holders, CellsTyped
<1>8. ASSUME NEW s \in Subjects, Rotate(s) PROVE SharedOnlyByRace'
  <2>1. accts[s] \in [cell : CellNames, refresh : Nat]
    BY <1>8 DEF Rotate, CellsTyped, AcctRows
  <2>2. UNCHANGED <<cells, excused>> /\ accts' = [accts EXCEPT ![s].refresh = issued'[s]]
    BY <1>8 DEF Rotate
  <2>3. \A t \in Subjects : accts'[t] = NoAcct \/ (accts[t] # NoAcct /\ accts'[t].cell = accts[t].cell)
    BY <1>8, <2>1, <2>2 DEF CellsTyped, Rotate
  <2> QED
    BY <2>2, <2>3, SharingStays DEF Guarded
<1> QED
  BY <1>1, <1>2, <1>3, <1>4, <1>5, <1>6, <1>7, <1>8 DEF CellsNext

\* No account has a cell at first.
LEMMA SharingInit == CellsInit => SharedOnlyByRace
<1> SUFFICES ASSUME CellsInit, NEW c \in Cells PROVE Holders(c) = {}
  BY DEF SharedOnlyByRace
<1>1. c # ""
  BY CellsAssumption
<1>2. \A s \in Subjects : accts[s] = NoAcct \/ accts[s].cell = ""
  <2>1. accts \in [Subjects -> {NoAcct, [cell |-> "", refresh |-> 1]}]
    BY DEF CellsInit
  <2>2. [cell |-> "", refresh |-> 1].cell = ""
    OBVIOUS
  <2>3. \A s \in Subjects : accts[s] \in {NoAcct, [cell |-> "", refresh |-> 1]}
    BY <2>1
  <2> QED
    BY <2>2, <2>3
<1> QED
  BY <1>1, <1>2 DEF Holders

\* Two accounts of a provider come to share a cell that is no SOCKS5 proxy only when bind
\* or login requests overlap, or the cell changes under them: accountOwnsCell is enough for
\* requests that come one at a time.
THEOREM SharingNeedsRace == CellsSpec => []SharedOnlyByRace
  BY SharingInit, SharingStep, CellsTypesHold, PTL DEF CellsSpec

-----------------------------------------------------------------------------
(* Refresh tokens.                                                         *)

\* A login that has tokens in hand and has not stored them.
Before == {"find", "cell", "owners", "upsert"}
Carries(o) == o \in FindOps \cup LoginOps /\ o.at \in Before \cup {"add", "store"}

\* As long as nobody stored tokens since the login got its own, what it carries is the
\* newest token, or none yet; the token it is about to store is not older than the
\* newest unless the account is overtaken.
InHand(o) ==
  Carries(o) =>
    /\ o.seen <= writes[o.subject] /\ o.refresh <= issued[o.subject]
    /\ o.seen = writes[o.subject] =>
         /\ o.at \in Before /\ o.refresh # 0 => o.refresh >= known[o.subject]
         /\ o.at = "store" => o.refresh >= known[o.subject] \/ o.subject \in overtaken

\* The inductive invariant.
LoginInv ==
  /\ \A s \in Subjects :
       /\ known[s] <= issued[s]
       /\ accts[s] = NoAcct => known[s] = 0
       /\ accts[s] # NoAcct => accts[s].refresh <= issued[s]
  /\ LoginKeepsRefreshToken
  /\ \A h \in Handlers : InHand(op[h])

\* A login that stays where it is keeps its part when more tokens are issued or stored,
\* when an account goes, or when nothing changes.
LEMMA InHandStays ==
  ASSUME CellsTyped, NEW o \in Ops, InHand(o),
         \A s \in Subjects :
           /\ issued'[s] \in Nat /\ issued'[s] >= issued[s]
           /\ writes'[s] \in Nat /\ writes'[s] >= writes[s]
           /\ writes'[s] = writes[s] =>
                known'[s] = 0 \/ (known'[s] = known[s] /\ (s \in overtaken => s \in overtaken'))
  PROVE  InHand(o)'
<1> SUFFICES ASSUME Carries(o)
             PROVE  /\ o.seen <= writes'[o.subject] /\ o.refresh <= issued'[o.subject]
                    /\ o.seen = writes'[o.subject] =>
                         /\ o.at \in Before /\ o.refresh # 0 => o.refresh >= known'[o.subject]
                         /\ o.at = "store" => o.refresh >= known'[o.subject] \/ o.subject \in overtaken'
  BY DEF InHand, Carries
<1>1. o.subject \in Subjects /\ o.seen \in Nat /\ o.refresh \in Nat
  BY DEF Carries, FindOps, LoginOps
<1>2. PICK s \in Subjects : s = o.subject
  BY <1>1
<1>3. /\ o.seen <= writes[s] /\ o.refresh <= issued[s]
      /\ o.seen = writes[s] =>
           /\ o.at \in Before /\ o.refresh # 0 => o.refresh >= known[s]
           /\ o.at = "store" => o.refresh >= known[s] \/ s \in overtaken
  BY <1>2 DEF InHand
<1>4. writes[s] \in Nat /\ issued[s] \in Nat /\ known[s] \in Nat
  BY DEF CellsTyped
<1>5. /\ issued'[s] \in Nat /\ issued'[s] >= issued[s] /\ writes'[s] \in Nat /\ writes'[s] >= writes[s]
      /\ writes'[s] = writes[s] =>
           known'[s] = 0 \/ (known'[s] = known[s] /\ (s \in overtaken => s \in overtaken'))
  OBVIOUS
<1>6. o.seen <= writes'[s] /\ o.refresh <= issued'[s]
  BY <1>1, <1>3, <1>4, <1>5
<1>7. o.seen = writes'[s] => writes'[s] = writes[s] /\ o.seen = writes[s]
  BY <1>1, <1>3, <1>4, <1>5
<1> QED
  BY <1>1, <1>2, <1>3, <1>5, <1>6, <1>7

\* One handler moves, the others stay.
LEMMA OneMoves ==
  ASSUME CellsTyped, LoginInv, NEW h \in Handlers, NEW x, op' = [op EXCEPT ![h] = x], InHand(x)',
         \A s \in Subjects :
           /\ issued'[s] \in Nat /\ issued'[s] >= issued[s]
           /\ writes'[s] \in Nat /\ writes'[s] >= writes[s]
           /\ writes'[s] = writes[s] =>
                known'[s] = 0 \/ (known'[s] = known[s] /\ (s \in overtaken => s \in overtaken'))
  PROVE  \A k \in Handlers : InHand(op[k])'
<1> SUFFICES ASSUME NEW k \in Handlers PROVE InHand(op[k])'
  OBVIOUS
<1>1. CASE k = h
  <2>1. op'[k] = x
    BY <1>1 DEF CellsTyped
  <2> QED
    BY <2>1 DEF InHand, Carries
<1>2. CASE k # h
  <2>1. op'[k] = op[k] /\ op[k] \in Ops /\ InHand(op[k])
    BY <1>2 DEF CellsTyped, LoginInv
  <2>2. PICK o \in Ops : o = op[k]
    BY <2>1
  <2>3. InHand(o)
    BY <2>1, <2>2
  <2>4. InHand(o)'
    BY <2>3, InHandStays
  <2> QED
    BY <2>1, <2>2, <2>4 DEF InHand, Carries
<1> QED
  BY <1>1, <1>2

\* Only a login with tokens carries any.
LEMMA NotCarrying ==
  /\ \A x \in {Idle} \cup SaveOps \cup BindOps \cup RouteOps : InHand(x)
  /\ \A x \in LoginOps : x.at \in {"write", "close"} => InHand(x)
<1>1. ~Carries(Idle)
  BY DEF Carries, Idle, Before
<1>2. \A x \in SaveOps : ~Carries(x)
  BY DEF Carries, SaveOps, Before
<1>3. \A x \in BindOps : ~Carries(x)
  BY DEF Carries, BindOps, FindOps, LoginOps
<1>4. \A x \in RouteOps : ~Carries(x)
  BY DEF Carries, RouteOps, Before
<1>5. \A x \in LoginOps : x.at \in {"write", "close"} => ~Carries(x)
  BY DEF Carries, Before
<1> QED
  BY <1>1, <1>2, <1>3, <1>4, <1>5 DEF InHand

\* A handler moves and no token does.
LEMMA LoginQuiet ==
  ASSUME CellsTyped, LoginInv, NEW h \in Handlers, NEW x, op' = [op EXCEPT ![h] = x], InHand(x),
         UNCHANGED <<issued, known, writes, overtaken>>,
         \A s \in Subjects : /\ accts'[s] = NoAcct <=> accts[s] = NoAcct
                             /\ accts[s] # NoAcct => accts'[s].refresh = accts[s].refresh
  PROVE  LoginInv'
<1>1. InHand(x)'
  BY DEF InHand
<1>2. \A s \in Subjects :
        /\ issued'[s] \in Nat /\ issued'[s] >= issued[s]
        /\ writes'[s] \in Nat /\ writes'[s] >= writes[s]
        /\ writes'[s] = writes[s] =>
             known'[s] = 0 \/ (known'[s] = known[s] /\ (s \in overtaken => s \in overtaken'))
  BY DEF CellsTyped
<1>3. \A k \in Handlers : InHand(op[k])'
  BY <1>1, <1>2, OneMoves
<1> QED
  BY <1>3 DEF LoginInv, LoginKeepsRefreshToken

\* The steps of a handler that neither get nor store tokens.
LEMMA HandlerQuiet ==
  ASSUME CellsTyped, LoginInv, NEW h \in Handlers,
         \/ UpsertRead(h) \/ SaveCell(h)
         \/ handleBindAccountCell(h) \/ CheckCell(h) \/ CheckOwners(h) \/ Update(h)
         \/ handleExchangeCode(h) \/ oauthClientForRoute(h) \/ DelOAuthSession(h)
  PROVE  LoginInv'
<1> USE DEF histVars
<1>0. op[h] \in Ops /\ InHand(op[h]) /\ CellsTyped'
  BY OpTyped, HandlerTyped DEF LoginInv
<1>1. UNCHANGED <<issued, known, writes, overtaken>>
  BY DEF UpsertRead, SaveCell, handleBindAccountCell, CheckCell, CheckOwners, Update,
         handleExchangeCode, oauthClientForRoute, DelOAuthSession
<1>2. \A s \in Subjects : /\ accts'[s] = NoAcct <=> accts[s] = NoAcct
                          /\ accts[s] # NoAcct => accts'[s].refresh = accts[s].refresh
  <2>1. CASE UNCHANGED accts
    BY <2>1
  <2>2. CASE Update(h) /\ accts[op[h].subject] # NoAcct
    <3>1. op[h].subject \in Subjects /\ op[h].cell \in CellNames
      BY <1>0, <2>2, OpStages DEF Update, BindOps, LoginOps
    <3>2. accts' = [accts EXCEPT ![op[h].subject].cell = op[h].cell]
      BY <2>2 DEF Update
    <3>3. accts[op[h].subject] \in [cell : CellNames, refresh : Nat]
      BY <2>2, <3>1 DEF CellsTyped, AcctRows
    <3>4. /\ accts'[op[h].subject] \in [cell : CellNames, refresh : Nat]
          /\ accts'[op[h].subject].refresh = accts[op[h].subject].refresh
      BY <3>1, <3>2, <3>3 DEF CellsTyped
    <3>5. \A s \in Subjects \ {op[h].subject} : accts'[s] = accts[s]
      BY <3>2 DEF CellsTyped
    <3> QED
      BY <2>2, <3>4, <3>5, AcctExists
  <2> QED
    BY <2>1, <2>2 DEF UpsertRead, SaveCell, handleBindAccountCell, CheckCell, CheckOwners,
                      Update, handleExchangeCode, oauthClientForRoute, DelOAuthSession
<1>3. \A x : op' = [op EXCEPT ![h] = x] /\ InHand(x) => LoginInv'
  BY <1>1, <1>2, LoginQuiet
<1>4. Done(h) => LoginInv'
  BY <1>3, NotCarrying DEF Done
<1>5. CASE UpsertRead(h)
  <2>1. PICK c, status, proxy, until :
          op' = [op EXCEPT ![h] = [at |-> "save", cell |-> c,
                   row |-> [status |-> status, proxy |-> proxy, until |-> until]]]
    BY <1>5 DEF UpsertRead
  <2>2. [at |-> "save", cell |-> c,
         row |-> [status |-> status, proxy |-> proxy, until |-> until]].at = "save"
    OBVIOUS
  <2>3. InHand([at |-> "save", cell |-> c,
                row |-> [status |-> status, proxy |-> proxy, until |-> until]])
    BY <2>2 DEF InHand, Carries, Before
  <2> QED
    BY <1>3, <2>1, <2>3
<1>6. CASE SaveCell(h) \/ DelOAuthSession(h)
  BY <1>4, <1>6 DEF SaveCell, DelOAuthSession
<1>7. CASE handleBindAccountCell(h)
  <2>1. PICK s \in Subjects, c \in Cells \cup {""} :
          op' = [op EXCEPT ![h] =
                   [at |-> IF c = "" THEN "write" ELSE "cell", for |-> "bind", subject |-> s,
                    cell |-> c, was |-> accts[s].cell, free |-> TRUE]]
    BY <1>7 DEF handleBindAccountCell
  <2>2. PICK x : x = [at |-> IF c = "" THEN "write" ELSE "cell", for |-> "bind", subject |-> s,
                      cell |-> c, was |-> accts[s].cell, free |-> TRUE]
    OBVIOUS
  <2>3. InHand(x)
    BY <2>2 DEF InHand, Carries, FindOps, LoginOps
  <2> QED
    BY <1>3, <2>1, <2>2, <2>3
<1>8. CASE handleExchangeCode(h)
  <2>1. PICK y, c :
          op' = [op EXCEPT ![h] = [at |-> "route", for |-> "login", session |-> y, cell |-> c]]
    BY <1>8 DEF handleExchangeCode
  <2>2. [at |-> "route", for |-> "login", session |-> y, cell |-> c].at = "route"
    OBVIOUS
  <2>3. InHand([at |-> "route", for |-> "login", session |-> y, cell |-> c])
    BY <2>2 DEF InHand, Carries, Before
  <2> QED
    BY <1>3, <2>1, <2>3
<1>9. CASE oauthClientForRoute(h)
  <2>1. op[h] \in RouteOps
    BY <1>0, <1>9, OpStages DEF oauthClientForRoute
  <2>2. CASE Goto(h, "exchange")
    <3>1. PICK x : x = [op[h] EXCEPT !.at = "exchange"]
      OBVIOUS
    <3>2. op' = [op EXCEPT ![h] = x] /\ x \in RouteOps
      BY <2>1, <2>2, <3>1, OpMoves DEF Goto, CellsTyped
    <3> QED
      BY <1>3, <3>2, NotCarrying
  <2> QED
    BY <1>4, <1>9, <2>2 DEF oauthClientForRoute
<1>10. CASE Update(h)
  <2>1. op[h] \in BindOps \cup LoginOps
    BY <1>0, <1>10, OpStages DEF Update
  <2>2. CASE Goto(h, "close") /\ op[h].for = "login"
    <3>1. op[h] \in LoginOps
      BY <2>1, <2>2 DEF BindOps
    <3>2. PICK x : x = [op[h] EXCEPT !.at = "close"]
      OBVIOUS
    <3>3. op' = [op EXCEPT ![h] = x] /\ x \in LoginOps /\ x.at = "close"
      BY <2>2, <3>1, <3>2, OpMoves, ZenonT(60) DEF Goto, CellsTyped, LoginOps
    <3> QED
      BY <1>3, <3>3, NotCarrying
  <2> QED
    BY <1>4, <1>10, <2>2 DEF Update
<1>11. CASE CheckCell(h) \/ CheckOwners(h)
  <2>1. op[h] \in BindOps \cup LoginOps /\ op[h].at \in {"cell", "owners"}
    BY <1>0, <1>11, OpStages DEF CheckCell, CheckOwners
  <2>2. CASE ~Done(h)
    <3>1. PICK y \in {Checked(h), "owners"} : Goto(h, y) \/ op' = [op EXCEPT ![h].at = y, ![h].free = TRUE]
      <4>1. CASE CheckCell(h)
        BY <2>2, <4>1 DEF CheckCell
      <4>2. CASE CheckOwners(h)
        BY <2>2, <4>2, FreeIsExclusive DEF CheckOwners
      <4> QED
        BY <1>11, <4>1, <4>2
    <3>2. CASE op[h] \in BindOps
      <4>1. y \in {"write", "owners"}
        BY <3>1, <3>2 DEF Checked, BindOps
      <4>2. PICK x \in BindOps : op' = [op EXCEPT ![h] = x]
        BY <3>1, <3>2, <4>1 DEF Goto, CellsTyped, BindOps
      <4> QED
        BY <1>3, <4>2, NotCarrying
    <3>3. CASE op[h] \in LoginOps
      <4>1. y \in {"upsert", "owners"}
        BY <3>1, <3>3 DEF Checked, LoginOps
      <4>2. PICK x \in LoginOps :
              /\ op' = [op EXCEPT ![h] = x]
              /\ x.at = y /\ x.seen = op[h].seen /\ x.refresh = op[h].refresh
              /\ x.subject = op[h].subject
        <5>1. ASSUME NEW x, \/ x = [op[h] EXCEPT !.at = y]
                            \/ x = [op[h] EXCEPT !.at = y, !.free = TRUE]
              PROVE  /\ x \in LoginOps
                     /\ x.at = y /\ x.seen = op[h].seen /\ x.refresh = op[h].refresh
                     /\ x.subject = op[h].subject
          BY <3>3, <4>1, <5>1 DEF LoginOps
        <5>2. \/ op' = [op EXCEPT ![h] = [op[h] EXCEPT !.at = y]]
              \/ op' = [op EXCEPT ![h] = [op[h] EXCEPT !.at = y, !.free = TRUE]]
          BY <3>1 DEF Goto, CellsTyped
        <5> QED
          BY <5>1, <5>2
      <4>3. Carries(op[h]) /\ op[h].at \in Before
        BY <2>1, <3>3 DEF Carries, Before
      <4>4. InHand(x)
        BY <1>0, <4>1, <4>2, <4>3 DEF InHand, Before
      <4> QED
        BY <1>3, <4>2, <4>4
    <3> QED
      BY <2>1, <3>2, <3>3
  <2> QED
    BY <1>4, <2>2
<1> QED
  BY <1>5, <1>6, <1>7, <1>8, <1>9, <1>10, <1>11

\* What the steps that move tokens leave to the other logins: nothing is unissued or
\* unwritten, and a subject whose tokens were not stored is as it was, or deleted.
TokensGrow ==
  \A s \in Subjects :
    /\ issued'[s] \in Nat /\ issued'[s] >= issued[s]
    /\ writes'[s] \in Nat /\ writes'[s] >= writes[s]
    /\ writes'[s] = writes[s] =>
         known'[s] = 0 \/ (known'[s] = known[s] /\ (s \in overtaken => s \in overtaken'))

\* A login gets its tokens, newer than any the account has had.
LEMMA ExchangeKeeps ==
  ASSUME CellsTyped, LoginInv, NEW h \in Handlers, ExchangeCode(h)
  PROVE  LoginInv'
<1> USE DEF histVars
<1>0. UNCHANGED <<accts, known, writes, overtaken>>
  BY DEF ExchangeCode
<1>1. CASE Done(h) /\ UNCHANGED issued
  BY <1>0, <1>1, LoginQuiet, NotCarrying DEF Done
<1>2. CASE ~(Done(h) /\ UNCHANGED issued)
  <2>1. PICK s \in Subjects, withRefresh \in BOOLEAN :
        /\ issued' = IF withRefresh THEN [issued EXCEPT ![s] = @ + 1] ELSE issued
        /\ op' = [op EXCEPT ![h] =
             [at |-> "find", for |-> "login", session |-> op[h].session,
              cell |-> op[h].cell, subject |-> s, seen |-> writes[s], free |-> TRUE,
              refresh |-> IF withRefresh THEN issued'[s] ELSE 0]]
    BY <1>2 DEF ExchangeCode
  <2>2. PICK x : x = [at |-> "find", for |-> "login", session |-> op[h].session,
                      cell |-> op[h].cell, subject |-> s, seen |-> writes[s], free |-> TRUE,
                      refresh |-> IF withRefresh THEN issued'[s] ELSE 0]
    OBVIOUS
  <2>3. /\ x.at = "find" /\ x.subject = s /\ x.seen = writes[s]
        /\ x.refresh = IF withRefresh THEN issued'[s] ELSE 0
    BY <2>2
  <2>4. \A t \in Subjects : issued[t] \in Nat /\ known[t] \in Nat /\ writes[t] \in Nat
    BY DEF CellsTyped
  <2>5. \A t \in Subjects : issued'[t] = IF withRefresh /\ t = s THEN issued[t] + 1 ELSE issued[t]
    BY <2>1, <2>4 DEF CellsTyped
  <2>6. TokensGrow
    BY <1>0, <2>4, <2>5 DEF TokensGrow
  <2>7. known[s] <= issued[s]
    BY DEF LoginInv
  <2>8. /\ x.refresh <= issued'[s] /\ writes[s] <= writes[s]
        /\ x.refresh # 0 => x.refresh >= known[s]
    BY <2>3, <2>4, <2>5, <2>7
  <2>9. InHand(x)'
    BY <1>0, <2>3, <2>8 DEF InHand, Carries
  <2>10. \A k \in Handlers : InHand(op[k])'
    BY <2>1, <2>2, <2>6, <2>9, OneMoves DEF TokensGrow
  <2>11. \A t \in Subjects : accts[t] # NoAcct => accts[t].refresh \in Nat
    BY DEF CellsTyped, AcctRows
  <2>12. \A t \in Subjects : known[t] <= issued'[t] /\ (accts[t] # NoAcct => accts[t].refresh <= issued'[t])
    BY <2>4, <2>5, <2>11 DEF LoginInv
  <2> QED
    BY <1>0, <2>10, <2>12 DEF LoginInv, LoginKeepsRefreshToken
<1> QED
  BY <1>1, <1>2

\* The login looks the account up, and again before it stores: it keeps what the account
\* has when the provider gave it nothing.
LEMMA LookupKeeps ==
  ASSUME CellsTyped, LoginInv, NEW h \in Handlers, FindBySubject(h) \/ upsertExchangedAccount(h)
  PROVE  LoginInv'
<1> USE DEF histVars
<1>0. op[h] \in Ops /\ InHand(op[h])
  BY OpTyped DEF LoginInv
<1>1. UNCHANGED <<accts, issued, known, writes, overtaken>>
  BY DEF FindBySubject, upsertExchangedAccount
<1>2. \A x : op' = [op EXCEPT ![h] = x] /\ InHand(x) => LoginInv'
  BY <1>1, LoginQuiet
<1>3. CASE FindBySubject(h)
  <2>1. op[h] \in FindOps /\ op[h].at = "find"
    BY <1>0, <1>3, OpStages DEF FindBySubject
  <2>2. PICK x :
          /\ op' = [op EXCEPT ![h] = x]
          /\ x.at \in {"upsert", "cell"} /\ x.seen = op[h].seen /\ x.refresh = op[h].refresh
          /\ x.subject = op[h].subject
    <3> DEFINE o == op[h]
               was == IF accts[o.subject] = NoAcct THEN "" ELSE accts[o.subject].cell
    <3>1. PICK x : x = [at |-> IF o.cell = "" THEN "upsert" ELSE "cell", for |-> "login",
                        session |-> o.session, cell |-> o.cell, subject |-> o.subject,
                        was |-> was, seen |-> o.seen, free |-> TRUE, refresh |-> o.refresh]
      OBVIOUS
    <3>2. op' = [op EXCEPT ![h] = x]
      BY <1>3, <3>1 DEF FindBySubject
    <3>3. /\ x.at \in {"upsert", "cell"} /\ x.seen = op[h].seen /\ x.refresh = op[h].refresh
          /\ x.subject = op[h].subject
      BY <3>1
    <3> QED
      BY <3>2, <3>3
  <2>3. Carries(op[h]) /\ op[h].at \in Before
    BY <2>1 DEF Carries, Before
  <2>4. InHand(x)
    BY <1>0, <2>2, <2>3 DEF InHand, Before
  <2> QED
    BY <1>2, <2>2, <2>4
<1>4. CASE upsertExchangedAccount(h)
  <2>1. op[h] \in LoginOps /\ op[h].at = "upsert"
    BY <1>0, <1>4, OpStages DEF upsertExchangedAccount
  <2>2. PICK s \in Subjects : s = op[h].subject
    BY <2>1 DEF LoginOps
  <2>3. PICK y, n : /\ y = (IF accts[s] = NoAcct THEN "add" ELSE "store")
                    /\ n = encryptExchangeTokens(op[h].refresh, Held(s))
    OBVIOUS
  <2>4. PICK x : x = [op[h] EXCEPT !.at = y, !.refresh = n]
    OBVIOUS
  <2>5. op' = [op EXCEPT ![h] = x]
    BY <1>4, <2>2, <2>3, <2>4 DEF upsertExchangedAccount, CellsTyped
  <2>6. x.at = y /\ x.refresh = n /\ x.seen = op[h].seen /\ x.subject = s
    BY <2>1, <2>2, <2>4 DEF LoginOps
  <2>7. /\ op[h].seen <= writes[s] /\ op[h].refresh <= issued[s] /\ op[h].refresh \in Nat
        /\ op[h].seen = writes[s] /\ op[h].refresh # 0 => op[h].refresh >= known[s]
    BY <1>0, <2>1, <2>2 DEF InHand, Carries, Before, LoginOps
  <2>8. issued[s] \in Nat /\ known[s] \in Nat /\ (accts[s] # NoAcct => accts[s].refresh \in Nat)
    BY DEF CellsTyped, AcctRows
  <2>9. /\ known[s] <= issued[s] /\ (accts[s] = NoAcct => known[s] = 0)
        /\ accts[s] # NoAcct => accts[s].refresh <= issued[s]
        /\ accts[s] # NoAcct => accts[s].refresh >= known[s] \/ s \in overtaken
    BY <2>8 DEF LoginInv, LoginKeepsRefreshToken
  <2>10. n <= issued[s]
    BY <2>3, <2>7, <2>8, <2>9 DEF encryptExchangeTokens, Held
  <2>11. op[h].seen = writes[s] /\ y = "store" => n >= known[s] \/ s \in overtaken
    BY <2>3, <2>7, <2>8, <2>9 DEF encryptExchangeTokens, Held
  <2>12. y \notin Before
    BY <2>3 DEF Before
  <2>13. InHand(x)
    BY <2>6, <2>7, <2>10, <2>11, <2>12 DEF InHand
  <2> QED
    BY <1>2, <2>5, <2>13
<1> QED
  BY <1>3, <1>4

\* Tokens are stored: StoreTokens on an account that is there, Add on one that is not.
LEMMA StoreKeeps ==
  ASSUME CellsTyped, LoginInv, NEW h \in Handlers, StoreTokens(h) \/ Add(h)
  PROVE  LoginInv'
<1> USE DEF histVars
<1>0. op[h] \in LoginOps /\ op[h].at \in {"store", "add"} /\ InHand(op[h])
  BY OpTyped, OpStages DEF LoginInv, StoreTokens, Add
<1>1. PICK s \in Subjects, n \in Nat, c \in CellNames :
        s = op[h].subject /\ n = op[h].refresh /\ c = op[h].cell
  BY <1>0 DEF LoginOps
<1>2. CASE Done(h) /\ UNCHANGED <<accts, known, writes, overtaken>>
  <2>1. UNCHANGED issued
    BY DEF StoreTokens, Add
  <2> QED
    BY <1>2, <2>1, LoginQuiet, NotCarrying DEF Done
<1>3. CASE ~(Done(h) /\ UNCHANGED <<accts, known, writes, overtaken>>)
  <2>1. Stored(op[h]) /\ UNCHANGED issued
    BY <1>3 DEF StoreTokens, Add
  <2>2. \A t \in Subjects : /\ issued[t] \in Nat /\ known[t] \in Nat /\ writes[t] \in Nat
                            /\ accts[t] # NoAcct => accts[t].refresh \in Nat
    BY DEF CellsTyped, AcctRows
  <2>3. /\ \A t \in Subjects \ {s} : known'[t] = known[t] /\ writes'[t] = writes[t]
        /\ known'[s] = (IF known[s] < n THEN n ELSE known[s]) /\ writes'[s] = writes[s] + 1
        /\ overtaken' = IF n >= known[s] THEN overtaken \ {s}
                        ELSE IF writes[s] # op[h].seen THEN overtaken \cup {s} ELSE overtaken
    BY <1>1, <2>1 DEF Stored, CellsTyped
  <2>4. accts'[s] # NoAcct /\ accts'[s].refresh = n /\ \A t \in Subjects \ {s} : accts'[t] = accts[t]
    <3>1. CASE StoreTokens(h)
      <4>1. accts[s] # NoAcct /\ accts' = [accts EXCEPT ![s].refresh = n]
        BY <1>1, <1>3, <3>1 DEF StoreTokens
      <4>2. accts[s] \in [cell : CellNames, refresh : Nat]
        BY <4>1 DEF CellsTyped, AcctRows
      <4>3. /\ accts'[s] \in [cell : CellNames, refresh : Nat] /\ accts'[s].refresh = n
            /\ \A t \in Subjects \ {s} : accts'[t] = accts[t]
        BY <4>1, <4>2 DEF CellsTyped
      <4> QED
        BY <4>3, AcctExists
    <3>2. CASE Add(h)
      <4>1. accts' = [accts EXCEPT ![s] = [cell |-> c, refresh |-> n]]
        BY <1>1, <1>3, <3>2 DEF Add
      <4>2. /\ accts'[s] = [cell |-> c, refresh |-> n]
            /\ [cell |-> c, refresh |-> n] \in [cell : CellNames, refresh : Nat]
            /\ \A t \in Subjects \ {s} : accts'[t] = accts[t]
        BY <4>1 DEF CellsTyped
      <4> QED
        BY <4>2, AcctExists
    <3> QED
      BY <3>1, <3>2
  <2>5. /\ op[h].seen <= writes[s] /\ n <= issued[s]
        /\ op[h].at = "store" /\ op[h].seen = writes[s] => n >= known[s] \/ s \in overtaken
        /\ op[h].at = "add" => known[s] = 0
    <3>1. op[h].at = "add" => accts[s] = NoAcct
      BY <1>1, <1>3 DEF Add, StoreTokens
    <3> QED
      BY <1>0, <1>1, <3>1 DEF InHand, Carries, LoginInv
  <2>6. n < known'[s] => s \in overtaken'
    <3>1. n < known'[s] => n < known[s]
      BY <2>2, <2>3
    <3>2. n < known[s] => ~(n >= known[s]) /\ known[s] # 0
      BY <2>2
    <3> QED
      BY <1>0, <2>3, <2>5, <3>1, <3>2
  <2>7. TokensGrow
    BY <2>1, <2>2, <2>3 DEF TokensGrow
  <2>8. \A k \in Handlers : InHand(op[k])'
    <3>1. PICK x : /\ op' = [op EXCEPT ![h] = x] /\ x.at \in {"write", "close"}
      <4>1. PICK y \in {"write", "close"} : Goto(h, y)
        BY <1>3 DEF StoreTokens, Add
      <4>2. PICK x : x = [op[h] EXCEPT !.at = y]
        OBVIOUS
      <4>3. op' = [op EXCEPT ![h] = x] /\ x.at = y
        BY <1>0, <4>1, <4>2 DEF Goto, CellsTyped, LoginOps
      <4> QED
        BY <4>1, <4>3
    <3>2. InHand(x)'
      BY <3>1 DEF InHand, Carries, Before
    <3> QED
      BY <2>7, <3>1, <3>2, OneMoves DEF TokensGrow
  <2>9. \A t \in Subjects :
          /\ known'[t] <= issued'[t]
          /\ accts'[t] = NoAcct => known'[t] = 0
          /\ accts'[t] # NoAcct => accts'[t].refresh <= issued'[t]
    BY <2>1, <2>2, <2>3, <2>4, <2>5 DEF LoginInv
  <2>10. LoginKeepsRefreshToken'
    <3> SUFFICES ASSUME NEW t \in Subjects, accts'[t] # NoAcct, accts'[t].refresh < known'[t]
                 PROVE  t \in overtaken'
      BY DEF LoginKeepsRefreshToken
    <3>1. CASE t = s
      BY <2>4, <2>6, <3>1
    <3>2. CASE t # s
      BY <2>3, <2>4, <3>2 DEF LoginInv, LoginKeepsRefreshToken
    <3> QED
      BY <3>1, <3>2
  <2> QED
    BY <2>8, <2>9, <2>10 DEF LoginInv
<1> QED
  BY <1>2, <1>3

\* Every step keeps the invariant.
LEMMA LoginStep == CellsTyped /\ LoginInv /\ [CellsNext]_cellVars => LoginInv'
<1> SUFFICES ASSUME CellsTyped, LoginInv, [CellsNext]_cellVars PROVE LoginInv'
  OBVIOUS
<1> USE DEF histVars
<1>0. \A t \in Subjects : /\ issued[t] \in Nat /\ known[t] \in Nat /\ writes[t] \in Nat
                          /\ accts[t] # NoAcct => accts[t].refresh \in Nat
  BY DEF CellsTyped, AcctRows
<1>1. CASE \/ CellTick \/ PurgeExpiredOAuthSessions
           \/ \E x \in OAuthSessions : handleGenerateAuthURL(x)
           \/ \E c \in Cells : ClearCellCooldown(c) \/ \E u \in 1 .. MaxCellNow + 1 : CooldownCell(c, u)
           \/ UNCHANGED cellVars
  <2>1. UNCHANGED <<accts, issued, known, writes, op, overtaken>>
    BY <1>1 DEF CellTick, PurgeExpiredOAuthSessions, handleGenerateAuthURL, ClearCellCooldown,
                CooldownCell, cellVars
  <2> QED
    BY <2>1 DEF LoginInv, LoginKeepsRefreshToken, InHand, Carries
<1>2. CASE \E h \in Handlers :
             \/ UpsertRead(h) \/ SaveCell(h)
             \/ handleBindAccountCell(h) \/ CheckCell(h) \/ CheckOwners(h) \/ Update(h)
             \/ handleExchangeCode(h) \/ oauthClientForRoute(h) \/ DelOAuthSession(h)
             \/ ExchangeCode(h) \/ FindBySubject(h) \/ upsertExchangedAccount(h)
             \/ StoreTokens(h) \/ Add(h)
  BY <1>2, HandlerQuiet, ExchangeKeeps, LookupKeeps, StoreKeeps
<1>3. ASSUME UNCHANGED op, TokensGrow PROVE \A k \in Handlers : InHand(op[k])'
  <2> SUFFICES ASSUME NEW k \in Handlers PROVE InHand(op[k])'
    OBVIOUS
  <2>1. PICK o \in Ops : o = op[k] /\ InHand(o)
    BY DEF CellsTyped, LoginInv
  <2>2. InHand(o)'
    BY <1>3, <2>1, InHandStays DEF TokensGrow
  <2> QED
    BY <1>3, <2>1, <2>2 DEF InHand, Carries
<1>4. ASSUME NEW s \in Subjects, DeleteAccount(s) PROVE LoginInv'
  <2>1. /\ UNCHANGED <<op, issued, writes>> /\ overtaken' = overtaken \ {s}
        /\ accts'[s] = NoAcct /\ known'[s] = 0
        /\ \A t \in Subjects \ {s} : accts'[t] = accts[t] /\ known'[t] = known[t]
    BY <1>4 DEF DeleteAccount, CellsTyped
  <2>2. TokensGrow
    BY <1>0, <2>1 DEF TokensGrow
  <2>3. \A k \in Handlers : InHand(op[k])'
    BY <1>3, <2>1, <2>2
  <2>4. \A t \in Subjects :
          /\ known'[t] <= issued'[t]
          /\ accts'[t] = NoAcct => known'[t] = 0
          /\ accts'[t] # NoAcct => accts'[t].refresh <= issued'[t]
    BY <1>0, <2>1 DEF LoginInv
  <2> QED
    BY <2>1, <2>3, <2>4 DEF LoginInv, LoginKeepsRefreshToken
<1>5. ASSUME NEW s \in Subjects, Rotate(s) PROVE LoginInv'
  <2>1. /\ UNCHANGED op /\ overtaken' = overtaken \ {s}
        /\ issued'[s] = issued[s] + 1 /\ writes'[s] = writes[s] + 1
        /\ known'[s] = issued'[s]
        /\ \A t \in Subjects \ {s} : /\ accts'[t] = accts[t] /\ known'[t] = known[t]
                                     /\ issued'[t] = issued[t] /\ writes'[t] = writes[t]
    BY <1>5 DEF Rotate, CellsTyped
  <2>2. accts'[s].refresh = issued'[s] /\ accts'[s] # NoAcct
    <3>1. accts[s] \in [cell : CellNames, refresh : Nat]
      BY <1>5 DEF Rotate, CellsTyped, AcctRows
    <3>2. accts' = [accts EXCEPT ![s].refresh = issued'[s]] /\ issued'[s] \in Nat
      BY <1>0, <1>5, <2>1 DEF Rotate
    <3>3. accts'[s] \in [cell : CellNames, refresh : Nat] /\ accts'[s].refresh = issued'[s]
      BY <3>1, <3>2 DEF CellsTyped
    <3> QED
      BY <3>3, AcctExists
  <2>3. TokensGrow
    BY <1>0, <2>1 DEF TokensGrow
  <2>4. \A k \in Handlers : InHand(op[k])'
    BY <1>3, <2>1, <2>3
  <2>5. \A t \in Subjects :
          /\ known'[t] <= issued'[t]
          /\ accts'[t] = NoAcct => known'[t] = 0
          /\ accts'[t] # NoAcct => accts'[t].refresh <= issued'[t]
    BY <1>0, <2>1, <2>2 DEF LoginInv
  <2>6. LoginKeepsRefreshToken'
    BY <1>0, <2>1, <2>2 DEF LoginInv, LoginKeepsRefreshToken
  <2> QED
    BY <2>4, <2>5, <2>6 DEF LoginInv
<1> QED
  BY <1>1, <1>2, <1>4, <1>5 DEF CellsNext

\* No login is under way at first.
LEMMA LoginInit == CellsInit => LoginInv
<1> SUFFICES ASSUME CellsInit PROVE LoginInv
  OBVIOUS
<1>1. \A s \in Subjects : /\ accts[s] = NoAcct => known[s] = 0 /\ issued[s] = 0
                          /\ accts[s] # NoAcct => known[s] = 1 /\ issued[s] = 1
  BY DEF CellsInit
<1>2. \A s \in Subjects : accts[s] # NoAcct => accts[s].refresh = 1
  <2>1. accts \in [Subjects -> {NoAcct, [cell |-> "", refresh |-> 1]}]
    BY DEF CellsInit
  <2>2. [cell |-> "", refresh |-> 1].refresh = 1
    OBVIOUS
  <2> QED
    BY <2>1, <2>2
<1>3. \A h \in Handlers : op[h] = Idle
  BY DEF CellsInit
<1>4. \A h \in Handlers : InHand(op[h])
  BY <1>3, NotCarrying
<1> QED
  BY <1>1, <1>2, <1>4 DEF LoginInv, LoginKeepsRefreshToken

\* A login leaves the account the newest refresh token it has had, whatever the provider
\* returned, however many logins, rotations and deletions overlap, unless somebody else
\* stored tokens after the login got its own (encryptExchangeTokens).
THEOREM LoginsKeepTokens == CellsSpec => []LoginKeepsRefreshToken
<1>1. LoginInv => LoginKeepsRefreshToken
  BY DEF LoginInv
<1> QED
  BY <1>1, LoginInit, LoginStep, CellsTypesHold, PTL DEF CellsSpec

-----------------------------------------------------------------------------
(* The watchdog.                                                           *)

WdStages == {"idle", "loop", "probe", "ipv6", "restart", "reprobe", "clear", "end"}
WdRecord == [at : WdStages, cell : LocalCells \cup {""}, tries : Nat]
Wd(at, cell) == [at |-> at, cell |-> cell, tries |-> 0]

\* The inductive invariant: what was listed is done, under way or still to do.
WatchInv ==
  /\ wd \in WdRecord
  /\ todo \subseteq LocalCells
  /\ wd.at # "idle" => TargetCells(listed) \subseteq
       tested \cup todo \cup (IF wd.at \in {"loop", "end"} THEN {} ELSE {wd.cell})
  /\ wd.at = "end" => todo = {}
  /\ wd.at \in {"ipv6", "restart", "reprobe", "clear"} => wd.cell \in tested
  /\ wd.at = "clear" => wd.cell \in answered

\* A place of the watchdog and its parts.
LEMMA WdForm ==
  ASSUME NEW x \in WdStages, NEW c \in LocalCells \cup {""}
  PROVE  Wd(x, c) \in WdRecord /\ Wd(x, c).at = x /\ Wd(x, c).cell = c
<1>1. Wd(x, c) \in WdRecord
  BY DEF Wd, WdRecord
<1>2. Wd(x, c).at = x /\ Wd(x, c).cell = c
  BY DEF Wd
<1> QED
  BY <1>1, <1>2

\* No cell in hand.
LEMMA WdNone ==
  ASSUME NEW x \in WdStages
  PROVE  [WdIdle EXCEPT !.at = x] \in WdRecord /\ [WdIdle EXCEPT !.at = x].at = x
<1>1. "idle" \in WdStages
  BY DEF WdStages
<1>2. WdIdle = Wd("idle", "")
  BY DEF WdIdle, Wd
<1>3. WdIdle \in WdRecord
  BY <1>1, <1>2, WdForm
<1> QED
  BY <1>3 DEF WdRecord

\* Another stage of the same cell.
LEMMA WdStage ==
  ASSUME NEW r \in WdRecord, NEW x \in WdStages
  PROVE  /\ [r EXCEPT !.at = x] \in WdRecord
         /\ [r EXCEPT !.at = x].at = x /\ [r EXCEPT !.at = x].cell = r.cell
  BY DEF WdRecord

\* Another probe of the same cell.
LEMMA WdAgain ==
  ASSUME NEW r \in WdRecord
  PROVE  LET q == [r EXCEPT !.tries = @ + 1]
         IN  q \in WdRecord /\ q.at = r.at /\ q.cell = r.cell
<1>1. r.tries \in Nat
  BY Zenon DEF WdRecord
<1>2. \A n \in Nat : n + 1 \in Nat
  OBVIOUS
<1>3. r.tries + 1 \in Nat
  BY <1>1, <1>2
<1>4. r = [at |-> r.at, cell |-> r.cell, tries |-> r.tries] /\ r.at \in WdStages
      /\ r.cell \in LocalCells \cup {""}
  BY DEF WdRecord
<1> QED
  BY <1>3, <1>4 DEF WdRecord

\* The next cell, or the end of the run: the cell in hand has been probed.
LEMMA WdLoops ==
  ASSUME WatchInv, wd' = [WdIdle EXCEPT !.at = "loop"], UNCHANGED <<todo, listed>>,
         wd.at # "idle", wd.at \notin {"loop", "end"} => wd.cell \in tested', tested \subseteq tested'
  PROVE  WatchInv'
<1>1. "loop" \in WdStages
  BY DEF WdStages
<1>2. wd'.at = "loop" /\ wd' \in WdRecord
  BY <1>1, WdNone
<1> QED
  BY <1>2 DEF WatchInv

\* On with the cell in hand, which has been probed.
LEMMA WdGoesOn ==
  ASSUME WatchInv, NEW x \in {"ipv6", "restart", "reprobe", "clear"}, WdGoto(x),
         UNCHANGED <<todo, listed>>, wd.at \in {"probe", "ipv6", "restart", "reprobe"},
         wd.cell \in tested', tested \subseteq tested', x = "clear" => wd.cell \in answered'
  PROVE  WatchInv'
<1>1. x \in WdStages
  BY DEF WdStages
<1>2. wd'.at = x /\ wd'.cell = wd.cell /\ wd' \in WdRecord
  BY <1>1, WdStage DEF WdGoto, WatchInv
<1> QED
  BY <1>2 DEF WatchInv

\* Nothing is listed at first.
LEMMA WatchBegins == WatchInit => WatchInv
<1> SUFFICES ASSUME WatchInit PROVE WatchInv
  OBVIOUS
<1>1. wd = Wd("idle", "")
  BY DEF WatchInit, WdIdle, Wd
<1>2. wd.at = "idle" /\ wd \in WdRecord
  <2>1. "idle" \in WdStages
    BY DEF WdStages
  <2> QED
    BY <1>1, <2>1, WdForm
<1> QED
  BY <1>2 DEF WatchInit, WatchInv

\* Every step of the watchdog and of what is around it keeps account of the cells.
LEMMA WatchStep == WatchInv /\ [WatchdogNext]_<<cellVars, watchVars>> => WatchInv'
<1> SUFFICES ASSUME WatchInv, [WatchdogNext]_<<cellVars, watchVars>> PROVE WatchInv'
  OBVIOUS
<1>1. CASE RunOnce
  <2>1. todo' = TargetCells(listed') /\ tested' = {}
    BY <1>1 DEF RunOnce
  <2>2. wd'.at = "loop" /\ wd' \in WdRecord
    <3>1. "loop" \in WdStages
      BY DEF WdStages
    <3> QED
      BY <1>1, <3>1, WdNone DEF RunOnce
  <2> QED
    BY <2>1, <2>2 DEF WatchInv, TargetCells
<1>2. CASE ReconcileNext
  <2>1. CASE todo = {} /\ wd' = [WdIdle EXCEPT !.at = "end"] /\ UNCHANGED todo
    <3>1. "end" \in WdStages
      BY DEF WdStages
    <3>2. wd'.at = "end" /\ wd' \in WdRecord
      BY <2>1, <3>1, WdNone
    <3> QED
      BY <1>2, <2>1, <3>2 DEF ReconcileNext, WatchInv
  <2>2. ASSUME NEW c \in todo, wd' = [at |-> "probe", cell |-> c, tries |-> 0], todo' = todo \ {c}
        PROVE  WatchInv'
    <3>1. wd' = Wd("probe", c) /\ c \in LocalCells /\ "probe" \in WdStages
      BY <2>2 DEF Wd, WatchInv, WdStages
    <3>2. wd'.at = "probe" /\ wd'.cell = c /\ wd' \in WdRecord
      BY <3>1, WdForm
    <3> QED
      BY <1>2, <2>2, <3>2 DEF ReconcileNext, WatchInv
  <2> QED
    BY <1>2, <2>1, <2>2 DEF ReconcileNext
<1>3. CASE FirstProbe
  <2>1. PICK x \in {"ipv6", "clear"} : WdGoto(x) /\ (x = "clear" => TestCell(wd.cell))
    BY <1>3 DEF FirstProbe
  <2> QED
    BY <1>3, <2>1, WdGoesOn DEF FirstProbe, Probe
<1>4. CASE AddIPv6
  BY <1>4, WdGoesOn DEF AddIPv6, WatchInv
<1>5. CASE RestartService
  BY <1>5, WdGoesOn DEF RestartService, WatchInv
<1>6. CASE probeAfterRepair
  <2>1. wd.at = "reprobe" /\ Probe(wd.cell) /\ UNCHANGED <<listed, todo>>
    BY <1>6 DEF probeAfterRepair, NextCell
  <2>2. CASE TestCell(wd.cell) /\ WdGoto("clear")
    BY <2>1, <2>2, WdGoesOn DEF Probe
  <2>3. CASE wd' = [wd EXCEPT !.tries = @ + 1]
    <3>1. wd \in WdRecord
      BY DEF WatchInv
    <3>2. wd'.at = "reprobe" /\ wd'.cell = wd.cell /\ wd' \in WdRecord
      BY <2>1, <2>3, <3>1, WdAgain
    <3> QED
      BY <2>1, <3>2 DEF WatchInv, Probe
  <2>4. CASE NextCell(FALSE)
    BY <2>1, <2>4, WdLoops DEF NextCell, Probe
  <2> QED
    BY <1>6, <2>2, <2>3, <2>4 DEF probeAfterRepair
<1>7. CASE clearCooldownIfNeeded
  BY <1>7, WdLoops DEF clearCooldownIfNeeded, NextCell, WatchInv
<1>8. CASE StepFails
  BY <1>8, WdLoops DEF StepFails, NextCell
<1>9. CASE HostChanges \/ BrokerStep \/ UNCHANGED <<cellVars, watchVars>>
  BY <1>9 DEF HostChanges, BrokerStep, watchVars, WatchInv
<1> QED
  BY <1>1, <1>2, <1>3, <1>4, <1>5, <1>6, <1>7, <1>8, <1>9 DEF WatchdogNext

\* RunOnce goes through every local cell it listed, whatever fails on the way, and clears
\* the cooldown of none that did not answer.
THEOREM TargetsProbed == WatchdogSpec => []EveryTargetProbed
<1>1. WatchInv => EveryTargetProbed
  BY DEF WatchInv, EveryTargetProbed
<1> QED
  BY <1>1, WatchBegins, WatchStep, PTL DEF WatchdogSpec

-----------------------------------------------------------------------------
(* The types.  The watchdog changes cells and nothing a handler has in hand,  *)
(* so what holds of the cells alone holds of both together.                  *)

\* The types of the cells, and what a refresh token of an account may be, follow.
LEMMA CellsTypesFollow == CellsTyped /\ LoginInv => CellsTypeOK
<1> SUFFICES ASSUME CellsTyped, LoginInv PROVE CellsTypeOK
  OBVIOUS
<1>1. ASSUME NEW s \in Subjects, accts[s] # NoAcct
      PROVE  accts[s].cell \in Cells \cup {""} /\ accts[s].refresh \in 0 .. issued[s]
  <2>1. accts[s] \in [cell : CellNames, refresh : Nat]
    BY <1>1 DEF CellsTyped, AcctRows
  <2>2. accts[s].cell \in CellNames /\ accts[s].refresh \in Nat
    BY <2>1
  <2>3. issued[s] \in Nat /\ accts[s].refresh <= issued[s]
    BY <1>1 DEF CellsTyped, LoginInv
  <2>4. accts[s].refresh \in 0 .. issued[s]
    BY <2>2, <2>3
  <2> QED
    BY <2>2, <2>4 DEF CellNames
<1>2. ASSUME NEW h \in Handlers
      PROVE  op[h].at \in {"idle", "save", "cell", "owners", "write", "route",
               "exchange", "find", "upsert", "store", "add", "close"}
  <2>1. op[h] \in Ops
    BY DEF CellsTyped
  <2>2. CASE op[h] = Idle
    BY <2>2 DEF Idle
  <2>3. CASE op[h] \in SaveOps \cup BindOps
    BY <2>3 DEF SaveOps, BindOps
  <2>4. CASE op[h] \in RouteOps \cup FindOps \cup LoginOps
    BY <2>4 DEF RouteOps, FindOps, LoginOps
  <2> QED
    BY <2>1, <2>2, <2>3, <2>4 DEF Ops
<1> QED
  BY <1>1, <1>2 DEF CellsTyped, CellsTypeOK

\* The rows, operations and histories have their types, and an account holds a token that was
\* issued to it.
THEOREM CellsTypesCorrect == CellsSpec => []CellsTypeOK
  BY CellsTypesHold, CellsTypesFollow, LoginInit, LoginStep, PTL DEF CellsSpec

-----------------------------------------------------------------------------

InHandOfWatchdog == {"probe", "ipv6", "restart", "reprobe", "clear"}

\* The types of the watchdog: what it works on is a local cell.
WatchTyped ==
  /\ WatchdogTypeOK /\ wd \in WdRecord
  /\ wd.at \in InHandOfWatchdog => wd.cell \in LocalCells

\* A local cell is a cell.
LEMMA LocalCell == LocalCells \subseteq Cells
  BY WatchdogAssumption

\* At least one probe follows a repair.
LEMMA Tries == 0 \in 0 .. RepairRetries - 1
  BY WatchdogAssumption

\* The watchdog at rest, or between two cells.
LEMMA WdRest ==
  ASSUME NEW x \in {"idle", "loop", "end"}, wd' = [WdIdle EXCEPT !.at = x]
  PROVE  /\ wd' \in WdRecord /\ wd'.at = x /\ wd'.tries \in 0 .. RepairRetries - 1
         /\ wd'.at \notin InHandOfWatchdog
<1>1. x \in WdStages
  BY DEF WdStages
<1>2. wd' \in WdRecord /\ wd'.at = x
  BY <1>1, WdNone
<1>3. wd'.tries = 0
  BY DEF WdIdle
<1> QED
  BY <1>2, <1>3, Tries DEF InHandOfWatchdog

\* On with the same cell.
LEMMA WdOn ==
  ASSUME WatchTyped, NEW x \in InHandOfWatchdog, wd.at \in InHandOfWatchdog, WdGoto(x)
  PROVE  /\ wd' \in WdRecord /\ wd'.at = x /\ wd'.tries \in 0 .. RepairRetries - 1
         /\ wd'.cell \in LocalCells /\ wd.cell \in LocalCells
<1>1. x \in WdStages /\ wd \in WdRecord /\ wd.cell \in LocalCells
  BY DEF WdStages, InHandOfWatchdog, WatchTyped
<1>2. wd' \in WdRecord /\ wd'.at = x /\ wd'.cell = wd.cell
  BY <1>1, WdStage DEF WdGoto
<1>3. wd'.tries = wd.tries
  BY <1>1 DEF WdGoto, WdRecord
<1>4. wd.tries \in 0 .. RepairRetries - 1
  BY DEF WatchTyped, WatchdogTypeOK
<1> QED
  BY <1>1, <1>2, <1>3, <1>4

\* The watchdog's variables keep their types.
LEMMA WatchTypeStep == WatchTyped /\ [WatchdogNext]_<<cellVars, watchVars>> => WatchTyped'
<1> SUFFICES ASSUME WatchTyped, [WatchdogNext]_<<cellVars, watchVars>> PROVE WatchTyped'
  OBVIOUS
<1> DEFINE Sets == /\ up \subseteq Cells /\ hasIPv6 \subseteq Cells /\ todo \subseteq LocalCells
                   /\ answered \subseteq tested
           At == /\ wd \in WdRecord /\ wd.tries \in 0 .. RepairRetries - 1
                 /\ wd.at \in InHandOfWatchdog => wd.cell \in LocalCells
<1>1. Sets /\ At
  BY DEF WatchTyped, WatchdogTypeOK
<1>2. ASSUME Sets', At' PROVE WatchTyped'
  <2>1. wd'.at \in WdStages
    BY <1>2 DEF WdRecord
  <2> QED
    BY <1>2, <2>1 DEF WatchTyped, WatchdogTypeOK, WdStages
<1>3. ASSUME NEW x \in {"loop", "end"}, wd' = [WdIdle EXCEPT !.at = x] PROVE At'
  BY <1>3, WdRest
<1>4. ASSUME NEW x \in InHandOfWatchdog, wd.at \in InHandOfWatchdog, WdGoto(x)
      PROVE  At' /\ wd.cell \in LocalCells
  BY <1>4, WdOn
<1>5. CASE RunOnce
  <2>1. Sets'
    BY <1>1, <1>5 DEF RunOnce, TargetCells
  <2> QED
    BY <1>2, <1>3, <1>5, <2>1 DEF RunOnce
<1>6. CASE ReconcileNext
  <2>1. Sets'
    BY <1>1, <1>6 DEF ReconcileNext
  <2>2. ASSUME NEW c \in todo, wd' = [at |-> "probe", cell |-> c, tries |-> 0] PROVE At'
    <3>1. wd' = Wd("probe", c) /\ c \in LocalCells /\ "probe" \in WdStages
      BY <1>1, <2>2 DEF Wd, WdStages
    <3>2. wd' \in WdRecord /\ wd'.cell = c
      BY <3>1, WdForm
    <3>3. wd'.tries = 0
      BY <2>2
    <3> QED
      BY <3>1, <3>2, <3>3, Tries
  <2> QED
    BY <1>2, <1>3, <1>6, <2>1, <2>2 DEF ReconcileNext
<1>7. CASE FirstProbe
  <2>1. Sets'
    BY <1>1, <1>7 DEF FirstProbe, Probe
  <2>2. PICK x \in InHandOfWatchdog : WdGoto(x)
    BY <1>7 DEF FirstProbe, InHandOfWatchdog
  <2>3. wd.at \in InHandOfWatchdog
    BY <1>7 DEF FirstProbe, InHandOfWatchdog
  <2> QED
    BY <1>2, <1>4, <2>1, <2>2, <2>3
<1>8. CASE AddIPv6
  <2>1. wd.at \in InHandOfWatchdog /\ "restart" \in InHandOfWatchdog /\ WdGoto("restart")
    BY <1>8 DEF AddIPv6, InHandOfWatchdog
  <2>2. At' /\ wd.cell \in LocalCells
    BY <1>4, <2>1
  <2>3. Sets'
    BY <1>1, <1>8, <2>2, LocalCell DEF AddIPv6
  <2> QED
    BY <1>2, <2>2, <2>3
<1>9. CASE RestartService
  <2>1. wd.at \in InHandOfWatchdog /\ "reprobe" \in InHandOfWatchdog /\ WdGoto("reprobe")
    BY <1>9 DEF RestartService, InHandOfWatchdog
  <2>2. At' /\ wd.cell \in LocalCells
    BY <1>4, <2>1
  <2>3. up' = up \ {wd.cell} \/ up' = up \cup {wd.cell}
    BY <1>9 DEF RestartService
  <2>4. Sets'
    BY <1>1, <1>9, <2>2, <2>3, LocalCell DEF RestartService
  <2> QED
    BY <1>2, <2>2, <2>4
<1>10. CASE probeAfterRepair
  <2>1. Sets' /\ wd.at \in InHandOfWatchdog /\ "clear" \in InHandOfWatchdog
    BY <1>1, <1>10 DEF probeAfterRepair, Probe, NextCell, InHandOfWatchdog
  <2>2. CASE WdGoto("clear")
    BY <1>2, <1>4, <2>1, <2>2
  <2>3. CASE wd' = [wd EXCEPT !.tries = @ + 1] /\ wd.tries + 1 < RepairRetries
    <3>1. wd' \in WdRecord /\ wd'.at = wd.at /\ wd'.cell = wd.cell
      BY <1>1, <2>3, WdAgain
    <3>2. wd'.tries = wd.tries + 1
      BY <1>1, <2>3 DEF WdRecord
    <3>3. wd.tries + 1 \in 0 .. RepairRetries - 1
      BY <1>1, <2>3, WatchdogAssumption
    <3>4. wd'.tries \in 0 .. RepairRetries - 1
      BY <3>2, <3>3
    <3> QED
      BY <1>1, <1>2, <2>1, <3>1, <3>4
  <2>4. CASE NextCell(FALSE)
    BY <1>2, <1>3, <2>1, <2>4 DEF NextCell
  <2> QED
    BY <1>10, <2>2, <2>3, <2>4 DEF probeAfterRepair
<1>11. CASE clearCooldownIfNeeded
  <2>1. Sets'
    BY <1>1, <1>11 DEF clearCooldownIfNeeded, NextCell
  <2> QED
    BY <1>2, <1>3, <1>11, <2>1 DEF clearCooldownIfNeeded, NextCell
<1>12. CASE StepFails
  <2>1. Sets'
    BY <1>1, <1>12 DEF StepFails, NextCell
  <2> QED
    BY <1>2, <1>3, <1>12, <2>1 DEF StepFails, NextCell
<1>13. CASE HostChanges
  <2>1. Sets'
    BY <1>1, <1>13, LocalCell DEF HostChanges
  <2>2. At'
    BY <1>1, <1>13 DEF HostChanges
  <2> QED
    BY <1>2, <2>1, <2>2
<1>14. CASE UNCHANGED watchVars
  BY <1>1, <1>2, <1>14 DEF watchVars
<1> QED
  BY <1>5, <1>6, <1>7, <1>8, <1>9, <1>10, <1>11, <1>12, <1>13, <1>14
     DEF WatchdogNext, BrokerStep

\* The watchdog begins at rest.
LEMMA WatchTypeBegins == WatchInit => WatchTyped
<1> SUFFICES ASSUME WatchInit PROVE WatchTyped
  OBVIOUS
<1>1. wd = Wd("idle", "") /\ "idle" \in WdStages
  BY DEF WatchInit, WdIdle, Wd, WdStages
<1>2. wd \in WdRecord /\ wd.at = "idle"
  BY <1>1, WdForm
<1>3. wd.tries = 0
  BY DEF WatchInit, WdIdle
<1>4. wd.tries \in 0 .. RepairRetries - 1
  BY <1>3, Tries
<1> QED
  BY <1>2, <1>4 DEF WatchInit, WatchTyped, WatchdogTypeOK, InHandOfWatchdog

\* To the cells a step of the watchdog is a step of the broker, or at most a cooldown is cleared.
LEMMA WatchdogToCells ==
  ASSUME CellsTyped, [WatchdogNext]_<<cellVars, watchVars>>
  PROVE  \/ [CellsNext]_cellVars
         \/ /\ UNCHANGED <<cellNow, accts, sessions, issued, op, histVars>>
            /\ cells' = cells \/ \E c : cells' = ClearedCell(c)
<1>1. CASE BrokerStep
  <2>1. cellNow + 1 \in 1 .. MaxCellNow + 1
    BY ClockBound DEF CellsTyped
  <2> QED
    BY <1>1, <2>1 DEF BrokerStep, CellsNext
<1>2. CASE HostChanges \/ clearCooldownIfNeeded
  BY <1>2 DEF HostChanges, clearCooldownIfNeeded
<1>3. CASE UNCHANGED cellVars
  BY <1>3
<1> QED
  BY <1>1, <1>2, <1>3 DEF WatchdogNext, RunOnce, ReconcileNext, FirstProbe, AddIPv6, RestartService,
     probeAfterRepair, StepFails

\* A cleared cell is a cell, with the proxy it had.
LEMMA ClearedTyped ==
  ASSUME CellsTyped, NEW c
  PROVE  /\ ClearedCell(c) \in [Cells -> CellRows \cup {NoCell}]
         /\ \A x \in Cells : /\ ClearedCell(c)[x] = NoCell <=> cells[x] = NoCell
                             /\ ClearedCell(c)[x].proxy = cells[x].proxy
<1>1. cells \in [Cells -> CellRows \cup {NoCell}]
  BY DEF CellsTyped
<1>2. CASE ClearedCell(c) = cells
  BY <1>1, <1>2
<1>3. CASE c \notin Cells
  <2>1. [cells EXCEPT ![c].until = 0] = cells
    BY <1>1, <1>3
  <2> QED
    BY <1>2, <2>1 DEF ClearedCell
<1>4. CASE c \in Cells /\ cells[c] # NoCell
  <2> DEFINE row == [cells[c] EXCEPT !.until = 0]
  <2>1. cells[c] \in CellRows
    BY <1>1, <1>4
  <2>2. 0 \in 0 .. MaxCellNow + 1
    BY ClockBound
  <2>3. row \in CellRows /\ row.proxy = cells[c].proxy /\ row.status = cells[c].status
    BY <2>1, <2>2 DEF CellRows
  <2>4. cells[c].status # "absent" /\ NoCell.status = "absent"
    BY <2>1 DEF CellRows, NoCell
  <2>5. row # NoCell
    BY <2>3, <2>4
  <2>6. ClearedCell(c) = [cells EXCEPT ![c] = row]
    BY <1>1, <1>4 DEF ClearedCell
  <2> HIDE DEF row
  <2> QED
    BY <1>1, <1>4, <2>3, <2>5, <2>6
<1> QED
  BY <1>2, <1>3, <1>4 DEF ClearedCell

\* What holds of the cells and the logins holds beside the watchdog.
LEMMA WatchdogKeepsCells ==
  ASSUME CellsTyped, LoginInv, SharedOnlyByRace, [WatchdogNext]_<<cellVars, watchVars>>
  PROVE  CellsTyped' /\ LoginInv' /\ SharedOnlyByRace'
<1>1. CASE [CellsNext]_cellVars
  BY <1>1, CellsTypeStep, LoginStep, SharingStep
<1>2. CASE /\ UNCHANGED <<cellNow, accts, sessions, issued, op, histVars>>
           /\ cells' = cells \/ \E c : cells' = ClearedCell(c)
  <2>1. UNCHANGED <<cellNow, accts, issued, op, known, writes, excused, overtaken>>
    BY <1>2 DEF histVars
  <2>2. /\ cells' \in [Cells -> CellRows \cup {NoCell}]
        /\ \A x \in Cells : (cells'[x] = NoCell <=> cells[x] = NoCell) /\ cells'[x].proxy = cells[x].proxy
    BY <1>2, ClearedTyped DEF CellsTyped
  <2>3. CellsTyped'
    BY <2>1, <2>2 DEF CellsTyped
  <2>4. LoginInv'
    BY <2>1 DEF LoginInv, LoginKeepsRefreshToken, InHand, Carries
  <2>5. SharedOnlyByRace'
    BY <2>1, <2>2 DEF SharedOnlyByRace, Holders
  <2> QED
    BY <2>3, <2>4, <2>5
<1> QED
  BY <1>1, <1>2, WatchdogToCells

\* A watchdog beside the broker: the types of both.
THEOREM WatchdogTypesCorrect == WatchdogSpec => [](CellsTypeOK /\ WatchdogTypeOK)
<1>1. WatchTyped => WatchdogTypeOK
  BY DEF WatchTyped
<1> QED
  BY <1>1, CellsTypeInit, LoginInit, SharingInit, WatchTypeBegins, WatchTypeStep, WatchdogKeepsCells,
     CellsTypesFollow, PTL DEF WatchdogSpec
=============================================================================
