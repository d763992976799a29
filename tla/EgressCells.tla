----------------------------- MODULE EgressCells -----------------------------
(***************************************************************************)
(* Egress cells and the accounts bound to them: pool/pool_cells.go, the    *)
(* admin handlers that edit cells (server/admin_cells.go) and bind         *)
(* accounts (server/admin_accounts.go), and the OAuth login that creates   *)
(* or renews an account (server/admin_oauth.go, admin_oauth_support.go).   *)
(*                                                                         *)
(* A handler takes the pool's lock once per call and not across calls, so  *)
(* each action below is one locked call and handlers interleave between    *)
(* them.  An account is named by its subject, which is unique within a     *)
(* provider.  Tokens are numbered in the order they are issued, 0 is none. *)
(***************************************************************************)
EXTENDS Naturals, FiniteSets

CONSTANTS
  Cells, Subjects, Handlers, OAuthSessions,
  AcctProvider,  \* subject -> provider
  MaxCellNow,    \* bound: the clock
  MaxEdits,      \* bound: admin edits, cooldowns, deletions and token rotations
  MaxHandled,    \* bound: bind and login requests
  SessionTTL     \* the 10 minutes an OAuth session is good for

\* "" is the cell of an account without one, "absent" marks rows that do not exist.
ASSUME CellsAssumption ==
  /\ {"", "absent"} \cap Cells = {}
  /\ \A s \in Subjects : AcctProvider[s] \in STRING
  /\ MaxCellNow \in Nat /\ MaxEdits \in Nat /\ MaxHandled \in Nat /\ SessionTTL \in Nat

NoCell == [status |-> "absent", proxy |-> "none", until |-> 0]  \* no row with this id
NoAcct == [cell |-> "absent", refresh |-> 0]

VARIABLES
  cellNow, edits, handled,
  cells,      \* id -> row, or NoCell
  accts,      \* subject -> [cell, refresh], or NoAcct
  sessions,   \* OAuth session -> expiry, 0 when it does not exist
  issued,     \* subject -> refresh tokens issued by the provider
  op,         \* handler -> the request it works on
  known,      \* history: subject -> newest refresh token the account has held
  writes,     \* history: subject -> how often its tokens were stored
  excused,    \* history: accounts whose binding was overtaken between check and write
  overtaken   \* history: accounts whose tokens changed under a login

cellVars == <<cellNow, edits, handled, cells, accts, sessions, issued, op, known, writes, excused,
              overtaken>>
histVars == <<known, writes, excused, overtaken>>

\* The part of a row the code decides by: status "error" acts like "disabled"; a row
\* without proxy host or port has proxy "none"; until 0 is no cooldown.
CellRows == [status : {"active", "disabled"}, proxy : {"socks5", "http", "none"},
             until : 0 .. MaxCellNow + 1]
Idle == [at |-> "idle"]
Goto(h, next) == op' = [op EXCEPT ![h].at = next]
Done(h) == op' = [op EXCEPT ![h] = Idle]

\* accountCellBindError returns "".
Bindable(row) ==
  /\ row # NoCell /\ row.status = "active"
  /\ cellNow >= row.until
  /\ row.proxy # "none"

Holders(c) == {s \in Subjects : accts[s] # NoAcct /\ accts[s].cell = c}

\* A mutant of accountOwnsCell: it compares the account with itself only.
accountOwnsCellSelf(s, c) ==
  \E o \in Holders(c) : o = s /\ AcctProvider[o] = AcctProvider[s]

accountOwnsCell(s, c) ==
  \E o \in Holders(c) : o # s /\ AcctProvider[o] = AcctProvider[s]

\* What the exclusivity check is for: s may have c alone, or c is a SOCKS5 proxy.
Exclusive(s, c) ==
  \/ c = "" \/ cells[c] = NoCell \/ cells[c].proxy = "socks5"
  \/ ~\E o \in Holders(c) : o # s /\ AcctProvider[o] = AcctProvider[s]

CellsInit ==
  /\ cellNow = 0 /\ edits = 0 /\ handled = 0
  /\ cells \in [Cells -> {NoCell, [status |-> "active", proxy |-> "http", until |-> 0],
                          [status |-> "active", proxy |-> "socks5", until |-> 1]}]
  /\ accts \in [Subjects -> {NoAcct, [cell |-> "", refresh |-> 1]}]
  /\ issued = [s \in Subjects |-> IF accts[s] = NoAcct THEN 0 ELSE 1]
  /\ known = issued
  /\ writes = [s \in Subjects |-> 0]
  /\ sessions = [x \in OAuthSessions |-> 0]
  /\ op = [h \in Handlers |-> Idle]
  /\ excused = {} /\ overtaken = {}

-----------------------------------------------------------------------------
(* Cells. *)
Edit == edits < MaxEdits /\ edits' = edits + 1

\* handleUpsertEgressCell up to SaveCell: the cooldown is the one GetCell saw.
UpsertRead(h) ==
  /\ op[h] = Idle /\ Edit
  /\ \E c \in Cells, status \in {"active", "disabled"}, proxy \in {"socks5", "http", "none"},
        createOnly \in BOOLEAN :
       /\ ~(createOnly /\ cells[c] # NoCell)
       /\ op' = [op EXCEPT ![h] =
            [at |-> "save", cell |-> c,
             row |-> [status |-> status, proxy |-> proxy,
                      until |-> IF cells[c] = NoCell THEN 0 ELSE cells[c].until]]]
  /\ UNCHANGED <<cellNow, handled, cells, accts, sessions, issued, histVars>>

\* SaveCell writes the whole row of the caller.  Accounts that could share the cell
\* while it was a SOCKS5 proxy stay on it.
SaveCell(h) ==
  /\ op[h].at = "save" /\ Done(h)
  /\ cells' = [cells EXCEPT ![op[h].cell] = op[h].row]
  /\ excused' = excused \cup IF op[h].row.proxy # "socks5" THEN Holders(op[h].cell) ELSE {}
  /\ UNCHANGED <<cellNow, edits, handled, accts, sessions, issued, known, writes, overtaken>>

\* applyCellCooldownLocked: a later cooldown stands.
CooldownCell(c, until) ==
  /\ Edit /\ cells[c] # NoCell
  /\ cells[c].until <= until
  /\ cells' = [cells EXCEPT ![c].until = until]
  /\ UNCHANGED <<cellNow, handled, accts, sessions, issued, op, histVars>>

ClearedCell(c) == IF cells[c] = NoCell THEN cells ELSE [cells EXCEPT ![c].until = 0]

ClearCellCooldown(c) ==
  /\ Edit /\ cells[c] # NoCell
  /\ cells' = ClearedCell(c)
  /\ UNCHANGED <<cellNow, handled, accts, sessions, issued, op, histVars>>

-----------------------------------------------------------------------------
(* Binding an account to a cell. *)
Handle == handled < MaxHandled /\ handled' = handled + 1

\* pool.Get, and the request read.
handleBindAccountCell(h) ==
  /\ op[h] = Idle /\ Handle
  /\ \E s \in Subjects, c \in Cells \cup {""} :
       /\ accts[s] # NoAcct
       /\ op' = [op EXCEPT ![h] =
            [at |-> IF c = "" THEN "write" ELSE "cell", for |-> "bind", subject |-> s,
             cell |-> c, was |-> accts[s].cell, free |-> TRUE]]
  /\ UNCHANGED <<cellNow, edits, cells, accts, sessions, issued, histVars>>

Checked(h) == IF op[h].for = "bind" THEN "write" ELSE "upsert"

\* GetCell: the cell exists and may be bound, unless the account has it already.
\* (A login does not look at a cell the account has.)
CheckCell(h) ==
  /\ op[h].at = "cell"
  /\ LET o == op[h]
         row == cells[o.cell]
     IN  \/ /\ o.cell = o.was /\ (o.for = "bind" => row # NoCell)
            /\ Goto(h, Checked(h))
         \/ /\ o.cell # o.was /\ Bindable(row) /\ row.proxy = "socks5"
            /\ Goto(h, Checked(h))
         \/ /\ o.cell # o.was /\ Bindable(row) /\ row.proxy # "socks5"
            /\ Goto(h, "owners")
         \/ /\ IF o.cell = o.was THEN o.for = "bind" /\ row = NoCell ELSE ~Bindable(row)
            /\ Done(h)
  /\ UNCHANGED <<cellNow, edits, handled, cells, accts, sessions, issued, histVars>>

\* pool.List and accountOwnsCell.
CheckOwners(h) ==
  /\ op[h].at = "owners"
  /\ \/ accountOwnsCell(op[h].subject, op[h].cell) /\ Done(h)
     \/ /\ ~accountOwnsCell(op[h].subject, op[h].cell)
        /\ op' = [op EXCEPT ![h].at = Checked(h),
                            ![h].free = Exclusive(op[h].subject, op[h].cell)]
  /\ UNCHANGED <<cellNow, edits, handled, cells, accts, sessions, issued, histVars>>

\* The history of a write of the binding: overtaken if the check held and no longer does.
Written(o) ==
  IF accts[o.subject] # NoAcct /\ accts[o.subject].cell = o.cell THEN excused
  ELSE IF o.free /\ ~Exclusive(o.subject, o.cell) THEN excused \cup {o.subject}
  ELSE excused \ {o.subject}

\* pool.Update: the account may be gone.  A login ignores the error.
Update(h) ==
  /\ op[h].at = "write"
  /\ LET o == op[h]
         gone == accts[o.subject] = NoAcct
     IN  /\ accts' = IF gone THEN accts ELSE [accts EXCEPT ![o.subject].cell = o.cell]
         /\ excused' = IF gone THEN excused ELSE Written(o)
         /\ IF o.for = "login" THEN Goto(h, "close") ELSE Done(h)
  /\ UNCHANGED <<cellNow, edits, handled, cells, sessions, issued, known, writes, overtaken>>

\* handleDeleteAccount.
DeleteAccount(s) ==
  /\ Edit /\ accts[s] # NoAcct
  /\ accts' = [accts EXCEPT ![s] = NoAcct]
  /\ known' = [known EXCEPT ![s] = 0]
  /\ excused' = excused \ {s} /\ overtaken' = overtaken \ {s}
  /\ UNCHANGED <<cellNow, handled, cells, sessions, issued, op, writes>>

-----------------------------------------------------------------------------
(* OAuth login. *)
\* handleGenerateAuthURL and storeOAuthSession.
handleGenerateAuthURL(x) ==
  /\ sessions[x] = 0
  /\ sessions' = [sessions EXCEPT ![x] = cellNow + SessionTTL]
  /\ UNCHANGED <<cellNow, edits, handled, cells, accts, issued, op, histVars>>

PurgeExpiredOAuthSessions ==
  /\ \E x \in OAuthSessions : sessions[x] # 0 /\ sessions[x] <= cellNow
  /\ sessions' = [x \in OAuthSessions |-> IF sessions[x] <= cellNow THEN 0 ELSE sessions[x]]
  /\ UNCHANGED <<cellNow, edits, handled, cells, accts, issued, op, histVars>>

\* hydrateExchangeCodeRequest: GetOAuthSession filters by expiry and does not delete.
\* Without a session ("") the request brings its own verifier and state.
handleExchangeCode(h) ==
  /\ op[h] = Idle /\ Handle
  /\ \E x \in OAuthSessions \cup {""}, c \in Cells \cup {""} :
       /\ x \in OAuthSessions => sessions[x] > cellNow
       /\ op' = [op EXCEPT ![h] = [at |-> "route", for |-> "login", session |-> x, cell |-> c]]
  /\ UNCHANGED <<cellNow, edits, cells, accts, sessions, issued, histVars>>

oauthClientForRoute(h) ==
  /\ op[h].at = "route"
  /\ IF op[h].cell = "" \/ Bindable(cells[op[h].cell]) THEN Goto(h, "exchange") ELSE Done(h)
  /\ UNCHANGED <<cellNow, edits, handled, cells, accts, sessions, issued, histVars>>

Held(s) == IF accts[s] = NoAcct THEN 0 ELSE accts[s].refresh

\* The provider: it refuses the code, or grants tokens for a subject, a refresh token
\* among them or not.
ExchangeCode(h) ==
  /\ op[h].at = "exchange"
  /\ \/ Done(h) /\ UNCHANGED issued
     \/ \E s \in Subjects, withRefresh \in BOOLEAN :
          /\ issued' = IF withRefresh THEN [issued EXCEPT ![s] = @ + 1] ELSE issued
          /\ op' = [op EXCEPT ![h] =
               [at |-> "find", for |-> "login", session |-> op[h].session,
                cell |-> op[h].cell, subject |-> s, seen |-> writes[s], free |-> TRUE,
                refresh |-> IF withRefresh THEN issued'[s] ELSE 0]]
  /\ UNCHANGED <<cellNow, edits, handled, cells, accts, sessions, histVars>>

\* FindBySubject, for validateExchangeCellSelection.
FindBySubject(h) ==
  /\ op[h].at = "find"
  /\ LET o == op[h]
         was == IF accts[o.subject] = NoAcct THEN "" ELSE accts[o.subject].cell
     IN  op' = [op EXCEPT ![h] =
           [at |-> IF o.cell = "" THEN "upsert" ELSE "cell", for |-> "login",
            session |-> o.session, cell |-> o.cell, subject |-> o.subject, was |-> was,
            seen |-> o.seen, free |-> TRUE, refresh |-> o.refresh]]
  /\ UNCHANGED <<cellNow, edits, handled, cells, accts, sessions, issued, histVars>>

\* A mutant of encryptExchangeTokens: the stored refresh token is not kept.
encryptExchangeTokensFresh(refresh, stored) == refresh

\* Without a new refresh token the one of the account is kept.
encryptExchangeTokens(refresh, stored) == IF refresh # 0 THEN refresh ELSE stored

\* upsertExchangedAccount: FindBySubject again, and the tokens encrypted.
upsertExchangedAccount(h) ==
  /\ op[h].at = "upsert"
  /\ LET s == op[h].subject
     IN  op' = [op EXCEPT
           ![h].at = IF accts[s] = NoAcct THEN "add" ELSE "store",
           ![h].refresh = encryptExchangeTokens(op[h].refresh, Held(s))]
  /\ UNCHANGED <<cellNow, edits, handled, cells, accts, sessions, issued, histVars>>

\* The history of a write of tokens.
Stored(o) ==
  /\ known' = [known EXCEPT ![o.subject] = IF @ < o.refresh THEN o.refresh ELSE @]
  /\ writes' = [writes EXCEPT ![o.subject] = @ + 1]
  /\ overtaken' = IF o.refresh >= known[o.subject] THEN overtaken \ {o.subject}
                  ELSE IF writes[o.subject] # o.seen THEN overtaken \cup {o.subject}
                  ELSE overtaken

\* updateExchangedAccount: StoreTokens; Update follows.
StoreTokens(h) ==
  /\ op[h].at = "store"
  /\ LET o == op[h]
     IN  \/ /\ accts[o.subject] # NoAcct
            /\ accts' = [accts EXCEPT ![o.subject].refresh = o.refresh]
            /\ Stored(o) /\ Goto(h, "write")
         \/ /\ accts[o.subject] = NoAcct /\ Done(h)
            /\ UNCHANGED <<accts, known, writes, overtaken>>
  /\ UNCHANGED <<cellNow, edits, handled, cells, sessions, issued, excused>>

\* createExchangedAccount: the insert fails when the subject exists by now.
Add(h) ==
  /\ op[h].at = "add"
  /\ LET o == op[h]
     IN  \/ /\ accts[o.subject] = NoAcct
            /\ accts' = [accts EXCEPT ![o.subject] = [cell |-> o.cell, refresh |-> o.refresh]]
            /\ excused' = Written(o) /\ Stored(o) /\ Goto(h, "close")
         \/ /\ accts[o.subject] # NoAcct /\ Done(h)
            /\ UNCHANGED <<accts, histVars>>
  /\ UNCHANGED <<cellNow, edits, handled, cells, sessions, issued>>

\* DelOAuthSession, the last step of a login; an error is only logged.
DelOAuthSession(h) ==
  /\ op[h].at = "close" /\ Done(h)
  /\ \/ /\ op[h].session \in OAuthSessions
        /\ sessions' = [sessions EXCEPT ![op[h].session] = 0]
     \/ UNCHANGED sessions
  /\ UNCHANGED <<cellNow, edits, handled, cells, accts, issued, histVars>>

\* The token refresher rotates the account's refresh token (module TokenRefresh).
Rotate(s) ==
  /\ Edit /\ accts[s] # NoAcct
  /\ issued' = [issued EXCEPT ![s] = @ + 1]
  /\ accts' = [accts EXCEPT ![s].refresh = issued'[s]]
  /\ known' = [known EXCEPT ![s] = issued'[s]]
  /\ writes' = [writes EXCEPT ![s] = @ + 1]
  /\ overtaken' = overtaken \ {s}
  /\ UNCHANGED <<cellNow, handled, cells, sessions, op, excused>>

CellTick ==
  /\ cellNow < MaxCellNow /\ cellNow' = cellNow + 1
  /\ UNCHANGED <<edits, handled, cells, accts, sessions, issued, op, histVars>>

CellsNext ==
  \/ CellTick \/ PurgeExpiredOAuthSessions
  \/ \E h \in Handlers :
       \/ UpsertRead(h) \/ SaveCell(h)
       \/ handleBindAccountCell(h) \/ CheckCell(h) \/ CheckOwners(h) \/ Update(h)
       \/ handleExchangeCode(h) \/ oauthClientForRoute(h) \/ ExchangeCode(h)
       \/ FindBySubject(h) \/ upsertExchangedAccount(h) \/ StoreTokens(h) \/ Add(h)
       \/ DelOAuthSession(h)
  \/ \E c \in Cells : ClearCellCooldown(c) \/ \E u \in 1 .. MaxCellNow + 1 : CooldownCell(c, u)
  \/ \E s \in Subjects : DeleteAccount(s) \/ Rotate(s)
  \/ \E x \in OAuthSessions : handleGenerateAuthURL(x)

CellsSpec == CellsInit /\ [][CellsNext]_cellVars

-----------------------------------------------------------------------------
CellsTypeOK ==
  /\ cells \in [Cells -> CellRows \cup {NoCell}]
  /\ \A s \in Subjects : accts[s] # NoAcct =>
       accts[s].cell \in Cells \cup {""} /\ accts[s].refresh \in 0 .. issued[s]
  /\ \A h \in Handlers : op[h].at \in {"idle", "save", "cell", "owners", "write", "route",
       "exchange", "find", "upsert", "store", "add", "close"}
  /\ excused \subseteq Subjects /\ overtaken \subseteq Subjects

\* "cell is already bound to another account of the same provider": two accounts of a
\* provider are on one HTTP cell only if the cell stopped being a SOCKS5 proxy under
\* them, or two bind or login requests overlapped so that the check of the second
\* (accountOwnsCell) came before the write of the first.  One request at a time never
\* brings it about, whichever handler makes it.
SharedOnlyByRace ==
  \A s, o \in Subjects : \A c \in Cells :
    (s # o /\ {s, o} \subseteq Holders(c) /\ AcctProvider[s] = AcctProvider[o]
       /\ cells[c] # NoCell /\ cells[c].proxy # "socks5")
      => {s, o} \cap excused # {}

\* A login of an account that exists (updateExchangedAccount) leaves it the newest
\* refresh token it has had, also when the provider returned none, unless another
\* login or a refresh stored tokens after this login got its own.
LoginKeepsRefreshToken ==
  \A s \in Subjects : accts[s] # NoAcct /\ accts[s].refresh < known[s] => s \in overtaken
=============================================================================
