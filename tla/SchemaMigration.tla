--------------------------- MODULE SchemaMigration ---------------------------
(***************************************************************************)
(* `llm-broker migrate` (store/sqlite_schema.go): the steps of Migrate in  *)
(* the order of the code, each one SQL statement or one transaction, and   *)
(* the check every start of the server makes.  A migration can be cut off  *)
(* between any two steps, or inside the script that creates the tables,    *)
(* and is then run again from the start; an open transaction is rolled     *)
(* back.                                                                   *)
(*                                                                         *)
(* Of the columns the model keeps what the steps read: the schema a table  *)
(* has ("absent", "legacy", for accounts also "keyed", which already has   *)
(* bucket_key but is not current, and "current"), the account's subject,   *)
(* bucket key and cooldown, and the target of a session binding.           *)
(***************************************************************************)
EXTENDS Naturals, FiniteSets

CONSTANTS
  AccountIds, Sessions, UserIds, LogIds,
  Populations, \* the sets of accounts a database may hold
  Subject,     \* account -> its subject, or "" in an old row
  StoredKey,   \* account -> the bucket_key of a table that has the column
  Target,      \* session -> the account it was bound to
  MaxRuns      \* bound: runs of the command

ASSUME MigrationAssumption ==
  /\ Populations \subseteq SUBSET AccountIds
  /\ Subject \in [AccountIds -> STRING]
  /\ Target \in [Sessions -> AccountIds]
  /\ MaxRuns \in Nat

VARIABLES
  step,      \* where Migrate is, "idle" when no run is under way
  runs,      \* runs started
  schema,    \* table -> schema
  accounts,  \* the rows: account -> bucket_key
  cool,      \* account -> the cooldown in the row of a table that has the column
  buckets,   \* quota_buckets: key -> "cool" or "none"
  bindings,  \* session -> account id (legacy) or identity (current)
  users, logs,
  indexes,   \* the indexes of request_log
  before     \* what was there before the first run: schemas and cooldowns

migrationVars == <<step, runs, schema, accounts, cool, buckets, bindings, users, logs,
                   indexes, before>>
dataVars == <<schema, accounts, cool, buckets, bindings, users, logs, indexes>>

Tables == {"accounts", "buckets", "bindings", "users", "logs", "routes"}
LogIndexes == {"created", "user", "status", "cell"}

\* provider || ':' || subject, or the id of an account without subject.
DefaultKey(a) == IF Subject[a] # "" THEN <<"subject", Subject[a]>> ELSE <<"id", a>>
Identity(a) == <<"subject", Subject[a]>>

\* The key the server knows an account by (pool/pool_buckets.go, bucketKeyLocked), in
\* a table that has the column: the stored one, which for Gemini names the project too.
KeyInUse(a) == IF StoredKey[a] # "" THEN StoredKey[a] ELSE DefaultKey(a)

Keys == {DefaultKey(a) : a \in AccountIds} \cup {KeyInUse(a) : a \in AccountIds}
NoRows == [x \in {} |-> 0]

-----------------------------------------------------------------------------
(* The databases a release may find: none at all, or one an earlier release  *)
(* left, whose tables may each be older or current.  acc is the schema of    *)
(* accounts, rest those of the other tables, ids the accounts and c their    *)
(* cooldowns.                                                                *)
Found(acc, rest, ids, c) ==
  /\ schema = [t \in Tables |->
       IF t = "accounts" THEN acc
       ELSE IF t \in DOMAIN rest THEN rest[t]
       ELSE IF acc \in {"keyed", "current"} THEN "current" ELSE "absent"]
  /\ acc = "absent" => \A t \in DOMAIN rest : rest[t] = "absent"
  /\ accounts = IF acc = "absent" THEN NoRows
                ELSE [a \in ids |-> IF acc = "legacy" THEN "" ELSE StoredKey[a]]
  /\ \A a \in AccountIds \ ids : c[a] = "none"
  /\ cool = IF acc = "legacy" THEN [a \in ids |-> c[a]] ELSE NoRows
  /\ buckets = IF acc \in {"keyed", "current"}
               THEN [k \in {KeyInUse(a) : a \in ids} |->
                       IF \E a \in ids : KeyInUse(a) = k /\ c[a] = "cool"
                       THEN "cool" ELSE "none"]
               ELSE NoRows
  /\ bindings = CASE rest["bindings"] = "absent"  -> NoRows
                  [] rest["bindings"] = "legacy"  -> Target
                  [] rest["bindings"] = "current" ->
                       [s \in {x \in Sessions : Subject[Target[x]] # ""} |->
                          Identity(Target[s])]
  /\ users = IF rest["users"] = "absent" THEN {} ELSE UserIds
  /\ logs = IF rest["logs"] = "absent" THEN {} ELSE LogIds
  /\ indexes = IF rest["logs"] = "absent" THEN {} ELSE {"created", "user"}
  /\ before = [schema |-> schema, accounts |-> DOMAIN accounts, users |-> users,
               logs |-> logs, bindings |-> bindings,
               cool |-> [a \in DOMAIN accounts |->
                  IF acc = "legacy" THEN c[a] ELSE buckets[KeyInUse(a)]]]

MigrationInit ==
  /\ step = "idle" /\ runs = 0
  /\ \E acc \in {"absent", "legacy", "keyed", "current"},
        rest \in [{"bindings", "users", "logs"} -> {"absent", "legacy", "current"}],
        ids \in Populations, c \in [AccountIds -> {"cool", "none"}] :
       Found(acc, rest, ids, c)

-----------------------------------------------------------------------------
Goto(from, to) == step = from /\ step' = to /\ UNCHANGED <<runs, before>>

Run ==
  /\ step = "idle" /\ runs < MaxRuns
  /\ step' = "create" /\ runs' = runs + 1
  /\ UNCHANGED <<dataVars, before>>

\* CREATE TABLE IF NOT EXISTS for some of the tables the script names.
Create(tables) ==
  /\ schema' = [t \in Tables |->
       IF schema[t] = "absent" /\ t \in tables THEN "current" ELSE schema[t]]
  /\ indexes' = indexes \cup IF "logs" \in tables THEN {"created", "user"} ELSE {}
  /\ UNCHANGED <<accounts, cool, buckets, bindings, users, logs>>

schemaSQL == Goto("create", "sync") /\ Create(Tables \ {"routes"})

\* The script is cut off part of the way.
CreateInterrupted ==
  /\ Goto("create", "idle")
  /\ \E tables \in SUBSET (Tables \ {"routes"}) : Create(tables)

\* The key of an account for quota_buckets: the stored one when there is one.
BucketKeyExpr(a) ==
  IF schema["accounts"] \in {"keyed", "current"} /\ accounts[a] # "" THEN accounts[a]
  ELSE DefaultKey(a)

\* A mutant of SyncBuckets: the cooldown of the old columns is not carried over.
SyncBucketsBlank ==
  /\ Goto("sync", "prune")
  /\ LET missing == {BucketKeyExpr(a) : a \in DOMAIN accounts} \ DOMAIN buckets
     IN  buckets' = [k \in DOMAIN buckets \cup missing |->
                       IF k \in DOMAIN buckets THEN buckets[k] ELSE "none"]
  /\ UNCHANGED <<schema, accounts, cool, bindings, users, logs, indexes>>

\* INSERT OR IGNORE INTO quota_buckets ... SELECT FROM accounts.  Of several accounts
\* with one key the first one counts.
SyncBuckets ==
  /\ Goto("sync", "prune")
  /\ LET missing == {BucketKeyExpr(a) : a \in DOMAIN accounts} \ DOMAIN buckets
         seed == [k \in missing |-> CHOOSE a \in DOMAIN accounts : BucketKeyExpr(a) = k]
     IN  buckets' = [k \in DOMAIN buckets \cup missing |->
                       IF k \in DOMAIN buckets THEN buckets[k]
                       ELSE IF schema["accounts"] = "legacy" THEN cool[seed[k]] ELSE "none"]
  /\ UNCHANGED <<schema, accounts, cool, bindings, users, logs, indexes>>

\* DELETE FROM quota_buckets WHERE bucket_key NOT IN (the accounts' keys).
PruneBuckets ==
  /\ Goto("prune", "accounts")
  /\ buckets' = [k \in {x \in DOMAIN buckets : \E a \in DOMAIN accounts :
                          BucketKeyExpr(a) = x} |-> buckets[k]]
  /\ UNCHANGED <<schema, accounts, cool, bindings, users, logs, indexes>>

\* accounts_new has UNIQUE(provider, subject); the model's accounts share a provider.
Distinct == \A a, b \in DOMAIN accounts : Subject[a] = Subject[b] => a = b

\* A mutant of migrateAccountsTable: no transaction, so it can stop after the DROP.
migrateAccountsTableUnsafely ==
  \/ /\ Goto("accounts", "idle") /\ schema["accounts"] \notin {"absent", "current"}
     /\ schema' = [schema EXCEPT !["accounts"] = "absent"]
     /\ accounts' = NoRows /\ cool' = NoRows
     /\ UNCHANGED <<buckets, bindings, users, logs, indexes>>
  \/ /\ Goto("accounts", "bindings")
     /\ schema' = [schema EXCEPT !["accounts"] = "current"]
     /\ accounts' = [a \in DOMAIN accounts |-> DefaultKey(a)] /\ cool' = NoRows
     /\ UNCHANGED <<buckets, bindings, users, logs, indexes>>

\* One transaction: copy with the key recomputed, drop, rename.
migrateAccountsTable ==
  /\ Goto("accounts", "bindings")
  /\ \/ /\ schema["accounts"] = "current"
        /\ UNCHANGED <<schema, accounts, cool>>
     \/ /\ schema["accounts"] # "current" /\ Distinct
        /\ schema' = [schema EXCEPT !["accounts"] = "current"]
        /\ accounts' = [a \in DOMAIN accounts |-> DefaultKey(a)]
        /\ cool' = NoRows
  /\ UNCHANGED <<buckets, bindings, users, logs, indexes>>

\* The copy breaks the UNIQUE constraint: Migrate returns the error.
CopyAccountsFails ==
  /\ Goto("accounts", "idle")
  /\ schema["accounts"] # "current" /\ ~Distinct
  /\ UNCHANGED dataVars

\* One transaction: a binding to an account becomes one to its identity; an inner
\* join drops the bindings of accounts that are gone or have no subject.
migrateSessionBindingsTable ==
  /\ Goto("bindings", "routes")
  /\ schema' = [schema EXCEPT !["bindings"] = "current"]
  /\ bindings' = IF schema["bindings"] = "current" THEN bindings
                 ELSE [s \in {x \in DOMAIN bindings : /\ bindings[x] \in DOMAIN accounts
                                                      /\ Subject[bindings[x]] # ""} |->
                         Identity(bindings[s])]
  /\ UNCHANGED <<accounts, cool, buckets, users, logs, indexes>>

DropRouteBindings ==
  /\ Goto("routes", "users")
  /\ schema' = [schema EXCEPT !["routes"] = "absent"]
  /\ UNCHANGED <<accounts, cool, buckets, bindings, users, logs, indexes>>

\* One transaction; the new columns get "native" and no bound account.
migrateUsersTable ==
  /\ Goto("users", "logs")
  /\ schema' = [schema EXCEPT !["users"] = "current"]
  /\ UNCHANGED <<accounts, cool, buckets, bindings, users, logs, indexes>>

\* One transaction; the indexes go with the old table and are made anew.
migrateRequestLogTable ==
  /\ Goto("logs", "indexes")
  /\ schema' = [schema EXCEPT !["logs"] = "current"]
  /\ indexes' = IF schema["logs"] = "current" THEN indexes ELSE LogIndexes
  /\ UNCHANGED <<accounts, cool, buckets, bindings, users, logs>>

ensureRequestLogIndexes ==
  /\ Goto("indexes", "validate")
  /\ indexes' = LogIndexes
  /\ UNCHANGED <<schema, accounts, cool, buckets, bindings, users, logs>>

\* Every table the server uses has exactly the wanted columns.
validateCurrentSchema == \A t \in Tables \ {"routes"} : schema[t] = "current"

Validate ==
  /\ Goto("validate", "done")
  /\ validateCurrentSchema
  /\ UNCHANGED dataVars

\* The command is run again on a migrated database.
Again == Goto("done", "idle") /\ UNCHANGED dataVars

\* The process dies, or a statement fails, between two steps.
Interrupted ==
  /\ \E s \in {"sync", "prune", "accounts", "bindings", "routes", "users", "logs",
               "indexes", "validate"} : Goto(s, "idle")
  /\ UNCHANGED dataVars

MigrationNext ==
  \/ Run \/ schemaSQL \/ CreateInterrupted \/ SyncBuckets \/ PruneBuckets
  \/ migrateAccountsTable \/ CopyAccountsFails \/ migrateSessionBindingsTable
  \/ DropRouteBindings \/ migrateUsersTable \/ migrateRequestLogTable
  \/ ensureRequestLogIndexes \/ Validate \/ Again \/ Interrupted

MigrationSpec == MigrationInit /\ [][MigrationNext]_migrationVars

-----------------------------------------------------------------------------
MigrationTypeOK ==
  /\ step \in {"idle", "create", "sync", "prune", "accounts", "bindings", "routes", "users",
               "logs", "indexes", "validate", "done"}
  /\ runs \in 0 .. MaxRuns
  /\ schema \in [Tables -> {"absent", "legacy", "keyed", "current"}]
  /\ DOMAIN accounts \subseteq AccountIds
  /\ DOMAIN buckets \subseteq Keys
  /\ DOMAIN bindings \subseteq Sessions
  /\ users \subseteq UserIds /\ logs \subseteq LogIds /\ indexes \subseteq LogIndexes

\* Migrate rebuilds tables by copy, drop and rename: wherever a run is cut off, and
\* however often it is repeated, every account, user and log row there was before is
\* still there, and so is every session binding that has a subject to go to.
RowsSurvive ==
  /\ before.accounts \subseteq DOMAIN accounts
  /\ before.users \subseteq users
  /\ before.logs \subseteq logs
  /\ {s \in DOMAIN before.bindings : Subject[Target[s]] # ""
        /\ (Target[s] \in before.accounts \/ before.schema["bindings"] = "current")}
       \subseteq DOMAIN bindings

\* When Migrate returns without error the server starts (validateCurrentSchema) and
\* nothing is schedulable that was not: each account finds, under the bucket key it
\* now has, the cooldown its old row or bucket held, even if earlier runs were cut
\* off; and each session still leads to the account it was bound to.  The one account
\* this does not hold for is a Gemini account whose key names its project, in a table
\* that is not current: migrateAccountsTable copies it under provider:subject.
MigratedFaithfully ==
  step = "done" =>
    /\ validateCurrentSchema /\ indexes = LogIndexes
    /\ \A a \in before.accounts :
         (before.schema["accounts"] = "keyed" => KeyInUse(a) = DefaultKey(a)) =>
           /\ BucketKeyExpr(a) \in DOMAIN buckets
           /\ before.cool[a] = "cool" => buckets[BucketKeyExpr(a)] = "cool"
    /\ \A s \in DOMAIN bindings :
         Subject[Target[s]] # "" /\ bindings[s] = Identity(Target[s])
=============================================================================
