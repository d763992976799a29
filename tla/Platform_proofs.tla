--------------------------- MODULE Platform_proofs ---------------------------
(***************************************************************************)
(* What the server does beside its requests, part by part and together.    *)
(*                                                                         *)
(* The background jobs (ServerJobs), for any number of processes: who runs *)
(* the jobs holds the lock file, which has one holder (OneLeader); and the *)
(* purge deletes no log row younger than the retention (RetentionKept).    *)
(*                                                                         *)
(* `llm-broker migrate` (SchemaMigration), for any number of accounts,     *)
(* sessions and interrupted runs: no row is lost between two steps         *)
(* (RowsSurvive), and a run that ends leaves every account its cooldown    *)
(* under the key it now has and every session its account                  *)
(* (MigratedFaithfully).                                                   *)
(*                                                                         *)
(* The event bus (EventBus), for every size of the ring and of the         *)
(* channels and any number of events and subscribers.                      *)
(***************************************************************************)
EXTENDS MCPlatform, SequenceTheorems, TLAPS

-----------------------------------------------------------------------------
(* The election.                                                           *)

\* The inductive invariant.  That a leader holds the lock is not enough by itself:
\* the steps need the shape of server, whose values they overwrite one at a time.
LeaderHoldsLock ==
  /\ server \in [Servers -> {"down", "off", "try", "wait", "lead"}]
  /\ \A p \in Servers : server[p] = "lead" => lockFile = p

\* Steps of the log and of the purge leave the election alone.
LEMMA ElectionUntouched ==
  ASSUME LeaderHoldsLock, UNCHANGED electionVars
  PROVE  LeaderHoldsLock'
BY DEF LeaderHoldsLock, electionVars

\* A step of the loop for the lock, or the end of a process, keeps the invariant.
LEMMA ElectionStep ==
  ASSUME LeaderHoldsLock, NEW p \in Servers,
         Boot(p) \/ Lead(p) \/ Refused(p) \/ LockFault(p) \/ Wake(p) \/ Exit(p)
  PROVE  LeaderHoldsLock'
<1>1. CASE Boot(p)
  BY <1>1 DEF Boot, LeaderHoldsLock
<1>2. CASE Lead(p)
  BY <1>2, JobsAssumption DEF Lead, LeaderHoldsLock
<1>3. CASE Refused(p) \/ Wake(p)
  BY <1>3 DEF Refused, Wake, LeaderHoldsLock
<1>4. CASE LockFault(p)
  BY <1>4 DEF LockFault, LeaderHoldsLock
<1>5. CASE Exit(p)
  BY <1>5 DEF Exit, LeaderHoldsLock
<1> QED
  BY <1>1, <1>2, <1>3, <1>4, <1>5

\* Every step keeps the invariant: the election by ElectionStep, all others leave it alone.
LEMMA LeaderInductive == LeaderHoldsLock /\ [JobsNext]_jobsVars => LeaderHoldsLock'
<1> SUFFICES ASSUME LeaderHoldsLock, [JobsNext]_jobsVars
             PROVE  LeaderHoldsLock'
  OBVIOUS
<1>1. CASE UNCHANGED jobsVars
  BY <1>1, ElectionUntouched DEF jobsVars, electionVars
<1>2. CASE Tick
  BY <1>2, ElectionUntouched DEF Tick
<1>3. ASSUME NEW p \in Servers,
             Boot(p) \/ Lead(p) \/ Refused(p) \/ LockFault(p) \/ Wake(p) \/ Exit(p)
      PROVE  LeaderHoldsLock'
  BY <1>3, ElectionStep
<1>4. ASSUME NEW p \in Servers,
             PurgeOldLogs(p) \/ PurgeOldLogsFails(p) \/ PurgeLogsBefore(p) \/ pruneBlobDir(p)
      PROVE  LeaderHoldsLock'
  BY <1>4, ElectionUntouched DEF PurgeOldLogs, PurgeOldLogsFails, PurgeLogsBefore, pruneBlobDir
<1>5. ASSUME NEW p \in Servers, NEW e \in Entries, NEW s \in {"ok", "error"}, Attempt(p, e, s)
      PROVE  LeaderHoldsLock'
  BY <1>5, ElectionUntouched DEF Attempt
<1>6. ASSUME NEW e \in Entries, Insert(e) \/ WriteLogFile(e) \/ LogFails(e)
      PROVE  LeaderHoldsLock'
  BY <1>6, ElectionUntouched DEF Insert, WriteLogFile, LogFails
<1> QED
  BY <1>1, <1>2, <1>3, <1>4, <1>5, <1>6 DEF JobsNext

\* runLeaderBackgroundJobs: never two processes run the background jobs, for any number
\* of processes and starts, whatever system call fails and whoever dies.
THEOREM LeaderUnique == JobsSpec => []OneLeader
<1>1. JobsInit => LeaderHoldsLock
  BY DEF JobsInit, LeaderHoldsLock
<1>2. LeaderHoldsLock => OneLeader
  BY DEF LeaderHoldsLock, OneLeader
<1> QED
  BY <1>1, <1>2, LeaderInductive, PTL DEF JobsSpec

-----------------------------------------------------------------------------
(* Nothing inside the retention is purged.                                 *)

\* An order of times is an order of their seconds, and of their days.
LEMMA UnixMonotone == ASSUME NEW a \in Int, NEW b \in Int, a <= b PROVE Unix(a) <= Unix(b)
BY JobsAssumption DEF Unix

\* Later times fall on the same day or a later one.
LEMMA DayMonotone == ASSUME NEW a \in Int, NEW b \in Int, a <= b PROVE Day(a) <= Day(b)
BY JobsAssumption DEF Day

\* The inductive invariant.  A purge under way uses a cut-off no later than the
\* latest one, which is a retention behind the clock; a file is there only for an
\* entry that was filed, and is no older than its entry.
PurgeInv ==
  /\ cutoff <= clock - Retention
  /\ \A p \in Servers : purge[p].step # "idle" => purge[p].before <= cutoff
  /\ \A e \in Entries : entry[e].created <= clock
  /\ \A e \in Entries : files[e] # NoFile => /\ entry[e].stage = "filed"
                                            /\ entry[e].created <= files[e]
  /\ \A e \in Entries : entry[e].stage = "filed" /\ entry[e].created >= cutoff
                         => files[e] # NoFile
  /\ \A e \in Entries : /\ entry[e].stage \in {"row", "done", "filed"}
                         /\ Unix(entry[e].created) >= Unix(cutoff)
                         => e \in rows

\* The entries of the log, and one that has moved on to another stage.
Stages == {"none", "open", "row", "done", "filed", "lost"}
EntryRecord == [stage : Stages, by : Servers \cup {"nobody"}, created : 0 .. MaxNow,
                status : {"ok", "error"}]

\* Moving an entry to another stage changes nothing else of it.
LEMMA StageSet ==
  ASSUME NEW r \in EntryRecord, NEW s \in Stages
  PROVE  /\ [r EXCEPT !.stage = s] \in EntryRecord
         /\ [r EXCEPT !.stage = s].stage = s
         /\ [r EXCEPT !.stage = s].created = r.created
BY DEF EntryRecord

\* Every step keeps the types.
LEMMA JobsTypeStep == JobsTypeOK /\ [JobsNext]_jobsVars => JobsTypeOK'
<1> SUFFICES ASSUME JobsTypeOK, [JobsNext]_jobsVars
             PROVE  JobsTypeOK'
  OBVIOUS
<1> USE JobsAssumption DEF JobsTypeOK, electionVars, logVars, Idle, Never, NoFile
<1>1. CASE UNCHANGED jobsVars
  BY <1>1 DEF jobsVars
<1>2. CASE Tick
  BY <1>2 DEF Tick
<1>3. ASSUME NEW p \in Servers, Boot(p) \/ Lead(p) \/ Refused(p) \/ LockFault(p) \/ Wake(p)
      PROVE  JobsTypeOK'
  BY <1>3 DEF Boot, Lead, Refused, LockFault, Wake
<1>4. ASSUME NEW p \in Servers, Exit(p)
      PROVE  JobsTypeOK'
  <2>1. \A e \in Entries : entry[e] \in EntryRecord
    BY DEF EntryRecord, Stages
  <2>2. \A e \in Entries : [entry[e] EXCEPT !.stage = "lost"] \in EntryRecord
    BY <2>1, StageSet DEF Stages
  <2>3. entry' \in [Entries -> EntryRecord]
    BY <1>4, <2>1, <2>2 DEF Exit
  <2> HIDE DEF EntryRecord
  <2> QED
    BY <1>4, <2>3 DEF Exit, EntryRecord, Stages
<1>5. ASSUME NEW p \in Servers, PurgeOldLogs(p) \/ PurgeOldLogsFails(p)
      PROVE  JobsTypeOK'
  BY <1>5 DEF PurgeOldLogs, PurgeOldLogsFails
<1>6. ASSUME NEW p \in Servers, PurgeLogsBefore(p) \/ pruneBlobDir(p)
      PROVE  JobsTypeOK'
  BY <1>6 DEF PurgeLogsBefore, pruneBlobDir, Remove
<1>7. ASSUME NEW p \in Servers, NEW e \in Entries, NEW s \in {"ok", "error"}, Attempt(p, e, s)
      PROVE  JobsTypeOK'
  BY <1>7 DEF Attempt
<1>8. ASSUME NEW e \in Entries, Insert(e) \/ WriteLogFile(e) \/ LogFails(e)
      PROVE  JobsTypeOK'
  <2>1. entry[e] \in EntryRecord
    BY DEF EntryRecord, Stages
  <2>2. \A s \in Stages : [entry[e] EXCEPT !.stage = s] \in EntryRecord
    BY <2>1, StageSet
  <2>3. PICK s \in Stages : entry' = [entry EXCEPT ![e] = [entry[e] EXCEPT !.stage = s]]
    BY <1>8 DEF Insert, WriteLogFile, LogFails, Stages
  <2>4. entry \in [Entries -> EntryRecord]
    BY DEF EntryRecord, Stages
  <2>5. entry' \in [Entries -> EntryRecord]
    BY <2>2, <2>3, <2>4
  <2> QED
    BY <1>8, <2>5 DEF Insert, WriteLogFile, LogFails, EntryRecord, Stages
<1> QED
  BY <1>1, <1>2, <1>3, <1>4, <1>5, <1>6, <1>7, <1>8 DEF JobsNext

\* A step that leaves the log, the purges and the cut-off alone keeps the invariant,
\* for the clock only advances.
LEMMA PurgeUntouched ==
  ASSUME JobsTypeOK, JobsTypeOK', PurgeInv, clock' >= clock, UNCHANGED <<logVars, purge, cutoff>>
  PROVE  PurgeInv'
<1>1. cutoff' <= clock' - Retention
  <2>1. cutoff \in Int /\ cutoff' \in Int /\ clock \in Int /\ clock' \in Int /\ Retention \in Int
    BY JobsAssumption DEF JobsTypeOK
  <2>2. cutoff' <= clock - Retention
    BY DEF PurgeInv
  <2>3. \A a, b, c, r \in Int : a <= b - r /\ b <= c => a <= c - r
    OBVIOUS
  <2> QED
    BY <2>1, <2>2, <2>3
<1>2. \A e \in Entries : entry'[e].created <= clock'
  BY DEF JobsTypeOK, PurgeInv, logVars
<1>3. \A e \in Entries : Unix(entry'[e].created) = Unix(entry[e].created)
  BY DEF logVars
<1>4. Unix(cutoff') = Unix(cutoff)
  OBVIOUS
<1> QED
  BY <1>1, <1>2, <1>3, <1>4 DEF PurgeInv, logVars

\* The purge: the rows deleted are older than its cut-off by the second, the
\* directories by the day, and the blobs by the time they were written.
LEMMA PurgeStep ==
  ASSUME JobsTypeOK, JobsTypeOK', PurgeInv, NEW p \in Servers,
         PurgeOldLogs(p) \/ PurgeOldLogsFails(p) \/ PurgeLogsBefore(p) \/ pruneBlobDir(p)
  PROVE  PurgeInv'
<1> USE JobsAssumption DEF JobsTypeOK
<1>1. CASE PurgeOldLogs(p) \/ PurgeOldLogsFails(p)
  <2>1. cutoff' = clock - Retention /\ cutoff <= cutoff' /\ Unix(cutoff) <= Unix(cutoff')
    BY <1>1, UnixMonotone DEF PurgeOldLogs, PurgeOldLogsFails, PurgeInv
  <2>2. UNCHANGED <<entry, files, clock>>
    BY <1>1 DEF PurgeOldLogs, PurgeOldLogsFails, logVars
  <2>3. \A e \in Entries : Unix(entry[e].created) \in Int
    BY DEF Unix
  <2>4. \A e \in rows : Unix(entry[e].created) >= Unix(cutoff') => e \in rows'
    BY <1>1, <2>1 DEF PurgeOldLogs, PurgeOldLogsFails, logVars
  <2>5. \A q \in Servers : purge'[q].step # "idle" => purge'[q].before <= cutoff'
    <3>1. \A q \in Servers \ {p} : purge'[q] = purge[q]
      BY <1>1 DEF PurgeOldLogs, PurgeOldLogsFails
    <3>2. purge'[p].before = clock - Retention
      BY <1>1 DEF PurgeOldLogs, PurgeOldLogsFails
    <3>3. \A q \in Servers : purge[q].step # "idle" => purge[q].before <= cutoff
      BY DEF PurgeInv
    <3>4. \A q \in Servers : purge[q].before \in Int
      OBVIOUS
    <3> QED
      BY <2>1, <3>1, <3>2, <3>3, <3>4, SMTT(30)
  <2>6. Unix(cutoff) \in Int /\ Unix(cutoff') \in Int
    BY DEF Unix
  <2> QED
    <3>1. \A e \in Entries : entry'[e].stage = "filed" /\ entry'[e].created >= cutoff'
                             => files'[e] # NoFile
      BY <2>1, <2>2 DEF PurgeInv
    <3>2. \A e \in Entries : /\ entry'[e].stage \in {"row", "done", "filed"}
                             /\ Unix(entry'[e].created) >= Unix(cutoff')
                             => e \in rows'
      <4> SUFFICES ASSUME NEW e \in Entries, entry[e].stage \in {"row", "done", "filed"},
                          Unix(entry[e].created) >= Unix(cutoff')
                   PROVE  e \in rows'
        BY <2>2
      <4>1. Unix(entry[e].created) >= Unix(cutoff)
        BY <2>1, <2>3, <2>6
      <4>2. e \in rows
        BY <4>1 DEF PurgeInv
      <4> QED
        BY <4>2, <2>4
    <3>3. cutoff' <= clock' - Retention
      BY <2>1, <2>2
    <3> QED
      BY <2>2, <2>5, <3>1, <3>2, <3>3 DEF PurgeInv
<1>2. CASE PurgeLogsBefore(p) \/ pruneBlobDir(p)
  <2>1. UNCHANGED <<clock, entry, rows, cutoff>>
    BY <1>2 DEF PurgeLogsBefore, pruneBlobDir
  <2>2. \A q \in Servers : purge'[q].step # "idle" => purge'[q].before <= cutoff'
    BY <1>2 DEF PurgeLogsBefore, pruneBlobDir, Idle, PurgeInv
  <2>3. purge[p].before <= cutoff
    BY <1>2 DEF PurgeLogsBefore, pruneBlobDir, PurgeInv
  <2>4. ASSUME NEW e \in Entries, files'[e] # files[e]
        PROVE  files'[e] = NoFile /\ entry[e].created < cutoff
    <3>1. CASE PurgeLogsBefore(p)
      <4>1. files'[e] = NoFile /\ Day(entry[e].created) < Day(purge[p].before)
        BY <3>1, <2>4 DEF PurgeLogsBefore, Remove, OldDays
      <4>2. Day(entry[e].created) \in Int /\ Day(purge[p].before) \in Int
        BY DEF Day
      <4> QED
        BY <4>1, <4>2, <2>3, DayMonotone
    <3>2. CASE pruneBlobDir(p)
      <4>1. files'[e] = NoFile /\ files[e] # NoFile /\ files[e] < purge[p].before
        BY <3>2, <2>4 DEF pruneBlobDir, Remove
      <4> QED
        BY <4>1, <2>3 DEF PurgeInv
    <3> QED
      BY <1>2, <3>1, <3>2
  <2> QED
    BY <2>1, <2>2, <2>4 DEF PurgeInv
<1> QED
  BY <1>1, <1>2

\* An entry's own steps: its times are the clock's, it is filed with its file and it
\* reaches the stages that promise a row only with the row.
LEMMA LogStep ==
  ASSUME JobsTypeOK, JobsTypeOK', PurgeInv, NEW e \in Entries,
         \/ \E p \in Servers, s \in {"ok", "error"} : Attempt(p, e, s)
         \/ Insert(e) \/ WriteLogFile(e) \/ LogFails(e)
  PROVE  PurgeInv'
<1> USE JobsAssumption DEF JobsTypeOK
<1>1. UNCHANGED <<clock, purge, cutoff>>
  BY DEF Attempt, Insert, WriteLogFile, LogFails
<1>2. \A d \in Entries \ {e} : entry'[d] = entry[d] /\ files'[d] = files[d]
  BY DEF Attempt, Insert, WriteLogFile, LogFails
<1>3. rows \subseteq rows'
  BY DEF Attempt, Insert, WriteLogFile, LogFails
<1>4. \A d \in Entries : Unix(entry[d].created) \in Int /\ Unix(cutoff) \in Int
  BY DEF Unix
<1>5. entry[e] \in EntryRecord
  BY DEF EntryRecord, Stages
<1>6. \A s \in Stages : /\ [entry[e] EXCEPT !.stage = s].stage = s
                        /\ [entry[e] EXCEPT !.stage = s].created = entry[e].created
  BY <1>5, StageSet
<1>7. /\ entry'[e].created <= clock
      /\ files'[e] # NoFile => entry'[e].stage = "filed" /\ entry'[e].created <= files'[e]
      /\ entry'[e].stage = "filed" => files'[e] # NoFile
      /\ /\ entry'[e].stage \in {"row", "done", "filed"}
         /\ Unix(entry'[e].created) >= Unix(cutoff)
         => e \in rows'
  <2>1. CASE \E p \in Servers, s \in {"ok", "error"} : Attempt(p, e, s)
    <3>1. entry'[e].stage = "open" /\ entry'[e].created = clock /\ files'[e] = files[e]
      BY <2>1 DEF Attempt
    <3>2. files[e] = NoFile
      BY <2>1 DEF Attempt, PurgeInv
    <3> QED
      BY <3>1, <3>2
  <2>2. CASE Insert(e)
    <3>1. entry'[e].stage \in {"row", "done"} /\ entry'[e].created = entry[e].created
      BY <2>2, <1>6 DEF Insert, Stages
    <3>2. files'[e] = NoFile /\ e \in rows'
      BY <2>2 DEF Insert, PurgeInv
    <3> QED
      BY <3>1, <3>2 DEF PurgeInv
  <2>3. CASE WriteLogFile(e)
    <3>1. entry'[e].stage = "filed" /\ entry'[e].created = entry[e].created
      BY <2>3, <1>6 DEF WriteLogFile, Stages
    <3>2. files'[e] = clock /\ rows' = rows /\ entry[e].stage = "row"
      BY <2>3 DEF WriteLogFile
    <3> QED
      BY <3>1, <3>2 DEF PurgeInv, NoFile
  <2>4. CASE LogFails(e)
    <3>1. entry'[e].stage = "lost" /\ entry'[e].created = entry[e].created
      BY <2>4, <1>6 DEF LogFails, Stages
    <3>2. files'[e] = NoFile
      BY <2>4 DEF LogFails, PurgeInv
    <3> QED
      BY <3>1, <3>2 DEF PurgeInv
  <2> QED
    BY <2>1, <2>2, <2>3, <2>4
<1> QED
  BY <1>1, <1>2, <1>3, <1>7, ZenonT(60) DEF PurgeInv

\* The end of a process only turns entries under way into lost ones.
LEMMA ExitStep ==
  ASSUME JobsTypeOK, JobsTypeOK', PurgeInv, NEW p \in Servers, Exit(p)
  PROVE  PurgeInv'
<1> USE JobsAssumption DEF JobsTypeOK
<1>1. UNCHANGED <<clock, rows, files, cutoff>>
  BY DEF Exit
<1>2. \A q \in Servers : purge'[q].step # "idle" => purge'[q].before <= cutoff'
  BY <1>1 DEF Exit, Idle, PurgeInv
<1>3. ASSUME NEW e \in Entries
      PROVE  /\ entry'[e].created = entry[e].created
             /\ \/ entry'[e].stage = entry[e].stage
                \/ entry'[e].stage = "lost" /\ entry[e].stage # "filed"
  <2>1. entry[e] \in EntryRecord
    BY DEF EntryRecord, Stages
  <2>2. /\ [entry[e] EXCEPT !.stage = "lost"].stage = "lost"
        /\ [entry[e] EXCEPT !.stage = "lost"].created = entry[e].created
    BY <2>1, StageSet DEF Stages
  <2> QED
    BY <2>2 DEF Exit
<1> QED
  BY <1>1, <1>2, <1>3 DEF PurgeInv

\* Every step keeps the purge invariant.
LEMMA PurgeInductive ==
  JobsTypeOK /\ JobsTypeOK' /\ PurgeInv /\ [JobsNext]_jobsVars => PurgeInv'
<1> SUFFICES ASSUME JobsTypeOK, JobsTypeOK', PurgeInv, [JobsNext]_jobsVars
             PROVE  PurgeInv'
  OBVIOUS
<1>1. clock \in Int
  BY JobsAssumption DEF JobsTypeOK
<1>2. CASE UNCHANGED jobsVars
  BY <1>1, <1>2, PurgeUntouched DEF jobsVars, logVars
<1>3. CASE Tick
  <2>1. clock' >= clock
    BY <1>1, <1>3 DEF Tick
  <2> QED
    BY <1>3, <2>1, PurgeUntouched DEF Tick
<1>4. ASSUME NEW p \in Servers, Boot(p) \/ Lead(p) \/ Refused(p) \/ LockFault(p) \/ Wake(p)
      PROVE  PurgeInv'
  <2>1. UNCHANGED <<clock, logVars, purge, cutoff>>
    BY <1>4 DEF Boot, Lead, Refused, LockFault, Wake
  <2> QED
    BY <1>1, <2>1, PurgeUntouched
<1>5. ASSUME NEW p \in Servers, Exit(p)
      PROVE  PurgeInv'
  BY <1>5, ExitStep
<1>6. ASSUME NEW p \in Servers,
             PurgeOldLogs(p) \/ PurgeOldLogsFails(p) \/ PurgeLogsBefore(p) \/ pruneBlobDir(p)
      PROVE  PurgeInv'
  BY <1>6, PurgeStep
<1>7. ASSUME NEW e \in Entries,
             \/ \E p \in Servers, s \in {"ok", "error"} : Attempt(p, e, s)
             \/ Insert(e) \/ WriteLogFile(e) \/ LogFails(e)
      PROVE  PurgeInv'
  BY <1>7, LogStep
<1> QED
  BY <1>2, <1>3, <1>4, <1>5, <1>6, <1>7 DEF JobsNext

\* A cut-off a retention behind the clock is behind every window of a query.
LEMMA PurgeInvKeepsRetention == JobsTypeOK /\ PurgeInv => RetentionKept
<1> SUFFICES ASSUME JobsTypeOK, PurgeInv, NEW e \in Entries
             PROVE  /\ entry[e].stage = "filed" /\ entry[e].created >= cutoff => files[e] # NoFile
                    /\ \A w \in 1 .. Retention :
                         /\ entry[e].stage \in {"row", "done", "filed"}
                         /\ Unix(entry[e].created) >= Unix(clock - w)
                         => e \in rows
  BY DEF RetentionKept
<1>1. ASSUME NEW w \in 1 .. Retention, entry[e].stage \in {"row", "done", "filed"},
             Unix(entry[e].created) >= Unix(clock - w)
      PROVE  e \in rows
  <2>1. clock - w \in Int /\ cutoff \in Int /\ cutoff <= clock - w
    BY JobsAssumption DEF JobsTypeOK, PurgeInv
  <2>2. Unix(cutoff) <= Unix(clock - w)
    BY <2>1, UnixMonotone
  <2>3. Unix(cutoff) \in Int /\ Unix(clock - w) \in Int /\ Unix(entry[e].created) \in Int
    BY <2>1, JobsAssumption DEF Unix, JobsTypeOK
  <2> QED
    BY <1>1, <2>2, <2>3 DEF PurgeInv
<1> QED
  BY <1>1 DEF PurgeInv

\* The variables of the jobs keep their types.
THEOREM JobsTypeCorrect == JobsSpec => []JobsTypeOK
<1>1. JobsInit => JobsTypeOK
  BY JobsAssumption DEF JobsInit, JobsTypeOK, Idle, Never, NoFile
<1> QED
  BY <1>1, JobsTypeStep, PTL DEF JobsSpec

\* runLogPurge takes nothing inside the retention, for every number of processes and
\* entries, every clock resolution, length of day and whole number of days kept, and
\* whichever steps of a purge fail or are cut short by the end of the process.
THEOREM PurgeKeepsRetention == JobsSpec => []RetentionKept
<1>1. JobsInit => PurgeInv
  BY JobsAssumption DEF JobsInit, PurgeInv, Idle, Never, NoFile
<1> QED
  BY <1>1, JobsTypeCorrect, PurgeInductive, PurgeInvKeepsRetention, PTL DEF JobsSpec

-----------------------------------------------------------------------------
(* The migration.                                                          *)

\* The accounts' table, before the first run and now.
Was == before.schema["accounts"]
Is == schema["accounts"]

\* The key an account had before the first run.
HomeKey(a) == IF Was \in {"keyed", "current"} THEN KeyInUse(a) ELSE DefaultKey(a)

\* The accounts whose key the copy does not change.
Settled(a) == Was = "keyed" => KeyInUse(a) = DefaultKey(a)

-----------------------------------------------------------------------------
(* The migration: rows.                                                    *)

\* No step adds or drops a row of accounts, users or the log; a binding leads to the
\* account it led to before, by its id in an old table and by its identity in a
\* current one; and the copy of the bindings drops only those it has to.
RowInv ==
  /\ DOMAIN schema = Tables
  /\ DOMAIN accounts = before.accounts
  /\ users = before.users /\ logs = before.logs
  /\ schema["bindings"] \in {"absent", "legacy", "current"}
  /\ schema["bindings"] # "current" =>
       /\ bindings = before.bindings
       /\ schema["bindings"] = before.schema["bindings"]
  /\ schema["bindings"] = "absent" => DOMAIN bindings = {}
  /\ schema["bindings"] = "legacy" => bindings = Target
  /\ schema["bindings"] = "current" =>
       \A s \in DOMAIN bindings :
         Subject[Target[s]] # "" /\ bindings[s] = Identity(Target[s])
  /\ {s \in DOMAIN before.bindings : Subject[Target[s]] # ""
        /\ (Target[s] \in before.accounts \/ before.schema["bindings"] = "current")}
       \subseteq DOMAIN bindings

\* The rows are as they were before the first run.
LEMMA RowInit == MigrationInit => RowInv
<1> SUFFICES ASSUME MigrationInit PROVE RowInv
  OBVIOUS
<1>1. PICK acc \in {"absent", "legacy", "keyed", "current"},
          rest \in [{"bindings", "users", "logs"} -> {"absent", "legacy", "current"}],
          ids \in Populations, c \in [AccountIds -> {"cool", "none"}] :
            Found(acc, rest, ids, c)
  BY DEF MigrationInit
<1>2. /\ before.schema = schema /\ before.accounts = DOMAIN accounts
      /\ before.users = users /\ before.logs = logs /\ before.bindings = bindings
  BY <1>1 DEF Found
<1>3. DOMAIN schema = Tables /\ schema["bindings"] = rest["bindings"]
  BY <1>1 DEF Found, Tables
<1>4. rest["bindings"] \in {"absent", "legacy", "current"}
  BY <1>1
<1>5. CASE rest["bindings"] = "absent"
  <2>1. bindings = NoRows
    BY <1>1, <1>5 DEF Found
  <2> QED
    BY <1>2, <1>3, <1>5, <2>1 DEF RowInv, NoRows
<1>6. CASE rest["bindings"] = "legacy"
  <2>1. bindings = Target
    BY <1>1, <1>6 DEF Found
  <2> QED
    BY <1>2, <1>3, <1>6, <2>1 DEF RowInv
<1>7. CASE rest["bindings"] = "current"
  <2>1. bindings = [s \in {x \in Sessions : Subject[Target[x]] # ""} |-> Identity(Target[s])]
    BY <1>1, <1>7 DEF Found
  <2> QED
    BY <1>2, <1>3, <1>7, <2>1 DEF RowInv
<1> QED
  BY <1>4, <1>5, <1>6, <1>7

\* No step loses a row.
LEMMA RowStep == RowInv /\ [MigrationNext]_migrationVars => RowInv'
<1> SUFFICES ASSUME RowInv, [MigrationNext]_migrationVars PROVE RowInv'
  OBVIOUS
<1> DEFINE Rest == UNCHANGED <<accounts, bindings, users, logs, before>>
<1>1. ASSUME NEW tables \in SUBSET Tables, Create(tables), UNCHANGED before
      PROVE  RowInv'
  <2>1. schema' = [t \in Tables |->
          IF schema[t] = "absent" /\ t \in tables THEN "current" ELSE schema[t]]
    BY <1>1 DEF Create
  <2>2. DOMAIN schema' = Tables
    BY <2>1
  <2>3. schema'["bindings"] = schema["bindings"]
        \/ (schema["bindings"] = "absent" /\ schema'["bindings"] = "current")
    BY <2>1 DEF Tables
  <2>4. Rest
    BY <1>1 DEF Create
  <2> QED
    BY <2>2, <2>3, <2>4 DEF RowInv, Identity
<1>2. ASSUME Rest, DOMAIN schema' = Tables, schema'["bindings"] = schema["bindings"]
      PROVE  RowInv'
  BY <1>2 DEF RowInv, Identity
<1>3. ASSUME Rest, UNCHANGED schema PROVE RowInv'
  BY <1>3 DEF RowInv, Identity
<1>4. CASE Run
  BY <1>4, <1>3 DEF Run, dataVars
<1>5. CASE schemaSQL
  BY <1>5, <1>1 DEF schemaSQL, Goto
<1>6. CASE CreateInterrupted
  BY <1>6, <1>1 DEF CreateInterrupted, Goto
<1>7. CASE SyncBuckets
  BY <1>7, <1>3 DEF SyncBuckets, Goto
<1>8. CASE PruneBuckets
  BY <1>8, <1>3 DEF PruneBuckets, Goto
<1>9. CASE migrateAccountsTable
  <2>1. UNCHANGED <<bindings, users, logs, before>> /\ DOMAIN accounts' = DOMAIN accounts
    BY <1>9 DEF migrateAccountsTable, Goto
  <2>2. DOMAIN schema' = Tables /\ schema'["bindings"] = schema["bindings"]
    BY <1>9 DEF migrateAccountsTable, RowInv, Tables
  <2> QED
    BY <2>1, <2>2 DEF RowInv, Identity
<1>10. CASE CopyAccountsFails
  BY <1>10, <1>3 DEF CopyAccountsFails, Goto, dataVars
<1>11. CASE migrateSessionBindingsTable
  <2>1. UNCHANGED <<accounts, users, logs, before>>
    BY <1>11 DEF migrateSessionBindingsTable, Goto
  <2>2. DOMAIN schema' = Tables /\ schema'["bindings"] = "current"
    BY <1>11 DEF migrateSessionBindingsTable, RowInv, Tables
  <2>3. CASE schema["bindings"] = "current"
    <3>1. bindings' = bindings
      BY <1>11, <2>3 DEF migrateSessionBindingsTable
    <3> QED
      BY <2>1, <2>2, <2>3, <3>1 DEF RowInv, Identity
  <2>4. CASE schema["bindings"] # "current"
    <3>1. bindings' = [s \in {x \in DOMAIN bindings : /\ bindings[x] \in DOMAIN accounts
                                                      /\ Subject[bindings[x]] # ""} |->
                         Identity(bindings[s])]
      BY <1>11, <2>4 DEF migrateSessionBindingsTable
    <3>2. DOMAIN bindings' = {x \in DOMAIN bindings : /\ bindings[x] \in DOMAIN accounts
                                                      /\ Subject[bindings[x]] # ""}
      BY <3>1
    <3>3. \A s \in DOMAIN bindings : bindings[s] = Target[s]
      BY <2>4 DEF RowInv
    <3>4. \A s \in DOMAIN bindings' :
            Subject[Target[s]] # "" /\ bindings'[s] = Identity(Target[s])
      BY <3>1, <3>2, <3>3 DEF Identity
    <3>5. before.schema["bindings"] # "current" /\ bindings = before.bindings
      BY <2>4 DEF RowInv
    <3> QED
      BY <2>1, <2>2, <3>2, <3>3, <3>4, <3>5 DEF RowInv, Identity
  <2> QED
    BY <2>3, <2>4
<1>12. CASE DropRouteBindings
  <2>1. DOMAIN schema' = Tables /\ schema'["bindings"] = schema["bindings"]
    BY <1>12 DEF DropRouteBindings, RowInv, Tables
  <2> QED
    BY <1>12, <1>2, <2>1 DEF DropRouteBindings, Goto
<1>13. CASE migrateUsersTable
  <2>1. DOMAIN schema' = Tables /\ schema'["bindings"] = schema["bindings"]
    BY <1>13 DEF migrateUsersTable, RowInv, Tables
  <2> QED
    BY <1>13, <1>2, <2>1 DEF migrateUsersTable, Goto
<1>14. CASE migrateRequestLogTable
  <2>1. DOMAIN schema' = Tables /\ schema'["bindings"] = schema["bindings"]
    BY <1>14 DEF migrateRequestLogTable, RowInv, Tables
  <2> QED
    BY <1>14, <1>2, <2>1 DEF migrateRequestLogTable, Goto
<1>15. CASE ensureRequestLogIndexes
  BY <1>15, <1>3 DEF ensureRequestLogIndexes, Goto
<1>16. CASE Validate
  BY <1>16, <1>3 DEF Validate, Goto, dataVars
<1>17. CASE Again
  BY <1>17, <1>3 DEF Again, Goto, dataVars
<1>18. CASE Interrupted
  BY <1>18, <1>3 DEF Interrupted, Goto, dataVars
<1>19. CASE UNCHANGED migrationVars
  BY <1>19, <1>3 DEF migrationVars
<1> QED
  BY <1>4, <1>5, <1>6, <1>7, <1>8, <1>9, <1>10, <1>11, <1>12, <1>13, <1>14, <1>15,
     <1>16, <1>17, <1>18, <1>19 DEF MigrationNext

\* The rows' invariant holds.
LEMMA RowsHold == MigrationSpec => []RowInv
BY RowInit, RowStep, PTL DEF MigrationSpec

\* Migrate's copies lose nothing: wherever runs are cut off and however often they are
\* repeated, the accounts, users and log rows of the first run are there, and so are
\* the bindings that have a subject to go to.
THEOREM RowsKept == MigrationSpec => []RowsSurvive
<1>1. RowInv => RowsSurvive
  BY DEF RowInv, RowsSurvive
<1> QED
  BY <1>1, RowsHold, PTL

-----------------------------------------------------------------------------
(* The migration: keys and cooldowns.                                      *)

\* An account whose key the copy does not change is found under that key at every
\* step, and what its bucket holds is the cooldown it had.  An old table keeps the
\* cooldown in the row until its buckets are there, which they are once SyncBuckets has
\* run; it is copied only if no two accounts share a subject, so none of them took the
\* cooldown of another.
KeyInv ==
  /\ Was \in {"absent", "legacy", "keyed", "current"}
  /\ Is = Was \/ Is = "current"
  /\ Was = "absent" => before.accounts = {}
  /\ \A a \in before.accounts : Settled(a) => BucketKeyExpr(a) = HomeKey(a)
  /\ Is = "legacy" => \A a \in before.accounts : cool[a] = before.cool[a]
  /\ Is # "legacy" \/ step \in {"prune", "accounts"} =>
       \A a \in before.accounts : Settled(a) => HomeKey(a) \in DOMAIN buckets
  /\ (Was = "legacy" => Distinct) =>
       \A a \in before.accounts :
         Settled(a) /\ HomeKey(a) \in DOMAIN buckets => buckets[HomeKey(a)] = before.cool[a]
  /\ Was = "legacy" /\ Is = "current" => Distinct

\* The end of a run: the indexes are there, and the schema has been validated.
EndInv ==
  /\ step \in {"validate", "done"} => indexes = LogIndexes
  /\ step = "done" => validateCurrentSchema

\* Accounts with different subjects, or with none, have different keys.
LEMMA KeysApart ==
  ASSUME Distinct, NEW a \in DOMAIN accounts, NEW b \in DOMAIN accounts,
         DefaultKey(a) = DefaultKey(b)
  PROVE  a = b
<1>1. CASE Subject[a] # "" /\ Subject[b] # ""
  <2>1. Subject[a] = Subject[b]
    BY <1>1 DEF DefaultKey
  <2> QED
    BY <2>1 DEF Distinct
<1>2. CASE Subject[a] = "" /\ Subject[b] = ""
  BY <1>2 DEF Distinct
<1>3. CASE (Subject[a] = "") # (Subject[b] = "")
  <2>1. "subject" # "id"
    OBVIOUS
  <2> QED
    BY <1>3, <2>1 DEF DefaultKey
<1> QED
  BY <1>1, <1>2, <1>3

\* The keys and cooldowns a release finds.
LEMMA KeyInit == MigrationInit => KeyInv /\ EndInv
<1> SUFFICES ASSUME MigrationInit PROVE KeyInv /\ EndInv
  OBVIOUS
<1>1. PICK acc \in {"absent", "legacy", "keyed", "current"},
          rest \in [{"bindings", "users", "logs"} -> {"absent", "legacy", "current"}],
          ids \in Populations, c \in [AccountIds -> {"cool", "none"}] :
            Found(acc, rest, ids, c)
  BY DEF MigrationInit
<1>2. before.schema = schema /\ before.accounts = DOMAIN accounts
  BY <1>1 DEF Found
<1>3. Is = acc /\ Was = acc
  BY <1>1, <1>2 DEF Found, Tables, Is, Was
<1>4. before.cool = [a \in DOMAIN accounts |-> IF acc = "legacy" THEN c[a] ELSE buckets[KeyInUse(a)]]
  BY <1>1 DEF Found
<1>5. EndInv
  BY DEF MigrationInit, EndInv
<1>6. step = "idle"
  BY DEF MigrationInit
<1>7. CASE acc = "absent"
  <2>1. DOMAIN accounts = {}
    BY <1>1, <1>7 DEF Found, NoRows
  <2> QED
    BY <1>2, <1>3, <1>5, <1>7, <2>1 DEF KeyInv
<1>8. CASE acc = "legacy"
  <2>1. buckets = NoRows /\ cool = [a \in ids |-> c[a]] /\ DOMAIN accounts = ids
    BY <1>1, <1>8 DEF Found
  <2>2. DOMAIN buckets = {}
    BY <2>1 DEF NoRows
  <2>3. \A a \in DOMAIN accounts : BucketKeyExpr(a) = HomeKey(a)
    BY <1>3, <1>8 DEF BucketKeyExpr, HomeKey, Is
  <2>4. \A a \in DOMAIN accounts : cool[a] = before.cool[a]
    BY <1>4, <1>8, <2>1
  <2> QED
    BY <1>2, <1>3, <1>5, <1>6, <1>8, <2>2, <2>3, <2>4 DEF KeyInv
<1>9. CASE acc \in {"keyed", "current"}
  <2>1. /\ DOMAIN accounts = ids
        /\ \A a \in ids : accounts[a] = StoredKey[a]
        /\ DOMAIN buckets = {KeyInUse(a) : a \in ids}
    BY <1>1, <1>9 DEF Found
  <2>2. \A a \in DOMAIN accounts : HomeKey(a) = KeyInUse(a) /\ BucketKeyExpr(a) = HomeKey(a)
    BY <1>3, <1>9, <2>1 DEF BucketKeyExpr, HomeKey, Is, KeyInUse
  <2>3. \A a \in DOMAIN accounts : before.cool[a] = buckets[HomeKey(a)]
    BY <1>4, <1>9, <2>2
  <2>4. \A a \in DOMAIN accounts : HomeKey(a) \in DOMAIN buckets
    BY <2>1, <2>2
  <2> QED
    BY <1>2, <1>3, <1>5, <1>9, <2>2, <2>3, <2>4 DEF KeyInv
<1> QED
  BY <1>1, <1>7, <1>8, <1>9

\* A step that leaves the accounts and the buckets alone keeps the keys.
LEMMA KeyFrame ==
  ASSUME KeyInv, Is' = Is, UNCHANGED <<accounts, cool, buckets, before>>,
         step' \notin {"prune", "accounts"}
  PROVE  KeyInv'
<1>1. Was' = Was
  BY DEF Was
<1>2. \A a : HomeKey(a)' = HomeKey(a) /\ Settled(a)' = Settled(a)
  BY <1>1 DEF HomeKey, Settled
<1>3. \A a : BucketKeyExpr(a)' = BucketKeyExpr(a)
  BY DEF BucketKeyExpr, Is
<1>4. Distinct' = Distinct
  BY DEF Distinct
<1> QED
  BY <1>1, <1>2, <1>3, <1>4 DEF KeyInv

\* The script that creates the tables makes an empty accounts table, or none.
LEMMA KeyCreate ==
  ASSUME RowInv, KeyInv, NEW tables \in SUBSET Tables, Create(tables), UNCHANGED before,
         step' \notin {"prune", "accounts"}
  PROVE  KeyInv'
<1>1. schema' = [t \in Tables |->
        IF schema[t] = "absent" /\ t \in tables THEN "current" ELSE schema[t]]
  BY DEF Create
<1>2. Is' = Is \/ (Is = "absent" /\ Is' = "current")
  BY <1>1 DEF Is, Tables
<1>3. UNCHANGED <<accounts, cool, buckets, before>>
  BY DEF Create
<1>4. CASE Is' = Is
  BY <1>3, <1>4, KeyFrame
<1>5. CASE Is = "absent" /\ Is' = "current"
  <2>1. Was = "absent" /\ Was' = Was /\ before.accounts = {} /\ before'.accounts = {}
    BY <1>3, <1>5 DEF KeyInv, Was
  <2> QED
    BY <1>5, <2>1 DEF KeyInv
<1> QED
  BY <1>2, <1>4, <1>5

\* SyncBuckets adds the buckets that are missing, with the cooldown of the old row.
LEMMA KeySync == RowInv /\ KeyInv /\ SyncBuckets => KeyInv'
<1> SUFFICES ASSUME RowInv, KeyInv, SyncBuckets PROVE KeyInv'
  OBVIOUS
<1> DEFINE missing == {BucketKeyExpr(a) : a \in DOMAIN accounts} \ DOMAIN buckets
           seed == [k \in missing |-> CHOOSE a \in DOMAIN accounts : BucketKeyExpr(a) = k]
<1>1. buckets' = [k \in DOMAIN buckets \cup missing |->
                    IF k \in DOMAIN buckets THEN buckets[k]
                    ELSE IF schema["accounts"] = "legacy" THEN cool[seed[k]] ELSE "none"]
  BY DEF SyncBuckets
<1>2. UNCHANGED <<schema, accounts, cool, before>>
  BY DEF SyncBuckets, Goto
<1>3. \A k \in missing : seed[k] \in DOMAIN accounts /\ BucketKeyExpr(seed[k]) = k
  OBVIOUS
<1>4. DOMAIN buckets' = DOMAIN buckets \cup missing
  BY <1>1
<1>5. \A k \in DOMAIN buckets : buckets'[k] = buckets[k]
  BY <1>1
<1>6. \A k \in missing : Is = "legacy" => buckets'[k] = cool[seed[k]]
  BY <1>1 DEF Is
<1>7. DOMAIN accounts = before.accounts
  BY DEF RowInv
<1>8. Is' = Is /\ Was' = Was
  BY <1>2 DEF Is, Was
<1>9. \A a : HomeKey(a)' = HomeKey(a) /\ Settled(a)' = Settled(a)
  BY <1>2, <1>8 DEF HomeKey, Settled
<1>10. \A a : BucketKeyExpr(a)' = BucketKeyExpr(a)
  BY <1>2 DEF BucketKeyExpr
<1>11. Distinct' = Distinct
  BY <1>2 DEF Distinct
<1>12. \A a \in before.accounts : BucketKeyExpr(a) \in DOMAIN buckets'
  BY <1>4, <1>7
<1>13. ASSUME Was = "legacy" => Distinct, NEW a \in before.accounts, Settled(a)
       PROVE  buckets'[HomeKey(a)] = before.cool[a]
  <2>1. CASE HomeKey(a) \in DOMAIN buckets
    BY <1>5, <1>13, <2>1 DEF KeyInv
  <2>2. CASE HomeKey(a) \notin DOMAIN buckets
    <3>1. Is = "legacy" /\ Was = "legacy"
      BY <1>13, <2>2 DEF KeyInv
    <3>2. HomeKey(a) = BucketKeyExpr(a)
      BY <1>13 DEF KeyInv
    <3>3. HomeKey(a) \in missing
      BY <1>7, <2>2, <3>2
    <3>4. \A b : BucketKeyExpr(b) = DefaultKey(b)
      BY <3>1 DEF BucketKeyExpr, Is
    <3> DEFINE b == seed[HomeKey(a)]
    <3>5. b \in DOMAIN accounts /\ BucketKeyExpr(b) = HomeKey(a)
      BY <1>3, <3>3
    <3>6. buckets'[HomeKey(a)] = cool[b]
      BY <1>6, <3>1, <3>3
    <3>7. b = a
      <4> HIDE DEF b
      <4> QED
        BY <1>7, <1>13, <3>1, <3>2, <3>4, <3>5, KeysApart
    <3> QED
      BY <1>13, <3>1, <3>6, <3>7 DEF KeyInv
  <2> QED
    BY <2>1, <2>2
<1> HIDE DEF missing, seed
<1> QED
  BY <1>2, <1>8, <1>9, <1>10, <1>11, <1>12, <1>13 DEF KeyInv

\* PruneBuckets deletes only buckets no account has the key of.
LEMMA KeyPrune == RowInv /\ KeyInv /\ PruneBuckets => KeyInv'
<1> SUFFICES ASSUME RowInv, KeyInv, PruneBuckets PROVE KeyInv'
  OBVIOUS
<1>1. UNCHANGED <<schema, accounts, cool, before>> /\ step = "prune"
  BY DEF PruneBuckets, Goto
<1>2. buckets' = [k \in {x \in DOMAIN buckets : \E a \in DOMAIN accounts :
                           BucketKeyExpr(a) = x} |-> buckets[k]]
  BY DEF PruneBuckets
<1>3. DOMAIN accounts = before.accounts
  BY DEF RowInv
<1>4. Is' = Is /\ Was' = Was
  BY <1>1 DEF Is, Was
<1>5. \A a : HomeKey(a)' = HomeKey(a) /\ Settled(a)' = Settled(a)
  BY <1>1, <1>4 DEF HomeKey, Settled
<1>6. \A a : BucketKeyExpr(a)' = BucketKeyExpr(a)
  BY <1>1 DEF BucketKeyExpr
<1>7. Distinct' = Distinct
  BY <1>1 DEF Distinct
<1>8. \A a \in before.accounts : BucketKeyExpr(a) \in DOMAIN buckets =>
        BucketKeyExpr(a) \in DOMAIN buckets'
  BY <1>2, <1>3
<1>9. \A k \in DOMAIN buckets' : k \in DOMAIN buckets /\ buckets'[k] = buckets[k]
  BY <1>2
<1>10. \A a \in before.accounts : Settled(a) =>
         BucketKeyExpr(a) = HomeKey(a) /\ HomeKey(a) \in DOMAIN buckets
  BY <1>1 DEF KeyInv
<1> QED
  BY <1>1, <1>4, <1>5, <1>6, <1>7, <1>8, <1>9, <1>10 DEF KeyInv

\* The copy of the accounts gives each the key its bucket has.
LEMMA KeyCopy == RowInv /\ KeyInv /\ migrateAccountsTable => KeyInv'
<1> SUFFICES ASSUME RowInv, KeyInv, migrateAccountsTable PROVE KeyInv'
  OBVIOUS
<1>1. UNCHANGED <<buckets, before>> /\ step = "accounts" /\ step' = "bindings"
  BY DEF migrateAccountsTable, Goto
<1>2. Was' = Was
  BY <1>1 DEF Was
<1>3. CASE schema["accounts"] = "current"
  <2>1. UNCHANGED <<schema, accounts, cool>>
    BY <1>3 DEF migrateAccountsTable
  <2>2. Is' = Is
    BY <2>1 DEF Is
  <2> QED
    BY <1>1, <2>1, <2>2, KeyFrame
<1>4. CASE schema["accounts"] # "current"
  <2>1. /\ Distinct
        /\ schema' = [schema EXCEPT !["accounts"] = "current"]
        /\ accounts' = [a \in DOMAIN accounts |-> DefaultKey(a)]
    BY <1>4 DEF migrateAccountsTable
  <2>2. Is' = "current"
    BY <2>1 DEF Is, RowInv, Tables
  <2>3. DOMAIN accounts = before.accounts /\ DOMAIN accounts' = before.accounts
    BY <2>1 DEF RowInv
  <2>4. Is # "current" /\ Was = Is
    BY <1>4 DEF KeyInv, Is
  <2>5. \A a : HomeKey(a)' = HomeKey(a) /\ Settled(a)' = Settled(a)
    BY <1>2 DEF HomeKey, Settled
  <2>6. \A a \in before.accounts : BucketKeyExpr(a)' = DefaultKey(a)
    BY <2>1, <2>3 DEF BucketKeyExpr
  <2>7. \A a \in before.accounts : Settled(a) => HomeKey(a) = DefaultKey(a)
    BY <2>4 DEF HomeKey, Settled
  <2>8. Distinct'
    BY <2>1, <2>3 DEF Distinct
  <2>9. \A a \in before.accounts : Settled(a) =>
          HomeKey(a) \in DOMAIN buckets /\ buckets[HomeKey(a)] = before.cool[a]
    BY <1>1, <2>1 DEF KeyInv
  <2> QED
    BY <1>1, <1>2, <2>2, <2>4, <2>5, <2>6, <2>7, <2>8, <2>9 DEF KeyInv
<1> QED
  BY <1>3, <1>4

\* Every step keeps the keys and the cooldowns.
LEMMA KeyStep == RowInv /\ KeyInv /\ [MigrationNext]_migrationVars => KeyInv'
<1> SUFFICES ASSUME RowInv, KeyInv, [MigrationNext]_migrationVars PROVE KeyInv'
  OBVIOUS
<1>1. CASE Run
  BY <1>1, KeyFrame DEF Run, dataVars, Is
<1>2. CASE schemaSQL
  BY <1>2, KeyCreate DEF schemaSQL, Goto
<1>3. CASE CreateInterrupted
  BY <1>3, KeyCreate DEF CreateInterrupted, Goto
<1>4. CASE SyncBuckets
  BY <1>4, KeySync
<1>5. CASE PruneBuckets
  BY <1>5, KeyPrune
<1>6. CASE migrateAccountsTable
  BY <1>6, KeyCopy
<1>7. CASE CopyAccountsFails
  BY <1>7, KeyFrame DEF CopyAccountsFails, Goto, dataVars, Is
<1>8. CASE migrateSessionBindingsTable
  <2>1. Is' = Is
    BY <1>8 DEF migrateSessionBindingsTable, Is, RowInv, Tables
  <2> QED
    BY <1>8, <2>1, KeyFrame DEF migrateSessionBindingsTable, Goto
<1>9. CASE DropRouteBindings
  <2>1. Is' = Is
    BY <1>9 DEF DropRouteBindings, Is, RowInv, Tables
  <2> QED
    BY <1>9, <2>1, KeyFrame DEF DropRouteBindings, Goto
<1>10. CASE migrateUsersTable
  <2>1. Is' = Is
    BY <1>10 DEF migrateUsersTable, Is, RowInv, Tables
  <2> QED
    BY <1>10, <2>1, KeyFrame DEF migrateUsersTable, Goto
<1>11. CASE migrateRequestLogTable
  <2>1. Is' = Is
    BY <1>11 DEF migrateRequestLogTable, Is, RowInv, Tables
  <2> QED
    BY <1>11, <2>1, KeyFrame DEF migrateRequestLogTable, Goto
<1>12. CASE ensureRequestLogIndexes
  BY <1>12, KeyFrame DEF ensureRequestLogIndexes, Goto, Is
<1>13. CASE Validate
  BY <1>13, KeyFrame DEF Validate, Goto, dataVars, Is
<1>14. CASE Again
  BY <1>14, KeyFrame DEF Again, Goto, dataVars, Is
<1>15. CASE Interrupted
  BY <1>15, KeyFrame DEF Interrupted, Goto, dataVars, Is
<1>16. CASE UNCHANGED migrationVars
  <2>1. UNCHANGED <<step, schema, accounts, cool, buckets, before>>
    BY <1>16 DEF migrationVars
  <2> QED
    BY <2>1 DEF KeyInv, Is, Was, HomeKey, Settled, BucketKeyExpr, Distinct
<1> QED
  BY <1>1, <1>2, <1>3, <1>4, <1>5, <1>6, <1>7, <1>8, <1>9, <1>10, <1>11, <1>12, <1>13,
     <1>14, <1>15, <1>16 DEF MigrationNext

\* A run that is over has made the indexes and validated the schema.
LEMMA EndStep == EndInv /\ [MigrationNext]_migrationVars => EndInv'
<1> SUFFICES ASSUME EndInv, [MigrationNext]_migrationVars PROVE EndInv'
  OBVIOUS
<1>1. CASE step' \notin {"validate", "done"}
  BY <1>1 DEF EndInv
<1>2. CASE ensureRequestLogIndexes
  BY <1>2 DEF ensureRequestLogIndexes, Goto, EndInv
<1>3. CASE Validate
  BY <1>3 DEF Validate, Goto, dataVars, EndInv, validateCurrentSchema
<1>4. CASE UNCHANGED migrationVars
  BY <1>4 DEF migrationVars, EndInv, validateCurrentSchema
<1>5. MigrationNext /\ ~ensureRequestLogIndexes /\ ~Validate =>
        step' \notin {"validate", "done"}
  BY DEF MigrationNext, Run, schemaSQL, CreateInterrupted, SyncBuckets, PruneBuckets,
         migrateAccountsTable, CopyAccountsFails, migrateSessionBindingsTable,
         DropRouteBindings, migrateUsersTable, migrateRequestLogTable, Again, Interrupted,
         Goto
<1> QED
  BY <1>1, <1>2, <1>3, <1>4, <1>5

\* A run of Migrate that returns without error leaves a database the server accepts, in
\* which every account (of a table that is not current: with the key the copy gives it)
\* still has the cooldown it had before the first run, under the key the server looks
\* it up by, and every binding leads to its account; whatever runs were cut off before.
THEOREM MigrationFaithful == MigrationSpec => []MigratedFaithfully
<1>1. MigrationSpec => [](KeyInv /\ EndInv)
  BY RowsHold, KeyInit, KeyStep, EndStep, PTL DEF MigrationSpec
<1>2. RowInv /\ KeyInv /\ EndInv => MigratedFaithfully
  <2> SUFFICES ASSUME RowInv, KeyInv, EndInv, step = "done" PROVE
        /\ validateCurrentSchema /\ indexes = LogIndexes
        /\ \A a \in before.accounts :
             (before.schema["accounts"] = "keyed" => KeyInUse(a) = DefaultKey(a)) =>
               /\ BucketKeyExpr(a) \in DOMAIN buckets
               /\ before.cool[a] = "cool" => buckets[BucketKeyExpr(a)] = "cool"
        /\ \A s \in DOMAIN bindings :
             Subject[Target[s]] # "" /\ bindings[s] = Identity(Target[s])
    BY DEF MigratedFaithfully
  <2>1. validateCurrentSchema /\ indexes = LogIndexes
    BY DEF EndInv
  <2>2. Is = "current" /\ schema["bindings"] = "current"
    BY <2>1 DEF validateCurrentSchema, Tables, Is
  <2>3. \A a \in before.accounts : Settled(a) =>
          /\ BucketKeyExpr(a) = HomeKey(a) /\ HomeKey(a) \in DOMAIN buckets
          /\ buckets[HomeKey(a)] = before.cool[a]
    BY <2>2 DEF KeyInv
  <2>4. \A a \in before.accounts :
          (before.schema["accounts"] = "keyed" => KeyInUse(a) = DefaultKey(a)) => Settled(a)
    BY DEF Settled, Was
  <2> QED
    BY <2>1, <2>2, <2>3, <2>4 DEF RowInv
<1> QED
  BY <1>1, <1>2, RowsHold, PTL

-----------------------------------------------------------------------------
(* The migration: types.                                                   *)

\* The key in a row is one the server knows, or none.
KeysStored == \A a \in DOMAIN accounts : accounts[a] = "" \/ accounts[a] \in Keys

\* The keys that the steps compute.
LEMMA KeyTypes ==
  /\ \A a \in AccountIds : DefaultKey(a) \in Keys /\ KeyInUse(a) \in Keys
  /\ \A a \in AccountIds : StoredKey[a] = "" \/ StoredKey[a] \in Keys
  BY DEF Keys, KeyInUse

\* A database as a release finds it.
LEMMA MigrationTypeInit == MigrationInit => MigrationTypeOK /\ KeysStored
<1> SUFFICES ASSUME MigrationInit PROVE MigrationTypeOK /\ KeysStored
  OBVIOUS
<1>1. PICK acc \in {"absent", "legacy", "keyed", "current"},
          rest \in [{"bindings", "users", "logs"} -> {"absent", "legacy", "current"}],
          ids \in Populations, c \in [AccountIds -> {"cool", "none"}] :
            Found(acc, rest, ids, c)
  BY DEF MigrationInit
<1>2. ids \subseteq AccountIds /\ MaxRuns \in Nat /\ DOMAIN Target = Sessions
  BY MigrationAssumption
<1>3. schema \in [Tables -> {"absent", "legacy", "keyed", "current"}]
  BY <1>1 DEF Found
<1>4. DOMAIN accounts \subseteq AccountIds
  BY <1>1, <1>2 DEF Found, NoRows
<1>5. KeysStored
  BY <1>1, <1>2, KeyTypes DEF Found, NoRows, KeysStored
<1>6. DOMAIN buckets \subseteq Keys
  BY <1>1, <1>2, KeyTypes DEF Found, NoRows
<1>7. DOMAIN bindings \subseteq Sessions
  <2>1. rest["bindings"] \in {"absent", "legacy", "current"}
    BY <1>1
  <2> QED
    BY <1>1, <1>2, <2>1 DEF Found, NoRows
<1>8. users \subseteq UserIds /\ logs \subseteq LogIds /\ indexes \subseteq LogIndexes
  BY <1>1 DEF Found, LogIndexes
<1>9. step = "idle" /\ runs \in 0 .. MaxRuns
  BY <1>2 DEF MigrationInit
<1> QED
  BY <1>3, <1>4, <1>5, <1>6, <1>7, <1>8, <1>9 DEF MigrationTypeOK

\* A step of Migrate leaves every table and row its type.
LEMMA MigrationTypeStep ==
  MigrationTypeOK /\ KeysStored /\ [MigrationNext]_migrationVars => MigrationTypeOK' /\ KeysStored'
<1> SUFFICES ASSUME MigrationTypeOK, KeysStored, [MigrationNext]_migrationVars
             PROVE  MigrationTypeOK' /\ KeysStored'
  OBVIOUS
<1> DEFINE Steps == {"idle", "create", "sync", "prune", "accounts", "bindings", "routes", "users",
                     "logs", "indexes", "validate", "done"}
           Moved == step' \in Steps /\ runs' \in 0 .. MaxRuns
<1>1. ASSUME NEW from, NEW to \in Steps, Goto(from, to) PROVE Moved
  BY <1>1 DEF Goto, MigrationTypeOK
<1>2. ASSUME Moved, UNCHANGED dataVars PROVE MigrationTypeOK' /\ KeysStored'
  BY <1>2 DEF dataVars, MigrationTypeOK, KeysStored
<1>3. ASSUME NEW tables, Create(tables), Moved PROVE MigrationTypeOK' /\ KeysStored'
  <2>1. schema' \in [Tables -> {"absent", "legacy", "keyed", "current"}]
    BY <1>3 DEF Create, MigrationTypeOK
  <2>2. indexes' \subseteq LogIndexes
    BY <1>3 DEF Create, MigrationTypeOK, LogIndexes
  <2> QED
    BY <1>3, <2>1, <2>2 DEF Create, MigrationTypeOK, KeysStored
<1>4. ASSUME NEW t, Moved, schema' = [schema EXCEPT ![t] = "current"] \/
               schema' = [schema EXCEPT ![t] = "absent"]
      PROVE  schema' \in [Tables -> {"absent", "legacy", "keyed", "current"}]
  BY <1>4 DEF MigrationTypeOK
<1>5. CASE Run
  <2>1. Moved
    BY <1>5, MigrationAssumption DEF Run, MigrationTypeOK
  <2> QED
    BY <1>2, <1>5, <2>1 DEF Run
<1>6. CASE schemaSQL
  BY <1>1, <1>3, <1>6 DEF schemaSQL
<1>7. CASE CreateInterrupted
  BY <1>1, <1>3, <1>7 DEF CreateInterrupted
<1>8. ASSUME NEW a \in DOMAIN accounts PROVE BucketKeyExpr(a) \in Keys
  BY KeyTypes DEF BucketKeyExpr, KeysStored, MigrationTypeOK
<1>9. CASE SyncBuckets
  <2>1. Moved
    BY <1>1, <1>9 DEF SyncBuckets
  <2>2. DOMAIN buckets' \subseteq Keys
    BY <1>8, <1>9 DEF SyncBuckets, MigrationTypeOK
  <2> QED
    BY <1>9, <2>1, <2>2 DEF SyncBuckets, MigrationTypeOK, KeysStored
<1>10. CASE PruneBuckets
  <2>1. Moved
    BY <1>1, <1>10 DEF PruneBuckets
  <2>2. DOMAIN buckets' \subseteq Keys
    BY <1>10 DEF PruneBuckets, MigrationTypeOK
  <2> QED
    BY <1>10, <2>1, <2>2 DEF PruneBuckets, MigrationTypeOK, KeysStored
<1>11. CASE migrateAccountsTable
  <2>1. Moved
    BY <1>1, <1>11 DEF migrateAccountsTable
  <2>2. schema' \in [Tables -> {"absent", "legacy", "keyed", "current"}]
    BY <1>11 DEF migrateAccountsTable, MigrationTypeOK
  <2>3. DOMAIN accounts' = DOMAIN accounts
    BY <1>11 DEF migrateAccountsTable
  <2>4. KeysStored'
    <3>1. CASE accounts' = accounts
      BY <3>1 DEF KeysStored
    <3>2. CASE accounts' = [a \in DOMAIN accounts |-> DefaultKey(a)]
      <4>1. DOMAIN accounts' = DOMAIN accounts /\ DOMAIN accounts \subseteq AccountIds
        BY <3>2 DEF MigrationTypeOK
      <4>2. ASSUME NEW a \in DOMAIN accounts PROVE accounts'[a] \in Keys
        BY <3>2, <4>1, KeyTypes
      <4>3. Keys' = Keys
        BY DEF Keys, KeyInUse, DefaultKey
      <4> QED
        BY <4>1, <4>2, <4>3 DEF KeysStored
    <3> QED
      BY <1>11, <3>1, <3>2 DEF migrateAccountsTable
  <2> QED
    BY <1>11, <2>1, <2>2, <2>3, <2>4 DEF migrateAccountsTable, MigrationTypeOK
<1>12. CASE CopyAccountsFails
  BY <1>1, <1>2, <1>12 DEF CopyAccountsFails
<1>13. CASE migrateSessionBindingsTable
  <2>1. Moved
    BY <1>1, <1>13 DEF migrateSessionBindingsTable
  <2>2. schema' \in [Tables -> {"absent", "legacy", "keyed", "current"}]
    BY <1>13 DEF migrateSessionBindingsTable, MigrationTypeOK
  <2>3. DOMAIN bindings' \subseteq Sessions
    BY <1>13 DEF migrateSessionBindingsTable, MigrationTypeOK
  <2> QED
    BY <1>13, <2>1, <2>2, <2>3 DEF migrateSessionBindingsTable, MigrationTypeOK, KeysStored
<1>14. CASE DropRouteBindings
  <2>1. Moved
    BY <1>1, <1>14 DEF DropRouteBindings
  <2> QED
    BY <1>4, <1>14, <2>1 DEF DropRouteBindings, MigrationTypeOK, KeysStored
<1>15. CASE migrateUsersTable
  <2>1. Moved
    BY <1>1, <1>15 DEF migrateUsersTable
  <2> QED
    BY <1>4, <1>15, <2>1 DEF migrateUsersTable, MigrationTypeOK, KeysStored
<1>16. CASE migrateRequestLogTable
  <2>1. Moved
    BY <1>1, <1>16 DEF migrateRequestLogTable
  <2> QED
    BY <1>4, <1>16, <2>1 DEF migrateRequestLogTable, MigrationTypeOK, KeysStored
<1>17. CASE ensureRequestLogIndexes
  <2>1. Moved
    BY <1>1, <1>17 DEF ensureRequestLogIndexes
  <2> QED
    BY <1>17, <2>1 DEF ensureRequestLogIndexes, MigrationTypeOK, KeysStored
<1>18. CASE Validate
  BY <1>1, <1>2, <1>18 DEF Validate
<1>19. CASE Again
  BY <1>1, <1>2, <1>19 DEF Again
<1>20. CASE Interrupted
  BY <1>1, <1>2, <1>20 DEF Interrupted
<1>21. CASE UNCHANGED migrationVars
  BY <1>21 DEF migrationVars, MigrationTypeOK, KeysStored
<1> QED
  BY <1>5, <1>6, <1>7, <1>9, <1>10, <1>11, <1>12, <1>13, <1>14, <1>15, <1>16, <1>17, <1>18,
     <1>19, <1>20, <1>21 DEF MigrationNext

\* Migrate keeps every table at a schema it knows and every bucket under a key the server can
\* compute, for any database it may find and wherever its runs are cut off.
THEOREM MigrationTypeCorrect == MigrationSpec => []MigrationTypeOK
  BY MigrationTypeInit, MigrationTypeStep, PTL DEF MigrationSpec

-----------------------------------------------------------------------------
(* The event bus.                                                          *)

USE BusAssumption

-----------------------------------------------------------------------------
(* The slots of the ring.                                                  *)

\* The remainder, where a position has wrapped at most once.
LEMMA ModWrap ==
  ASSUME NEW n \in Nat \ {0}, NEW x \in 0 .. 2 * n - 1
  PROVE  x % n = IF x < n THEN x ELSE x - n
<1>1. CASE x < n
  BY <1>1
<1>2. CASE x >= n
  <2>1. x - n \in 0 .. n - 1 /\ x = (x - n) + n
    BY <1>2
  <2> QED
    BY <1>2, <2>1
<1> QED
  BY <1>1, <1>2

\* The slot of the j-th event of a ring at position pos that holds count events.
SlotOf(pos, count, j) == (((pos - count + RingSize) % RingSize) + j - 1) % RingSize

\* Counting back from the position, with one wrap at most.
LEMMA SlotForm ==
  ASSUME NEW pos \in Slots, NEW count \in 0 .. RingSize, NEW j \in 1 .. count
  PROVE  SlotOf(pos, count, j) = IF pos - count + j - 1 < 0
                                 THEN pos - count + j - 1 + RingSize
                                 ELSE pos - count + j - 1
<1> DEFINE start == (pos - count + RingSize) % RingSize
<1>1. start = IF pos - count < 0 THEN pos - count + RingSize ELSE pos - count
  <2>1. pos - count + RingSize \in 0 .. 2 * RingSize - 1
    BY DEF Slots
  <2> QED
    BY <2>1, ModWrap DEF Slots
<1>2. start \in 0 .. RingSize - 1
  BY <1>1 DEF Slots
<1> HIDE DEF start
<1> DEFINE x == start + j - 1
<1>3. x \in 0 .. 2 * RingSize - 1
  BY <1>2
<1>4. SlotOf(pos, count, j) = x % RingSize
  BY DEF SlotOf, start
<1> HIDE DEF x
<1>5. x % RingSize = IF x < RingSize THEN x ELSE x - RingSize
  BY <1>3, ModWrap
<1> QED
  BY <1>1, <1>2, <1>4, <1>5 DEF Slots, x

\* The position after one more event.
LEMMA NextPos ==
  ASSUME NEW pos \in Slots
  PROVE  (pos + 1) % RingSize = IF pos + 1 = RingSize THEN 0 ELSE pos + 1
<1>1. pos + 1 \in 0 .. 2 * RingSize - 1
  BY DEF Slots
<1> QED
  BY <1>1, ModWrap DEF Slots

\* The event just published is the last one, ...
LEMMA SlotLast ==
  ASSUME NEW pos \in Slots, NEW count \in 1 .. RingSize
  PROVE  SlotOf((pos + 1) % RingSize, count, count) = pos
<1> DEFINE q == (pos + 1) % RingSize
<1>1. q \in Slots /\ q = IF pos + 1 = RingSize THEN 0 ELSE pos + 1
  BY NextPos DEF Slots
<1> HIDE DEF q
<1>2. SlotOf(q, count, count) = IF q - count + count - 1 < 0
                                THEN q - count + count - 1 + RingSize
                                ELSE q - count + count - 1
  BY <1>1, SlotForm
<1>3. SlotOf(q, count, count) = pos
  BY <1>1, <1>2 DEF Slots
<1> QED
  BY <1>3 DEF q

\* ... and the ones before it keep their slots, which are other ones: all of them
\* while there is room, all but the oldest in a full ring.
LEMMA SlotKept ==
  ASSUME NEW pos \in Slots, NEW count \in 0 .. RingSize - 1, NEW j \in 1 .. count
  PROVE  /\ SlotOf((pos + 1) % RingSize, count + 1, j) = SlotOf(pos, count, j)
         /\ SlotOf(pos, count, j) \in Slots \ {pos}
<1> DEFINE q == (pos + 1) % RingSize
<1>1. q \in Slots /\ q = IF pos + 1 = RingSize THEN 0 ELSE pos + 1
  BY NextPos DEF Slots
<1> HIDE DEF q
<1>2. SlotOf(q, count + 1, j) = IF q - (count + 1) + j - 1 < 0
                                THEN q - (count + 1) + j - 1 + RingSize
                                ELSE q - (count + 1) + j - 1
  BY <1>1, SlotForm
<1>3. SlotOf(pos, count, j) = IF pos - count + j - 1 < 0
                              THEN pos - count + j - 1 + RingSize
                              ELSE pos - count + j - 1
  BY SlotForm
<1>4. SlotOf(q, count + 1, j) = SlotOf(pos, count, j)
  BY <1>1, <1>2, <1>3 DEF Slots
<1>5. SlotOf(pos, count, j) \in Slots \ {pos}
  BY <1>3 DEF Slots
<1> QED
  BY <1>4, <1>5 DEF q

\* When the ring is full and the position moves on, slot j of the new window is
\* slot j + 1 of the old one, and the overwritten slot is not in it.
LEMMA SlotShifted ==
  ASSUME NEW pos \in Slots, NEW j \in 1 .. RingSize - 1
  PROVE  /\ SlotOf((pos + 1) % RingSize, RingSize, j) = SlotOf(pos, RingSize, j + 1)
         /\ SlotOf(pos, RingSize, j + 1) \in Slots \ {pos}
<1> DEFINE q == (pos + 1) % RingSize
<1>1. q \in Slots /\ q = IF pos + 1 = RingSize THEN 0 ELSE pos + 1
  BY NextPos DEF Slots
<1> HIDE DEF q
<1>2. SlotOf(q, RingSize, j) = IF q - RingSize + j - 1 < 0
                               THEN q - RingSize + j - 1 + RingSize
                               ELSE q - RingSize + j - 1
  BY <1>1, SlotForm
<1>3. SlotOf(pos, RingSize, j + 1) = IF pos - RingSize + (j + 1) - 1 < 0
                                     THEN pos - RingSize + (j + 1) - 1 + RingSize
                                     ELSE pos - RingSize + (j + 1) - 1
  BY SlotForm
<1>4. SlotOf(q, RingSize, j) = SlotOf(pos, RingSize, j + 1)
  BY <1>1, <1>2, <1>3 DEF Slots
<1>5. SlotOf(pos, RingSize, j + 1) \in Slots \ {pos}
  BY <1>3 DEF Slots
<1> QED
  BY <1>4, <1>5 DEF q

\* The events of the ring are the latest ones, in the order of their publication.
RingInv ==
  /\ ringCount <= published
  /\ \A j \in 1 .. ringCount : ring[SlotOf(ringPos, ringCount, j)] = published - ringCount + j

\* An interval from 1 has one end.
LEMMA IntervalEnd == ASSUME NEW m \in Nat, NEW n \in Nat, 1 .. m = 1 .. n PROVE m = n
<1>1. ASSUME NEW a \in Nat, NEW b \in Nat, 1 .. a = 1 .. b PROVE a <= b
  <2>1. CASE a = 0
    BY <2>1
  <2>2. CASE a # 0
    <3>1. a \in 1 .. a
      BY <2>2
    <3> QED
      BY <1>1, <3>1
  <2> QED
    BY <2>1, <2>2
<1> QED
  BY <1>1

\* What recentLocked returns.
LogIsRecent ==
  /\ recentLocked = [i \in 1 .. ringCount |-> published - ringCount + i]
  /\ recentLocked \in Seq(1 .. MaxPublished)
  /\ Len(recentLocked) = ringCount

\* recentLocked returns the last ringCount events, oldest first.
LEMMA RecentForm == BusTypeOK /\ RingInv => LogIsRecent
<1> SUFFICES ASSUME BusTypeOK, RingInv PROVE LogIsRecent
  OBVIOUS
<1>1. recentLocked = [i \in 1 .. ringCount |-> ring[SlotOf(ringPos, ringCount, i)]]
  BY DEF recentLocked, SlotOf
<1>2. recentLocked = [i \in 1 .. ringCount |-> published - ringCount + i]
  BY <1>1 DEF RingInv
<1>3. recentLocked \in [1 .. ringCount -> 1 .. MaxPublished]
  BY <1>2 DEF BusTypeOK, RingInv
<1>4. ringCount \in Nat
  BY DEF BusTypeOK
<1>5. recentLocked \in Seq(1 .. MaxPublished)
  BY <1>3, <1>4, SeqDef
<1>6. Len(recentLocked) = ringCount
  <2>1. Len(recentLocked) \in Nat /\ DOMAIN recentLocked = 1 .. Len(recentLocked)
    BY <1>5, LenProperties
  <2>2. DOMAIN recentLocked = 1 .. ringCount
    BY <1>2
  <2> QED
    BY <2>1, <2>2, <1>4, IntervalEnd
<1> QED
  BY <1>2, <1>5, <1>6 DEF LogIsRecent

\* What one publication does to the ring.
LEMMA PublishRing ==
  ASSUME BusTypeOK, RingInv, Publish
  PROVE  RingInv'
<1> USE DEF BusTypeOK
<1> DEFINE q == (ringPos + 1) % RingSize
           n == published + 1
<1>1. /\ ringPos' = q /\ published' = n
      /\ ringCount' = IF ringCount < RingSize THEN ringCount + 1 ELSE ringCount
      /\ ring' = [ring EXCEPT ![ringPos] = n]
  BY DEF Publish
<1>2. ringCount' <= published'
  BY <1>1 DEF RingInv
<1>3. ASSUME NEW j \in 1 .. ringCount'
      PROVE  ring'[SlotOf(q, ringCount', j)] = n - ringCount' + j
  <2>1. CASE ringCount < RingSize /\ j = ringCount + 1
    <3>1. SlotOf(q, ringCount + 1, j) = ringPos
      BY <2>1, SlotLast
    <3> QED
      BY <1>1, <2>1, <3>1
  <2>2. CASE ringCount < RingSize /\ j < ringCount + 1
    <3>1. j \in 1 .. ringCount /\ ringCount \in 0 .. RingSize - 1
      BY <1>1, <2>2
    <3>2. /\ SlotOf(q, ringCount + 1, j) = SlotOf(ringPos, ringCount, j)
          /\ SlotOf(ringPos, ringCount, j) \in Slots \ {ringPos}
      BY <3>1, SlotKept
    <3>3. ring[SlotOf(ringPos, ringCount, j)] = published - ringCount + j
      BY <3>1 DEF RingInv
    <3>4. ring'[SlotOf(q, ringCount + 1, j)] = published - ringCount + j
      BY <1>1, <3>2, <3>3
    <3>5. published - ringCount + j = n - (ringCount + 1) + j
      BY <3>1
    <3> QED
      BY <1>1, <2>2, <3>4, <3>5
  <2>3. CASE ringCount = RingSize /\ j = RingSize
    <3>1. SlotOf(q, RingSize, j) = ringPos
      BY <2>3, SlotLast
    <3> QED
      BY <1>1, <2>3, <3>1
  <2>4. CASE ringCount = RingSize /\ j < RingSize
    <3>1. j \in 1 .. RingSize - 1
      BY <1>1, <2>4
    <3>2. /\ SlotOf(q, RingSize, j) = SlotOf(ringPos, RingSize, j + 1)
          /\ SlotOf(ringPos, RingSize, j + 1) \in Slots \ {ringPos}
      BY <3>1, SlotShifted
    <3>3. ring[SlotOf(ringPos, RingSize, j + 1)] = published - RingSize + (j + 1)
      BY <2>4, <3>1 DEF RingInv
    <3>4. ring'[SlotOf(q, RingSize, j)] = published - RingSize + (j + 1)
      BY <1>1, <3>2, <3>3
    <3> QED
      BY <1>1, <2>4, <3>1, <3>4
  <2> QED
    BY <1>1, <2>1, <2>2, <2>3, <2>4
<1>4. \A j \in 1 .. ringCount' : ring'[SlotOf(ringPos', ringCount', j)] = published' - ringCount' + j
  BY <1>1, <1>3
<1> QED
  BY <1>2, <1>4 DEF RingInv, SlotOf

-----------------------------------------------------------------------------
(* Types, and the ring in every reachable state.                           *)

\* The initial state.
LEMMA BusInitInv == BusInit => BusTypeOK /\ RingInv
<1> SUFFICES ASSUME BusInit PROVE BusTypeOK /\ RingInv
  OBVIOUS
<1>1. <<>> \in Seq(1 .. MaxPublished)
  BY EmptySeq
<1>2. BusTypeOK
  BY <1>1 DEF BusInit, BusTypeOK, Slots, Ids
<1>3. RingInv
  BY DEF BusInit, RingInv
<1> QED
  BY <1>2, <1>3

\* Every step keeps the types and what the ring holds.
LEMMA BusStep == BusTypeOK /\ RingInv /\ [BusNext]_busVars => BusTypeOK' /\ RingInv'
<1> SUFFICES ASSUME BusTypeOK, RingInv, [BusNext]_busVars
             PROVE  BusTypeOK' /\ RingInv'
  OBVIOUS
<1>1. CASE Publish
  <2>1. published + 1 \in 1 .. MaxPublished
    BY <1>1 DEF Publish, BusTypeOK
  <2>2. ring' \in [Slots -> 0 .. MaxPublished]
    BY <1>1, <2>1 DEF Publish, BusTypeOK
  <2>3. ringPos' \in Slots /\ ringCount' \in 0 .. RingSize /\ published' \in 0 .. MaxPublished
    BY <1>1, <2>1, NextPos DEF Publish, BusTypeOK, Slots
  <2>4. \A i \in Ids : Append(channel[i], published + 1) \in Seq(1 .. MaxPublished)
    BY <2>1, AppendProperties DEF BusTypeOK
  <2>5. channel' \in [Ids -> Seq(1 .. MaxPublished)]
    BY <1>1, <2>4 DEF Publish, Deliver, BusTypeOK
  <2>6. lagged' \subseteq Ids
    BY <1>1 DEF Publish, Deliver, BusTypeOK
  <2>7. BusTypeOK'
    BY <1>1, <2>2, <2>3, <2>5, <2>6 DEF Publish, BusTypeOK
  <2> QED
    BY <1>1, <2>7, PublishRing
<1>2. CASE Subscribe
  <2>1. reader' \in [Ids -> Seq(1 .. MaxPublished)]
    BY <1>2, RecentForm DEF Subscribe, BusTypeOK, LogIsRecent
  <2>2. BusTypeOK'
    BY <1>2, <2>1 DEF Subscribe, BusTypeOK, Ids
  <2>3. RingInv'
    BY <1>2 DEF Subscribe, RingInv, SlotOf
  <2> QED
    BY <2>2, <2>3
<1>3. CASE Clear
  <2>1. BusTypeOK'
    BY <1>3 DEF Clear, BusTypeOK, Slots, subVars
  <2>2. RingInv'
    BY <1>3 DEF Clear, RingInv, BusTypeOK
  <2> QED
    BY <2>1, <2>2
<1>4. ASSUME NEW i \in Ids, Unsubscribe(i)
      PROVE  BusTypeOK' /\ RingInv'
  BY <1>4 DEF Unsubscribe, BusTypeOK, RingInv, SlotOf
<1>5. ASSUME NEW i \in Ids, Receive(i)
      PROVE  BusTypeOK' /\ RingInv'
  <2>1. Head(channel[i]) \in 1 .. MaxPublished /\ Tail(channel[i]) \in Seq(1 .. MaxPublished)
    BY <1>5, HeadTailProperties DEF Receive, BusTypeOK
  <2>2. Append(reader[i], Head(channel[i])) \in Seq(1 .. MaxPublished)
    BY <2>1, AppendProperties DEF BusTypeOK
  <2>3. BusTypeOK'
    BY <1>5, <2>1, <2>2 DEF Receive, BusTypeOK
  <2>4. RingInv'
    BY <1>5 DEF Receive, RingInv, SlotOf
  <2> QED
    BY <2>3, <2>4
<1>6. CASE UNCHANGED busVars
  BY <1>6 DEF busVars, BusTypeOK, RingInv, SlotOf
<1> QED
  BY <1>1, <1>2, <1>3, <1>4, <1>5, <1>6 DEF BusNext

\* The variables of the bus keep their types, and recentLocked, whatever the size of
\* the ring, reads slots that hold the latest events in order.
THEOREM BusTypeCorrect == BusSpec => [](BusTypeOK /\ RingInv)
BY BusInitInv, BusStep, PTL DEF BusSpec

-----------------------------------------------------------------------------
(* The ring implements the log of recent events.                           *)

\* A publication shows in the log as the newest event, and pushes out the oldest one
\* when the ring is full.
LEMMA PublishAppends ==
  ASSUME BusTypeOK, RingInv, BusTypeOK', RingInv', Publish
  PROVE  recentLocked' = Log!Newest(Append(recentLocked, published + 1))
<1> DEFINE S == 1 .. MaxPublished
           old == recentLocked
           longer == Append(old, published + 1)
<1>1. published + 1 \in S
  BY DEF Publish, BusTypeOK
<1>2. /\ old \in Seq(S) /\ Len(old) = ringCount
      /\ old = [i \in 1 .. ringCount |-> published - ringCount + i]
  BY RecentForm DEF LogIsRecent
<1>3. LogIsRecent'
  BY RecentForm, PTL
<1>4. /\ recentLocked' \in Seq(S) /\ Len(recentLocked') = ringCount'
      /\ \A i \in 1 .. ringCount' : recentLocked'[i] = published' - ringCount' + i
  BY <1>3 DEF LogIsRecent
<1>5. /\ longer \in Seq(S) /\ longer # <<>> /\ Len(longer) = ringCount + 1
      /\ \A i \in 1 .. ringCount + 1 : longer[i] = published - ringCount + i
  <2> HIDE DEF old, S
  <2>1. /\ longer \in Seq(S) /\ longer # <<>> /\ Len(longer) = Len(old) + 1
        /\ \A i \in 1 .. Len(old) : longer[i] = old[i]
        /\ longer[Len(old) + 1] = published + 1
    <3> old \in Seq(S)
      BY <1>2
    <3>1. \A e \in S : /\ Append(old, e) \in Seq(S) /\ Append(old, e) # <<>>
                       /\ Len(Append(old, e)) = Len(old) + 1
                       /\ \A i \in 1 .. Len(old) : Append(old, e)[i] = old[i]
                       /\ Append(old, e)[Len(old) + 1] = e
      BY AppendProperties
    <3> QED
      BY <1>1, <3>1
  <2> HIDE DEF longer
  <2>2. ASSUME NEW i \in 1 .. ringCount + 1 PROVE longer[i] = published - ringCount + i
    <3>1. CASE i \in 1 .. ringCount
      BY <1>2, <2>1, <3>1
    <3>2. CASE i = ringCount + 1
      BY <1>2, <2>1, <3>2 DEF BusTypeOK
    <3> QED
      BY <3>1, <3>2 DEF BusTypeOK
  <2> QED
    BY <1>2, <2>1, <2>2
<1> HIDE DEF longer, old
<1>6. published' = published + 1
  BY DEF Publish
<1>7. CASE ringCount < RingSize
  <2>1. ringCount' = ringCount + 1 /\ Log!Newest(longer) = longer
    BY <1>5, <1>7 DEF Publish, BusTypeOK, Log!Newest
  <2>2. recentLocked' = longer
    <3>1. Len(recentLocked') = Len(longer)
      BY <1>4, <1>5, <2>1
    <3>2. \A i \in 1 .. Len(recentLocked') : recentLocked'[i] = longer[i]
      BY <1>4, <1>5, <1>6, <2>1 DEF BusTypeOK
    <3> QED
      BY <1>4, <1>5, <3>1, <3>2, SeqEqual
  <2> QED
    BY <2>1, <2>2 DEF longer, old
<1>8. CASE ringCount = RingSize
  <2>1. ringCount' = ringCount /\ Log!Newest(longer) = Tail(longer)
    BY <1>5, <1>8 DEF Publish, BusTypeOK, Log!Newest
  <2>2. /\ Tail(longer) \in Seq(S) /\ Len(Tail(longer)) = ringCount
        /\ \A i \in 1 .. ringCount : Tail(longer)[i] = longer[i + 1]
    <3>1. /\ Tail(longer) \in Seq(S) /\ Len(Tail(longer)) = Len(longer) - 1
          /\ \A i \in 1 .. Len(Tail(longer)) : Tail(longer)[i] = longer[i + 1]
      BY <1>5, HeadTailProperties
    <3> QED
      BY <1>5, <3>1 DEF BusTypeOK
  <2>3. recentLocked' = Tail(longer)
    <3>1. Len(recentLocked') = Len(Tail(longer))
      BY <1>4, <2>1, <2>2
    <3>2. \A i \in 1 .. Len(recentLocked') : recentLocked'[i] = Tail(longer)[i]
      BY <1>4, <1>5, <1>6, <2>1, <2>2 DEF BusTypeOK
    <3> QED
      BY <1>4, <2>2, <3>1, <3>2, SeqEqual
  <2> QED
    BY <2>1, <2>3 DEF longer, old
<1> QED
  BY <1>7, <1>8 DEF BusTypeOK

\* Every step of the bus is a step of the log or leaves it as it was.
LEMMA RingLogStep ==
  ASSUME BusTypeOK, RingInv, BusTypeOK', RingInv', [BusNext]_busVars
  PROVE  [Log!LogNext]_recentLocked
<1>1. CASE Publish
  <2>1. published + 1 \in 1 .. MaxPublished
    BY <1>1 DEF Publish, BusTypeOK
  <2> QED
    BY <1>1, <2>1, PublishAppends DEF Log!LogNext, Log!LogPublish
<1>2. CASE Clear
  <2>1. recentLocked' = <<>>
    BY <1>2 DEF Clear, recentLocked
  <2> QED
    BY <2>1 DEF Log!LogNext, Log!LogClear
<1>3. CASE UNCHANGED ringVars
  BY <1>3 DEF ringVars, recentLocked
<1>4. CASE Subscribe \/ (\E i \in Ids : Unsubscribe(i) \/ Receive(i)) \/ UNCHANGED busVars
  BY <1>3, <1>4 DEF Subscribe, Unsubscribe, Receive, ringVars, busVars
<1> QED
  BY <1>1, <1>2, <1>4 DEF BusNext

\* The ring with its wrapping position and its count implements RecentLog, for every
\* size: a wrap, a clear half way round or a publication after a clear never shows an
\* old slot again, hides a recent event or changes their order.
THEOREM RingRefinesLog == BusSpec => RingImplementsLog
<1>1. BusInit => Log!LogInit
  BY DEF BusInit, Log!LogInit, recentLocked
<1>2. /\ BusTypeOK /\ RingInv /\ BusTypeOK' /\ RingInv' /\ [BusNext]_busVars
      => [Log!LogNext]_recentLocked
  BY RingLogStep
<1> QED
  BY <1>1, <1>2, BusTypeCorrect, PTL DEF BusSpec, RingImplementsLog, Log!LogSpec

-----------------------------------------------------------------------------
(* The stream of a subscriber.                                             *)

\* An event sent to the channel comes last in what the subscriber will have seen, ...
LEMMA SendAppends ==
  ASSUME NEW S, NEW r \in Seq(S), NEW c \in Seq(S), NEW e \in S
  PROVE  r \o Append(c, e) = Append(r \o c, e)
<1>1. <<e>> \in Seq(S)
  OBVIOUS
<1>2. Append(c, e) = c \o <<e>>
  BY AppendIsConcat
<1>3. (r \o c) \in Seq(S)
  BY ConcatProperties
<1>4. Append(r \o c, e) = (r \o c) \o <<e>>
  BY <1>3, AppendIsConcat
<1>5. (r \o c) \o <<e>> = r \o (c \o <<e>>)
  BY <1>1, ConcatAssociative
<1> QED
  BY <1>2, <1>4, <1>5

\* ... and receiving one moves it over without a change to the whole.
LEMMA ReceiveKeeps ==
  ASSUME NEW S, NEW r \in Seq(S), NEW c \in Seq(S), c # <<>>
  PROVE  Append(r, Head(c)) \o Tail(c) = r \o c
<1> DEFINE h == Head(c)
           t == Tail(c)
<1>1. h \in S /\ t \in Seq(S)
  BY HeadTailProperties
<1>2. c = <<h>> \o t
  OBVIOUS
<1>3. <<h>> \in Seq(S)
  BY <1>1
<1> HIDE DEF h, t
<1>4. Append(r, h) = r \o <<h>>
  BY <1>1, AppendIsConcat
<1>5. (r \o <<h>>) \o t = r \o (<<h>> \o t)
  BY <1>1, <1>3, ConcatAssociative
<1> QED
  BY <1>2, <1>4, <1>5 DEF h, t

\* What a subscriber has and will receive.
Seen(i) == reader[i] \o channel[i]

Ascending(s) == \A k \in 1 .. Len(s) - 1 : s[k] < s[k + 1]
Gapless(s) == \A k \in 1 .. Len(s) : s[k] = s[1] + k - 1

\* The next event after a stream that lies in the past.
LEMMA StreamGrows ==
  ASSUME NEW n \in Nat, NEW s \in Seq(Nat), Ascending(s), \A k \in 1 .. Len(s) : s[k] <= n
  PROVE  /\ Ascending(Append(s, n + 1))
         /\ \A k \in 1 .. Len(Append(s, n + 1)) : Append(s, n + 1)[k] <= n + 1
         /\ Append(s, n + 1)[Len(Append(s, n + 1))] = n + 1
         /\ Gapless(s) /\ (s # <<>> => s[Len(s)] = n) => Gapless(Append(s, n + 1))
<1> DEFINE t == Append(s, n + 1)
<1>1. /\ Len(s) \in Nat /\ Len(t) = Len(s) + 1 /\ t[Len(s) + 1] = n + 1
      /\ \A k \in 1 .. Len(s) : t[k] = s[k] /\ s[k] \in Nat
  <2>1. n + 1 \in Nat
    OBVIOUS
  <2>2. \A e \in Nat : /\ Len(Append(s, e)) = Len(s) + 1
                       /\ \A k \in 1 .. Len(s) : Append(s, e)[k] = s[k]
                       /\ Append(s, e)[Len(s) + 1] = e
    BY AppendProperties
  <2>3. Len(s) \in Nat /\ \A k \in 1 .. Len(s) : s[k] \in Nat
    BY LenProperties, ElementOfSeq
  <2> QED
    BY <2>1, <2>2, <2>3
<1> HIDE DEF t
<1>2. Ascending(t)
  <2> SUFFICES ASSUME NEW k \in 1 .. Len(t) - 1 PROVE t[k] < t[k + 1]
    BY DEF Ascending
  <2>1. CASE k < Len(s)
    <3>1. k \in 1 .. Len(s) - 1 /\ k \in 1 .. Len(s) /\ k + 1 \in 1 .. Len(s)
      BY <1>1, <2>1
    <3>2. s[k] < s[k + 1]
      BY <3>1 DEF Ascending
    <3>3. t[k] = s[k] /\ t[k + 1] = s[k + 1]
      BY <1>1, <3>1
    <3> QED
      BY <3>2, <3>3
  <2>2. CASE k = Len(s)
    BY <1>1, <2>2
  <2> QED
    BY <1>1, <2>1, <2>2
<1>3. \A k \in 1 .. Len(t) : t[k] <= n + 1
  BY <1>1
<1>4. ASSUME Gapless(s), s # <<>> => s[Len(s)] = n PROVE Gapless(t)
  <2> SUFFICES ASSUME NEW k \in 1 .. Len(t) PROVE t[k] = t[1] + k - 1
    BY DEF Gapless
  <2>1. CASE s = <<>>
    <3>1. Len(s) = 0
      BY <2>1
    <3>2. k = 1 /\ t[1] = n + 1
      BY <1>1, <3>1
    <3> QED
      BY <3>2
  <2>2. CASE s # <<>>
    <3>1. Len(s) \in Nat \ {0}
      BY <2>2, EmptySeq
    <3>2. 1 \in 1 .. Len(s) /\ Len(s) \in 1 .. Len(s)
      BY <3>1
    <3>3. t[1] = s[1] /\ t[1] \in Nat
      BY <1>1, <3>2
    <3>4. n = s[1] + Len(s) - 1
      BY <1>4, <2>2, <3>2 DEF Gapless
    <3>5. CASE k \in 1 .. Len(s)
      BY <1>1, <1>4, <3>3, <3>5 DEF Gapless
    <3>6. CASE k = Len(s) + 1
      BY <1>1, <3>3, <3>4, <3>6
    <3> QED
      BY <1>1, <3>5, <3>6
  <2> QED
    BY <2>1, <2>2
<1> QED
  BY <1>1, <1>2, <1>3, <1>4 DEF t

\* The inductive invariant, for one id.  StreamUnbroken needs that nothing seen lies in
\* the future and that an id not yet handed out has neither events nor a past.
StreamOf(i) ==
  /\ i >= nextID => /\ reader[i] = <<>> /\ channel[i] = <<>>
                    /\ i \notin subscribers /\ i \notin lagged
  /\ \A k \in 1 .. Len(Seen(i)) : Seen(i)[k] <= published
  /\ Ascending(Seen(i))
  /\ i \notin lagged /\ Seen(i) # <<>> => Gapless(Seen(i))
  /\ i \in subscribers /\ i \notin lagged /\ Seen(i) # <<>> =>
       Seen(i)[Len(Seen(i))] = published

StreamInv == \A i \in Ids : StreamOf(i)

\* What has been seen is a sequence of numbers.
LEMMA SeenIsSeq ==
  ASSUME BusTypeOK, NEW i \in Ids
  PROVE  Seen(i) \in Seq(1 .. MaxPublished) /\ Seen(i) \in Seq(Nat)
<1>1. Seen(i) \in Seq(1 .. MaxPublished)
  BY ConcatProperties DEF Seen, BusTypeOK
<1>2. 1 .. MaxPublished \subseteq Nat
  OBVIOUS
<1> QED
  BY <1>1, <1>2, SeqMonotonic

\* Publish: each subscriber gets the event behind all it has, or is marked as lagging.
LEMMA PublishStream ==
  ASSUME BusTypeOK, BusTypeOK', Publish, NEW i \in Ids, StreamOf(i)
  PROVE  StreamOf(i)'
<1>1. /\ published' = published + 1 /\ UNCHANGED <<subscribers, nextID, reader>>
      /\ published \in Nat /\ published + 1 \in 1 .. MaxPublished
  BY DEF Publish, BusTypeOK
<1>2. Seen(i) \in Seq(Nat) /\ Len(Seen(i)) \in Nat /\ \A k \in 1 .. Len(Seen(i)) : Seen(i)[k] \in Nat
  BY SeenIsSeq, LenProperties, ElementOfSeq
<1>3. CASE i \in subscribers /\ Len(channel[i]) < ChanSize
  <2>1. channel'[i] = Append(channel[i], published + 1) /\ (i \in lagged' <=> i \in lagged)
    BY <1>3 DEF Publish, Deliver, BusTypeOK
  <2>2. Seen(i)' = Append(Seen(i), published + 1)
    <3>1. reader[i] \in Seq(1 .. MaxPublished) /\ channel[i] \in Seq(1 .. MaxPublished)
      BY DEF BusTypeOK
    <3>2. reader[i] \o Append(channel[i], published + 1)
            = Append(reader[i] \o channel[i], published + 1)
      <4> DEFINE S == 1 .. MaxPublished
      <4>1. \A r, c \in Seq(S), e \in S : r \o Append(c, e) = Append(r \o c, e)
        BY SendAppends
      <4> QED
        BY <1>1, <3>1, <4>1
    <3> QED
      BY <1>1, <2>1, <3>2 DEF Seen
  <2> DEFINE s == Seen(i)
             t == Append(s, published + 1)
  <2>3. /\ Ascending(t) /\ \A k \in 1 .. Len(t) : t[k] <= published + 1
        /\ t[Len(t)] = published + 1
        /\ Gapless(s) /\ (s # <<>> => s[Len(s)] = published) => Gapless(t)
    BY <1>1, <1>2, StreamGrows DEF StreamOf
  <2>4. s = <<>> => Gapless(s)
    BY DEF Gapless
  <2>5. i \notin lagged => Gapless(t)
    BY <1>3, <2>3, <2>4 DEF StreamOf
  <2>6. i < nextID
    BY <1>3 DEF StreamOf, Ids, BusTypeOK
  <2> HIDE DEF s, t
  <2>7. Seen(i)' = t
    BY <2>2 DEF t, s
  <2>8. ~(i >= nextID')
    BY <1>1, <2>6 DEF BusTypeOK, Ids
  <2>9. Ascending(Seen(i)') /\ (i \notin lagged' => Gapless(Seen(i)'))
    BY <2>1, <2>3, <2>5, <2>7
  <2>10. /\ \A k \in 1 .. Len(Seen(i)') : Seen(i)'[k] <= published'
         /\ Seen(i)'[Len(Seen(i)')] = published'
    BY <1>1, <2>3, <2>7
  <2> QED
    BY <2>8, <2>9, <2>10 DEF StreamOf, Ascending, Gapless
<1>4. CASE ~(i \in subscribers /\ Len(channel[i]) < ChanSize)
  <2>1. /\ channel'[i] = channel[i] /\ lagged \subseteq lagged'
        /\ i \in lagged' => i \in lagged \/ i \in subscribers
        /\ i \in subscribers => i \in lagged'
    BY <1>4 DEF Publish, Deliver, BusTypeOK
  <2>2. Seen(i)' = Seen(i)
    BY <1>1, <2>1 DEF Seen
  <2>3. \A k \in 1 .. Len(Seen(i)) : Seen(i)[k] <= published + 1
    BY <1>1, <1>2 DEF StreamOf
  <2>4. /\ Ascending(Seen(i)) /\ (i \notin lagged /\ Seen(i) # <<>> => Gapless(Seen(i)))
        /\ i >= nextID => /\ reader[i] = <<>> /\ channel[i] = <<>>
                          /\ i \notin subscribers /\ i \notin lagged
    BY DEF StreamOf
  <2> QED
    BY <1>1, <2>1, <2>2, <2>3, <2>4 DEF StreamOf, Ascending, Gapless
<1> QED
  BY <1>3, <1>4

\* Subscribe: the snapshot of the ring is a gapless stream up to now.
LEMMA SubscribeStream ==
  ASSUME BusTypeOK, RingInv, Subscribe, NEW i \in Ids, StreamOf(i)
  PROVE  StreamOf(i)'
<1>1. nextID' = nextID + 1 /\ UNCHANGED <<channel, lagged, published>> /\ nextID \in Nat
      /\ i \in Nat
  BY DEF Subscribe, BusTypeOK, Ids
<1>2. CASE i = nextID
  <2>1. reader'[i] = recentLocked /\ channel[i] = <<>>
    BY <1>2 DEF Subscribe, BusTypeOK, StreamOf, Ids
  <2>2. Seen(i)' = recentLocked
    <3>1. recentLocked \in Seq(1 .. MaxPublished)
      BY RecentForm DEF LogIsRecent
    <3>2. recentLocked \o <<>> = recentLocked
      BY <3>1, ConcatEmptySeq
    <3> QED
      BY <1>1, <2>1, <3>2 DEF Seen
  <2> DEFINE s == recentLocked
  <2>3. /\ Len(s) = ringCount /\ ringCount \in Nat /\ published \in Nat
        /\ \A k \in 1 .. ringCount : s[k] = published - ringCount + k
    BY RecentForm DEF LogIsRecent, BusTypeOK
  <2>4. s # <<>> => ringCount # 0
    BY RecentForm DEF LogIsRecent
  <2> HIDE DEF s
  <2>5. Ascending(s)
    BY <2>3 DEF Ascending
  <2>6. Gapless(s) /\ \A k \in 1 .. Len(s) : s[k] <= published
    BY <2>3 DEF Gapless
  <2>7. s # <<>> => s[Len(s)] = published
    BY <2>3, <2>4
  <2>8. Seen(i)' = s
    BY <2>2 DEF s
  <2>9. ~(i >= nextID')
    BY <1>1, <1>2
  <2> QED
    BY <1>1, <2>5, <2>6, <2>7, <2>8, <2>9 DEF StreamOf, Ascending, Gapless
<1>3. CASE i # nextID
  <2>1. reader'[i] = reader[i] /\ (i \in subscribers' <=> i \in subscribers)
    BY <1>3 DEF Subscribe, BusTypeOK
  <2>2. Seen(i)' = Seen(i)
    BY <1>1, <2>1 DEF Seen
  <2>3. i >= nextID' => i >= nextID
    BY <1>1
  <2> QED
    BY <1>1, <2>1, <2>2, <2>3 DEF StreamOf, Ascending, Gapless
<1> QED
  BY <1>2, <1>3

\* Receiving, leaving and clearing change nothing of what has been seen.
LEMMA QuietStream ==
  ASSUME BusTypeOK, NEW i \in Ids, StreamOf(i),
         \/ Clear \/ UNCHANGED busVars
         \/ \E j \in Ids : Unsubscribe(j) \/ Receive(j)
  PROVE  StreamOf(i)'
<1>1. /\ UNCHANGED <<nextID, lagged, published>> /\ subscribers' \subseteq subscribers
  BY DEF Clear, Unsubscribe, Receive, busVars, subVars
<1>2. /\ Seen(i)' = Seen(i)
      /\ channel[i] = <<>> => reader'[i] = reader[i] /\ channel'[i] = channel[i]
  <2>1. CASE Receive(i)
    <3>1. /\ reader'[i] = Append(reader[i], Head(channel[i])) /\ channel'[i] = Tail(channel[i])
          /\ channel[i] # <<>>
      BY <2>1 DEF Receive, BusTypeOK
    <3>2. reader[i] \in Seq(1 .. MaxPublished) /\ channel[i] \in Seq(1 .. MaxPublished)
      BY DEF BusTypeOK
    <3>3. Append(reader[i], Head(channel[i])) \o Tail(channel[i]) = reader[i] \o channel[i]
      BY <3>1, <3>2, ReceiveKeeps
    <3> QED
      BY <3>1, <3>3 DEF Seen
  <2>2. CASE ~Receive(i)
    <3>1. reader'[i] = reader[i] /\ channel'[i] = channel[i]
      BY <2>2 DEF Clear, Unsubscribe, Receive, busVars, subVars, BusTypeOK
    <3> QED
      BY <3>1 DEF Seen
  <2> QED
    BY <2>1, <2>2
<1> QED
  BY <1>1, <1>2 DEF StreamOf, Ascending, Gapless

\* Every step keeps the stream of every subscriber.
LEMMA StreamStep ==
  BusTypeOK /\ BusTypeOK' /\ RingInv /\ StreamInv /\ [BusNext]_busVars => StreamInv'
<1> SUFFICES ASSUME BusTypeOK, BusTypeOK', RingInv, StreamInv, [BusNext]_busVars,
                    NEW i \in Ids
             PROVE  StreamOf(i)'
  BY DEF StreamInv
<1>1. StreamOf(i)
  BY DEF StreamInv
<1>2. CASE Publish
  BY <1>1, <1>2, PublishStream
<1>3. CASE Subscribe
  BY <1>1, <1>3, SubscribeStream
<1>4. CASE \/ Clear \/ UNCHANGED busVars
           \/ \E j \in Ids : Unsubscribe(j) \/ Receive(j)
  BY <1>1, <1>4, QuietStream
<1> QED
  BY <1>2, <1>3, <1>4 DEF BusNext

\* A subscriber that keeps up sees the snapshot and then every event once and in order;
\* a slow one misses only what came while its channel was full: for every size of ring
\* and channel, and every interleaving of publishers, subscribers and clears.
THEOREM StreamCorrect == BusSpec => []StreamUnbroken
<1>1. BusInit => StreamInv
  <2> SUFFICES ASSUME BusInit, NEW i \in Ids PROVE StreamOf(i)
    BY DEF StreamInv
  <2>1. reader[i] = <<>> /\ channel[i] = <<>> /\ subscribers = {} /\ lagged = {}
    BY DEF BusInit
  <2>2. Seen(i) = <<>>
    BY <2>1 DEF Seen
  <2>3. Len(Seen(i)) = 0
    BY <2>2
  <2> QED
    BY <2>1, <2>2, <2>3 DEF StreamOf, Ascending
<1>2. BusTypeOK /\ StreamInv => StreamUnbroken
  BY DEF StreamInv, StreamOf, StreamUnbroken, Seen, Ascending, Gapless
<1> QED
  BY <1>1, <1>2, BusTypeCorrect, StreamStep, PTL DEF BusSpec

-----------------------------------------------------------------------------
(* The parts side by side.                                                 *)

\* A step of the composition is a step of every part, or leaves it alone.
LEMMA PartSteps ==
  [Next]_platformVars =>
    [BusNext]_busVars /\ [JobsNext]_jobsVars /\ [MigrationNext]_migrationVars
  BY DEF Next, platformVars, busVars, jobsVars, migrationVars

\* What is checked side by side are behaviours of the bus, of the jobs and of the migration:
\* what is proved of each of them holds of the composition, its fairness included.
THEOREM PartsRefined == Spec => BusSpec /\ JobsSpec /\ MigrationSpec
<1>1. Init => BusInit /\ JobsInit /\ MigrationInit
  BY DEF Init
<1> QED
  BY <1>1, PartSteps, PTL DEF Spec, BusSpec, JobsSpec, MigrationSpec

\* The types of all three parts, for every value of their constants.
THEOREM TypesCorrect == Spec => []TypesOK
  BY PartsRefined, BusTypeCorrect, JobsTypeCorrect, MigrationTypeCorrect, PTL DEF TypesOK
=============================================================================
