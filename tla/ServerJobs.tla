----------------------------- MODULE ServerJobs -----------------------------
(***************************************************************************)
(* The background jobs of the server processes (server_runtime.go) and the *)
(* request log they purge (sqlite_logs.go, requestlog/artifact.go).        *)
(*                                                                         *)
(* In leader mode every process loops for an exclusive flock on one file;  *)
(* the holder runs the jobs for the rest of its life, because the context  *)
(* of Run is never cancelled: only the end of the process frees the lock.  *)
(* Each finished attempt logs a row from a goroutine of its own and, when  *)
(* the blob mode asks for it, a file named after the row.  The purge       *)
(* deletes rows by the second, day directories by the day and blobs by     *)
(* their modification time.                                                *)
(***************************************************************************)
EXTENDS Integers, FiniteSets

CONSTANTS
  Servers,      \* server processes sharing database, blob directory and lock file
  Mode,         \* process -> BackgroundJobsMode, "leader" or "off" ("all" needs no lock
                \* and is meant for a process that runs alone)
  Entries,      \* request log entries
  TicksPerSec,  \* ticks in a second: times are finer than created_at
  TicksPerDay,
  Retention,    \* LogRetentionDays, in ticks
  BlobMode,     \* LOG_BLOBS: "off", "errors" or "all"
  MaxNow,       \* bound: last tick
  MaxStarts,    \* bound: starts of a server
  MaxFaults     \* bound: failures of mkdir, open or flock

ASSUME JobsAssumption ==
  /\ TicksPerSec \in Nat \ {0} /\ TicksPerDay \in Nat \ {0}
  /\ Retention \in Nat \ {0} /\ Retention % TicksPerDay = 0
  /\ Mode \in [Servers -> {"leader", "off"}]
  /\ BlobMode \in {"off", "errors", "all"}
  /\ "free" \notin Servers /\ "nobody" \notin Servers
  /\ MaxNow \in Nat /\ MaxStarts \in Nat /\ MaxFaults \in Nat

VARIABLES
  server,   \* process -> "down", "off" (up, no jobs), "try", "wait" (2 s) or "lead"
  starts,   \* process -> times started
  lockFile, \* the process whose descriptor holds the flock, or "free"
  faults,   \* failures of the lock's system calls so far
  clock,
  entry,    \* entry -> [stage, by, created, status]
  rows,     \* the entries in table request_log
  files,    \* entry -> modification time of its JSON file, or NoFile
  purge,    \* process -> [step, before] of the purge it runs
  cutoff    \* the latest "before" a purge has used

jobsVars == <<server, starts, lockFile, faults, clock, entry, rows, files, purge, cutoff>>
electionVars == <<server, starts, lockFile, faults>>
logVars == <<entry, rows, files>>

NoFile == -1
Never == -Retention - 1
Unix(t) == t \div TicksPerSec
Day(t) == t \div TicksPerDay
Idle == [step |-> "idle", before |-> Never]

JobsInit ==
  /\ server = [p \in Servers |-> "down"]
  /\ starts = [p \in Servers |-> 0]
  /\ lockFile = "free"
  /\ faults = 0
  /\ clock = 0
  /\ entry = [e \in Entries |-> [stage |-> "none", by |-> "nobody", created |-> 0,
                                 status |-> "ok"]]
  /\ rows = {}
  /\ files = [e \in Entries |-> NoFile]
  /\ purge = [p \in Servers |-> Idle]
  /\ cutoff = Never

-----------------------------------------------------------------------------
(* Leader election.                                                        *)

Boot(p) ==
  /\ server[p] = "down" /\ starts[p] < MaxStarts
  /\ server' = [server EXCEPT ![p] = IF Mode[p] = "off" THEN "off" ELSE "try"]
  /\ starts' = [starts EXCEPT ![p] = @ + 1]
  /\ UNCHANGED <<lockFile, faults, clock, logVars, purge, cutoff>>

Lead(p) ==
  /\ server[p] = "try" /\ lockFile = "free"
  /\ lockFile' = p
  /\ server' = [server EXCEPT ![p] = "lead"]
  /\ UNCHANGED <<starts, faults, clock, logVars, purge, cutoff>>

\* A mutant of Refused: a busy lock ends the loop.
RefusedGivesUp(p) ==
  /\ server[p] = "try" /\ lockFile # "free"
  /\ server' = [server EXCEPT ![p] = "off"]
  /\ UNCHANGED <<starts, lockFile, faults, clock, logVars, purge, cutoff>>

\* EWOULDBLOCK: wait and try again.
Refused(p) ==
  /\ server[p] = "try" /\ lockFile # "free"
  /\ server' = [server EXCEPT ![p] = "wait"]
  /\ UNCHANGED <<starts, lockFile, faults, clock, logVars, purge, cutoff>>

\* A mutant of LockFault: the jobs run although the lock was not taken.
LockFaultRunsJobs(p) ==
  /\ server[p] = "try" /\ faults < MaxFaults
  /\ faults' = faults + 1
  /\ server' = [server EXCEPT ![p] = "lead"]
  /\ UNCHANGED <<starts, lockFile, clock, logVars, purge, cutoff>>

\* MkdirAll, OpenFile or Flock fails with another error: wait and try again.
LockFault(p) ==
  /\ server[p] = "try" /\ faults < MaxFaults
  /\ faults' = faults + 1
  /\ server' = [server EXCEPT ![p] = "wait"]
  /\ UNCHANGED <<starts, lockFile, clock, logVars, purge, cutoff>>

Wake(p) ==
  /\ server[p] = "wait"
  /\ server' = [server EXCEPT ![p] = "try"]
  /\ UNCHANGED <<starts, lockFile, faults, clock, logVars, purge, cutoff>>

\* The process ends: at the end of Shutdown, at its time-out, or by a crash.  Run
\* waits neither for the jobs nor for the goroutines that write the log.
Exit(p) ==
  /\ server[p] # "down"
  /\ server' = [server EXCEPT ![p] = "down"]
  /\ lockFile' = IF lockFile = p THEN "free" ELSE lockFile
  /\ purge' = [purge EXCEPT ![p] = Idle]
  /\ entry' = [e \in Entries |->
       IF entry[e].by = p /\ entry[e].stage \in {"open", "row"}
       THEN [entry[e] EXCEPT !.stage = "lost"] ELSE entry[e]]
  /\ UNCHANGED <<starts, faults, clock, rows, files, cutoff>>

-----------------------------------------------------------------------------
(* The request log.                                                        *)

\* baseRequestLog: the entry takes its creation time when the attempt begins.
Attempt(p, e, status) ==
  /\ server[p] # "down" /\ entry[e].stage = "none"
  /\ entry' = [entry EXCEPT ![e] = [stage |-> "open", by |-> p, created |-> clock,
                                    status |-> status]]
  /\ UNCHANGED <<electionVars, clock, rows, files, purge, cutoff>>

ShouldWrite(status) == BlobMode = "all" \/ (BlobMode = "errors" /\ status # "ok")

Insert(e) ==
  /\ entry[e].stage = "open"
  /\ rows' = rows \cup {e}
  /\ entry' = [entry EXCEPT ![e].stage =
                 IF ShouldWrite(entry[e].status) THEN "row" ELSE "done"]
  /\ UNCHANGED <<electionVars, clock, files, purge, cutoff>>

WriteLogFile(e) ==
  /\ entry[e].stage = "row"
  /\ files' = [files EXCEPT ![e] = clock]
  /\ entry' = [entry EXCEPT ![e].stage = "filed"]
  /\ UNCHANGED <<electionVars, clock, rows, purge, cutoff>>

\* InsertRequestLog or WriteLogFile fails; the entry is given up with a warning.
LogFails(e) ==
  /\ entry[e].stage \in {"open", "row"}
  /\ entry' = [entry EXCEPT ![e].stage = "lost"]
  /\ UNCHANGED <<electionVars, clock, rows, files, purge, cutoff>>

-----------------------------------------------------------------------------
(* runLogPurge, on its ticker, in the process that leads.                  *)

\* DELETE ... WHERE created_at < before, in seconds.
PurgeOldLogs(p) ==
  /\ server[p] = "lead" /\ purge[p].step = "idle"
  /\ LET before == clock - Retention
     IN  /\ rows' = {e \in rows : Unix(entry[e].created) >= Unix(before)}
         /\ purge' = [purge EXCEPT ![p] = [step |-> "days", before |-> before]]
         /\ cutoff' = before
  /\ UNCHANGED <<electionVars, clock, entry, files>>

\* The DELETE fails: the day directories are left alone, the blobs are pruned.
PurgeOldLogsFails(p) ==
  /\ server[p] = "lead" /\ purge[p].step = "idle"
  /\ purge' = [purge EXCEPT ![p] = [step |-> "blobs", before |-> clock - Retention]]
  /\ cutoff' = clock - Retention
  /\ UNCHANGED <<electionVars, clock, logVars>>

\* Files that are to be removed, except those the file system refuses to remove.
Remove(old, kept) == files' = [e \in Entries |-> IF e \in old \ kept THEN NoFile ELSE files[e]]

\* A mutant of OldDays: the day of the cut-off is removed as well.
OldDaysInclusive(before) ==
  {e \in Entries : files[e] # NoFile /\ Day(entry[e].created) <= Day(before)}

\* The files in day directories strictly before the day of the cut-off.
OldDays(before) ==
  {e \in Entries : files[e] # NoFile /\ Day(entry[e].created) < Day(before)}

\* PurgeLogsBefore; skipped when no blob directory is configured.
PurgeLogsBefore(p) ==
  /\ purge[p].step = "days"
  /\ \E kept \in SUBSET Entries :
       Remove(IF BlobMode = "off" THEN {} ELSE OldDays(purge[p].before), kept)
  /\ purge' = [purge EXCEPT ![p].step = "blobs"]
  /\ UNCHANGED <<electionVars, clock, entry, rows, cutoff>>

\* pruneBlobDir: whatever was last written before the cut-off, in any directory.
pruneBlobDir(p) ==
  /\ purge[p].step = "blobs"
  /\ \E kept \in SUBSET Entries :
       Remove({e \in Entries : files[e] # NoFile /\ files[e] < purge[p].before}, kept)
  /\ purge' = [purge EXCEPT ![p] = Idle]
  /\ UNCHANGED <<electionVars, clock, entry, rows, cutoff>>

Tick ==
  /\ clock < MaxNow
  /\ clock' = clock + 1
  /\ UNCHANGED <<electionVars, logVars, purge, cutoff>>

-----------------------------------------------------------------------------
JobsNext ==
  \/ Tick
  \/ \E p \in Servers :
       \/ Boot(p) \/ Lead(p) \/ Refused(p) \/ LockFault(p) \/ Wake(p) \/ Exit(p)
       \/ PurgeOldLogs(p) \/ PurgeOldLogsFails(p) \/ PurgeLogsBefore(p) \/ pruneBlobDir(p)
       \/ \E e \in Entries, s \in {"ok", "error"} : Attempt(p, e, s)
  \/ \E e \in Entries : Insert(e) \/ WriteLogFile(e) \/ LogFails(e)

\* The loop for the lock is a goroutine of the process: it keeps being scheduled,
\* and its two-second timer fires.
JobsFairness ==
  \A p \in Servers : WF_jobsVars(Lead(p) \/ Refused(p)) /\ WF_jobsVars(Wake(p))

JobsSpec == JobsInit /\ [][JobsNext]_jobsVars /\ JobsFairness

-----------------------------------------------------------------------------
JobsTypeOK ==
  /\ server \in [Servers -> {"down", "off", "try", "wait", "lead"}]
  /\ starts \in [Servers -> 0 .. MaxStarts]
  /\ lockFile \in Servers \cup {"free"}
  /\ faults \in 0 .. MaxFaults
  /\ clock \in 0 .. MaxNow
  /\ entry \in [Entries -> [stage : {"none", "open", "row", "done", "filed", "lost"},
                            by : Servers \cup {"nobody"}, created : 0 .. MaxNow,
                            status : {"ok", "error"}]]
  /\ rows \subseteq Entries
  /\ files \in [Entries -> Int]
  /\ purge \in [Servers -> [step : {"idle", "days", "blobs"}, before : Int]]
  /\ cutoff \in Int

\* runLeaderBackgroundJobs: at most one process runs the clean-up, purge and probe
\* jobs, whatever fails while the lock is sought and whoever dies holding it.
OneLeader == \A p, q \in Servers : server[p] = "lead" /\ server[q] = "lead" => p = q

\* runLeaderBackgroundJobs: as long as some process of leader mode stays up, some
\* process comes to run the jobs: a leader that dies is followed, and a process that was refused, or
\* that met an error, has not given up for good.
JobsKeepRunning ==
  \A p \in {q \in Servers : Mode[q] = "leader"} :
    [](server[p] # "down" => <>(server[p] = "down" \/ \E q \in Servers : server[q] = "lead"))

\* A purge takes nothing that is still inside the retention, although it goes by the
\* second for rows (PurgeOldLogs), by the day for directories (PurgeLogsBefore) and by
\* modification time for blobs (pruneBlobDir): an entry that was filed keeps its file,
\* and for any window no longer than the retention QueryUserModelCosts and
\* QueryUsagePeriods, on a clock reading of their own, still find every row.
RetentionKept ==
  \A e \in Entries :
    /\ entry[e].stage = "filed" /\ entry[e].created >= cutoff => files[e] # NoFile
    /\ \A w \in 1 .. Retention :
         /\ entry[e].stage \in {"row", "done", "filed"}
         /\ Unix(entry[e].created) >= Unix(clock - w)
         => e \in rows
=============================================================================
