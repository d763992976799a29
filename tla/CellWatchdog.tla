---------------------------- MODULE CellWatchdog ----------------------------
(***************************************************************************)
(* The local cell watchdog (internal/localcellwatchdog and                 *)
(* cmd/local-cell-watchdog): a process of its own that lists the cells,    *)
(* probes each local one through the broker's admin API, repairs the ones  *)
(* that do not answer and clears their cooldown.  It runs beside the       *)
(* broker, whose relay cools cells down and whose administrators edit them *)
(* (module EgressCells).  The host is the environment: a proxy is up or    *)
(* not, and any command or API call may fail, among others because the     *)
(* run's two minutes are over.                                             *)
(***************************************************************************)
EXTENDS EgressCells, Integers

CONSTANTS
  LocalCells,     \* cells with the host, labels and a port (ServiceNameForPort) of a local proxy
  RepairRetries,  \* probes after a repair
  MaxWatchRuns    \* bound: runs of the watchdog

ASSUME WatchdogAssumption ==
  /\ LocalCells \subseteq Cells
  /\ RepairRetries \in Nat \ {0} /\ MaxWatchRuns \in Nat

VARIABLES
  up,         \* the cells whose proxy can be reached
  hasIPv6,    \* the cells whose address is on the interface
  wd,         \* where the watchdog is, and the cell it works on
  listed,     \* ListCells' answer
  todo,       \* targets not yet reconciled
  watchRuns,
  tested,     \* history: the cells probed in this run
  answered    \* history: the cells whose probe succeeded in this run

watchVars == <<up, hasIPv6, wd, listed, todo, watchRuns, tested, answered>>

WdIdle == [at |-> "idle", cell |-> "", tries |-> 0]

WatchInit ==
  /\ up \in SUBSET Cells /\ hasIPv6 \in SUBSET Cells
  /\ wd = WdIdle /\ listed = cells /\ todo = {} /\ watchRuns = 0
  /\ tested = {} /\ answered = {}

\* isTargetCell.
TargetCells(rows) ==
  {c \in LocalCells : rows[c].status = "active" /\ rows[c].proxy = "socks5"}

WdGoto(at) == wd' = [wd EXCEPT !.at = at]

\* A mutant of RunOnce's loop body: an error ends the run.
NextCellOrStop(failed) ==
  IF failed THEN wd' = [WdIdle EXCEPT !.at = "end"] /\ UNCHANGED todo
  ELSE wd' = [WdIdle EXCEPT !.at = "loop"] /\ UNCHANGED todo

\* reconcileCell returns, with an error or without: RunOnce goes on with the next cell.
NextCell(failed) == wd' = [WdIdle EXCEPT !.at = "loop"] /\ UNCHANGED todo

\* RunOnce: ListCells; an error ends the run at once.
RunOnce ==
  /\ wd.at \in {"idle", "end"} /\ watchRuns < MaxWatchRuns
  /\ watchRuns' = watchRuns + 1
  /\ listed' = cells /\ todo' = TargetCells(cells)
  /\ tested' = {} /\ answered' = {}
  /\ wd' = [WdIdle EXCEPT !.at = "loop"]
  /\ UNCHANGED <<up, hasIPv6, cellVars>>

\* The API lists cells in no fixed order.
ReconcileNext ==
  /\ wd.at = "loop"
  /\ \/ \E c \in todo : wd' = [at |-> "probe", cell |-> c, tries |-> 0] /\ todo' = todo \ {c}
     \/ todo = {} /\ wd' = [WdIdle EXCEPT !.at = "end"] /\ UNCHANGED todo
  /\ UNCHANGED <<up, hasIPv6, listed, watchRuns, tested, answered, cellVars>>

\* handleTestEgressCell dials the proxy the row has now.
TestCell(c) == cells[c].proxy # "none" /\ c \in up

Probe(c) == tested' = tested \cup {c} /\ answered' = IF TestCell(c) THEN answered \cup {c} ELSE answered

FirstProbe ==
  /\ wd.at = "probe" /\ Probe(wd.cell)
  /\ WdGoto(IF TestCell(wd.cell) THEN "clear" ELSE "ipv6")
  /\ UNCHANGED <<up, hasIPv6, listed, todo, watchRuns, cellVars>>

\* IPv6Present and, when the address is missing, AddIPv6.
AddIPv6 ==
  /\ wd.at = "ipv6" /\ WdGoto("restart")
  /\ hasIPv6' = hasIPv6 \cup {wd.cell}
  /\ UNCHANGED <<up, listed, todo, watchRuns, tested, answered, cellVars>>

\* A restarted proxy may come up if it has its address.
RestartService ==
  /\ wd.at = "restart" /\ WdGoto("reprobe")
  /\ up' \in {up \ {wd.cell}} \cup IF wd.cell \in hasIPv6 THEN {up \cup {wd.cell}} ELSE {}
  /\ UNCHANGED <<hasIPv6, listed, todo, watchRuns, tested, answered, cellVars>>

\* A mutant of probeAfterRepair: one probe too many.
probeAfterRepairOnceMore ==
  /\ wd.at = "reprobe" /\ Probe(wd.cell)
  /\ \/ TestCell(wd.cell) /\ WdGoto("clear") /\ UNCHANGED todo
     \/ /\ ~TestCell(wd.cell) /\ wd.tries < RepairRetries
        /\ wd' = [wd EXCEPT !.tries = @ + 1] /\ UNCHANGED todo
     \/ ~TestCell(wd.cell) /\ wd.tries = RepairRetries /\ NextCell(FALSE)
  /\ UNCHANGED <<up, hasIPv6, listed, watchRuns, cellVars>>

\* probeAfterRepair: RepairRetries probes at most.
probeAfterRepair ==
  /\ wd.at = "reprobe" /\ Probe(wd.cell)
  /\ \/ TestCell(wd.cell) /\ WdGoto("clear") /\ UNCHANGED todo
     \/ /\ ~TestCell(wd.cell) /\ wd.tries + 1 < RepairRetries
        /\ wd' = [wd EXCEPT !.tries = @ + 1] /\ UNCHANGED todo
     \/ ~TestCell(wd.cell) /\ wd.tries + 1 = RepairRetries /\ NextCell(FALSE)
  /\ UNCHANGED <<up, hasIPv6, listed, watchRuns, cellVars>>

\* clearCooldownIfNeeded decides by the listed row; ClearCooldown works on the cell.
clearCooldownIfNeeded ==
  /\ wd.at = "clear" /\ NextCell(FALSE)
  /\ cells' = IF listed[wd.cell].until = 0 THEN cells ELSE ClearedCell(wd.cell)
  /\ UNCHANGED <<up, hasIPv6, listed, watchRuns, tested, answered, cellNow, edits, handled,
                 accts, sessions, issued, op, histVars>>

\* The API call or the command of this step fails; a probe counts as made.
StepFails ==
  /\ wd.at \in {"probe", "ipv6", "restart", "reprobe", "clear"}
  /\ NextCell(TRUE)
  /\ tested' = tested \cup {wd.cell}
  /\ UNCHANGED <<up, hasIPv6, listed, watchRuns, answered, cellVars>>

\* The proxy or its address goes away, or the proxy comes back.
HostChanges ==
  /\ Edit
  /\ \E c \in LocalCells : up' \in {up \ {c}, up \cup {c}} /\ hasIPv6' \in {hasIPv6, hasIPv6 \ {c}}
  /\ UNCHANGED <<wd, listed, todo, watchRuns, tested, answered, cellNow, handled, cells, accts,
                 sessions, issued, op, histVars>>

\* What the broker does to its cells meanwhile.
BrokerStep ==
  /\ \/ CellTick
     \/ \E h \in Handlers : UpsertRead(h) \/ SaveCell(h)
     \/ \E c \in Cells : ClearCellCooldown(c) \/ CooldownCell(c, cellNow + 1)
  /\ UNCHANGED watchVars

WatchdogNext ==
  \/ RunOnce \/ ReconcileNext \/ FirstProbe \/ AddIPv6 \/ RestartService \/ probeAfterRepair
  \/ clearCooldownIfNeeded \/ StepFails \/ HostChanges \/ BrokerStep

WatchdogSpec == CellsInit /\ WatchInit /\ [][WatchdogNext]_<<cellVars, watchVars>>

-----------------------------------------------------------------------------
WatchdogTypeOK ==
  /\ up \subseteq Cells /\ hasIPv6 \subseteq Cells /\ todo \subseteq LocalCells
  /\ wd.at \in {"idle", "loop", "probe", "ipv6", "restart", "reprobe", "clear", "end"}
  /\ wd.tries \in 0 .. RepairRetries - 1 /\ answered \subseteq tested

\* RunOnce collects errors and goes on: when a run that could list the cells is over,
\* every local cell it listed has been probed, however many of the calls for other
\* cells failed, and a cell about to be cleared has answered a probe of this run.
EveryTargetProbed ==
  /\ wd.at = "end" => TargetCells(listed) \subseteq tested
  /\ wd.at = "clear" => wd.cell \in answered
=============================================================================
