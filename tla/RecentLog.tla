------------------------------ MODULE RecentLog ------------------------------
(***************************************************************************)
(* What the event bus promises to the dashboard: a log of the events       *)
(* published since it was last cleared, of which only the last Size are    *)
(* kept, oldest first.  EventBus shows that its ring implements it.        *)
(***************************************************************************)
EXTENDS Naturals, Sequences

CONSTANTS Event, Size

VARIABLE log

\* The last Size elements of a sequence of at most Size + 1.
Newest(s) == IF Len(s) > Size THEN Tail(s) ELSE s

LogInit == log = <<>>

LogPublish == \E e \in Event : log' = Newest(Append(log, e))

LogClear == log' = <<>>

LogNext == LogPublish \/ LogClear

LogSpec == LogInit /\ [][LogNext]_log
=============================================================================
