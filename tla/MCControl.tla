------------------------------ MODULE MCControl ------------------------------
(***************************************************************************)
(* Egress cells with logins, the cell watchdog beside them, the providers' *)
(* quota state and the compat surface, checked side by side: a behaviour   *)
(* is a behaviour of the part chosen at the start, while the others rest.  *)
(* Only cells and watchdog share state.                                    *)
(***************************************************************************)
EXTENDS CellWatchdog, QuotaState, CompatSurface, TLC

CONSTANTS
  h1, h2,  \* handlers; the requests of parts "quota" and "compat" as well
  s1, s2,  \* subjects
  a1       \* a request of an admin

VARIABLE part

controlVars == <<part, cellVars, watchVars, quotaVars, compatVars>>

mcProvider == [s \in Subjects |-> "claude"]
At(util, after) == [util |-> util, after |-> after]
mcWindows == {<<At(0, 0), At(0, 0)>>, <<At(98, 1), At(99, 2)>>, <<At(99, 1), At(98, 2)>>,
              <<At(99, 2), At(99, 1)>>}

Msg(role, content) == [role |-> role, content |-> content]
mcTalk == <<Msg("developer", "be brief"), Msg("user", "hi"), Msg("assistant", "yes"),
            Msg("user", "hi")>>
Ask(prefix, family, messages, format, stream) ==
  [model |-> [prefix |-> prefix, family |-> family], messages |-> messages,
   tools |-> FALSE, stop |-> "none", format |-> format, stream |-> stream]
mcAsks ==
  {Ask("", "claude", mcTalk, "none", TRUE),
   Ask("google", "gemini", mcTalk, "json_schema", TRUE),
   Ask("anthropic", "claude", mcTalk, "json_object", FALSE),
   Ask("", "gemini", <<Msg("system", ""), Msg("user", "hi")>>, "text", FALSE),
   Ask("claude", "gemini", mcTalk, "none", TRUE),
   Ask("openai", "gpt", mcTalk, "none", TRUE),
   [Ask("", "claude", mcTalk, "none", TRUE) EXCEPT !.tools = TRUE],
   [Ask("", "claude", mcTalk, "none", TRUE) EXCEPT !.stop = "bad"],
   Ask("", "claude", <<Msg("system", "be brief")>>, "none", TRUE),
   Ask("", "claude", <<Msg("user", "image")>>, "none", TRUE)}
mcRequests == [q \in Chats |->
  IF q = a1 THEN {Ask("anthropic", "claude", mcTalk, "json_object", FALSE)} ELSE mcAsks]
mcKeyOf == [q \in Chats |-> IF q = a1 THEN "" ELSE "u"]
mcAnswer == <<"t1", "t2">>

Symmetry == Permutations({h1, h2}) \cup Permutations({s1, s2})

Init ==
  /\ part \in {"cells", "watchdog", "quota", "compat"}
  /\ CellsInit /\ WatchInit /\ QuotaInit /\ CompatInit
  /\ part # "watchdog" => cells["c2"] = NoCell /\ up = {} /\ hasIPv6 = {}
  /\ part # "cells" => \A s \in Subjects : accts[s] = NoAcct
  /\ part \notin {"cells", "watchdog"} => cells["c1"] = NoCell
  /\ part # "quota" => prov = "claude"

\* In part "cells" the second cell is never made.
Next ==
  \/ /\ part = "cells" /\ CellsNext
     /\ \A h \in Handlers : op'[h].at = "save" => op'[h].cell # "c2"
     /\ UNCHANGED <<part, watchVars, quotaVars, compatVars>>
  \/ part = "watchdog" /\ WatchdogNext /\ UNCHANGED <<part, quotaVars, compatVars>>
  \/ part = "quota" /\ QuotaNext /\ UNCHANGED <<part, cellVars, watchVars, compatVars>>
  \/ part = "compat" /\ CompatNext /\ UNCHANGED <<part, cellVars, watchVars, quotaVars>>

Spec == Init /\ [][Next]_controlVars

TypesOK == CellsTypeOK /\ WatchdogTypeOK /\ QuotaTypeOK /\ CompatTypeOK
=============================================================================
