----------------------------- MODULE MCPlatform -----------------------------
(***************************************************************************)
(* The event bus, the background jobs and the schema migration, which      *)
(* share no state, checked side by side: a behaviour is a behaviour of the *)
(* part chosen at the start, while the others rest.                        *)
(***************************************************************************)
EXTENDS EventBus, ServerJobs, SchemaMigration, TLC

VARIABLE part

platformVars == <<part, busVars, jobsVars, migrationVars>>

mcMode == [p \in Servers |-> "leader"]
mcPopulations == {{"a1", "a2", "a3"}, {"a1", "a3", "a4"}}
mcSubject == ("a1" :> "org1") @@ ("a2" :> "org2") @@ ("a3" :> "") @@ ("a4" :> "")
mcStoredKey == ("a1" :> <<"subject", "org1">>) @@ ("a2" :> <<"subject", "org2", "project">>)
               @@ ("a3" :> <<"id", "a3">>) @@ ("a4" :> "")
mcTarget == ("s1" :> "a1") @@ ("s2" :> "a3")

Init ==
  /\ part \in {"bus", "jobs", "migration"}
  /\ BusInit /\ JobsInit /\ MigrationInit
  /\ part # "migration" =>
       /\ \A t \in Tables : schema[t] = "current"
       /\ DOMAIN accounts = {"a1", "a2", "a3"} /\ \A a \in DOMAIN accounts : before.cool[a] = "none"

Next ==
  \/ part = "bus" /\ BusNext /\ UNCHANGED <<part, jobsVars, migrationVars>>
  \/ part = "jobs" /\ JobsNext /\ UNCHANGED <<part, busVars, migrationVars>>
  \/ part = "migration" /\ MigrationNext /\ UNCHANGED <<part, busVars, jobsVars>>

Spec == Init /\ [][Next]_platformVars /\ JobsFairness

TypesOK == BusTypeOK /\ JobsTypeOK /\ MigrationTypeOK
=============================================================================
