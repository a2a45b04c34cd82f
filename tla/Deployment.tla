----------------------------- MODULE Deployment -----------------------------
(***************************************************************************)
(* The two ways a scenario's data is deployed, and an operator who runs    *)
(* the command again until it succeeds.  The two share no store, so a      *)
(* behaviour follows the one that was chosen at its start.                 *)
(***************************************************************************)
EXTENDS FabricDeploy, Provisioning

VARIABLE target   \* the pipeline the operator uses

vars == <<target, fabricVars, provisionVars>>

\* The stores of the pipeline that is not used are empty.
Init == /\ target \in {"fabric", "cosmos"} /\ FabricInit /\ ProvisionInit
        /\ target = "cosmos" => workspace = "absent"
        /\ target = "fabric" => /\ pack = "telecom" /\ edges = {} /\ \A d \in Docs : docs[d] = "absent"
                                /\ \A i \in Indexes : search[i].docs = "none"

Next ==
  /\ target' = target
  /\ \/ target = "fabric" /\ FabricNext /\ UNCHANGED provisionVars
     \/ target = "cosmos" /\ ProvisionNext /\ UNCHANGED fabricVars

(***************************************************************************)
(* Fairness.  A command does not stop between two steps, the service ends  *)
(* what it began and shows what it made, and the operator runs the plain   *)
(* full command again whenever none is running.                            *)
(***************************************************************************)
Fabric(A) == target = "fabric" /\ A /\ UNCHANGED <<target, provisionVars>>
Cosmos(A) == target = "cosmos" /\ A /\ UNCHANGED <<target, pack, fabricVars>>

Fairness ==
  /\ WF_vars(Fabric(PlainRun)) /\ WF_vars(Fabric(Stage))
  /\ WF_vars(Fabric(WorkspaceAppears)) /\ WF_vars(Fabric(DatabaseAppears))
  /\ \A k \in Kinds : /\ WF_vars(Fabric(NameReleased(k)))
                      /\ WF_vars(Fabric(OperationEnds(k)))
  /\ WF_vars(Cosmos(PlainProvision)) /\ WF_vars(Cosmos(Provisioner))

Spec == Init /\ [][Next]_vars /\ Fairness

TypeOK == FabricTypeOK /\ ProvisionTypeOK /\ target \in {"fabric", "cosmos"}

\* What can be relied on behind a success (main of deploy_scenario.py returns 0, that of
\* provision_scenario.py prints PROVISION_DONE), whatever was left by commands that were
\* killed, refused, forced or of an older version: on Fabric the folders, the items, the
\* lakehouse's tables and the ontology's binding; in the Azure stores the graph and the
\* telemetry of the files the seeder reads.  It is less than the commands say: see
\* ReportedRows, ReportedGraph, ReportedIndexes and ReportedTelemetry, none of which holds.
SuccessLeavesCore == FullRunDeploys /\ DoneMeansSeeded

\* Running the command again is all it takes: once the failures stop, a run
\* succeeds with everything in place, telemetry included, from whatever state the
\* interrupted, forced or partial runs left.
RerunsConverge ==
  /\ target = "fabric" ~> deployed /\ Deployed /\ \A t \in Streams : rows[t] # Nothing
  /\ target = "cosmos" /\ pack = "telecom" ~> report.surfaces = Surfaces /\ Provisioned
  /\ target = "cosmos" /\ pack = "other" ~> report.surfaces = Seeded /\ GraphSeeded /\ TelemetrySeeded
=============================================================================
