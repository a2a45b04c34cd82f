-------------------------- MODULE DeploymentProofs --------------------------
(***************************************************************************)
(* Theorems about the deployment to Fabric and the seeding of the Azure    *)
(* stores, for any number of tables, streams, folders, vertices, edges,    *)
(* documents, indexes, retries and failures.                               *)
(*                                                                         *)
(* That a full run leaves its items, tables and binding needs to know what *)
(* each stage has done when the next begins (BehindOK), what a stage has   *)
(* done half way (FolderOK, LakehouseOK, EventhouseOK, OntologyOK), and    *)
(* that only the run itself takes any of it away: the service ends what is *)
(* under way and releases names, and neither touches a live item           *)
(* (ProgressStays).  DoneWith says what a stage must have done to return.  *)
(*                                                                         *)
(* That a definition resolves is a fact about schemas (SchemaResolves): an *)
(* id that is looked up is the one that was given out (TypeIds, PropIds),  *)
(* and no id is given out twice (NumbersDiffer, PathsDiffer).              *)
(*                                                                         *)
(* That PROVISION_DONE means graph and telemetry need what is still to do  *)
(* at every step of a seeder (VerticesOK, EdgesOK, TelemetryOK): an edge   *)
(* is there once it was added only because both of its vertices are, and   *)
(* the step after the seeder keeps what it left (IndexGoes).               *)
(***************************************************************************)
EXTENDS Deployment, SequenceTheorems, FiniteSetTheorems, WellFoundedInduction, TLAPS

\* The stages behind each stage of a full run.
Behind == [workspace |-> {}, folder |-> {"workspace"},
           lakehouse |-> {"workspace", "folder"},
           eventhouse |-> {"workspace", "folder", "lakehouse"},
           ontology |-> {"workspace", "folder", "lakehouse", "eventhouse"},
           verify |-> {"workspace", "folder", "lakehouse", "eventhouse", "ontology"},
           idle |-> {}]

\* What a stage leaves in place.
HasFolder == folders = Path
HasLakehouse == item["lakehouse"] = "live" /\ loaded = Tables /\ "lakehouse" \in run.known
HasEventhouse == item["eventhouse"] = "live" /\ "eventhouse" \in run.known
HasOntology == item["ontology"] = "live" /\ bound

\* Where a full run is, and what it has done so far.
FolderOK == At("folder", "walk") => listed \subseteq folders
LakehouseOK ==
  /\ run.stage = "lakehouse" /\ run.step \in {"create", "wait", "fill"} => Tables \subseteq todo
  /\ run.stage = "lakehouse" /\ run.step \in {"fill", "load"} =>
       item["lakehouse"] = "live" /\ "lakehouse" \in run.known
  /\ At("lakehouse", "load") => Tables \subseteq loaded \cup todo
EventhouseOK ==
  run.stage = "eventhouse" /\ run.step \in {"fill", "tables", "ingest"} => HasEventhouse
OntologyOK ==
  /\ At("ontology", "wait") => bound
  /\ At("ontology", "model") => HasOntology

BehindOK ==
  /\ "folder" \in Behind[run.stage] => HasFolder
  /\ "lakehouse" \in Behind[run.stage] => HasLakehouse
  /\ "eventhouse" \in Behind[run.stage] => HasEventhouse
  /\ "ontology" \in Behind[run.stage] => HasOntology

\* The lakehouse loads tables, whatever stages were selected.
TodoOK == run.stage = "lakehouse" /\ run.step # "start" => todo \subseteq Tables

Progress ==
  run.stages = Full => FolderOK /\ LakehouseOK /\ EventhouseOK /\ OntologyOK /\ BehindOK

FabricInv ==
  /\ FabricTypeOK /\ TodoOK
  /\ Progress
  /\ deployed => run.stage = "idle" /\ Deployed

-----------------------------------------------------------------------------
LEMMA StageNumbers ==
    /\ Full = {"workspace", "folder", "lakehouse", "eventhouse", "ontology", "verify"}
    /\ DOMAIN STAGES = 1..6
    /\ Index("workspace") = 1 /\ Index("folder") = 2 /\ Index("lakehouse") = 3
    /\ Index("eventhouse") = 4 /\ Index("ontology") = 5 /\ Index("verify") = 6
<1>1. DOMAIN STAGES = 1..6
  BY DEF STAGES
<1>2. /\ STAGES[1] = "workspace" /\ STAGES[2] = "folder" /\ STAGES[3] = "lakehouse"
      /\ STAGES[4] = "eventhouse" /\ STAGES[5] = "ontology" /\ STAGES[6] = "verify"
  BY DEF STAGES
<1>3. \A i \in 1..6 : i \in {1, 2, 3, 4, 5, 6}
  OBVIOUS
<1>4. Full = {"workspace", "folder", "lakehouse", "eventhouse", "ontology", "verify"}
  BY <1>1, <1>2, <1>3 DEF Full
<1>5. \A s \in Full : Index(s) \in 1..6 /\ STAGES[Index(s)] = s
  BY <1>1, <1>2, <1>3 DEF Index, Full
<1>6. QED
  BY <1>1, <1>2, <1>3, <1>4, <1>5

LEMMA LeastIs ==
    ASSUME NEW S \in SUBSET Int, NEW m \in S, \A x \in S : m <= x
    PROVE  Min(S) = m
<1>1. Min(S) \in S /\ \A x \in S : Min(S) <= x
  BY DEF Min
<1>2. PICK n \in Int : n = Min(S)
  BY <1>1
<1>3. m \in Int /\ n <= m /\ m <= n
  BY <1>1, <1>2
<1>4. QED
  BY <1>2, <1>3

Below == {p \in Nat \X Nat : p[1] < p[2]}
LEMMA BelowWF == IsWellFoundedOn(Below, Nat)
BY NatLessThanWellFounded, Zenon DEF OpToRel, Below

\* Every set of numbers that is not empty has a least one.
LEMMA LeastNumber == ASSUME NEW T, T \subseteq Nat, T # {} PROVE \E m \in T : \A n \in T : m <= n
<1>1. PICK m \in T : \A n \in T : ~ (<<n, m>> \in Below)
  BY BelowWF, WFMin
<1>2. \A n \in T : n \in Nat /\ m \in Nat /\ ~(n < m)
  BY <1>1 DEF Below
<1>3. QED
  BY <1>2

\* The next missing segment of a path is one of the path.
LEMMA PathHasLeast == ASSUME NEW S \in SUBSET Path, S # {} PROVE \E m \in S : \A x \in S : m <= x
<1>1. S \subseteq Nat
  BY DEF Path
<1>2. QED
  BY <1>1, LeastNumber

\* A full run goes through the stages in their order, and is over behind the last.
Following == [workspace |-> "folder", folder |-> "lakehouse", lakehouse |-> "eventhouse",
              eventhouse |-> "ontology", ontology |-> "verify"]

LEMMA AdvanceFacts ==
    ASSUME FabricTypeOK, run.stage \in Full, NEW ids, Advance(ids)
    PROVE  \/ /\ run' = Idle /\ deployed' = (run.stages = Full)
              /\ run.stages = Full => run.stage = "verify"
           \/ \E s \in Full :
                /\ run' = [run EXCEPT !.stage = s, !.step = "start", !.known = @ \cup ids, !.schema = NoSchema]
                /\ deployed' = deployed
                /\ run.stages = Full => run.stage # "verify" /\ s = Following[run.stage]
<1> DEFINE later == {i \in DOMAIN STAGES : i > Index(run.stage) /\ STAGES[i] \in run.stages}
<1>1. later \in SUBSET (1..6) /\ \A s \in Full : Index(s) \in 1..6 /\ STAGES[Index(s)] = s
  BY StageNumbers DEF Index, Full
<1>2. CASE later = {}
  <2>1. run' = Idle /\ deployed' = (run.stages = Full)
    BY <1>2 DEF Advance
  <2>2. ASSUME run.stages = Full, run.stage # "verify" PROVE FALSE
    <3>1. 6 \in later
      BY <1>1, <2>2, StageNumbers
    <3>2. QED
      BY <1>2, <3>1
  <2>3. QED
    BY <2>1, <2>2
<1>3. CASE later # {}
  <2>1. run' = [run EXCEPT !.stage = STAGES[Min(later)], !.step = "start", !.known = @ \cup ids, !.schema = NoSchema]
        /\ deployed' = deployed
    BY <1>3 DEF Advance
  <2>2. Min(later) \in later
    <3>1. \E m \in later : \A x \in later : m <= x
      BY <1>1, <1>3
    <3>2. QED
      BY <1>1, <3>1, LeastIs
  <2>3. STAGES[Min(later)] \in Full
    BY <2>2 DEF Full
  <2>4. ASSUME run.stages = Full PROVE run.stage # "verify" /\ STAGES[Min(later)] = Following[run.stage]
    <3>1. run.stage # "verify"
      BY <1>1, <1>3, StageNumbers
    <3>2. later = {i \in 1..6 : i > Index(run.stage)}
      BY <2>4, StageNumbers DEF Full
    <3>3. Index(run.stage) + 1 \in later /\ \A x \in later : Index(run.stage) + 1 <= x
      BY <3>1, <3>2, StageNumbers
    <3>4. Min(later) = Index(run.stage) + 1
      BY <1>1, <3>3, LeastIs
    <3>5. STAGES[2] = "folder" /\ STAGES[3] = "lakehouse" /\ STAGES[4] = "eventhouse" /\ STAGES[5] = "ontology" /\ STAGES[6] = "verify"
      BY DEF STAGES
    <3>6. QED
      BY <3>1, <3>4, <3>5, StageNumbers DEF Following
  <2>5. QED
    BY <2>1, <2>3, <2>4
<1>4. QED
  BY <1>2, <1>3

-----------------------------------------------------------------------------
Steps == {"start", "await", "capacity", "walk", "create", "wait", "fill", "load", "tables", "ingest", "model"}
Ids == EnvKeys \cup {"workspace", "folder", "other model"}
Runs == [stage : Full \cup {"idle"}, stages : SUBSET Full, force : BOOLEAN, step : Steps,
         schema : Schemas \cup {NoSchema}, byId : BOOLEAN, tries : 0..NameRetries, known : SUBSET Ids]

LEMMA SomeIds ==
    /\ {} \in SUBSET Ids /\ {"workspace"} \in SUBSET Ids /\ {"folder"} \in SUBSET Ids
    /\ \A k \in Kinds : {k} \in SUBSET Ids
    /\ Steps = {"start", "await", "capacity", "walk", "create", "wait", "fill", "load", "tables", "ingest", "model"}
BY DEF Ids, EnvKeys, Steps

LEMMA ItemsTyped == FabricTypeOK' => item' \in [Kinds -> {"free", "making", "live", "held"}]
BY DEF FabricTypeOK

LEMMA IdleIsRun == Idle \in Runs
BY FabricAssumption DEF Idle, Runs, Steps

LEMMA TypeIs ==
    FabricTypeOK => /\ run \in Runs /\ deployed \in BOOLEAN /\ oddities \in 0..MaxOddities
                    /\ folders \subseteq Path /\ loaded \subseteq Tables
                    /\ item \in [Kinds -> {"free", "making", "live", "held"}]
                    /\ rows \in [Streams -> Nothing..Twice]
                    /\ env \in [EnvKeys -> {"none", "live", "stale", "other"}]
BY DEF FabricTypeOK, Runs, Steps, Ids

LEMMA TypeNext ==
    ASSUME run' \in Runs, deployed' \in BOOLEAN, oddities' \in 0..MaxOddities,
           listed' \subseteq Path, todo' \subseteq Tables \cup Streams,
           workspace' \in {"absent", "hidden", "visible"}, capacity' \in BOOLEAN,
           folders' \subseteq Path, shared' \in BOOLEAN,
           item' \in [Kinds -> {"free", "making", "live", "held"}],
           loaded' \subseteq Tables, rows' \in [Streams -> Nothing..Twice],
           {database', stray', bound', model'} \subseteq BOOLEAN,
           env' \in [EnvKeys -> {"none", "live", "stale", "other"}]
    PROVE  FabricTypeOK'
BY DEF FabricTypeOK, Runs, Steps, Ids

LEMMA RunGoes ==
    ASSUME FabricTypeOK, NEW step \in Steps, NEW ids \in SUBSET Ids, Go(step, ids)
    PROVE  run' \in Runs
<1>1. run \in Runs
  BY TypeIs
<1>2. PICK known : known = run.known \cup ids
  OBVIOUS
<1>3. known \in SUBSET Ids
  BY <1>1, <1>2 DEF Runs
<1>4. PICK r : r = [run EXCEPT !.step = step]
  OBVIOUS
<1>5. r \in Runs /\ r.known = run.known
  BY <1>1, <1>4 DEF Runs
<1>6. PICK q : q = [r EXCEPT !.tries = 0]
  OBVIOUS
<1>7. q \in Runs /\ q.known = run.known
  BY <1>5, <1>6, FabricAssumption DEF Runs
<1>8. [q EXCEPT !.known = known] \in Runs
  BY <1>3, <1>7 DEF Runs
<1>9. QED
  BY <1>2, <1>4, <1>6, <1>7, <1>8 DEF Go

LEMMA RunAdvances ==
    ASSUME FabricTypeOK, run.stage \in Full, NEW ids \in SUBSET Ids, Advance(ids)
    PROVE  run' \in Runs /\ deployed' \in BOOLEAN
<1>1. CASE run' = Idle /\ deployed' = (run.stages = Full)
  BY <1>1, IdleIsRun
<1>2. ASSUME NEW s \in Full, run' = [run EXCEPT !.stage = s, !.step = "start", !.known = @ \cup ids, !.schema = NoSchema],
             deployed' = deployed
      PROVE  run' \in Runs /\ deployed' \in BOOLEAN
  BY <1>2, TypeIs, FabricAssumption DEF Runs, Steps
<1>3. QED
  BY <1>1, <1>2, AdvanceFacts

LEMMA RunExits == ASSUME FabricTypeOK, Exit PROVE run' \in Runs /\ deployed' \in BOOLEAN
BY IdleIsRun DEF Exit, FabricTypeOK

LEMMA OdditiesType == ASSUME FabricTypeOK, Odd \/ AsUsual PROVE oddities' \in 0..MaxOddities
BY TypeIs, FabricAssumption DEF Odd, AsUsual

LEMMA MainType ==
    ASSUME FabricTypeOK, NEW stages \in {Full, Graph, Telemetry} \cup {{s} : s \in Full},
           NEW force \in BOOLEAN, NEW byId \in BOOLEAN, main(stages, force, byId)
    PROVE  /\ FabricTypeOK' /\ deployed' = FALSE
           /\ run'.stages = stages /\ run'.force = force /\ run'.step = "start"
           /\ stages = Full => run'.stage = "workspace"
<1> DEFINE first == Min({Index(s) : s \in stages})
<1>1. stages \in SUBSET Full /\ stages # {}
  BY StageNumbers DEF Graph, Telemetry
<1>2. first \in {Index(s) : s \in stages} /\ (stages = Full => first = 1)
  <2>1. {Index(s) : s \in stages} \in SUBSET (1..6)
    BY <1>1, StageNumbers
  <2>2. \E m \in {Index(s) : s \in stages} : \A x \in {Index(s) : s \in stages} : m <= x
    BY <1>1, <2>1
  <2>3. stages = Full => 1 \in {Index(s) : s \in stages}
    BY StageNumbers
  <2>4. QED
    <3>1. PICK m \in {Index(s) : s \in stages} : \A x \in {Index(s) : s \in stages} : m <= x
      BY <2>2
    <3>2. first = m
      BY <2>1, <3>1, LeastIs
    <3>3. m \in 1..6
      BY <2>1, <3>1
    <3>4. stages = Full => m <= 1
      BY <2>3, <3>1
    <3>5. m \in {Index(s) : s \in stages}
      BY <3>1
    <3>6. stages = Full => m = 1
      BY <3>3, <3>4
    <3>7. QED
      BY <3>2, <3>5, <3>6
<1>3. STAGES[first] \in Full /\ (stages = Full => STAGES[first] = "workspace")
  <2>1. STAGES[1] = "workspace"
    BY DEF STAGES
  <2>2. QED
    BY <1>1, <1>2, <2>1, StageNumbers DEF Full
<1>4. run' = [from_yaml(stages, force, byId) EXCEPT !.stage = STAGES[first]]
  BY DEF main
<1>5. run' \in Runs
  <2>1. PICK r : r = from_yaml(stages, force, byId)
    OBVIOUS
  <2>2. r \in Runs
    <3>1. PICK known \in SUBSET Ids : known = IF byId THEN {"workspace"} ELSE {}
      BY DEF Ids
    <3>2. PICK q : q = [Idle EXCEPT !.stages = stages]
      OBVIOUS
    <3>3. q \in Runs
      BY <1>1, <3>2, IdleIsRun DEF Runs
    <3>4. PICK t : t = [q EXCEPT !.force = force]
      OBVIOUS
    <3>5. t \in Runs
      BY <3>3, <3>4 DEF Runs
    <3>6. PICK u : u = [t EXCEPT !.byId = byId]
      OBVIOUS
    <3>7. u \in Runs
      BY <3>5, <3>6 DEF Runs
    <3>8. [u EXCEPT !.known = known] \in Runs
      BY <3>7 DEF Runs
    <3>9. QED
      BY <2>1, <3>1, <3>2, <3>4, <3>6, <3>8 DEF from_yaml
  <2>3. [r EXCEPT !.stage = STAGES[first]] \in Runs
    BY <1>3, <2>2 DEF Runs
  <2>4. QED
    BY <1>4, <2>1, <2>3
<1>6. run'.stages = stages /\ run'.force = force /\ run'.step = "start" /\ run'.stage = STAGES[first]
  BY <1>4 DEF from_yaml, Idle
<1>7. oddities' \in 0..MaxOddities
  BY OdditiesType DEF main
<1>8. QED
  BY <1>3, <1>5, <1>6, <1>7, TypeNext DEF main, place, content, FabricTypeOK

-----------------------------------------------------------------------------
\* What a full run has done when the stage it is in returns.
DoneWith(ids) ==
  run.stages = Full =>
    /\ run.stage # "workspace" => folders' = Path
    /\ run.stage \notin {"workspace", "folder"} =>
         item'["lakehouse"] = "live" /\ loaded' = Tables /\ "lakehouse" \in run.known \cup ids
    /\ run.stage \in {"eventhouse", "ontology", "verify"} =>
         item'["eventhouse"] = "live" /\ "eventhouse" \in run.known \cup ids
    /\ run.stage \in {"ontology", "verify"} => item'["ontology"] = "live" /\ bound'
    /\ run.stage = "verify" => env'["lakehouse"] = "live" /\ env'["eventhouse"] = "live"

LEMMA NothingBehindIdle == Idle.stage = "idle" /\ Idle.stages # Full
BY StageNumbers DEF Idle

LEMMA ProgressAdvances ==
    ASSUME FabricInv, run.stage \in Full, NEW ids \in SUBSET Ids, Advance(ids), DoneWith(ids),
           item' \in [Kinds -> {"free", "making", "live", "held"}]
    PROVE  TodoOK' /\ Progress' /\ (deployed' => run'.stage = "idle" /\ Deployed')
<1>1. FabricTypeOK /\ ~deployed /\ run \in Runs
  BY TypeIs, StageNumbers DEF FabricInv, TodoOK
<1>2. CASE run' = Idle /\ deployed' = (run.stages = Full) /\ (run.stages = Full => run.stage = "verify")
  <2>1. TodoOK' /\ Progress'
    BY <1>2, NothingBehindIdle DEF Progress, TodoOK
  <2>2. run.stages = Full => Deployed'
    BY <1>2 DEF DoneWith, Deployed, Kinds
  <2>3. QED
    BY <1>2, <2>1, <2>2, NothingBehindIdle
<1>3. ASSUME NEW s \in Full, NEW known, known = run.known \cup ids,
             run' = [run EXCEPT !.stage = s, !.step = "start", !.known = known, !.schema = NoSchema],
             deployed' = deployed, run.stages = Full => run.stage # "verify" /\ s = Following[run.stage]
      PROVE  TodoOK' /\ Progress' /\ ~deployed'
  <2>1. run'.stage = s /\ run'.step = "start" /\ run'.known = known /\ run'.stages = run.stages
    BY <1>1, <1>3 DEF Runs
  <2>2. ASSUME run.stages = Full PROVE BehindOK'
    BY <1>3, <2>1, <2>2, StageNumbers DEF DoneWith, Following, Behind, BehindOK, HasFolder, HasLakehouse, HasEventhouse, HasOntology
  <2>3. QED
    BY <1>1, <1>3, <2>1, <2>2 DEF TodoOK, Progress, FolderOK, LakehouseOK, EventhouseOK, OntologyOK, At
<1>4. QED
  BY <1>1, <1>2, <1>3, AdvanceFacts

LEMMA ProgressExits == ASSUME FabricInv, run.stage \in Full, Exit PROVE TodoOK' /\ Progress' /\ ~deployed'
BY StageNumbers, NothingBehindIdle DEF Exit, TodoOK, Progress, FabricInv

\* Nothing is taken back from a full run by a step that leaves it where it is.
LEMMA ProgressStays ==
    ASSUME FabricInv, run' = run, deployed' = deployed, folders \subseteq folders', loaded \subseteq loaded',
           folders' \subseteq Path, loaded' \subseteq Tables, env' = env,
           run.stage = "folder" => listed' = listed, run.stage = "lakehouse" => todo' = todo,
           \A k \in Kinds : item[k] = "live" => item'[k] = "live",
           item' \in [Kinds -> {"free", "making", "live", "held"}], bound' = bound
    PROVE  TodoOK' /\ Progress' /\ (deployed' => run'.stage = "idle" /\ Deployed')
<1>1. "lakehouse" \in Kinds /\ "eventhouse" \in Kinds /\ "ontology" \in Kinds
  BY DEF Kinds
<1>2. HasFolder => HasFolder'
  BY DEF HasFolder
<1>3. (HasLakehouse => HasLakehouse') /\ (HasEventhouse => HasEventhouse') /\ (HasOntology => HasOntology')
  BY <1>1 DEF HasLakehouse, HasEventhouse, HasOntology
<1>4. FolderOK => FolderOK'
  BY DEF FolderOK, At
<1>5. LakehouseOK => LakehouseOK'
  BY <1>1 DEF LakehouseOK, At
<1>6. TodoOK' /\ Progress'
  BY <1>2, <1>3, <1>4, <1>5 DEF FabricInv, TodoOK, Progress, EventhouseOK, OntologyOK, BehindOK, At
<1>7. Deployed => Deployed'
  BY <1>1 DEF Deployed, Kinds
<1>8. QED
  BY <1>6, <1>7 DEF FabricInv, TodoOK

-----------------------------------------------------------------------------
LEMMA MainInv ==
    ASSUME FabricInv, NEW stages \in {Full, Graph, Telemetry} \cup {{s} : s \in Full},
           NEW force \in BOOLEAN, NEW byId \in BOOLEAN, main(stages, force, byId)
    PROVE  FabricInv'
<1>1. /\ FabricTypeOK' /\ deployed' = FALSE /\ run'.stages = stages /\ run'.step = "start"
      /\ stages = Full => run'.stage = "workspace"
  <2>1. FabricTypeOK
    BY DEF FabricInv, TodoOK
  <2>2. QED
    BY <2>1, MainType
<1>2. QED
  BY <1>1 DEF FabricInv, TodoOK, Progress, FolderOK, LakehouseOK, EventhouseOK, OntologyOK, BehindOK, Behind, At

LEMMA FailsInv == ASSUME FabricInv, Fails PROVE FabricInv'
<1>1. run.stage \in Full
  BY TypeIs DEF Fails, FabricInv, Runs
<1>2. TodoOK' /\ Progress' /\ ~deployed'
  BY <1>1, ProgressExits DEF Fails
<1>3. FabricTypeOK'
  BY TypeNext, RunExits, OdditiesType DEF Fails, FabricInv, place, content, FabricTypeOK
<1>4. QED
  BY <1>2, <1>3 DEF FabricInv, TodoOK

\* The stage of the workspace promises nothing of what is followed here.
LEMMA WorkspaceInv ==
    ASSUME FabricInv, findWorkspace \/ awaitWorkspace \/ assign_capacity
    PROVE  FabricInv'
<1>1. FabricTypeOK /\ run \in Runs /\ run.stage = "workspace" /\ run.stage \in Full /\ ~deployed
  BY TypeIs, StageNumbers DEF FabricInv, findWorkspace, awaitWorkspace, assign_capacity, At
<1>2. UNCHANGED <<listed, todo, folders, shared, item, content, env>>
  BY DEF findWorkspace, awaitWorkspace, assign_capacity, place
<1>3. workspace' \in {"absent", "hidden", "visible"} /\ capacity' \in BOOLEAN /\ oddities' \in 0..MaxOddities
  <2>1. oddities' = oddities \/ Odd \/ AsUsual
    BY DEF findWorkspace, awaitWorkspace, assign_capacity
  <2>2. oddities' \in 0..MaxOddities
    BY <1>1, <2>1, TypeIs, OdditiesType
  <2>3. workspace' \in {"absent", "hidden", "visible"} /\ capacity' \in BOOLEAN
    BY <1>1 DEF findWorkspace, create_workspace, awaitWorkspace, assign_capacity, place, FabricTypeOK
  <2>4. QED
    BY <2>2, <2>3
<1>4. \/ Advance({}) \/ Exit
      \/ deployed' = deployed /\ (Go("capacity", {"workspace"}) \/ Go("await", {}))
  BY DEF findWorkspace, create_workspace, awaitWorkspace, assign_capacity
<1>5. run' \in Runs /\ deployed' \in BOOLEAN
  <2>1. CASE Advance({})
    BY <1>1, <2>1, RunAdvances, SomeIds
  <2>2. CASE Exit
    BY <1>1, <2>2, RunExits
  <2>3. CASE deployed' = deployed /\ Go("capacity", {"workspace"})
    <3>1. "capacity" \in Steps /\ {"workspace"} \in SUBSET Ids
      BY SomeIds
    <3>2. QED
      BY <1>1, <2>3, <3>1, RunGoes, TypeIs
  <2>4. CASE deployed' = deployed /\ Go("await", {})
    <3>1. "await" \in Steps /\ {} \in SUBSET Ids
      BY SomeIds
    <3>2. QED
      BY <1>1, <2>4, <3>1, RunGoes, TypeIs
  <2>5. QED
    BY <1>4, <2>1, <2>2, <2>3, <2>4
<1>6. FabricTypeOK'
  BY <1>1, <1>2, <1>3, <1>5, TypeNext DEF content, FabricTypeOK
<1>7. TodoOK' /\ Progress' /\ (deployed' => run'.stage = "idle" /\ Deployed')
  <2>1. CASE Advance({})
    <3>1. DoneWith({})
      BY <1>1 DEF DoneWith
    <3>2. QED
      BY <1>1, <1>6, <2>1, <3>1, ProgressAdvances, ItemsTyped, SomeIds
  <2>2. CASE Exit
    BY <1>1, <2>2, ProgressExits
  <2>3. CASE deployed' = deployed /\ (Go("capacity", {"workspace"}) \/ Go("await", {}))
    <3>1. run'.stage = "workspace" /\ ~deployed'
      BY <1>1, <2>3 DEF Go, Runs
    <3>2. QED
      BY <3>1 DEF TodoOK, Progress, FolderOK, LakehouseOK, EventhouseOK, OntologyOK, BehindOK, Behind, At
  <2>4. QED
    BY <1>4, <2>1, <2>2, <2>3
<1>8. QED
  BY <1>6, <1>7 DEF FabricInv, TodoOK

LEMMA FolderInv == ASSUME FabricInv, list_folders \/ walkFolders PROVE FabricInv'
<1>1. FabricTypeOK /\ run \in Runs /\ run.stage = "folder" /\ run.stage \in Full /\ ~deployed
  BY TypeIs, StageNumbers DEF FabricInv, list_folders, walkFolders, At
<1>2. UNCHANGED <<todo, workspace, capacity, shared, item, content, env>>
  BY DEF list_folders, walkFolders, place
<1>3. CASE list_folders
  <2>1. listed' \subseteq folders /\ folders' = folders /\ oddities' \in 0..MaxOddities
    BY <1>1, <1>3, OdditiesType DEF list_folders, place
  <2>2. run' \in Runs /\ run'.stage = "folder" /\ deployed' = deployed
    <3>1. Go("walk", {}) /\ deployed' = deployed
      BY <1>3 DEF list_folders
    <3>2. "walk" \in Steps /\ {} \in SUBSET Ids
      BY SomeIds
    <3>3. QED
      BY <1>1, <3>1, <3>2, RunGoes DEF Go, Runs
  <2>3. FabricTypeOK'
    BY <1>1, <1>2, <2>1, <2>2, TypeNext DEF content, FabricTypeOK
  <2>4. run.stages = Full => run'.stages = Full
    BY <1>1, <1>3 DEF list_folders, Go, Runs
  <2>5. TodoOK' /\ Progress'
    BY <2>1, <2>2 DEF TodoOK, Progress, FolderOK, LakehouseOK, EventhouseOK, OntologyOK, BehindOK, Behind, At
  <2>6. QED
    BY <1>1, <2>2, <2>3, <2>5 DEF FabricInv, TodoOK
<1>4. CASE walkFolders /\ Path \subseteq listed
  <2>1. Advance({"folder"}) /\ UNCHANGED <<listed, folders, oddities>>
    BY <1>4 DEF walkFolders
  <2>2. run' \in Runs /\ deployed' \in BOOLEAN
    BY <1>1, <2>1, RunAdvances DEF Ids
  <2>3. FabricTypeOK'
    BY <1>1, <1>2, <2>1, <2>2, TypeNext DEF content, FabricTypeOK
  <2>4. DoneWith({"folder"})
    BY <1>1, <1>4, <2>1, TypeIs DEF DoneWith, FabricInv, Progress, FolderOK, walkFolders
  <2>5. {"folder"} \in SUBSET Ids
    BY DEF Ids
  <2>6. QED
    BY <1>1, <2>1, <2>3, <2>4, <2>5, ProgressAdvances, ItemsTyped DEF FabricInv, TodoOK
<1>5. CASE walkFolders /\ ~(Path \subseteq listed)
  <2>1. PICK segment : segment = Min(Path \ listed) /\ create_folder(segment) /\ oddities' = oddities
    BY <1>5 DEF walkFolders
  <2>2. segment \in Path
    <3>1. Path \ listed \in SUBSET Int /\ Path \ listed # {}
      BY <1>5, FabricAssumption DEF Path
    <3>2. \E m \in Path \ listed : \A x \in Path \ listed : m <= x
      BY <3>1, PathHasLeast
    <3>3. QED
      BY <2>1, <3>1, <3>2, LeastIs
  <2>3. CASE segment \in folders
    <3>1. Exit /\ UNCHANGED <<listed, folders>>
      BY <2>1, <2>3 DEF create_folder
    <3>2. TodoOK' /\ Progress' /\ ~deployed'
      BY <1>1, <3>1, ProgressExits
    <3>3. run' \in Runs /\ deployed' \in BOOLEAN
      BY <1>1, <3>1, RunExits
    <3>4. FabricTypeOK'
      BY <1>1, <1>2, <2>1, <3>1, <3>3, TypeNext DEF content, FabricTypeOK
    <3>5. QED
      BY <3>2, <3>4 DEF FabricInv, TodoOK
  <2>4. CASE segment \notin folders
    <3>1. folders' = folders \cup {segment} /\ listed' = listed \cup {segment} /\ run' = run /\ deployed' = deployed
      BY <2>1, <2>4 DEF create_folder
    <3>2. FabricTypeOK'
      BY <1>1, <1>2, <2>1, <2>2, <3>1, TypeNext DEF content, FabricTypeOK
    <3>3. TodoOK' /\ Progress'
      BY <1>1, <3>1 DEF FabricInv, TodoOK, Progress, FolderOK, LakehouseOK, EventhouseOK, OntologyOK, BehindOK, Behind, At
    <3>4. QED
      BY <1>1, <3>1, <3>2, <3>3 DEF FabricInv, TodoOK
  <2>5. QED
    BY <2>3, <2>4
<1>6. QED
  BY <1>3, <1>4, <1>5

-----------------------------------------------------------------------------
\* A run goes on within its stage.
LEMMA WithinStage ==
    ASSUME FabricInv, NEW step, NEW ids \in SUBSET Ids, Go(step, ids)
    PROVE  /\ run'.stage = run.stage /\ run'.stages = run.stages /\ run'.step = step /\ run'.force = run.force
           /\ run'.known = run.known \cup ids
BY TypeIs DEF FabricInv, Go, Runs

LEMMA FindItemInv == ASSUME FabricInv, NEW k \in Kinds, find_item(k) PROVE FabricInv'
<1>1. /\ FabricTypeOK /\ run \in Runs /\ run.stage = k /\ run.step = "start" /\ k \in {"lakehouse", "eventhouse"}
      /\ run.stage \in Full /\ ~deployed
  BY TypeIs, StageNumbers DEF FabricInv, find_item, At, Kinds
<1>2. UNCHANGED <<listed, deployed, place>> /\ todo' = Csvs(k) /\ Csvs(k) \subseteq Tables \cup Streams
  BY DEF find_item, Csvs
<1>3. CASE ~run.force
  <2>1. /\ Kept /\ AsUsual
        /\ \/ Found(k) /\ Go("fill", {k})
           \/ Go("create", {})
    BY <1>3 DEF find_item
  <2>2. run' \in Runs /\ run'.stage = k /\ run'.stages = run.stages
    <3>1. "fill" \in Steps /\ "create" \in Steps /\ {k} \in SUBSET Ids /\ {} \in SUBSET Ids
      BY SomeIds
    <3>2. QED
      BY <1>1, <2>1, <3>1, RunGoes, WithinStage
  <2>3. oddities' \in 0..MaxOddities
    BY <1>1, <2>1, OdditiesType
  <2>4. FabricTypeOK'
    BY <1>1, <1>2, <2>1, <2>2, <2>3, TypeNext DEF content, place, Kept, FabricTypeOK
  <2>5. run.known \subseteq run'.known /\ (run'.step = "create" \/ (run'.step = "fill" /\ item[k] = "live" /\ k \in run'.known))
    <3>1. {k} \in SUBSET Ids /\ {} \in SUBSET Ids
      BY SomeIds
    <3>2. QED
      BY <2>1, <3>1, WithinStage DEF Found
  <2>6. TodoOK' /\ Progress'
    BY <1>1, <1>2, <2>1, <2>2, <2>5 DEF FabricInv, TodoOK, Progress, FolderOK, LakehouseOK, EventhouseOK, OntologyOK, BehindOK,
       Behind, At, Kept, content, place, HasFolder, HasLakehouse, HasEventhouse, Csvs
  <2>7. QED
    BY <1>1, <1>2, <2>4, <2>6 DEF FabricInv, TodoOK
<1>4. CASE run.force
  <2>1. /\ \/ Go("fill", {k}) /\ FALSE
           \/ Go("create", {})
        /\ \/ Deleted(k) /\ AsUsual
           \/ Kept /\ (Odd \/ AsUsual)
    BY <1>4 DEF find_item, delete_item
  <2>2. run' \in Runs /\ run'.stage = k /\ run'.stages = run.stages /\ run'.step = "create" /\ run'.known = run.known
    <3>1. "create" \in Steps /\ {} \in SUBSET Ids
      BY SomeIds
    <3>2. QED
      BY <1>1, <2>1, <3>1, RunGoes, WithinStage
  <2>3. oddities' \in 0..MaxOddities
    BY <1>1, <2>1, OdditiesType
  <2>4. FabricTypeOK' /\ \A j \in Kinds \ {k} : item'[j] = item[j]
    <3>1. CASE Kept
      <4>1. FabricTypeOK'
        BY <1>1, <1>2, <2>2, <2>3, <3>1, TypeNext DEF content, place, Kept, FabricTypeOK
      <4>2. QED
        BY <3>1, <4>1 DEF Kept
    <3>2. CASE Deleted(k)
      <4>1. FabricTypeOK'
        <5>1. item' \in [Kinds -> {"free", "making", "live", "held"}] /\ env' \in [EnvKeys -> {"none", "live", "stale", "other"}]
          BY <1>1, <3>2 DEF Deleted, FabricTypeOK
        <5>2. loaded' \subseteq Tables /\ rows' \in [Streams -> Nothing..Twice]
          <6>1. [t \in Streams |-> Nothing] \in [Streams -> Nothing..Twice]
            BY DEF Nothing, Twice
          <6>2. QED
            BY <1>1, <3>2, <6>1 DEF Deleted, FabricTypeOK
        <5>3. {database', stray', bound', model'} \subseteq BOOLEAN
          BY <1>1, <3>2 DEF Deleted, FabricTypeOK
        <5>4. QED
          BY <1>1, <1>2, <2>2, <2>3, <5>1, <5>2, <5>3, TypeNext DEF place, FabricTypeOK
      <4>2. QED
        BY <1>1, <3>2, <4>1, TypeIs DEF Deleted
    <3>3. QED
      BY <2>1, <3>1, <3>2
  <2>5. k = "eventhouse" => loaded' = loaded
    BY <2>1 DEF Kept, Deleted, content
  <2>6. TodoOK' /\ Progress'
    BY <1>1, <1>2, <2>2, <2>4, <2>5 DEF FabricInv, TodoOK, Progress, FolderOK, LakehouseOK, EventhouseOK, OntologyOK, BehindOK,
       Behind, At, place, HasFolder, HasLakehouse, HasEventhouse, Csvs, Kinds
  <2>7. QED
    BY <1>1, <1>2, <2>4, <2>6 DEF FabricInv, TodoOK
<1>5. QED
  BY <1>1, <1>3, <1>4, TypeIs DEF Runs

LEMMA FindOntologyInv == ASSUME FabricInv, find_ontology PROVE FabricInv'
<1>1. /\ FabricTypeOK /\ run \in Runs /\ run.stage = "ontology" /\ run.step = "start" /\ "ontology" \in Kinds
      /\ run.stage \in Full /\ ~deployed
  BY TypeIs, StageNumbers DEF FabricInv, find_ontology, At, Kinds
<1>2. UNCHANGED <<listed, todo, place>>
  BY DEF find_ontology
<1>3. PICK ids : ids = {k \in {"lakehouse", "eventhouse"} : Found(k)}
  OBVIOUS
<1>4. CASE "lakehouse" \notin run.known \cup ids
  <2>1. Advance({}) /\ Kept /\ AsUsual
    BY <1>3, <1>4 DEF find_ontology
  <2>2. run' \in Runs /\ deployed' \in BOOLEAN
    BY <1>1, <2>1, RunAdvances, SomeIds
  <2>3. oddities' \in 0..MaxOddities
    BY <1>1, <2>1, OdditiesType
  <2>4. FabricTypeOK'
    BY <1>1, <1>2, <2>1, <2>2, <2>3, TypeNext DEF content, place, Kept, FabricTypeOK
  <2>5. DoneWith({})
    BY <1>1, <1>4 DEF DoneWith, FabricInv, Progress, BehindOK, HasLakehouse, Behind
  <2>6. QED
    BY <1>1, <2>1, <2>4, <2>5, ProgressAdvances, ItemsTyped, SomeIds DEF FabricInv, TodoOK
<1>5. CASE "lakehouse" \in run.known \cup ids
  <2>1. PICK schema \in Schemas : run' = [run EXCEPT !.step = "create", !.known = @ \cup ids, !.schema = schema]
    BY <1>3, <1>5 DEF find_ontology
  <2>2. /\ UNCHANGED deployed
        /\ \/ Deleted("ontology") /\ AsUsual
           \/ Kept /\ (Odd \/ AsUsual)
    BY <1>3, <1>5 DEF find_ontology, delete_ontology, delete_item
  <2>3. run' \in Runs /\ run'.stage = "ontology" /\ run'.stages = run.stages /\ run'.step = "create" /\ run.known \subseteq run'.known
    <3>1. PICK known : known = run.known \cup ids
      OBVIOUS
    <3>2. known \in SUBSET Ids
      BY <1>1, <1>3, <3>1 DEF Runs, Ids, EnvKeys, Kinds
    <3>3. PICK r : r = [run EXCEPT !.step = "create"]
      OBVIOUS
    <3>4. r \in Runs /\ r.known = run.known /\ r.step = "create" /\ r.stage = run.stage /\ r.stages = run.stages
      BY <1>1, <3>3, SomeIds DEF Runs
    <3>5. PICK q : q = [r EXCEPT !.known = known]
      OBVIOUS
    <3>6. q \in Runs /\ q.known = known /\ q.step = "create" /\ q.stage = run.stage /\ q.stages = run.stages
      BY <3>2, <3>4, <3>5 DEF Runs
    <3>7. run' = [q EXCEPT !.schema = schema]
      BY <2>1, <3>1, <3>3, <3>4, <3>5
    <3>8. run' \in Runs /\ run'.known = known /\ run'.step = "create" /\ run'.stage = run.stage /\ run'.stages = run.stages
      BY <3>6, <3>7 DEF Runs
    <3>9. QED
      BY <1>1, <3>1, <3>8
  <2>4. oddities' \in 0..MaxOddities
    BY <1>1, <2>2, OdditiesType
  <2>5. FabricTypeOK' /\ loaded' = loaded /\ \A j \in Kinds \ {"ontology"} : item'[j] = item[j]
    <3>1. CASE Kept
      <4>1. FabricTypeOK'
        BY <1>1, <1>2, <2>2, <2>3, <2>4, <3>1, TypeNext DEF content, place, Kept, FabricTypeOK
      <4>2. QED
        BY <3>1, <4>1 DEF Kept, content
    <3>2. CASE Deleted("ontology")
      <4>1. item' \in [Kinds -> {"free", "making", "live", "held"}] /\ env' \in [EnvKeys -> {"none", "live", "stale", "other"}]
        BY <1>1, <3>2 DEF Deleted, FabricTypeOK
      <4>2. loaded' = loaded /\ rows' = rows
        BY <3>2 DEF Deleted
      <4>3. {database', stray', bound', model'} \subseteq BOOLEAN
        BY <1>1, <3>2 DEF Deleted, FabricTypeOK
      <4>4. FabricTypeOK'
        BY <1>1, <1>2, <2>2, <2>3, <2>4, <4>1, <4>2, <4>3, TypeNext DEF place, FabricTypeOK
      <4>5. QED
        BY <1>1, <3>2, <4>2, <4>4, TypeIs DEF Deleted
    <3>3. QED
      BY <2>2, <3>1, <3>2
  <2>6. TodoOK' /\ Progress'
    BY <1>1, <1>2, <2>3, <2>5 DEF FabricInv, TodoOK, Progress, FolderOK, LakehouseOK, EventhouseOK, OntologyOK, BehindOK,
       Behind, At, place, HasFolder, HasLakehouse, HasEventhouse, Kinds
  <2>7. QED
    BY <1>1, <2>2, <2>5, <2>6 DEF FabricInv, TodoOK
<1>6. QED
  BY <1>4, <1>5

-----------------------------------------------------------------------------
LEMMA CreateInv == ASSUME FabricInv, create_ontology \/ \E k \in Kinds : create_item(k) PROVE FabricInv'
<1>1. PICK k \in Kinds : CreateNamed(k) /\ (create_item(k) \/ (k = "ontology" /\ create_ontology))
  BY DEF create_item, create_ontology, Kinds
<1>2. /\ FabricTypeOK /\ run \in Runs /\ run.stage = k /\ run.step = "create" /\ run.stage \in Full /\ ~deployed
  BY <1>1, TypeIs, StageNumbers DEF FabricInv, CreateNamed, At, Kinds
<1>3. UNCHANGED <<listed, todo, oddities, place, loaded, rows, database, stray, model, env>>
  BY <1>1 DEF CreateNamed
<1>4. bound' \in BOOLEAN /\ (bound' = bound \/ (k = "ontology" /\ bound' = (item["lakehouse"] = "live")))
  BY <1>1, <1>2 DEF create_item, create_ontology, FabricTypeOK
<1>5. CASE item[k] = "free" /\ capacity
  <2>1. item' = [item EXCEPT ![k] = "making"] /\ Go("wait", {}) /\ UNCHANGED deployed
    BY <1>1, <1>5 DEF CreateNamed
  <2>2. run' \in Runs /\ run'.stage = k /\ run'.stages = run.stages /\ run'.step = "wait" /\ run'.known = run.known
    <3>1. "wait" \in Steps /\ {} \in SUBSET Ids
      BY SomeIds
    <3>2. QED
      BY <1>2, <2>1, <3>1, RunGoes, WithinStage
  <2>3. FabricTypeOK' /\ \A j \in Kinds \ {k} : item'[j] = item[j]
    BY <1>2, <1>3, <1>4, <2>1, <2>2, TypeNext DEF place, FabricTypeOK
  <2>4. k = "ontology" => bound' = (item["lakehouse"] = "live")
    <3>1. item' # item
      BY <1>2, <1>5, <2>1, TypeIs
    <3>2. QED
      BY <1>1, <3>1 DEF create_item, create_ontology
  <2>5. TodoOK' /\ Progress'
    <3>1. CASE k = "lakehouse"
      BY <1>2, <1>3, <2>2, <2>3, <3>1 DEF FabricInv, TodoOK, Progress, FolderOK, LakehouseOK, EventhouseOK, OntologyOK, BehindOK,
         Behind, At, place, HasFolder
    <3>2. CASE k = "eventhouse"
      BY <1>2, <1>3, <2>2, <2>3, <3>2 DEF FabricInv, TodoOK, Progress, FolderOK, LakehouseOK, EventhouseOK, OntologyOK, BehindOK,
         Behind, At, place, HasFolder, HasLakehouse, Kinds
    <3>3. CASE k = "ontology"
      <4>1. ASSUME run.stages = Full PROVE HasFolder' /\ HasLakehouse' /\ HasEventhouse' /\ bound'
        <5>1. HasFolder /\ HasLakehouse /\ HasEventhouse
          BY <1>2, <3>3, <4>1 DEF FabricInv, Progress, BehindOK, Behind
        <5>2. QED
          BY <1>3, <2>2, <2>3, <2>4, <3>3, <5>1 DEF HasFolder, HasLakehouse, HasEventhouse, place, Kinds
      <4>2. QED
        BY <2>2, <3>3, <4>1 DEF TodoOK, Progress, FolderOK, LakehouseOK, EventhouseOK, OntologyOK, BehindOK, Behind, At
    <3>4. QED
      BY <3>1, <3>2, <3>3 DEF Kinds
  <2>6. QED
    BY <1>2, <2>1, <2>3, <2>5 DEF FabricInv, TodoOK
<1>6. CASE item[k] # "free" /\ run.tries < NameRetries
  <2>1. run' = [run EXCEPT !.tries = @ + 1] /\ UNCHANGED <<deployed, item>>
    BY <1>1, <1>6 DEF CreateNamed
  <2>2. /\ run' \in Runs /\ run'.stage = k /\ run'.stages = run.stages /\ run'.step = "create"
        /\ run'.known = run.known
    <3>1. run.tries + 1 \in 0..NameRetries
      BY <1>2, <1>6, FabricAssumption DEF Runs
    <3>2. QED
      BY <1>2, <2>1, <3>1 DEF Runs
  <2>3. FabricTypeOK'
    BY <1>2, <1>3, <1>4, <2>1, <2>2, TypeNext DEF place, FabricTypeOK
  <2>4. TodoOK' /\ Progress'
    BY <1>2, <1>3, <2>1, <2>2 DEF FabricInv, TodoOK, Progress, FolderOK, LakehouseOK, EventhouseOK, OntologyOK, BehindOK,
       Behind, At, place, HasFolder, HasLakehouse, HasEventhouse, Kinds
  <2>5. QED
    BY <1>2, <2>1, <2>3, <2>4 DEF FabricInv, TodoOK
<1>7. CASE ~(item[k] = "free" /\ capacity) /\ ~(item[k] # "free" /\ run.tries < NameRetries)
  <2>1. Exit /\ UNCHANGED item
    BY <1>1, <1>7 DEF CreateNamed
  <2>2. run' \in Runs /\ deployed' \in BOOLEAN /\ TodoOK' /\ Progress' /\ ~deployed'
    BY <1>2, <2>1, RunExits, ProgressExits
  <2>3. FabricTypeOK'
    BY <1>2, <1>3, <1>4, <2>1, <2>2, TypeNext DEF place, FabricTypeOK
  <2>4. QED
    BY <2>2, <2>3 DEF FabricInv, TodoOK
<1>8. QED
  BY <1>5, <1>6, <1>7

LEMMA PollInv == ASSUME FabricInv, NEW k \in Kinds, poll_lro(k) PROVE FabricInv'
<1>1. /\ FabricTypeOK /\ run \in Runs /\ run.stage = k /\ run.step = "wait" /\ run.stage \in Full /\ ~deployed
  BY TypeIs, StageNumbers DEF FabricInv, poll_lro, At, Kinds
<1>2. UNCHANGED <<listed, todo, place, item, content, env>>
  BY DEF poll_lro
<1>3. CASE item[k] = "live"
  <2>1. PICK step \in {"fill", "model"}, ids \in {{}, {k}} :
          /\ Go(step, ids) /\ UNCHANGED deployed /\ (Odd \/ AsUsual)
          /\ step = (IF k = "ontology" THEN "model" ELSE "fill") /\ (k # "ontology" => ids = {k})
    BY <1>3 DEF poll_lro
  <2>2. /\ run' \in Runs /\ run'.stage = k /\ run'.stages = run.stages /\ run'.step = step
        /\ run'.known = run.known \cup ids
    <3>1. step \in Steps /\ ids \in SUBSET Ids
      BY <2>1, SomeIds
    <3>2. QED
      BY <1>1, <2>1, <3>1, RunGoes, WithinStage
  <2>3. oddities' \in 0..MaxOddities
    BY <1>1, <2>1, OdditiesType
  <2>4. FabricTypeOK'
    BY <1>1, <1>2, <2>1, <2>2, <2>3, TypeNext DEF content, place, FabricTypeOK
  <2>5. TodoOK' /\ Progress'
    BY <1>1, <1>2, <1>3, <2>1, <2>2 DEF FabricInv, TodoOK, Progress, FolderOK, LakehouseOK, EventhouseOK, OntologyOK, BehindOK,
       Behind, At, content, place, HasFolder, HasLakehouse, HasEventhouse, HasOntology, Kinds
  <2>6. QED
    BY <1>1, <2>1, <2>4, <2>5 DEF FabricInv, TodoOK
<1>4. CASE item[k] # "live"
  <2>1. Exit /\ AsUsual
    BY <1>4 DEF poll_lro
  <2>2. run' \in Runs /\ deployed' \in BOOLEAN /\ TodoOK' /\ Progress' /\ ~deployed' /\ oddities' \in 0..MaxOddities
    BY <1>1, <2>1, RunExits, ProgressExits, OdditiesType
  <2>3. FabricTypeOK'
    BY <1>1, <1>2, <2>2, TypeNext DEF content, place, FabricTypeOK
  <2>4. QED
    BY <2>2, <2>3 DEF FabricInv, TodoOK
<1>5. QED
  BY <1>3, <1>4

LEMMA UploadInv == ASSUME FabricInv, upload_csvs PROVE FabricInv'
<1>1. /\ FabricTypeOK /\ run \in Runs /\ run.stage = "lakehouse" /\ run.step = "fill" /\ run.stage \in Full /\ ~deployed
  BY TypeIs, StageNumbers DEF FabricInv, upload_csvs, At
<1>2. UNCHANGED <<listed, todo, deployed, oddities, place, item, content, env>> /\ Go("load", {})
  BY DEF upload_csvs
<1>3. run' \in Runs /\ run'.stage = "lakehouse" /\ run'.stages = run.stages /\ run'.step = "load" /\ run'.known = run.known
  <2>1. "load" \in Steps /\ {} \in SUBSET Ids
    BY SomeIds
  <2>2. QED
    BY <1>1, <1>2, <2>1, RunGoes, WithinStage
<1>4. FabricTypeOK'
  BY <1>1, <1>2, <1>3, TypeNext DEF content, place, FabricTypeOK
<1>5. TodoOK' /\ Progress'
  BY <1>1, <1>2, <1>3 DEF FabricInv, TodoOK, Progress, FolderOK, LakehouseOK, EventhouseOK, OntologyOK, BehindOK,
     Behind, At, place, HasFolder
<1>6. QED
  BY <1>1, <1>2, <1>4, <1>5 DEF FabricInv, TodoOK

LEMMA LoadInv == ASSUME FabricInv, load_lakehouse_table PROVE FabricInv'
<1>1. /\ FabricTypeOK /\ run \in Runs /\ run.stage = "lakehouse" /\ run.step = "load" /\ run.stage \in Full /\ ~deployed
  BY TypeIs, StageNumbers DEF FabricInv, load_lakehouse_table, At
<1>2. UNCHANGED <<listed, oddities, place, item, rows, database, stray, bound, model, env>>
  BY DEF load_lakehouse_table
<1>3. CASE todo = {}
  <2>1. Advance({}) /\ UNCHANGED <<todo, loaded>>
    BY <1>3 DEF load_lakehouse_table
  <2>2. run' \in Runs /\ deployed' \in BOOLEAN
    BY <1>1, <2>1, RunAdvances, SomeIds
  <2>3. FabricTypeOK'
    BY <1>1, <1>2, <2>1, <2>2, TypeNext DEF place, FabricTypeOK
  <2>4. DoneWith({})
    <3>1. ASSUME run.stages = Full PROVE folders' = Path /\ item'["lakehouse"] = "live" /\ loaded' = Tables /\ "lakehouse" \in run.known
      <4>1. LakehouseOK /\ BehindOK
        BY <3>1 DEF FabricInv, Progress
      <4>2. folders = Path
        BY <1>1, <4>1 DEF BehindOK, Behind, HasFolder
      <4>3. item["lakehouse"] = "live" /\ "lakehouse" \in run.known /\ Tables \subseteq loaded
        BY <1>1, <1>3, <4>1 DEF LakehouseOK, At
      <4>4. loaded \subseteq Tables
        BY <1>1, TypeIs
      <4>5. QED
        BY <1>2, <2>1, <4>2, <4>3, <4>4 DEF place
    <3>2. QED
      BY <1>1, <3>1 DEF DoneWith
  <2>5. QED
    BY <1>1, <2>1, <2>3, <2>4, ProgressAdvances, ItemsTyped, SomeIds DEF FabricInv, TodoOK
<1>4. CASE todo # {}
  <2>1. PICK t \in todo : loaded' = loaded \cup {t} /\ todo' = todo \ {t} /\ UNCHANGED <<run, deployed>>
    BY <1>4 DEF load_lakehouse_table
  <2>2. FabricTypeOK'
    <3>1. t \in Tables
      BY <1>1, <2>1 DEF FabricInv, TodoOK
    <3>2. QED
      BY <1>1, <1>2, <2>1, <3>1, TypeNext DEF place, FabricTypeOK
  <2>3. TodoOK' /\ Progress'
    BY <1>1, <1>2, <2>1 DEF FabricInv, TodoOK, Progress, FolderOK, LakehouseOK, EventhouseOK, OntologyOK, BehindOK,
       Behind, At, place, HasFolder
  <2>4. QED
    BY <1>1, <2>1, <2>2, <2>3 DEF FabricInv, TodoOK
<1>5. QED
  BY <1>3, <1>4

LEMMA EventhouseInv ==
    ASSUME FabricInv, find_kql_database \/ create_kql_tables \/ ingest_csv_files
    PROVE  FabricInv'
<1>1. /\ FabricTypeOK /\ run \in Runs /\ run.stage = "eventhouse" /\ run.step \in {"fill", "tables", "ingest"}
      /\ run.stage \in Full /\ ~deployed
  BY TypeIs, StageNumbers DEF FabricInv, find_kql_database, create_kql_tables, ingest_csv_files, At
<1>2. UNCHANGED <<listed, place, item, loaded, database, bound, model, env>>
  BY DEF find_kql_database, create_kql_tables, ingest_csv_files, content
<1>3. /\ todo' \subseteq todo /\ stray' \in BOOLEAN /\ rows' \in [Streams -> Nothing..Twice]
      /\ oddities' \in 0..MaxOddities
  <2>1. todo' \subseteq todo
    BY DEF find_kql_database, create_kql_tables, ingest_csv_files
  <2>2. stray' \in BOOLEAN
    BY <1>1 DEF find_kql_database, create_kql_tables, ingest_csv_files, content, FabricTypeOK
  <2>3. rows' = rows \/ \E t \in todo, h \in {Once, Twice, Part} : rows' = [rows EXCEPT ![t] = Append2(@, h)] \/ rows' = [rows EXCEPT ![t] = Twice]
    BY DEF find_kql_database, create_kql_tables, ingest_csv_files, content
  <2>4. \A have, h \in Nothing..Twice : Append2(have, h) \in Nothing..Twice
    BY DEF Append2, Nothing, Twice
  <2>5. rows' \in [Streams -> Nothing..Twice]
    <3>1. {Once, Twice, Part} \subseteq Nothing..Twice /\ Twice \in Nothing..Twice
      BY DEF Once, Twice, Part, Nothing
    <3>2. rows \in [Streams -> Nothing..Twice]
      BY <1>1, TypeIs
    <3>3. ASSUME NEW t, NEW value, rows' = [rows EXCEPT ![t] = value], t \in Streams => value \in Nothing..Twice
          PROVE  rows' \in [Streams -> Nothing..Twice]
      BY <3>2, <3>3
    <3>4. CASE rows' = rows
      BY <3>2, <3>4
    <3>5. ASSUME NEW t \in todo, NEW h \in {Once, Twice, Part}, rows' = [rows EXCEPT ![t] = Append2(rows[t], h)]
          PROVE  rows' \in [Streams -> Nothing..Twice]
      <4>1. t \in Streams => Append2(rows[t], h) \in Nothing..Twice
        BY <2>4, <3>1, <3>2
      <4>2. QED
        BY <3>3, <3>5, <4>1
    <3>6. ASSUME NEW t \in todo, rows' = [rows EXCEPT ![t] = Twice]
          PROVE  rows' \in [Streams -> Nothing..Twice]
      BY <3>1, <3>3, <3>6
    <3>7. QED
      BY <2>3, <3>4, <3>5, <3>6
  <2>6. oddities' = oddities \/ Odd \/ AsUsual
    BY DEF find_kql_database, create_kql_tables, ingest_csv_files
  <2>7. QED
    BY <1>1, <2>1, <2>2, <2>5, <2>6, OdditiesType, TypeIs
<1>4. \/ Advance({}) \/ Exit \/ UNCHANGED <<run, deployed>>
      \/ deployed' = deployed /\ \E step \in {"tables", "ingest"} : Go(step, {})
  BY DEF find_kql_database, create_kql_tables, ingest_csv_files
<1>5. ASSUME run' \in Runs, deployed' \in BOOLEAN PROVE FabricTypeOK'
  BY <1>1, <1>2, <1>3, <1>5, TypeNext DEF place, FabricTypeOK
<1>6. CASE Advance({})
  <2>1. run' \in Runs /\ deployed' \in BOOLEAN
    BY <1>1, <1>6, RunAdvances, SomeIds
  <2>2. DoneWith({})
    <3>1. ASSUME run.stages = Full PROVE HasFolder /\ HasLakehouse /\ HasEventhouse
      BY <1>1, <3>1 DEF FabricInv, Progress, BehindOK, Behind, EventhouseOK
    <3>2. QED
      BY <1>1, <1>2, <3>1 DEF DoneWith, HasFolder, HasLakehouse, HasEventhouse, place
  <2>3. FabricTypeOK'
    BY <1>5, <2>1
  <2>4. QED
    BY <1>1, <1>6, <2>2, <2>3, ProgressAdvances, ItemsTyped, SomeIds DEF FabricInv
<1>7. CASE Exit
  <2>1. run' \in Runs /\ deployed' \in BOOLEAN /\ TodoOK' /\ Progress' /\ ~deployed'
    BY <1>1, <1>7, RunExits, ProgressExits
  <2>2. QED
    BY <1>5, <2>1 DEF FabricInv
<1>8. CASE UNCHANGED <<run, deployed>>
  <2>1. FabricTypeOK'
    BY <1>1, <1>5, <1>8, TypeIs
  <2>2. TodoOK' /\ Progress' /\ (deployed' => run'.stage = "idle" /\ Deployed')
    BY <1>1, <1>2, <1>8, ProgressStays, TypeIs DEF place
  <2>3. QED
    BY <2>1, <2>2 DEF FabricInv
<1>9. ASSUME NEW step \in {"tables", "ingest"}, Go(step, {}), deployed' = deployed PROVE FabricInv'
  <2>1. run' \in Runs /\ run'.stage = "eventhouse" /\ run'.stages = run.stages /\ run'.step = step /\ run'.known = run.known
    <3>1. step \in Steps /\ {} \in SUBSET Ids
      BY SomeIds
    <3>2. QED
      BY <1>1, <1>9, <3>1, RunGoes, WithinStage
  <2>2. FabricTypeOK'
    <3>1. deployed' \in BOOLEAN
      BY <1>1, <1>9, TypeIs
    <3>2. QED
      BY <1>5, <2>1, <3>1
  <2>3. ASSUME run.stages = Full PROVE HasFolder' /\ HasLakehouse' /\ HasEventhouse'
    <3>1. HasFolder /\ HasLakehouse /\ HasEventhouse
      BY <1>1, <2>3 DEF FabricInv, Progress, BehindOK, Behind, EventhouseOK
    <3>2. QED
      BY <1>2, <2>1, <3>1 DEF HasFolder, HasLakehouse, HasEventhouse, place
  <2>4. TodoOK' /\ Progress'
    BY <2>1, <2>3 DEF TodoOK, Progress, FolderOK, LakehouseOK, EventhouseOK, OntologyOK, BehindOK, Behind, At
  <2>5. QED
    BY <1>1, <1>9, <2>2, <2>4 DEF FabricInv
<1>10. QED
  BY <1>4, <1>6, <1>7, <1>8, <1>9

LEMMA FindModelInv == ASSUME FabricInv, findModel PROVE FabricInv'
<1>1. /\ FabricTypeOK /\ run \in Runs /\ run.stage = "ontology" /\ run.step = "model" /\ run.stage \in Full /\ ~deployed
  BY TypeIs, StageNumbers DEF FabricInv, findModel, At
<1>2. UNCHANGED <<listed, todo, oddities, place, item, content, env>>
  BY DEF findModel
<1>3. PICK ids \in SUBSET Ids : Advance(ids)
  <2>1. {"model"} \in SUBSET Ids /\ GraphModels \in SUBSET Ids
    BY DEF GraphModels, Ids, EnvKeys
  <2>2. QED
    BY <2>1 DEF findModel
<1>4. run' \in Runs /\ deployed' \in BOOLEAN
  BY <1>1, <1>3, RunAdvances
<1>5. FabricTypeOK'
  BY <1>1, <1>2, <1>4, TypeNext DEF content, place, FabricTypeOK
<1>6. DoneWith(ids)
  <2>1. ASSUME run.stages = Full PROVE HasFolder /\ HasLakehouse /\ HasEventhouse /\ HasOntology
    BY <1>1, <2>1 DEF FabricInv, Progress, BehindOK, Behind, OntologyOK, At
  <2>2. QED
    BY <1>1, <1>2, <2>1 DEF DoneWith, HasFolder, HasLakehouse, HasEventhouse, HasOntology, place, content
<1>7. QED
  BY <1>1, <1>3, <1>5, <1>6, ProgressAdvances, ItemsTyped DEF FabricInv

LEMMA VerifyInv == ASSUME FabricInv, verify PROVE FabricInv'
<1>1. /\ FabricTypeOK /\ run \in Runs /\ run.stage = "verify" /\ run.step = "start" /\ run.stage \in Full /\ ~deployed
  BY TypeIs, StageNumbers DEF FabricInv, verify, At
<1>2. UNCHANGED <<listed, todo, oddities, place, item, content>> /\ Advance({})
  BY DEF verify
<1>3. run' \in Runs /\ deployed' \in BOOLEAN
  BY <1>1, <1>2, RunAdvances, SomeIds
<1>4. env' \in [EnvKeys -> {"none", "live", "stale", "other"}]
  BY <1>1, TypeIs DEF verify
<1>5. FabricTypeOK'
  BY <1>1, <1>2, <1>3, <1>4, TypeNext DEF content, place, FabricTypeOK
<1>6. DoneWith({})
  <2>1. ASSUME run.stages = Full PROVE HasFolder /\ HasLakehouse /\ HasEventhouse /\ HasOntology
    BY <1>1, <2>1 DEF FabricInv, Progress, BehindOK, Behind
  <2>2. ASSUME NEW k \in {"lakehouse", "eventhouse"}, k \in run.known PROVE env'[k] = "live"
    BY <2>2 DEF verify, EnvKeys, Kinds
  <2>3. QED
    BY <1>1, <1>2, <2>1, <2>2 DEF DoneWith, HasFolder, HasLakehouse, HasEventhouse, HasOntology, place, content
<1>7. QED
  BY <1>1, <1>2, <1>5, <1>6, ProgressAdvances, ItemsTyped, SomeIds DEF FabricInv

LEMMA ServiceInv == ASSUME FabricInv, Service PROVE FabricInv'
<1>1. FabricTypeOK /\ run \in Runs
  BY TypeIs DEF FabricInv
<1>2. UNCHANGED <<run, listed, todo, deployed, capacity, folders, shared, loaded, rows, stray, bound, env>>
  BY DEF Service, WorkspaceAppears, NameReleased, OperationEnds, DatabaseAppears, ModelAppears, client, place, content
<1>3. /\ item' \in [Kinds -> {"free", "making", "live", "held"}]
      /\ \A k \in Kinds : item[k] = "live" => item'[k] = "live"
  BY <1>1, TypeIs DEF Service, WorkspaceAppears, NameReleased, OperationEnds, DatabaseAppears, ModelAppears
<1>4. workspace' \in {"absent", "hidden", "visible"} /\ {database', model'} \subseteq BOOLEAN
  BY <1>1 DEF Service, WorkspaceAppears, NameReleased, OperationEnds, DatabaseAppears, ModelAppears, content, place, FabricTypeOK
<1>5. oddities' \in 0..MaxOddities
  <2>1. oddities' = oddities \/ Odd \/ AsUsual
    BY DEF Service, WorkspaceAppears, NameReleased, OperationEnds, DatabaseAppears, ModelAppears, client
  <2>2. QED
    BY <1>1, <2>1, OdditiesType, TypeIs
<1>6. FabricTypeOK'
  BY <1>1, <1>2, <1>3, <1>4, <1>5, TypeNext, TypeIs DEF FabricTypeOK
<1>7. TodoOK' /\ Progress' /\ (deployed' => run'.stage = "idle" /\ Deployed')
  BY <1>1, <1>2, <1>3, ProgressStays, TypeIs
<1>8. QED
  BY <1>6, <1>7 DEF FabricInv

-----------------------------------------------------------------------------
LEMMA FabricInitInv == ASSUME FabricInit PROVE FabricInv
<1>1. run = Idle /\ deployed = FALSE /\ Idle \in Runs
  BY IdleIsRun DEF FabricInit
<1>2. item \in [Kinds -> {"free", "making", "live", "held"}] /\ env \in [EnvKeys -> {"none", "live", "stale", "other"}]
  BY DEF FabricInit
<1>3. rows \in [Streams -> Nothing..Twice]
  BY DEF FabricInit, Nothing, Twice
<1>4. oddities \in 0..MaxOddities
  BY FabricAssumption DEF FabricInit
<1>5. workspace \in {"absent", "hidden", "visible"} /\ {capacity, shared, database, stray, bound, model} \subseteq BOOLEAN
  BY DEF FabricInit
<1>6. listed \subseteq Path /\ todo \subseteq Tables \cup Streams /\ folders \subseteq Path /\ loaded \subseteq Tables
  BY DEF FabricInit
<1>7. FabricTypeOK
  BY <1>1, <1>2, <1>3, <1>4, <1>5, <1>6 DEF FabricTypeOK, Runs, Steps, Ids
<1>8. TodoOK /\ Progress
  BY <1>1, NothingBehindIdle DEF TodoOK, Progress
<1>9. QED
  BY <1>1, <1>7, <1>8 DEF FabricInv

LEMMA FabricNextInv == ASSUME FabricInv, [FabricNext]_fabricVars PROVE FabricInv'
<1>1. CASE UNCHANGED fabricVars
  <2>1. FabricTypeOK'
    <3>1. UNCHANGED <<run, listed, todo, deployed, oddities, workspace, capacity, folders, shared, item, loaded, rows,
                      database, stray, bound, model, env>>
      BY <1>1 DEF fabricVars, client, place, content
    <3>2. /\ run \in Runs /\ deployed \in BOOLEAN /\ oddities \in 0..MaxOddities
          /\ item \in [Kinds -> {"free", "making", "live", "held"}]
          /\ rows \in [Streams -> Nothing..Twice]
          /\ env \in [EnvKeys -> {"none", "live", "stale", "other"}]
      BY TypeIs DEF FabricInv
    <3>3. /\ listed \subseteq Path /\ todo \subseteq Tables \cup Streams
          /\ workspace \in {"absent", "hidden", "visible"} /\ capacity \in BOOLEAN
          /\ folders \subseteq Path /\ shared \in BOOLEAN /\ loaded \subseteq Tables
          /\ {database, stray, bound, model} \subseteq BOOLEAN
      BY DEF FabricInv, FabricTypeOK
    <3>4. QED
      BY <3>1, <3>2, <3>3, TypeNext
  <2>2. TodoOK' /\ Progress' /\ (deployed' => run'.stage = "idle" /\ Deployed')
    BY <1>1, ProgressStays, TypeIs DEF FabricInv, fabricVars, client, place, content
  <2>3. QED
    BY <2>1, <2>2 DEF FabricInv
<1>2. CASE Fails
  BY <1>2, FailsInv
<1>3. CASE Service
  BY <1>3, ServiceInv
<1>4. ASSUME NEW stages \in {Full, Graph, Telemetry} \cup {{s} : s \in Full}, NEW force \in BOOLEAN, NEW byId \in BOOLEAN,
             main(stages, force, byId)
      PROVE  FabricInv'
  BY <1>4, MainInv
<1>5. CASE Stage
  <2>1. CASE findWorkspace \/ awaitWorkspace \/ assign_capacity
    BY <2>1, WorkspaceInv
  <2>2. CASE list_folders \/ walkFolders
    BY <2>2, FolderInv
  <2>3. ASSUME NEW k \in Kinds, find_item(k) PROVE FabricInv'
    BY <2>3, FindItemInv
  <2>4. ASSUME NEW k \in Kinds, create_item(k) PROVE FabricInv'
    BY <2>4, CreateInv
  <2>5. ASSUME NEW k \in Kinds, poll_lro(k) PROVE FabricInv'
    BY <2>5, PollInv
  <2>6. QED
    BY <1>5, <2>1, <2>2, <2>3, <2>4, <2>5, UploadInv, LoadInv, EventhouseInv, FindOntologyInv, CreateInv,
       FindModelInv, VerifyInv DEF Stage
<1>6. QED
  BY <1>1, <1>2, <1>3, <1>4, <1>5 DEF FabricNext

-----------------------------------------------------------------------------
LEMMA DeployInit == ASSUME Init PROVE FabricInv
BY FabricInitInv DEF Init

LEMMA DeployNext == ASSUME FabricInv, [Next]_vars PROVE FabricInv'
<1>1. [FabricNext]_fabricVars
  BY DEF Next, vars
<1>2. QED
  BY <1>1, FabricNextInv

\* Whatever runs came before, forced, partial, interrupted or failed, and whatever the
\* service was still doing, deploy_scenario.py's main returns 0 from a full run only with
\* the folders and the three items there, every lakehouse table loaded, the ontology bound
\* to that lakehouse and the ids of lakehouse and eventhouse written.  Rows of the
\* telemetry streams are not among it: the eventhouse stage may return without any.
THEOREM FullRunsDeploy == Spec => []FullRunDeploys
<1>1. Init => FabricInv
  BY DeployInit
<1>2. FabricInv /\ [Next]_vars => FabricInv'
  BY DeployNext
<1>3. FabricInv => FullRunDeploys
  BY DEF FabricInv, FullRunDeploys
<1>4. QED
  BY <1>1, <1>2, <1>3, PTL DEF Spec

-----------------------------------------------------------------------------
\* What a step may not do to the data.
DataStays == loaded \subseteq loaded' /\ \A t \in Streams : rows[t] <= rows'[t]

LEMMA SameData == ASSUME FabricInv, UNCHANGED <<loaded, rows>> PROVE DataStays
<1>1. rows \in [Streams -> Nothing..Twice]
  BY TypeIs DEF FabricInv
<1>2. \A x \in Nothing..Twice : x <= x
  BY DEF Nothing, Twice
<1>3. QED
  BY <1>1, <1>2 DEF DataStays

LEMMA IngestKeeps == ASSUME FabricInv, ingest_csv_files PROVE DataStays
<1>1. rows \in [Streams -> Nothing..Twice]
  BY TypeIs DEF FabricInv
<1>2. UNCHANGED loaded
  BY DEF ingest_csv_files
<1>3. \A have \in Nothing..Twice, h \in {Part, Once} : have <= Append2(have, h) /\ have <= Twice /\ have <= have
  BY DEF Append2, Nothing, Part, Once, Twice
<1>4. CASE UNCHANGED rows
  BY <1>2, <1>4, SameData
<1>5. ASSUME NEW t, NEW value, rows' = [rows EXCEPT ![t] = value], t \in Streams => rows[t] <= value
      PROVE  DataStays
  <2>1. ASSUME NEW u \in Streams PROVE rows[u] <= rows'[u]
    <3>1. CASE u = t
      BY <1>1, <1>5, <3>1
    <3>2. CASE u # t
      BY <1>1, <1>3, <1>5, <3>2
    <3>3. QED
      BY <3>1, <3>2
  <2>2. QED
    BY <1>2, <2>1 DEF DataStays
<1>6. ASSUME NEW t \in todo, NEW h \in {Part, Once}, rows' = [rows EXCEPT ![t] = Append2(rows[t], h)]
      PROVE  DataStays
  <2>1. t \in Streams => rows[t] <= Append2(rows[t], h)
    BY <1>1, <1>3
  <2>2. QED
    BY <1>5, <1>6, <2>1
<1>7. ASSUME NEW t \in todo, rows' = [rows EXCEPT ![t] = Twice] PROVE DataStays
  <2>1. t \in Streams => rows[t] <= Twice
    BY <1>1, <1>3
  <2>2. QED
    BY <1>5, <1>7, <2>1
<1>8. \/ UNCHANGED rows
      \/ \E t \in todo, h \in {Part, Once} : rows' = [rows EXCEPT ![t] = Append2(rows[t], h)]
      \/ \E t \in todo : rows' = [rows EXCEPT ![t] = Twice]
  BY DEF ingest_csv_files
<1>9. QED
  BY <1>4, <1>6, <1>7, <1>8

\* Only a deletion takes data away, and a run that is not forced deletes nothing but the ontology.
LEMMA StepKeepsData == ASSUME FabricInv, ~run.force, [FabricNext]_fabricVars PROVE DataStays
<1>1. CASE UNCHANGED fabricVars
  BY <1>1, SameData DEF fabricVars, content
<1>2. CASE Fails \/ Service
  <2>1. UNCHANGED <<loaded, rows>>
    BY <1>2 DEF Fails, Service, WorkspaceAppears, NameReleased, OperationEnds, DatabaseAppears, ModelAppears, content
  <2>2. QED
    BY <2>1, SameData
<1>3. ASSUME NEW stages, NEW force, NEW byId, main(stages, force, byId) PROVE DataStays
  BY <1>3, SameData DEF main, content
<1>4. CASE Stage
  <2>1. CASE findWorkspace \/ awaitWorkspace \/ assign_capacity \/ list_folders \/ walkFolders
    BY <2>1, SameData DEF findWorkspace, awaitWorkspace, assign_capacity, list_folders, walkFolders, content
  <2>2. ASSUME NEW k \in Kinds, find_item(k) PROVE DataStays
    BY <2>2, SameData DEF find_item, Kept, content
  <2>3. ASSUME NEW k \in Kinds, create_item(k) \/ poll_lro(k) PROVE DataStays
    BY <2>3, SameData DEF create_item, CreateNamed, poll_lro, content
  <2>4. CASE upload_csvs \/ find_kql_database \/ create_kql_tables \/ findModel \/ verify \/ create_ontology
    BY <2>4, SameData DEF upload_csvs, find_kql_database, create_kql_tables, findModel, verify, create_ontology, CreateNamed, content
  <2>5. CASE load_lakehouse_table
    <3>1. loaded \subseteq loaded' /\ UNCHANGED rows
      BY <2>5 DEF load_lakehouse_table
    <3>2. (\A t \in Streams : rows[t] <= rows[t])
      <4>1. rows \in [Streams -> Nothing..Twice]
        BY TypeIs DEF FabricInv
      <4>2. \A x \in Nothing..Twice : x <= x
        BY DEF Nothing, Twice
      <4>3. QED
        BY <4>1, <4>2
    <3>3. QED
      BY <3>1, <3>2 DEF DataStays
  <2>6. CASE find_ontology
    <3>1. UNCHANGED <<loaded, rows>>
      BY <2>6 DEF find_ontology, delete_ontology, delete_item, Deleted, Kept, content
    <3>2. QED
      BY <3>1, SameData
  <2>7. QED
    BY <1>4, <2>1, <2>2, <2>3, <2>4, <2>5, <2>6, IngestKeeps DEF Stage
<1>5. QED
  BY <1>1, <1>2, <1>3, <1>4 DEF FabricNext

\* Without --force no stage of deploy_scenario.py, no failure, no interruption and nothing
\* the service does takes back a table that was loaded or telemetry that was ingested.
THEOREM DataAlwaysSurvives == Spec => DataSurvives
<1>1. Init => FabricInv
  BY DeployInit
<1>2. FabricInv /\ [Next]_vars => FabricInv'
  BY DeployNext
<1>3. ASSUME FabricInv, [Next]_vars
      PROVE  [~run.force => loaded \subseteq loaded' /\ \A t \in Streams : rows[t] <= rows'[t]]_fabricVars
  <2>1. [FabricNext]_fabricVars
    BY <1>3 DEF Next, vars
  <2>2. ~run.force => DataStays
    BY <1>3, <2>1, StepKeepsData
  <2>3. QED
    BY <2>2 DEF DataStays
<1>4. QED
  BY <1>1, <1>2, <1>3, PTL DEF Spec, DataSurvives

-----------------------------------------------------------------------------
\* What the ontology is created from.

LEMMA OnlyOneIsMax == ASSUME NEW m \in Int PROVE Max({m}) = m
BY DEF Max

SchemaVertices == [label : STRING, key : STRING, props : Seq(STRING)]
SchemaEdges == [label : STRING, source : STRING, from : STRING, target : STRING, to : STRING]

LEMMA SchemaShape ==
    ASSUME NEW schema, WellFormed(schema)
    PROVE  /\ \E n \in Nat : DOMAIN schema.vertices = 1..n
           /\ \A i \in DOMAIN schema.vertices :
                \E n \in Nat : DOMAIN schema.vertices[i].props = 1..n
           /\ \E m \in Nat : DOMAIN schema.edges = 1..m
<1>1. schema.vertices \in Seq(SchemaVertices) /\ schema.edges \in Seq(SchemaEdges)
  BY DEF WellFormed, SchemaVertices, SchemaEdges
<1>2. PICK n \in Nat : n = Len(schema.vertices) /\ DOMAIN schema.vertices = 1..n
  BY <1>1, LenProperties
<1>3. PICK m \in Nat : DOMAIN schema.edges = 1..m
  BY <1>1, LenProperties
<1>4. ASSUME NEW i \in DOMAIN schema.vertices
      PROVE  \E k \in Nat : DOMAIN schema.vertices[i].props = 1..k
  <2>1. schema.vertices[i] \in SchemaVertices
    BY <1>1, <1>2, ElementOfSeq
  <2>2. schema.vertices[i].props \in Seq(STRING)
    BY <2>1 DEF SchemaVertices
  <2>3. QED
    BY <2>2, LenProperties
<1>5. QED
  BY <1>2, <1>3, <1>4

\* A place is that of a property, and there are finitely many.
LEMMA PlacesAre ==
    ASSUME NEW schema
    PROVE  \A i, n : <<i, n>> \in PropPlaces(schema) <=>
                       i \in DOMAIN schema.vertices /\ n \in DOMAIN schema.vertices[i].props
BY DEF PropPlaces

LEMMA PlaceIs ==
    ASSUME NEW schema, WellFormed(schema), NEW p \in PropPlaces(schema)
    PROVE  /\ p = <<p[1], p[2]>> /\ p[1] \in Nat /\ p[2] \in Nat
           /\ p[1] \in DOMAIN schema.vertices /\ p[2] \in DOMAIN schema.vertices[p[1]].props
<1>1. /\ p = <<p[1], p[2]>>
      /\ p[1] \in DOMAIN schema.vertices /\ p[2] \in DOMAIN schema.vertices[p[1]].props
  BY DEF PropPlaces
<1>2. p[1] \in Nat
  BY <1>1, SchemaShape
<1>3. p[2] \in Nat
  BY <1>1, SchemaShape
<1>4. QED
  BY <1>1, <1>2, <1>3

LEMMA PlacesFinite == ASSUME NEW schema, WellFormed(schema) PROVE IsFiniteSet(PropPlaces(schema))
<1> DEFINE I == DOMAIN schema.vertices
           row == [i \in I |-> {i} \X DOMAIN schema.vertices[i].props]
           rows_ == {{i} \X DOMAIN schema.vertices[i].props : i \in I}
<1>1. IsFiniteSet(I)
  BY SchemaShape, FS_Interval
<1>2. row \in Surjection(I, rows_)
  BY DEF Surjection
<1>3. IsFiniteSet(rows_)
  BY <1>1, <1>2, FS_Surjection
<1>4. ASSUME NEW r \in rows_ PROVE IsFiniteSet(r)
  <2>1. PICK i \in I : r = {i} \X DOMAIN schema.vertices[i].props
    OBVIOUS
  <2>2. PICK n \in Nat : DOMAIN schema.vertices[i].props = 1..n
    BY SchemaShape
  <2>3. IsFiniteSet(1..n)
    BY FS_Interval, n \in Int, 1 \in Int
  <2>4. IsFiniteSet({i})
    BY FS_Singleton
  <2>5. QED
    BY <2>1, <2>2, <2>3, <2>4, FS_Product
<1>5. IsFiniteSet(UNION rows_)
  BY <1>3, <1>4, FS_UNION
<1>6. QED
  BY <1>5 DEF PropPlaces

\* Two properties have two ids: the later one counts the earlier.
UpTo(schema, p) == {q \in PropPlaces(schema) : q[1] < p[1] \/ (q[1] = p[1] /\ q[2] <= p[2])}

LEMMA EarlierCounts ==
    ASSUME NEW schema, WellFormed(schema),
           NEW p \in PropPlaces(schema), NEW q \in PropPlaces(schema), p \in UpTo(schema, q),
           PropNumber(schema, p) = PropNumber(schema, q)
    PROVE  p = q
<1>1. UpTo(schema, p) \subseteq UpTo(schema, q)
  <2>1. ASSUME NEW r \in UpTo(schema, p) PROVE r \in UpTo(schema, q)
    <3>1. r \in PropPlaces(schema)
      BY DEF UpTo
    <3>2. r[1] \in Nat /\ r[2] \in Nat /\ p[1] \in Nat /\ p[2] \in Nat /\ q[1] \in Nat /\ q[2] \in Nat
      BY <3>1, PlaceIs
    <3>3. QED
      BY <3>1, <3>2 DEF UpTo
  <2>2. QED
    BY <2>1
<1>2. IsFiniteSet(UpTo(schema, q))
  <2>1. UpTo(schema, q) \in SUBSET PropPlaces(schema)
    BY DEF UpTo
  <2>2. QED
    BY <2>1, PlacesFinite, FS_Subset
<1>3. Cardinality(UpTo(schema, p)) = Cardinality(UpTo(schema, q))
  BY DEF PropNumber, UpTo
<1>4. UpTo(schema, p) = UpTo(schema, q)
  BY <1>1, <1>2, <1>3, FS_Subset
<1>5. p[1] \in Nat /\ p[2] \in Nat /\ q[1] \in Nat /\ q[2] \in Nat
      /\ p = <<p[1], p[2]>> /\ q = <<q[1], q[2]>>
  BY PlaceIs
<1>6. q \in UpTo(schema, p)
  BY <1>4, <1>5 DEF UpTo
<1>7. p[1] = q[1] /\ p[2] = q[2]
  BY <1>5, <1>6 DEF UpTo
<1>8. QED
  BY <1>5, <1>7

LEMMA NumbersDiffer ==
    ASSUME NEW schema, WellFormed(schema),
           NEW p \in PropPlaces(schema), NEW q \in PropPlaces(schema),
           PropNumber(schema, p) = PropNumber(schema, q)
    PROVE  p = q
<1>1. p[1] \in Nat /\ p[2] \in Nat /\ q[1] \in Nat /\ q[2] \in Nat
  BY PlaceIs
<1>2. \/ p[1] < q[1] \/ (p[1] = q[1] /\ p[2] <= q[2])
      \/ q[1] < p[1] \/ (q[1] = p[1] /\ q[2] <= p[2])
  BY <1>1
<1>3. p \in UpTo(schema, q) \/ q \in UpTo(schema, p)
  BY <1>2, Zenon DEF UpTo
<1>4. QED
  BY <1>3, EarlierCounts

LEMMA NumberType ==
    ASSUME NEW schema, WellFormed(schema), NEW p \in PropPlaces(schema)
    PROVE  PropNumber(schema, p) \in Nat
<1>1. UpTo(schema, p) \in SUBSET PropPlaces(schema)
  BY DEF UpTo
<1>2. IsFiniteSet(UpTo(schema, p))
  BY <1>1, PlacesFinite, FS_Subset
<1>3. QED
  BY <1>2, FS_CardinalityType DEF PropNumber, UpTo

\* An id that is looked up is the one that was given out.
LEMMA TypeIds ==
    ASSUME NEW schema, WellFormed(schema), NEW i \in DOMAIN schema.vertices
    PROVE  TypeId(schema, schema.vertices[i].label) = i
<1>1. {j \in DOMAIN schema.vertices : schema.vertices[j].label = schema.vertices[i].label} = {i}
  BY DEF WellFormed
<1>2. i \in Int
  BY SchemaShape
<1>3. QED
  BY <1>1, <1>2, OnlyOneIsMax DEF TypeId

LEMMA PropIds ==
    ASSUME NEW schema, WellFormed(schema), NEW i \in DOMAIN schema.vertices,
           NEW n \in DOMAIN schema.vertices[i].props
    PROVE  PropId(schema, schema.vertices[i].label, schema.vertices[i].props[n])
             = PropNumber(schema, <<i, n>>)
<1> DEFINE label == schema.vertices[i].label
           prop == schema.vertices[i].props[n]
           here == {q \in PropPlaces(schema) :
                      schema.vertices[q[1]].label = label /\ PropAt(schema, q) = prop}
<1>1. <<i, n>> \in here
  BY PlacesAre DEF PropAt
<1>2. ASSUME NEW q \in here PROVE q = <<i, n>>
  <2>1. /\ q = <<q[1], q[2]>>
        /\ q[1] \in DOMAIN schema.vertices /\ q[2] \in DOMAIN schema.vertices[q[1]].props
    BY PlaceIs
  <2>2. schema.vertices[q[1]].label = label /\ schema.vertices[q[1]].props[q[2]] = prop
    BY DEF PropAt
  <2>3. q[1] = i
    BY <2>1, <2>2 DEF WellFormed
  <2>4. q[2] = n
    BY <2>1, <2>2, <2>3 DEF WellFormed
  <2>5. QED
    BY <2>1, <2>3, <2>4
<1>3. here = {<<i, n>>}
  BY <1>1, <1>2
<1>4. {PropNumber(schema, q) : q \in here} = {PropNumber(schema, <<i, n>>)}
  BY <1>3
<1>5. <<i, n>> \in PropPlaces(schema)
  BY <1>1
<1>6. PropNumber(schema, <<i, n>>) \in Int
  BY <1>5, NumberType
<1>7. QED
  BY <1>4, <1>6, OnlyOneIsMax DEF PropId

\* The ids of a type's properties.
Numbers(schema, i) ==
  {PropNumber(schema, <<i, n>>) : n \in DOMAIN schema.vertices[i].props}

LEMMA IdsOf ==
    ASSUME NEW schema, WellFormed(schema), NEW i \in DOMAIN schema.vertices
    PROVE  \A prop : Has(schema.vertices[i], prop) =>
             PropId(schema, schema.vertices[i].label, prop) \in Numbers(schema, i)
BY PropIds DEF Has, Numbers

LEMMA EntityTypesAre ==
    ASSUME NEW schema, WellFormed(schema), NEW i \in DOMAIN schema.vertices
    PROVE  LET t == build_entity_types(schema)[i] IN
           /\ t.path = <<"EntityTypes", i>> /\ t.props = Numbers(schema, i)
           /\ t.names \subseteq Numbers(schema, i)
<1> DEFINE v == schema.vertices[i]
           ids == {PropId(schema, v.label, v.props[n]) : n \in DOMAIN v.props}
           key == PropId(schema, v.label, v.key)
<1>1. build_entity_types(schema)[i] =
        [path |-> <<"EntityTypes", TypeId(schema, v.label)>>, props |-> ids, names |-> {key}]
  BY DEF build_entity_types
<1>2. ids = Numbers(schema, i)
  BY PropIds DEF Numbers
<1>3. Has(v, v.key)
  BY DEF WellFormed
<1>4. key \in Numbers(schema, i)
  BY <1>3, IdsOf
<1>5. TypeId(schema, v.label) = i
  BY TypeIds
<1>6. QED
  BY <1>1, <1>2, <1>4, <1>5

LEMMA BindingsAre ==
    ASSUME NEW schema, WellFormed(schema), NEW i \in DOMAIN schema.vertices
    PROVE  LET b == build_static_bindings(schema)[i] IN
           /\ b.path = <<"DataBindings", i>> /\ {c[2] : c \in b.columns} = Numbers(schema, i)
           /\ \A c, d \in b.columns : c[2] = d[2] => c = d
<1> DEFINE v == schema.vertices[i]
           columns == {<<v.props[n], PropId(schema, v.label, v.props[n])>> : n \in DOMAIN v.props}
           numbers == {<<v.props[n], PropNumber(schema, <<i, n>>)>> : n \in DOMAIN v.props}
<1>1. build_static_bindings(schema)[i] =
        [path |-> <<"DataBindings", TypeId(schema, v.label)>>, columns |-> columns]
  BY DEF build_static_bindings
<1>2. columns = numbers
  <2>1. \A n \in DOMAIN v.props :
          PropId(schema, v.label, v.props[n]) = PropNumber(schema, <<i, n>>)
    BY PropIds
  <2>2. QED
    BY <2>1
<1>3. {c[2] : c \in numbers} = Numbers(schema, i)
  <2>1. ASSUME NEW c \in numbers PROVE c[2] \in Numbers(schema, i)
    <3>1. PICK n \in DOMAIN v.props : c = <<v.props[n], PropNumber(schema, <<i, n>>)>>
      OBVIOUS
    <3>2. c[2] = PropNumber(schema, <<i, n>>)
      BY <3>1
    <3>3. QED
      BY <3>2 DEF Numbers
  <2>2. ASSUME NEW x \in Numbers(schema, i) PROVE \E c \in numbers : x = c[2]
    <3>1. PICK n \in DOMAIN v.props : x = PropNumber(schema, <<i, n>>)
      BY DEF Numbers
    <3>2. <<v.props[n], x>> \in numbers /\ <<v.props[n], x>>[2] = x
      BY <3>1
    <3>3. QED
      BY <3>2
  <2>3. QED
    BY <2>1, <2>2
<1>4. ASSUME NEW c \in numbers, NEW d \in numbers, c[2] = d[2] PROVE c = d
  <2>1. PICK m \in DOMAIN v.props : c = <<v.props[m], PropNumber(schema, <<i, m>>)>>
    OBVIOUS
  <2>2. PICK n \in DOMAIN v.props : d = <<v.props[n], PropNumber(schema, <<i, n>>)>>
    OBVIOUS
  <2>3. <<i, m>> \in PropPlaces(schema) /\ <<i, n>> \in PropPlaces(schema)
    BY PlacesAre
  <2>4. PropNumber(schema, <<i, m>>) = PropNumber(schema, <<i, n>>)
    BY <1>4, <2>1, <2>2
  <2>5. <<i, m>> = <<i, n>>
    BY <2>3, <2>4, NumbersDiffer
  <2>6. QED
    BY <2>1, <2>2, <2>5
<1>5. TypeId(schema, v.label) = i
  BY TypeIds
<1>6. build_static_bindings(schema)[i] = [path |-> <<"DataBindings", i>>, columns |-> numbers]
  BY <1>1, <1>2, <1>5
<1>7. QED
  <2> HIDE DEF numbers
  <2>1. QED
    BY <1>3, <1>4, <1>6

\* Edges of one group have one first edge, which is of the group.
LEMMA GroupsAre ==
    ASSUME NEW schema, WellFormed(schema), NEW e \in DOMAIN schema.edges
    PROVE  /\ Min(Group(schema, e)) \in Group(schema, e) /\ e \in Group(schema, e)
           /\ \A f \in Group(schema, e) :
                /\ f \in DOMAIN schema.edges /\ Group(schema, f) = Group(schema, e)
                /\ schema.edges[f].label = schema.edges[e].label
                /\ schema.edges[f].source = schema.edges[e].source
                /\ schema.edges[f].target = schema.edges[e].target
           /\ Group(schema, e) \in SUBSET Nat /\ IsFiniteSet(Group(schema, e))
<1> DEFINE G == Group(schema, e)
<1>1. PICK m \in Nat : DOMAIN schema.edges = 1..m
  BY SchemaShape
<1>2. e \in G /\ G \in SUBSET (1..m) /\ G \in SUBSET Nat
  BY <1>1 DEF Group
<1>3. PICK first \in G : \A f \in G : first <= f
  BY <1>2, LeastNumber
<1>4. Min(G) = first
  BY <1>2, <1>3, LeastIs
<1>5. IsFiniteSet(1..m)
  BY FS_Interval, m \in Int, 1 \in Int
<1>6. IsFiniteSet(G)
  BY <1>2, <1>5, FS_Subset
<1>7. ASSUME NEW f \in G
      PROVE  /\ f \in DOMAIN schema.edges
             /\ schema.edges[f].label = schema.edges[e].label
             /\ schema.edges[f].source = schema.edges[e].source
             /\ schema.edges[f].target = schema.edges[e].target
             /\ Group(schema, f) = G
  BY DEF Group
<1>8. QED
  BY <1>2, <1>3, <1>4, <1>6, <1>7

\* The parts of a relationship, at the first edge of its group.
LEMMA RelationsAre ==
    ASSUME NEW schema, WellFormed(schema), NEW f \in DOMAIN schema.edges, f = Min(Group(schema, f))
    PROVE  /\ f \in DOMAIN build_relationship_types(schema)
           /\ build_relationship_types(schema)[f].path = <<"RelationshipTypes", f>>
           /\ build_relationship_types(schema)[f].ends =
                <<TypeId(schema, schema.edges[f].source), TypeId(schema, schema.edges[f].target)>>
BY DEF build_relationship_types

LEMMA ContextsAre ==
    ASSUME NEW schema, WellFormed(schema), NEW e \in DOMAIN schema.edges
    PROVE  LET c == build_contextualizations(schema)[e]
               edge == schema.edges[e]
               group == Group(schema, e)
               nth == IF Cardinality(group) = 1 THEN 0 ELSE Cardinality({f \in group : f <= e})
           IN /\ c.path = <<"Contextualizations", Min(group), <<edge.label, edge.target, nth>> >>
              /\ c.keys = <<PropId(schema, edge.source, edge.from),
                            PropId(schema, edge.target, edge.to)>>
BY DEF build_contextualizations

\* An edge joins two types by properties of theirs.
LEMMA EdgesJoin ==
    ASSUME NEW schema, WellFormed(schema), NEW e \in DOMAIN schema.edges
    PROVE  \E i, j \in DOMAIN schema.vertices : LET edge == schema.edges[e] IN
             /\ TypeId(schema, edge.source) = i /\ TypeId(schema, edge.target) = j
             /\ PropId(schema, edge.source, edge.from) \in Numbers(schema, i)
             /\ PropId(schema, edge.target, edge.to) \in Numbers(schema, j)
<1>1. PICK i, j \in DOMAIN schema.vertices :
        /\ schema.vertices[i].label = schema.edges[e].source
        /\ Has(schema.vertices[i], schema.edges[e].from)
        /\ schema.vertices[j].label = schema.edges[e].target
        /\ Has(schema.vertices[j], schema.edges[e].to)
  BY DEF WellFormed
<1>2. TypeId(schema, schema.edges[e].source) = i /\ TypeId(schema, schema.edges[e].target) = j
  BY <1>1, TypeIds
<1>3. PropId(schema, schema.edges[e].source, schema.edges[e].from) \in Numbers(schema, i)
  BY <1>1, IdsOf
<1>4. PropId(schema, schema.edges[e].target, schema.edges[e].to) \in Numbers(schema, j)
  BY <1>1, IdsOf
<1>5. QED
  BY <1>2, <1>3, <1>4

LEMMA SamePath ==
    ASSUME NEW k, NEW a, NEW b, NEW c, NEW x, NEW a1, NEW b1, NEW c1, NEW x1,
           <<k, a, <<b, c, x>> >> = <<k, a1, <<b1, c1, x1>> >>
    PROVE  a = a1 /\ x = x1
OBVIOUS

\* Two edges of a group have two places in it.
LEMMA PathsDiffer ==
    ASSUME NEW schema, WellFormed(schema),
           NEW e \in DOMAIN schema.edges, NEW f \in DOMAIN schema.edges,
           build_contextualizations(schema)[e].path = build_contextualizations(schema)[f].path
    PROVE  e = f
<1> DEFINE G == Group(schema, e)
           upTo(x) == {g \in G : g <= x}
           nth(x) == IF Cardinality(G) = 1 THEN 0 ELSE Cardinality(upTo(x))
           H == Group(schema, f)
           nthf == IF Cardinality(H) = 1 THEN 0 ELSE Cardinality({g \in H : g <= f})
           edge(x) == schema.edges[x]
<1>0. /\ build_contextualizations(schema)[e].path =
            <<"Contextualizations", Min(G), <<edge(e).label, edge(e).target, nth(e)>> >>
      /\ build_contextualizations(schema)[f].path =
            <<"Contextualizations", Min(H), <<edge(f).label, edge(f).target, nthf>> >>
  <2> DEFINE Is(x) == LET c == build_contextualizations(schema)[x]
                          group == Group(schema, x)
                          n == IF Cardinality(group) = 1 THEN 0
                               ELSE Cardinality({g \in group : g <= x})
                      IN c.path = <<"Contextualizations", Min(group),
                                    <<edge(x).label, edge(x).target, n>> >>
  <2>1. \A x \in DOMAIN schema.edges : Is(x)
    BY ContextsAre
  <2>2. QED
    BY <2>1
<1>1. Min(G) = Min(H) /\ nth(e) = nthf
  <2> HIDE DEF G, H, nth, nthf, edge
  <2>1. <<"Contextualizations", Min(G), <<edge(e).label, edge(e).target, nth(e)>> >> =
          <<"Contextualizations", Min(H), <<edge(f).label, edge(f).target, nthf>> >>
    BY <1>0
  <2>2. QED
    BY <2>1, SamePath
<1>2. Group(schema, f) = G
  <2>1. PICK first : first = Min(G)
    OBVIOUS
  <2>2. first \in G /\ first \in Group(schema, f)
    BY <1>1, <2>1, GroupsAre
  <2>3. QED
    BY <2>2, GroupsAre
<1>3. e \in G /\ f \in G /\ G \in SUBSET Nat /\ IsFiniteSet(G)
  BY <1>2, GroupsAre
<1>4. nth(e) = nth(f)
  BY <1>1, <1>2
<1>5. CASE Cardinality(G) = 1
  <2>1. PICK x : G = {x}
    BY <1>3, <1>5, FS_Singleton
  <2>2. QED
    BY <1>3, <2>1
<1>6. CASE Cardinality(G) # 1
  <2>1. Cardinality(upTo(e)) = Cardinality(upTo(f))
    BY <1>4, <1>6
  <2>2. upTo(e) \in SUBSET G /\ upTo(f) \in SUBSET G
    OBVIOUS
  <2>3. IsFiniteSet(upTo(e)) /\ IsFiniteSet(upTo(f))
    BY <1>3, <2>2, FS_Subset
  <2>4. CASE e <= f
    <3>1. upTo(e) \in SUBSET upTo(f)
      BY <1>3, <2>4
    <3>2. upTo(e) = upTo(f)
      BY <2>1, <2>3, <3>1, FS_Subset
    <3>3. f \in upTo(f)
      BY <1>3
    <3>4. f <= e
      BY <3>2, <3>3
    <3>5. QED
      BY <1>3, <2>4, <3>4
  <2>5. CASE f <= e
    <3>1. upTo(f) \in SUBSET upTo(e)
      BY <1>3, <2>5
    <3>2. upTo(e) = upTo(f)
      BY <2>1, <2>3, <3>1, FS_Subset
    <3>3. e \in upTo(e)
      BY <1>3
    <3>4. e <= f
      BY <3>2, <3>3
    <3>5. QED
      BY <1>3, <2>5, <3>4
  <2>6. QED
    BY <1>3, <2>4, <2>5
<1>7. QED
  BY <1>5, <1>6

\* The parts of the definition, one by one.
LEMMA PartsAre ==
    ASSUME NEW schema
    PROVE  LET D == DefinitionParts(schema) IN
           /\ \A i \in DOMAIN schema.vertices :
                /\ <<"EntityTypes", i>> \in DOMAIN D
                /\ D[<<"EntityTypes", i>>] = build_entity_types(schema)[i]
                /\ <<"DataBindings", i>> \in DOMAIN D
                /\ D[<<"DataBindings", i>>] = build_static_bindings(schema)[i]
           /\ \A f \in DOMAIN build_relationship_types(schema) :
                /\ <<"RelationshipTypes", f>> \in DOMAIN D
                /\ D[<<"RelationshipTypes", f>>] = build_relationship_types(schema)[f]
           /\ \A p \in DOMAIN D : \E i :
                \/ p = <<"EntityTypes", i>> /\ i \in DOMAIN schema.vertices
                \/ p = <<"DataBindings", i>> /\ i \in DOMAIN schema.vertices
                \/ p = <<"RelationshipTypes", i>> /\ i \in DOMAIN build_relationship_types(schema)
                \/ /\ p = <<"Contextualizations", i>> /\ i \in DOMAIN schema.edges
                   /\ D[p] = build_contextualizations(schema)[i]
<1> DEFINE parts == [EntityTypes |-> build_entity_types(schema),
                     DataBindings |-> build_static_bindings(schema),
                     RelationshipTypes |-> build_relationship_types(schema),
                     Contextualizations |-> build_contextualizations(schema)]
           places == UNION {{kind} \X DOMAIN parts[kind] : kind \in DOMAIN parts}
           D == DefinitionParts(schema)
<1>1. D = [p \in places |-> parts[p[1]][p[2]]]
  BY DEF DefinitionParts
<1>2. /\ DOMAIN parts = {"EntityTypes", "DataBindings", "RelationshipTypes", "Contextualizations"}
      /\ parts["EntityTypes"] = build_entity_types(schema)
      /\ parts["DataBindings"] = build_static_bindings(schema)
      /\ parts["RelationshipTypes"] = build_relationship_types(schema)
      /\ parts["Contextualizations"] = build_contextualizations(schema)
  OBVIOUS
<1>3. /\ DOMAIN build_entity_types(schema) = DOMAIN schema.vertices
      /\ DOMAIN build_static_bindings(schema) = DOMAIN schema.vertices
      /\ DOMAIN build_contextualizations(schema) = DOMAIN schema.edges
  BY DEF build_entity_types, build_static_bindings, build_contextualizations
<1> HIDE DEF parts, D
<1>4. \A kind \in DOMAIN parts : \A i \in DOMAIN parts[kind] :
        <<kind, i>> \in DOMAIN D /\ D[<<kind, i>>] = parts[kind][i]
  BY <1>1
<1>5. \A p \in DOMAIN D : \E kind \in DOMAIN parts : \E i \in DOMAIN parts[kind] : p = <<kind, i>>
  BY <1>1
<1>6. /\ \A i \in DOMAIN schema.vertices :
           /\ <<"EntityTypes", i>> \in DOMAIN D
           /\ D[<<"EntityTypes", i>>] = build_entity_types(schema)[i]
           /\ <<"DataBindings", i>> \in DOMAIN D
           /\ D[<<"DataBindings", i>>] = build_static_bindings(schema)[i]
      /\ \A f \in DOMAIN build_relationship_types(schema) :
           /\ <<"RelationshipTypes", f>> \in DOMAIN D
           /\ D[<<"RelationshipTypes", f>>] = build_relationship_types(schema)[f]
  BY <1>2, <1>3, <1>4
<1>7. ASSUME NEW p \in DOMAIN D
      PROVE  \E i :
               \/ p = <<"EntityTypes", i>> /\ i \in DOMAIN schema.vertices
               \/ p = <<"DataBindings", i>> /\ i \in DOMAIN schema.vertices
               \/ p = <<"RelationshipTypes", i>> /\ i \in DOMAIN build_relationship_types(schema)
               \/ /\ p = <<"Contextualizations", i>> /\ i \in DOMAIN schema.edges
                  /\ D[p] = build_contextualizations(schema)[i]
  <2>0. PICK kind \in DOMAIN parts : \E i \in DOMAIN parts[kind] : p = <<kind, i>>
    BY <1>5
  <2>1. PICK i \in DOMAIN parts[kind] : p = <<kind, i>>
    BY <2>0
  <2>2. CASE kind = "EntityTypes"
    BY <1>2, <1>3, <2>1, <2>2
  <2>3. CASE kind = "DataBindings"
    BY <1>2, <1>3, <2>1, <2>3
  <2>4. CASE kind = "RelationshipTypes"
    BY <1>2, <1>3, <2>1, <2>4
  <2>5. CASE kind = "Contextualizations"
    <3>1. D[p] = parts[kind][i]
      BY <1>4, <2>1
    <3>2. QED
      BY <1>2, <1>3, <2>1, <2>5, <3>1
  <2>6. QED
    BY <1>2, <2>2, <2>3, <2>4, <2>5
<1>8. QED
  BY <1>6, <1>7 DEF D

\* What every part of a kind is.
LEMMA PartIs ==
    ASSUME NEW schema, WellFormed(schema), NEW p \in DOMAIN DefinitionParts(schema)
    PROVE  LET part == DefinitionParts(schema)[p] IN \E i :
           \/ /\ p = <<"EntityTypes", i>> /\ i \in DOMAIN schema.vertices
              /\ part.path = <<"EntityTypes", i>> /\ part.path[1] = "EntityTypes"
              /\ part.props = Numbers(schema, i) /\ part.names \subseteq Numbers(schema, i)
           \/ /\ p = <<"DataBindings", i>> /\ i \in DOMAIN schema.vertices
              /\ part.path = <<"DataBindings", i>> /\ part.path[1] = "DataBindings"
              /\ {c[2] : c \in part.columns} = Numbers(schema, i)
              /\ \A c, d \in part.columns : c[2] = d[2] => c = d
           \/ /\ p = <<"RelationshipTypes", i>> /\ i \in DOMAIN schema.edges
              /\ part.path = <<"RelationshipTypes", i>> /\ part.path[1] = "RelationshipTypes"
           \/ /\ p = <<"Contextualizations", i>> /\ i \in DOMAIN schema.edges
              /\ part.path[1] = "Contextualizations"
              /\ part = build_contextualizations(schema)[i]
<1> DEFINE D == DefinitionParts(schema)
<1>1. PICK i :
        \/ p = <<"EntityTypes", i>> /\ i \in DOMAIN schema.vertices
        \/ p = <<"DataBindings", i>> /\ i \in DOMAIN schema.vertices
        \/ p = <<"RelationshipTypes", i>> /\ i \in DOMAIN build_relationship_types(schema)
        \/ /\ p = <<"Contextualizations", i>> /\ i \in DOMAIN schema.edges
           /\ D[p] = build_contextualizations(schema)[i]
  BY PartsAre
<1>2. CASE p = <<"EntityTypes", i>> /\ i \in DOMAIN schema.vertices
  <2>1. D[p] = build_entity_types(schema)[i]
    BY <1>2, PartsAre
  <2>2. /\ build_entity_types(schema)[i].path = <<"EntityTypes", i>>
        /\ build_entity_types(schema)[i].props = Numbers(schema, i)
        /\ build_entity_types(schema)[i].names \subseteq Numbers(schema, i)
    BY <1>2, EntityTypesAre
  <2>3. D[p].path[1] = "EntityTypes"
    BY <2>1, <2>2
  <2>4. QED
    BY <1>2, <2>1, <2>2, <2>3
<1>3. CASE p = <<"DataBindings", i>> /\ i \in DOMAIN schema.vertices
  <2>1. D[p] = build_static_bindings(schema)[i]
    BY <1>3, PartsAre
  <2>2. /\ build_static_bindings(schema)[i].path = <<"DataBindings", i>>
        /\ {c[2] : c \in build_static_bindings(schema)[i].columns} = Numbers(schema, i)
        /\ \A c, d \in build_static_bindings(schema)[i].columns : c[2] = d[2] => c = d
    BY <1>3, BindingsAre
  <2>3. D[p].path[1] = "DataBindings"
    BY <2>1, <2>2
  <2>4. QED
    BY <1>3, <2>1, <2>2, <2>3
<1>4. CASE p = <<"RelationshipTypes", i>> /\ i \in DOMAIN build_relationship_types(schema)
  <2>1. D[p] = build_relationship_types(schema)[i]
    BY <1>4, PartsAre
  <2>2. i \in DOMAIN schema.edges /\ i = Min(Group(schema, i))
    BY <1>4 DEF build_relationship_types
  <2>3. build_relationship_types(schema)[i].path = <<"RelationshipTypes", i>>
    BY <2>2, RelationsAre
  <2>4. D[p].path[1] = "RelationshipTypes"
    BY <2>1, <2>3
  <2>5. QED
    BY <1>4, <2>1, <2>2, <2>3, <2>4
<1>5. CASE /\ p = <<"Contextualizations", i>> /\ i \in DOMAIN schema.edges
           /\ D[p] = build_contextualizations(schema)[i]
  <2>1. build_contextualizations(schema)[i].path[1] = "Contextualizations"
    BY <1>5 DEF build_contextualizations
  <2>2. QED
    BY <1>5, <2>1
<1>6. QED
  BY <1>1, <1>2, <1>3, <1>4, <1>5

\* What OntologyBuilder makes of a schema hangs together.
LEMMA SchemaResolves == ASSUME NEW schema, WellFormed(schema) PROVE Resolves(schema)
<1> DEFINE D == DefinitionParts(schema)
           P(kind) == {D[p] : p \in {q \in DOMAIN D : D[q].path[1] = kind}}
           props(id) == UNION {t.props : t \in {u \in P("EntityTypes") : u.path[2] = id}}
<1>1. ASSUME NEW p \in DOMAIN D, NEW q \in DOMAIN D, D[p].path = D[q].path PROVE p = q
  <2>1. D[p].path[1] = D[q].path[1]
    BY <1>1
  <2>2. CASE D[p].path[1] = "Contextualizations"
    <3>1. PICK e \in DOMAIN schema.edges :
            p = <<"Contextualizations", e>> /\ D[p] = build_contextualizations(schema)[e]
      BY <2>2, PartIs
    <3>2. D[q].path[1] = "Contextualizations"
      BY <2>1, <2>2
    <3>3. PICK f \in DOMAIN schema.edges :
            q = <<"Contextualizations", f>> /\ D[q] = build_contextualizations(schema)[f]
      BY <3>2, PartIs
    <3>4. QED
      BY <1>1, <3>1, <3>3, PathsDiffer
  <2>3. CASE D[p].path[1] # "Contextualizations"
    <3>1. p = D[p].path
      BY <2>3, PartIs
    <3>2. q = D[q].path
      BY <2>1, <2>3, PartIs
    <3>3. QED
      BY <1>1, <3>1, <3>2
  <2>4. QED
    BY <2>2, <2>3
<1>2. ASSUME NEW t \in P("EntityTypes")
      PROVE  \E i \in DOMAIN schema.vertices :
               /\ D[<<"EntityTypes", i>>] = t /\ t.path[2] = i
               /\ t.props = Numbers(schema, i) /\ t.names \subseteq Numbers(schema, i)
  <2>1. PICK p \in DOMAIN D : t = D[p] /\ D[p].path[1] = "EntityTypes"
    OBVIOUS
  <2>2. PICK i : /\ p = <<"EntityTypes", i>> /\ i \in DOMAIN schema.vertices
                 /\ t.path = <<"EntityTypes", i>>
                 /\ t.props = Numbers(schema, i) /\ t.names \subseteq Numbers(schema, i)
    BY <2>1, PartIs
  <2>3. QED
    BY <2>1, <2>2
<1>3. ASSUME NEW i \in DOMAIN schema.vertices
      PROVE  \E t \in P("EntityTypes") :
               t = D[<<"EntityTypes", i>>] /\ t.path[2] = i /\ t.props = Numbers(schema, i)
  <2>1. <<"EntityTypes", i>> \in DOMAIN D
        /\ D[<<"EntityTypes", i>>] = build_entity_types(schema)[i]
    BY PartsAre
  <2>2. build_entity_types(schema)[i].path = <<"EntityTypes", i>>
        /\ build_entity_types(schema)[i].props = Numbers(schema, i)
    BY EntityTypesAre
  <2>3. D[<<"EntityTypes", i>>].path[1] = "EntityTypes"
    BY <2>1, <2>2
  <2>4. QED
    BY <2>1, <2>2, <2>3
<1>4. ASSUME NEW i \in DOMAIN schema.vertices PROVE props(i) = Numbers(schema, i)
  <2>1. PICK t \in P("EntityTypes") :
          t = D[<<"EntityTypes", i>>] /\ t.path[2] = i /\ t.props = Numbers(schema, i)
    BY <1>3
  <2>2. ASSUME NEW u \in P("EntityTypes"), u.path[2] = i PROVE u = t
    <3>1. D[<<"EntityTypes", i>>] = u
      BY <1>2, <2>2
    <3>2. QED
      BY <2>1, <3>1
  <2> HIDE DEF P
  <2>3. {u \in P("EntityTypes") : u.path[2] = i} = {t}
    BY <2>1, <2>2
  <2>4. QED
    BY <2>1, <2>3
<1>5. ASSUME NEW t \in P("EntityTypes"), NEW u \in P("EntityTypes"), t # u
      PROVE  t.props \cap u.props = {}
  <2>1. PICK i \in DOMAIN schema.vertices :
          D[<<"EntityTypes", i>>] = t /\ t.props = Numbers(schema, i)
    BY <1>2
  <2>2. PICK j \in DOMAIN schema.vertices :
          D[<<"EntityTypes", j>>] = u /\ u.props = Numbers(schema, j)
    BY <1>2
  <2>3. i # j
    BY <1>5, <2>1, <2>2
  <2>4. ASSUME NEW x \in Numbers(schema, i), x \in Numbers(schema, j) PROVE FALSE
    <3>1. PICK m \in DOMAIN schema.vertices[i].props : x = PropNumber(schema, <<i, m>>)
      BY DEF Numbers
    <3>2. PICK n \in DOMAIN schema.vertices[j].props : x = PropNumber(schema, <<j, n>>)
      BY <2>4 DEF Numbers
    <3>3. <<i, m>> \in PropPlaces(schema) /\ <<j, n>> \in PropPlaces(schema)
      BY PlacesAre
    <3>4. <<i, m>> = <<j, n>>
      BY <3>1, <3>2, <3>3, NumbersDiffer
    <3>5. QED
      BY <2>3, <3>4
  <2>5. QED
    BY <2>1, <2>2, <2>4
<1>6. ASSUME NEW t \in P("EntityTypes") PROVE t.names \subseteq t.props
  BY <1>2
<1>7. ASSUME NEW b \in P("DataBindings")
      PROVE  /\ {c[2] : c \in b.columns} = props(b.path[2])
             /\ \A c, d \in b.columns : c[2] = d[2] => c = d
  <2>1. PICK p \in DOMAIN D : b = D[p] /\ D[p].path[1] = "DataBindings"
    OBVIOUS
  <2>2. PICK i \in DOMAIN schema.vertices :
          /\ b.path = <<"DataBindings", i>> /\ {c[2] : c \in b.columns} = Numbers(schema, i)
          /\ \A c, d \in b.columns : c[2] = d[2] => c = d
    BY <2>1, PartIs
  <2>3. b.path[2] = i /\ props(i) = Numbers(schema, i)
    BY <1>4, <2>2
  <2> HIDE DEF props
  <2>4. QED
    BY <2>2, <2>3
<1>8. ASSUME NEW c \in P("Contextualizations")
      PROVE  \E r \in P("RelationshipTypes") :
               /\ r.path[2] = c.path[2]
               /\ c.keys[1] \in props(r.ends[1]) /\ c.keys[2] \in props(r.ends[2])
  <2>1. PICK p \in DOMAIN D : c = D[p] /\ D[p].path[1] = "Contextualizations"
    OBVIOUS
  <2>2. PICK e \in DOMAIN schema.edges : c = build_contextualizations(schema)[e]
    BY <2>1, PartIs
  <2>3. PICK first : first = Min(Group(schema, e))
    OBVIOUS
  <2>4. /\ first \in DOMAIN schema.edges /\ Group(schema, first) = Group(schema, e)
        /\ schema.edges[first].source = schema.edges[e].source
        /\ schema.edges[first].target = schema.edges[e].target
    BY <2>3, GroupsAre
  <2>5. PICK i, j \in DOMAIN schema.vertices :
          /\ TypeId(schema, schema.edges[e].source) = i /\ TypeId(schema, schema.edges[e].target) = j
          /\ PropId(schema, schema.edges[e].source, schema.edges[e].from) \in Numbers(schema, i)
          /\ PropId(schema, schema.edges[e].target, schema.edges[e].to) \in Numbers(schema, j)
    BY EdgesJoin
  <2>6. PICK r : r = build_relationship_types(schema)[first]
    OBVIOUS
  <2>7. /\ first \in DOMAIN build_relationship_types(schema)
        /\ r.path = <<"RelationshipTypes", first>> /\ r.ends = <<i, j>>
    BY <2>3, <2>4, <2>5, <2>6, RelationsAre
  <2>8. r \in P("RelationshipTypes")
    <3>1. /\ <<"RelationshipTypes", first>> \in DOMAIN D
          /\ D[<<"RelationshipTypes", first>>] = r
      BY <2>6, <2>7, PartsAre
    <3>2. r.path[1] = "RelationshipTypes"
      BY <2>7
    <3>3. QED
      BY <3>1, <3>2
  <2>9. /\ c.path[2] = first
        /\ c.keys = <<PropId(schema, schema.edges[e].source, schema.edges[e].from),
                      PropId(schema, schema.edges[e].target, schema.edges[e].to)>>
    BY <2>2, <2>3 DEF build_contextualizations
  <2>10. props(r.ends[1]) = Numbers(schema, i) /\ props(r.ends[2]) = Numbers(schema, j)
    BY <1>4, <2>7
  <2> HIDE DEF P, props
  <2>11. r.path[2] = c.path[2] /\ c.keys[1] \in props(r.ends[1]) /\ c.keys[2] \in props(r.ends[2])
    BY <2>5, <2>7, <2>9, <2>10
  <2>12. QED
    BY <2>8, <2>11
<1>9. QED
  BY <1>1, <1>5, <1>6, <1>7, <1>8 DEF Resolves

LEMMA NothingIsWellFormed == WellFormed(NoSchema)
<1>1. /\ NoSchema.vertices = <<>> /\ NoSchema.edges = <<>>
      /\ DOMAIN NoSchema.vertices = {} /\ DOMAIN NoSchema.edges = {}
  BY DEF NoSchema
<1>2. /\ NoSchema.vertices \in Seq(SchemaVertices) /\ NoSchema.edges \in Seq(SchemaEdges)
  BY <1>1, EmptySeq
<1>3. NoSchema \in [vertices : Seq(SchemaVertices), edges : Seq(SchemaEdges)]
  BY <1>1, <1>2 DEF NoSchema
<1>4. QED
  BY <1>1, <1>3 DEF WellFormed, SchemaVertices, SchemaEdges

\* Whenever create_ontology sends a definition, it is one that OntologyBuilder's ids hold
\* together: parts do not overwrite each other, properties, columns and relationships
\* refer to what they mean, for every schema it takes.
THEOREM DefinitionAlwaysResolves == Spec => []DefinitionResolves
<1>1. Init => FabricInv
  BY DeployInit
<1>2. FabricInv /\ [Next]_vars => FabricInv'
  BY DeployNext
<1>3. ASSUME FabricInv PROVE DefinitionResolves
  <2>1. run.schema \in Schemas \cup {NoSchema}
    BY <1>3, TypeIs DEF FabricInv, Runs
  <2>2. WellFormed(run.schema)
    BY <2>1, NothingIsWellFormed, FabricAssumption
  <2>3. QED
    BY <2>2, SchemaResolves DEF DefinitionResolves
<1>4. QED
  BY <1>1, <1>2, <1>3, PTL DEF Spec

-----------------------------------------------------------------------------
(* Provisioning: what PROVISION_DONE and SEED_DONE stand for *)

IndexSteps == {"preflight", "clean", "upload", "source", "index", "skillset", "indexer", "poll"}
ProvSteps == {"idle", "wipe", "vertices", "edges", "telemetry"} \cup IndexSteps
Rows == Vertices \cup Edges \cup Docs \cup Indexes
Provs == [step : ProvSteps, surfaces : SUBSET Surfaces, wipe : BOOLEAN, failed : BOOLEAN,
          generic : BOOLEAN, upload : BOOLEAN, todo : SUBSET Rows]
Reports == [surfaces : SUBSET Surfaces, wipe : BOOLEAN, generic : BOOLEAN]
Searches == [docs : {"none", "empty", "full"}, has : SUBSET Objects]

\* The seeder has files to read; a graph that was wiped has nothing but what it read.
Reads(generic) == pack = "telecom" \/ generic
NothingElse ==
  /\ \A v \in Vertices : graph[v] \in IF v \in Current THEN {"absent", "current"} ELSE {"absent"}
  /\ edges \subseteq CurrentEdges
GraphIs(wipe, generic) ==
  Reads(generic) => (GraphSeeded /\ (wipe => NothingElse))
TelemetryIs(generic) == Reads(generic) => TelemetrySeeded

\* What a run has seeded when its seeder returned.
SeederDone ==
  /\ "graph" \in prov.surfaces => GraphIs(prov.wipe, prov.generic)
  /\ "telemetry" \in prov.surfaces => TelemetryIs(prov.generic)
ReportOK ==
  /\ "graph" \in report.surfaces => GraphIs(report.wipe, report.generic)
  /\ "telemetry" \in report.surfaces => TelemetryIs(report.generic)

\* What it has seeded half way.
VerticesOK ==
  prov.step = "vertices" =>
    /\ prov.todo \subseteq Current
    /\ Reads(prov.generic) => \A v \in Current \ prov.todo : graph[v] # "absent"
    /\ prov.wipe => NothingElse /\ edges = {}
EdgesOK ==
  prov.step = "edges" =>
    /\ prov.todo \subseteq CurrentEdges
    /\ Reads(prov.generic) => /\ \A v \in Current : graph[v] # "absent"
                              /\ CurrentEdges \ prov.todo \subseteq edges
    /\ prov.wipe => NothingElse
TelemetryOK ==
  prov.step = "telemetry" =>
    /\ prov.todo \subseteq CurrentDocs
    /\ "graph" \in prov.surfaces => GraphIs(prov.wipe, prov.generic)
    /\ Reads(prov.generic) => \A d \in CurrentDocs \ prov.todo : docs[d] = "current"
IndexesOK ==
  prov.step \in IndexSteps =>
    /\ prov.todo \subseteq Indexes
    /\ ~prov.failed => SeederDone

ProvInv ==
  /\ ProvisionTypeOK
  /\ VerticesOK /\ EdgesOK /\ TelemetryOK /\ IndexesOK
  /\ prov.step \in {"wipe", "vertices", "edges"} => "graph" \in prov.surfaces
  /\ prov.step # "idle" => report = NoReport
  /\ ReportOK

LEMMA ProvTypeIs ==
  ProvisionTypeOK <=>
    /\ pack \in {"telecom", "other"} /\ prov \in Provs /\ mishaps \in 0..MaxMishaps
    /\ graph \in [Vertices -> Versions] /\ edges \subseteq Edges
    /\ docs \in [Docs -> Versions] /\ blobs \subseteq Indexes
    /\ search \in [Indexes -> Searches] /\ report \in Reports
BY DEF ProvisionTypeOK, Provs, ProvSteps, IndexSteps, Rows, Searches, Reports

LEMMA ProvTypeNext ==
  ProvisionTypeOK' <=>
    /\ pack' \in {"telecom", "other"} /\ prov' \in Provs /\ mishaps' \in 0..MaxMishaps
    /\ graph' \in [Vertices -> Versions] /\ edges' \subseteq Edges
    /\ docs' \in [Docs -> Versions] /\ blobs' \subseteq Indexes
    /\ search' \in [Indexes -> Searches] /\ report' \in Reports
BY DEF ProvisionTypeOK, Provs, ProvSteps, IndexSteps, Rows, Searches, Reports

LEMMA RestIsTyped == AtRest \in Provs /\ NoReport \in Reports
BY DEF AtRest, NoReport, Provs, ProvSteps, Reports

LEMMA RowsAre ==
  ASSUME NEW generic, NEW wanted
  PROVE  GraphRows(wanted, generic) = IF Reads(generic) THEN wanted ELSE {}
BY DEF GraphRows, Reads

LEMMA DocsAre ==
  ASSUME NEW generic
  PROVE  TelemetryRows(generic) = IF Reads(generic) THEN CurrentDocs ELSE {}
BY DEF TelemetryRows, Reads

LEMMA CurrentRows ==
  /\ CurrentEdges \subseteq Edges
  /\ Current \subseteq Rows /\ CurrentEdges \subseteq Rows /\ CurrentDocs \subseteq Rows
  /\ Indexes \subseteq Rows
BY ProvisionAssumption DEF CurrentEdges, Rows

\* What the report says stays true while nothing it speaks of changes.
LEMMA GraphStays ==
  ASSUME UNCHANGED <<pack, graph, edges>>, NEW wipe, NEW generic
  PROVE  /\ NothingElse' <=> NothingElse
         /\ Reads(generic)' <=> Reads(generic)
         /\ GraphSeeded' <=> GraphSeeded
BY DEF NothingElse, Reads, GraphSeeded

LEMMA SeedStays ==
  ASSUME UNCHANGED <<pack, graph, edges, docs, prov>>
  PROVE  SeederDone' <=> SeederDone
BY DEF SeederDone, GraphIs, TelemetryIs, NothingElse, Reads, GraphSeeded, TelemetrySeeded

LEMMA MishapsTyped == ASSUME ProvisionTypeOK, Mishap \/ Fine PROVE mishaps' \in 0..MaxMishaps
BY ProvTypeIs, ProvisionAssumption DEF Mishap, Fine

\* A run that goes on to its next step keeps what it was asked to do.
LEMMA Goes ==
  ASSUME ProvisionTypeOK, NEW step \in ProvSteps, NEW rest \in SUBSET Rows, GoOn(step, rest)
  PROVE  /\ prov' \in Provs /\ prov'.step = step /\ prov'.todo = rest
         /\ prov'.surfaces = prov.surfaces /\ prov'.wipe = prov.wipe
         /\ prov'.generic = prov.generic /\ prov'.failed = prov.failed
         /\ report' = report
<1>1. prov \in Provs
  BY ProvTypeIs
<1>2. prov' = [prov EXCEPT !.step = step, !.todo = rest]
  BY DEF GoOn
<1>3. QED
  BY <1>1, <1>2 DEF Provs, GoOn

\* The verdict is that of the seeder and the index together.
LEMMA FinishInv ==
  ASSUME ProvInv, NEW failed \in BOOLEAN, Finish(failed), ~failed => SeederDone,
         UNCHANGED <<pack, stores>>, Mishap \/ Fine
  PROVE  ProvInv'
<1>1. /\ prov' = AtRest /\ AtRest.step = "idle"
      /\ mishaps' \in 0..MaxMishaps
  BY MishapsTyped DEF Finish, AtRest, ProvInv
<1>2. /\ prov \in Provs
      /\ [surfaces |-> prov.surfaces, wipe |-> prov.wipe, generic |-> prov.generic] \in Reports
  BY ProvTypeIs DEF ProvInv, Provs, Reports
<1>3. report' \in Reports
  BY <1>2, RestIsTyped DEF Finish
<1>4. ProvisionTypeOK'
  BY <1>1, <1>3, ProvTypeIs, ProvTypeNext, RestIsTyped DEF ProvInv, stores
<1>5. ReportOK'
  <2>1. CASE failed
    BY <2>1 DEF Finish, NoReport, ReportOK
  <2>2. CASE ~failed
    <3>1. /\ report'.surfaces = prov.surfaces /\ report'.wipe = prov.wipe
          /\ report'.generic = prov.generic
      BY <2>2 DEF Finish
    <3>2. QED
      BY <2>2, <3>1 DEF ReportOK, SeederDone, GraphIs, TelemetryIs, NothingElse, Reads, GraphSeeded,
                        TelemetrySeeded, stores
  <2>3. QED
    BY <2>1, <2>2
<1>6. QED
  BY <1>1, <1>4, <1>5 DEF ProvInv, VerticesOK, EdgesOK, TelemetryOK, IndexesOK, IndexSteps

LEMMA KnowledgeBaseInv ==
  ASSUME ProvInv, prov.step # "idle", NEW failed \in BOOLEAN, KnowledgeBase(failed), ~failed => SeederDone,
         UNCHANGED <<pack, stores>>, Mishap \/ Fine
  PROVE  ProvInv'
<1>1. CASE "kb" \notin prov.surfaces
  <2>1. Finish(failed)
    BY <1>1 DEF KnowledgeBase
  <2>2. QED
    BY <2>1, FinishInv
<1>2. CASE "kb" \in prov.surfaces
  <2>1. prov' = [prov EXCEPT !.step = "preflight", !.failed = failed, !.todo = {}] /\ report' = report
    BY <1>2 DEF KnowledgeBase
  <2>2. prov \in Provs /\ report = NoReport /\ mishaps' \in 0..MaxMishaps
    BY ProvTypeIs, MishapsTyped DEF ProvInv
  <2>3. /\ prov' \in Provs /\ prov'.step = "preflight" /\ prov'.todo = {} /\ prov'.failed = failed
        /\ prov'.surfaces = prov.surfaces /\ prov'.wipe = prov.wipe /\ prov'.generic = prov.generic
    BY <2>1, <2>2 DEF Provs, ProvSteps, IndexSteps
  <2>4. ProvisionTypeOK'
    BY <2>1, <2>2, <2>3, ProvTypeIs, ProvTypeNext DEF ProvInv, stores
  <2>5. ~failed => SeederDone'
    BY <2>3 DEF SeederDone, GraphIs, TelemetryIs, NothingElse, Reads, GraphSeeded, TelemetrySeeded, stores
  <2>6. ReportOK'
    BY <2>1, <2>2 DEF ReportOK, NoReport
  <2>7. QED
    BY <2>1, <2>2, <2>3, <2>4, <2>5, <2>6
       DEF ProvInv, VerticesOK, EdgesOK, TelemetryOK, IndexesOK, IndexSteps
<1>3. QED
  BY <1>1, <1>2

LEMMA ProvisionInitInv == ASSUME ProvisionInit PROVE ProvInv
<1>1. ProvisionTypeOK
  <2>1. \A s \in Versions : /\ [v \in Vertices |-> s] \in [Vertices -> Versions]
                           /\ [d \in Docs |-> s] \in [Docs -> Versions]
    OBVIOUS
  <2>2. \A r \in Searches : [i \in Indexes |-> r] \in [Indexes -> Searches]
    OBVIOUS
  <2>3. [docs |-> "none", has |-> {}] \in Searches /\ [docs |-> "full", has |-> Objects] \in Searches
    BY DEF Searches
  <2>4. graph \in [Vertices -> Versions] /\ docs \in [Docs -> Versions]
    BY <2>1 DEF ProvisionInit, Versions
  <2>5. search \in [Indexes -> Searches] /\ blobs \subseteq Indexes
    BY <2>2, <2>3 DEF ProvisionInit
  <2>6. /\ pack \in {"telecom", "other"} /\ prov \in Provs /\ report \in Reports
        /\ mishaps \in 0..MaxMishaps /\ edges \subseteq Edges
    BY RestIsTyped, ProvisionAssumption DEF ProvisionInit
  <2>7. QED
    BY <2>4, <2>5, <2>6, ProvTypeIs
<1>2. prov.step = "idle" /\ report.surfaces = {}
  BY DEF ProvisionInit, AtRest, NoReport
<1>3. QED
  BY <1>1, <1>2 DEF ProvInv, VerticesOK, EdgesOK, TelemetryOK, IndexesOK, IndexSteps, ReportOK

LEMMA BeginInv ==
  ASSUME ProvInv, NEW surfaces \in SUBSET Surfaces, NEW wipe \in BOOLEAN, NEW generic \in BOOLEAN,
         NEW upload \in BOOLEAN, Begin(surfaces, wipe, generic, upload), Mishap \/ Fine,
         UNCHANGED pack
  PROVE  ProvInv'
<1> DEFINE first == IF "graph" \in surfaces THEN IF wipe THEN "wipe" ELSE "vertices"
                    ELSE IF "telemetry" \in surfaces THEN "telemetry" ELSE "preflight"
           wanted == IF "graph" \in surfaces THEN IF wipe THEN {} ELSE GraphRows(Current, generic)
                   ELSE IF "telemetry" \in surfaces THEN TelemetryRows(generic) ELSE {}
<1>1. prov' = [AtRest EXCEPT !.surfaces = surfaces, !.wipe = wipe, !.generic = generic,
                             !.upload = upload /\ "kb" \in surfaces, !.step = first, !.todo = wanted]
  BY DEF Begin
<1>2. first \in ProvSteps /\ wanted \in SUBSET Rows
  BY RowsAre, DocsAre, CurrentRows DEF ProvSteps, IndexSteps
<1>3. /\ prov'.step = first /\ prov'.todo = wanted /\ prov'.surfaces = surfaces /\ prov'.wipe = wipe
      /\ prov'.generic = generic
  BY <1>1 DEF AtRest
<1>4. prov' \in Provs
  BY <1>1, <1>2, RestIsTyped DEF Provs
<1>5. report' = NoReport /\ UNCHANGED stores
  BY DEF Begin
<1>6. ProvisionTypeOK'
  BY <1>4, <1>5, MishapsTyped, RestIsTyped, ProvTypeIs, ProvTypeNext DEF ProvInv, stores
<1>7. VerticesOK'
  <2>1. SUFFICES ASSUME first = "vertices" PROVE VerticesOK'
    BY <1>3 DEF VerticesOK
  <2>2. ~wipe /\ wanted = GraphRows(Current, generic)
    BY <2>1
  <2>3. wanted \subseteq Current /\ (Reads(generic)' => Current \ wanted = {})
    BY <2>2, RowsAre DEF Reads
  <2>4. QED
    BY <1>3, <2>2, <2>3 DEF VerticesOK, Reads
<1>8. EdgesOK'
  BY <1>3 DEF EdgesOK
<1>9. TelemetryOK'
  <2>1. SUFFICES ASSUME first = "telemetry" PROVE TelemetryOK'
    BY <1>3 DEF TelemetryOK
  <2>2. "graph" \notin surfaces /\ wanted = TelemetryRows(generic)
    BY <2>1
  <2>3. wanted \subseteq CurrentDocs /\ (Reads(generic)' => CurrentDocs \ wanted = {})
    BY <2>2, DocsAre DEF Reads
  <2>4. QED
    BY <1>3, <2>2, <2>3 DEF TelemetryOK, Reads
<1>10. IndexesOK'
  <2>1. SUFFICES ASSUME first = "preflight" PROVE IndexesOK'
    BY <1>3 DEF IndexesOK, IndexSteps
  <2>2. "graph" \notin surfaces /\ "telemetry" \notin surfaces /\ wanted = {}
    BY <2>1
  <2>3. QED
    BY <1>3, <2>2 DEF IndexesOK, SeederDone
<1>11. first \in {"wipe", "vertices", "edges"} => "graph" \in surfaces
  OBVIOUS
<1>12. ReportOK'
  BY <1>5 DEF ReportOK, NoReport
<1>13. QED
  BY <1>3, <1>5, <1>6, <1>7, <1>8, <1>9, <1>10, <1>11, <1>12 DEF ProvInv

LEMMA WipeInv == ASSUME ProvInv, wipeGraph, UNCHANGED pack PROVE ProvInv'
<1> DEFINE wanted == GraphRows(Current, prov.generic)
<1>1. /\ prov.step = "wipe" /\ GoOn("vertices", wanted)
      /\ graph' = [v \in Vertices |-> "absent"] /\ edges' = {} /\ UNCHANGED <<docs, blobs, search>>
  BY DEF wipeGraph
<1>2. wanted \in SUBSET Rows /\ wanted \subseteq Current /\ (Reads(prov.generic) => Current \ wanted = {})
  BY RowsAre, CurrentRows
<1> HIDE DEF wanted
<1>3. /\ prov' \in Provs /\ prov'.step = "vertices" /\ prov'.todo = wanted
      /\ prov'.surfaces = prov.surfaces /\ prov'.wipe = prov.wipe /\ prov'.generic = prov.generic
      /\ report' = report
  BY <1>1, <1>2, Goes DEF ProvInv, ProvSteps
<1>4. ProvisionTypeOK'
  BY <1>1, <1>3, MishapsTyped, ProvTypeIs, ProvTypeNext DEF ProvInv, wipeGraph, Versions
<1>5. NothingElse'
  BY <1>1 DEF NothingElse
<1>6. VerticesOK'
  BY <1>1, <1>2, <1>3, <1>5 DEF VerticesOK, Reads
<1>7. ReportOK'
  BY <1>1, <1>3 DEF ReportOK, ProvInv, NoReport
<1>8. QED
  BY <1>1, <1>3, <1>4, <1>6, <1>7 DEF ProvInv, EdgesOK, TelemetryOK, IndexesOK, IndexSteps

LEMMA VertexInv == ASSUME ProvInv, seedVertex, UNCHANGED pack PROVE ProvInv'
<1>1. /\ prov.step = "vertices" /\ Fine /\ UNCHANGED <<edges, docs, blobs, search>>
      /\ graph \in [Vertices -> Versions] /\ report = NoReport /\ "graph" \in prov.surfaces
      /\ prov \in Provs
  BY ProvTypeIs DEF seedVertex, ProvInv
<1>2. CASE prov.todo = {}
  <2> DEFINE wanted == GraphRows(CurrentEdges, prov.generic)
  <2>1. GoOn("edges", wanted) /\ graph' = graph
    BY <1>2 DEF seedVertex
  <2>2. /\ wanted \in SUBSET Rows /\ wanted \subseteq CurrentEdges
        /\ Reads(prov.generic) => CurrentEdges \ wanted = {}
    BY RowsAre, CurrentRows
  <2> HIDE DEF wanted
  <2>3. /\ prov' \in Provs /\ prov'.step = "edges" /\ prov'.todo = wanted
        /\ prov'.surfaces = prov.surfaces /\ prov'.wipe = prov.wipe /\ prov'.generic = prov.generic
        /\ report' = report
    BY <2>1, <2>2, Goes DEF ProvInv, ProvSteps
  <2>4. ProvisionTypeOK'
    BY <1>1, <2>1, <2>3, MishapsTyped, ProvTypeIs, ProvTypeNext DEF ProvInv
  <2>5. NothingElse' <=> NothingElse
    BY <1>1, <2>1 DEF NothingElse
  <2>6. EdgesOK'
    BY <1>1, <1>2, <2>1, <2>2, <2>3, <2>5 DEF ProvInv, EdgesOK, VerticesOK, Reads
  <2>7. ReportOK'
    BY <1>1, <2>3 DEF ReportOK, NoReport
  <2>8. QED
    BY <1>1, <2>3, <2>4, <2>6, <2>7 DEF ProvInv, VerticesOK, TelemetryOK, IndexesOK, IndexSteps
<1>3. CASE prov.todo # {}
  <2>1. PICK v \in prov.todo : /\ graph' = [graph EXCEPT ![v] = IF @ = "absent" THEN "current" ELSE @]
                               /\ GoOn("vertices", prov.todo \ {v})
    BY <1>3 DEF seedVertex
  <2>2. v \in Current /\ v \in Vertices
    BY <1>1, ProvisionAssumption DEF ProvInv, VerticesOK
  <2>3. prov.todo \ {v} \in SUBSET Rows
    BY <1>1 DEF Provs
  <2>4. /\ prov' \in Provs /\ prov'.step = "vertices" /\ prov'.todo = prov.todo \ {v}
        /\ prov'.surfaces = prov.surfaces /\ prov'.wipe = prov.wipe /\ prov'.generic = prov.generic
        /\ report' = report
    BY <2>1, <2>3, Goes DEF ProvInv, ProvSteps
  <2>5. /\ graph' \in [Vertices -> Versions] /\ graph'[v] # "absent"
        /\ graph'[v] = IF graph[v] = "absent" THEN "current" ELSE graph[v]
        /\ \A w \in Vertices \ {v} : graph'[w] = graph[w]
    BY <1>1, <2>1, <2>2 DEF Versions
  <2>6. ProvisionTypeOK'
    BY <1>1, <2>4, <2>5, MishapsTyped, ProvTypeIs, ProvTypeNext DEF ProvInv
  <2>7. NothingElse => NothingElse'
    BY <1>1, <2>2, <2>5 DEF NothingElse
  <2>8. VerticesOK'
    <3>1. /\ prov.todo \subseteq Current
          /\ Reads(prov.generic) => \A w \in Current \ prov.todo : graph[w] # "absent"
          /\ prov.wipe => NothingElse /\ edges = {}
      BY <1>1 DEF ProvInv, VerticesOK
    <3>2. ASSUME Reads(prov.generic), NEW w \in Current \ prov'.todo PROVE graph'[w] # "absent"
      BY <2>4, <2>5, <3>1, <3>2, ProvisionAssumption
    <3>3. QED
      BY <1>1, <2>4, <2>7, <3>1, <3>2 DEF VerticesOK, Reads
  <2>9. ReportOK'
    BY <1>1, <2>4 DEF ReportOK, NoReport
  <2>10. QED
    BY <1>1, <2>4, <2>6, <2>8, <2>9 DEF ProvInv, EdgesOK, TelemetryOK, IndexesOK, IndexSteps
<1>4. QED
  BY <1>2, <1>3

\* An edge between vertices that are there is there after it was added.
LEMMA EdgeInv == ASSUME ProvInv, seedEdge, UNCHANGED pack PROVE ProvInv'
<1>1. /\ prov.step = "edges" /\ Fine /\ UNCHANGED <<graph, docs, blobs, search>>
      /\ report = NoReport /\ "graph" \in prov.surfaces /\ prov \in Provs /\ edges \subseteq Edges
  BY ProvTypeIs DEF seedEdge, ProvInv
<1>2. /\ prov.todo \subseteq CurrentEdges
      /\ Reads(prov.generic) => /\ \A v \in Current : graph[v] # "absent"
                                /\ CurrentEdges \ prov.todo \subseteq edges
      /\ prov.wipe => NothingElse
  BY <1>1 DEF ProvInv, EdgesOK
<1>3. CASE prov.todo # {}
  <2>1. PICK e \in prov.todo :
          /\ edges' = edges \cup {f \in {e} : graph[f[1]] # "absent" /\ graph[f[2]] # "absent"}
          /\ GoOn("edges", prov.todo \ {e})
    BY <1>3 DEF seedEdge
  <2>2. e \in CurrentEdges /\ e[1] \in Current /\ e[2] \in Current /\ e \in Edges
    BY <1>2 DEF CurrentEdges
  <2>3. prov.todo \ {e} \in SUBSET Rows
    BY <1>1 DEF Provs
  <2>4. /\ prov' \in Provs /\ prov'.step = "edges" /\ prov'.todo = prov.todo \ {e}
        /\ prov'.surfaces = prov.surfaces /\ prov'.wipe = prov.wipe /\ prov'.generic = prov.generic
        /\ report' = report
    BY <2>1, <2>3, Goes DEF ProvInv, ProvSteps
  <2>5. /\ edges \subseteq edges' /\ edges' \subseteq edges \cup {e}
        /\ Reads(prov.generic) => e \in edges'
    BY <1>2, <2>1, <2>2
  <2>6. ProvisionTypeOK'
    BY <1>1, <2>2, <2>4, <2>5, MishapsTyped, ProvTypeIs, ProvTypeNext DEF ProvInv
  <2>7. NothingElse => NothingElse'
    BY <1>1, <2>2, <2>5 DEF NothingElse, CurrentEdges
  <2>8. EdgesOK'
    BY <1>1, <1>2, <2>4, <2>5, <2>7 DEF EdgesOK, Reads, CurrentEdges
  <2>9. ReportOK'
    BY <1>1, <2>4 DEF ReportOK, NoReport
  <2>10. QED
    BY <1>1, <2>4, <2>6, <2>8, <2>9 DEF ProvInv, VerticesOK, TelemetryOK, IndexesOK, IndexSteps
<1>4. CASE prov.todo = {}
  <2>1. edges' = edges
    BY <1>4 DEF seedEdge
  <2>2. GraphIs(prov.wipe, prov.generic)
    BY <1>2, <1>4 DEF GraphIs, GraphSeeded
  <2>3. CASE "telemetry" \notin prov.surfaces
    BY <1>1, <1>4, <2>1, <2>2, <2>3, KnowledgeBaseInv DEF seedEdge, stores, SeederDone
  <2>4. CASE "telemetry" \in prov.surfaces
    <3> DEFINE wanted == TelemetryRows(prov.generic)
    <3>1. GoOn("telemetry", wanted)
      BY <1>4, <2>4 DEF seedEdge
    <3>2. /\ wanted \in SUBSET Rows /\ wanted \subseteq CurrentDocs
          /\ Reads(prov.generic) => CurrentDocs \ wanted = {}
      BY DocsAre, CurrentRows
    <3> HIDE DEF wanted
    <3>3. /\ prov' \in Provs /\ prov'.step = "telemetry" /\ prov'.todo = wanted
          /\ prov'.surfaces = prov.surfaces /\ prov'.wipe = prov.wipe /\ prov'.generic = prov.generic
          /\ report' = report
      BY <3>1, <3>2, Goes DEF ProvInv, ProvSteps
    <3>4. ProvisionTypeOK'
      BY <1>1, <2>1, <3>3, MishapsTyped, ProvTypeIs, ProvTypeNext DEF ProvInv
    <3>5. GraphIs(prov.wipe, prov.generic)'
      BY <1>1, <2>1, <2>2, <3>3 DEF GraphIs, GraphSeeded, NothingElse, Reads
    <3>6. TelemetryOK'
      BY <3>2, <3>3, <3>5 DEF TelemetryOK, Reads
    <3>7. ReportOK'
      BY <1>1, <3>3 DEF ReportOK, NoReport
    <3>8. QED
      BY <1>1, <3>3, <3>4, <3>6, <3>7 DEF ProvInv, VerticesOK, EdgesOK, IndexesOK, IndexSteps
  <2>5. QED
    BY <2>3, <2>4
<1>5. QED
  BY <1>3, <1>4

LEMMA TelemetryInv == ASSUME ProvInv, seedTelemetry, UNCHANGED pack PROVE ProvInv'
<1>1. /\ prov.step = "telemetry" /\ Fine /\ UNCHANGED <<graph, edges, blobs, search>>
      /\ report = NoReport /\ prov \in Provs /\ docs \in [Docs -> Versions]
  BY ProvTypeIs DEF seedTelemetry, ProvInv
<1>2. /\ prov.todo \subseteq CurrentDocs
      /\ "graph" \in prov.surfaces => GraphIs(prov.wipe, prov.generic)
      /\ Reads(prov.generic) => \A d \in CurrentDocs \ prov.todo : docs[d] = "current"
  BY <1>1 DEF ProvInv, TelemetryOK
<1>3. CASE prov.todo = {}
  <2>1. SeederDone
    BY <1>2, <1>3 DEF SeederDone, TelemetryIs, TelemetrySeeded
  <2>2. QED
    BY <1>1, <1>3, <2>1, KnowledgeBaseInv DEF seedTelemetry, stores
<1>4. CASE prov.todo # {}
  <2>1. PICK d \in prov.todo : docs' = [docs EXCEPT ![d] = "current"] /\ GoOn("telemetry", prov.todo \ {d})
    BY <1>4 DEF seedTelemetry
  <2>2. prov.todo \ {d} \in SUBSET Rows /\ d \in Docs
    BY <1>1, <1>2, ProvisionAssumption DEF Provs
  <2>3. /\ prov' \in Provs /\ prov'.step = "telemetry" /\ prov'.todo = prov.todo \ {d}
        /\ prov'.surfaces = prov.surfaces /\ prov'.wipe = prov.wipe /\ prov'.generic = prov.generic
        /\ report' = report
    BY <2>1, <2>2, Goes DEF ProvInv, ProvSteps
  <2>4. /\ docs' \in [Docs -> Versions] /\ docs'[d] = "current"
        /\ \A x \in Docs \ {d} : docs'[x] = docs[x]
    BY <1>1, <2>1, <2>2 DEF Versions
  <2>5. ProvisionTypeOK'
    BY <1>1, <2>3, <2>4, MishapsTyped, ProvTypeIs, ProvTypeNext DEF ProvInv
  <2>6. GraphIs(prov.wipe, prov.generic)' <=> GraphIs(prov.wipe, prov.generic)
    BY <1>1, <2>3 DEF GraphIs, GraphSeeded, NothingElse, Reads
  <2>7. ASSUME Reads(prov.generic), NEW x \in CurrentDocs \ prov'.todo PROVE docs'[x] = "current"
    BY <1>2, <2>3, <2>4, <2>7, ProvisionAssumption
  <2>8. TelemetryOK'
    BY <1>2, <2>3, <2>6, <2>7 DEF TelemetryOK, Reads
  <2>9. ReportOK'
    BY <1>1, <2>3 DEF ReportOK, NoReport
  <2>10. QED
    BY <1>1, <2>3, <2>5, <2>8, <2>9 DEF ProvInv, VerticesOK, EdgesOK, IndexesOK, IndexSteps
<1>5. QED
  BY <1>3, <1>4

\* The provisioner of the indexes does not touch what was seeded.
LEMMA IndexGoes ==
  ASSUME ProvInv, prov.step \in IndexSteps, NEW step \in IndexSteps, NEW rest \in SUBSET Indexes,
         GoOn(step, rest), Mishap \/ Fine, UNCHANGED <<pack, graph, edges, docs>>,
         blobs' \subseteq Indexes, search' \in [Indexes -> Searches]
  PROVE  ProvInv'
<1>1. step \in ProvSteps /\ rest \in SUBSET Rows
  BY CurrentRows DEF ProvSteps
<1>2. /\ prov' \in Provs /\ prov'.step = step /\ prov'.todo = rest
      /\ prov'.surfaces = prov.surfaces /\ prov'.wipe = prov.wipe /\ prov'.generic = prov.generic
      /\ prov'.failed = prov.failed /\ report' = report
  BY <1>1, Goes DEF ProvInv
<1>3. ProvisionTypeOK'
  BY <1>2, MishapsTyped, ProvTypeIs, ProvTypeNext DEF ProvInv
<1>4. SeederDone' <=> SeederDone
  BY <1>2 DEF SeederDone, GraphIs, TelemetryIs, NothingElse, Reads, GraphSeeded, TelemetrySeeded
<1>5. prov.step # "idle" /\ step \notin {"idle", "wipe", "vertices", "edges", "telemetry"}
  BY DEF IndexSteps
<1>6. ReportOK'
  BY <1>2, <1>5 DEF ProvInv, ReportOK, NoReport
<1>7. IndexesOK'
  BY <1>2, <1>4 DEF ProvInv, IndexesOK
<1>8. VerticesOK' /\ EdgesOK' /\ TelemetryOK'
  BY <1>2, <1>5 DEF VerticesOK, EdgesOK, TelemetryOK
<1>9. QED
  BY <1>2, <1>3, <1>5, <1>6, <1>7, <1>8 DEF ProvInv

LEMMA PipelineTyped ==
  ASSUME ProvInv, prov.step \in IndexSteps, prov.todo # {},
         NEW state \in {"none", "empty", "full"}, NEW objects \in SUBSET Objects,
         Pipeline(state, objects)
  PROVE  search' \in [Indexes -> Searches]
<1>1. search \in [Indexes -> Searches] /\ [docs |-> state, has |-> objects] \in Searches
  BY ProvTypeIs DEF ProvInv, Searches
<1>2. QED
  BY <1>1 DEF Pipeline

LEMMA IndexIsTyped ==
  ASSUME ProvInv, prov.step \in IndexSteps, prov.todo # {}
  PROVE  /\ TheIndex \in Indexes /\ prov.todo \in SUBSET Indexes /\ prov.todo \ {TheIndex} \in SUBSET Indexes
         /\ search[TheIndex].docs \in {"none", "empty", "full"}
         /\ search[TheIndex].has \in SUBSET Objects
         /\ blobs \subseteq Indexes /\ search \in [Indexes -> Searches]
<1>1. TheIndex \in prov.todo
  BY DEF TheIndex
<1>2. prov.todo \subseteq Indexes /\ search \in [Indexes -> Searches] /\ blobs \subseteq Indexes
  BY ProvTypeIs DEF ProvInv, IndexesOK
<1>3. QED
  BY <1>1, <1>2 DEF Searches

LEMMA CleanUpInv == ASSUME ProvInv, cleanUp, UNCHANGED pack PROVE ProvInv'
<1>1. prov.step \in IndexSteps /\ prov.todo # {} /\ UNCHANGED <<pack, graph, edges, docs, blobs>>
  BY DEF cleanUp, Doing, IndexSteps
<1>2. PICK step \in {"upload", "source"} : GoOn(step, prov.todo)
  BY DEF cleanUp
<1>3. search[TheIndex].has \cap {"datasource"} \in SUBSET Objects
  BY <1>1, IndexIsTyped
<1>4. search' \in [Indexes -> Searches] /\ (Mishap \/ Fine)
  BY <1>1, <1>3, IndexIsTyped, PipelineTyped DEF cleanUp
<1>5. QED
  BY <1>1, <1>2, <1>4, IndexIsTyped, IndexGoes DEF IndexSteps

LEMMA UploadFilesInv == ASSUME ProvInv, upload_files, UNCHANGED pack PROVE ProvInv'
<1>1. /\ prov.step \in IndexSteps /\ prov.todo # {} /\ UNCHANGED <<pack, graph, edges, docs, search>>
      /\ GoOn("source", prov.todo) /\ Fine /\ blobs' = blobs \cup {TheIndex}
  BY DEF upload_files, Doing, IndexSteps
<1>2. blobs' \subseteq Indexes
  BY <1>1, IndexIsTyped
<1>3. QED
  BY <1>1, <1>2, IndexIsTyped, IndexGoes DEF IndexSteps

LEMMA CreateOneInv ==
  ASSUME ProvInv, NEW step \in IndexSteps, NEW object \in Objects, NEW then \in IndexSteps,
         create(step, object, then), UNCHANGED pack
  PROVE  ProvInv'
<1>1. /\ prov.step \in IndexSteps /\ prov.todo # {} /\ UNCHANGED <<pack, graph, edges, docs, blobs>>
      /\ GoOn(then, prov.todo) /\ Fine
      /\ Pipeline(search[TheIndex].docs, search[TheIndex].has \cup {object})
  BY DEF create, Doing
<1>2. search[TheIndex].has \cup {object} \in SUBSET Objects
  BY <1>1, IndexIsTyped
<1>3. search' \in [Indexes -> Searches]
  BY <1>1, <1>2, IndexIsTyped, PipelineTyped
<1>4. QED
  BY <1>1, <1>3, IndexIsTyped, IndexGoes

LEMMA CreateIndexInv == ASSUME ProvInv, create_index, UNCHANGED pack PROVE ProvInv'
<1>1. prov.step \in IndexSteps /\ prov.todo # {} /\ UNCHANGED <<pack, graph, edges, docs, blobs>>
  BY DEF create_index, Doing, IndexSteps
<1>2. search' \in [Indexes -> Searches] /\ (Mishap \/ Fine)
  BY <1>1, IndexIsTyped, PipelineTyped DEF create_index
<1>3. PICK step \in {"skillset", "clean"}, rest \in {prov.todo, prov.todo \ {TheIndex}} : GoOn(step, rest)
  BY DEF create_index, NextIndex
<1>4. QED
  BY <1>1, <1>2, <1>3, IndexIsTyped, IndexGoes DEF IndexSteps

LEMMA IndexFailsInv == ASSUME ProvInv, IndexFails, UNCHANGED pack PROVE ProvInv'
<1>1. /\ prov.step \in IndexSteps /\ UNCHANGED <<pack, stores>> /\ Mishap
      /\ GoOn("clean", prov.todo \ {TheIndex})
  BY DEF IndexFails, IndexSteps, NextIndex
<1>2. /\ prov.todo \ {TheIndex} \in SUBSET Indexes /\ search \in [Indexes -> Searches]
      /\ blobs \subseteq Indexes
  BY <1>1, ProvTypeIs DEF ProvInv, IndexesOK
<1>3. QED
  BY <1>1, <1>2, IndexGoes DEF IndexSteps, stores

LEMMA PollIndexerInv == ASSUME ProvInv, poll_indexer, UNCHANGED pack PROVE ProvInv'
<1>1. /\ prov.step \in IndexSteps /\ prov.todo # {} /\ UNCHANGED <<pack, graph, edges, docs, blobs>>
      /\ GoOn("clean", prov.todo \ {TheIndex})
  BY DEF poll_indexer, Doing, IndexSteps, NextIndex
<1>2. (IF TheIndex \in blobs THEN "full" ELSE "empty") \in {"none", "empty", "full"}
  OBVIOUS
<1>3. search' \in [Indexes -> Searches] /\ (Mishap \/ Fine)
  BY <1>1, <1>2, IndexIsTyped, PipelineTyped DEF poll_indexer
<1>4. QED
  BY <1>1, <1>3, IndexIsTyped, IndexGoes DEF IndexSteps

LEMMA PreflightInv == ASSUME ProvInv, preflight, UNCHANGED pack PROVE ProvInv'
<1>1. search \in [Indexes -> Searches] /\ blobs \subseteq Indexes
  BY ProvTypeIs DEF ProvInv
<1>2. QED
  BY <1>1, IndexGoes DEF preflight, IndexSteps, stores

LEMMA SearchDoneInv ==
  ASSUME ProvInv, UNCHANGED pack
  PROVE  /\ searchDone => ProvInv'
         /\ RunRefuses => ProvInv'
<1>1. prov.failed \in BOOLEAN
  BY ProvTypeIs DEF ProvInv, Provs
<1>2. ASSUME searchDone PROVE ProvInv'
  BY <1>1, <1>2, FinishInv DEF searchDone, ProvInv, IndexesOK, IndexSteps
<1>3. ASSUME RunRefuses PROVE ProvInv'
  BY <1>3, FinishInv DEF RunRefuses
<1>4. QED
  BY <1>2, <1>3

LEMMA KilledInv == ASSUME ProvInv, Killed, UNCHANGED pack PROVE ProvInv'
<1>1. /\ prov' = AtRest /\ AtRest.step = "idle" /\ report = NoReport /\ report' = NoReport
      /\ UNCHANGED <<pack, stores>> /\ mishaps' \in 0..MaxMishaps
  BY MishapsTyped DEF Killed, AtRest, ProvInv
<1>2. ProvisionTypeOK'
  BY <1>1, RestIsTyped, ProvTypeIs, ProvTypeNext DEF ProvInv, stores
<1>3. QED
  BY <1>1, <1>2 DEF ProvInv, VerticesOK, EdgesOK, TelemetryOK, IndexesOK, IndexSteps, ReportOK, NoReport

LEMMA ProvisionNextInv == ASSUME ProvInv, [ProvisionNext]_provisionVars PROVE ProvInv'
<1>1. CASE UNCHANGED provisionVars
  BY <1>1 DEF provisionVars, stores, ProvInv, ProvisionTypeOK, VerticesOK, EdgesOK, TelemetryOK, IndexesOK,
              ReportOK, SeederDone, GraphIs, TelemetryIs, NothingElse, Reads, GraphSeeded, TelemetrySeeded
<1>2. CASE ProvisionNext
  <2>1. UNCHANGED pack
    BY <1>2 DEF ProvisionNext
  <2>2. ASSUME NEW surfaces \in SUBSET Surfaces, NEW wipe \in BOOLEAN, NEW upload \in BOOLEAN,
               provision(surfaces, wipe, upload)
        PROVE  ProvInv'
    BY <2>1, <2>2, BeginInv DEF provision
  <2>3. ASSUME NEW surfaces \in SUBSET Seeded, NEW wipe \in BOOLEAN, seed_cosmos(surfaces, wipe)
        PROVE  ProvInv'
    <3>1. surfaces \in SUBSET Surfaces
      BY DEF Seeded, Surfaces
    <3>2. QED
      BY <2>1, <2>3, <3>1, BeginInv DEF seed_cosmos
  <2>4. CASE SeedFails
    BY <2>1, <2>4, KnowledgeBaseInv DEF SeedFails
  <2>5. CASE Provisioner
    <3>1. CASE create_data_source
      BY <2>1, <3>1, CreateOneInv DEF create_data_source, IndexSteps, Objects
    <3>2. CASE create_skillset
      BY <2>1, <3>2, CreateOneInv DEF create_skillset, IndexSteps, Objects
    <3>3. CASE create_indexer
      BY <2>1, <3>3, CreateOneInv DEF create_indexer, IndexSteps, Objects
    <3>4. QED
      BY <2>1, <2>5, <3>1, <3>2, <3>3, WipeInv, VertexInv, EdgeInv, TelemetryInv, PreflightInv, CleanUpInv,
         UploadFilesInv, CreateIndexInv, PollIndexerInv, SearchDoneInv DEF Provisioner
  <2>6. QED
    BY <1>2, <2>1, <2>2, <2>3, <2>4, <2>5, SearchDoneInv, IndexFailsInv, KilledInv DEF ProvisionNext
<1>3. QED
  BY <1>1, <1>2

\* A graph with nothing else in it, and all of it, is the scenario's.
LEMMA ReportedIsSeeded == ASSUME ProvInv PROVE DoneMeansSeeded
<1>1. ASSUME GraphSeeded, NothingElse
      PROVE  /\ \A v \in Vertices : graph[v] = IF v \in Current THEN "current" ELSE "absent"
             /\ edges = CurrentEdges
  BY <1>1 DEF GraphSeeded, NothingElse
<1>2. QED
  BY <1>1 DEF ProvInv, ReportOK, GraphIs, TelemetryIs, Reads, DoneMeansSeeded

\* PROVISION_DONE, or SEED_DONE, is printed only when what the seeder could read of the
\* graph and the telemetry selected is in the stores, whatever failed or killed runs left
\* there before (main of seed_cosmos.py and of provision_scenario.py).
THEOREM DoneAlwaysMeansSeeded == Spec => []DoneMeansSeeded
<1>1. Init => ProvInv
  BY ProvisionInitInv DEF Init
<1>2. ProvInv /\ [Next]_vars => ProvInv'
  BY ProvisionNextInv DEF Next, vars
<1>3. ProvInv => DoneMeansSeeded
  BY ReportedIsSeeded
<1>4. QED
  BY <1>1, <1>2, <1>3, PTL DEF Spec

\* Behind the success of either pipeline (exit 0 of deploy_scenario.py, PROVISION_DONE of
\* provision_scenario.py) are, for every instance and any earlier runs, the Fabric items,
\* tables and binding, or the graph and telemetry the seeder read; telemetry rows on
\* Fabric, the knowledge base and packs the seeder does not know are not.
THEOREM SuccessAlwaysLeavesCore == Spec => []SuccessLeavesCore
<1>1. FullRunDeploys /\ DoneMeansSeeded => SuccessLeavesCore
  BY DEF SuccessLeavesCore
<1>2. QED
  BY <1>1, FullRunsDeploy, DoneAlwaysMeansSeeded, PTL

\* Whatever a run is interrupted at, refused or told to force: its position, the items of
\* the workspace, the stores and the report stay what the two pipelines can read.
THEOREM DeploymentTypeCorrect == Spec => []TypeOK
<1> DEFINE Inv == FabricInv /\ ProvInv /\ target \in {"fabric", "cosmos"}
<1>1. Init => Inv
  BY DeployInit, ProvisionInitInv DEF Init
<1>2. Inv /\ [Next]_vars => Inv'
  <2>1. ASSUME Inv, [Next]_vars PROVE target' \in {"fabric", "cosmos"}
    BY <2>1 DEF Next, vars
  <2>2. ASSUME Inv, [Next]_vars PROVE ProvInv'
    BY <2>2, ProvisionNextInv DEF Next, vars
  <2>3. ASSUME Inv, [Next]_vars PROVE FabricInv'
    BY <2>3, DeployNext
  <2>4. QED
    BY <2>1, <2>2, <2>3
<1>3. Inv => TypeOK
  BY DEF FabricInv, ProvInv, TypeOK
<1>4. QED
  BY <1>1, <1>2, <1>3, PTL DEF Spec
=============================================================================
