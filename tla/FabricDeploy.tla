---------------------------- MODULE FabricDeploy ----------------------------
(***************************************************************************)
(* Deploying a scenario's data to Microsoft Fabric: the stages of          *)
(* scripts/fabric/deploy_scenario.py, the REST client they share, and what *)
(* the service does on its own: names released some time after a deletion, *)
(* long-running creations that go on after the client gave up, a workspace,*)
(* a KQL database or a graph model that shows up late.                     *)
(*                                                                         *)
(* A run keeps nothing on disk before its last stage: the ids it learned   *)
(* (run.known) die with it, and the next run finds everything by name.     *)
(* The service refuses two items, or two folders of a parent, of one name. *)
(***************************************************************************)
EXTENDS Integers, Sequences, FiniteSets, FiniteSetsExt, SequencesExt

CONSTANTS Tables,       \* CSVs loaded into the lakehouse
          Streams,      \* CSVs ingested into the eventhouse
          Schemas,      \* versions of graph_schema.yaml
          Depth,        \* segments of the folder path
          NameRetries,  \* max_retries of create_item and create_ontology
          MaxOddities   \* bound: failures, and runs other than a plain full one

\* The schemas OntologyBuilder takes: it raises a KeyError when a type has not its
\* id_column, or an edge joins by a property its type has not.  Labels are of one type,
\* and a type lists a property once.
Has(vertex, prop) == \E n \in DOMAIN vertex.props : vertex.props[n] = prop
WellFormed(schema) ==
  /\ schema \in [vertices : Seq([label : STRING, key : STRING, props : Seq(STRING)]),
                 edges : Seq([label : STRING, source : STRING, from : STRING,
                              target : STRING, to : STRING])]
  /\ \A i, j \in DOMAIN schema.vertices :
       schema.vertices[i].label = schema.vertices[j].label => i = j
  /\ \A i \in DOMAIN schema.vertices : LET v == schema.vertices[i] IN
       /\ \A m, n \in DOMAIN v.props : v.props[m] = v.props[n] => m = n
       /\ Has(v, v.key)
  /\ \A e \in DOMAIN schema.edges : \E i, j \in DOMAIN schema.vertices :
       /\ schema.vertices[i].label = schema.edges[e].source
       /\ Has(schema.vertices[i], schema.edges[e].from)
       /\ schema.vertices[j].label = schema.edges[e].target
       /\ Has(schema.vertices[j], schema.edges[e].to)

ASSUME FabricAssumption ==
  /\ Depth \in Nat /\ NameRetries \in Nat /\ MaxOddities \in Nat
  /\ \A schema \in Schemas : WellFormed(schema)

VARIABLES run,        \* the deploying process
          listed,     \* its folder_lookup, as far as the path needs it
          todo,       \* the CSVs the current stage has still to load
          deployed,   \* the last run was a full one and exited with 0
          oddities,
          workspace, capacity, folders, item,
          shared,     \* other projects have items in the workspace
          loaded,     \* the delta tables of the live lakehouse
          rows,       \* how much of each stream the live eventhouse has
          database,   \* its KQL database is listed
          stray,      \* telemetry went to another project's database
          bound,      \* the ontology reads the live lakehouse
          model,      \* its graph model is listed
          env         \* the ids of the output env file

client == <<run, listed, todo, deployed, oddities>>
place == <<workspace, capacity, folders, shared>>
content == <<loaded, rows, database, stray, bound, model>>
fabricVars == <<client, place, item, content, env>>

STAGES == <<"workspace", "folder", "lakehouse", "eventhouse", "ontology", "verify">>
Full == {STAGES[i] : i \in DOMAIN STAGES}
Graph == Full \ {"eventhouse"}
Telemetry == Full \ {"ontology"}
Kinds == {"lakehouse", "eventhouse", "ontology"}
Path == 1..Depth
EnvKeys == Kinds \cup {"model"}

(***************************************************************************)
(* OntologyBuilder: what the ontology is created from.  A schema is        *)
(* [vertices |-> << [label, key, props] >>,                                *)
(*  edges |-> << [label, source, from, target, to] >>]: an edge joins the  *)
(* property from of the type source to the property to of the type target. *)
(* The ids of a kind count up in the schema's order.                       *)
(***************************************************************************)
TypeId(schema, label) ==
  Max({i \in DOMAIN schema.vertices : schema.vertices[i].label = label})

\* Where a property is: its type and its place there.  Its id counts those up to it.
PropPlaces(schema) ==
  UNION {{i} \X DOMAIN schema.vertices[i].props : i \in DOMAIN schema.vertices}
PropAt(schema, p) == schema.vertices[p[1]].props[p[2]]
PropNumber(schema, p) ==
  Cardinality({q \in PropPlaces(schema) : q[1] < p[1] \/ (q[1] = p[1] /\ q[2] <= p[2])})

\* Mutated: the lookup table is keyed by the property's name alone.
PropIdByName(schema, label, prop) ==
  Max({PropNumber(schema, p) : p \in {q \in PropPlaces(schema) : PropAt(schema, q) = prop}})

PropId(schema, label, prop) ==
  Max({PropNumber(schema, p) : p \in
         {q \in PropPlaces(schema) :
            schema.vertices[q[1]].label = label /\ PropAt(schema, q) = prop}})

\* The edges of one label between the same two types make one relationship type,
\* whose id is that of the first of them.
Group(schema, e) ==
  {f \in DOMAIN schema.edges : \A field \in {"label", "source", "target"} :
     schema.edges[f][field] = schema.edges[e][field]}

build_entity_types(schema) ==
  [i \in DOMAIN schema.vertices |-> LET v == schema.vertices[i] IN
     [path |-> <<"EntityTypes", TypeId(schema, v.label)>>,
      props |-> {PropId(schema, v.label, v.props[n]) : n \in DOMAIN v.props},
      names |-> {PropId(schema, v.label, v.key)}]]

build_static_bindings(schema) ==
  [i \in DOMAIN schema.vertices |-> LET v == schema.vertices[i] IN
     [path |-> <<"DataBindings", TypeId(schema, v.label)>>,
      columns |-> {<<v.props[n], PropId(schema, v.label, v.props[n])>> : n \in DOMAIN v.props}]]

\* The name is the label, and the target's where the label joins several pairs.
build_relationship_types(schema) ==
  LET E == schema.edges
      pairs(e) == {<<E[f].source, E[f].target>> : f \in {g \in DOMAIN E : E[g].label = E[e].label}}
  IN [e \in {f \in DOMAIN E : f = Min(Group(schema, f))} |->
        [path |-> <<"RelationshipTypes", e>>,
         name |-> <<E[e].label, IF Cardinality(pairs(e)) = 1 THEN "" ELSE E[e].target>>,
         ends |-> <<TypeId(schema, E[e].source), TypeId(schema, E[e].target)>>]]

\* The id of a binding comes from the label, the target and, where the relationship has
\* several, its place among them.
build_contextualizations(schema) ==
  [e \in DOMAIN schema.edges |->
     LET edge == schema.edges[e]
         group == Group(schema, e)
         nth == IF Cardinality(group) = 1 THEN 0 ELSE Cardinality({f \in group : f <= e})
     IN [path |-> <<"Contextualizations", Min(group), <<edge.label, edge.target, nth>> >>,
         keys |-> <<PropId(schema, edge.source, edge.from),
                    PropId(schema, edge.target, edge.to)>>]]

\* Every part, by its folder and the vertex or edge it is made from.
DefinitionParts(schema) ==
  LET parts == [EntityTypes |-> build_entity_types(schema),
                DataBindings |-> build_static_bindings(schema),
                RelationshipTypes |-> build_relationship_types(schema),
                Contextualizations |-> build_contextualizations(schema)]
  IN  [p \in UNION {{kind} \X DOMAIN parts[kind] : kind \in DOMAIN parts} |-> parts[p[1]][p[2]]]

-----------------------------------------------------------------------------
\* Nothing of a stream, part of it, all of it once, or some of it twice.
Nothing == 0
Part == 1
Once == 2
Twice == 3

Append2(have, more) == IF have = Nothing THEN more ELSE Twice

NoSchema == [vertices |-> <<>>, edges |-> <<>>]

FabricTypeOK ==
  /\ run \in [stage : Full \cup {"idle"}, stages : SUBSET Full, force : BOOLEAN,
              step : {"start", "await", "capacity", "walk", "create", "wait",
                      "fill", "load", "tables", "ingest", "model"},
              schema : Schemas \cup {NoSchema},
              byId : BOOLEAN, tries : 0..NameRetries,
              known : SUBSET (EnvKeys \cup {"workspace", "folder", "other model"})]
  /\ listed \subseteq Path /\ todo \subseteq Tables \cup Streams
  /\ deployed \in BOOLEAN /\ oddities \in 0..MaxOddities
  /\ workspace \in {"absent", "hidden", "visible"} /\ capacity \in BOOLEAN
  /\ folders \subseteq Path
  /\ item \in [Kinds -> {"free", "making", "live", "held"}]
  /\ shared \in BOOLEAN
  /\ loaded \subseteq Tables /\ rows \in [Streams -> Nothing..Twice]
  /\ {database, stray, bound, model} \subseteq BOOLEAN
  /\ env \in [EnvKeys -> {"none", "live", "stale", "other"}]

Idle == [stage |-> "idle", step |-> "start", stages |-> {}, force |-> FALSE,
         byId |-> FALSE, tries |-> 0, known |-> {},
         schema |-> NoSchema]

FabricInit ==
  /\ run = Idle /\ listed = {} /\ todo = {} /\ deployed = FALSE /\ oddities = 0
  /\ \/ workspace = "absent" /\ capacity = FALSE /\ shared = FALSE
     \/ workspace = "visible" /\ capacity \in BOOLEAN /\ shared \in BOOLEAN
  /\ folders = {} /\ item = [k \in Kinds |-> "free"]
  /\ loaded = {} /\ rows = [t \in Streams |-> Nothing]
  /\ database = FALSE /\ stray = FALSE /\ bound = FALSE /\ model = FALSE
  /\ env = [k \in EnvKeys |-> "none"]

-----------------------------------------------------------------------------
(* The process *)

Odd == oddities < MaxOddities /\ oddities' = oddities + 1
AsUsual == oddities' = oddities

At(stage, step) == run.stage = stage /\ run.step = step
Go(step, ids) == run' = [run EXCEPT !.step = step, !.tries = 0, !.known = @ \cup ids]

Index(stage) == CHOOSE i \in DOMAIN STAGES : STAGES[i] = stage

\* A stage returned: the next one the run selected begins, or main returns 0.
Advance(ids) ==
  LET later == {i \in DOMAIN STAGES : i > Index(run.stage) /\ STAGES[i] \in run.stages}
  IN IF later = {} THEN run' = Idle /\ deployed' = (run.stages = Full)
     ELSE /\ run' = [run EXCEPT !.stage = STAGES[Min(later)], !.step = "start",
                                !.known = @ \cup ids, !.schema = NoSchema]
          /\ UNCHANGED deployed

\* The exception is printed and main returns 1.
Exit == run' = Idle /\ UNCHANGED deployed

\* The manifest of a run: what it is to do, and no id but a workspace's that was given.
from_yaml(stages, force, byId) ==
  [Idle EXCEPT !.stages = stages, !.force = force, !.byId = byId,
               !.known = IF byId THEN {"workspace"} ELSE {}]

\* main: the whole pipeline, deploy_graph.py's or deploy_telemetry.py's, or one stage.
main(stages, force, byId) ==
  /\ run.stage = "idle"
  /\ byId => workspace = "visible"
  /\ byId \/ "workspace" \in stages
  /\ IF stages = Full /\ ~force /\ ~byId THEN AsUsual ELSE Odd
  /\ run' = [from_yaml(stages, force, byId) EXCEPT
               !.stage = STAGES[Min({Index(s) : s \in stages})]]
  /\ deployed' = FALSE /\ listed' = {} /\ todo' = {}
  /\ UNCHANGED <<place, item, content, env>>

\* A request is refused or not answered, an operation fails, times out or has no
\* result, the user interrupts, the machine stops: the ids are gone, what the
\* service has begun goes on.
Fails ==
  /\ run.stage # "idle" /\ Odd /\ Exit
  /\ UNCHANGED <<listed, todo, place, item, content, env>>

-----------------------------------------------------------------------------
(* Stages 1 and 2: the workspace and the folder path *)

find_workspace == workspace = "visible"

\* The request may make a workspace that is not listed yet, or meet such a one: a conflict.
create_workspace ==
  \/ /\ workspace = "absent" /\ workspace' \in {"hidden", "visible"} /\ capacity' = TRUE
     /\ Go("capacity", {"workspace"})
  \/ workspace = "hidden" /\ Go("await", {}) /\ UNCHANGED <<workspace, capacity>>

\* A workspace given by its id is taken as it is.
findWorkspace ==
  /\ At("workspace", "start")
  /\ \/ run.byId /\ Advance({}) /\ UNCHANGED <<workspace, capacity>>
     \/ /\ ~run.byId /\ UNCHANGED deployed
        /\ IF find_workspace THEN Go("capacity", {"workspace"}) /\ UNCHANGED <<workspace, capacity>>
                             ELSE create_workspace
  /\ UNCHANGED <<listed, todo, oddities, folders, shared, item, content, env>>

awaitWorkspace ==
  /\ At("workspace", "await")
  /\ IF find_workspace THEN Go("capacity", {"workspace"}) /\ UNCHANGED deployed ELSE Exit
  /\ UNCHANGED <<listed, todo, oddities, place, item, content, env>>

\* (Mutated: only a workspace that is created gets its capacity.)
assign_capacityNever ==
  /\ At("workspace", "capacity") /\ Advance({}) /\ AsUsual
  /\ UNCHANGED <<listed, todo, place, item, content, env>>

\* A refused assignment is only printed.
assign_capacity ==
  /\ At("workspace", "capacity")
  /\ \/ capacity' = TRUE /\ AsUsual
     \/ UNCHANGED capacity /\ Odd
  /\ Advance({})
  /\ UNCHANGED <<listed, todo, workspace, folders, shared, item, content, env>>

\* A listing that fails is an empty one.
list_folders ==
  /\ At("folder", "start")
  /\ \/ listed' = folders /\ AsUsual
     \/ listed' = {} /\ Odd
  /\ Go("walk", {})
  /\ UNCHANGED <<todo, deployed, place, item, content, env>>

\* The service refuses a second folder of that name.
create_folder(segment) ==
  IF segment \in folders THEN Exit /\ UNCHANGED <<listed, folders>>
  ELSE /\ folders' = folders \cup {segment} /\ listed' = listed \cup {segment}
       /\ UNCHANGED <<run, deployed>>

walkFolders ==
  /\ At("folder", "walk")
  /\ IF Path \subseteq listed THEN Advance({"folder"}) /\ UNCHANGED <<listed, folders>>
                             ELSE create_folder(Min(Path \ listed))
  /\ UNCHANGED <<todo, oddities, workspace, capacity, shared, item, content, env>>

-----------------------------------------------------------------------------
(* Items: found by name, deleted when forced, created with retries *)

\* What goes with an item: its data, what the service made for it, and the sense
\* of its id in the env file.
Deleted(k) ==
  /\ item' = [item EXCEPT ![k] = "held"]
  /\ loaded' = IF k = "lakehouse" THEN {} ELSE loaded
  /\ rows' = IF k = "eventhouse" THEN [t \in Streams |-> Nothing] ELSE rows
  /\ database' = (database /\ k # "eventhouse")
  /\ bound' = (bound /\ k = "eventhouse")
  /\ model' = (model /\ k # "ontology")
  /\ env' = [e \in EnvKeys |->
               IF env[e] = "live" /\ (e = k \/ (e = "model" /\ k = "ontology"))
               THEN "stale" ELSE env[e]]
  /\ UNCHANGED stray

Kept == UNCHANGED <<item, content, env>>

\* Only an item that is complete is listed.
Found(k) == item[k] = "live"

\* The result of a deletion is not looked at.
delete_item(k) == \/ Deleted(k) /\ AsUsual
                  \/ Kept /\ Odd

\* The tables of the schema's vertices and edges; the telemetry containers.
Csvs(k) == IF k = "lakehouse" THEN Tables ELSE Streams

\* (Mutated: an item that exists is always made anew.)
find_itemAnew(k) ==
  /\ k # "ontology" /\ At(k, "start")
  /\ todo' = IF k = "lakehouse" THEN Tables ELSE Streams
  /\ IF Found(k) THEN delete_item(k) ELSE Kept /\ AsUsual
  /\ Go("create", {})
  /\ UNCHANGED <<listed, deployed, place>>

find_item(k) ==
  /\ k # "ontology" /\ At(k, "start")
  /\ todo' = Csvs(k)
  /\ \/ Found(k) /\ run.force /\ delete_item(k) /\ Go("create", {})
     \/ Found(k) /\ ~run.force /\ Kept /\ AsUsual /\ Go("fill", {k})
     \/ ~Found(k) /\ Kept /\ AsUsual /\ Go("create", {})
  /\ UNCHANGED <<listed, deployed, place>>

\* An ontology that exists is always deleted.  A lookup that fails finds none, and
\* the result of the deletion is not looked at: either way the name stays taken.
delete_ontology ==
  IF Found("ontology") THEN delete_item("ontology") ELSE Kept /\ AsUsual

\* Standing alone, the stage looks for the lakehouse and the eventhouse by name; it
\* builds the definition before it looks for the ontology.
find_ontology ==
  /\ At("ontology", "start")
  /\ LET ids == {k \in {"lakehouse", "eventhouse"} : Found(k)}
     IN IF "lakehouse" \notin run.known \cup ids
        THEN Advance({}) /\ Kept /\ AsUsual
        ELSE /\ delete_ontology
             /\ \E schema \in Schemas :
                  run' = [run EXCEPT !.step = "create", !.known = @ \cup ids,
                                     !.schema = schema]
             /\ UNCHANGED deployed
  /\ UNCHANGED <<listed, todo, place>>

\* Creating by name: a name that is taken is tried again, without a capacity nothing
\* can be made.
CreateNamed(k) ==
  /\ At(k, "create")
  /\ CASE item[k] = "free" /\ capacity ->
            item' = [item EXCEPT ![k] = "making"] /\ Go("wait", {}) /\ UNCHANGED deployed
       [] item[k] # "free" /\ run.tries < NameRetries ->
            run' = [run EXCEPT !.tries = @ + 1] /\ UNCHANGED <<deployed, item>>
       [] OTHER -> Exit /\ UNCHANGED item
  /\ UNCHANGED <<listed, todo, oddities, place, loaded, rows, database, stray, model, env>>

create_item(k) == k # "ontology" /\ CreateNamed(k) /\ UNCHANGED bound

\* The definition goes with the request: it is bound to the lakehouse of that moment.
create_ontology ==
  /\ CreateNamed("ontology")
  /\ bound' = IF item' # item THEN item["lakehouse"] = "live" ELSE bound

\* (Mutated: the operation is not waited for.)
poll_lroAnyway(k) ==
  /\ At(k, "wait") /\ Go(IF k = "ontology" THEN "model" ELSE "fill", {k}) /\ AsUsual
  /\ UNCHANGED <<deployed, listed, todo, place, item, content, env>>

\* poll_lro: the operation succeeded, or failed; timing out is one of Fails.
\* Without a result the id of an item is missing: an error for the others, an
\* empty ontology_id here.
poll_lro(k) ==
  /\ At(k, "wait") /\ item[k] # "making"
  /\ CASE item[k] = "live" /\ k # "ontology" -> Go("fill", {k}) /\ AsUsual /\ UNCHANGED deployed
       [] item[k] = "live" /\ k = "ontology" ->
            /\ \/ Go("model", {k}) /\ AsUsual
               \/ Go("model", {}) /\ Odd
            /\ UNCHANGED deployed
       [] OTHER -> Exit /\ AsUsual
  /\ UNCHANGED <<listed, todo, place, item, content, env>>

-----------------------------------------------------------------------------
(* Stages 3 to 6: the data, the graph model and the env file *)

\* The files are written over; a table exists only once its file is loaded.
upload_csvs ==
  /\ At("lakehouse", "fill") /\ Go("load", {})
  /\ UNCHANGED <<listed, todo, deployed, oddities, place, item, content, env>>

load_lakehouse_table ==
  /\ At("lakehouse", "load")
  /\ IF todo = {} THEN Advance({}) /\ UNCHANGED <<todo, loaded>>
     ELSE /\ \E t \in todo : loaded' = loaded \cup {t} /\ todo' = todo \ {t}
          /\ UNCHANGED <<run, deployed>>
  /\ UNCHANGED <<listed, oddities, place, item, rows, database, stray, bound, model, env>>

\* find_kql_database_for_eventhouse: the eventhouse's own, or the first that is listed.
KqlDatabase == IF database THEN "own" ELSE IF shared THEN "another's" ELSE "none"

\* Without a database the stage returns, and the run goes on; it goes on as well with
\* that of another project, whose tables are not followed here.
find_kql_database ==
  /\ At("eventhouse", "fill")
  /\ IF KqlDatabase = "own" THEN Go("tables", {}) /\ UNCHANGED <<deployed, stray>>
     ELSE Advance({}) /\ stray' = (stray \/ KqlDatabase = "another's")
  /\ UNCHANGED <<listed, todo, oddities, place, item, loaded, rows, database, bound,
                 model, env>>

\* .create-merge table and .create-or-alter mapping: what is there stays.
create_kql_tables ==
  /\ At("eventhouse", "tables") /\ Go("ingest", {})
  /\ UNCHANGED <<listed, todo, deployed, oddities, place, item, content, env>>

\* The queue takes a file; when it raises, the file may be queued all the same and
\* is ingested inline in batches, the first of which stay when a later one fails.
ingest_csv_files ==
  /\ At("eventhouse", "ingest")
  /\ IF todo = {} THEN Advance({}) /\ AsUsual /\ UNCHANGED <<todo, rows>>
     ELSE \E t \in todo :
            /\ todo' = todo \ {t}
            /\ \/ /\ rows' = [rows EXCEPT ![t] = Append2(@, Once)] /\ AsUsual
                  /\ UNCHANGED <<run, deployed>>
               \/ /\ rows' = [rows EXCEPT ![t] = Twice] /\ Odd
                  /\ UNCHANGED <<run, deployed>>
               \/ rows' = [rows EXCEPT ![t] = Append2(@, Part)] /\ Odd /\ Exit
  /\ UNCHANGED <<listed, place, item, loaded, database, stray, bound, model, env>>

\* list_items of type GraphModel: the ontology's own, and those of other projects.
GraphModels == {m \in {"model", "other model"} : IF m = "model" THEN model ELSE shared}

\* The ontology's own graph model, or the first of the workspace.
findModel ==
  /\ At("ontology", "model")
  /\ Advance(IF "model" \in GraphModels THEN {"model"} ELSE GraphModels)
  /\ UNCHANGED <<listed, todo, oddities, place, item, content, env>>

\* Only the ids this run learned are written; the others stay as they were.
verify ==
  /\ At("verify", "start") /\ Advance({})
  /\ env' = [e \in EnvKeys |->
               IF e \in run.known THEN "live"
               ELSE IF e = "model" /\ "other model" \in run.known THEN "other" ELSE env[e]]
  /\ UNCHANGED <<listed, todo, oddities, place, item, content>>

-----------------------------------------------------------------------------
(* The service *)

WorkspaceAppears ==
  /\ workspace = "hidden" /\ workspace' = "visible"
  /\ UNCHANGED <<client, capacity, folders, shared, item, content, env>>

NameReleased(k) ==
  /\ item[k] = "held" /\ item' = [item EXCEPT ![k] = "free"]
  /\ UNCHANGED <<client, place, content, env>>

OperationEnds(k) ==
  /\ item[k] = "making"
  /\ \/ item' = [item EXCEPT ![k] = "live"] /\ AsUsual
     \/ item' = [item EXCEPT ![k] = "free"] /\ Odd
  /\ UNCHANGED <<run, listed, todo, deployed, place, content, env>>

DatabaseAppears ==
  /\ item["eventhouse"] = "live" /\ ~database /\ database' = TRUE
  /\ UNCHANGED <<client, place, item, loaded, rows, stray, bound, model, env>>

ModelAppears ==
  /\ item["ontology"] = "live" /\ ~model /\ model' = TRUE
  /\ UNCHANGED <<client, place, item, loaded, rows, database, stray, bound, env>>

-----------------------------------------------------------------------------
Stage ==
  \/ findWorkspace \/ awaitWorkspace \/ assign_capacity
  \/ list_folders \/ walkFolders
  \/ \E k \in Kinds : find_item(k) \/ create_item(k) \/ poll_lro(k)
  \/ upload_csvs \/ load_lakehouse_table
  \/ find_kql_database \/ create_kql_tables \/ ingest_csv_files
  \/ find_ontology \/ create_ontology
  \/ findModel \/ verify

Service ==
  \/ WorkspaceAppears \/ DatabaseAppears \/ ModelAppears
  \/ \E k \in Kinds : NameReleased(k) \/ OperationEnds(k)

PlainRun == main(Full, FALSE, FALSE)

FabricNext ==
  \/ \E stages \in {Full, Graph, Telemetry} \cup {{s} : s \in Full}, force, byId \in BOOLEAN :
       main(stages, force, byId)
  \/ Stage \/ Fails \/ Service

-----------------------------------------------------------------------------
Deployed ==
  /\ folders = Path
  /\ item = [k \in Kinds |-> "live"]
  /\ loaded = Tables /\ bound
  /\ env["lakehouse"] = "live" /\ env["eventhouse"] = "live"

\* A full run that exits with 0 leaves the folder path, the three items with the
\* lakehouse's tables, the ontology bound to the lakehouse that exists, and the ids of
\* the lakehouse and the eventhouse in the env file, whatever earlier runs left behind:
\* half a folder path, names not released, creations that were still going on.  Of the
\* telemetry's rows and the graph model it says nothing.
FullRunDeploys == deployed => Deployed

\* eventhouse.py:5-7, the stage "creates tables from scenario.yaml definitions, and ingests
\* CSV telemetry data": after a full run that exits with 0 every stream has rows.  It has
\* none when the KQL database was not listed yet (or was another project's): the stage
\* prints "Wait a minute and retry" and returns, and the run goes on to its exit with 0.
ReportedRows == deployed => \A t \in Streams : rows[t] # Nothing

\* No run without --force, however it ends, takes back tables or telemetry.
DataSurvives ==
  [][~run.force => /\ loaded \subseteq loaded'
                   /\ \A t \in Streams : rows[t] <= rows'[t]]_fabricVars

\* No part overwrites another, no property is of two types, a type is named by one of
\* its own properties, a column of a table goes to the property of its type of that
\* name, and a relationship joins its two types by keys of theirs.
Resolves(schema) ==
  LET parts == DefinitionParts(schema)
      P(kind) == {parts[i] : i \in {j \in DOMAIN parts : parts[j].path[1] = kind}}
      props(id) == UNION {t.props : t \in {u \in P("EntityTypes") : u.path[2] = id}}
  IN /\ \A i, j \in DOMAIN parts : parts[i].path = parts[j].path => i = j
     /\ \A t, u \in P("EntityTypes") : t # u => t.props \cap u.props = {}
     /\ \A t \in P("EntityTypes") : t.names \subseteq t.props
     /\ \A b \in P("DataBindings") :
          /\ {c[2] : c \in b.columns} = props(b.path[2])
          /\ \A c, d \in b.columns : c[2] = d[2] => c = d
     /\ \A c \in P("Contextualizations") : \E r \in P("RelationshipTypes") :
          /\ r.path[2] = c.path[2]
          /\ c.keys[1] \in props(r.ends[1]) /\ c.keys[2] \in props(r.ends[2])

\* What the ontology is created from is one definition that hangs together, whatever
\* the schema's types share: the ids OntologyBuilder gives out and looks up again
\* resolve within it.
DefinitionResolves == At("ontology", "create") => Resolves(run.schema)
=============================================================================
