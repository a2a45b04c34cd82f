---------------------------- MODULE Provisioning ----------------------------
(***************************************************************************)
(* provision_scenario.py and the provisioners it runs one after the other: *)
(* seed_cosmos.py (Gremlin graph, then NoSQL telemetry), the AI Search     *)
(* indexes, and the topology file.  Every vertex, edge, document or        *)
(* pipeline object written is a step, so a run may stop between any two.   *)
(* The stores may hold what an earlier version of the scenario put there.  *)
(* The seeder has the files of the telecom packs built in and reads those  *)
(* of another pack's schema only when it is told to, which the             *)
(* orchestrator never does: such a pack is seeded by hand.                 *)
(***************************************************************************)
EXTENDS Integers, FiniteSets

CONSTANTS Vertices, Edges,    \* of the scenario's CSV files, and of older versions
          Current,            \* the vertices of the current version
          Docs,               \* telemetry documents, of any version
          CurrentDocs,
          Indexes,            \* the knowledge indexes
          MaxMishaps          \* bound: failures, and runs other than a plain one

ASSUME ProvisionAssumption ==
  /\ Edges \subseteq Vertices \X Vertices /\ Current \subseteq Vertices
  /\ CurrentDocs \subseteq Docs /\ MaxMishaps \in Nat

VARIABLES pack,      \* "telecom", with the files the seeder knows, or "other"
          prov,      \* the provisioning process
          mishaps,
          graph,     \* per vertex: absent, of an old version, or current
          edges,
          docs,      \* the telemetry container, likewise
          blobs,     \* the indexes whose container has the scenario's files
          search,    \* per index: its documents, and the objects of its pipeline
          report     \* of the last run: what PROVISION_DONE, or SEED_DONE, was printed for

stores == <<graph, edges, docs, blobs, search>>
provisionVars == <<pack, prov, mishaps, stores, report>>

Surfaces == {"graph", "telemetry", "kb"}
Seeded == {"graph", "telemetry"}
Versions == {"absent", "old", "current"}
CurrentEdges == {e \in Edges : e[1] \in Current /\ e[2] \in Current}
Objects == {"datasource", "skillset", "indexer"}

ProvisionTypeOK ==
  /\ pack \in {"telecom", "other"}
  /\ prov \in [step : {"idle", "wipe", "vertices", "edges", "telemetry", "preflight", "clean", "upload",
                       "source", "index", "skillset", "indexer", "poll"},
               surfaces : SUBSET Surfaces, wipe : BOOLEAN, failed : BOOLEAN, generic : BOOLEAN,
               upload : BOOLEAN,
               todo : SUBSET (Vertices \cup Edges \cup Docs \cup Indexes)]
  /\ mishaps \in 0..MaxMishaps
  /\ graph \in [Vertices -> Versions] /\ edges \subseteq Edges
  /\ docs \in [Docs -> Versions] /\ blobs \subseteq Indexes
  /\ search \in [Indexes -> [docs : {"none", "empty", "full"}, has : SUBSET Objects]]
  /\ report \in [surfaces : SUBSET Surfaces, wipe : BOOLEAN, generic : BOOLEAN]

AtRest == [step |-> "idle", surfaces |-> {}, wipe |-> FALSE, failed |-> FALSE,
           generic |-> FALSE, upload |-> FALSE, todo |-> {}]
NoReport == [surfaces |-> {}, wipe |-> FALSE, generic |-> FALSE]

ProvisionInit ==
  /\ pack \in {"telecom", "other"} /\ prov = AtRest /\ mishaps = 0 /\ report = NoReport
  /\ \/ graph = [v \in Vertices |-> "absent"] /\ edges = {}
     \/ graph = [v \in Vertices |-> "old"] /\ edges = Edges
  /\ docs \in {[d \in Docs |-> "absent"], [d \in Docs |-> "old"]}
  /\ \/ search = [i \in Indexes |-> [docs |-> "none", has |-> {}]] /\ blobs = {}
     \/ search = [i \in Indexes |-> [docs |-> "full", has |-> Objects]] /\ blobs = Indexes

-----------------------------------------------------------------------------
Mishap == mishaps < MaxMishaps /\ mishaps' = mishaps + 1
Fine == mishaps' = mishaps

\* The next subprocess, or the verdict: PROVISION_DONE when none returned non-zero.
Finish(failed) ==
  /\ prov' = AtRest
  /\ report' = IF failed THEN NoReport
               ELSE [surfaces |-> prov.surfaces, wipe |-> prov.wipe, generic |-> prov.generic]
KnowledgeBase(failed) ==
  IF "kb" \in prov.surfaces
  THEN prov' = [prov EXCEPT !.step = "preflight", !.failed = failed, !.todo = {}] /\ UNCHANGED report
  ELSE Finish(failed)
GoOn(step, todo) == prov' = [prov EXCEPT !.step = step, !.todo = todo] /\ UNCHANGED report

\* A file that is not there has no rows.
GraphRows(rows, generic) == {r \in rows : pack = "telecom" \/ generic}
TelemetryRows(generic) == {d \in CurrentDocs : pack = "telecom" \/ generic}

Begin(surfaces, wipe, generic, upload) ==
  /\ prov.step = "idle" /\ surfaces # {}
  /\ prov' = [AtRest EXCEPT
       !.surfaces = surfaces, !.wipe = wipe, !.generic = generic,
       !.upload = upload /\ "kb" \in surfaces,
       !.step = IF "graph" \in surfaces THEN IF wipe THEN "wipe" ELSE "vertices"
                ELSE IF "telemetry" \in surfaces THEN "telemetry" ELSE "preflight",
       !.todo = IF "graph" \in surfaces THEN IF wipe THEN {} ELSE GraphRows(Current, generic)
                ELSE IF "telemetry" \in surfaces THEN TelemetryRows(generic) ELSE {}]
  /\ report' = NoReport
  /\ UNCHANGED stores

provision(surfaces, wipe, upload) ==
  /\ Begin(surfaces, wipe, FALSE, upload)
  /\ IF pack = "telecom" /\ surfaces = Surfaces /\ ~wipe /\ upload THEN Fine ELSE Mishap

\* seed_cosmos.py --schema-driven, by hand.
seed_cosmos(surfaces, wipe) ==
  /\ pack = "other" /\ Begin(surfaces, wipe, TRUE, FALSE)
  /\ IF surfaces = Seeded /\ ~wipe THEN Fine ELSE Mishap

\* The orchestrator is killed, or the machine stops.
Killed ==
  /\ prov.step # "idle" /\ Mishap
  /\ prov' = AtRest
  /\ UNCHANGED <<stores, report>>

-----------------------------------------------------------------------------
(* seed_cosmos.py *)

\* Gremlin refused a query five times or for good, or an upsert raised: the process
\* ends non-zero and the telemetry that should follow is not seeded either.
SeedFails ==
  /\ prov.step \in {"wipe", "vertices", "edges", "telemetry"} /\ Mishap
  /\ KnowledgeBase(TRUE)
  /\ UNCHANGED stores

wipeGraph ==
  /\ prov.step = "wipe" /\ Fine
  /\ graph' = [v \in Vertices |-> "absent"] /\ edges' = {}
  /\ GoOn("vertices", GraphRows(Current, prov.generic))
  /\ UNCHANGED <<docs, blobs, search>>

\* fold().coalesce(unfold(), addV(..)): a vertex that exists keeps its properties.
seedVertex ==
  /\ prov.step = "vertices" /\ Fine
  /\ IF prov.todo = {} THEN GoOn("edges", GraphRows(CurrentEdges, prov.generic))
                           /\ UNCHANGED graph
     ELSE \E v \in prov.todo :
            /\ graph' = [graph EXCEPT ![v] = IF @ = "absent" THEN "current" ELSE @]
            /\ GoOn("vertices", prov.todo \ {v})
  /\ UNCHANGED <<edges, docs, blobs, search>>

\* Adding an edge to a vertex that is not there does nothing.
seedEdge ==
  /\ prov.step = "edges" /\ Fine
  /\ IF prov.todo # {}
     THEN \E e \in prov.todo :
            /\ edges' = edges \cup {f \in {e} : graph[f[1]] # "absent" /\ graph[f[2]] # "absent"}
            /\ GoOn("edges", prov.todo \ {e})
     ELSE /\ IF "telemetry" \in prov.surfaces THEN GoOn("telemetry", TelemetryRows(prov.generic))
                                              ELSE KnowledgeBase(FALSE)
          /\ UNCHANGED edges
  /\ UNCHANGED <<graph, docs, blobs, search>>

\* The pool upserts in any order.  --wipe does not reach this container.
seedTelemetry ==
  /\ prov.step = "telemetry" /\ Fine
  /\ IF prov.todo = {} THEN KnowledgeBase(FALSE) /\ UNCHANGED docs
     ELSE \E d \in prov.todo : /\ docs' = [docs EXCEPT ![d] = "current"]
                               /\ GoOn("telemetry", prov.todo \ {d})
  /\ UNCHANGED <<graph, edges, blobs, search>>

-----------------------------------------------------------------------------
(* azureaisearch/provision_search_index.py, one index at a time *)

\* The storage checks only warn.
preflight ==
  /\ prov.step = "preflight" /\ Fine
  /\ GoOn("clean", Indexes)
  /\ UNCHANGED stores

\* No index to create, a variable that is missing, a container or a client that raises.
RunRefuses ==
  /\ prov.step = "preflight" /\ Mishap
  /\ Finish(TRUE)
  /\ UNCHANGED stores

Doing(step) == prov.step = step /\ prov.todo # {}
\* The indexes are taken in the order of the manifest.
TheIndex == CHOOSE i \in prov.todo : TRUE
Pipeline(state, objects) ==
  search' = [search EXCEPT ![TheIndex] = [docs |-> state, has |-> objects]]
NextIndex == GoOn("clean", prov.todo \ {TheIndex})

\* Deletions that fail are passed over.
cleanUp ==
  /\ Doing("clean") /\ GoOn(IF prov.upload THEN "upload" ELSE "source", prov.todo)
  /\ \/ Pipeline(search[TheIndex].docs, search[TheIndex].has \cap {"datasource"}) /\ Fine
     \/ UNCHANGED search /\ Mishap
  /\ UNCHANGED <<graph, edges, docs, blobs>>

\* The files overwrite those of the same name; others stay in the container.
upload_files ==
  /\ Doing("upload") /\ GoOn("source", prov.todo) /\ Fine
  /\ blobs' = blobs \cup {TheIndex}
  /\ UNCHANGED <<graph, edges, docs, search>>

create(step, object, then) ==
  /\ Doing(step) /\ GoOn(then, prov.todo) /\ Fine
  /\ Pipeline(search[TheIndex].docs, search[TheIndex].has \cup {object})
  /\ UNCHANGED <<graph, edges, docs, blobs>>

create_data_source == create("source", "datasource", "index")
create_skillset == create("skillset", "skillset", "indexer")
create_indexer == create("indexer", "indexer", "poll")

\* The old index is deleted first (a failure is passed over, and keeps its
\* documents); then creating it may raise, and the loop goes on with the next one.
create_index ==
  /\ Doing("index")
  /\ \/ Pipeline("empty", search[TheIndex].has) /\ GoOn("skillset", prov.todo) /\ Fine
     \/ UNCHANGED search /\ GoOn("skillset", prov.todo) /\ Mishap
     \/ Pipeline("none", search[TheIndex].has) /\ NextIndex /\ Mishap
  /\ UNCHANGED <<graph, edges, docs, blobs>>

\* An exception of the upload, or of any of the four creations.
IndexFails ==
  /\ prov.step \in {"upload", "source", "skillset", "indexer"} /\ Mishap
  /\ NextIndex
  /\ UNCHANGED stores

\* The indexer is run and polled; one that failed or did not end counts as success, and
\* so does one that found no file.
poll_indexer ==
  /\ Doing("poll") /\ NextIndex
  /\ \/ /\ Pipeline(IF TheIndex \in blobs THEN "full" ELSE "empty", search[TheIndex].has)
        /\ Fine
     \/ UNCHANGED search /\ Mishap
  /\ UNCHANGED <<graph, edges, docs, blobs>>

\* A mutated form of searchDone: the verdict of the last subprocess alone.
searchDoneAnyway ==
  /\ prov.step = "clean" /\ prov.todo = {} /\ Fine
  /\ Finish(FALSE)
  /\ UNCHANGED stores

\* run prints how many indexes it created and returns; the process exits with 0.
searchDone ==
  /\ prov.step = "clean" /\ prov.todo = {} /\ Fine
  /\ Finish(prov.failed)
  /\ UNCHANGED stores

-----------------------------------------------------------------------------
Provisioner ==
  \/ wipeGraph \/ seedVertex \/ seedEdge \/ seedTelemetry
  \/ preflight \/ cleanUp \/ upload_files \/ create_data_source \/ create_index \/ create_skillset
  \/ create_indexer \/ poll_indexer \/ searchDone

\* The plain command of the pack.
PlainProvision == \/ pack = "telecom" /\ provision(Surfaces, FALSE, TRUE)
                  \/ seed_cosmos(Seeded, FALSE)

ProvisionNext ==
  /\ UNCHANGED pack
  /\ \/ \E surfaces \in SUBSET Surfaces, wipe, upload \in BOOLEAN :
             provision(surfaces, wipe, upload)
     \/ \E surfaces \in SUBSET Seeded, wipe \in BOOLEAN : seed_cosmos(surfaces, wipe)
     \/ Provisioner \/ SeedFails \/ RunRefuses \/ IndexFails \/ Killed

-----------------------------------------------------------------------------

GraphSeeded == (\A v \in Current : graph[v] # "absent") /\ CurrentEdges \subseteq edges
TelemetrySeeded == \A d \in CurrentDocs : docs[d] = "current"

Provisioned ==
  /\ GraphSeeded /\ TelemetrySeeded
  /\ \A i \in Indexes : search[i] = [docs |-> "full", has |-> Objects]

\* PROVISION_DONE, or SEED_DONE, is printed only when the run has seeded the graph and the
\* telemetry, of the files it could read, whatever earlier runs left half done: every
\* vertex before the edges, which vanish without it, no document missing, and after --wipe
\* a graph with nothing else in it and no vertex of an older version.  Of the knowledge
\* base, of a pack whose files the seeder does not read and of a container that was to be
\* wiped it says nothing: what is printed of them does not hold, as follows.
DoneMeansSeeded ==
  LET reads == pack = "telecom" \/ report.generic IN
  /\ "graph" \in report.surfaces /\ reads => GraphSeeded
  /\ "graph" \in report.surfaces /\ reads /\ report.wipe =>
       /\ \A v \in Vertices : graph[v] = IF v \in Current THEN "current" ELSE "absent"
       /\ edges = CurrentEdges
  /\ "telemetry" \in report.surfaces /\ reads => TelemetrySeeded

\* provision_scenario.py:172, "PROVISION_DONE - all selected surfaces succeeded": a graph
\* that was selected is seeded.  It is not where the pack is one the seeder has no files
\* of: the orchestrator does not pass --schema-driven, and the seeder ends with 0 on none.
ReportedGraph == "graph" \in report.surfaces => GraphSeeded

\* provision_scenario.py:172 of the knowledge base: every index is there, at least empty.
\* It may not be: an index whose creation raised is counted, and the process ends with 0.
ReportedIndexes ==
  "kb" \in report.surfaces => \A i \in Indexes : search[i].docs # "none"

\* provision_scenario.py:95, --wipe: "Wipe graph/telemetry containers before seeding".  Of
\* an older version no document is left.  But the seeder's telemetry step does not use the
\* flag, and upserting removes nothing.
ReportedTelemetry ==
  report.wipe /\ "telemetry" \in report.surfaces =>
    \A d \in Docs \ CurrentDocs : docs[d] = "absent"
=============================================================================
