------------------------------ MODULE AppShell ------------------------------
(***************************************************************************)
(* The life of one server process: the two phases of its start (an in-     *)
(* memory session store at once, the upgrade to Cosmos behind the first    *)
(* requests), the worker that exports LLM traces, and the shutdown that    *)
(* drains it.  Cosmos outlives the process and is shared with the other    *)
(* replicas.  A request takes the store it finds when it begins and writes *)
(* to that one after any delay.                                            *)
(***************************************************************************)
EXTENDS Integers, Sequences

CONSTANTS Templates,   \* saved conversations the warm-up seeds
          Sessions,    \* ids of the sessions that requests create
          Traces,      \* traces the chats hand to the manager
          TraceDepth,  \* depth of the manager's queue
          MaxRestarts  \* bound: crashes and shutdowns

ASSUME ShellAssumption == TraceDepth \in Nat \ {0} /\ MaxRestarts \in Nat

VARIABLES process,   \* "up", "stopping" (before the trace manager), "draining", "down"
          startup,   \* app.state.startup_status
          store,     \* app.state.store: "memory" or "cosmos"
          warmup,    \* where _background_warmup is, and the templates it still seeds
          memory,    \* sessions in the in-memory store
          cosmos,    \* sessions in Cosmos
          templates, \* per template what Cosmos has of it
          requests,  \* per session the request that creates it, with the store it found,
                     \* whether the server was ready and which life of the process it was
          queue, worker, closing, fate,   \* LLMOpsTraceManager
          restarts

storeState == <<store, memory, cosmos, templates>>
traceState == <<queue, worker, closing, fate>>
shellVars == <<process, startup, warmup, storeState, requests, traceState, restarts>>

NoRequest == [phase |-> "none", store |-> "memory", ready |-> FALSE, life |-> 0]
NotSeeding == [at |-> "probe", left |-> {}]

\* Phase 1 leaves the process warming, while it serves already.
Phase1StatusReady == "ready"
Phase1Status == "warming"

(***************************************************************************)
(* _background_warmup                                                      *)
(***************************************************************************)
WarmupStep == process = "up" /\ UNCHANGED <<process, requests, traceState, restarts>>

GoesOn(step, left) == /\ warmup' = [at |-> step, left |-> left]
                      /\ startup' = IF step = "done" THEN "ready" ELSE startup

\* No endpoint, a client that cannot be built, a probe that fails or lasts two seconds.
StaysInMemory ==
  /\ WarmupStep /\ warmup.at = "probe"
  /\ GoesOn("done", {}) /\ UNCHANGED storeState

\* The swap and the registration of the breaker follow the probe without an await.
Upgrades ==
  /\ WarmupStep /\ warmup.at = "probe"
  /\ store' = "cosmos"
  /\ GoesOn(IF Templates = {} THEN "done" ELSE "seed", Templates)
  /\ UNCHANGED <<memory, cosmos, templates>>

\* One template of seed_saved_conversations: skipped when it is there or not readable,
\* else created and filled message by message, which may fail on the way.
Seeds(t) ==
  /\ WarmupStep /\ warmup.at = "seed" /\ t \in warmup.left
  /\ LET left == warmup.left \ {t} IN GoesOn(IF left = {} THEN "done" ELSE "seed", left)
  /\ \E seeded \in IF templates[t] = "absent" THEN {"absent", "partly", "whole"}
                   ELSE {templates[t]} :
       templates' = [templates EXCEPT ![t] = seeded]
  /\ UNCHANGED <<store, memory, cosmos>>

\* Reading the directory raises: the log says in-memory, the store stays swapped.
SeedingRaises ==
  /\ WarmupStep /\ warmup.at = "seed" /\ warmup.left = Templates
  /\ GoesOn("done", {}) /\ UNCHANGED storeState

(***************************************************************************)
(* Requests                                                                *)
(***************************************************************************)
RequestStep == process = "up" /\ UNCHANGED <<process, startup, warmup, traceState, restarts>>

\* /health/ready answers 503 before; its checks of the store and the scenario can only
\* turn what comes after into a 503 as well.
readiness == startup = "ready"

\* get_store reads app.state.store; a client may have seen the server report ready.
RequestBegins(s) ==
  /\ RequestStep /\ requests[s].phase = "none"
  /\ requests' = [requests EXCEPT ![s] = [phase |-> "began", store |-> store,
                                          ready |-> readiness, life |-> restarts]]
  /\ UNCHANGED storeState

Creates(s) ==
  /\ RequestStep /\ requests[s].phase = "began"
  /\ requests' = [requests EXCEPT ![s].phase = "acked"]
  /\ IF requests[s].store = "memory" THEN memory' = memory \cup {s} /\ UNCHANGED cosmos
     ELSE cosmos' = cosmos \cup {s} /\ UNCHANGED memory
  /\ UNCHANGED <<store, templates>>

CreateFails(s) ==
  /\ RequestStep /\ requests[s].phase = "began" /\ requests[s].store = "cosmos"
  /\ requests' = [requests EXCEPT ![s].phase = "failed"]
  /\ UNCHANGED storeState

(***************************************************************************)
(* LLMOpsTraceManager                                                      *)
(***************************************************************************)
TraceStep == process \in {"up", "stopping", "draining"}
             /\ UNCHANGED <<process, startup, warmup, storeState, requests, restarts>>

Trace(t) ==
  /\ TraceStep /\ fate[t] = "none"
  /\ IF closing \/ Len(queue) >= TraceDepth
     THEN fate' = [fate EXCEPT ![t] = "dropped"] /\ UNCHANGED queue
     ELSE fate' = [fate EXCEPT ![t] = "queued"] /\ queue' = Append(queue, t)
  /\ UNCHANGED <<worker, closing>>

WorkerTakes ==
  /\ TraceStep /\ worker = "waiting" /\ queue # <<>>
  /\ fate' = [fate EXCEPT ![Head(queue)] = "exporting"] /\ queue' = Tail(queue)
  /\ worker' = "exporting" /\ UNCHANGED closing

\* The wait of a second is over; a trace queued before the worker runs stays where it is.
WaitTimesOut == /\ TraceStep /\ worker = "waiting" /\ queue = <<>> /\ worker' = "woken"
                /\ UNCHANGED <<queue, closing, fate>>
WorkerWakes == /\ TraceStep /\ worker = "woken"
               /\ worker' = IF closing THEN "stopped" ELSE "waiting"
               /\ UNCHANGED <<queue, closing, fate>>

\* export returns, or raises what the worker logs.
Exports ==
  /\ TraceStep /\ worker = "exporting" /\ worker' = "waiting"
  /\ \E outcome \in {"exported", "failed"} :
       fate' = [t \in Traces |-> IF fate[t] = "exporting" THEN outcome ELSE fate[t]]
  /\ UNCHANGED <<queue, closing>>

(***************************************************************************)
(* Shutdown, crash and restart                                             *)
(***************************************************************************)
\* The shutdown event; a warm-up that still runs is cancelled, the store is closed.
Stops ==
  /\ process = "up" /\ restarts < MaxRestarts /\ process' = "stopping"
  /\ warmup' = IF warmup.at = "done" THEN warmup ELSE [at |-> "cancelled", left |-> {}]
  /\ UNCHANGED <<startup, storeState, requests, traceState, restarts>>

Closes ==
  /\ process = "stopping" /\ process' = "draining" /\ closing' = TRUE
  /\ UNCHANGED <<startup, warmup, storeState, requests, queue, worker, fate, restarts>>

Ends == /\ process' = "down"
        /\ UNCHANGED <<startup, warmup, storeState, requests, queue, closing, restarts>>
Drained == process = "draining" /\ worker = "stopped" /\ Ends /\ UNCHANGED <<worker, fate>>

\* Five seconds without the worker's end: it is cancelled, in an export or before one.
ForceCancelIdle == process = "draining" /\ worker \notin {"stopped", "exporting"}
                   /\ Ends /\ worker' = "stopped" /\ UNCHANGED fate
ForceCancel ==
  /\ process = "draining" /\ worker # "stopped" /\ Ends /\ worker' = "stopped"
  /\ fate' = [t \in Traces |-> IF fate[t] = "exporting" THEN "cancelled" ELSE fate[t]]

Fresh == /\ startup' = Phase1Status /\ store' = "memory" /\ warmup' = NotSeeding /\ memory' = {}
         /\ requests' = [s \in Sessions |-> IF requests[s].phase = "began"
                                            THEN [requests[s] EXCEPT !.phase = "failed"]
                                            ELSE requests[s]]
         /\ queue' = <<>> /\ worker' = "waiting" /\ closing' = FALSE
         /\ fate' = [t \in Traces |-> IF fate[t] \in {"queued", "exporting"} THEN "lost" ELSE fate[t]]
         /\ UNCHANGED <<cosmos, templates>>
Restarts == process = "down" /\ process' = "up" /\ restarts' = restarts + 1 /\ Fresh
Crashes == process # "down" /\ restarts < MaxRestarts /\ process' = "up"
           /\ restarts' = restarts + 1 /\ Fresh

\* A replica that starts as well creates a template, and fills it as far as it comes.
ReplicaSeeds(t) ==
  /\ templates[t] # "whole"
  /\ templates' = [templates EXCEPT ![t] = IF @ = "absent" THEN "partly" ELSE "whole"]
  /\ UNCHANGED <<process, startup, warmup, store, memory, cosmos, requests, traceState, restarts>>

ShellInit ==
  /\ process = "up" /\ startup = Phase1Status /\ store = "memory" /\ warmup = NotSeeding
  /\ memory = {} /\ cosmos = {} /\ templates = [t \in Templates |-> "absent"]
  /\ requests = [s \in Sessions |-> NoRequest]
  /\ queue = <<>> /\ worker = "waiting" /\ closing = FALSE /\ restarts = 0
  /\ fate = [t \in Traces |-> "none"]

WarmupSteps == StaysInMemory \/ Upgrades \/ SeedingRaises \/ \E t \in Templates : Seeds(t)
WorkerSteps == WorkerTakes \/ WaitTimesOut \/ WorkerWakes
CloseSteps == Closes \/ Drained \/ ForceCancel

ShellNext ==
  \/ WarmupSteps \/ WorkerSteps \/ CloseSteps \/ Exports \/ \E t \in Traces : Trace(t)
  \/ \E s \in Sessions : RequestBegins(s) \/ Creates(s) \/ CreateFails(s)
  \/ Stops \/ Crashes \/ Restarts \/ \E t \in Templates : ReplicaSeeds(t)

(***************************************************************************)
(* Properties                                                              *)
(***************************************************************************)
\* A client that waits for ready finds what it was acknowledged: for the life of that
\* process its session is in the store the process serves from, which is not exchanged
\* behind it, however requests and the warm-up interleave; and for good where it went to
\* Cosmos.  Behind a restart no more is meant: what was in memory is gone, and a process
\* that stays in memory does not serve what is in Cosmos.
Served == IF store = "memory" THEN memory ELSE cosmos
ReadyKeepsSessions ==
  \A s \in Sessions : requests[s].phase = "acked" /\ requests[s].ready =>
    /\ requests[s].life = restarts => s \in Served
    /\ requests[s].store = "cosmos" => s \in cosmos
=============================================================================
