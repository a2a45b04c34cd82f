------------------------------ MODULE RunLoop ------------------------------
(***************************************************************************)
(* run_with_retry_and_revival (agentkit/hosting/run_loop.py) under the     *)
(* main pass of run_agent_stream (agentkit/hosting/run_engine.py): the     *)
(* agent run of AgentRun again, with a stall timeout on every update,      *)
(* revivals of a stalled run, a race of every wait against the abort, and  *)
(* a flush of the tool calls a run leaves open.  The agent is external.    *)
(***************************************************************************)
EXTENDS Integers

CONSTANTS Models,      \* length of model_queue
          MaxRetries,  \* max_retries
          MaxRevivals, \* max_revivals
          MaxUpdates,  \* bound on the updates of one agent run
          BlockTools   \* there is a tool_block_predicate

ASSUME RunLoopAssumption ==
    /\ Models \in Nat \ {0}
    /\ MaxRetries \in Nat /\ MaxRevivals \in Nat /\ MaxUpdates \in Nat
    /\ BlockTools \in BOOLEAN

VARIABLES
    pc,        \* what the generator does next
    model,     \* model_idx + 1; 0 before the loop
    attempt,   \* attempt
    revival,   \* revival_attempt
    updates,   \* updates of the present agent run that were forwarded
    why,       \* how the present agent run has ended
    toolCall,  \* whether the client has been shown a tool call that is not closed yet
    abort,     \* abort_event is set
    runs,      \* agent runs that have been started, up to one more than RunBudget
    outcome    \* the terminal frame of the engine

vars == <<pc, model, attempt, revival, updates, why, toolCall, abort, runs, outcome>>

Lesser(a, b) == IF a <= b THEN a ELSE b
Larger(a, b) == IF a >= b THEN a ELSE b

\* The most agent runs one call may cost.
RunBudget == Models * Larger(1, MaxRetries) * (1 + MaxRevivals)

TypeOK ==
    /\ pc \in {"start", "build", "stream", "flush", "sleep", "over"}
    /\ model \in 0 .. Models
    /\ attempt \in 0 .. MaxRetries
    /\ revival \in 0 .. MaxRevivals
    /\ updates \in 0 .. MaxUpdates
    /\ why \in {"none", "ended", "blocked", "abort", "stall", "retryable", "fatal"}
    /\ toolCall \in {"closed", "open"}
    /\ abort \in BOOLEAN
    /\ runs \in Nat
    /\ outcome \in {"running", "done", "error", "aborted", "blocked", "silent"}

Init ==
    /\ pc = "start"
    /\ model = 0
    /\ attempt = 0
    /\ revival = 0
    /\ updates = 0
    /\ why = "none"
    /\ toolCall = "closed"
    /\ abort \in BOOLEAN
    /\ runs = 0
    /\ outcome = "running"

Terminate(frame) == outcome' = frame /\ pc' = "over"

\* The next model of the queue; Start enters it.
TryModel(m) == model' = m /\ attempt' = 0 /\ pc' = "build"

Start ==
    /\ pc = "start"
    /\ TryModel(1)
    /\ UNCHANGED <<revival, updates, why, toolCall, abort, runs, outcome>>

\* run_fn opens a stream with a tool-call buffer of its own.
Open ==
    /\ pc' = "stream"
    /\ updates' = 0
    /\ why' = "none"
    /\ runs' = Lesser(runs + 1, RunBudget + 1)

\* A stall is never retried, nor a fatal error, nor the last attempt.
ShouldRetry(kind) == kind = "retryable" /\ attempt < MaxRetries - 1

\* A mutated form of Handle: the break to the next model ends the loop as completed.
HandleAsCompleted(kind) ==
    \/ /\ ShouldRetry(kind)
       /\ pc' = "sleep"
       /\ UNCHANGED <<model, attempt, outcome>>
    \/ /\ ~ShouldRetry(kind)
       /\ Terminate(IF model < Models THEN "done" ELSE "error")
       /\ UNCHANGED <<model, attempt>>

\* The outer except clause: retry, or the next model, or a terminal event.
Handle(kind) ==
    \/ /\ ShouldRetry(kind)
       /\ pc' = "sleep"
       /\ UNCHANGED <<model, attempt, outcome>>
    \/ /\ ~ShouldRetry(kind)
       /\ model < Models
       /\ TryModel(model + 1)
       /\ UNCHANGED outcome
    \/ /\ ~ShouldRetry(kind)
       /\ model = Models
       /\ Terminate("error")
       /\ UNCHANGED <<model, attempt>>

Build ==
    /\ pc = "build"
    /\ Open
    /\ revival' = 0
    /\ UNCHANGED <<model, attempt, toolCall, abort, outcome>>

\* agent_factory raises.
BuildFails(kind) ==
    /\ pc = "build"
    /\ why' = kind
    /\ Handle(kind)
    /\ UNCHANGED <<revival, updates, toolCall, abort, runs>>

\* An update is forwarded: it may open tool calls, or close the open ones.
Update ==
    /\ pc = "stream"
    /\ ~abort
    /\ updates < MaxUpdates
    /\ updates' = updates + 1
    /\ toolCall' \in {"closed", "open"}
    /\ UNCHANGED <<pc, model, attempt, revival, why, abort, runs, outcome>>

\* The agent run ends: its iterator is exhausted, raises, or is cancelled because
\* no update has come in time or the abort has won the race; or the predicate has
\* matched the next update.
RunEnds(reason) ==
    /\ pc = "stream"
    /\ why' = reason
    /\ pc' = "flush"
    /\ UNCHANGED <<model, attempt, revival, updates, toolCall, abort, runs, outcome>>

Stall == ~abort /\ RunEnds("stall")

Aborted == abort /\ RunEnds("abort")

Blocked == BlockTools /\ ~abort /\ RunEnds("blocked")

\* The abort is set after the wait for an update has ended and before the update is
\* forwarded: RunAborted comes before the flush, and the engine asks for no more.
AbortAtUpdate ==
    /\ pc = "stream"
    /\ abort
    /\ updates < MaxUpdates
    /\ Terminate("aborted")
    /\ UNCHANGED <<model, attempt, revival, updates, why, toolCall, abort, runs>>

\* A mutated form of NextRevival: a revival is not counted.
NextRevivalUncounted == revival

MayRevive   == revival < MaxRevivals
NextRevival == revival + 1

\* A mutated form of CloseCalls: a run that has stalled keeps its open calls.
CloseCallsUnlessStalled == toolCall' = IF why = "stall" THEN toolCall ELSE "closed"

\* RunTrailingFlush closes the calls the run has left open.
CloseCalls == toolCall' = "closed"

\* What follows the flush: a terminal event, a revival, or the outer except clause.
Flush ==
    /\ pc = "flush"
    /\ CloseCalls
    /\ \/ /\ why \in {"ended", "blocked", "abort"}
          /\ Terminate(CASE why = "ended" -> "done" [] why = "blocked" -> "blocked"
                         [] why = "abort" -> "aborted")
          /\ UNCHANGED <<model, attempt, revival, updates, why, runs>>
       \/ /\ why = "stall"
          /\ MayRevive
          /\ revival' = NextRevival
          /\ Open
          /\ UNCHANGED <<model, attempt, outcome>>
       \/ /\ why = "stall" => ~MayRevive
          /\ why \in {"stall", "retryable", "fatal"}
          /\ Handle(why)
          /\ UNCHANGED <<revival, updates, why, runs>>
    /\ UNCHANGED abort

\* After the sleep.  A range of attempts that is exhausted goes on to the next model
\* and leaves the loop without a terminal event after the last one.
Wake ==
    /\ pc = "sleep"
    /\ IF attempt < MaxRetries
         THEN attempt' = attempt + 1 /\ pc' = "build" /\ UNCHANGED <<model, outcome>>
         ELSE IF model < Models
                THEN TryModel(model + 1) /\ UNCHANGED outcome
                ELSE Terminate("silent") /\ UNCHANGED <<model, attempt>>
    /\ UNCHANGED <<revival, updates, why, toolCall, abort, runs>>

SetAbort ==
    /\ ~abort
    /\ abort' = TRUE
    /\ UNCHANGED <<pc, model, attempt, revival, updates, why, toolCall, runs, outcome>>

\* What the loop does by itself, the agent silent.
LoopStep == Start \/ Build \/ Stall \/ Aborted \/ AbortAtUpdate \/ Flush \/ Wake

AgentStep ==
    \/ Update \/ Blocked \/ RunEnds("ended")
    \/ \E kind \in {"retryable", "fatal"} : BuildFails(kind) \/ RunEnds(kind)

Next == LoopStep \/ AgentStep \/ SetAbort

Spec == Init /\ [][Next]_vars

-----------------------------------------------------------------------------
Fallback ==
    INSTANCE ModelFallback
    WITH run     <- IF why = "ended" THEN "ended" ELSE "none",
         outcome <- IF outcome \in {"aborted", "blocked"} THEN "stopped" ELSE outcome

\* The loop keeps the promise for every queue: it falls back, and ends in DONE after
\* a complete answer only.
LoopImplementsFallback == Fallback!Spec

\* Retries, revivals and models multiply, and no further: attempts that stall and
\* then fail do not earn new ones.
RunsWithinBudget == runs <= RunBudget

\* No new run and no terminal frame but ABORTED finds the client with a tool call of
\* an earlier run still open.
CallsClosed ==
    pc \in {"build", "sleep"} \/ outcome \in {"done", "error", "blocked"} => toolCall = "closed"

\* A loop that has begun comes to its end although the agent may fall silent at any point.
LoopEnds == pc # "start" ~> pc = "over"

\* run_loop.py:386-387, the range of attempts is "one initial attempt + max_retries
\* retries".
RetriesAsMany ==
    outcome = "error" /\ why = "retryable" => attempt = MaxRetries

\* run_loop.py:426-427, the loop drains "unfinished tool calls on every exit path so the
\* SSE contract stays clean".
ClosedAtEnd == pc = "over" => toolCall = "closed"
=============================================================================
