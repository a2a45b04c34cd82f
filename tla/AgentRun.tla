------------------------------ MODULE AgentRun ------------------------------
(***************************************************************************)
(* One call of stream_completion (services/llm/agent.py): an agent run     *)
(* with retries of a model and a queue of models to fall back on.  What    *)
(* decides about a retry is foundation/retry.py.  The consumer of the      *)
(* generator may close it at every step; the agent service is external.    *)
(***************************************************************************)
EXTENDS Integers

CONSTANTS AgentModels,   \* length of get_model_fallback_queue()
          AgentRetries,  \* max_retries of stream_completion
          AgentUpdates   \* bound on the updates of one agent run

ASSUME AgentRunAssumption ==
    /\ AgentModels \in Nat \ {0}
    /\ AgentRetries \in Nat \ {0}
    /\ AgentUpdates \in Nat

VARIABLES
    agentPc,      \* what the generator does next
    agentModel,   \* model_idx + 1; 0 before the loop
    agentAttempt, \* attempt
    exc,          \* the exception that ended the present attempt: its kind, or "none"
    agentUpdates, \* updates of the present agent run that were forwarded
    run,          \* "ended" when an agent run has ended without an exception
    agentAbort,   \* the abort event is set
    agentOutcome  \* the terminal event, or "closed"

agentVars == <<agentPc, agentModel, agentAttempt, exc, agentUpdates, run, agentAbort,
               agentOutcome>>

Outcomes == {"running", "done", "error", "aborted", "closed"}

AgentTypeOK ==
    /\ agentPc \in {"start", "build", "stream", "sleep", "metadata", "done", "over"}
    /\ agentModel \in 0 .. AgentModels
    /\ agentAttempt \in 0 .. AgentRetries
    /\ exc \in {"none", "retryable", "fatal"}
    /\ agentUpdates \in 0 .. AgentUpdates
    /\ run \in {"none", "ended"}
    /\ agentAbort \in BOOLEAN
    /\ agentOutcome \in Outcomes

AgentInit ==
    /\ agentPc = "start"
    /\ agentModel = 0
    /\ agentAttempt = 0
    /\ exc = "none"
    /\ agentUpdates = 0
    /\ run = "none"
    /\ agentAbort \in BOOLEAN
    /\ agentOutcome = "running"

EndWith(event) == agentOutcome' = event /\ agentPc' = "over"

\* "No user message found": the context window may have dropped it.
Refuse ==
    /\ agentPc = "start"
    /\ EndWith("error")
    /\ UNCHANGED <<agentModel, agentAttempt, exc, agentUpdates, run, agentAbort>>

Enter ==
    /\ agentPc = "start"
    /\ agentPc' = "build"
    /\ agentModel' = 1
    /\ UNCHANGED <<agentAttempt, exc, agentUpdates, run, agentAbort, agentOutcome>>

\* A mutated form of should_retry: the last attempt is retried too.
should_retryLast(kind) == kind # "fatal" /\ agentAttempt <= AgentRetries

\* should_retry: a fatal error is never retried, nor is the last attempt.
should_retry(kind) == kind # "fatal" /\ agentAttempt < AgentRetries - 1

\* The except clause.  Without a retry it breaks out of the attempts, and the code
\* behind them takes every break for a completed run.
HandleFailure(kind) ==
    \/ /\ should_retry(kind)
       /\ agentPc' = "sleep"
       /\ UNCHANGED agentOutcome
    \/ /\ ~should_retry(kind)
       /\ agentModel < AgentModels
       /\ agentPc' = "metadata"
       /\ UNCHANGED agentOutcome
    \/ /\ ~should_retry(kind)
       /\ agentModel = AgentModels
       /\ EndWith("error")

\* The agent is built, or taken from the cache, and its stream is opened.
BuildAgent ==
    /\ agentPc = "build"
    /\ agentPc' = "stream"
    /\ agentUpdates' = 0
    /\ UNCHANGED <<agentModel, agentAttempt, exc, run, agentAbort, agentOutcome>>

Raise(kind) ==
    /\ agentPc \in {"build", "stream"}
    /\ exc' = kind
    /\ HandleFailure(kind)
    /\ UNCHANGED <<agentModel, agentAttempt, agentUpdates, run, agentAbort>>

Forward ==
    /\ agentPc = "stream"
    /\ agentUpdates < AgentUpdates
    /\ IF ~agentAbort
         THEN agentUpdates' = agentUpdates + 1 /\ UNCHANGED <<agentPc, agentOutcome>>
         ELSE EndWith("aborted") /\ UNCHANGED agentUpdates
    /\ UNCHANGED <<agentModel, agentAttempt, exc, run, agentAbort>>

StreamEnds ==
    /\ agentPc = "stream"
    /\ run' = "ended"
    /\ agentPc' = "metadata"
    /\ UNCHANGED <<agentModel, agentAttempt, exc, agentUpdates, agentAbort, agentOutcome>>

\* After the sleep: the next attempt, or the next model when the range of attempts
\* is exhausted.
WakeUp ==
    /\ agentPc = "sleep"
    /\ exc' = "none"
    /\ IF agentAttempt < AgentRetries
         THEN agentAttempt' = agentAttempt + 1 /\ agentPc' = "build" /\ UNCHANGED agentModel
         ELSE IF agentModel < AgentModels
                THEN agentModel' = agentModel + 1 /\ agentAttempt' = 0 /\ agentPc' = "build"
                ELSE agentPc' = "metadata" /\ UNCHANGED <<agentModel, agentAttempt>>
    /\ UNCHANGED <<agentUpdates, run, agentAbort, agentOutcome>>

Metadata ==
    /\ agentPc = "metadata"
    /\ agentPc' = "done"
    /\ UNCHANGED <<agentModel, agentAttempt, exc, agentUpdates, run, agentAbort, agentOutcome>>

Done ==
    /\ agentPc = "done"
    /\ EndWith("done")
    /\ UNCHANGED <<agentModel, agentAttempt, exc, agentUpdates, run, agentAbort>>

\* _keepalive_wrap cancels the generator: abort, shutdown, timeout, client gone.
Close ==
    /\ agentPc # "over"
    /\ EndWith("closed")
    /\ UNCHANGED <<agentModel, agentAttempt, exc, agentUpdates, run, agentAbort>>

SetAgentAbort ==
    /\ ~agentAbort
    /\ agentAbort' = TRUE
    /\ UNCHANGED <<agentPc, agentModel, agentAttempt, exc, agentUpdates, run, agentOutcome>>

AgentNext ==
    \/ Refuse \/ Enter \/ BuildAgent \/ Forward \/ StreamEnds \/ WakeUp \/ Metadata \/ Done
    \/ \E kind \in {"retryable", "fatal"} : Raise(kind)
    \/ Close \/ SetAgentAbort

AgentSpec == AgentInit /\ [][AgentNext]_agentVars

-----------------------------------------------------------------------------
\* The run as its consumer sees it; an abort and a close stop it from outside.
Retried ==
    INSTANCE RetriedRun
    WITH Models  <- AgentModels,
         Tries   <- AgentRetries,
         model   <- agentModel,
         tries   <- IF agentModel = 0 THEN 0 ELSE agentAttempt + 1,
         failure <- exc,
         outcome <- IF agentOutcome \in {"aborted", "closed"} THEN "stopped" ELSE agentOutcome

\* stream_completion keeps the policy of should_retry: an attempt that failed is followed
\* by another one unless the error is fatal or the attempt is the last of MaxRetries; the
\* run ends in ERROR for want of a user message, or at once when the last model is given
\* up for one of these two reasons, and for no other; DONE is sent only behind a stream
\* that has ended.  With one model in the queue, the default, it does.  With two it does
\* not: DoneMeansAnswered.
RunImplementsRetries == Retried!Spec

\* The retry policy ends the attempts before their range does, so the branch behind
\* an exhausted range, which reports success, is never taken.
AttemptsWithinPolicy == agentAttempt < AgentRetries

\* agent.py:413, a model that was given up makes the loop "continue outer with next
\* model": so what ends in DONE is an answer.  With two models it is not: the break
\* reaches agent.py:430, which takes every break for a completed run, and the second
\* model is never asked.
DoneMeansAnswered == agentOutcome = "done" => run = "ended"
=============================================================================
