----------------------------- MODULE Delegation -----------------------------
(***************************************************************************)
(* Calls of delegate_to_agent (tools/delegation/__init__.py) in one        *)
(* session: the orchestrator's model may ask for several at once, and they *)
(* share the abort event of the turn.  Each stores the task as a user      *)
(* message of the specialist's thread, streams the specialist with up to   *)
(* MaxRetries attempts to its tab, and stores the answer.  The SDK cancels *)
(* a call by raising CancelledError at whatever it awaits.                 *)
(***************************************************************************)
EXTENDS Integers, FiniteSets

CONSTANTS Tasks,       \* delegations of the session
          MaxRetries,  \* max_retries of _stream_specialist_with_retry
          StoreFails   \* the store may fail, which the call only logs

ASSUME DelegationAssumption == MaxRetries \in Nat \ {0} /\ StoreFails \in BOOLEAN

VARIABLES
    pc,       \* what each call awaits
    heard,    \* heard[t]: the call has found the turn's abort event
    attempt,  \* attempt
    text,     \* content_buffer: the attempts whose tokens it holds
    err,      \* last_error
    sawFatal, \* sawFatal[t]: an attempt of t has ended in a fatal error
    user,     \* user[t]: the task is in the specialist's thread
    answer,   \* answer[t]: the answer is in the specialist's thread, and its text
    closed,   \* closed[t]: the tab has been sent "done" or "error"
    result,   \* what the call has returned
    abort_event \* the abort event is set

thread == <<user, answer>>
stream == <<heard, attempt, text, err, sawFatal>>
vars   == <<pc, stream, thread, closed, result, abort_event>>

Attempts == 0 .. MaxRetries - 1
NoAnswer == [stored |-> FALSE, parts |-> {}]
Answers  == [stored : BOOLEAN, parts : SUBSET Attempts]

TypeOK ==
    /\ pc \in [Tasks -> {"user", "build", "stream", "sleep", "persistPartial", "persist", "over"}]
    /\ {heard, sawFatal, user, closed} \subseteq [Tasks -> BOOLEAN]
    /\ attempt \in [Tasks -> Attempts]
    /\ text \in [Tasks -> SUBSET Attempts]
    /\ err \in [Tasks -> {"none", "retryable", "fatal"}]
    /\ answer \in [Tasks -> Answers]
    /\ result \in [Tasks -> {"none", "complete", "aborted", "error", "cancelled"}]
    /\ abort_event \in BOOLEAN

Init ==
    /\ pc = [t \in Tasks |-> "user"]
    /\ heard = [t \in Tasks |-> FALSE]
    /\ attempt = [t \in Tasks |-> 0]
    /\ text = [t \in Tasks |-> {}]
    /\ err = [t \in Tasks |-> "none"]
    /\ sawFatal = [t \in Tasks |-> FALSE]
    /\ user = [t \in Tasks |-> FALSE]
    /\ answer = [t \in Tasks |-> NoAnswer]
    /\ closed = [t \in Tasks |-> FALSE]
    /\ result = [t \in Tasks |-> "none"]
    /\ abort_event = FALSE

Goto(t, label) == pc' = [pc EXCEPT ![t] = label]

Return(t, status) == result' = [result EXCEPT ![t] = status] /\ Goto(t, "over")

CloseTab(t) == closed' = [closed EXCEPT ![t] = TRUE]

\* What an append to the thread may do when it fails or is cancelled.
StoreUser(t)   == user' = [user EXCEPT ![t] = TRUE]
StoreAnswer(t) == answer' = [answer EXCEPT ![t] = [stored |-> TRUE, parts |-> text[t]]]

\* _persist_user_message, the look-up of the abort event, which an agent other than
\* the orchestrator never finds, and delegation_start.
PersistUser(t) ==
    /\ pc[t] = "user"
    /\ StoreUser(t) \/ (StoreFails /\ UNCHANGED user)
    /\ heard' \in {heard, [heard EXCEPT ![t] = TRUE]}
    /\ Goto(t, "build")
    /\ UNCHANGED <<attempt, text, err, sawFatal, answer, closed, result, abort_event>>

Build(t) ==
    /\ pc[t] = "build"
    /\ Goto(t, "stream")
    /\ UNCHANGED <<stream, thread, closed, result, abort_event>>

\* An update of the specialist, with text or with a tool event.  After the abort it
\* ends the call, and what there is of the answer is stored.
Update(t) ==
    /\ pc[t] = "stream"
    /\ \/ /\ ~(heard[t] /\ abort_event)
          /\ text' \in {text, [text EXCEPT ![t] = @ \cup {attempt[t]}]}
          /\ UNCHANGED <<pc, closed, result>>
       \/ /\ heard[t] /\ abort_event
          /\ CloseTab(t)
          /\ IF text[t] = {} THEN Return(t, "aborted")
                             ELSE Goto(t, "persistPartial") /\ UNCHANGED result
          /\ UNCHANGED text
    /\ UNCHANGED <<heard, attempt, err, sawFatal, thread, abort_event>>

StreamEnds(t) ==
    /\ pc[t] = "stream"
    /\ err' = [err EXCEPT ![t] = "none"]
    /\ Goto(t, "persist")
    /\ UNCHANGED <<heard, attempt, text, sawFatal, thread, closed, result, abort_event>>

LastAttempt(t) == attempt[t] = MaxRetries - 1

\* An attempt fails.  should_retry sends it to sleep; when it declines, nothing leaves
\* the loop, and the next attempt follows at once, if there is one.  After the last,
\* an error with text is an answer and an error without is an error.
AttemptFails(t, kind) ==
    /\ pc[t] \in {"build", "stream"}
    /\ err' = [err EXCEPT ![t] = kind]
    /\ sawFatal' = [sawFatal EXCEPT ![t] = @ \/ kind = "fatal"]
    /\ \/ /\ ~LastAttempt(t)
          /\ IF kind = "fatal"
               THEN attempt' = [attempt EXCEPT ![t] = @ + 1] /\ Goto(t, "build")
               ELSE Goto(t, "sleep") /\ UNCHANGED attempt
          /\ UNCHANGED <<closed, result>>
       \/ /\ LastAttempt(t)
          /\ text[t] # {}
          /\ Goto(t, "persist")
          /\ UNCHANGED <<attempt, closed, result>>
       \/ /\ LastAttempt(t)
          /\ text[t] = {}
          /\ CloseTab(t)
          /\ Return(t, "error")
          /\ UNCHANGED attempt
    /\ UNCHANGED <<heard, text, thread, abort_event>>

\* A mutated form of ClearText: the buffer is kept for the next attempt.
ClearTextNever(t) == UNCHANGED text

ClearText(t) == text' = [text EXCEPT ![t] = {}]

Wake(t) ==
    /\ pc[t] = "sleep"
    /\ ClearText(t)
    /\ attempt' = [attempt EXCEPT ![t] = @ + 1]
    /\ Goto(t, "build")
    /\ UNCHANGED <<heard, err, sawFatal, thread, closed, result, abort_event>>

PersistPartial(t) ==
    /\ pc[t] = "persistPartial"
    /\ StoreAnswer(t) \/ (StoreFails /\ UNCHANGED answer)
    /\ Return(t, "aborted")
    /\ UNCHANGED <<stream, user, closed, abort_event>>

Persist(t) ==
    /\ pc[t] = "persist"
    /\ StoreAnswer(t) \/ (StoreFails /\ UNCHANGED answer)
    /\ CloseTab(t)
    /\ Return(t, "complete")
    /\ UNCHANGED <<stream, user, abort_event>>

Cancelled(t) == Return(t, "cancelled") /\ CloseTab(t)

\* CancelledError at an await; a write under way may have reached the store.
Cancel(t) ==
    /\ pc[t] # "over"
    /\ IF pc[t] = "user" THEN StoreUser(t) \/ UNCHANGED user ELSE UNCHANGED user
    /\ IF pc[t] \in {"persist", "persistPartial"}
         THEN StoreAnswer(t) \/ UNCHANGED answer
         ELSE UNCHANGED answer
    /\ Cancelled(t)
    /\ UNCHANGED <<stream, abort_event>>

SetAbort == ~abort_event /\ abort_event' = TRUE /\ UNCHANGED <<pc, stream, thread, closed, result>>

Next ==
    \/ \E t \in Tasks :
          \/ PersistUser(t) \/ Build(t) \/ Update(t) \/ StreamEnds(t) \/ Wake(t)
          \/ \E kind \in {"retryable", "fatal"} : AttemptFails(t, kind)
          \/ PersistPartial(t) \/ Persist(t) \/ Cancel(t)
    \/ SetAbort

Spec == Init /\ [][Next]_vars

-----------------------------------------------------------------------------
\* Each retry starts with an empty buffer: what is stored and returned as the answer
\* is the text of one attempt, unless a fatal error has been passed over.
AnswerIsOneAttempt ==
    \A t \in Tasks : ~sawFatal[t] => text[t] \subseteq {attempt[t]}
                                     /\ Cardinality(answer[t].parts) <= 1

\* However the call ends, the specialist's tab does not stay busy, and a tab that has
\* been told of the end gets no retry.
TabFollowsCall ==
    \A t \in Tasks :
        /\ pc[t] = "over" => closed[t]
        /\ closed[t] => pc[t] \in {"persistPartial", "over"}

\* retry.py:129, "Never retry fatal errors".
FatalNotRetried ==
    [][\A t \in Tasks : err[t] = "fatal" /\ pc[t] = "build" => pc'[t] # "stream"]_vars

\* delegation/__init__.py:13, "Each delegation = one full conversation turn in the
\* specialist's thread": the task and its answer.
FullTurns ==
    \A t \in Tasks : pc[t] = "over" => (user[t] <=> answer[t].stored)
=============================================================================
