------------------------------ MODULE ChatTurn ------------------------------
(***************************************************************************)
(* The chat turn of one session: POST /api/chat/{id} (routers/chat.py:     *)
(* send_message, event_generator, _keepalive_wrap, _accumulate_event), the *)
(* abort endpoint with the abort-event registry, and the message lifecycle *)
(* of ConversationTurn (services/conversation/_lifecycle.py) on top of a   *)
(* store whose writes may be lost.                                         *)
(*                                                                         *)
(* Everything runs on one asyncio loop, so two requests interleave only    *)
(* where the code awaits or yields; a label of pc is such a point and an   *)
(* action is the code between two of them.  Keys of different sessions     *)
(* never meet in the registry, so one session suffices.                    *)
(***************************************************************************)
EXTENDS Integers, Sequences

CONSTANTS Sends,             \* the POST requests, each with its own ConversationTurn
          Agents,            \* agent ids of the scenario
          Orchestrator,      \* the default agent id, "orchestrator"
          None,              \* no entry in the registry
          MaxTokens,         \* bound on the TOKEN events of one stream
          ScenarioResolved,  \* scope.scenario_name is not empty
          LLMOpsConfigured,  \* LLMOPS_BACKEND is set: app.state.llmops is not None
          InputGuardrails,   \* input guardrails are configured
          OutputGuardrails   \* output guardrails are configured

ASSUME ChatTurnAssumption ==
    /\ Orchestrator \in Agents
    /\ None \notin Sends
    /\ MaxTokens \in Nat
    /\ {ScenarioResolved, LLMOpsConfigured, InputGuardrails, OutputGuardrails}
         \subseteq BOOLEAN

VARIABLES
    exists,     \* the session document is in the store
    user,       \* user[s]: the user message of s is in the store
    stored,     \* stored[s]: status and content of s's assistant message in the store
    events,     \* _abort_events: the request whose asyncio.Event is registered per agent
    abortSet,   \* the requests whose asyncio.Event is set
    shutdown,   \* shutdown_event.is_set()
    pc,         \* where each request is suspended
    agent,      \* _active_agent_id of each request
    turn,       \* _assistant_message: status and content of the object in memory
    buf,        \* _content_buffer: how many tokens it holds, or ErrorText
    pend,       \* the event yielded to the client and not accumulated yet
    tokens,     \* TOKEN events sent to the client
    terminals,  \* terminal events sent to the client
    audited,    \* the text execute_output_guardrails was called with
    lost        \* the requests whose final write did not reach the store

session  == <<exists, user, stored>>
registry == <<events, abortSet, shutdown>>
memory   == <<turn, buf, pend>>
client   == <<tokens, terminals>>
vars == <<session, registry, pc, agent, memory, client, audited, lost>>

ErrorText  == -1   \* content replaced by an error message
NotAudited == -2   \* the output guardrails have not run
Contents   == ErrorText .. MaxTokens

FinalStatus   == {"complete", "error", "aborted"}
MessageStatus == {"none", "streaming"} \cup FinalStatus
TerminalEvent == {"DONE", "ERROR", "ABORTED"}

Preparing == {"prep", "started"}                        \* inside send_message
Awaiting  == {"loading", "begin", "streaming", "finalizing", "post"}
Running   == Awaiting \cup {"yielded", "cleanup", "autofinal"}
Refused   == {"not_found", "conflict", "failed"}
Over      == {"ended", "killed"}
Labels    == {"idle", "registered", "abandoned", "crashed"}
               \cup Preparing \cup Running \cup Refused \cup Over

NoMessage == [status |-> "none", content |-> 0]

TypeOK ==
    /\ exists \in BOOLEAN
    /\ user \in [Sends -> BOOLEAN]
    /\ stored \in [Sends -> [status : MessageStatus, content : Contents]]
    /\ events \in [Agents -> Sends \cup {None}]
    /\ abortSet \in SUBSET Sends
    /\ shutdown \in BOOLEAN
    /\ pc \in [Sends -> Labels]
    /\ agent \in [Sends -> Agents]
    /\ turn \in [Sends -> [status : MessageStatus, content : Contents]]
    /\ buf \in [Sends -> Contents]
    /\ pend \in [Sends -> TerminalEvent \cup {"none", "TOKEN"}]
    /\ tokens \in [Sends -> 0 .. MaxTokens]
    /\ terminals \in [Sends -> Seq(TerminalEvent)]
    /\ audited \in [Sends -> Contents \cup {NotAudited}]
    /\ lost \in SUBSET Sends

Init ==
    /\ exists = TRUE
    /\ user = [s \in Sends |-> FALSE]
    /\ stored = [s \in Sends |-> NoMessage]
    /\ events = [a \in Agents |-> None]
    /\ abortSet = {}
    /\ shutdown = FALSE
    /\ pc = [s \in Sends |-> "idle"]
    /\ agent = [s \in Sends |-> Orchestrator]
    /\ turn = [s \in Sends |-> NoMessage]
    /\ buf = [s \in Sends |-> 0]
    /\ pend = [s \in Sends |-> "none"]
    /\ tokens = [s \in Sends |-> 0]
    /\ terminals = [s \in Sends |-> <<>>]
    /\ audited = [s \in Sends |-> NotAudited]
    /\ lost = {}

Goto(s, label) == pc' = [pc EXCEPT ![s] = label]
Send(s, event) == terminals' = [terminals EXCEPT ![s] = Append(@, event)]

-----------------------------------------------------------------------------
(* send_message, up to the EventSourceResponse it returns.                 *)

\* store.get has returned: 404, 409, a stale event popped, or a free key.
GuardCheck(s, a) ==
    /\ pc[s] = "idle"
    /\ agent' = [agent EXCEPT ![s] = a]
    /\ \/ /\ ~exists
          /\ Goto(s, "not_found")
          /\ UNCHANGED events
       \/ /\ exists
          /\ events[a] \notin abortSet \cup {None}
          /\ Goto(s, "conflict")
          /\ UNCHANGED events
       \/ /\ exists
          /\ events[a] \in abortSet \cup {None}
          /\ Goto(s, "prep")
          /\ events' = [events EXCEPT ![a] = None]
    /\ UNCHANGED <<session, abortSet, shutdown, memory, client, audited, lost>>

\* ensure_thread, then turn.start: append_message, written or given up after retries.
StartTurn(s) ==
    /\ pc[s] = "prep"
    /\ \E written \in BOOLEAN : user' = [user EXCEPT ![s] = written]
    /\ Goto(s, "started")
    /\ UNCHANGED <<exists, stored, registry, agent, memory, client, audited, lost>>

\* ensure_thread, or the title update of a first message, raises: HTTP 500.
PrepareFails(s) ==
    /\ pc[s] \in Preparing
    /\ Goto(s, "failed")
    /\ UNCHANGED <<session, registry, agent, memory, client, audited, lost>>

\* _abort_events[_guard_key] = abort_event, whatever is registered there by now.
Register(s) ==
    /\ pc[s] = "started"
    /\ events' = [events EXCEPT ![agent[s]] = s]
    /\ Goto(s, "registered")
    /\ UNCHANGED <<session, abortSet, shutdown, agent, memory, client, audited, lost>>

-----------------------------------------------------------------------------
(* event_generator.                                                        *)

\* The client is gone before the response asks the generator for a first event:
\* an async generator that was never started does not run its finally block.
Abandon(s) ==
    /\ pc[s] = "registered"
    /\ Goto(s, "abandoned")
    /\ UNCHANGED <<session, registry, agent, memory, client, audited, lost>>

\* Line 265 evaluates the name settings, which the module does not define, when
\* the scope has no scenario: NameError before the try block.
GenStart(s) ==
    /\ pc[s] = "registered"
    /\ Goto(s, IF ScenarioResolved THEN "loading" ELSE "crashed")
    /\ UNCHANGED <<session, registry, agent, memory, client, audited, lost>>

\* Session reload and input guardrails; both refusals send ERROR and return.
Load(s) ==
    /\ pc[s] = "loading"
    /\ \/ /\ exists
          /\ Goto(s, "begin")
          /\ UNCHANGED terminals
       \/ /\ ~exists \/ InputGuardrails
          /\ Goto(s, "cleanup")
          /\ Send(s, "ERROR")
    /\ UNCHANGED <<session, registry, agent, memory, tokens, audited, lost>>

\* turn.begin_response: the placeholder, written or given up after retries.
BeginResponse(s) ==
    /\ pc[s] = "begin"
    /\ turn' = [turn EXCEPT ![s].status = "streaming"]
    /\ \E written \in BOOLEAN :
          stored' = IF written THEN [stored EXCEPT ![s] = turn'[s]] ELSE stored
    /\ Goto(s, "streaming")
    /\ UNCHANGED <<exists, user, registry, agent, buf, pend, client, audited, lost>>

\* A mutated form of MayForward: only the shutdown is looked at.
MayForwardAfterAbort(s) == ~shutdown

\* _keepalive_wrap hands on an event of the LLM only while the abort event is unset,
\* event_generator only while there is no shutdown.
MayForward(s) == s \notin abortSet /\ ~shutdown

\* The LLM yields text; it is sent to the client before it is accumulated.
EmitToken(s) ==
    /\ pc[s] = "streaming"
    /\ MayForward(s)
    /\ tokens[s] < MaxTokens
    /\ tokens' = [tokens EXCEPT ![s] = @ + 1]
    /\ pend' = [pend EXCEPT ![s] = "TOKEN"]
    /\ Goto(s, "yielded")
    /\ UNCHANGED <<session, registry, agent, turn, buf, terminals, audited, lost>>

\* A mutated form of NextTerminal: nothing waits on the abort event.
NextTerminalUnaborted(s) == IF s \in abortSet THEN {} ELSE {"DONE", "ERROR"}

\* The LLM's terminal event, or ABORTED in its place once the abort event is set.
NextTerminal(s) == IF s \in abortSet THEN {"ABORTED"} ELSE {"DONE", "ERROR"}

EmitTerminal(s) ==
    /\ pc[s] = "streaming"
    /\ ~shutdown
    /\ \E e \in NextTerminal(s) :
          /\ Send(s, e)
          /\ pend' = [pend EXCEPT ![s] = e]
    /\ Goto(s, "yielded")
    /\ UNCHANGED <<session, registry, agent, turn, buf, tokens, audited, lost>>

\* An event or a heartbeat arrives while shutdown_event is set: ABORTED and return.
ShutdownSeen(s) ==
    /\ pc[s] = "streaming"
    /\ shutdown
    /\ Send(s, "ABORTED")
    /\ Goto(s, "cleanup")
    /\ UNCHANGED <<session, registry, agent, memory, tokens, audited, lost>>

\* A mutated form of StatusOf: every answer is finalized as COMPLETE.
StatusOfAny(event) == "complete"

StatusOf(event) == CASE event = "DONE" -> "complete"
                     [] event = "ABORTED" -> "aborted"
                     [] event = "ERROR" -> "error"

\* A mutated form of AccumulateToken: the token does not count.
AccumulateTokenNever(s) == UNCHANGED buf

AccumulateToken(s) == buf' = [buf EXCEPT ![s] = @ + 1]

\* finalize and finalize_error up to the write: the message object has its status
\* and its content, and the buffer is what the content was joined from.
Finalize(s, status, content) ==
    /\ turn' = [turn EXCEPT ![s] = [status |-> status, content |-> content]]
    /\ buf' = [buf EXCEPT ![s] = content]

\* The client has taken the event: _accumulate_event.
Accumulate(s) ==
    /\ pc[s] = "yielded"
    /\ pend' = [pend EXCEPT ![s] = "none"]
    /\ \/ /\ pend[s] = "TOKEN"
          /\ AccumulateToken(s)
          /\ Goto(s, "streaming")
          /\ UNCHANGED turn
       \/ /\ pend[s] \in TerminalEvent
          /\ Finalize(s, StatusOf(pend[s]), IF pend[s] = "ERROR" THEN ErrorText ELSE buf[s])
          /\ Goto(s, "finalizing")
    /\ UNCHANGED <<session, registry, agent, client, audited, lost>>

\* update_message with its retries: the object is in the store, or the write is lost.
PersistFinal(s) ==
    \/ stored' = [stored EXCEPT ![s] = turn[s]] /\ UNCHANGED lost
    \/ lost' = lost \cup {s} /\ UNCHANGED stored

\* The end of finalize: the write, then the buffers are cleared.
FinalWrite(s) ==
    /\ pc[s] = "finalizing"
    /\ PersistFinal(s)
    /\ buf' = [buf EXCEPT ![s] = 0]
    /\ Goto(s, "post")
    /\ UNCHANGED <<exists, user, registry, agent, turn, pend, client, audited>>

\* Output guardrails on get_content(), then the LLMOps trace: line 277 evaluates
\* the undefined name settings, and the NameError is answered with an ERROR event.
Post(s) ==
    /\ pc[s] = "post"
    /\ audited' = IF OutputGuardrails /\ turn[s].status = "complete"
                    THEN [audited EXCEPT ![s] = buf[s]] ELSE audited
    /\ IF LLMOpsConfigured THEN Send(s, "ERROR") ELSE UNCHANGED terminals
    /\ Goto(s, "cleanup")
    /\ UNCHANGED <<session, registry, agent, memory, tokens, lost>>

-----------------------------------------------------------------------------
(* The ways out of the try block, and the finally block.                   *)

\* A final write that is cancelled while it is awaited is lost.
Interrupted(s) == lost' = IF pc[s] \in {"finalizing", "autofinal"}
                            THEN lost \cup {s} ELSE lost

\* A mutated form of Timeout: the stream is not bounded.
TimeoutNever(s) == FALSE

\* asyncio.timeout(CHAT_TIMEOUT_SECONDS) expires: at an await of the generator
\* it is answered with ERROR; while the response task is sending, that task is
\* cancelled and the generator is closed at its yield.
Timeout(s) ==
    /\ \/ /\ pc[s] \in Awaiting
          /\ Send(s, "ERROR")
       \/ /\ pc[s] = "yielded"
          /\ UNCHANGED terminals
    /\ Interrupted(s)
    /\ Goto(s, "cleanup")
    /\ UNCHANGED <<session, registry, agent, memory, tokens, audited>>

\* The reload or the LLM stream raises: a classified ERROR event.
Raises(s) ==
    /\ pc[s] \in {"loading", "streaming"}
    /\ Send(s, "ERROR")
    /\ Goto(s, "cleanup")
    /\ UNCHANGED <<session, registry, agent, memory, tokens, audited, lost>>

\* The client disconnects: the generator is cancelled at its await or closed at
\* its yield.
Disconnect(s) ==
    /\ pc[s] \in Awaiting \cup {"yielded"}
    /\ Interrupted(s)
    /\ Goto(s, "cleanup")
    /\ UNCHANGED <<session, registry, agent, memory, client, audited>>

\* _abort_events.pop(_guard_key): the entry of the key goes, whoever owns it.
PopGuard(s) == events' = [events EXCEPT ![agent[s]] = None]

\* Mutated forms of CloseMessage: a STREAMING message is left as it is, or every
\* message is finalized again.
CloseMessageNever(s) == Goto(s, "ended") /\ UNCHANGED <<turn, buf>>
CloseMessageAlways(s) == Finalize(s, "aborted", buf[s]) /\ Goto(s, "autofinal")

\* A message that is still STREAMING in memory is finalized as ABORTED.
CloseMessage(s) ==
    \/ /\ turn[s].status = "streaming"
       /\ Finalize(s, "aborted", buf[s])
       /\ Goto(s, "autofinal")
    \/ /\ turn[s].status # "streaming"
       /\ Goto(s, "ended")
       /\ UNCHANGED <<turn, buf>>

\* The finally block up to the write of the auto-finalization.
Cleanup(s) ==
    /\ pc[s] = "cleanup"
    /\ PopGuard(s)
    /\ CloseMessage(s)
    /\ UNCHANGED <<session, abortSet, shutdown, agent, pend, client, audited, lost>>

\* The auto-finalization's write, under a timeout of 5 s and open to cancellation.
AutoFinalWrite(s) ==
    /\ pc[s] = "autofinal"
    /\ PersistFinal(s)
    /\ buf' = [buf EXCEPT ![s] = 0]
    /\ Goto(s, "ended")
    /\ UNCHANGED <<exists, user, registry, agent, turn, pend, client, audited>>

-----------------------------------------------------------------------------
(* Other requests and the process itself.                                  *)

\* POST /abort for agent a: its own event, else the orchestrator's, else nothing.
Abort(a) ==
    LET target == IF events[a] = None THEN events[Orchestrator] ELSE events[a]
    IN  /\ target # None
        /\ abortSet' = abortSet \cup {target}
        /\ UNCHANGED <<session, events, shutdown, pc, agent, memory, client, audited, lost>>

\* DELETE /api/sessions/{id}: the documents go, a generation in flight goes on.
DeleteSession ==
    /\ exists
    /\ exists' = FALSE
    /\ user' = [s \in Sends |-> FALSE]
    /\ stored' = [s \in Sends |-> NoMessage]
    /\ UNCHANGED <<registry, pc, agent, memory, client, audited, lost>>

Shutdown ==
    /\ ~shutdown
    /\ shutdown' = TRUE
    /\ UNCHANGED <<session, events, abortSet, pc, agent, memory, client, audited, lost>>

\* The process dies and comes back: memory is gone, no request lives, and nothing
\* looks for the placeholders left behind.
Restart ==
    LET gone == {s \in Sends : pc[s] \notin Refused \cup Over \cup {"idle"}}
    IN  /\ gone # {}
        /\ pc' = [s \in Sends |-> IF s \in gone THEN "killed" ELSE pc[s]]
        /\ turn' = [s \in Sends |-> IF s \in gone THEN NoMessage ELSE turn[s]]
        /\ buf' = [s \in Sends |-> 0]
        /\ pend' = [s \in Sends |-> "none"]
        /\ events' = [a \in Agents |-> None]
        /\ abortSet' = {}
        /\ shutdown' = FALSE
        /\ UNCHANGED <<session, agent, client, audited, lost>>

\* What the code does by itself, without the client or the LLM: WF on it is
\* justified because the loop runs every ready task and asyncio.timeout bounds
\* every wait of the generator.
Progress(s) ==
    \/ StartTurn(s) \/ Register(s)
    \/ GenStart(s) \/ Load(s) \/ BeginResponse(s) \/ ShutdownSeen(s)
    \/ FinalWrite(s) \/ Post(s)
    \/ Timeout(s) \/ Cleanup(s) \/ AutoFinalWrite(s)

\* What the client, the LLM and failing calls may do.
Environment(s) ==
    \/ \E a \in Agents : GuardCheck(s, a)
    \/ PrepareFails(s) \/ Abandon(s)
    \/ EmitToken(s) \/ EmitTerminal(s) \/ Accumulate(s) \/ Raises(s) \/ Disconnect(s)

Next ==
    \/ \E s \in Sends : Progress(s) \/ Environment(s)
    \/ \E a \in Agents : Abort(a)
    \/ DeleteSession \/ Shutdown \/ Restart

Spec == Init /\ [][Next]_vars

\* Code after an await runs when it may, and so does the timeout once it is due.
LoopRuns == \A s \in Sends : WF_vars(Progress(s))

\* The steps that end a generation which was told to stop, the 300 s timeout
\* left out: the client reads, the LLM may hang.
StopSteps(s) ==
    \/ GenStart(s) \/ Load(s) \/ BeginResponse(s) \/ ShutdownSeen(s)
    \/ s \in abortSet /\ EmitTerminal(s)
    \/ Accumulate(s) \/ FinalWrite(s) \/ Post(s) \/ Cleanup(s) \/ AutoFinalWrite(s)

StopRuns == \A s \in Sends : WF_vars(StopSteps(s))

-----------------------------------------------------------------------------
(* Properties that hold.                                                   *)

\* What is stored is what the client was shown: a complete answer has every
\* token that was sent, an aborted one all but at most the last, which may have
\* been sent and not accumulated when the stream was cut (event sent before
\* _accumulate_event).
StoredMatchesStream ==
    \A s \in Sends :
        /\ stored[s].status = "complete" => stored[s].content = tokens[s]
        /\ stored[s].status = "aborted" => stored[s].content \in {tokens[s] - 1, tokens[s]}

\* A complete answer is stored only if DONE was the first terminal event the
\* client got, an error answer only if ERROR was.
StoredMatchesTerminal ==
    \A s \in Sends :
        /\ stored[s].status = "complete" => Head(terminals[s]) = "DONE"
        /\ stored[s].status = "error" => Head(terminals[s]) = "ERROR"

\* However its generation ended, a request leaves a STREAMING placeholder behind
\* only when its one final write did not reach the store (finally block of
\* event_generator).
PlaceholderClosedUnlessLost ==
    \A s \in Sends :
        pc[s] = "ended" /\ stored[s].status = "streaming" => s \in lost

\* How the message in memory and the message in the store go with the place a
\* request has reached: no action finds a final answer in the store before its own
\* final write.  It implies PlaceholderClosedUnlessLost, and with it every step can
\* be shown to preserve it.
MessageOK(s) ==
    /\ pc[s] \in Refused \cup Preparing \cup
            {"idle", "registered", "abandoned", "crashed", "loading", "begin"}
          => turn[s].status = "none" /\ stored[s].status = "none" /\ terminals[s] = <<>>
    /\ pc[s] \in {"streaming", "yielded"} => turn[s].status = "streaming"
    /\ pc[s] = "streaming" \/ (pc[s] = "yielded" /\ pend[s] = "TOKEN")
          => terminals[s] = <<>>
    /\ pc[s] \in {"finalizing", "autofinal", "post"} => turn[s].status \in FinalStatus
    /\ pc[s] \in {"streaming", "yielded", "finalizing", "autofinal"}
          => stored[s].status \in {"none", "streaming"}
    /\ pc[s] = "cleanup" /\ turn[s].status \in {"none", "streaming"}
          => stored[s].status \in {"none", turn[s].status}
    /\ pc[s] \in {"post", "ended"} \/ (pc[s] = "cleanup" /\ turn[s].status \in FinalStatus)
          => stored[s].status # "streaming" \/ s \in lost

MessageInv == \A s \in Sends : MessageOK(s)

\* How the buffer and the message follow the stream: at every place the tokens sent
\* and not accumulated are at most the one being yielded.  It implies
\* StoredMatchesStream, and bounds the buffer as TypeOK states.
StreamOK(s) ==
    /\ pc[s] \in Preparing \cup {"idle", "registered", "loading", "begin"}
          => buf[s] = 0 /\ tokens[s] = 0
    /\ pc[s] = "streaming" => buf[s] = tokens[s]
    /\ pc[s] = "yielded" =>
          \/ pend[s] = "TOKEN" /\ buf[s] = tokens[s] - 1 /\ tokens[s] > 0
          \/ pend[s] \in TerminalEvent /\ buf[s] = tokens[s]
    /\ pc[s] = "cleanup" /\ turn[s].status = "streaming"
          => buf[s] \in {tokens[s] - 1, tokens[s]} /\ buf[s] >= 0
    /\ pc[s] \in {"finalizing", "autofinal"} =>
          /\ turn[s].status = "complete" => turn[s].content = tokens[s]
          /\ turn[s].status = "aborted"
                => turn[s].content \in {tokens[s] - 1, tokens[s]}
    /\ stored[s].status = "complete" => stored[s].content = tokens[s]
    /\ stored[s].status = "aborted" => stored[s].content \in {tokens[s] - 1, tokens[s]}

StreamInv == \A s \in Sends : StreamOK(s)

\* A registered event belongs to a request for that agent which has not run its
\* finally block; the exceptions are generators that never entered their try.
GuardHasOwner ==
    \A a \in Agents : \A s \in Sends :
        events[a] = s =>
            /\ agent[s] = a
            /\ \/ pc[s] \in Awaiting \cup {"registered", "yielded", "cleanup"}
               \/ pc[s] = "abandoned"
               \/ pc[s] = "crashed" /\ ~ScenarioResolved

\* Once a stream has sent a terminal event, its abort event is set or the server
\* shuts down, it sends no further token.
QuietAfterStop ==
    [][\A s \in Sends :
          terminals[s] # <<>> \/ s \in abortSet \/ shutdown => tokens'[s] = tokens[s]]_vars

\* The answer of a turn is finalized at most once and a final answer is never
\* rewritten: the turns of this module implement TurnLifecycle.
StoredStatus == [s \in Sends |-> stored[s].status]

\* The requests that will not write to the store any more.
Settled ==
    {s \in Sends : \/ pc[s] \in {"post", "ended", "killed"} \cup Refused
                  \/ /\ pc[s] = "cleanup"
                     /\ turn[s].status # "streaming"}

Lifecycle == INSTANCE TurnLifecycle
    WITH Turns <- Sends, msg <- StoredStatus, closed <- Settled

TurnsImplementLifecycle == Lifecycle!Spec

\* Every generation that was started ends, hung LLM or client included, because
\* asyncio.timeout bounds it.
GenerationEnds == LoopRuns => \A s \in Sends : pc[s] \in Running ~> pc[s] \in Over

\* An abort or a shutdown ends a generation even if the LLM never yields again and
\* the timeout is far away (the abort waiter and the heartbeat of _keepalive_wrap).
StopEndsGeneration ==
    StopRuns => \A s \in Sends :
        pc[s] \in Running /\ (s \in abortSet \/ shutdown) ~> pc[s] \in Over

-----------------------------------------------------------------------------
(* Statements of the source that its code does not keep.                   *)

\* chat.py:202-203, "reject if a generation is already in flight for this agent
\* in this session".
SingleFlight ==
    \A s, t \in Sends :
        s # t /\ agent[s] = agent[t] => ~(pc[s] \in Running /\ pc[t] \in Running)

\* chat.py:218, the 409 says "Generation already in progress for ...".
ConflictMeansInFlight ==
    [][\A s \in Sends :
          pc[s] # "conflict" /\ pc'[s] = "conflict" =>
              \E t \in Sends \ {s} :
                  agent[t] = agent'[s] /\ pc[t] \in Running \cup {"registered"}]_vars

\* chat.py:15, "Terminal events (DONE, ERROR, ABORTED) end the stream".
TerminalEndsStream == \A s \in Sends : Len(terminals[s]) <= 1

\* _lifecycle.py:276-277, get_content is "used by output guardrails to check the
\* full response after streaming completes".
GuardrailsSeeResponse ==
    \A s \in Sends : audited[s] # NotAudited => audited[s] = turn[s].content

\* chat.py:541, abort finds nothing registered: "No active generation found".
ActiveIsAbortable ==
    \A s \in Sends :
        pc[s] \in Awaiting \cup {"yielded"} /\ s \notin abortSet
            => events[agent[s]] # None
=============================================================================
