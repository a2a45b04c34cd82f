---------------------------- MODULE HostedStream ----------------------------
(***************************************************************************)
(* agentkit's own chat path: AgentApp.chat maps the agent's updates to     *)
(* frames (ToolCallBuffer) and stores the answer, wrap_stream_with_keep-   *)
(* alive pulls those frames and mixes in heartbeats, delegation events and *)
(* the abort, sse_with_disconnect pulls from it and watches the client.    *)
(* Each layer advances the one below it as a task with at most one frame   *)
(* in hand; a step here runs one layer to its next yield or await.         *)
(*                                                                         *)
(* The store is the in-memory one, which holds the message object itself   *)
(* and never suspends.  The arguments of a call arrive in JSON fragments:  *)
(* "whole", or "head" then "tail"; no other text parses.                   *)
(***************************************************************************)
EXTENDS Integers, Sequences, FiniteSets

CONSTANTS Calls,         \* ids the agent may give its function calls
          NoCall,        \* a fragment that carries no id
          ServerCall,    \* the id of a call the model's service makes itself
          Said,          \* bound: the updates the agent chooses from
          MaxUpdates,    \* bound: updates of the agent
          MaxDelegated   \* bound: delegation events

ASSUME HostedAssumption == /\ IsFiniteSet(Calls) /\ NoCall \notin Calls /\ ServerCall \notin Calls
                           /\ MaxUpdates \in Nat /\ MaxDelegated \in Nat

VARIABLES calls,      \* ToolCallBuffer: per id its phase, fragments and slot
          updates,    \* counts updates, for the bound
          chat,       \* where AgentApp.chat is
          outbox,     \* frames mapped and not yet yielded by chat
          content,    \* tokens in content_parts
          tools,      \* chat's tool_calls: the arguments per id
          message,    \* the assistant message in the store
          session,    \* the session is in the store
          keeper,     \* where the keepalive wrapper is
          ktask,      \* its task for chat's next frame
          kframe,     \* the frame that task returned
          delegations,\* counts delegation events, for the bound
          abort,      \* the abort event
          watcher,    \* where sse_with_disconnect is
          wtask, wframe,
          gone,       \* the client has disconnected
          shown       \* what the client got: tokens, calls, terminal frames

chatState == <<calls, updates, chat, outbox, content, tools, message>>
keepState == <<keeper, ktask, kframe, delegations>>
watchState == <<watcher, wtask, wframe, shown>>
envState == <<session, abort, gone>>
hostedVars == <<chatState, keepState, watchState, envState>>

Ids == Calls \cup {ServerCall}
Fragments == {"none", "head", "tail", "whole"}
Terminals == {"DONE", "ERROR", "ABORTED"}
Frame(type, id, args) == [type |-> type, id |-> id, args |-> args]
Plain(type) == Frame(type, NoCall, "none")

(***************************************************************************)
(* ToolCallBuffer                                                          *)
(***************************************************************************)
Parses(args) == args \in {<<"whole">>, <<"head", "tail">>}
ParsedOr(args) == IF Parses(args) THEN "given" ELSE "empty"
OpenCalls(cs) == {c \in Calls : cs[c].phase = "open"}
TrailingOpen(cs) == {c \in OpenCalls(cs) : \A d \in OpenCalls(cs) : cs[d].slot <= cs[c].slot}
NextSlot(cs) == Cardinality({i \in 1..MaxUpdates : \E c \in Calls : cs[c].slot >= i}) + 1
Closed(cs, c) == [cs EXCEPT ![c].phase = "closed"]
EndOf(cs, c) == Frame("END", c, ParsedOr(cs[c].args))

SettleKeepsOpen(cs, c, frames) ==
  IF Parses(cs[c].args) THEN [calls |-> cs, frames |-> Append(frames, EndOf(cs, c))]
  ELSE [calls |-> cs, frames |-> frames]

\* _try_close: the call is closed as soon as its fragments parse.
Settle(cs, c, frames) ==
  IF Parses(cs[c].args) THEN [calls |-> Closed(cs, c), frames |-> Append(frames, EndOf(cs, c))]
  ELSE [calls |-> cs, frames |-> frames]

Received(fragment) == IF fragment = "none" THEN <<>> ELSE <<fragment>>

\* A call starts, or starts again: its END follows at once when all is there, else a DELTA.
Opening(cs, c, fragment, before) ==
  LET opened == [cs EXCEPT ![c] = [phase |-> "open", args |-> Received(fragment),
                                   slot |-> NextSlot(cs)]]
      frames == Append(before, Frame("START", c, "none"))
  IN Settle(opened, c, IF fragment = "none" \/ Parses(<<fragment>>) THEN frames
                       ELSE Append(frames, Frame("DELTA", c, "none")))

Continuing(cs, c, fragment) ==
  Settle([cs EXCEPT ![c].args = @ \o Received(fragment)], c,
         IF fragment = "none" THEN <<>> ELSE <<Frame("DELTA", c, "none")>>)

\* A fragment without an id belongs to the call opened last; a new id closes that call.
IngestFunctionCall(cs, id, fragment) ==
  LET trailing == TrailingOpen(cs)
      targets == IF id = NoCall THEN trailing ELSE {id}
  IN IF targets = {} THEN [calls |-> cs, frames |-> <<>>]
     ELSE LET c == CHOOSE x \in targets : TRUE IN
       CASE cs[c].phase = "open" -> Continuing(cs, c, fragment)
         [] cs[c].phase = "closed" -> Opening(cs, c, fragment, <<>>)
         [] cs[c].phase = "absent" /\ trailing = {} -> Opening(cs, c, fragment, <<>>)
         [] OTHER -> LET last == CHOOSE x \in trailing : TRUE
                     IN Opening(Closed(cs, last), c, fragment, <<EndOf(cs, last)>>)

\* Every order of the open calls' END frames: the dict's own is that of first insertion.
FlushOpenCalls(cs) ==
  {ends \in [1..Cardinality(OpenCalls(cs)) -> {EndOf(cs, c) : c \in OpenCalls(cs)}] :
     \A c \in OpenCalls(cs) : \E i \in DOMAIN ends : ends[i] = EndOf(cs, c)}

\* map_update_to_events: the buffer and the frames of one content of an update.
MapUpdate(cs, u) ==
  CASE u.kind = "text" -> [calls |-> cs, frames |-> <<Plain("TOKEN")>>]
    [] u.kind = "function_call" -> IngestFunctionCall(cs, u.id, u.fragment)
    [] u.kind = "function_result" -> [calls |-> cs, frames |-> <<Frame("RESULT", u.id, "none")>>]
    [] u.kind = "server" ->
         [calls |-> cs, frames |-> <<Frame("START", ServerCall, "none"),
           Frame("END", ServerCall, "given"), Frame("RESULT", ServerCall, "none")>>]
Updates ==
  [kind : {"text", "server"}]
  \cup [kind : {"function_call"}, id : Calls, fragment : Fragments]
  \cup [kind : {"function_call"}, id : {NoCall}, fragment : Fragments \ {"none"}]
  \cup [kind : {"function_result"}, id : Calls]

(***************************************************************************)
(* AgentApp.chat                                                           *)
(***************************************************************************)
\* _accumulate: an END without its START makes the call; the text of a RESULT is left out.
AccumulatedFirst(frame, ts) ==
  CASE frame.type = "START" /\ ts[frame.id] = "absent" -> [ts EXCEPT ![frame.id] = "open"]
    [] frame.type = "END" /\ ts[frame.id] = "open" -> [ts EXCEPT ![frame.id] = frame.args]
    [] OTHER -> ts

Accumulated(frame, ts) ==
  CASE frame.type = "START" -> [ts EXCEPT ![frame.id] = "open"]
    [] frame.type = "END" -> [ts EXCEPT ![frame.id] = frame.args]
    [] OTHER -> ts

\* chat yields a frame, which completes the wrapper's task.
Yields(frame) == ktask' = "ready" /\ kframe' = frame

\* The generator is over and its locals are gone.
NoCalls == [c \in Calls |-> [phase |-> "absent", args |-> <<>>, slot |-> 0]]
NoTools == [c \in Ids |-> "absent"]
Forgets == calls' = NoCalls /\ outbox' = <<>> /\ content' = 0 /\ tools' = NoTools

Final(status) == message' = [status |-> status, content |-> content, tools |-> tools]

ChatRuns == ktask = "running" /\ UNCHANGED <<keeper, delegations, watchState, envState>>

\* append_message of the placeholder: the session and the thread are there.
append_message == session /\ message' = [message EXCEPT !.status = "streaming"]

\* The session, its thread, the user's message and the placeholder: no step suspends.
ChatStarts ==
  /\ ChatRuns /\ chat = "new" /\ append_message
  /\ chat' = "waiting"
  /\ UNCHANGED <<calls, updates, outbox, content, tools, ktask, kframe>>

AgentUpdates(u) ==
  /\ ChatRuns /\ chat = "waiting" /\ outbox = <<>> /\ updates < MaxUpdates
  /\ updates' = updates + 1
  /\ LET mapped == MapUpdate(calls, u) IN calls' = mapped.calls /\ outbox' = mapped.frames
  /\ UNCHANGED <<chat, content, tools, message, ktask, kframe>>

AgentStops ==
  /\ ChatRuns /\ chat = "waiting" /\ outbox = <<>>
  /\ outbox' \in FlushOpenCalls(calls)
  /\ calls' = [c \in Calls |-> IF calls[c].phase = "open" THEN [calls[c] EXCEPT !.phase = "closed"]
                               ELSE calls[c]]
  /\ chat' = "flushing"
  /\ UNCHANGED <<updates, content, tools, message, ktask, kframe>>

ChatYields ==
  /\ ChatRuns /\ chat \in {"waiting", "flushing"} /\ outbox # <<>>
  /\ LET frame == Head(outbox) IN
       /\ content' = IF frame.type = "TOKEN" THEN content + 1 ELSE content
       /\ tools' = Accumulated(frame, tools)
       /\ Yields(frame)
  /\ outbox' = Tail(outbox)
  /\ UNCHANGED <<calls, updates, chat, message>>

\* The agent raises: what was accumulated is kept, open calls stay open.
AgentFails ==
  /\ ChatRuns /\ chat = "waiting" /\ outbox = <<>>
  /\ Final("error") /\ Yields(Plain("ERROR")) /\ chat' = "done"
  /\ UNCHANGED <<calls, updates, outbox, content, tools>>

\* update_message raises for a deleted session, and the error path follows.
ChatFinishes ==
  /\ ChatRuns /\ chat = "flushing" /\ outbox = <<>>
  /\ IF session THEN Final("complete") /\ Yields(Plain("DONE"))
     ELSE Final("error") /\ Yields(Plain("ERROR"))
  /\ chat' = "done"
  /\ UNCHANGED <<calls, updates, outbox, content, tools>>

ChatReturns ==
  /\ ChatRuns /\ chat = "done"
  /\ chat' = "ended" /\ ktask' = "stopped" /\ Forgets
  /\ UNCHANGED <<updates, message, kframe>>

\* Cancelled at an await, or left behind at a yield: neither is an Exception, so the
\* message stays as it is.
ChatIsCut == /\ chat' = IF chat \in {"ended", "new"} THEN chat ELSE "cut"
             /\ ktask' = "none" /\ kframe' = Plain("none")
             /\ Forgets /\ UNCHANGED <<updates, message>>

(***************************************************************************)
(* wrap_stream_with_keepalive                                              *)
(***************************************************************************)
KeeperRuns == wtask = "running" /\ UNCHANGED <<watcher, shown, envState>>
Hands(frame) == wtask' = "ready" /\ wframe' = frame

AbortSeenBetween == abort /\ ktask # "running"
AbortSeen == abort

KeeperAborts ==
  /\ KeeperRuns /\ keeper \in {"top", "wait"} /\ AbortSeen
  /\ Hands(Plain("ABORTED")) /\ keeper' = "returning"
  /\ UNCHANGED <<chatState, ktask, kframe, delegations>>

KeeperPulls ==
  /\ KeeperRuns /\ keeper = "top" /\ ~AbortSeen
  /\ ktask' = IF ktask = "none" THEN "running" ELSE ktask
  /\ keeper' = "wait"
  /\ UNCHANGED <<chatState, kframe, delegations, wtask, wframe>>

KeeperForwards ==
  /\ KeeperRuns /\ keeper = "wait" /\ ~AbortSeen /\ ktask = "ready"
  /\ Hands(kframe) /\ ktask' = "none" /\ kframe' = Plain("none") /\ keeper' = "drain"
  /\ UNCHANGED <<chatState, delegations>>

\* The interval passes; a chat that has frames to yield answers long before.
KeepAlive ==
  /\ KeeperRuns /\ keeper = "wait" /\ ~AbortSeen
  /\ ktask = "running" /\ chat = "waiting" /\ outbox = <<>>
  /\ Hands(Plain("KEEPALIVE")) /\ keeper' = "drain"
  /\ UNCHANGED <<chatState, ktask, kframe, delegations>>

\* The queue holds an event by now, or is empty.
KeeperDrains ==
  /\ KeeperRuns /\ keeper = "drain"
  /\ \/ /\ delegations < MaxDelegated /\ delegations' = delegations + 1
        /\ Hands(Plain("DELEGATION")) /\ UNCHANGED keeper
     \/ keeper' = "top" /\ UNCHANGED <<delegations, wtask, wframe>>
  /\ UNCHANGED <<chatState, ktask, kframe>>

KeeperStops ==
  /\ KeeperRuns /\ keeper = "wait" /\ ~AbortSeen /\ ktask = "stopped"
  /\ keeper' = "closed" /\ wtask' = "stopped"
  /\ UNCHANGED <<chatState, ktask, kframe, delegations, wframe>>

\* Behind ABORTED the finally block cancels the task; a frame it holds is lost.
KeeperReturns ==
  /\ KeeperRuns /\ keeper = "returning"
  /\ ChatIsCut /\ keeper' = "closed" /\ wtask' = "stopped"
  /\ UNCHANGED <<delegations, wframe>>

(***************************************************************************)
(* sse_with_disconnect                                                     *)
(***************************************************************************)
Shows(frame) ==
  shown' = [tokens |-> IF frame.type = "TOKEN" THEN shown.tokens + 1 ELSE shown.tokens,
            calls |-> CASE frame.type = "START" -> [shown.calls EXCEPT ![frame.id] = "open"]
                        [] frame.type = "END" -> [shown.calls EXCEPT ![frame.id] = frame.args]
                        [] OTHER -> shown.calls,
            terminals |-> shown.terminals \cup ({frame.type} \cap Terminals)]

WatcherYields ==
  /\ watcher = "wait" /\ ~gone /\ wtask = "ready"
  /\ Shows(wframe) /\ wtask' = "none" /\ wframe' = Plain("none") /\ watcher' = "yielded"
  /\ UNCHANGED <<chatState, keepState, envState>>

\* The frame is written, to a client that is there or not.
WatcherResumes ==
  /\ watcher = "yielded" /\ watcher' = "wait" /\ wtask' = "running"
  /\ UNCHANGED <<chatState, keepState, wframe, shown, envState>>

WatcherStops ==
  /\ watcher = "wait" /\ ~gone /\ wtask = "stopped" /\ watcher' = "closed"
  /\ UNCHANGED <<chatState, keepState, wtask, wframe, shown, envState>>

\* The finally block: every layer below is cancelled or closed where it stands.
ClosesAll == /\ watcher' = "closed" /\ keeper' = "closed" /\ wtask' = "none"
             /\ wframe' = Plain("none")
             /\ ChatIsCut /\ UNCHANGED <<delegations, shown, envState>>

\* A poll, with or without a frame at hand, finds the client gone.
SeesDisconnect == watcher = "wait" /\ gone /\ ClosesAll

\* The server cancels the response: the same cleanup; only on_disconnect is not called.
ServerCancels == watcher \in {"wait", "yielded"} /\ ClosesAll

(***************************************************************************)
(* The surroundings                                                        *)
(***************************************************************************)
Aborts == ~abort /\ watcher # "closed" /\ abort' = TRUE
          /\ UNCHANGED <<chatState, keepState, watchState, session, gone>>
Disconnects == ~gone /\ watcher # "closed" /\ gone' = TRUE
          /\ UNCHANGED <<chatState, keepState, watchState, session, abort>>
\* The session is read when chat finishes: no step before tells when it went.
Deletes == session /\ chat = "flushing" /\ session' = FALSE
          /\ UNCHANGED <<chatState, keepState, watchState, abort, gone>>

HostedInit ==
  /\ calls = NoCalls /\ updates = 0 /\ chat = "new" /\ outbox = <<>> /\ content = 0
  /\ tools = NoTools
  /\ message = [status |-> "none", content |-> 0, tools |-> tools]
  /\ keeper = "top" /\ ktask = "none" /\ kframe = Plain("none")
  /\ delegations = 0 /\ session = TRUE /\ abort = FALSE /\ gone = FALSE
  /\ watcher = "wait" /\ wtask = "running" /\ wframe = Plain("none")
  /\ shown = [tokens |-> 0, calls |-> [c \in Ids |-> "absent"], terminals |-> {}]

ChatSteps == ChatStarts \/ ChatYields \/ ChatFinishes \/ ChatReturns
KeeperSteps == KeeperAborts \/ KeeperPulls \/ KeeperForwards \/ KeepAlive
               \/ KeeperDrains \/ KeeperStops \/ KeeperReturns
WatcherSteps == WatcherYields \/ WatcherResumes \/ WatcherStops \/ SeesDisconnect

HostedNext ==
  \/ ChatSteps \/ AgentStops \/ AgentFails \/ \E u \in Said \cap Updates : AgentUpdates(u)
  \/ KeeperSteps \/ WatcherSteps \/ ServerCancels
  \/ Aborts \/ Disconnects \/ Deletes

(***************************************************************************)
(* Properties                                                              *)
(***************************************************************************)
\* The calls a client sees are bracketed whatever fragments the agent sends: no
\* START inside a call, no DELTA or END outside one, and none open behind DONE.
CallsBracketed ==
  [][\A f \in {wframe} : watcher = "wait" /\ watcher' = "yielded" =>
       /\ f.type = "START" => shown.calls[f.id] # "open"
       /\ f.type \in {"DELTA", "END"} => shown.calls[f.id] = "open"
       /\ f.type = "DONE" => \A c \in Ids : shown.calls[c] # "open"]_hostedVars

\* A client that got DONE finds in the store what it was shown: every token, and the
\* arguments of every call; unless the session was deleted since.
DoneIsStored ==
  "DONE" \in shown.terminals =>
    /\ message.status = "complete" /\ message.content = shown.tokens
    /\ \A c \in Ids : message.tools[c] = shown.calls[c]

\* An abort, or a client that leaves, ends the response and what runs behind it,
\* although the agent may never say another word.
StreamStops == (abort \/ gone) ~> (watcher = "closed" /\ ktask # "running")
=============================================================================
