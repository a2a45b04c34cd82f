---------------------------- MODULE LlmServices ----------------------------
(***************************************************************************)
(* The providers behind LLMService (app/services/llm): the echo and mock   *)
(* ones, which recite a reply, the one over a vendor's streaming API       *)
(* (openai.py), and what the agent provider makes of its context and of    *)
(* one run's updates (agent.py, _event_mapping.py; AgentRun has its        *)
(* retries).  The vendor and the agent framework are external.  A text is  *)
(* a sequence of characters, of which " " stands for white space.  The     *)
(* events of one chunk are sent in one step: a consumer that closes the    *)
(* generator between two of them sees fewer.                               *)
(***************************************************************************)
EXTENDS Integers, Sequences, SequencesExt, FiniteSets

CONSTANTS Chars,        \* characters
          Histories,    \* contexts: sequences of [role, text, calls]
          MockText,     \* "text" of _MOCK_RESPONSE
          AfterTool,    \* its "after_tool"
          MockCalls,    \* how many "tool_calls" it has
          CallIndexes,  \* indexes of the calls a vendor's message may hold
          Fragments,    \* pieces the arguments of a call come in
          MaxChunks     \* bound on the chunks of a stream

\* A user's message has a text (ChatRequest refuses an empty one), and _MOCK_RESPONSE has
\* both its texts.
Roles == {"system", "user", "assistant", "tool"}
ASSUME LlmAssumption ==
  /\ {" ", "E", "0"} \subseteq Chars
  /\ Histories \subseteq Seq([role : Roles, text : Seq(Chars), calls : Nat])
  /\ \A h \in Histories : \A i \in DOMAIN h : h[i].role = "user" => h[i].text # <<>>
  /\ MockText \in Seq(Chars) /\ AfterTool \in Seq(Chars)
  /\ MockCalls \in Nat /\ CallIndexes \subseteq Nat /\ Fragments \in Nat \ {0}

VARIABLES
    provider,  \* settings.llm_provider
    history,   \* messages
    prompt,    \* what the agent is asked, or what the echo repeats
    at,        \* place in the script, or chunks read
    calls,     \* tool_calls_in_progress: arguments heard of each call, by index
    spelled,   \* pieces of each call the vendor has sent
    finished,  \* the vendor has sent a finish reason
    usage,     \* usage
    aborting,  \* the abort event is set
    events,    \* events sent
    status     \* "streaming", or how the generator ended

llmVars == <<provider, history, prompt, at, calls, spelled, finished, usage, aborting,
             events, status>>

Ev(event, id, data) == [event |-> event, id |-> id, data |-> data]
Plain(event) == Ev(event, 0, <<>>)
Token(chars) == Ev("token", 0, chars)

\* ------------------------------------------------------ what is asked

\* The elements of s at some places, in their order.
Picked(s, places) == FlattenSeq([i \in DOMAIN s |-> IF i \in places THEN <<s[i]>> ELSE <<>>])

\* extract_user_message: the most recent user message, or nothing.
UserMessage(messages) ==
  LET asked == {i \in DOMAIN messages : messages[i].role = "user"}
  IN  IF asked = {} THEN <<>> ELSE messages[Max(asked)].text

\* _filter_prior_messages: without the system prompt and the query at the end.
Spoken(messages) ==
  Picked(messages, {i \in DOMAIN messages : messages[i].role \in {"user", "assistant", "tool"}})
Prior(messages) ==
  LET spoken == Spoken(messages)
  IN  IF spoken # <<>> /\ Last(spoken).role = "user" THEN Front(spoken) ELSE spoken

\* _build_context_injection: messages with neither text nor calls say nothing.
Telling(messages) ==
  Picked(messages, {i \in DOMAIN messages : messages[i].text # <<>> \/ messages[i].calls > 0})
ContextInjection(messages) ==
  [transcript |-> Telling(Prior(messages)), query |-> UserMessage(messages)]

\* ------------------------------------------------------ recited replies

\* _tokenize_mock: white space is a token of its own.
Split(tokens, c) ==
  IF c = " " \/ tokens = <<>> \/ Last(tokens) = <<" ">> THEN Append(tokens, <<c>>)
  ELSE Append(Front(tokens), Append(Last(tokens), c))
Tokenize(chars) ==
  LET cut[i \in 0 .. Len(chars)] == IF i = 0 THEN <<>> ELSE Split(cut[i - 1], chars[i])
  IN  cut[Len(chars)]

\* reply.split(), a blank before every word but the first.
EchoWords(chars) ==
  LET tokens == Tokenize(chars)
      words == Picked(tokens, {i \in DOMAIN tokens : tokens[i] # <<" ">>})
  IN  [i \in DOMAIN words |-> Token(IF i = 1 THEN words[i] ELSE <<" ">> \o words[i])]

EchoReply(query) == <<"E", " ">> \o (IF query = <<>> THEN <<"0">> ELSE query)

MockWords(chars) == LET tokens == Tokenize(chars) IN [i \in DOMAIN tokens |-> Token(tokens[i])]
MockCall(i) == <<Ev("tool_call_start", i, <<>>), Ev("tool_call_end", i, <<i>>),
                 Ev("tool_result", i, <<i>>)>>
MockBreak == Ev("token", 1, <<" ">>)     \* sent without a look at the abort event
MockScript ==
  MockWords(MockText) \o FlattenSeq([i \in 1 .. MockCalls |-> MockCall(i)])
    \o <<MockBreak>> \o MockWords(AfterTool)

Script == IF provider = "echo" THEN EchoWords(EchoReply(prompt.query)) ELSE MockScript

\* Between calls and their results the mock does not look at the abort event.
LooksAtAbort(event) == event.event = "token" /\ event.id = 0

Unread == UNCHANGED <<provider, history, prompt, calls, spelled, finished, usage, aborting>>

StopsReciting ==
  /\ provider \in {"echo", "mock"} /\ status = "streaming" /\ at < Len(Script)
  /\ aborting /\ LooksAtAbort(Script[at + 1])
  /\ events' = Append(events, Plain("aborted")) /\ status' = "aborted"
  /\ UNCHANGED at /\ Unread

Recites ==
  /\ provider \in {"echo", "mock"} /\ status = "streaming" /\ at < Len(Script)
  /\ ~(aborting /\ LooksAtAbort(Script[at + 1]))
  /\ events' = Append(events, Script[at + 1])
  /\ at' = at + 1
  /\ UNCHANGED status /\ Unread

FinishesReciting ==
  /\ provider \in {"echo", "mock"} /\ status = "streaming" /\ at = Len(Script)
  /\ events' = events \o <<Plain("metadata"), Plain("done")>> /\ status' = "done"
  /\ UNCHANGED at /\ Unread

\* ------------------------------------------------------ the vendor's stream

\* A call is parsed when what was heard of it is the whole of one call.
ParsedArguments(heard) ==
  IF Len(heard) = Fragments /\ \A i, j \in DOMAIN heard : heard[i] = heard[j]
  THEN heard ELSE <<>>

\* The pieces of a chunk in their order: the first piece of a call has its name.
Piece(heard, i) ==
  IF heard[i] = <<>> THEN <<Ev("tool_call_start", i, <<>>), Ev("tool_call_delta", i, <<i>>)>>
  ELSE <<Ev("tool_call_delta", i, <<i>>)>>
Begun(heard) == {i \in CallIndexes : heard[i] # <<>>}

\* A mutated form of Heard: a piece goes to the call that was begun last.
HeardLast(heard, i) ==
  IF heard[i] = <<>> THEN [heard EXCEPT ![i] = <<i>>]
  ELSE LET last == CHOOSE j \in Begun(heard) : \A k \in Begun(heard) : k <= j
       IN  [heard EXCEPT ![last] = Append(@, i)]

Heard(heard, i) == [heard EXCEPT ![i] = Append(@, i)]

VendorKeeps == UNCHANGED <<provider, history, prompt, usage, aborting>>

AbortsVendor ==
  /\ provider = "openai" /\ status = "streaming" /\ at < MaxChunks /\ aborting
  /\ events' = Append(events, Plain("aborted")) /\ status' = "aborted"
  /\ at' = at + 1
  /\ UNCHANGED <<calls, spelled, finished>> /\ VendorKeeps

\* A chunk with text, with pieces of calls, or with the finish reason, which
\* may come before a call is whole (the length limit).
TextChunk == [text |-> TRUE, pieces |-> <<>>, finish |-> FALSE]
Chunks == {TextChunk}
  \cup [text : {FALSE}, pieces : UNION {[1 .. n -> CallIndexes] : n \in 1 .. 2}, finish : {FALSE}]
  \cup [text : {FALSE}, pieces : {<<>>}, finish : {TRUE}]

\* What the API can send next: no more of a call than it has.
PiecesOf(chunk, i) == Picked(chunk.pieces, {k \in DOMAIN chunk.pieces : chunk.pieces[k] = i})
Sendable(chunk) ==
  /\ ~finished
  /\ \A i \in CallIndexes : Len(spelled[i]) + Len(PiecesOf(chunk, i)) <= Fragments

\* The calls end in the order they began in.
Ends(heard, told) ==
  FlattenSeq([k \in DOMAIN told |->
    IF told[k].event = "tool_call_start"
    THEN <<Ev("tool_call_end", told[k].id, ParsedArguments(heard[told[k].id]))>> ELSE <<>>])

\* What is heard, and told, after a chunk's text and its first k pieces.
Read(state, i) == [heard |-> Heard(state.heard, i), told |-> state.told \o Piece(state.heard, i)]
AfterChunk(chunk) ==
  LET text == IF chunk.text THEN <<Token(<<"t">>)>> ELSE <<>>
      read[k \in 0 .. Len(chunk.pieces)] ==
        IF k = 0 THEN [heard |-> calls, told |-> events \o text]
        ELSE Read(read[k - 1], chunk.pieces[k])
  IN  read[Len(chunk.pieces)]

ReadsChunk(chunk) ==
  /\ provider = "openai" /\ status = "streaming" /\ at < MaxChunks /\ ~aborting
  /\ Sendable(chunk)
  /\ LET after == AfterChunk(chunk)
     IN  /\ calls' = after.heard
         /\ events' = after.told \o IF chunk.finish THEN Ends(after.heard, after.told) ELSE <<>>
  /\ spelled' = [i \in CallIndexes |-> spelled[i] \o PiecesOf(chunk, i)]
  /\ finished' = chunk.finish
  /\ at' = at + 1
  /\ UNCHANGED status /\ VendorKeeps

\* The chunk without a choice carries the usage.
ReadsUsage ==
  /\ provider = "openai" /\ status = "streaming" /\ finished /\ ~aborting
  /\ ~Contains(events, Plain("metadata"))
  /\ events' = Append(events, Plain("metadata"))
  /\ UNCHANGED <<at, calls, spelled, finished, status>> /\ VendorKeeps

\* The stream ends, which is a good end with or without a finish reason.
VendorEnds ==
  /\ provider = "openai" /\ status = "streaming"
  /\ events' = Append(events, Plain("done")) /\ status' = "done"
  /\ UNCHANGED <<at, calls, spelled, finished>> /\ VendorKeeps

\* A rate limit is told to the user and ends the stream without a terminal event.
VendorFails ==
  /\ provider = "openai" /\ status = "streaming"
  /\ \E event \in {"rate_limited", "error"} :
       events' = Append(events, Plain(event)) /\ status' = event
  /\ UNCHANGED <<at, calls, spelled, finished>> /\ VendorKeeps

\* ------------------------------------------------------ the agent's updates

UpdateContents == [type : {"function_call"}, id : {0, 1}, whole : BOOLEAN]
  \cup [type : {"function_result", "usage"}, id : {1}, whole : {TRUE}]

\* map_update_to_events: a call that comes without an id is given one.
Mapped(content) ==
  LET id == IF content.id = 0 THEN 100 + Len(events) ELSE content.id
  IN  CASE content.type = "function_call" ->
             <<Ev("tool_call_start", id, <<>>),
               Ev("tool_call_end", id, IF content.whole THEN <<id>> ELSE <<>>)>>
        [] content.type = "function_result" -> <<Ev("tool_result", id, <<id>>)>>
        [] OTHER -> <<>>

AgentUpdate(text, content) ==
  /\ provider = "agent" /\ status = "streaming" /\ at < MaxChunks /\ ~aborting
  /\ events' = events \o (IF text THEN <<Token(<<"t">>)>> ELSE <<>>) \o Mapped(content)
  /\ usage' = (usage \/ content.type = "usage")
  /\ at' = at + 1
  /\ UNCHANGED <<provider, history, prompt, calls, spelled, finished, aborting, status>>

\* The generator goes on in AgentRun when the run's updates end.
AgentLeaves ==
  /\ provider = "agent" /\ status = "streaming"
  /\ status' = "left"
  /\ UNCHANGED <<at, events>> /\ Unread

\* ------------------------------------------------------ the specification

SetsAbort ==
  /\ status = "streaming" /\ ~aborting
  /\ aborting' = TRUE
  /\ UNCHANGED <<provider, history, prompt, at, calls, spelled, finished, usage, events, status>>

\* The consumer closes the generator, or its task is cancelled.
Closes ==
  /\ status = "streaming"
  /\ status' = "closed"
  /\ UNCHANGED <<at, events>> /\ Unread

LlmInit ==
  /\ provider \in {"echo", "mock", "openai", "agent"}
  /\ history \in Histories \cup {<<>>}
  /\ provider = "agent" => UserMessage(history) # <<>>
  /\ provider \in {"mock", "openai"} => history = <<>>   \* passed on unread
  /\ prompt = ContextInjection(history)
  /\ at = 0
  /\ calls = [i \in CallIndexes |-> <<>>] /\ spelled = calls
  /\ finished = FALSE
  /\ usage = FALSE
  /\ aborting \in BOOLEAN
  /\ events = <<>>
  /\ status = "streaming"

LlmNext ==
  \/ StopsReciting \/ Recites \/ FinishesReciting
  \/ AbortsVendor \/ (\E chunk \in Chunks : ReadsChunk(chunk)) \/ ReadsUsage \/ VendorEnds
  \/ VendorFails
  \/ (\E text \in BOOLEAN, content \in UpdateContents : AgentUpdate(text, content)) \/ AgentLeaves
  \/ SetsAbort \/ Closes

\* ------------------------------------------------------ properties

Said(told) ==
  FlattenSeq([i \in DOMAIN told |-> IF told[i].event = "token" THEN told[i].data ELSE <<>>])
Letters(chars) == Picked(chars, {i \in DOMAIN chars : chars[i] # " "})

\* Every end of a call has its start before it.
OpensFirst(told) ==
  \A j \in DOMAIN told : told[j].event = "tool_call_end" =>
    \E i \in 1 .. (j - 1) : told[i].event = "tool_call_start" /\ told[i].id = told[j].id
CallsOpenFirst == OpensFirst(events)

\* A vendor's stream that is done, of a message the vendor gave a finish reason, has ended
\* every call it began, once, with the arguments the vendor spelled for that call when it
\* spelled them all.  (Without a finish reason it is done, too, and its calls stay open.)
CallsWhole ==
  provider = "openai" /\ status = "done" /\ finished =>
    \A i \in CallIndexes :
      LET ends == {j \in DOMAIN events : events[j].event = "tool_call_end" /\ events[j].id = i}
      IN  IF spelled[i] = <<>> THEN ends = {}
          ELSE \E j \in DOMAIN events :
                 /\ ends = {j}
                 /\ events[j].data = IF Len(spelled[i]) = Fragments THEN spelled[i] ELSE <<>>

\* A recited reply that is done has said its text.
RepliesWhole ==
  status = "done" =>
    /\ provider = "echo" => Letters(Said(events)) = Letters(EchoReply(UserMessage(history)))
    /\ provider = "mock" => Said(events) = MockText \o <<" ">> \o AfterTool

\* The query is put after the transcript and does not stand in it as well.
QueryAskedOnce ==
  history # <<>> /\ Last(history).role = "user" =>
    /\ prompt.query = Last(history).text
    /\ Append(prompt.transcript, Last(history)) = Telling(Spoken(history))

\* Whatever provider serves a turn, its stream tells what was asked and
\* answered: services/llm's generators end every tool call of a finished message with
\* its own arguments, recite a reply to its last word, and repeat no query.
AnswersAreWhole == CallsOpenFirst /\ CallsWhole /\ RepliesWhole /\ QueryAskedOnce
=============================================================================
