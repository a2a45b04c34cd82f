----------------------------- MODULE RunEngine -----------------------------
(***************************************************************************)
(* run_agent_stream (agentkit/hosting/run_engine.py): the passes of one    *)
(* answer.  The main pass is shown as it comes; reflection asks the agent  *)
(* in rounds whether it is done, each round shown as a tool call without   *)
(* its text; the completion check asks once more, hidden, and its events   *)
(* are shown only when it says something else than the sentinel; then come *)
(* a text for an answer without one, METADATA and DONE.  A pass is what    *)
(* the run loop yields: updates, a flush of open calls, and one outcome.   *)
(***************************************************************************)
EXTENDS Integers, Sequences

CONSTANTS MaxRounds,  \* max_reflection_rounds
          MaxPass     \* bound: updates of one pass

ASSUME EngineAssumption == MaxRounds \in Nat /\ MaxPass \in Nat

VARIABLES phase,   \* the pass under way, "tail" behind them, or "over"
          engine,  \* the generator's locals and parameters
          output,  \* what it has yielded
          stopped  \* abort_event

engineVars == <<phase, engine, output, stopped>>

Rounds == IF MaxRounds < 1 THEN 1 ELSE MaxRounds

\* What an update may carry: nothing to show, a token, the check's sentinel, a piece of
\* the sentinel, a function call that is left open, or a call with its result.
Contents == {"empty", "text", "sentinel", "piece", "call", "result"}
Texts == {"text", "sentinel", "piece"}

\* The pass begins; in the check every event goes to a buffer.
Pass(p) == phase' = p /\ engine' = [engine EXCEPT !.updates = 0, !.answered = FALSE]
Terminates(frame) == phase' = "over" /\ output' = [output EXCEPT !.terminal = frame]

(***************************************************************************)
(* A pass                                                                  *)
(***************************************************************************)
Counted == [engine EXCEPT !.updates = @ + 1]

\* Mutated: the hidden text of a reflection counts as the answer.
SeenAnywhere(content) == content \in Texts
Seen(content) == content \in Texts /\ phase = "main"

\* Reflection keeps the text to itself.
ShownUpdate(content) ==
  /\ phase \in {"main", "reflect"} /\ ~stopped /\ engine.updates < MaxPass
  /\ engine' = [Counted EXCEPT !.visible = @ \/ Seen(content),
                                        !.answered = @ \/ content \in Texts]
  /\ output' = [output EXCEPT !.text = @ \/ (content \in Texts /\ phase = "main"),
                              !.open = CASE content = "call" -> TRUE
                                         [] content = "result" -> FALSE [] OTHER -> @]
  /\ UNCHANGED <<phase, stopped>>

\* A retry or a revival begins another run: calls left open are closed first, by the flush.
RunsAgain ==
  /\ phase \in {"main", "reflect"} /\ output.open /\ output' = [output EXCEPT !.open = FALSE]
  /\ UNCHANGED <<phase, engine, stopped>>

\* What follows the main pass and every round.  The agent for the check is there only
\* when a resolver was given and knows one.
Checks == Pass(IF engine.resolver THEN "check" ELSE "tail")

MainCompletes ==
  /\ phase = "main" /\ ~output.open
  /\ IF engine.reflecting THEN Pass("assess") ELSE Checks
  /\ UNCHANGED <<output, stopped>>

\* should_reflect, and the START of the round.
Assesses ==
  /\ phase = "assess"
  /\ IF engine.round < Rounds
     THEN Pass("reflect") /\ output' = [output EXCEPT !.round = "open"]
     ELSE Checks /\ UNCHANGED output
  /\ UNCHANGED stopped

\* parse_response, then END and RESULT of the round; no text at all is no YES.
Reflected(yes) ==
  /\ phase = "reflect" /\ ~output.open /\ (yes => engine.answered)
  /\ output' = [output EXCEPT !.round = "closed"]
  /\ LET counted == [engine EXCEPT !.round = @ + 1, !.updates = 0, !.answered = FALSE]
     IN IF yes THEN phase' = (IF engine.resolver THEN "check" ELSE "tail") /\ engine' = counted
        ELSE phase' = "assess" /\ engine' = counted
  /\ UNCHANGED stopped

\* The abort wins the race at an update, before the flush or behind it.
PassAborted == /\ phase \in {"main", "reflect"} /\ stopped
               /\ Terminates("ABORTED") /\ UNCHANGED <<engine, stopped>>
PassFails == /\ phase \in {"main", "reflect"} /\ ~output.open
             /\ Terminates("ERROR") /\ UNCHANGED <<engine, stopped>>

(***************************************************************************)
(* The completion check                                                    *)
(***************************************************************************)
\* The loop runs without the abort event; only the engine looks, and at updates only.
\* A function call ends the pass before it is buffered.
CheckUpdate(content) ==
  /\ phase = "check" /\ engine.updates < MaxPass /\ content # "call"
  /\ IF stopped THEN Terminates("ABORTED") /\ UNCHANGED engine
     ELSE /\ engine' = [Counted EXCEPT
                          !.buffer = IF content = "empty" THEN @ ELSE Append(@, content)]
          /\ UNCHANGED <<phase, output>>
  /\ UNCHANGED stopped

\* A tool request, a stall or an error: whatever was buffered is dropped.
CheckFails == /\ phase = "check" /\ Pass("tail") /\ UNCHANGED <<output, stopped>>

\* The pieces of a sentinel join to it when nothing else is between or around them.
Satisfied(buffer) == buffer \in {<<"sentinel">>, <<"piece", "piece">>}

\* A token that is the sentinel is left out; a piece of it is text like any other.
Continues(buffer) == {buffer[i] : i \in DOMAIN buffer} \ {"sentinel"}

CheckCompletes ==
  /\ phase = "check" /\ phase' = "tail"
  /\ LET shows == IF Satisfied(engine.buffer) THEN {} ELSE Continues(engine.buffer)
         shown(contents) == shows \cap contents # {}
     IN /\ engine' = [engine EXCEPT !.visible = @ \/ shown(Texts)]
        /\ output' = [output EXCEPT !.text = @ \/ shown(Texts), !.hidden = shown({"sentinel"}),
                                    !.continued = shown(Texts)]
  /\ UNCHANGED stopped

(***************************************************************************)
(* The end                                                                 *)
(***************************************************************************)
\* An answer without text gets one; METADATA and DONE follow whatever the abort says.
EndsAnswer ==
  /\ phase = "tail"
  /\ phase' = "over"
  /\ output' = [output EXCEPT !.text = @ \/ ~engine.visible, !.terminal = "DONE",
                              !.fallback = ~engine.visible]
  /\ UNCHANGED <<engine, stopped>>

StopsEngine == phase # "over" /\ ~stopped /\ stopped' = TRUE /\ UNCHANGED <<phase, engine, output>>

EngineInit ==
  /\ phase = "main" /\ stopped = FALSE
  /\ \E reflecting, resolver \in BOOLEAN :
       engine = [reflecting |-> reflecting, resolver |-> resolver, round |-> 0, updates |-> 0,
                 answered |-> FALSE, visible |-> FALSE, buffer |-> <<>>]
  /\ output = [text |-> FALSE, open |-> FALSE, round |-> "closed", hidden |-> FALSE,
               continued |-> FALSE, fallback |-> FALSE, terminal |-> "none"]

EngineNext ==
  \/ \E content \in Contents : ShownUpdate(content) \/ CheckUpdate(content)
  \/ RunsAgain \/ MainCompletes \/ Assesses \/ PassAborted \/ PassFails
  \/ \E yes \in BOOLEAN : Reflected(yes)
  \/ CheckFails \/ CheckCompletes \/ EndsAnswer \/ StopsEngine

(***************************************************************************)
(* Properties                                                              *)
(***************************************************************************)
\* run_engine.py:17-27 and completion.py: whatever the passes do, DONE comes behind an
\* answer with text, made up only when the client saw none, and with every call and
\* every round of reflection closed; the sentinel's token never shows; and reflection
\* comes to an end after its rounds.
AnswerHasText ==
  /\ output.terminal = "DONE" =>
       /\ output.text /\ ~output.open /\ output.round = "closed"
       /\ output.fallback => ~output.continued
  /\ ~output.hidden
  /\ engine.round <= Rounds
=============================================================================
