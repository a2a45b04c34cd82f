----------------------------- MODULE TurnContext -----------------------------
(***************************************************************************)
(* What the model is shown (services/conversation): before a turn,         *)
(* ensure_thread puts the scenario's system prompt at the head of the      *)
(* agent's thread; after the user's message is stored the session is read  *)
(* again, and build_turn_context keeps what fits of it.  Turns of a thread *)
(* come one after the other, each under a scenario of its own.             *)
(***************************************************************************)
EXTENDS Integers, Sequences

CONSTANTS Scenarios,
          PromptTokens, \* per scenario, the tokens of its prompt, overhead included
          Tokens,       \* what a message may cost, overhead included
          Budget,       \* max_context_tokens - max_response_tokens
          TurnLimits,   \* values of max_context_turns, 0 where the request gives none
          MaxMessages   \* bound: messages of the thread

ASSUME ContextAssumption == /\ PromptTokens \in [Scenarios \cup {"settings"} -> Nat \ {0}]
                            /\ Tokens \subseteq Nat \ {0} /\ Budget \in Nat
                            /\ TurnLimits \subseteq Nat /\ MaxMessages \in Nat

VARIABLES durable,  \* the store is Cosmos, which hands out copies in created_at order
          origin,   \* "new", or "saved" with a conversation without a system prompt
          stored,   \* the stored thread, <<>> while there is none
          turn,     \* the request: its phase, scenario and limit
          window    \* the context last built, and its snapshot

contextVars == <<durable, origin, stored, turn, window>>

\* A system message has the scenario whose prompt it is; a tool result may lack the
\* id of its call.
Message(role, of, tokens, linked) ==
  [role |-> role, of |-> of, tokens |-> tokens, linked |-> linked]

\* load_instructions: preamble, roster, prompt files and the language, of which only the
\* scenario they are of matters.
PromptOf(scenario) == Message("system", scenario, PromptTokens[scenario], TRUE)
Orphaned(m) == m.role = "tool" /\ ~m.linked
Between(s, i, j) == IF i > j THEN <<>> ELSE SubSeq(s, i, j)

Cost(s) == LET sum[i \in 0..Len(s)] == IF i = 0 THEN 0 ELSE sum[i - 1] + s[i].tokens
           IN sum[Len(s)]

(***************************************************************************)
(* build_context_window                                                    *)
(***************************************************************************)
Sliced(messages, limit) ==
  IF limit = 0 THEN messages
  ELSE Between(messages, IF Len(messages) > 2 * limit THEN Len(messages) - 2 * limit + 1 ELSE 1,
               Len(messages))

\* Mutated: the loop goes on to older messages behind one that does not fit.
TakeContinuing(fill, m) ==
  IF Orphaned(m) \/ m.tokens > fill.room THEN fill
  ELSE [fill EXCEPT !.kept = <<m>> \o @, !.room = @ - m.tokens]

\* One round of the loop, newest message first.
Take(fill, m) ==
  IF fill.full \/ Orphaned(m) THEN fill
  ELSE IF m.tokens > fill.room THEN [fill EXCEPT !.full = TRUE]
  ELSE [fill EXCEPT !.kept = <<m>> \o @, !.room = @ - m.tokens]

Filled(messages, room) ==
  LET n == Len(messages)
      after[k \in 0..n] == IF k = 0 THEN [kept |-> <<>>, room |-> room, full |-> room <= 0]
                           ELSE Take(after[k - 1], messages[n - k + 1])
  IN after[n]

\* build_turn_context: the first message is the prompt if it is a system message.
HasPrompt(thread) == thread # <<>> /\ Head(thread).role = "system"
Conversation(thread) == IF HasPrompt(thread) THEN Tail(thread) ELSE thread
Window(thread, scenario, limit) ==
  LET prompt == IF HasPrompt(thread) THEN Head(thread).of ELSE "settings"
      talk == Conversation(thread)
      fill == Filled(Sliced(talk, limit), Budget - PromptTokens[prompt])
  IN [asked |-> scenario, limit |-> limit, thread |-> thread, prompt |-> prompt,
      kept |-> fill.kept, used |-> Budget - fill.room, total |-> Len(talk),
      dropped |-> Len(talk) - Len(fill.kept)]
NoWindow == [asked |-> "none"]

(***************************************************************************)
(* A turn                                                                  *)
(***************************************************************************)
Rest == [at |-> "rest"]

\* ensure_thread creates the thread, or has the store append a missing prompt, or
\* overwrites the prompt of another scenario.  It also inserts a missing prompt into
\* the session it holds, which is the stored one where the store is in memory.
EnsureThread(scenario, limit) ==
  /\ turn.at = "rest" /\ Len(stored) + 4 <= MaxMessages
  /\ turn' = [at |-> "ensured", scenario |-> scenario, limit |-> limit]
  /\ LET prompt == PromptOf(scenario) IN
     \/ stored = <<>> /\ stored' = <<prompt>>
     \/ /\ stored # <<>> /\ ~HasPrompt(stored)
        /\ stored' = Append(IF durable THEN stored ELSE <<prompt>> \o stored, prompt)
     \/ HasPrompt(stored) /\ stored' = <<prompt>> \o Tail(stored)
  /\ UNCHANGED <<durable, origin, window>>

\* The store refuses the append or the update: the session held is given up, but the
\* in-memory one was changed in place before the store was asked.
EnsureFails(scenario) ==
  /\ turn.at = "rest" /\ stored # <<>> /\ Len(stored) + 4 <= MaxMessages
  /\ stored' = IF durable THEN stored
               ELSE <<PromptOf(scenario)>> \o Conversation(stored)
  /\ UNCHANGED <<durable, origin, turn, window>>

\* turn.start stores the user's message, or the request ends here.
AppendUser(tokens) ==
  /\ turn.at = "ensured"
  /\ \/ /\ stored' = Append(stored, Message("user", "none", tokens, TRUE))
        /\ turn' = [turn EXCEPT !.at = "asked"]
     \/ turn' = Rest /\ UNCHANGED stored
  /\ UNCHANGED <<durable, origin, window>>

\* The session is read again: its thread makes the window, or it cannot be read.
BuildContext ==
  /\ turn.at = "asked"
  /\ \/ /\ window' = Window(stored, turn.scenario, turn.limit)
        /\ turn' = [turn EXCEPT !.at = "built"]
     \/ turn' = Rest /\ UNCHANGED window
  /\ UNCHANGED <<durable, origin, stored>>

\* The answer is stored, if there is one.
Answered(tokens) ==
  /\ turn.at = "built" /\ turn' = Rest
  /\ stored' \in {stored, Append(stored, Message("assistant", "none", tokens, TRUE))}
  /\ UNCHANGED <<durable, origin, window>>

ContextInit ==
  /\ durable \in BOOLEAN /\ turn = Rest /\ window = NoWindow
  /\ \/ origin = "new" /\ stored = <<>>
     \/ /\ origin = "saved"
        /\ \E linked \in BOOLEAN, t \in Tokens :
             stored = <<Message("user", "none", t, TRUE), Message("tool", "none", t, linked)>>

ContextNext ==
  \/ \E s \in Scenarios : EnsureFails(s) \/ \E n \in TurnLimits : EnsureThread(s, n)
  \/ BuildContext
  \/ \E t \in Tokens : AppendUser(t) \/ Answered(t)

ContextSpec == ContextInit /\ [][ContextNext]_contextVars

(***************************************************************************)
(* Properties                                                              *)
(***************************************************************************)
\* The messages of s without the useless tool results, read from the newest back.
Useful(s) ==
  LET n == Len(s)
      last[k \in 0..n] == IF k = 0 THEN <<>>
                          ELSE IF Orphaned(s[n - k + 1]) THEN last[k - 1]
                          ELSE <<s[n - k + 1]>> \o last[k - 1]
  IN last[n]

\* The window is the longest run of newest messages, useless tool results aside, that
\* fits next to the prompt (build_context_window), and the snapshot accounts for every
\* message.  A thread that was created with a prompt is sent with the prompt of the
\* request's scenario, whatever scenarios it went through and whichever turns failed in
\* between.  That run may be empty: the question itself is held to the budget, too.
ContextIsRight ==
  window # NoWindow =>
    LET recent == Useful(Sliced(Conversation(window.thread), window.limit))
        kept == window.kept
        cut == Len(recent) - Len(kept)
        room == Budget - PromptTokens[window.prompt]
    IN /\ cut >= 0 /\ kept = Between(recent, cut + 1, Len(recent))
       /\ kept # <<>> => Cost(kept) <= room
       /\ cut > 0 => room <= 0 \/ Cost(kept) + recent[cut].tokens > room
       /\ window.used = PromptTokens[window.prompt] + Cost(kept)
       /\ window.total = Len(kept) + window.dropped
       /\ origin = "new" => window.prompt = window.asked

\* _context.py:11, "The most recent user message is always included."  The user's message
\* ends the thread when the window is built, and should end the window.  It does not when
\* it costs more than the prompt leaves of the budget: the loop stops at it, and the model
\* is sent nothing but the prompt.
NewestUserMessageKept ==
  window # NoWindow =>
    window.kept # <<>> /\ window.kept[Len(window.kept)] = window.thread[Len(window.thread)]
=============================================================================
