----------------------------- MODULE ChatProofs -----------------------------
(***************************************************************************)
(* The chat from both ends.  Theorems about ChatTurn for any number of     *)
(* requests, agents and tokens: TypeOK is not inductive by itself (the     *)
(* buffer is bounded because it follows the tokens sent), so the three     *)
(* invariants are proved together.  And about ChatClient for any number of *)
(* tabs, sessions and exchanges: every callback of the browser turns the   *)
(* slice it finds into one that extends it (Becomes), and what the lists   *)
(* consist of (ClientInv) is all it needs to know of the rest.             *)
(***************************************************************************)
EXTENDS ChatTurn, ChatClient, SequenceTheorems, WellFoundedInduction, TLAPS

USE DEF Labels, Preparing, Awaiting, Running, Refused, Over,
        FinalStatus, MessageStatus, TerminalEvent

IInv == TypeOK /\ MessageInv /\ StreamInv

\* A content is a number of tokens or ErrorText; no message has no content.
LEMMA ContentsFacts ==
    /\ MaxTokens \in Nat
    /\ ErrorText \in Contents
    /\ 0 \in Contents
    /\ \A n \in Int : n >= 0 /\ n <= MaxTokens => n \in Contents
    /\ \A n \in Contents : n \in Int /\ n <= MaxTokens
    /\ NoMessage \in [status : MessageStatus, content : Contents]
    /\ NoMessage.status = "none" /\ NoMessage.content = 0
BY ChatTurnAssumption DEF Contents, ErrorText, NoMessage

\* What finalize leaves in memory, and that it concerns its own request only.
LEMMA FinalizeFacts ==
    ASSUME TypeOK, NEW s \in Sends, NEW status \in MessageStatus, NEW content \in Contents,
           Finalize(s, status, content)
    PROVE  /\ turn' \in [Sends -> [status : MessageStatus, content : Contents]]
           /\ buf' \in [Sends -> Contents]
           /\ turn'[s].status = status /\ turn'[s].content = content /\ buf'[s] = content
           /\ \A t \in Sends \ {s} : turn'[t] = turn[t] /\ buf'[t] = buf[t]
<1> DEFINE message == [status |-> status, content |-> content]
<1>1. message \in [status : MessageStatus, content : Contents]
  OBVIOUS
<1>2. turn' = [turn EXCEPT ![s] = message] /\ buf' = [buf EXCEPT ![s] = content]
  BY DEF Finalize
<1>3. message.status = status /\ message.content = content
  OBVIOUS
<1> HIDE DEF message
<1>4. QED
  BY <1>1, <1>2, <1>3 DEF TypeOK

LEMMA InitIInv == Init => IInv
<1> SUFFICES ASSUME Init PROVE IInv
  OBVIOUS
<1>1. TypeOK
  <2>1. /\ exists \in BOOLEAN /\ user \in [Sends -> BOOLEAN] /\ shutdown \in BOOLEAN
        /\ events \in [Agents -> Sends \cup {None}] /\ agent \in [Sends -> Agents]
        /\ pc \in [Sends -> Labels] /\ pend \in [Sends -> TerminalEvent \cup {"none", "TOKEN"}]
    BY ChatTurnAssumption DEF Init
  <2>2. /\ stored \in [Sends -> [status : MessageStatus, content : Contents]]
        /\ turn \in [Sends -> [status : MessageStatus, content : Contents]]
        /\ buf \in [Sends -> Contents]
    BY ContentsFacts DEF Init
  <2>3. /\ tokens \in [Sends -> 0 .. MaxTokens]
        /\ audited \in [Sends -> Contents \cup {NotAudited}]
    BY ChatTurnAssumption DEF Init
  <2>4. terminals \in [Sends -> Seq(TerminalEvent)]
    BY DEF Init
  <2>5. QED
    BY <2>1, <2>2, <2>3, <2>4 DEF Init, TypeOK
<1>2. MessageInv
  BY ContentsFacts, ChatTurnAssumption DEF Init, MessageInv, MessageOK
<1>3. StreamInv
  BY ContentsFacts, ChatTurnAssumption DEF Init, StreamInv, StreamOK
<1>4. QED
  BY <1>1, <1>2, <1>3 DEF IInv

\* What the invariants read of request t stays as it is.
Kept(t) ==
    /\ pc'[t] = pc[t] /\ turn'[t] = turn[t] /\ stored'[t] = stored[t]
    /\ pend'[t] = pend[t] /\ buf'[t] = buf[t]
    /\ tokens'[t] = tokens[t] /\ terminals'[t] = terminals[t]
    /\ t \in lost' <=> t \in lost

\* A step that concerns one request has to be examined for that request only.
LEMMA OthersKept ==
    ASSUME MessageInv, StreamInv, NEW s \in Sends,
           \A t \in Sends \ {s} : Kept(t), MessageOK(s)', StreamOK(s)'
    PROVE  MessageInv' /\ StreamInv'
<1>1. ASSUME NEW t \in Sends \ {s} PROVE MessageOK(t)'
  <2>1. MessageOK(t) /\ Kept(t)
    BY DEF MessageInv
  <2>2. QED
    BY <2>1 DEF MessageOK, Kept
<1>2. ASSUME NEW t \in Sends \ {s} PROVE StreamOK(t)'
  <2>1. StreamOK(t) /\ Kept(t)
    BY DEF StreamInv
  <2>2. QED
    BY <2>1 DEF StreamOK, Kept
<1>3. QED
  BY <1>1, <1>2 DEF MessageInv, StreamInv

\* What the invariants say of one request.
LEMMA Own ==
    ASSUME TypeOK, MessageInv, StreamInv, NEW s \in Sends
    PROVE  /\ MessageOK(s) /\ StreamOK(s)
           /\ buf[s] \in Int /\ tokens[s] \in Nat
BY ContentsFacts, ChatTurnAssumption DEF TypeOK, MessageInv, StreamInv

LEMMA NextIInv == IInv /\ [Next]_vars => IInv'
<1> SUFFICES ASSUME TypeOK, MessageInv, StreamInv, [Next]_vars
             PROVE  TypeOK' /\ MessageInv' /\ StreamInv'
  BY DEF IInv
<1>1. ASSUME NEW s \in Sends, StartTurn(s)
      PROVE  TypeOK' /\ MessageInv' /\ StreamInv'
  <2>1. TypeOK'
    BY <1>1, ContentsFacts, ChatTurnAssumption DEF TypeOK, StreamInv, StreamOK, StartTurn, Goto, session, registry, memory, client
  <2>2. \A t \in Sends \ {s} : Kept(t)
    BY <1>1, <2>1 DEF Kept, TypeOK, StartTurn, Goto, session, registry, memory, client
  <2>3. MessageOK(s)'
    BY <1>1, <2>1 DEF TypeOK, MessageInv, MessageOK, NoMessage, StartTurn, Goto, session, registry, memory, client
  <2>4. StreamOK(s)'
    BY <1>1, <2>1, ContentsFacts, ChatTurnAssumption DEF TypeOK, MessageInv, MessageOK, StreamInv, StreamOK, ErrorText, NoMessage, StartTurn, Goto, session, registry, memory, client
  <2>5. QED
    BY <2>1, <2>2, <2>3, <2>4, OthersKept
<1>2. ASSUME NEW s \in Sends, Register(s)
      PROVE  TypeOK' /\ MessageInv' /\ StreamInv'
  <2>1. TypeOK'
    BY <1>2, ContentsFacts, ChatTurnAssumption DEF TypeOK, StreamInv, StreamOK, Register, Goto, session, registry, memory, client
  <2>2. \A t \in Sends \ {s} : Kept(t)
    BY <1>2, <2>1 DEF Kept, TypeOK, Register, Goto, session, registry, memory, client
  <2>3. MessageOK(s)'
    BY <1>2, <2>1 DEF TypeOK, MessageInv, MessageOK, NoMessage, Register, Goto, session, registry, memory, client
  <2>4. StreamOK(s)'
    BY <1>2, <2>1, ContentsFacts, ChatTurnAssumption DEF TypeOK, MessageInv, MessageOK, StreamInv, StreamOK, ErrorText, NoMessage, Register, Goto, session, registry, memory, client
  <2>5. QED
    BY <2>1, <2>2, <2>3, <2>4, OthersKept
<1>3. ASSUME NEW s \in Sends, GenStart(s)
      PROVE  TypeOK' /\ MessageInv' /\ StreamInv'
  <2>1. TypeOK'
    BY <1>3, ContentsFacts, ChatTurnAssumption DEF TypeOK, StreamInv, StreamOK, GenStart, Goto, session, registry, memory, client
  <2>2. \A t \in Sends \ {s} : Kept(t)
    BY <1>3, <2>1 DEF Kept, TypeOK, GenStart, Goto, session, registry, memory, client
  <2>3. MessageOK(s)'
    BY <1>3, <2>1 DEF TypeOK, MessageInv, MessageOK, NoMessage, GenStart, Goto, session, registry, memory, client
  <2>4. StreamOK(s)'
    BY <1>3, <2>1, ContentsFacts, ChatTurnAssumption DEF TypeOK, MessageInv, MessageOK, StreamInv, StreamOK, ErrorText, NoMessage, GenStart, Goto, session, registry, memory, client
  <2>5. QED
    BY <2>1, <2>2, <2>3, <2>4, OthersKept
<1>4. ASSUME NEW s \in Sends, Load(s)
      PROVE  TypeOK' /\ MessageInv' /\ StreamInv'
  <2>1. CASE terminals' = terminals /\ pc' = [pc EXCEPT ![s] = "begin"]
    <3>1. TypeOK'
      BY <1>4, <2>1, ContentsFacts, ChatTurnAssumption DEF TypeOK, StreamInv, StreamOK, Load, Goto, Send, session, registry, memory, client
    <3>2. \A t \in Sends \ {s} : Kept(t)
      BY <1>4, <2>1, <3>1 DEF Kept, TypeOK, Load, Goto, Send, session, registry, memory, client
    <3>3. MessageOK(s)'
      BY <1>4, <2>1, <3>1 DEF TypeOK, MessageInv, MessageOK, NoMessage, Load, Goto, Send, session, registry, memory, client
    <3>4. StreamOK(s)'
      BY <1>4, <2>1, <3>1, ContentsFacts, ChatTurnAssumption DEF TypeOK, MessageInv, MessageOK, StreamInv, StreamOK, ErrorText, NoMessage, Load, Goto, Send, session, registry, memory, client
    <3>5. QED
      BY <3>1, <3>2, <3>3, <3>4, OthersKept
  <2>2. CASE Send(s, "ERROR") /\ pc' = [pc EXCEPT ![s] = "cleanup"]
    <3>1. TypeOK'
      BY <1>4, <2>2, ContentsFacts, ChatTurnAssumption DEF TypeOK, StreamInv, StreamOK, Load, Goto, Send, session, registry, memory, client
    <3>2. \A t \in Sends \ {s} : Kept(t)
      BY <1>4, <2>2, <3>1 DEF Kept, TypeOK, Load, Goto, Send, session, registry, memory, client
    <3>3. MessageOK(s)'
      BY <1>4, <2>2, <3>1 DEF TypeOK, MessageInv, MessageOK, NoMessage, Load, Goto, Send, session, registry, memory, client
    <3>4. StreamOK(s)'
      BY <1>4, <2>2, <3>1, ContentsFacts, ChatTurnAssumption DEF TypeOK, MessageInv, MessageOK, StreamInv, StreamOK, ErrorText, NoMessage, Load, Goto, Send, session, registry, memory, client
    <3>5. QED
      BY <3>1, <3>2, <3>3, <3>4, OthersKept
  <2>3. QED
    BY <1>4, <2>1, <2>2 DEF Load, Goto, Send
<1>5. ASSUME NEW s \in Sends, BeginResponse(s)
      PROVE  TypeOK' /\ MessageInv' /\ StreamInv'
  <2>1. /\ pc[s] = "begin" /\ pc' = [pc EXCEPT ![s] = "streaming"]
        /\ UNCHANGED <<exists, user, registry, agent, buf, pend, client, audited, lost>>
    BY <1>5 DEF BeginResponse, Goto
  <2>2. /\ turn' \in [Sends -> [status : MessageStatus, content : Contents]]
        /\ turn'[s].status = "streaming"
        /\ \A t \in Sends \ {s} : turn'[t] = turn[t]
    BY <1>5 DEF BeginResponse, TypeOK
  <2>3. /\ stored' \in [Sends -> [status : MessageStatus, content : Contents]]
        /\ stored'[s].status \in {stored[s].status, "streaming"}
        /\ \A t \in Sends \ {s} : stored'[t] = stored[t]
    BY <1>5, <2>2 DEF BeginResponse, TypeOK
  <2>4. TypeOK'
    BY <2>1, <2>2, <2>3 DEF TypeOK, registry, client
  <2>5. \A t \in Sends \ {s} : Kept(t)
    BY <2>1, <2>2, <2>3, <2>4 DEF Kept, TypeOK, registry, client
  <2>6. MessageOK(s)'
    BY <2>1, <2>2, <2>3, <2>4 DEF TypeOK, MessageInv, MessageOK, registry, client
  <2>7. StreamOK(s)'
    BY <2>1, <2>2, <2>3, <2>4, ContentsFacts DEF TypeOK, MessageInv, MessageOK, StreamInv, StreamOK, registry, client
  <2>8. QED
    BY <2>4, <2>5, <2>6, <2>7, OthersKept
<1>6. ASSUME NEW s \in Sends, ShutdownSeen(s)
      PROVE  TypeOK' /\ MessageInv' /\ StreamInv'
  <2>1. TypeOK'
    BY <1>6, ContentsFacts, ChatTurnAssumption DEF TypeOK, StreamInv, StreamOK, ShutdownSeen, Goto, Send, session, registry, memory, client
  <2>2. \A t \in Sends \ {s} : Kept(t)
    BY <1>6, <2>1 DEF Kept, TypeOK, ShutdownSeen, Goto, Send, session, registry, memory, client
  <2>3. MessageOK(s)'
    BY <1>6, <2>1 DEF TypeOK, MessageInv, MessageOK, NoMessage, ShutdownSeen, Goto, Send, session, registry, memory, client
  <2>4. StreamOK(s)'
    BY <1>6, <2>1, ContentsFacts, ChatTurnAssumption DEF TypeOK, MessageInv, MessageOK, StreamInv, StreamOK, ErrorText, NoMessage, ShutdownSeen, Goto, Send, session, registry, memory, client
  <2>5. QED
    BY <2>1, <2>2, <2>3, <2>4, OthersKept
<1>7. ASSUME NEW s \in Sends, FinalWrite(s)
      PROVE  TypeOK' /\ MessageInv' /\ StreamInv'
  <2>1. CASE stored' = [stored EXCEPT ![s] = turn[s]] /\ UNCHANGED lost
    <3>1. TypeOK'
      BY <1>7, <2>1, ContentsFacts, ChatTurnAssumption DEF TypeOK, StreamInv, StreamOK, FinalWrite, PersistFinal, Goto, session, registry, memory, client
    <3>2. \A t \in Sends \ {s} : Kept(t)
      BY <1>7, <2>1, <3>1 DEF Kept, TypeOK, FinalWrite, PersistFinal, Goto, session, registry, memory, client
    <3>3. MessageOK(s)'
      BY <1>7, <2>1, <3>1 DEF TypeOK, MessageInv, MessageOK, NoMessage, FinalWrite, PersistFinal, Goto, session, registry, memory, client
    <3>4. StreamOK(s)'
      BY <1>7, <2>1, <3>1, ContentsFacts, ChatTurnAssumption DEF TypeOK, MessageInv, MessageOK, StreamInv, StreamOK, ErrorText, NoMessage, FinalWrite, PersistFinal, Goto, session, registry, memory, client
    <3>5. QED
      BY <3>1, <3>2, <3>3, <3>4, OthersKept
  <2>2. CASE lost' = lost \cup {s} /\ UNCHANGED stored
    <3>1. TypeOK'
      BY <1>7, <2>2, ContentsFacts, ChatTurnAssumption DEF TypeOK, StreamInv, StreamOK, FinalWrite, PersistFinal, Goto, session, registry, memory, client
    <3>2. \A t \in Sends \ {s} : Kept(t)
      BY <1>7, <2>2, <3>1 DEF Kept, TypeOK, FinalWrite, PersistFinal, Goto, session, registry, memory, client
    <3>3. MessageOK(s)'
      BY <1>7, <2>2, <3>1 DEF TypeOK, MessageInv, MessageOK, NoMessage, FinalWrite, PersistFinal, Goto, session, registry, memory, client
    <3>4. StreamOK(s)'
      BY <1>7, <2>2, <3>1, ContentsFacts, ChatTurnAssumption DEF TypeOK, MessageInv, MessageOK, StreamInv, StreamOK, ErrorText, NoMessage, FinalWrite, PersistFinal, Goto, session, registry, memory, client
    <3>5. QED
      BY <3>1, <3>2, <3>3, <3>4, OthersKept
  <2>3. QED
    BY <1>7, <2>1, <2>2 DEF FinalWrite, PersistFinal, Goto
<1>8. ASSUME NEW s \in Sends, Post(s)
      PROVE  TypeOK' /\ MessageInv' /\ StreamInv'
  <2>1. /\ pc[s] = "post" /\ pc' = [pc EXCEPT ![s] = "cleanup"]
        /\ UNCHANGED <<session, registry, agent, memory, tokens, lost>>
    BY <1>8 DEF Post, Goto
  <2>2. audited' \in [Sends -> Contents \cup {NotAudited}]
    BY <1>8 DEF Post, TypeOK
  <2>3. /\ terminals' \in [Sends -> Seq(TerminalEvent)]
        /\ \A t \in Sends \ {s} : terminals'[t] = terminals[t]
    <3>1. terminals' = terminals \/ terminals' = [terminals EXCEPT ![s] = Append(@, "ERROR")]
      BY <1>8 DEF Post, Send
    <3>2. Append(terminals[s], "ERROR") \in Seq(TerminalEvent)
      BY DEF TypeOK
    <3>3. terminals \in [Sends -> Seq(TerminalEvent)]
      BY DEF TypeOK
    <3>4. CASE terminals' = terminals
      BY <3>3, <3>4
    <3>5. CASE terminals' = [terminals EXCEPT ![s] = Append(@, "ERROR")]
      BY <3>2, <3>3, <3>5
    <3>6. QED
      BY <3>1, <3>4, <3>5
  <2>4. TypeOK'
    BY <2>1, <2>2, <2>3 DEF TypeOK, session, registry, memory, client
  <2>5. \A t \in Sends \ {s} : Kept(t)
    BY <2>1, <2>3, <2>4 DEF Kept, TypeOK, session, registry, memory, client
  <2>6. MessageOK(s)'
    BY <2>1, <2>3, <2>4 DEF TypeOK, MessageInv, MessageOK, session, registry, memory, client
  <2>7. StreamOK(s)'
    <3>1. pc'[s] = "cleanup" /\ UNCHANGED <<turn, stored, buf, pend, tokens>>
      BY <2>1 DEF TypeOK, session, memory
    <3>2. turn[s].status # "streaming"
      BY <2>1, Own DEF MessageOK
    <3>3. QED
      BY <3>1, <3>2, Own DEF StreamOK
  <2>8. QED
    BY <2>4, <2>5, <2>6, <2>7, OthersKept
<1>9. ASSUME NEW s \in Sends, Timeout(s)
      PROVE  TypeOK' /\ MessageInv' /\ StreamInv'
  <2>1. CASE pc[s] \in Awaiting /\ Send(s, "ERROR")
    <3>1. TypeOK'
      BY <1>9, <2>1, ContentsFacts, ChatTurnAssumption DEF TypeOK, StreamInv, StreamOK, Timeout, Interrupted, Goto, Send, session, registry, memory, client
    <3>2. \A t \in Sends \ {s} : Kept(t)
      BY <1>9, <2>1, <3>1 DEF Kept, TypeOK, Timeout, Interrupted, Goto, Send, session, registry, memory, client
    <3>3. MessageOK(s)'
      BY <1>9, <2>1, <3>1 DEF TypeOK, MessageInv, MessageOK, NoMessage, Timeout, Interrupted, Goto, Send, session, registry, memory, client
    <3>4. StreamOK(s)'
      <4>1. pc'[s] = "cleanup" /\ UNCHANGED <<turn, stored, buf, pend, tokens>>
        BY <1>9 DEF TypeOK, Timeout, Goto, session, memory
      <4>2. pc[s] \in Awaiting /\ MessageOK(s) /\ StreamOK(s) /\ buf[s] \in Int /\ tokens[s] \in Nat
        BY <2>1, Own
      <4>3. QED
        BY <4>1, <4>2 DEF MessageOK, StreamOK
    <3>5. QED
      BY <3>1, <3>2, <3>3, <3>4, OthersKept
  <2>2. CASE pc[s] = "yielded" /\ UNCHANGED terminals
    <3>1. TypeOK'
      BY <1>9, <2>2, ContentsFacts, ChatTurnAssumption DEF TypeOK, StreamInv, StreamOK, Timeout, Interrupted, Goto, Send, session, registry, memory, client
    <3>2. \A t \in Sends \ {s} : Kept(t)
      BY <1>9, <2>2, <3>1 DEF Kept, TypeOK, Timeout, Interrupted, Goto, Send, session, registry, memory, client
    <3>3. MessageOK(s)'
      BY <1>9, <2>2, <3>1 DEF TypeOK, MessageInv, MessageOK, NoMessage, Timeout, Interrupted, Goto, Send, session, registry, memory, client
    <3>4. StreamOK(s)'
      <4>1. pc'[s] = "cleanup" /\ UNCHANGED <<turn, stored, buf, pend, tokens>>
        BY <1>9 DEF TypeOK, Timeout, Goto, session, memory
      <4>2. MessageOK(s) /\ StreamOK(s) /\ buf[s] \in Int /\ tokens[s] \in Nat
        BY Own
      <4>3. QED
        BY <2>2, <4>1, <4>2 DEF MessageOK, StreamOK
    <3>5. QED
      BY <3>1, <3>2, <3>3, <3>4, OthersKept
  <2>3. QED
    BY <1>9, <2>1, <2>2 DEF Timeout, Interrupted, Goto, Send
<1>10. ASSUME NEW s \in Sends, Cleanup(s)
      PROVE  TypeOK' /\ MessageInv' /\ StreamInv'
  <2>1. CASE turn[s].status = "streaming"
    <3>1. Finalize(s, "aborted", buf[s]) /\ pc' = [pc EXCEPT ![s] = "autofinal"]
      BY <1>10, <2>1 DEF Cleanup, CloseMessage, Goto
    <3>2. /\ turn' \in [Sends -> [status : MessageStatus, content : Contents]]
          /\ buf' \in [Sends -> Contents]
          /\ turn'[s].status = "aborted" /\ turn'[s].content = buf[s]
          /\ \A t \in Sends \ {s} : turn'[t] = turn[t] /\ buf'[t] = buf[t]
      BY <3>1, FinalizeFacts DEF TypeOK
    <3>3. TypeOK'
      BY <1>10, <3>1, <3>2 DEF TypeOK, Cleanup, PopGuard, session, registry, memory, client
    <3>4. \A t \in Sends \ {s} : Kept(t)
      BY <1>10, <2>1, <3>1, <3>2, <3>3 DEF Kept, TypeOK, Cleanup, session, registry, memory, client
    <3>5. MessageOK(s)'
      BY <1>10, <2>1, <3>1, <3>2, <3>3 DEF TypeOK, MessageInv, MessageOK, Cleanup, session, registry, memory, client
    <3>6. StreamOK(s)'
      BY <1>10, <2>1, <3>1, <3>2, <3>3, ContentsFacts DEF TypeOK, MessageInv, MessageOK, StreamInv, StreamOK, Cleanup, session, registry, memory, client
    <3>7. QED
      BY <3>3, <3>4, <3>5, <3>6, OthersKept
  <2>2. CASE turn[s].status # "streaming"
    <3>1. pc' = [pc EXCEPT ![s] = "ended"] /\ UNCHANGED <<turn, buf>>
      BY <1>10, <2>2 DEF Cleanup, CloseMessage, Goto
    <3>2. TypeOK'
      BY <1>10, <3>1 DEF TypeOK, Cleanup, PopGuard, session, registry, memory, client
    <3>3. \A t \in Sends \ {s} : Kept(t)
      BY <1>10, <2>2, <3>1, <3>2 DEF Kept, TypeOK, Cleanup, session, registry, memory, client
    <3>4. MessageOK(s)'
      BY <1>10, <2>2, <3>1, <3>2 DEF TypeOK, MessageInv, MessageOK, Cleanup, session, registry, memory, client
    <3>5. StreamOK(s)'
      BY <1>10, <2>2, <3>1, <3>2, ContentsFacts DEF TypeOK, MessageInv, MessageOK, StreamInv, StreamOK, Cleanup, session, registry, memory, client
    <3>6. QED
      BY <3>2, <3>3, <3>4, <3>5, OthersKept
  <2>3. QED
    BY <2>1, <2>2
<1>11. ASSUME NEW s \in Sends, AutoFinalWrite(s)
      PROVE  TypeOK' /\ MessageInv' /\ StreamInv'
  <2>1. CASE stored' = [stored EXCEPT ![s] = turn[s]] /\ UNCHANGED lost
    <3>1. TypeOK'
      BY <1>11, <2>1, ContentsFacts, ChatTurnAssumption DEF TypeOK, StreamInv, StreamOK, AutoFinalWrite, PersistFinal, Goto, session, registry, memory, client
    <3>2. \A t \in Sends \ {s} : Kept(t)
      BY <1>11, <2>1, <3>1 DEF Kept, TypeOK, AutoFinalWrite, PersistFinal, Goto, session, registry, memory, client
    <3>3. MessageOK(s)'
      <4>1. /\ pc[s] = "autofinal" /\ pc'[s] = "ended" /\ turn'[s] = turn[s]
            /\ stored'[s] = turn[s]
        BY <1>11, <2>1 DEF TypeOK, AutoFinalWrite, Goto
      <4>2. QED
        BY <4>1, Own DEF MessageOK
    <3>4. StreamOK(s)'
      BY <1>11, <2>1, <3>1, ContentsFacts, ChatTurnAssumption DEF TypeOK, MessageInv, MessageOK, StreamInv, StreamOK, ErrorText, NoMessage, AutoFinalWrite, PersistFinal, Goto, session, registry, memory, client
    <3>5. QED
      BY <3>1, <3>2, <3>3, <3>4, OthersKept
  <2>2. CASE lost' = lost \cup {s} /\ UNCHANGED stored
    <3>1. TypeOK'
      BY <1>11, <2>2, ContentsFacts, ChatTurnAssumption DEF TypeOK, StreamInv, StreamOK, AutoFinalWrite, PersistFinal, Goto, session, registry, memory, client
    <3>2. \A t \in Sends \ {s} : Kept(t)
      BY <1>11, <2>2, <3>1 DEF Kept, TypeOK, AutoFinalWrite, PersistFinal, Goto, session, registry, memory, client
    <3>3. MessageOK(s)'
      BY <1>11, <2>2, <3>1 DEF TypeOK, MessageInv, MessageOK, NoMessage, AutoFinalWrite, PersistFinal, Goto, session, registry, memory, client
    <3>4. StreamOK(s)'
      BY <1>11, <2>2, <3>1, ContentsFacts, ChatTurnAssumption DEF TypeOK, MessageInv, MessageOK, StreamInv, StreamOK, ErrorText, NoMessage, AutoFinalWrite, PersistFinal, Goto, session, registry, memory, client
    <3>5. QED
      BY <3>1, <3>2, <3>3, <3>4, OthersKept
  <2>3. QED
    BY <1>11, <2>1, <2>2 DEF AutoFinalWrite, PersistFinal, Goto
<1>12. ASSUME NEW s \in Sends, PrepareFails(s)
      PROVE  TypeOK' /\ MessageInv' /\ StreamInv'
  <2>1. TypeOK'
    BY <1>12, ContentsFacts, ChatTurnAssumption DEF TypeOK, StreamInv, StreamOK, PrepareFails, Goto, session, registry, memory, client
  <2>2. \A t \in Sends \ {s} : Kept(t)
    BY <1>12, <2>1 DEF Kept, TypeOK, PrepareFails, Goto, session, registry, memory, client
  <2>3. MessageOK(s)'
    BY <1>12, <2>1 DEF TypeOK, MessageInv, MessageOK, NoMessage, PrepareFails, Goto, session, registry, memory, client
  <2>4. StreamOK(s)'
    BY <1>12, <2>1, ContentsFacts, ChatTurnAssumption DEF TypeOK, MessageInv, MessageOK, StreamInv, StreamOK, ErrorText, NoMessage, PrepareFails, Goto, session, registry, memory, client
  <2>5. QED
    BY <2>1, <2>2, <2>3, <2>4, OthersKept
<1>13. ASSUME NEW s \in Sends, Abandon(s)
      PROVE  TypeOK' /\ MessageInv' /\ StreamInv'
  <2>1. TypeOK'
    BY <1>13, ContentsFacts, ChatTurnAssumption DEF TypeOK, StreamInv, StreamOK, Abandon, Goto, session, registry, memory, client
  <2>2. \A t \in Sends \ {s} : Kept(t)
    BY <1>13, <2>1 DEF Kept, TypeOK, Abandon, Goto, session, registry, memory, client
  <2>3. MessageOK(s)'
    BY <1>13, <2>1 DEF TypeOK, MessageInv, MessageOK, NoMessage, Abandon, Goto, session, registry, memory, client
  <2>4. StreamOK(s)'
    BY <1>13, <2>1, ContentsFacts, ChatTurnAssumption DEF TypeOK, MessageInv, MessageOK, StreamInv, StreamOK, ErrorText, NoMessage, Abandon, Goto, session, registry, memory, client
  <2>5. QED
    BY <2>1, <2>2, <2>3, <2>4, OthersKept
<1>14. ASSUME NEW s \in Sends, EmitToken(s)
      PROVE  TypeOK' /\ MessageInv' /\ StreamInv'
  <2>1. TypeOK'
    BY <1>14, ContentsFacts, ChatTurnAssumption DEF TypeOK, StreamInv, StreamOK, EmitToken, MayForward, Goto, session, registry, memory, client
  <2>2. \A t \in Sends \ {s} : Kept(t)
    BY <1>14, <2>1 DEF Kept, TypeOK, EmitToken, MayForward, Goto, session, registry, memory, client
  <2>3. MessageOK(s)'
    BY <1>14, <2>1 DEF TypeOK, MessageInv, MessageOK, NoMessage, EmitToken, MayForward, Goto, session, registry, memory, client
  <2>4. StreamOK(s)'
    <3>1. /\ pc[s] = "streaming" /\ pc'[s] = "yielded" /\ pend'[s] = "TOKEN"
          /\ tokens'[s] = tokens[s] + 1 /\ UNCHANGED <<turn, stored, buf>>
      BY <1>14 DEF TypeOK, EmitToken, Goto, session
    <3>2. /\ stored[s].status \notin FinalStatus
          /\ buf[s] = tokens[s] /\ tokens[s] \in Nat
      BY <3>1, Own DEF MessageOK, StreamOK
    <3>3. QED
      BY <3>1, <3>2 DEF StreamOK
  <2>5. QED
    BY <2>1, <2>2, <2>3, <2>4, OthersKept
<1>15. ASSUME NEW s \in Sends, EmitTerminal(s)
      PROVE  TypeOK' /\ MessageInv' /\ StreamInv'
  <2>1. TypeOK'
    BY <1>15, ContentsFacts, ChatTurnAssumption DEF TypeOK, StreamInv, StreamOK, EmitTerminal, NextTerminal, Goto, Send, session, registry, memory, client
  <2>2. \A t \in Sends \ {s} : Kept(t)
    BY <1>15, <2>1 DEF Kept, TypeOK, EmitTerminal, NextTerminal, Goto, Send, session, registry, memory, client
  <2>3. MessageOK(s)'
    BY <1>15, <2>1 DEF TypeOK, MessageInv, MessageOK, NoMessage, EmitTerminal, NextTerminal, Goto, Send, session, registry, memory, client
  <2>4. StreamOK(s)'
    BY <1>15, <2>1, ContentsFacts, ChatTurnAssumption DEF TypeOK, MessageInv, MessageOK, StreamInv, StreamOK, ErrorText, NoMessage, EmitTerminal, NextTerminal, Goto, Send, session, registry, memory, client
  <2>5. QED
    BY <2>1, <2>2, <2>3, <2>4, OthersKept
<1>16. ASSUME NEW s \in Sends, Accumulate(s)
      PROVE  TypeOK' /\ MessageInv' /\ StreamInv'
  <2> USE ContentsFacts, ChatTurnAssumption
  <2>1. CASE pend[s] = "TOKEN"
    <3>1. /\ pc[s] = "yielded" /\ pc' = [pc EXCEPT ![s] = "streaming"]
          /\ buf' = [buf EXCEPT ![s] = tokens[s]] /\ UNCHANGED turn
          /\ pend' = [pend EXCEPT ![s] = "none"]
          /\ UNCHANGED <<session, registry, agent, client, audited, lost>>
      <4>1. buf[s] + 1 = tokens[s]
        <5>1. pc[s] = "yielded" /\ tokens[s] \in Int
          BY <1>16 DEF Accumulate, TypeOK
        <5>2. buf[s] = tokens[s] - 1
          BY <2>1, <5>1 DEF StreamInv, StreamOK
        <5>3. QED
          BY <5>1, <5>2
      <4>2. QED
        BY <1>16, <2>1, <4>1 DEF Accumulate, AccumulateToken, Goto
    <3>2. TypeOK'
      BY <3>1 DEF TypeOK, session, registry, memory, client
    <3>3. \A t \in Sends \ {s} : Kept(t)
      BY <2>1, <3>1, <3>2 DEF Kept, TypeOK, session, registry, memory, client
    <3>4. MessageOK(s)'
      BY <2>1, <3>1, <3>2 DEF TypeOK, MessageInv, MessageOK, session, registry, memory, client
    <3>5. StreamOK(s)'
      BY <2>1, <3>1, <3>2 DEF TypeOK, MessageInv, MessageOK, StreamInv, StreamOK, session, registry, memory, client
    <3>6. QED
      BY <3>2, <3>3, <3>4, <3>5, OthersKept
  <2>2. CASE pend[s] \in TerminalEvent
    <3> DEFINE status == StatusOf(pend[s])
               content == IF pend[s] = "ERROR" THEN ErrorText ELSE buf[s]
    <3>1. /\ pc[s] = "yielded" /\ pc' = [pc EXCEPT ![s] = "finalizing"]
          /\ Finalize(s, status, content) /\ pend' = [pend EXCEPT ![s] = "none"]
          /\ UNCHANGED <<session, registry, agent, client, audited, lost>>
      BY <1>16, <2>2 DEF Accumulate, Goto
    <3>2. /\ status \in FinalStatus /\ content \in Contents
          /\ status \in {"complete", "aborted"} => content = buf[s]
      BY <2>2 DEF StatusOf, TypeOK
    <3> HIDE DEF status, content
    <3>3. /\ turn' \in [Sends -> [status : MessageStatus, content : Contents]]
          /\ buf' \in [Sends -> Contents]
          /\ turn'[s].status = status /\ turn'[s].content = content
          /\ \A t \in Sends \ {s} : turn'[t] = turn[t] /\ buf'[t] = buf[t]
      BY <3>1, <3>2, FinalizeFacts
    <3>4. TypeOK'
      BY <3>1, <3>3 DEF TypeOK, session, registry, memory, client
    <3>5. \A t \in Sends \ {s} : Kept(t)
      BY <3>1, <3>2, <3>3, <3>4 DEF Kept, TypeOK, session, registry, memory, client
    <3>6. MessageOK(s)'
      BY <3>1, <3>2, <3>3, <3>4 DEF TypeOK, MessageInv, MessageOK, session, registry, memory, client
    <3>7. StreamOK(s)'
      BY <2>2, <3>1, <3>2, <3>3, <3>4 DEF TypeOK, MessageInv, MessageOK, StreamInv, StreamOK, session, registry, memory, client
    <3>8. QED
      BY <3>4, <3>5, <3>6, <3>7, OthersKept
  <2>3. QED
    BY <1>16, <2>1, <2>2 DEF Accumulate
<1>17. ASSUME NEW s \in Sends, Raises(s)
      PROVE  TypeOK' /\ MessageInv' /\ StreamInv'
  <2>1. TypeOK'
    BY <1>17, ContentsFacts, ChatTurnAssumption DEF TypeOK, StreamInv, StreamOK, Raises, Goto, Send, session, registry, memory, client
  <2>2. \A t \in Sends \ {s} : Kept(t)
    BY <1>17, <2>1 DEF Kept, TypeOK, Raises, Goto, Send, session, registry, memory, client
  <2>3. MessageOK(s)'
    BY <1>17, <2>1 DEF TypeOK, MessageInv, MessageOK, NoMessage, Raises, Goto, Send, session, registry, memory, client
  <2>4. StreamOK(s)'
    BY <1>17, <2>1, ContentsFacts, ChatTurnAssumption DEF TypeOK, MessageInv, MessageOK, StreamInv, StreamOK, ErrorText, NoMessage, Raises, Goto, Send, session, registry, memory, client
  <2>5. QED
    BY <2>1, <2>2, <2>3, <2>4, OthersKept
<1>18. ASSUME NEW s \in Sends, Disconnect(s)
      PROVE  TypeOK' /\ MessageInv' /\ StreamInv'
  <2>1. TypeOK'
    BY <1>18, ContentsFacts, ChatTurnAssumption DEF TypeOK, StreamInv, StreamOK, Disconnect, Interrupted, Goto, session, registry, memory, client
  <2>2. \A t \in Sends \ {s} : Kept(t)
    BY <1>18, <2>1 DEF Kept, TypeOK, Disconnect, Interrupted, Goto, session, registry, memory, client
  <2>3. MessageOK(s)'
    BY <1>18, <2>1 DEF TypeOK, MessageInv, MessageOK, NoMessage, Disconnect, Interrupted, Goto, session, registry, memory, client
  <2>4. StreamOK(s)'
    <3>1. /\ pc[s] \in Awaiting \cup {"yielded"} /\ pc'[s] = "cleanup"
          /\ UNCHANGED <<turn, stored, buf, pend, tokens>>
      BY <1>18 DEF TypeOK, Disconnect, Goto, session, memory, client
    <3>2. MessageOK(s) /\ StreamOK(s) /\ buf[s] \in Int /\ tokens[s] \in Nat
      BY Own
    <3>3. QED
      BY <3>1, <3>2 DEF MessageOK, StreamOK
  <2>5. QED
    BY <2>1, <2>2, <2>3, <2>4, OthersKept
<1>19. ASSUME NEW s \in Sends, NEW a \in Agents, GuardCheck(s, a)
      PROVE  TypeOK' /\ MessageInv' /\ StreamInv'
  <2>1. TypeOK'
    BY <1>19, ContentsFacts, ChatTurnAssumption DEF TypeOK, StreamInv, StreamOK, GuardCheck, Goto, session, registry, memory, client
  <2>2. \A t \in Sends \ {s} : Kept(t)
    BY <1>19, <2>1 DEF Kept, TypeOK, GuardCheck, Goto, session, registry, memory, client
  <2>3. MessageOK(s)'
    BY <1>19, <2>1 DEF TypeOK, MessageInv, MessageOK, NoMessage, GuardCheck, Goto, session, registry, memory, client
  <2>4. StreamOK(s)'
    BY <1>19, <2>1, ContentsFacts, ChatTurnAssumption DEF TypeOK, MessageInv, MessageOK, StreamInv, StreamOK, ErrorText, NoMessage, GuardCheck, Goto, session, registry, memory, client
  <2>5. QED
    BY <2>1, <2>2, <2>3, <2>4, OthersKept
<1>20. ASSUME NEW a \in Agents, Abort(a)
      PROVE  TypeOK' /\ MessageInv' /\ StreamInv'
  <2>1. TypeOK'
    <3>1. /\ abortSet' \in SUBSET Sends
          /\ UNCHANGED <<session, events, shutdown, pc, agent, memory, client, audited, lost>>
      BY <1>20, ChatTurnAssumption DEF TypeOK, Abort
    <3>2. QED
      BY <3>1 DEF TypeOK, session, memory, client
  <2>2. UNCHANGED <<pc, turn, stored, pend, buf, tokens, terminals, lost>>
    BY <1>20 DEF Abort, session, memory, client
  <2>3. MessageInv' /\ StreamInv'
    BY <2>2 DEF MessageInv, MessageOK, StreamInv, StreamOK
  <2>4. QED
    BY <2>1, <2>3
<1>21. ASSUME DeleteSession
      PROVE  TypeOK' /\ MessageInv' /\ StreamInv'
  <2>1. TypeOK'
    BY <1>21, ContentsFacts, ChatTurnAssumption DEF TypeOK, StreamInv, StreamOK, DeleteSession, session, registry, memory, client
  <2>2. MessageInv'
    BY <1>21, <2>1 DEF TypeOK, MessageInv, MessageOK, NoMessage, DeleteSession, session, registry, memory, client
  <2>3. StreamInv'
    BY <1>21, <2>1, ContentsFacts, ChatTurnAssumption DEF TypeOK, MessageInv, MessageOK, StreamInv, StreamOK, ErrorText, NoMessage, DeleteSession, session, registry, memory, client
  <2>4. QED
    BY <2>1, <2>2, <2>3
<1>22. ASSUME Shutdown
      PROVE  TypeOK' /\ MessageInv' /\ StreamInv'
  <2>1. TypeOK'
    BY <1>22 DEF TypeOK, Shutdown, session, registry, memory, client
  <2>2. UNCHANGED <<pc, turn, stored, pend, buf, tokens, terminals, lost>>
    BY <1>22 DEF Shutdown, session, memory, client
  <2>3. MessageInv' /\ StreamInv'
    BY <2>2 DEF MessageInv, MessageOK, StreamInv, StreamOK
  <2>4. QED
    BY <2>1, <2>3
<1>23. ASSUME Restart
      PROVE  TypeOK' /\ MessageInv' /\ StreamInv'
  <2>1. TypeOK'
    BY <1>23, ContentsFacts, ChatTurnAssumption DEF TypeOK, StreamInv, StreamOK, Restart, session, registry, memory, client
  <2>2. MessageInv'
    BY <1>23, <2>1 DEF TypeOK, MessageInv, MessageOK, NoMessage, Restart, session, registry, memory, client
  <2>3. StreamInv'
    BY <1>23, <2>1, ContentsFacts, ChatTurnAssumption DEF TypeOK, MessageInv, MessageOK, StreamInv, StreamOK, ErrorText, NoMessage, Restart, session, registry, memory, client
  <2>4. QED
    BY <2>1, <2>2, <2>3
<1>24. CASE UNCHANGED vars
  BY <1>24 DEF TypeOK, MessageInv, MessageOK, StreamInv, StreamOK, vars, session, registry, memory, client
<1>25. QED
  BY <1>1, <1>2, <1>3, <1>4, <1>5, <1>6, <1>7, <1>8, <1>9, <1>10, <1>11, <1>12, <1>13, <1>14, <1>15, <1>16, <1>17, <1>18, <1>19, <1>20, <1>21, <1>22, <1>23, <1>24 DEF Next, Progress, Environment

LEMMA IInvAlways == Spec => []IInv
BY InitIInv, NextIInv, PTL DEF Spec

\* Every variable keeps its type: the buffer never holds more tokens than were sent,
\* and every path of a request ends at a label of the code.
THEOREM TypeCorrect == Spec => []TypeOK
<1>1. IInv => TypeOK
  BY DEF IInv
<1>2. QED
  BY IInvAlways, <1>1, PTL

\* The message in memory and the one in the store go with the place of the request:
\* the invariant the two theorems below rest on.
THEOREM MessagesFollowRequest == Spec => []MessageInv
<1>1. IInv => MessageInv
  BY DEF IInv
<1>2. QED
  BY IInvAlways, <1>1, PTL

\* Timeouts, disconnects, exceptions and aborts in any order: an ended request leaves
\* a STREAMING placeholder only if its final write was lost.
THEOREM PlaceholderClosed == Spec => []PlaceholderClosedUnlessLost
<1>1. IInv => PlaceholderClosedUnlessLost
  BY DEF IInv, MessageInv, MessageOK, PlaceholderClosedUnlessLost
<1>2. QED
  BY IInvAlways, <1>1, PTL

\* A complete answer in the store has exactly the tokens the client was sent, an
\* aborted one all but at most the last.
THEOREM StoredFollowsStream == Spec => []StoredMatchesStream
<1>1. IInv => StoredMatchesStream
  BY DEF IInv, StreamInv, StreamOK, StoredMatchesStream
<1>2. QED
  BY IInvAlways, <1>1, PTL

\* No token leaves the server after a terminal event, an abort or a shutdown.
THEOREM StreamIsQuietAfterStop == Spec => QuietAfterStop
<1>1. ASSUME IInv, [Next]_vars
      PROVE  [\A s \in Sends :
                terminals[s] # <<>> \/ s \in abortSet \/ shutdown => tokens'[s] = tokens[s]]_vars
  <2> SUFFICES ASSUME NEW s \in Sends, tokens'[s] # tokens[s]
               PROVE  terminals[s] = <<>> /\ s \notin abortSet /\ ~shutdown
    OBVIOUS
  <2>1. \E t \in Sends : EmitToken(t)
    BY <1>1 DEF Next, Progress, Environment, vars, session, registry, memory, client,
                StartTurn, Register, GenStart, Load, BeginResponse, ShutdownSeen, FinalWrite,
                Post, Timeout, Cleanup, AutoFinalWrite, GuardCheck, PrepareFails, Abandon,
                EmitTerminal, Accumulate, Raises, Disconnect, Abort, DeleteSession, Shutdown,
                Restart
  <2>2. EmitToken(s)
    BY <1>1, <2>1 DEF EmitToken, IInv, TypeOK
  <2>3. QED
    BY <1>1, <2>2 DEF EmitToken, MayForward, IInv, MessageInv, MessageOK
<1>2. QED
  BY IInvAlways, <1>1, PTL DEF Spec, QuietAfterStop

-----------------------------------------------------------------------------
(* Each step of ChatTurn is a step of TurnLifecycle or leaves it unchanged. *)

\* A step that changes no message and settles some requests, possibly none.
LEMMA Settles ==
    ASSUME StoredStatus' = StoredStatus, NEW T \in SUBSET Sends, Settled' = Settled \cup T
    PROVE  [Lifecycle!Next]_(Lifecycle!vars)
BY DEF Lifecycle!Next, Lifecycle!GiveUp, Lifecycle!vars

\* PersistFinal of an open request, as Finish or as GiveUp.
LEMMA PersistFinishes ==
    ASSUME TypeOK, NEW s \in Sends, PersistFinal(s), s \notin Settled,
           Settled' = Settled \cup {s}, turn[s].status \in FinalStatus,
           stored[s].status \in {"none", "streaming"}
    PROVE  [Lifecycle!Next]_(Lifecycle!vars)
<1>1. CASE UNCHANGED stored
  <2>1. StoredStatus' = StoredStatus
    BY <1>1 DEF StoredStatus
  <2>2. {s} \in SUBSET Sends
    OBVIOUS
  <2>3. QED
    BY <2>1, <2>2, Settles
<1>2. CASE stored' = [stored EXCEPT ![s] = turn[s]]
  <2>1. StoredStatus' = [StoredStatus EXCEPT ![s] = turn[s].status]
    BY <1>2 DEF StoredStatus, TypeOK
  <2>2. StoredStatus[s] \in {"none", "streaming"}
    BY DEF StoredStatus
  <2>3. Lifecycle!Finish(s)
    BY <2>1, <2>2 DEF Lifecycle!Finish, Lifecycle!FinalStatus
  <2>4. QED
    BY <2>3 DEF Lifecycle!Next
<1>3. QED
  BY <1>1, <1>2 DEF PersistFinal

LEMMA StepRefines ==
    ASSUME IInv, Next
    PROVE  [Lifecycle!Next]_(Lifecycle!vars)
<1> USE DEF IInv
<1>1. ASSUME NEW s \in Sends, PrepareFails(s) \/ ShutdownSeen(s) \/ Raises(s)
                              \/ Disconnect(s) \/ Timeout(s) \/ Load(s) \/ Cleanup(s)
      PROVE  [Lifecycle!Next]_(Lifecycle!vars)
  <2>1. StoredStatus' = StoredStatus
    BY <1>1 DEF StoredStatus, session, PrepareFails, ShutdownSeen, Raises, Disconnect,
                Timeout, Load, Cleanup
  <2>2. Settled' = Settled \/ Settled' = Settled \cup {s}
    <3>1. \A t \in Sends \ {s} : t \in Settled' <=> t \in Settled
      BY <1>1 DEF Settled, TypeOK, memory, PrepareFails, ShutdownSeen, Raises, Disconnect,
                  Timeout, Load, Cleanup, CloseMessage, Finalize, Goto
    <3>2. s \in Settled => s \in Settled'
      BY <1>1 DEF Settled, TypeOK, MessageInv, MessageOK, memory, PrepareFails, ShutdownSeen, Raises,
                  Disconnect, Timeout, Load, Cleanup, CloseMessage, Finalize, Goto
    <3>3. QED
      BY <3>1, <3>2 DEF Settled
  <2>3. CASE Settled' = Settled
    BY <2>1, <2>3 DEF Lifecycle!vars
  <2>4. CASE Settled' = Settled \cup {s}
    BY <2>1, <2>4, {s} \in SUBSET Sends, Settles
  <2>5. QED
    BY <2>2, <2>3, <2>4
<1>2. ASSUME NEW s \in Sends, StartTurn(s) \/ Register(s) \/ GenStart(s) \/ Post(s)
                              \/ Abandon(s) \/ EmitToken(s) \/ EmitTerminal(s) \/ Accumulate(s)
      PROVE  [Lifecycle!Next]_(Lifecycle!vars)
  <2>1. StoredStatus' = StoredStatus
    BY <1>2 DEF StoredStatus, session, StartTurn, Register, GenStart, Post, Abandon,
                EmitToken, EmitTerminal, Accumulate
  <2>2. Settled' = Settled
    <3>1. \A t \in Sends \ {s} : t \in Settled' <=> t \in Settled
      BY <1>2 DEF Settled, TypeOK, memory, StartTurn, Register, GenStart, Post, Abandon,
                  EmitToken, EmitTerminal, Accumulate, Finalize, Goto
    <3>2. s \in Settled' <=> s \in Settled
      BY <1>2 DEF Settled, TypeOK, MessageInv, MessageOK, memory, StartTurn, Register, GenStart, Post,
                  Abandon, EmitToken, EmitTerminal, Accumulate, Finalize, Goto
    <3>3. QED
      BY <3>1, <3>2 DEF Settled
  <2>3. QED
    BY <2>1, <2>2 DEF Lifecycle!vars
<1>3. ASSUME NEW s \in Sends, NEW a \in Agents, GuardCheck(s, a)
      PROVE  [Lifecycle!Next]_(Lifecycle!vars)
  <2>1. StoredStatus' = StoredStatus
    BY <1>3 DEF StoredStatus, session, GuardCheck
  <2>2. Settled' = Settled \/ Settled' = Settled \cup {s}
    BY <1>3 DEF Settled, TypeOK, memory, GuardCheck, Goto
  <2>3. CASE Settled' = Settled
    BY <2>1, <2>3 DEF Lifecycle!vars
  <2>4. CASE Settled' = Settled \cup {s}
    BY <2>1, <2>4, {s} \in SUBSET Sends, Settles
  <2>5. QED
    BY <2>2, <2>3, <2>4
<1>4. ASSUME NEW s \in Sends, BeginResponse(s)
      PROVE  [Lifecycle!Next]_(Lifecycle!vars)
  <2>1. Settled' = Settled /\ s \notin Settled
    BY <1>4 DEF Settled, TypeOK, BeginResponse, Goto
  <2>2. \/ stored' = stored
        \/ stored' = [stored EXCEPT ![s] = turn'[s]] /\ turn'[s].status = "streaming"
    BY <1>4 DEF BeginResponse, TypeOK
  <2>3. StoredStatus' \in {StoredStatus, [StoredStatus EXCEPT ![s] = "streaming"]}
    BY <2>2 DEF StoredStatus, TypeOK
  <2>4. StoredStatus[s] = "none"
    BY <1>4 DEF BeginResponse, MessageInv, MessageOK, StoredStatus
  <2>5. QED
    BY <2>1, <2>3, <2>4 DEF Lifecycle!Next, Lifecycle!Place, Lifecycle!vars
<1>5. ASSUME NEW s \in Sends, FinalWrite(s) \/ AutoFinalWrite(s)
      PROVE  [Lifecycle!Next]_(Lifecycle!vars)
  <2>1. /\ PersistFinal(s) /\ s \notin Settled /\ Settled' = Settled \cup {s}
        /\ turn[s].status \in FinalStatus /\ stored[s].status \in {"none", "streaming"}
    BY <1>5 DEF FinalWrite, AutoFinalWrite, Settled, MessageInv, MessageOK, TypeOK, Goto
  <2>2. QED
    BY <2>1, PersistFinishes
<1>6. ASSUME DeleteSession
      PROVE  [Lifecycle!Next]_(Lifecycle!vars)
  <2>1. StoredStatus' = [s \in Sends |-> "none"] /\ Settled' = Settled
    BY <1>6 DEF DeleteSession, StoredStatus, Settled, NoMessage, memory
  <2>2. QED
    BY <2>1 DEF Lifecycle!Next, Lifecycle!Remove
<1>7. ASSUME Shutdown \/ \E a \in Agents : Abort(a)
      PROVE  [Lifecycle!Next]_(Lifecycle!vars)
  BY <1>7 DEF Shutdown, Abort, StoredStatus, Settled, session, memory, Lifecycle!vars
<1>8. ASSUME Restart
      PROVE  [Lifecycle!Next]_(Lifecycle!vars)
  <2> DEFINE gone == {s \in Sends : pc[s] \notin Refused \cup Over \cup {"idle"}}
  <2>1. StoredStatus' = StoredStatus
    BY <1>8 DEF Restart, StoredStatus, session
  <2>2. pc' = [s \in Sends |-> IF s \in gone THEN "killed" ELSE pc[s]]
    BY <1>8 DEF Restart
  <2>3. Settled' = Settled \cup gone
    BY <2>2 DEF Settled, TypeOK
  <2>4. QED
    BY <2>1, <2>3, Settles
<1>9. QED
  BY <1>1, <1>2, <1>3, <1>4, <1>5, <1>6, <1>7, <1>8 DEF Next, Progress, Environment

\* The turns of the service keep the promise of TurnLifecycle: one final write at
\* most per turn, no final answer rewritten, whatever the interleaving.
THEOREM ImplementsLifecycle == Spec => TurnsImplementLifecycle
<1>1. Init => Lifecycle!Init
  BY DEF Init, Lifecycle!Init, StoredStatus, Settled, NoMessage
<1>2. IInv /\ [Next]_vars => [Lifecycle!Next]_(Lifecycle!vars)
  <2>1. ASSUME UNCHANGED vars PROVE UNCHANGED Lifecycle!vars
    BY <2>1 DEF vars, Lifecycle!vars, StoredStatus, Settled, session, memory
  <2>2. QED
    BY <2>1, StepRefines
<1>3. QED
  BY IInvAlways, <1>1, <1>2, PTL DEF Spec, TurnsImplementLifecycle, Lifecycle!Spec

-----------------------------------------------------------------------------
\* Whatever is registered for an agent is a request for that agent that has not run
\* its finally block, or a generator that never entered its try.
THEOREM GuardIsOwned == Spec => []GuardHasOwner
<1>1. Init => GuardHasOwner
  BY ChatTurnAssumption DEF Init, GuardHasOwner
<1>2. IInv /\ GuardHasOwner /\ [Next]_vars => GuardHasOwner'
  <2> SUFFICES ASSUME TypeOK, GuardHasOwner, [Next]_vars
               PROVE  GuardHasOwner'
    BY DEF IInv
  <2> DEFINE MayOwn(label) ==
        \/ label \in Awaiting \cup {"registered", "yielded", "cleanup", "abandoned"}
        \/ label = "crashed" /\ ~ScenarioResolved
  <2>1. ASSUME NEW s \in Sends, StartTurn(s) \/ GenStart(s) \/ Load(s) \/ BeginResponse(s)
                                \/ ShutdownSeen(s) \/ FinalWrite(s) \/ Post(s) \/ Timeout(s)
                                \/ AutoFinalWrite(s)
        PROVE  GuardHasOwner'
    <3>1. events' = events /\ agent' = agent
      BY <2>1 DEF registry, StartTurn, GenStart, Load, BeginResponse, ShutdownSeen, FinalWrite,
                  Post, Timeout, AutoFinalWrite
    <3>2. \A t \in Sends \ {s} : pc'[t] = pc[t]
      BY <2>1 DEF TypeOK, Goto, StartTurn, GenStart, Load, BeginResponse, ShutdownSeen, FinalWrite,
                  Post, Timeout, AutoFinalWrite
    <3>3. MayOwn(pc[s]) => MayOwn(pc'[s])
      BY <2>1 DEF TypeOK, Goto, StartTurn, GenStart, Load, BeginResponse, ShutdownSeen, FinalWrite,
                  Post, Timeout, AutoFinalWrite
    <3>4. QED
      BY <3>1, <3>2, <3>3 DEF GuardHasOwner
  <2>2. ASSUME NEW s \in Sends, PrepareFails(s) \/ Abandon(s) \/ EmitToken(s)
                                \/ EmitTerminal(s) \/ Accumulate(s) \/ Raises(s)
                                \/ Disconnect(s)
        PROVE  GuardHasOwner'
    <3>1. events' = events /\ agent' = agent
      BY <2>2 DEF registry, PrepareFails, Abandon, EmitToken, EmitTerminal, Accumulate, Raises,
                  Disconnect
    <3>2. \A t \in Sends \ {s} : pc'[t] = pc[t]
      BY <2>2 DEF TypeOK, Goto, PrepareFails, Abandon, EmitToken, EmitTerminal, Accumulate, Raises,
                  Disconnect
    <3>3. MayOwn(pc[s]) => MayOwn(pc'[s])
      BY <2>2 DEF TypeOK, Goto, PrepareFails, Abandon, EmitToken, EmitTerminal, Accumulate, Raises,
                  Disconnect
    <3>4. QED
      BY <3>1, <3>2, <3>3 DEF GuardHasOwner
  <2>3. ASSUME NEW s \in Sends, Register(s) PROVE GuardHasOwner'
    BY <2>3, ChatTurnAssumption DEF GuardHasOwner, TypeOK, Register, Goto
  <2>4. ASSUME NEW s \in Sends, Cleanup(s) PROVE GuardHasOwner'
    <3>1. \A a \in Agents, t \in Sends : events'[a] = t => events[a] = t /\ a # agent[s]
      BY <2>4, ChatTurnAssumption DEF Cleanup, PopGuard, TypeOK
    <3>2. \A t \in Sends : agent'[t] = agent[t] /\ (t # s => pc'[t] = pc[t])
      BY <2>4 DEF Cleanup, CloseMessage, Goto, TypeOK
    <3>3. QED
      BY <3>1, <3>2 DEF GuardHasOwner
  <2>5. ASSUME NEW s \in Sends, NEW a \in Agents, GuardCheck(s, a) PROVE GuardHasOwner'
    <3>1. pc[s] = "idle"
      BY <2>5 DEF GuardCheck
    <3>2. \A b \in Agents : events[b] # s
      BY <3>1 DEF GuardHasOwner
    <3>3. \A b \in Agents, t \in Sends : events'[b] = t => events[b] = t
      BY <2>5, ChatTurnAssumption DEF GuardCheck, TypeOK
    <3>4. \A t \in Sends \ {s} : agent'[t] = agent[t] /\ pc'[t] = pc[t]
      BY <2>5 DEF GuardCheck, Goto, TypeOK
    <3>5. QED
      BY <3>2, <3>3, <3>4 DEF GuardHasOwner
  <2>6. CASE DeleteSession \/ Shutdown \/ (\E a \in Agents : Abort(a)) \/ UNCHANGED vars
    BY <2>6 DEF GuardHasOwner, DeleteSession, Shutdown, Abort, vars, registry
  <2>7. CASE Restart
    BY <2>7, ChatTurnAssumption DEF GuardHasOwner, Restart
  <2>8. QED
    BY <2>1, <2>2, <2>3, <2>4, <2>5, <2>6, <2>7 DEF Next, Progress, Environment
<1>3. QED
  BY IInvAlways, <1>1, <1>2, PTL DEF Spec
-----------------------------------------------------------------------------
(* What the client was told first is what the answer is stored as.           *)

Begins(s, e) == terminals[s] # <<>> /\ Head(terminals[s]) = e

\* The event being yielded, the message in memory and the message in the store go
\* with the first terminal event.
TerminalOK(s) ==
    /\ pc[s] = "yielded" => \A e \in TerminalEvent : pend[s] = e => Begins(s, e)
    /\ turn[s].status = "complete" \/ stored[s].status = "complete" => Begins(s, "DONE")
    /\ turn[s].status = "error" \/ stored[s].status = "error" => Begins(s, "ERROR")

TerminalInv == \A s \in Sends : TerminalOK(s)

\* Terminal events are only ever added at the end.
LEMMA FirstEventStays ==
    ASSUME TypeOK, [Next]_vars, NEW t \in Sends, NEW e \in TerminalEvent, Begins(t, e)
    PROVE  Begins(t, e)'
<1>1. ASSUME NEW s \in Sends, NEW f \in TerminalEvent, Send(s, f)
      PROVE  Begins(t, e)'
  <2>1. terminals[t] \in Seq(TerminalEvent) /\ terminals[t] # <<>>
    BY DEF TypeOK, Begins
  <2>2. terminals'[t] \in {terminals[t], Append(terminals[t], f)}
    BY <1>1 DEF Send, TypeOK
  <2>3. /\ Append(terminals[t], f) # <<>>
        /\ Head(Append(terminals[t], f)) = Head(terminals[t])
    BY <2>1
  <2>4. QED
    BY <2>2, <2>3 DEF Begins
<1>2. ASSUME UNCHANGED terminals PROVE Begins(t, e)'
  BY <1>2 DEF Begins
<1>3. UNCHANGED terminals \/ \E s \in Sends, f \in TerminalEvent : Send(s, f)
  <2>1. ASSUME NEW s \in Sends, Progress(s)
        PROVE  UNCHANGED terminals \/ \E f \in TerminalEvent : Send(s, f)
    BY <2>1 DEF Progress, client, StartTurn, Register, GenStart, Load, BeginResponse,
                ShutdownSeen, FinalWrite, Post, Timeout, Cleanup, AutoFinalWrite
  <2>2. ASSUME NEW s \in Sends, Environment(s)
        PROVE  UNCHANGED terminals \/ \E f \in TerminalEvent : Send(s, f)
    BY <2>2 DEF Environment, client, NextTerminal, GuardCheck, PrepareFails, Abandon, EmitToken,
                EmitTerminal, Accumulate, Raises, Disconnect
  <2>3. QED
    BY <2>1, <2>2 DEF Next, vars, client, Abort, DeleteSession, Shutdown, Restart
<1>4. QED
  BY <1>1, <1>2, <1>3

\* A step that writes no other status than the invariant allows keeps it.
LEMMA KeepsTerminalOK ==
    ASSUME IInv, TerminalInv, [Next]_vars, NEW t \in Sends,
           pc'[t] = "yielded" => pend'[t] \notin TerminalEvent
                                 \/ (pc[t] = "yielded" /\ pend'[t] = pend[t]),
           turn'[t].status \in {turn[t].status, "none", "streaming", "aborted"},
           stored'[t].status \in {stored[t].status, turn[t].status, "none", "streaming"}
    PROVE  TerminalOK(t)'
<1>1. TypeOK /\ TerminalOK(t)
  BY DEF IInv, TerminalInv
<1>2. \A e \in TerminalEvent : Begins(t, e) => Begins(t, e)'
  BY <1>1, FirstEventStays
<1>3. pc'[t] = "yielded" => \A e \in TerminalEvent : pend'[t] = e => Begins(t, e)'
  BY <1>1, <1>2 DEF TerminalOK
<1>4. turn'[t].status = "complete" \/ stored'[t].status = "complete" => Begins(t, "DONE")'
  BY <1>1, <1>2 DEF TerminalOK
<1>5. turn'[t].status = "error" \/ stored'[t].status = "error" => Begins(t, "ERROR")'
  BY <1>1, <1>2 DEF TerminalOK
<1>6. QED
  BY <1>3, <1>4, <1>5 DEF TerminalOK

LEMMA NextTerminalInv == IInv /\ TerminalInv /\ [Next]_vars => TerminalInv'
<1> SUFFICES ASSUME IInv, TerminalInv, [Next]_vars, NEW t \in Sends PROVE TerminalOK(t)'
  BY DEF TerminalInv
<1>0. TypeOK
  BY DEF IInv
<1>1. ASSUME NEW s \in Sends, StartTurn(s) \/ Register(s) \/ GenStart(s) \/ Load(s)
                              \/ ShutdownSeen(s) \/ Post(s) \/ Timeout(s)
      PROVE  TerminalOK(t)'
  <2>1. UNCHANGED <<stored, turn, pend>> /\ (pc'[t] = "yielded" => pc[t] = "yielded")
    BY <1>0, <1>1 DEF TypeOK, session, memory, Goto, StartTurn, Register, GenStart, Load,
                      ShutdownSeen, Post, Timeout
  <2>2. QED
    BY <2>1, KeepsTerminalOK
<1>2. ASSUME NEW s \in Sends, PrepareFails(s) \/ Abandon(s) \/ Raises(s) \/ Disconnect(s)
                              \/ \E a \in Agents : GuardCheck(s, a)
      PROVE  TerminalOK(t)'
  <2>1. UNCHANGED <<stored, turn, pend>> /\ (pc'[t] = "yielded" => pc[t] = "yielded")
    BY <1>0, <1>2 DEF TypeOK, session, memory, Goto, PrepareFails, Abandon, Raises, Disconnect,
                      GuardCheck
  <2>2. QED
    BY <2>1, KeepsTerminalOK
<1>3. ASSUME NEW s \in Sends, BeginResponse(s)
      PROVE  TerminalOK(t)'
  <2>1. turn'[t].status \in {turn[t].status, "streaming"}
    BY <1>0, <1>3 DEF TypeOK, BeginResponse
  <2>2. stored'[t].status \in {stored[t].status, "streaming"}
    BY <1>0, <1>3 DEF TypeOK, BeginResponse
  <2>3. pend' = pend /\ (pc'[t] = "yielded" => pc[t] = "yielded")
    BY <1>0, <1>3 DEF TypeOK, BeginResponse, Goto
  <2>4. QED
    BY <2>1, <2>2, <2>3, KeepsTerminalOK
<1>4. ASSUME NEW s \in Sends, FinalWrite(s) \/ AutoFinalWrite(s)
      PROVE  TerminalOK(t)'
  <2>1. stored'[t].status \in {stored[t].status, turn[t].status}
    <3>1. stored' \in {stored, [stored EXCEPT ![s] = turn[s]]}
      BY <1>4 DEF FinalWrite, AutoFinalWrite, PersistFinal
    <3>2. stored'[t] \in {stored[t], turn[t]}
      BY <1>0, <3>1 DEF TypeOK
    <3>3. QED
      BY <3>2
  <2>2. UNCHANGED <<turn, pend>> /\ (pc'[t] = "yielded" => pc[t] = "yielded")
    BY <1>0, <1>4 DEF TypeOK, FinalWrite, AutoFinalWrite, Goto
  <2>3. QED
    BY <2>1, <2>2, KeepsTerminalOK
<1>5. ASSUME NEW s \in Sends, Cleanup(s)
      PROVE  TerminalOK(t)'
  <2>1. turn'[t].status \in {turn[t].status, "aborted"}
    <3>1. CASE UNCHANGED turn
      BY <3>1
    <3>2. CASE Finalize(s, "aborted", buf[s])
      BY <1>0, <3>2, FinalizeFacts DEF TypeOK
    <3>3. QED
      BY <1>5, <3>1, <3>2 DEF Cleanup, CloseMessage
  <2>2. UNCHANGED <<stored, pend>> /\ (pc'[t] = "yielded" => pc[t] = "yielded")
    BY <1>0, <1>5 DEF TypeOK, Cleanup, CloseMessage, Goto, session
  <2>3. QED
    BY <2>1, <2>2, KeepsTerminalOK
<1>6. ASSUME NEW s \in Sends, EmitToken(s)
      PROVE  TerminalOK(t)'
  <2>1. UNCHANGED <<stored, turn>>
    BY <1>6 DEF EmitToken, session
  <2>2. pc'[t] = "yielded" => pend'[t] = "TOKEN" \/ (pc[t] = "yielded" /\ pend'[t] = pend[t])
    BY <1>0, <1>6 DEF TypeOK, EmitToken, Goto
  <2>3. QED
    BY <2>1, <2>2, KeepsTerminalOK
<1>7. ASSUME NEW s \in Sends, EmitTerminal(s)
      PROVE  TerminalOK(t)'
  <2>1. UNCHANGED <<stored, turn>>
    BY <1>7 DEF EmitTerminal, session
  <2>2. CASE t # s
    <3>1. pc'[t] = pc[t] /\ pend'[t] = pend[t]
      BY <1>0, <1>7, <2>2 DEF TypeOK, EmitTerminal, Goto
    <3>2. QED
      BY <2>1, <3>1, KeepsTerminalOK
  <2>3. CASE t = s
    <3>1. PICK e \in TerminalEvent : Send(s, e) /\ pend' = [pend EXCEPT ![s] = e]
      BY <1>7 DEF EmitTerminal, NextTerminal
    <3>2. terminals[s] = <<>> /\ turn[s].status = "streaming"
          /\ stored[s].status \in {"none", "streaming"}
      BY <1>7 DEF EmitTerminal, IInv, MessageInv, MessageOK
    <3>3. terminals'[s] = Append(<<>>, e)
      BY <1>0, <3>1, <3>2 DEF Send, TypeOK
    <3>4. Begins(s, e)'
      BY <3>3 DEF Begins
    <3>5. pend'[s] = e
      BY <1>0, <3>1 DEF TypeOK
    <3>6. QED
      BY <2>1, <2>3, <3>2, <3>4, <3>5 DEF TerminalOK
  <2>4. QED
    BY <2>2, <2>3
<1>8. ASSUME NEW s \in Sends, Accumulate(s)
      PROVE  TerminalOK(t)'
  <2>1. UNCHANGED stored /\ (pc'[t] = "yielded" => pc[t] = "yielded" /\ pend'[t] = pend[t])
    BY <1>0, <1>8 DEF TypeOK, Accumulate, session, Goto
  <2>2. CASE t # s \/ turn' = turn
    <3>1. turn'[t] = turn[t]
      BY <1>0, <1>8, <2>2 DEF TypeOK, Accumulate, Finalize
    <3>2. QED
      BY <2>1, <3>1, KeepsTerminalOK
  <2>3. CASE t = s /\ pend[s] \in TerminalEvent /\ turn' # turn
    <3>1. \A e \in TerminalEvent : pend[s] = e => Begins(s, e)'
      <4>1. \A e \in TerminalEvent : pend[s] = e => Begins(s, e)
        BY <1>8 DEF TerminalInv, TerminalOK, Accumulate
      <4>2. \A e \in TerminalEvent : Begins(s, e) => Begins(s, e)'
        BY <1>0, FirstEventStays
      <4>3. QED
        BY <4>1, <4>2
    <3>2. turn'[s].status = StatusOf(pend[s])
      BY <1>0, <1>8, <2>3 DEF TypeOK, Accumulate, Finalize
    <3>3. stored[s].status \in {"none", "streaming"}
      BY <1>8 DEF Accumulate, IInv, MessageInv, MessageOK
    <3>4. pc'[s] # "yielded"
      BY <1>0, <1>8, <2>3 DEF TypeOK, Accumulate, Goto
    <3>5. QED
      <4>1. stored'[s].status \notin {"complete", "error"}
        BY <2>1, <3>3
      <4>2. turn'[s].status = "complete" => Begins(s, "DONE")'
        BY <2>3, <3>1, <3>2 DEF StatusOf
      <4>3. turn'[s].status = "error" => Begins(s, "ERROR")'
        BY <2>3, <3>1, <3>2 DEF StatusOf
      <4>4. QED
        BY <2>3, <3>4, <4>1, <4>2, <4>3 DEF TerminalOK
  <2>4. QED
    BY <1>8, <2>2, <2>3 DEF Accumulate
<1>9. ASSUME DeleteSession
      PROVE  TerminalOK(t)'
  <2>1. stored'[t].status = "none" /\ UNCHANGED <<turn, pend, pc>>
    BY <1>9 DEF DeleteSession, NoMessage, memory
  <2>2. QED
    BY <2>1, KeepsTerminalOK
<1>10. ASSUME Restart
       PROVE  TerminalOK(t)'
  <2>1. turn'[t].status \in {turn[t].status, "none"} /\ UNCHANGED stored
    BY <1>10 DEF Restart, NoMessage, session
  <2>2. pend'[t] \notin TerminalEvent
    BY <1>10 DEF Restart
  <2>3. QED
    BY <2>1, <2>2, KeepsTerminalOK
<1>11. CASE Shutdown \/ (\E a \in Agents : Abort(a)) \/ UNCHANGED vars
  <2>1. UNCHANGED <<stored, turn, pend, pc>>
    BY <1>11 DEF Shutdown, Abort, vars, session, memory
  <2>2. QED
    BY <2>1, KeepsTerminalOK
<1>12. QED
  BY <1>1, <1>2, <1>3, <1>4, <1>5, <1>6, <1>7, <1>8, <1>9, <1>10, <1>11
     DEF Next, Progress, Environment

\* An answer is stored as complete only if DONE was the first terminal event the client
\* was sent, as an error only if ERROR was: a later ERROR does not change it.
THEOREM StoredFollowsTerminal == Spec => []StoredMatchesTerminal
<1>1. Init => TerminalInv
  <2> SUFFICES ASSUME Init, NEW s \in Sends PROVE TerminalOK(s)
    BY DEF TerminalInv
  <2>1. turn[s].status = "none" /\ stored[s].status = "none" /\ pc[s] = "idle"
    BY ContentsFacts DEF Init
  <2>2. QED
    BY <2>1 DEF TerminalOK
<1>2. TerminalInv => StoredMatchesTerminal
  BY DEF TerminalInv, TerminalOK, Begins, StoredMatchesTerminal
<1>3. QED
  BY IInvAlways, <1>1, <1>2, NextTerminalInv, PTL DEF Spec

-----------------------------------------------------------------------------
(* The browser *)

\* What the slices, the documents and the server's threads consist of.
Roles == {"user", "assistant"}
ChatMessages == [role : Roles, id : Nat]
Statuses == {"idle", "streaming", "error"}
Controllers == {0} \cup Exchanges
Slices == [status : Statuses, partial : BOOLEAN, ctrl : Controllers, timer : BOOLEAN, msgs : Seq(ChatMessages)]
Threads == [Tabs -> Seq(ChatMessages)]
Documents == [id : Sessions, threads : Threads] \cup {[id |-> NoSession]}

ClientInv ==
  /\ slice \in [Tabs -> Slices]
  /\ doc \in Documents
  /\ threads \in [Sessions -> Threads]
  /\ existing \subseteq Sessions

\* What a list may become.
Stays(new, old) ==
  /\ Len(new) >= Len(old)
  /\ \A i \in DOMAIN old : /\ new[i].role = old[i].role
                           /\ old[i].id # 0 => new[i].id = old[i].id

MessagesStay == \A a \in Tabs : Stays(slice'[a].msgs, slice[a].msgs)

\* What a callback may make of a slice.
Becomes(new, old) == new \in Slices /\ Stays(new.msgs, old.msgs)

-----------------------------------------------------------------------------
LEMMA SameStays == ASSUME NEW s \in Seq(ChatMessages) PROVE Stays(s, s)
<1>1. Len(s) \in Nat
  OBVIOUS
<1>2. QED
  BY <1>1 DEF Stays

LEMMA AppendStays ==
    ASSUME NEW s \in Seq(ChatMessages), NEW m \in ChatMessages
    PROVE  Append(s, m) \in Seq(ChatMessages) /\ Stays(Append(s, m), s)
<1>1. /\ Append(s, m) \in Seq(ChatMessages) /\ Len(Append(s, m)) = Len(s) + 1
      /\ \A i \in 1..Len(s) : Append(s, m)[i] = s[i]
  BY AppendProperties
<1>2. DOMAIN s = 1..Len(s) /\ Len(s) \in Nat
  OBVIOUS
<1>3. QED
  BY <1>1, <1>2 DEF Stays

LEMMA StaysTwice ==
    ASSUME NEW s \in Seq(ChatMessages), NEW t \in Seq(ChatMessages), NEW u \in Seq(ChatMessages), Stays(t, s), Stays(u, t)
    PROVE  Stays(u, s)
<1>1. /\ DOMAIN s = 1..Len(s) /\ DOMAIN t = 1..Len(t) /\ Len(s) \in Nat /\ Len(t) \in Nat /\ Len(u) \in Nat
  OBVIOUS
<1>2. Len(u) >= Len(s) /\ \A i \in DOMAIN s : i \in DOMAIN t
  BY <1>1 DEF Stays
<1>3. QED
  BY <1>2 DEF Stays

-----------------------------------------------------------------------------
\* The slices' helpers.
LEMMA StatusSet ==
    ASSUME NEW sl \in Slices, NEW status \in Statuses
    PROVE  [sl EXCEPT !.status = status] \in Slices /\ [sl EXCEPT !.status = status].msgs = sl.msgs
BY DEF Slices

LEMMA PartialSet ==
    ASSUME NEW sl \in Slices, NEW partial \in BOOLEAN
    PROVE  [sl EXCEPT !.partial = partial] \in Slices /\ [sl EXCEPT !.partial = partial].msgs = sl.msgs
BY DEF Slices

LEMMA CtrlSet ==
    ASSUME NEW sl \in Slices, NEW ctrl \in Controllers
    PROVE  [sl EXCEPT !.ctrl = ctrl] \in Slices /\ [sl EXCEPT !.ctrl = ctrl].msgs = sl.msgs
BY DEF Slices

LEMMA TimerSet ==
    ASSUME NEW sl \in Slices, NEW timer \in BOOLEAN
    PROVE  [sl EXCEPT !.timer = timer] \in Slices /\ [sl EXCEPT !.timer = timer].msgs = sl.msgs
BY DEF Slices

LEMMA MsgsSet ==
    ASSUME NEW sl \in Slices, NEW msgs \in Seq(ChatMessages)
    PROVE  [sl EXCEPT !.msgs = msgs] \in Slices /\ [sl EXCEPT !.msgs = msgs].msgs = msgs
BY DEF Slices

LEMMA Same == ASSUME NEW sl \in Slices PROVE Becomes(sl, sl) /\ sl.msgs \in Seq(ChatMessages)
<1>1. sl.msgs \in Seq(ChatMessages)
  BY DEF Slices
<1>2. QED
  BY <1>1, SameStays DEF Becomes

LEMMA TempBecomes == ASSUME NEW sl \in Slices, NEW role \in Roles PROVE Becomes(Temp(sl, role), sl)
<1>1. sl.msgs \in Seq(ChatMessages)
  BY DEF Slices
<1>2. PICK m \in ChatMessages : m = [role |-> role, id |-> 0]
  BY DEF ChatMessages
<1>3. PICK msgs \in Seq(ChatMessages) : msgs = Append(sl.msgs, m) /\ Stays(msgs, sl.msgs)
  BY <1>1, AppendStays
<1>4. [sl EXCEPT !.msgs = msgs] \in Slices /\ [sl EXCEPT !.msgs = msgs].msgs = msgs
  BY MsgsSet
<1>5. Temp(sl, role) = [sl EXCEPT !.msgs = msgs]
  BY <1>2, <1>3 DEF Temp
<1>6. QED
  BY <1>3, <1>4, <1>5 DEF Becomes

LEMMA KeepBecomes == ASSUME NEW sl \in Slices PROVE Becomes(KeepPartial(sl), sl)
BY TempBecomes, Same DEF KeepPartial, Roles

\* The other fields do not matter to the messages.
LEMMA FieldsSet ==
    ASSUME NEW sl \in Slices, NEW old, Becomes(sl, old), NEW status \in Statuses, NEW partial \in BOOLEAN,
           NEW ctrl \in Controllers, NEW timer \in BOOLEAN
    PROVE  /\ Becomes([sl EXCEPT !.status = status, !.partial = partial, !.ctrl = ctrl, !.timer = timer], old)
           /\ Becomes([sl EXCEPT !.status = status, !.partial = partial, !.ctrl = ctrl], old)
           /\ Becomes([sl EXCEPT !.status = status, !.partial = partial], old)
           /\ Becomes([sl EXCEPT !.status = status, !.ctrl = ctrl], old)
           /\ Becomes([sl EXCEPT !.timer = timer, !.partial = partial], old)
           /\ Becomes([sl EXCEPT !.partial = partial], old)
           /\ Becomes([sl EXCEPT !.ctrl = ctrl], old)
           /\ Becomes([sl EXCEPT !.timer = timer], old)
BY DEF Becomes, Slices

LEMMA SomeControllers == 0 \in Controllers /\ \A k \in Exchanges : k \in Controllers /\ k \in Nat
BY DEF Controllers, Exchanges

LEMMA EventBecomes == ASSUME NEW sl \in Slices, NEW content \in BOOLEAN PROVE Becomes(Event(sl, content), sl)
<1>1. PICK partial \in BOOLEAN : partial = (sl.partial \/ content)
  OBVIOUS
<1>2. Becomes([sl EXCEPT !.timer = TRUE, !.partial = partial], sl)
  BY Same, FieldsSet, SomeControllers DEF Statuses
<1>3. QED
  BY <1>1, <1>2 DEF Event

LEMMA EndsBecome ==
    ASSUME NEW sl \in Slices
    PROVE  Becomes(EndError(sl), sl) /\ Becomes(EndDone(sl), sl) /\ Becomes(EndAborted(sl), sl)
<1>1. PICK kept \in Slices : kept = KeepPartial(sl) /\ Becomes(kept, sl)
  BY KeepBecomes DEF Becomes
<1>2. PICK more \in Slices : more = Temp(sl, "assistant") /\ Becomes(more, sl)
  BY TempBecomes DEF Becomes, Roles
<1>3. "error" \in Statuses /\ "idle" \in Statuses
  BY DEF Statuses
<1>4. Becomes([kept EXCEPT !.status = "error", !.partial = FALSE, !.ctrl = 0, !.timer = FALSE], sl)
  BY <1>1, <1>3, FieldsSet, SomeControllers
<1>5. Becomes([more EXCEPT !.status = "idle", !.partial = FALSE, !.ctrl = 0, !.timer = FALSE], sl)
  BY <1>2, <1>3, FieldsSet, SomeControllers
<1>6. Becomes([more EXCEPT !.status = "idle", !.partial = FALSE, !.ctrl = 0], sl)
  BY <1>2, <1>3, FieldsSet, SomeControllers
<1>7. QED
  BY <1>1, <1>2, <1>4, <1>5, <1>6 DEF EndError, EndDone, EndAborted

LEMMA TimedOutBecomes ==
    ASSUME NEW sl \in Slices
    PROVE  Becomes(TimedOut(sl), sl) /\ Becomes([TimedOut(sl) EXCEPT !.timer = FALSE], sl)
<1>1. PICK out \in Slices : out = TimedOut(sl) /\ Becomes(out, sl)
  BY EndsBecome, Same DEF TimedOut, Becomes
<1>2. Becomes([out EXCEPT !.timer = FALSE], sl)
  BY <1>1, FieldsSet, SomeControllers DEF Statuses
<1>3. QED
  BY <1>1, <1>2

\* One slice becomes another and the rest stay.
LEMMA OnKeeps ==
    ASSUME slice \in [Tabs -> Slices], NEW a, NEW sl, On(a, sl), a \in Tabs => Becomes(sl, slice[a])
    PROVE  slice' \in [Tabs -> Slices] /\ MessagesStay
<1>1. slice' = [slice EXCEPT ![a] = sl]
  BY DEF On
<1>2. slice' \in [Tabs -> Slices]
  BY <1>1 DEF Becomes
<1>3. ASSUME NEW b \in Tabs PROVE Stays(slice'[b].msgs, slice[b].msgs)
  <2>1. CASE b = a
    BY <1>1, <2>1 DEF Becomes
  <2>2. CASE b # a
    BY <1>1, <2>2, Same DEF Becomes
  <2>3. QED
    BY <2>1, <2>2
<1>4. QED
  BY <1>2, <1>3 DEF MessagesStay

LEMMA Unchanged == ASSUME slice \in [Tabs -> Slices], slice' = slice PROVE slice' \in [Tabs -> Slices] /\ MessagesStay
BY Same DEF MessagesStay, Becomes

-----------------------------------------------------------------------------
\* The ids that are synced.
Earlier == {p \in Nat \X Nat : p[1] < p[2]}
LEMMA EarlierWF == IsWellFoundedOn(Earlier, Nat)
BY NatLessThanWellFounded, Zenon DEF OpToRel, Earlier

LEMMA FirstOf == ASSUME NEW T, T \subseteq Nat, T # {} PROVE \E m \in T : \A n \in T : m <= n
<1>1. PICK m \in T : \A n \in T : ~ (<<n, m>> \in Earlier)
  BY EarlierWF, WFMin
<1>2. \A n \in T : n \in Nat /\ m \in Nat /\ ~(n < m)
  BY <1>1 DEF Earlier
<1>3. QED
  BY <1>2

Claimed(local, i, s) == \E l \in DOMAIN local \ {i} : local[l] = s
Matches(local, server, i) ==
  {j \in DOMAIN server : server[j].role = local[i].role /\ j - i \in -1..1 /\ ~Claimed(local, i, server[j])}

LEMMA SyncStays ==
    ASSUME NEW local \in Seq(ChatMessages), NEW server \in Seq(ChatMessages)
    PROVE  SyncIds(local, server) \in Seq(ChatMessages) /\ Stays(SyncIds(local, server), local)
<1> DEFINE first(i) == CHOOSE j \in Matches(local, server, i) : \A m \in Matches(local, server, i) : j <= m
           synced == [i \in DOMAIN local |-> IF local[i].id # 0 \/ Matches(local, server, i) = {} THEN local[i]
                                             ELSE server[first(i)]]
<1>1. SyncIds(local, server) = synced
  BY DEF SyncIds, Matches, Claimed
<1>2. /\ DOMAIN local = 1..Len(local) /\ Len(local) \in Nat /\ DOMAIN server = 1..Len(server) /\ Len(server) \in Nat
      /\ \A i \in DOMAIN local : local[i] \in ChatMessages
      /\ \A i \in DOMAIN server : server[i] \in ChatMessages
  BY ElementOfSeq
<1>3. ASSUME NEW i \in DOMAIN local, local[i].id = 0, Matches(local, server, i) # {}
      PROVE  server[first(i)] \in ChatMessages /\ server[first(i)].role = local[i].role
  <2>1. Matches(local, server, i) \subseteq DOMAIN server /\ Matches(local, server, i) \subseteq Nat
    BY <1>2 DEF Matches
  <2>2. \E j \in Matches(local, server, i) : \A m \in Matches(local, server, i) : j <= m
    BY <1>3, <2>1, FirstOf
  <2>3. first(i) \in Matches(local, server, i)
    BY <2>2
  <2>4. QED
    BY <1>2, <2>1, <2>3 DEF Matches
<1>4. ASSUME NEW i \in DOMAIN local
      PROVE  /\ synced[i] \in ChatMessages /\ synced[i].role = local[i].role
             /\ local[i].id # 0 => synced[i].id = local[i].id
  BY <1>2, <1>3
<1>5. PICK s : s = synced
  OBVIOUS
<1>6. DOMAIN s = 1..Len(local) /\ \A i \in 1..Len(local) : s[i] \in ChatMessages
  BY <1>2, <1>4, <1>5
<1>7. s \in Seq(ChatMessages) /\ Len(s) = Len(local)
  <2>1. s = [i \in 1..Len(local) |-> s[i]]
    BY <1>2, <1>5
  <2>2. s \in [1..Len(local) -> ChatMessages]
    BY <1>6, <2>1
  <2>3. QED
    BY <1>2, <1>6, <2>2, SeqDef, LenProperties
<1> HIDE DEF synced
<1>8. Stays(s, local)
  <2>1. \A i \in DOMAIN local : s[i].role = local[i].role /\ (local[i].id # 0 => s[i].id = local[i].id)
    BY <1>4, <1>5
  <2>2. Len(s) >= Len(local)
    BY <1>2, <1>7
  <2>3. QED
    BY <2>1, <2>2 DEF Stays
<1>9. QED
  BY <1>1, <1>5, <1>7, <1>8

-----------------------------------------------------------------------------
\* The documents.
LEMMA NoThread == [a \in Tabs |-> <<>>] \in Threads
<1>1. PICK e \in Seq(ChatMessages) : e = <<>>
  BY EmptySeq
<1>2. [a \in Tabs |-> e] \in Threads
  BY DEF Threads
<1>3. QED
  BY <1>1, <1>2

LEMMA AddKeeps ==
    ASSUME threads \in [Sessions -> Threads], NEW s, NEW a, NEW role \in Roles, NEW k \in Exchanges
    PROVE  Add(s, a, role, k) \in [Sessions -> Threads]
<1>1. PICK m \in ChatMessages : m = [role |-> role, id |-> k]
  BY SomeControllers DEF ChatMessages
<1>2. CASE s \notin Sessions
  BY <1>2 DEF Add
<1>3. CASE s \in Sessions
  <2>1. PICK th \in Threads : th = threads[s]
    BY <1>3
  <2>2. PICK more : more = [th EXCEPT ![a] = Append(th[a], m)]
    OBVIOUS
  <2>3. more \in Threads
    <3>1. CASE a \in Tabs
      <4>1. Append(th[a], m) \in Seq(ChatMessages)
        BY <2>1, <3>1, AppendStays DEF Threads
      <4>2. QED
        BY <2>2, <4>1 DEF Threads
    <3>2. CASE a \notin Tabs
      BY <2>2, <3>2 DEF Threads
    <3>3. QED
      BY <3>1, <3>2
  <2>4. [threads EXCEPT ![s] = more] \in [Sessions -> Threads]
    BY <1>3, <2>3
  <2>5. Add(s, a, role, k) = [threads EXCEPT ![s] = more]
    BY <1>1, <1>3, <2>1, <2>2 DEF Add
  <2>6. QED
    BY <2>4, <2>5
<1>4. QED
  BY <1>2, <1>3

LEMMA AcceptedKeeps ==
    ASSUME threads \in [Sessions -> Threads], NEW k \in Exchanges, Accepted(k) \/ Answered(k)
    PROVE  threads' \in [Sessions -> Threads]
<1>1. \/ threads' = Add(xs[k].sess, xs[k].agent, "user", k)
      \/ threads' = Add(xs[k].sess, xs[k].agent, "assistant", k)
      \/ threads' = threads
  BY DEF Accepted, Answered
<1>2. "user" \in Roles /\ "assistant" \in Roles
  BY DEF Roles
<1>3. QED
  BY <1>1, <1>2, AddKeeps

LEMMA FetchedIs ==
    ASSUME threads \in [Sessions -> Threads], NEW s \in Sessions
    PROVE  Fetched(s) \in Documents
BY DEF Fetched, Documents

LEMMA DocumentFacts ==
    ASSUME NEW d \in Documents, d.id # NoSession
    PROVE  d.threads \in Threads
BY DEF Documents

LEMMA EmptySlice == DefaultSlice \in Slices
BY EmptySeq, SomeControllers DEF DefaultSlice, Slices, Statuses

-----------------------------------------------------------------------------
\* What a step of a stream, a send or a delegation does.
LEMMA StreamKeeps ==
    ASSUME ClientInv, NEW k \in Exchanges, Stream(k)
    PROVE  ClientInv' /\ MessagesStay
<1>1. slice \in [Tabs -> Slices] /\ threads \in [Sessions -> Threads]
  BY DEF ClientInv
<1>2. UNCHANGED <<doc, existing>>
  BY DEF Stream, ImportFails, ResponseStarts, FetchFails, ServerStores, StreamEvent, OnDone, OnAborted, OnError,
     EndsSilently, GoesSilent, DelegationEvent, DelegationEnds, sessionVars
<1>3. UNCHANGED threads \/ Accepted(k) \/ Answered(k)
  BY DEF Stream, ImportFails, ResponseStarts, FetchFails, ServerStores, StreamEvent, OnDone, OnAborted, OnError,
     EndsSilently, GoesSilent, DelegationEvent, DelegationEnds, Terminal
<1>4. threads' \in [Sessions -> Threads]
  BY <1>1, <1>3, AcceptedKeeps
<1> DEFINE a == xs[k].agent
<1>5. ASSUME NEW sl, On(a, sl), a \in Tabs => Becomes(sl, slice[a])
      PROVE  slice' \in [Tabs -> Slices] /\ MessagesStay
  BY <1>1, <1>5, OnKeeps
<1>6. a \in Tabs => slice[a] \in Slices
  BY <1>1
<1> HIDE DEF a
<1>7. slice' \in [Tabs -> Slices] /\ MessagesStay
  <2>1. CASE ImportFails(k)
    <3>1. On(a, [slice[a] EXCEPT !.status = "error", !.ctrl = 0])
      BY <2>1 DEF ImportFails, a
    <3>2. a \in Tabs => Becomes([slice[a] EXCEPT !.status = "error", !.ctrl = 0], slice[a])
      BY <1>6, Same, FieldsSet, SomeControllers DEF Statuses
    <3>3. QED
      BY <1>5, <3>1, <3>2
  <2>2. CASE ResponseStarts(k) \/ ServerStores(k) \/ EndsSilently(k) \/ GoesSilent(k)
    BY <1>1, <2>2, Unchanged DEF ResponseStarts, ServerStores, EndsSilently, GoesSilent, chatVars
  <2>3. CASE FetchFails(k) \/ OnError(k)
    <3>1. On(a, EndError(slice[a]))
      BY <2>3 DEF FetchFails, OnError, a
    <3>2. QED
      BY <1>5, <1>6, <3>1, EndsBecome
  <2>4. CASE StreamEvent(k)
    <3>1. PICK content \in BOOLEAN : On(a, Event(slice[a], content))
      BY <2>4 DEF StreamEvent, a
    <3>2. QED
      BY <1>5, <1>6, <3>1, EventBecomes
  <2>5. CASE OnDone(k)
    <3>1. On(a, EndDone(slice[a]))
      BY <2>5 DEF OnDone, a
    <3>2. QED
      BY <1>5, <1>6, <3>1, EndsBecome
  <2>6. CASE OnAborted(k)
    <3>1. On(a, EndAborted(slice[a]))
      BY <2>6 DEF OnAborted, a
    <3>2. QED
      BY <1>5, <1>6, <3>1, EndsBecome
  <2>7. CASE DelegationEvent(k)
    <3>1. On(a, [slice[a] EXCEPT !.partial = TRUE])
      BY <2>7 DEF DelegationEvent, a
    <3>2. a \in Tabs => Becomes([slice[a] EXCEPT !.partial = TRUE], slice[a])
      BY <1>6, Same, FieldsSet, SomeControllers DEF Statuses
    <3>3. QED
      BY <1>5, <3>1, <3>2
  <2>8. CASE DelegationEnds(k)
    <3>1. CASE UNCHANGED slice
      BY <1>1, <3>1, Unchanged
    <3>2. ASSUME NEW status \in {"idle", "error"},
                 On(a, [KeepPartial(slice[a]) EXCEPT !.status = status, !.partial = FALSE])
          PROVE  slice' \in [Tabs -> Slices] /\ MessagesStay
      <4>1. PICK sl : sl = KeepPartial(slice[a])
        OBVIOUS
      <4>2. a \in Tabs => Becomes(sl, slice[a]) /\ sl \in Slices
        BY <1>6, <4>1, KeepBecomes DEF Becomes
      <4>3. status \in Statuses
        BY DEF Statuses
      <4>4. a \in Tabs => Becomes([sl EXCEPT !.status = status, !.partial = FALSE], slice[a])
        BY <4>2, <4>3, FieldsSet, SomeControllers
      <4>5. QED
        BY <1>5, <3>2, <4>1, <4>4
    <3>3. QED
      BY <2>8, <3>1, <3>2 DEF DelegationEnds, a
  <2>9. QED
    BY <2>1, <2>2, <2>3, <2>4, <2>5, <2>6, <2>7, <2>8 DEF Stream
<1>8. QED
  BY <1>2, <1>4, <1>7 DEF ClientInv

LEMMA SendKeeps ==
    ASSUME ClientInv, NEW k \in Exchanges, NEW a \in Tabs,
           sendMessage(a, k) \/ \E j \in Exchanges : DelegationStarts(k, j, a)
    PROVE  ClientInv' /\ MessagesStay
<1>1. slice \in [Tabs -> Slices] /\ threads \in [Sessions -> Threads] /\ slice[a] \in Slices
  BY DEF ClientInv
<1>2. UNCHANGED <<doc, existing>>
  BY DEF sendMessage, DelegationStarts, sessionVars
<1>3. threads' \in [Sessions -> Threads]
  <2>1. \/ UNCHANGED threads
        \/ \E j \in Exchanges : threads' = Add(xs[j].sess, a, "user", k)
    BY DEF sendMessage, DelegationStarts
  <2>2. "user" \in Roles
    BY DEF Roles
  <2>3. QED
    BY <1>1, <2>1, <2>2, AddKeeps
<1>4. ASSUME NEW sl, On(a, sl), Becomes(sl, slice[a])
      PROVE  slice' \in [Tabs -> Slices] /\ MessagesStay
  BY <1>1, <1>4, OnKeeps
<1>5. "streaming" \in Statuses /\ "user" \in Roles
  BY DEF Statuses, Roles
<1>6. slice' \in [Tabs -> Slices] /\ MessagesStay
  <2>1. CASE sendMessage(a, k)
    <3>1. PICK sl : sl = Temp(slice[a], "user")
      OBVIOUS
    <3>2. Becomes(sl, slice[a]) /\ sl \in Slices
      BY <1>1, <1>5, <3>1, TempBecomes DEF Becomes
    <3>3. PICK t : t = [sl EXCEPT !.status = "streaming", !.partial = FALSE, !.ctrl = k, !.timer = TRUE]
      OBVIOUS
    <3>4. Becomes(t, slice[a])
      BY <1>5, <3>2, <3>3, FieldsSet, SomeControllers
    <3>5. On(a, t)
      BY <2>1, <3>1, <3>3 DEF sendMessage
    <3>6. QED
      BY <1>4, <3>4, <3>5
  <2>2. ASSUME NEW j \in Exchanges, DelegationStarts(k, j, a)
        PROVE  slice' \in [Tabs -> Slices] /\ MessagesStay
    <3>1. Becomes([slice[a] EXCEPT !.status = "streaming", !.partial = FALSE], slice[a])
      BY <1>1, <1>5, Same, FieldsSet, SomeControllers
    <3>2. UNCHANGED slice \/ On(a, [slice[a] EXCEPT !.status = "streaming", !.partial = FALSE])
      BY <2>2 DEF DelegationStarts
    <3>3. QED
      BY <1>1, <1>4, <3>1, <3>2, Unchanged
  <2>3. QED
    BY <2>1, <2>2
<1>7. QED
  BY <1>2, <1>3, <1>6 DEF ClientInv

LEMMA RefreshKeeps ==
    ASSUME ClientInv, NEW q, RefreshAnswered(q)
    PROVE  ClientInv' /\ MessagesStay
<1>1. /\ slice \in [Tabs -> Slices] /\ threads \in [Sessions -> Threads] /\ doc \in Documents
      /\ existing \subseteq Sessions
  BY DEF ClientInv
<1>2. UNCHANGED <<threads, existing>> /\ refreshActiveSession(q.sess)
  BY DEF RefreshAnswered
<1>3. doc' \in Documents
  <2>1. doc' = doc \/ (q.sess \in Sessions /\ doc' = Fetched(q.sess))
    BY <1>1, <1>2 DEF refreshActiveSession
  <2>2. QED
    BY <1>1, <2>1, FetchedIs
<1>4. slice' \in [Tabs -> Slices] /\ MessagesStay
  <2>1. CASE slice' = slice
    BY <1>1, <2>1, Unchanged
  <2>2. CASE slice' # slice
    <3>1. PICK d \in Documents : d = doc'
      BY <1>3
    <3>2. d.id # NoSession /\ slice' = [slice EXCEPT ![q.agent].msgs = SyncIds(@, d.threads[q.agent])]
      BY <2>2, <3>1 DEF RefreshAnswered
    <3>3. PICK a, th : a = q.agent /\ th = d.threads[a]
      OBVIOUS
    <3>4. a \in Tabs => slice[a] \in Slices /\ slice[a].msgs \in Seq(ChatMessages) /\ th \in Seq(ChatMessages)
      BY <1>1, <3>2, <3>3, DocumentFacts, Same DEF Threads
    <3>5. PICK msgs : msgs = SyncIds(slice[a].msgs, th)
      OBVIOUS
    <3>6. PICK sl : sl = [slice[a] EXCEPT !.msgs = msgs]
      OBVIOUS
    <3>7. slice' = [slice EXCEPT ![a] = sl]
      BY <3>2, <3>3, <3>5, <3>6
    <3>8. a \in Tabs => msgs \in Seq(ChatMessages) /\ Stays(msgs, slice[a].msgs)
      BY <3>4, <3>5, SyncStays
    <3>9. a \in Tabs => Becomes(sl, slice[a])
      BY <3>4, <3>6, <3>8, MsgsSet DEF Becomes
    <3>10. On(a, sl)
      BY <3>7 DEF On
    <3>11. QED
      BY <1>1, <3>9, <3>10, OnKeeps
  <2>3. QED
    BY <2>1, <2>2
<1>5. QED
  BY <1>1, <1>2, <1>3, <1>4 DEF ClientInv

LEMMA CreateKeeps ==
    ASSUME ClientInv, (\E q \in requests : CreateAnswered(q)) \/ (\E s \in Sessions : handleDelete(s))
    PROVE  ClientInv' /\ MessagesStay
<1>1. /\ slice \in [Tabs -> Slices] /\ threads \in [Sessions -> Threads] /\ doc \in Documents
      /\ existing \subseteq Sessions
  BY DEF ClientInv
<1>2. UNCHANGED <<slice, threads>>
  BY DEF CreateAnswered, handleDelete, chatVars
<1>3. \/ UNCHANGED <<doc, existing>>
      \/ \E s \in Sessions : existing' = existing \cup {s} /\ doc' = Fetched(s)
  BY DEF CreateAnswered, handleDelete
<1>4. doc' \in Documents /\ existing' \subseteq Sessions
  BY <1>1, <1>3, FetchedIs
<1>5. QED
  BY <1>1, <1>2, <1>4, Unchanged DEF ClientInv

\* A switch may replace every list; it keeps the types.
LEMMA SwitchesKeep == ASSUME ClientInv, Switches PROVE ClientInv'
<1>1. /\ slice \in [Tabs -> Slices] /\ threads \in [Sessions -> Threads] /\ doc \in Documents
      /\ existing \subseteq Sessions
  BY DEF ClientInv
<1>2. ASSUME clearAll PROVE slice' \in [Tabs -> Slices]
  BY <1>2, EmptySlice DEF clearAll
<1>3. CASE handleCreate \/ \E s \in Sessions : handleSelect(s)
  BY <1>1, <1>2, <1>3 DEF handleCreate, handleSelect, ClientInv
<1>4. ASSUME NEW q \in requests, SelectAnswered(q) PROVE ClientInv'
  <2>1. UNCHANGED <<threads, existing>>
    BY <1>4 DEF SelectAnswered
  <2>2. doc' \in Documents
    BY <1>1, <1>4, FetchedIs DEF SelectAnswered
  <2>3. slice' \in [Tabs -> Slices]
    <3>1. PICK d \in Documents : d = doc'
      BY <2>2
    <3>2. ASSUME NEW a \in Tabs PROVE IF d.id = NoSession \/ d.threads[a] = <<>> THEN slice[a] \in Slices
                                      ELSE [slice[a] EXCEPT !.msgs = d.threads[a]] \in Slices
      <4>1. d.id # NoSession => d.threads[a] \in Seq(ChatMessages)
        BY DocumentFacts DEF Threads
      <4>2. slice[a] \in Slices
        BY <1>1
      <4>3. QED
        BY <4>1, <4>2, MsgsSet
    <3>3. slice' = Loaded(slice, d)
      BY <1>4, <3>1 DEF SelectAnswered
    <3>4. QED
      BY <3>2, <3>3 DEF Loaded
  <2>4. QED
    BY <1>1, <2>1, <2>2, <2>3 DEF ClientInv
<1>5. ASSUME NEW q \in requests, DeleteAnswered(q) PROVE ClientInv'
  <2>1. UNCHANGED threads /\ (clearAll \/ UNCHANGED slice)
    BY <1>5 DEF DeleteAnswered, chatVars
  <2>2. existing' \subseteq Sessions /\ doc' \in Documents
    <3>1. [id |-> NoSession] \in Documents
      BY DEF Documents
    <3>2. QED
      BY <1>1, <1>5, <3>1 DEF DeleteAnswered, deleteSession
  <2>3. QED
    BY <1>1, <1>2, <2>1, <2>2 DEF ClientInv
<1>6. QED
  BY <1>3, <1>4, <1>5 DEF Switches

LEMMA ClientNextKeeps == ASSUME ClientInv, [ClientNext]_clientVars PROVE ClientInv' /\ (~Switches => MessagesStay)
<1>1. CASE UNCHANGED clientVars
  <2>1. UNCHANGED <<slice, doc, threads, existing>>
    BY <1>1 DEF clientVars
  <2>2. slice \in [Tabs -> Slices]
    BY DEF ClientInv
  <2>3. QED
    BY <2>1, <2>2, Unchanged DEF ClientInv
<1>2. ASSUME NEW k \in Exchanges, Stream(k) PROVE ClientInv' /\ MessagesStay
  BY <1>2, StreamKeeps
<1>3. ASSUME NEW k \in Exchanges, NEW a \in Tabs, sendMessage(a, k) \/ \E j \in Exchanges : DelegationStarts(k, j, a)
      PROVE  ClientInv' /\ MessagesStay
  BY <1>3, SendKeeps
<1>4. ASSUME NEW a \in Tabs, fireStreamTimeout(a) \/ abort(a) PROVE ClientInv' /\ MessagesStay
  <2>1. slice \in [Tabs -> Slices] /\ slice[a] \in Slices
    BY DEF ClientInv
  <2>2. UNCHANGED <<doc, threads, existing>>
    BY <1>4 DEF fireStreamTimeout, abort, sessionVars
  <2>3. \/ On(a, [TimedOut(slice[a]) EXCEPT !.timer = FALSE]) \/ On(a, TimedOut(slice[a]))
        \/ On(a, [slice[a] EXCEPT !.ctrl = 0])
    BY <1>4 DEF fireStreamTimeout, FireHeld, FireOrphan, abort
  <2>4. Becomes([slice[a] EXCEPT !.ctrl = 0], slice[a])
    BY <2>1, Same, FieldsSet, SomeControllers DEF Statuses
  <2>5. slice' \in [Tabs -> Slices] /\ MessagesStay
    BY <2>1, <2>3, <2>4, OnKeeps, TimedOutBecomes
  <2>6. QED
    BY <2>2, <2>5 DEF ClientInv
<1>5. CASE Switches
  BY <1>5, SwitchesKeep
<1>6. CASE (\E q \in requests : CreateAnswered(q)) \/ (\E s \in Sessions : handleDelete(s))
  BY <1>6, CreateKeeps
<1>7. ASSUME NEW q \in requests, RefreshAnswered(q) PROVE ClientInv' /\ MessagesStay
  BY <1>7, RefreshKeeps
<1>8. QED
  BY <1>1, <1>2, <1>3, <1>4, <1>5, <1>6, <1>7 DEF ClientNext

LEMMA ClientInitInv == ASSUME ClientInit PROVE ClientInv
<1>1. slice \in [Tabs -> Slices]
  BY EmptySlice DEF ClientInit
<1>2. threads \in [Sessions -> Threads]
  BY NoThread DEF ClientInit
<1>3. existing \subseteq Sessions /\ active \in Sessions
  BY DEF ClientInit
<1>4. doc \in Documents
  BY <1>3, NoThread DEF ClientInit, Documents
<1>5. QED
  BY <1>1, <1>2, <1>3, <1>4 DEF ClientInv

\* No callback of a stream, timer or request that chatStore or sessionStore runs late takes
\* away a message the user has been shown, moves it, or takes the id the server gave it.
THEOREM MessagesNeverVanish == ClientSpec => NoMessageVanishes
<1>1. ClientInit => ClientInv
  BY ClientInitInv
<1>2. ClientInv /\ [ClientNext]_clientVars => ClientInv'
  BY ClientNextKeeps
<1>3. ASSUME ClientInv, [ClientNext]_clientVars
      PROVE  [~Switches => \A a \in Tabs :
                /\ Len(slice'[a].msgs) >= Len(slice[a].msgs)
                /\ \A i \in DOMAIN slice[a].msgs :
                     /\ slice'[a].msgs[i].role = slice[a].msgs[i].role
                     /\ slice[a].msgs[i].id # 0 => slice'[a].msgs[i].id = slice[a].msgs[i].id]_clientVars
  BY <1>3, ClientNextKeeps DEF MessagesStay, Stays
<1>4. QED
  BY <1>1, <1>2, <1>3, PTL DEF ClientSpec, NoMessageVanishes
=============================================================================
