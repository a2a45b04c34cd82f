---------------------------- MODULE TurnLifecycle ----------------------------
(***************************************************************************)
(* What the chat service promises about the assistant message of a turn,   *)
(* whatever the interleaving of streams, aborts, timeouts, disconnects,    *)
(* deletions and restarts: the answer of a turn is written as final at     *)
(* most once, a final answer is never rewritten or reopened, and only the  *)
(* deletion of the session removes it.  ChatTurn implements this module.   *)
(***************************************************************************)
CONSTANT Turns

VARIABLES msg,     \* msg[t]: status of t's assistant message in the store
          closed   \* the turns that will not write to the store any more

vars == <<msg, closed>>

FinalStatus == {"complete", "error", "aborted"}
MessageStatus == {"none", "streaming"} \cup FinalStatus

Init == /\ msg = [t \in Turns |-> "none"]
        /\ closed = {}

\* The placeholder is written before the first token.
Place(t) == /\ t \notin closed
            /\ msg[t] = "none"
            /\ msg' = [msg EXCEPT ![t] = "streaming"]
            /\ UNCHANGED closed

\* The one final write; the placeholder itself may have been lost or deleted.
Finish(t) == /\ t \notin closed
             /\ msg[t] \in {"none", "streaming"}
             /\ \E f \in FinalStatus : msg' = [msg EXCEPT ![t] = f]
             /\ closed' = closed \cup {t}

\* The turns of T end without a final write: refused, failed or killed.
GiveUp(T) == /\ closed' = closed \cup T
             /\ UNCHANGED msg

\* The session is deleted with all its messages.
Remove == /\ msg' = [t \in Turns |-> "none"]
          /\ UNCHANGED closed

Next == \/ \E t \in Turns : Place(t) \/ Finish(t)
        \/ \E T \in SUBSET Turns : GiveUp(T)
        \/ Remove

Spec == Init /\ [][Next]_vars
==============================================================================
