--------------------------- MODULE ModelFallback ---------------------------
(***************************************************************************)
(* What an agent run with a queue of models promises, however often it     *)
(* retries a model: the models are tried in order, the run is done only    *)
(* when a model has answered to the end, and it is in error only when the  *)
(* last model has been given up.                                           *)
(***************************************************************************)
EXTENDS Integers

CONSTANT Models   \* length of the queue

VARIABLES model,   \* the model being tried; 0 before the first
          run,     \* "ended" when the model's stream has ended normally
          outcome  \* "running", or how the run has ended

vars == <<model, run, outcome>>

Init == model = 0 /\ run = "none" /\ outcome = "running"

\* There is nothing to run the agent on.
Refuse == model = 0 /\ outcome' = "error" /\ UNCHANGED <<model, run>>

TryNext ==
    /\ run = "none"
    /\ model < Models
    /\ model' = model + 1
    /\ UNCHANGED <<run, outcome>>

Answer == model > 0 /\ run' = "ended" /\ UNCHANGED <<model, outcome>>

Finish == run = "ended" /\ outcome' = "done" /\ UNCHANGED <<model, run>>

GiveUp == run = "none" /\ model = Models /\ outcome' = "error" /\ UNCHANGED <<model, run>>

Stop == outcome' = "stopped" /\ UNCHANGED <<model, run>>

Next == outcome = "running" /\ (Refuse \/ TryNext \/ Answer \/ Finish \/ GiveUp \/ Stop)

Spec == Init /\ [][Next]_vars
=============================================================================
