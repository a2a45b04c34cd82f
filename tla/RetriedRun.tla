----------------------------- MODULE RetriedRun -----------------------------
(***************************************************************************)
(* What the retry policy promises of a run over a queue of models          *)
(* (foundation/retry.py): a model is tried again after every failure that  *)
(* is not fatal while it has a try left, it is given up only behind a      *)
(* fatal failure or its last try, and the run is in error exactly when the *)
(* last model has been given up, or when there is nothing to ask.  It is   *)
(* done only when a model has answered to the end.                         *)
(***************************************************************************)
EXTENDS Integers

CONSTANTS Models,  \* length of the queue
          Tries    \* how often a model is tried at most

VARIABLES model,   \* the model being tried; 0 before the first
          tries,   \* how often it has been tried, the present try included
          failure, \* how the present try has failed: "none", "retryable" or "fatal"
          run,     \* "ended" when the model's stream has ended normally
          outcome  \* "running", or how the run has ended

vars == <<model, tries, failure, run, outcome>>

Init == model = 0 /\ tries = 0 /\ failure = "none" /\ run = "none" /\ outcome = "running"

\* There is nothing to ask a model.
Refuse == model = 0 /\ outcome' = "error" /\ UNCHANGED <<model, tries, failure, run>>

\* A model that fails like this is not tried again.
GivenUp(kind) == kind = "fatal" \/ (kind = "retryable" /\ tries = Tries)

TryNext ==
    /\ model < Models
    /\ model = 0 \/ GivenUp(failure)
    /\ model' = model + 1 /\ tries' = 1 /\ failure' = "none"
    /\ UNCHANGED <<run, outcome>>

TryAgain ==
    /\ failure = "retryable" /\ tries < Tries
    /\ tries' = tries + 1 /\ failure' = "none"
    /\ UNCHANGED <<model, run, outcome>>

Fail(kind) ==
    /\ model > 0 /\ failure = "none" /\ run = "none"
    /\ failure' = kind
    /\ outcome' = IF model = Models /\ GivenUp(kind) THEN "error" ELSE outcome
    /\ UNCHANGED <<model, tries, run>>

Answer ==
    /\ model > 0 /\ failure = "none"
    /\ run' = "ended"
    /\ UNCHANGED <<model, tries, failure, outcome>>

Finish == run = "ended" /\ outcome' = "done" /\ UNCHANGED <<model, tries, failure, run>>

Stop == outcome' = "stopped" /\ UNCHANGED <<model, tries, failure, run>>

Next ==
    /\ outcome = "running"
    /\ \/ Refuse \/ TryNext \/ TryAgain \/ Answer \/ Finish \/ Stop
       \/ \E kind \in {"retryable", "fatal"} : Fail(kind)

Spec == Init /\ [][Next]_vars
=============================================================================
