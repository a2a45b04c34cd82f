--------------------------- MODULE RunLoopProofs ---------------------------
(***************************************************************************)
(* Proofs about RunLoop for every queue of models, every number of retries *)
(* and revivals: its type, that tool calls are closed between runs, and    *)
(* that the loop implements ModelFallback.                                 *)
(***************************************************************************)
EXTENDS RunLoop, TLAPS

\* The loop is over exactly when it has a terminal frame; a run that has ended is
\* followed by nothing else; a sleep has an attempt left, so no range of attempts is
\* exhausted; the queue is entered before a run is built, and calls are open only
\* during a run.
LoopInv ==
    /\ TypeOK
    /\ pc = "over" <=> outcome # "running"
    /\ why \in {"ended", "blocked"} => pc \in {"flush", "over"}
    /\ outcome = "done" <=> pc = "over" /\ why = "ended"
    /\ pc = "sleep" => attempt < MaxRetries - 1
    /\ attempt < Larger(1, MaxRetries)
    /\ pc = "start" <=> model = 0
    /\ toolCall = "open" => pc \in {"stream", "flush"} \/ outcome = "aborted"

LEMMA BudgetIsNat == RunBudget \in Nat
<1>1. Larger(1, MaxRetries) \in Nat  BY RunLoopAssumption DEF Larger
<1>2. Models * Larger(1, MaxRetries) \in Nat  BY <1>1, RunLoopAssumption
<1> QED  BY <1>2, RunLoopAssumption DEF RunBudget

LEMMA SomeAttempt ==
    /\ Larger(1, MaxRetries) \in Nat
    /\ Larger(1, MaxRetries) >= 1
    /\ Larger(1, MaxRetries) >= MaxRetries
BY RunLoopAssumption DEF Larger

LEMMA InitHolds == Init => LoopInv
BY SomeAttempt, RunLoopAssumption DEF Init, LoopInv, TypeOK

\* What the outer except clause leaves behind.
LEMMA HandleKeeps ==
    ASSUME LoopInv, NEW kind, Handle(kind),
           pc \in {"build", "flush"}, why' \notin {"ended", "blocked"},
           why' \in {"stall", "retryable", "fatal"},
           toolCall' = "closed", UNCHANGED <<revival, updates, abort, runs>>
    PROVE  LoopInv'
BY SomeAttempt, RunLoopAssumption DEF LoopInv, TypeOK, Handle, ShouldRetry, TryModel, Terminate

LEMMA StepKeeps ==
    ASSUME LoopInv, [Next]_vars
    PROVE  LoopInv'
<1> USE BudgetIsNat, SomeAttempt, RunLoopAssumption
<1> USE DEF LoopInv
<1>1. ASSUME Start PROVE LoopInv'
  BY <1>1 DEF Start, TryModel, TypeOK
<1>2. ASSUME Build PROVE LoopInv'
  BY <1>2 DEF Build, Open, TypeOK, Lesser
<1>3. ASSUME NEW reason \in {"ended", "blocked", "abort", "stall", "retryable", "fatal"},
             RunEnds(reason)
      PROVE  LoopInv'
  BY <1>3 DEF RunEnds, TypeOK
<1>4. ASSUME AbortAtUpdate PROVE LoopInv'
  BY <1>4 DEF AbortAtUpdate, Terminate, TypeOK
<1>5. ASSUME Flush PROVE LoopInv'
  <2>1. CASE why \in {"ended", "blocked", "abort"}
    BY <1>5, <2>1 DEF Flush, CloseCalls, Terminate, TypeOK
  <2>2. CASE why = "stall" /\ MayRevive
    BY <1>5, <2>2 DEF Flush, CloseCalls, MayRevive, NextRevival, Open, Lesser, TypeOK
  <2>3. CASE why \in {"stall", "retryable", "fatal"} /\ (why = "stall" => ~MayRevive)
    BY <1>5, <2>3, HandleKeeps DEF Flush, CloseCalls
  <2> QED  BY <1>5, <2>1, <2>2, <2>3 DEF Flush
<1>6. ASSUME Wake PROVE LoopInv'
  BY <1>6 DEF Wake, TryModel, TypeOK
<1>7. ASSUME Update PROVE LoopInv'
  BY <1>7 DEF Update, TypeOK
<1>8. ASSUME NEW kind \in {"retryable", "fatal"}, BuildFails(kind) PROVE LoopInv'
  BY <1>8, HandleKeeps DEF BuildFails, TypeOK
<1>9. ASSUME SetAbort PROVE LoopInv'
  BY <1>9 DEF SetAbort, TypeOK
<1>10. ASSUME UNCHANGED vars PROVE LoopInv'
  BY <1>10 DEF vars, TypeOK
<1> QED
  BY <1>1, <1>2, <1>3, <1>4, <1>5, <1>6, <1>7, <1>8, <1>9, <1>10
  DEF Next, LoopStep, AgentStep, Stall, Aborted, Blocked

LEMMA Invariance == Spec => []LoopInv
BY InitHolds, StepKeeps, PTL DEF Spec

\* The type invariant of the loop.
THEOREM TypeCorrect == Spec => []TypeOK
<1>1. LoopInv => TypeOK  BY DEF LoopInv
<1> QED  BY <1>1, Invariance, PTL

\* However a run ends, and however often it is revived or retried, the client has no
\* open tool call when the next run is built or a terminal frame other than ABORTED
\* is sent.
THEOREM CallsAreClosed == Spec => []CallsClosed
<1>1. LoopInv => CallsClosed  BY DEF LoopInv, TypeOK, CallsClosed
<1> QED  BY <1>1, Invariance, PTL

-----------------------------------------------------------------------------
(* The budget.                                                              *)

\* The runs that the attempts before the a-th of model m may have used.
Spent(m, a) == ((m - 1) * Larger(1, MaxRetries) + a) * (1 + MaxRevivals)

\* An attempt that has been built has used a run and one for each revival.
BudgetInv ==
    /\ pc = "start" => runs = 0
    /\ pc = "build" => runs <= Spent(model, attempt)
    /\ pc # "start" => runs <= Spent(model, attempt) + revival + 1

LEMMA SpentIsInt ==
    ASSUME NEW m \in Int, NEW a \in Int
    PROVE  Spent(m, a) \in Int
BY SomeAttempt, RunLoopAssumption DEF Spent

LEMMA NextAttemptSpends ==
    ASSUME NEW m \in Int, NEW a \in Int
    PROVE  Spent(m, a + 1) = Spent(m, a) + 1 + MaxRevivals
<1> DEFINE R == 1 + MaxRevivals
<1>1. R \in Nat  BY RunLoopAssumption
<1>2. PICK n \in Int : n = (m - 1) * Larger(1, MaxRetries) + a  BY SomeAttempt
<1> HIDE DEF R
<1>3. (n + 1) * R = n * R + R  BY <1>1, <1>2
<1>4. (m - 1) * Larger(1, MaxRetries) + (a + 1) = n + 1  BY <1>2, SomeAttempt
<1>5. n * R \in Int  BY <1>1, <1>2
<1> QED  BY <1>2, <1>3, <1>4, <1>5, RunLoopAssumption DEF Spent, R

LEMMA SpentGrows ==
    ASSUME NEW m \in Int, NEW a \in Int, NEW b \in Int, a <= b
    PROVE  Spent(m, a) <= Spent(m, b)
<1> DEFINE R == 1 + MaxRevivals
<1>1. R \in Nat  BY RunLoopAssumption
<1>2. PICK n \in Int : n = (m - 1) * Larger(1, MaxRetries)  BY SomeAttempt
<1> HIDE DEF R
<1>3. \A x \in Int, d \in Nat : (x + d) * R = x * R + d * R  BY <1>1
<1>4. \A d \in Nat : d * R \in Nat  BY <1>1
<1>5. PICK d \in Nat : n + b = (n + a) + d
  <2>1. b - a \in Nat  OBVIOUS
  <2>2. n + b = (n + a) + (b - a)  BY <1>2
  <2> QED  BY <2>1, <2>2
<1>6. (n + b) * R = (n + a) * R + d * R  BY <1>2, <1>3, <1>5
<1>7. (n + a) * R \in Int  BY <1>1, <1>2
<1> QED  BY <1>2, <1>4, <1>6, <1>7 DEF Spent, R

LEMMA NextModelSpends ==
    ASSUME NEW m \in Int
    PROVE  Spent(m + 1, 0) = Spent(m, Larger(1, MaxRetries))
<1>1. ((m + 1) - 1) * Larger(1, MaxRetries) = (m - 1) * Larger(1, MaxRetries) + Larger(1, MaxRetries)
  BY SomeAttempt
<1> QED  BY <1>1, SomeAttempt DEF Spent

LEMMA Typed ==
    ASSUME LoopInv
    PROVE  /\ model \in Nat /\ attempt \in Nat /\ revival \in Nat /\ runs \in Nat
           /\ revival <= MaxRevivals
           /\ Spent(model, attempt) \in Int
           /\ Spent(model, attempt + 1) \in Int
           /\ Spent(model + 1, 0) \in Int
<1>1. /\ model \in Nat /\ attempt \in Nat /\ revival \in Nat /\ runs \in Nat
      /\ revival <= MaxRevivals
  BY RunLoopAssumption DEF LoopInv, TypeOK
<1>2. model \in Int /\ model + 1 \in Int /\ attempt \in Int /\ attempt + 1 \in Int /\ 0 \in Int
  BY <1>1
<1> QED  BY <1>1, <1>2, SpentIsInt

LEMMA BudgetInit == Init => BudgetInv
BY DEF Init, BudgetInv

\* What an attempt and the revivals of its run have used fits in front of the next
\* attempt, and so does the last attempt of a model in front of the next model.
LEMMA AttemptFits ==
    ASSUME LoopInv, BudgetInv, pc # "start"
    PROVE  /\ runs <= Spent(model, attempt + 1)
           /\ runs <= Spent(model + 1, 0)
<1>1. runs <= Spent(model, attempt + 1)
  BY Typed, NextAttemptSpends, RunLoopAssumption DEF BudgetInv
<1>2. Spent(model, attempt + 1) <= Spent(model, Larger(1, MaxRetries))
  BY SpentGrows, SomeAttempt DEF LoopInv, TypeOK
<1>3. /\ Spent(model, attempt + 1) \in Int
      /\ Spent(model, Larger(1, MaxRetries)) \in Int
  BY SpentIsInt, SomeAttempt DEF LoopInv, TypeOK
<1> QED  BY <1>1, <1>2, <1>3, NextModelSpends DEF LoopInv, TypeOK

LEMMA HandleSpends ==
    ASSUME LoopInv, BudgetInv, NEW kind, Handle(kind), pc \in {"build", "flush"},
           UNCHANGED <<revival, runs>>
    PROVE  BudgetInv'
<1> /\ Spent(model, attempt) \in Int /\ Spent(model + 1, 0) \in Int
    /\ revival \in Nat /\ runs \in Nat
  BY Typed
<1>1. runs <= Spent(model, attempt) + revival + 1  BY DEF BudgetInv
<1>2. runs <= Spent(model + 1, 0)  BY AttemptFits
<1>3. CASE pc' \in {"sleep", "over"} /\ UNCHANGED <<model, attempt>>
  BY <1>1, <1>3 DEF BudgetInv
<1>4. CASE pc' = "build" /\ model' = model + 1 /\ attempt' = 0
  BY <1>2, <1>4 DEF BudgetInv
<1> QED  BY <1>3, <1>4 DEF Handle, TryModel, Terminate

LEMMA BudgetStep ==
    ASSUME LoopInv, BudgetInv, [Next]_vars
    PROVE  BudgetInv'
<1> /\ Spent(model, attempt) \in Int /\ revival \in Nat /\ runs \in Nat
  BY Typed
<1>0. pc # "start" => runs <= Spent(model, attempt) + revival + 1  BY DEF BudgetInv
<1>1. ASSUME Start PROVE BudgetInv'
  <2>1. Spent(1, 0) = 0  BY SomeAttempt, RunLoopAssumption DEF Spent
  <2> QED  BY <1>1, <2>1 DEF Start, TryModel, BudgetInv
<1>2. ASSUME Build PROVE BudgetInv'
  <2>1. runs' <= runs + 1  BY <1>2, BudgetIsNat DEF Build, Open, Lesser
  <2>2. runs' \in Nat  BY <1>2, BudgetIsNat DEF Build, Open, Lesser
  <2> QED  BY <1>2, <2>1, <2>2 DEF Build, Open, BudgetInv
<1>3. ASSUME Flush PROVE BudgetInv'
  <2>1. CASE why \in {"ended", "blocked", "abort"}
    BY <1>0, <1>3, <2>1 DEF Flush, Terminate, BudgetInv
  <2>2. CASE why = "stall" /\ MayRevive
    <3>1. runs' <= runs + 1 /\ runs' \in Nat
      BY <1>3, <2>2, BudgetIsNat DEF Flush, Open, Lesser
    <3> QED  BY <1>0, <1>3, <2>2, <3>1 DEF Flush, Open, NextRevival, BudgetInv
  <2>3. CASE why \in {"stall", "retryable", "fatal"} /\ (why = "stall" => ~MayRevive)
    BY <1>3, <2>3, HandleSpends DEF Flush
  <2> QED  BY <1>3, <2>1, <2>2, <2>3 DEF Flush
<1>4. ASSUME Wake PROVE BudgetInv'
  <2>1. pc' = "build" /\ model' = model /\ attempt' = attempt + 1 /\ UNCHANGED <<runs, revival>>
    BY <1>4, RunLoopAssumption DEF Wake, LoopInv, TypeOK
  <2>2. runs <= Spent(model, attempt + 1)  BY <1>4, AttemptFits DEF Wake
  <2>3. Spent(model, attempt + 1) \in Int  BY SpentIsInt DEF LoopInv, TypeOK
  <2> QED  BY <2>1, <2>2, <2>3 DEF BudgetInv
<1>5. ASSUME NEW kind \in {"retryable", "fatal"}, BuildFails(kind) PROVE BudgetInv'
  BY <1>5, HandleSpends DEF BuildFails
<1>6. ASSUME pc' # "build", pc # "start", UNCHANGED <<model, attempt, revival, runs>>
      PROVE  BudgetInv' \/ pc' = "start"
  BY <1>0, <1>6 DEF BudgetInv
<1>7. ASSUME NEW reason \in {"ended", "blocked", "abort", "stall", "retryable", "fatal"},
             RunEnds(reason)
      PROVE  BudgetInv'
  BY <1>6, <1>7 DEF RunEnds
<1>8. ASSUME AbortAtUpdate PROVE BudgetInv'
  BY <1>6, <1>8 DEF AbortAtUpdate, Terminate
<1>9. ASSUME Update PROVE BudgetInv'
  BY <1>6, <1>9 DEF Update
<1>10. ASSUME SetAbort \/ UNCHANGED vars PROVE BudgetInv'
  BY <1>10 DEF SetAbort, vars, BudgetInv
<1> QED
  BY <1>1, <1>2, <1>3, <1>4, <1>5, <1>7, <1>8, <1>9, <1>10
  DEF Next, LoopStep, AgentStep, Stall, Aborted, Blocked

\* However errors, stalls and revivals alternate, a call costs at most one run for
\* each revival of each attempt at each model.
THEOREM RunsAreBudgeted == Spec => []RunsWithinBudget
<1>1. LoopInv /\ BudgetInv => RunsWithinBudget
  <2> SUFFICES ASSUME LoopInv, BudgetInv PROVE runs <= RunBudget
    BY DEF RunsWithinBudget
  <2>1. CASE pc = "start"
    BY <2>1, BudgetIsNat DEF BudgetInv
  <2>2. CASE pc # "start"
    <3> DEFINE A == Larger(1, MaxRetries)
    <3>1. runs <= Spent(model + 1, 0)  BY <2>2, AttemptFits
    <3>2. Spent(model + 1, 0) <= Spent(Models + 1, 0)
      <4>1. Spent(model + 1, 0) = model * A * (1 + MaxRevivals)
        BY SomeAttempt, RunLoopAssumption DEF Spent, LoopInv, TypeOK
      <4>2. Spent(Models + 1, 0) = Models * A * (1 + MaxRevivals)
        BY SomeAttempt, RunLoopAssumption DEF Spent
      <4>3. \A x, y, z \in Nat : x <= y => x * z <= y * z  OBVIOUS
      <4>4. model * A \in Nat /\ Models * A \in Nat /\ model * A <= Models * A
        BY <4>3, SomeAttempt, RunLoopAssumption DEF LoopInv, TypeOK
      <4> HIDE DEF A
      <4>5. model * A * (1 + MaxRevivals) <= Models * A * (1 + MaxRevivals)
        BY <4>3, <4>4, RunLoopAssumption
      <4> QED  BY <4>1, <4>2, <4>5
    <3>3. Spent(Models + 1, 0) = RunBudget
      BY SomeAttempt, RunLoopAssumption DEF Spent, RunBudget
    <3>4. Spent(model + 1, 0) \in Int
      BY SpentIsInt DEF LoopInv, TypeOK
    <3> QED  BY <3>1, <3>2, <3>3, <3>4, BudgetIsNat DEF LoopInv, TypeOK
  <2> QED  BY <2>1, <2>2
<1> QED  BY <1>1, BudgetInit, BudgetStep, Invariance, InitHolds, PTL DEF Spec

-----------------------------------------------------------------------------
(* Refinement.                                                              *)

LEMMA InitImplements == Init => Fallback!Init
BY DEF Init, Fallback!Init

\* The outer except clause retries the model, tries the next, or gives up the last.
LEMMA HandleImplements ==
    ASSUME LoopInv, NEW kind, Handle(kind), pc \in {"build", "flush"},
           why # "ended", why' # "ended"
    PROVE  [Fallback!Next]_Fallback!vars
<1>1. CASE ShouldRetry(kind)
  BY <1>1 DEF Handle, Fallback!vars
<1>2. CASE ~ShouldRetry(kind) /\ model < Models
  <2>1. Fallback!TryNext
    BY <1>2, RunLoopAssumption DEF LoopInv, TypeOK, Handle, TryModel, Fallback!TryNext
  <2> QED  BY <2>1 DEF LoopInv, Fallback!Next
<1>3. CASE ~ShouldRetry(kind) /\ model = Models
  <2>1. Fallback!GiveUp
    BY <1>3, RunLoopAssumption DEF LoopInv, TypeOK, Handle, Terminate, Fallback!GiveUp
  <2> QED  BY <2>1 DEF LoopInv, Fallback!Next
<1> QED  BY <1>1, <1>2, <1>3 DEF Handle

LEMMA StepImplements ==
    ASSUME LoopInv, LoopInv', [Next]_vars
    PROVE  [Fallback!Next]_Fallback!vars
<1> USE RunLoopAssumption
<1>1. ASSUME Start PROVE [Fallback!Next]_Fallback!vars
  <2>1. Fallback!TryNext
    BY <1>1 DEF Start, TryModel, LoopInv, Fallback!TryNext
  <2> QED  BY <1>1, <2>1 DEF Start, LoopInv, Fallback!Next
<1>2. ASSUME Build PROVE [Fallback!Next]_Fallback!vars
  BY <1>2 DEF Build, Open, LoopInv, Fallback!vars
<1>3. ASSUME NEW reason \in {"ended", "blocked", "abort", "stall", "retryable", "fatal"},
             RunEnds(reason)
      PROVE  [Fallback!Next]_Fallback!vars
  <2>1. CASE reason = "ended"
    <3>1. model > 0  BY <1>3 DEF RunEnds, LoopInv, TypeOK
    <3>2. Fallback!Answer  BY <1>3, <2>1, <3>1 DEF RunEnds, Fallback!Answer
    <3> QED  BY <1>3, <3>2 DEF RunEnds, LoopInv, Fallback!Next
  <2>2. CASE reason # "ended"
    BY <1>3, <2>2 DEF RunEnds, LoopInv, Fallback!vars
  <2> QED  BY <2>1, <2>2
<1>4. ASSUME AbortAtUpdate PROVE [Fallback!Next]_Fallback!vars
  <2>1. Fallback!Stop  BY <1>4 DEF AbortAtUpdate, Terminate, Fallback!Stop
  <2> QED  BY <1>4, <2>1 DEF AbortAtUpdate, LoopInv, Fallback!Next
<1>5. ASSUME Flush PROVE [Fallback!Next]_Fallback!vars
  <2>1. CASE why = "ended"
    <3>1. Fallback!Finish
      BY <1>5, <2>1 DEF Flush, Terminate, Fallback!Finish
    <3> QED  BY <1>5, <3>1 DEF Flush, LoopInv, Fallback!Next
  <2>2. CASE why \in {"blocked", "abort"}
    <3>1. Fallback!Stop
      BY <1>5, <2>2 DEF Flush, Terminate, Fallback!Stop
    <3> QED  BY <1>5, <3>1 DEF Flush, LoopInv, Fallback!Next
  <2>3. CASE why = "stall" /\ MayRevive
    BY <1>5, <2>3 DEF Flush, Open, Fallback!vars
  <2>4. CASE why \in {"stall", "retryable", "fatal"} /\ (why = "stall" => ~MayRevive)
    BY <1>5, <2>4, HandleImplements DEF Flush
  <2> QED  BY <1>5, <2>1, <2>2, <2>3, <2>4 DEF Flush
<1>6. ASSUME Wake PROVE [Fallback!Next]_Fallback!vars
  BY <1>6 DEF Wake, LoopInv, TypeOK, Fallback!vars
<1>7. ASSUME Update PROVE [Fallback!Next]_Fallback!vars
  BY <1>7 DEF Update, Fallback!vars
<1>8. ASSUME NEW kind \in {"retryable", "fatal"}, BuildFails(kind)
      PROVE  [Fallback!Next]_Fallback!vars
  BY <1>8, HandleImplements DEF BuildFails, LoopInv
<1>9. ASSUME SetAbort PROVE [Fallback!Next]_Fallback!vars
  BY <1>9 DEF SetAbort, Fallback!vars
<1>10. ASSUME UNCHANGED vars PROVE [Fallback!Next]_Fallback!vars
  BY <1>10 DEF vars, Fallback!vars
<1> QED
  BY <1>1, <1>2, <1>3, <1>4, <1>5, <1>6, <1>7, <1>8, <1>9, <1>10
  DEF Next, LoopStep, AgentStep, Stall, Aborted, Blocked

\* The retry, revival and fallback loop keeps the promise of ModelFallback: models in
\* order, DONE after a complete answer only, an error only from the last model.
THEOREM ImplementsFallback == Spec => LoopImplementsFallback
BY InitImplements, Invariance, StepImplements, PTL
DEF Spec, LoopImplementsFallback, Fallback!Spec
=============================================================================
