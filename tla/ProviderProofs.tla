--------------------------- MODULE ProviderProofs ---------------------------
(***************************************************************************)
(* Theorems about the providers of an answer.                              *)
(*                                                                         *)
(* AgentRun, for any number of retries: the bound on the attempts holds    *)
(* for every queue of models; that the run implements RetriedRun holds for *)
(* a queue of one model only, and needs to know that METADATA follows      *)
(* nothing but an agent run that has ended, and that the exception of an   *)
(* attempt is in hand while the generator sleeps before the next one, and  *)
(* not while an attempt runs (PlaceInv).                                   *)
(*                                                                         *)
(* LlmServices, for every context, reply and vendor's stream: what a       *)
(* provider has sent opens its calls before it ends them (Opened), a       *)
(* recited reply is a beginning of its script (Recited), and a vendor's    *)
(* calls are what was spelled of them, told once each until the finish     *)
(* reason and ended once each after it (Vendored).                         *)
(***************************************************************************)
EXTENDS AgentRun, LlmServices, SequenceTheorems, WellFoundedInduction, TLAPS

(***************************************************************************)
(* The agent's run                                                         *)
(***************************************************************************)
\* The part of TypeOK the argument needs.
Typed ==
    /\ agentPc \in {"start", "build", "stream", "sleep", "metadata", "done", "over"}
    /\ agentModel \in 0 .. AgentModels
    /\ agentAttempt \in Nat
    /\ agentOutcome \in Outcomes

\* A sleep is followed by another attempt in the range of the policy.
AttemptInv ==
    /\ agentAttempt < AgentRetries
    /\ agentPc = "sleep" => agentAttempt < AgentRetries - 1

IInv == Typed /\ AttemptInv

LEMMA InitIInv == AgentInit => IInv
BY AgentRunAssumption DEF AgentInit, IInv, Typed, AttemptInv, Outcomes

LEMMA NextIInv == IInv /\ [AgentNext]_agentVars => IInv'
<1> SUFFICES ASSUME IInv, [AgentNext]_agentVars PROVE IInv'
  OBVIOUS
<1> USE AgentRunAssumption DEF IInv, Typed, AttemptInv, EndWith, Outcomes
<1>1. CASE Refuse \/ Enter \/ BuildAgent \/ StreamEnds \/ Metadata \/ Done \/ Close
  BY <1>1 DEF Refuse, Enter, BuildAgent, StreamEnds, Metadata, Done, Close
<1>2. CASE Forward
  BY <1>2 DEF Forward
<1>3. CASE WakeUp
  BY <1>3 DEF WakeUp
<1>4. ASSUME NEW kind \in {"retryable", "fatal"}, Raise(kind)
      PROVE  IInv'
  BY <1>4 DEF Raise, HandleFailure, should_retry
<1>5. CASE SetAgentAbort \/ UNCHANGED agentVars
  BY <1>5 DEF SetAgentAbort, agentVars
<1>6. QED
  BY <1>1, <1>2, <1>3, <1>4, <1>5 DEF AgentNext

LEMMA IInvAlways == AgentSpec => []IInv
BY InitIInv, NextIInv, PTL DEF AgentSpec

\* should_retry declines the last attempt, so the for loop of stream_completion is
\* always left by a break or a return, whatever the queue: its else branch, which
\* would end in DONE, is dead.
THEOREM AttemptsAreWithinPolicy == AgentSpec => []AttemptsWithinPolicy
<1>1. IInv => AttemptsWithinPolicy
  BY DEF IInv, AttemptInv, AttemptsWithinPolicy
<1>2. QED
  BY IInvAlways, <1>1, PTL

-----------------------------------------------------------------------------
\* Where the generator is, with a queue of one model.
PlaceInv ==
    /\ agentPc # "over" <=> agentOutcome = "running"
    /\ agentPc = "start" => agentModel = 0
    /\ agentPc \in {"build", "stream", "sleep", "metadata", "done"} => agentModel = 1
    /\ agentPc \in {"start", "build", "stream", "sleep"} => run = "none"
    /\ agentPc \in {"metadata", "done"} => run = "ended"
    /\ agentPc \in {"start", "build", "stream"} => exc = "none"
    /\ agentPc = "sleep" => exc = "retryable"
    /\ agentPc = "start" => agentAttempt = 0

LEMMA NextPlaceInv ==
    ASSUME AgentModels = 1, IInv, PlaceInv, [AgentNext]_agentVars
    PROVE  PlaceInv'
<1> USE DEF PlaceInv, EndWith
<1>1. CASE Refuse \/ Enter \/ BuildAgent \/ StreamEnds \/ Metadata \/ Done \/ Close
  BY <1>1 DEF Refuse, Enter, BuildAgent, StreamEnds, Metadata, Done, Close
<1>2. CASE Forward
  BY <1>2 DEF Forward
<1>3. CASE WakeUp
  BY <1>3, AgentRunAssumption DEF WakeUp, IInv, Typed, AttemptInv
<1>4. ASSUME NEW kind \in {"retryable", "fatal"}, Raise(kind)
      PROVE  PlaceInv'
  BY <1>4 DEF Raise, HandleFailure, should_retry
<1>5. CASE SetAgentAbort \/ UNCHANGED agentVars
  BY <1>5 DEF SetAgentAbort, agentVars
<1>6. QED
  BY <1>1, <1>2, <1>3, <1>4, <1>5 DEF AgentNext

\* An exception that ends an attempt: should_retry declines it exactly when RetriedRun
\* has the model given up.
LEMMA RaiseFails ==
    ASSUME AgentModels = 1, IInv, PlaceInv,
           NEW kind \in {"retryable", "fatal"}, Raise(kind)
    PROVE  Retried!Fail(kind) /\ agentOutcome = "running"
<1> DEFINE tries == IF agentModel = 0 THEN 0 ELSE agentAttempt + 1
<1>1. /\ agentPc \in {"build", "stream"} /\ agentModel = 1 /\ exc = "none" /\ run = "none"
      /\ agentOutcome = "running" /\ exc' = kind
      /\ agentModel' = agentModel /\ agentAttempt' = agentAttempt /\ run' = run
  BY DEF Raise, PlaceInv
<1>2. /\ agentAttempt \in Nat /\ agentAttempt < AgentRetries /\ AgentRetries \in Nat
      /\ tries = agentAttempt + 1 /\ tries' = tries
  BY <1>1, AgentRunAssumption DEF IInv, Typed, AttemptInv
<1>3. should_retry(kind) <=> ~(kind = "fatal" \/ (kind = "retryable" /\ tries = AgentRetries))
  BY <1>2 DEF should_retry
<1>4. agentOutcome' = IF should_retry(kind) THEN "running" ELSE "error"
  BY <1>1 DEF Raise, HandleFailure, EndWith
<1>5. QED
  BY <1>1, <1>2, <1>3, <1>4 DEF Retried!Fail, Retried!GivenUp

\* Every step is a step of RetriedRun or leaves what it speaks of alone.
LEMMA StepImplements ==
    ASSUME AgentModels = 1, IInv, PlaceInv, [AgentNext]_agentVars
    PROVE  [Retried!Next]_(Retried!vars)
<1> USE DEF PlaceInv, EndWith, Retried!vars
<1>1. CASE Refuse
  BY <1>1 DEF Refuse, Retried!Next, Retried!Refuse
<1>2. CASE Enter
  BY <1>2 DEF Enter, Retried!Next, Retried!TryNext
<1>3. CASE BuildAgent \/ Metadata
  BY <1>3 DEF BuildAgent, Metadata
<1>4. CASE StreamEnds
  BY <1>4 DEF StreamEnds, Retried!Next, Retried!Answer
<1>5. CASE Forward \/ Close
  BY <1>5 DEF Forward, Close, Retried!Next, Retried!Stop
<1>6. CASE WakeUp
  BY <1>6, AgentRunAssumption
     DEF WakeUp, IInv, Typed, AttemptInv, Retried!Next, Retried!TryAgain
<1>7. CASE Done
  BY <1>7 DEF Done, Retried!Next, Retried!Finish
<1>8. ASSUME NEW kind \in {"retryable", "fatal"}, Raise(kind)
      PROVE  [Retried!Next]_(Retried!vars)
  BY <1>8, RaiseFails DEF Retried!Next
<1>9. CASE SetAgentAbort \/ UNCHANGED agentVars
  BY <1>9 DEF SetAgentAbort, agentVars
<1>10. QED
  BY <1>1, <1>2, <1>3, <1>4, <1>5, <1>6, <1>7, <1>8, <1>9 DEF AgentNext

\* With the default queue of one model, stream_completion keeps the retry policy for any
\* number of retries: an attempt that fails is repeated unless the error is fatal or the
\* attempt is the last that should_retry allows, ERROR comes for want of a user message or
\* behind such a failure only, and DONE only after the agent's stream has ended.
THEOREM OneModelImplementsRetries ==
    ASSUME AgentModels = 1
    PROVE  AgentSpec => RunImplementsRetries
<1>1. AgentInit => PlaceInv /\ Retried!Init
  BY DEF AgentInit, PlaceInv, Retried!Init
<1>2. IInv /\ PlaceInv /\ [AgentNext]_agentVars => PlaceInv'
  BY NextPlaceInv
<1>3. IInv /\ PlaceInv /\ [AgentNext]_agentVars => [Retried!Next]_(Retried!vars)
  BY StepImplements
<1>4. QED
  BY IInvAlways, <1>1, <1>2, <1>3, PTL DEF AgentSpec, RunImplementsRetries, Retried!Spec

(***************************************************************************)
(* Numbers and loops                                                       *)
(***************************************************************************)
Below == {p \in Nat \X Nat : p[1] < p[2]}
LEMMA BelowWF == IsWellFoundedOn(Below, Nat)
BY NatLessThanWellFounded, Zenon DEF OpToRel, Below

\* Every set of numbers that is not empty has a least one.
LEMMA LeastNumber == ASSUME NEW T, T \subseteq Nat, T # {} PROVE \E m \in T : \A n \in T : m <= n
<1>1. PICK m \in T : \A n \in T : ~ (<<n, m>> \in Below)
  BY BelowWF, WFMin
<1>2. \A n \in T : n \in Nat /\ m \in Nat /\ ~(n < m)
  BY <1>1 DEF Below
<1>3. QED
  BY <1>2

\* What holds for 0 and is passed on holds for every number.
LEMMA Induction ==
    ASSUME NEW T, NEW n \in Nat, 0 \in T, \A k \in 0..(n - 1) : k \in T => k + 1 \in T
    PROVE  \A k \in 0..n : k \in T
<1> DEFINE bad == {k \in 0..n : k \notin T}
<1> SUFFICES ASSUME bad # {} PROVE FALSE
  OBVIOUS
<1>1. PICK m \in bad : \A k \in bad : m <= k
  <2>1. bad \subseteq Nat
    OBVIOUS
  <2>2. QED
    BY <2>1, LeastNumber
<1>2. m # 0 /\ m \in 1..n
  BY <1>1
<1>3. m - 1 \in 0..(n - 1) /\ m - 1 \notin bad
  BY <1>1, <1>2
<1>4. QED
  BY <1>2, <1>3

\* A loop whose rounds turn one state of S into another goes through a run of states.
Loops(n, S) == [S \X (1..n) -> S]
IsRun(f, n, S, first, round) ==
  f \in [0..n -> S] /\ f[0] = first /\ \A k \in 1..n : f[k] = round[<<f[k - 1], k>>]

LEMMA LoopRuns ==
    ASSUME NEW n \in Nat, NEW S, NEW first \in S, NEW round \in Loops(n, S)
    PROVE  \E f : IsRun(f, n, S, first, round)
<1> DEFINE T == {m \in 0..n : \E f : IsRun(f, m, S, first, round)}
<1>1. 0 \in T
  <2> DEFINE f == [k \in 0..0 |-> first]
  <2>1. IsRun(f, 0, S, first, round)
    BY DEF IsRun
  <2>2. 0 \in 0..n
    OBVIOUS
  <2> HIDE DEF f
  <2>3. QED
    BY <2>1, <2>2
<1>2. ASSUME NEW m \in 0..(n - 1), m \in T PROVE m + 1 \in T
  <2>1. PICK f : IsRun(f, m, S, first, round)
    BY <1>2
  <2>2. PICK g : g = [k \in 0..(m + 1) |-> IF k = m + 1 THEN round[<<f[m], m + 1>>] ELSE f[k]]
    OBVIOUS
  <2>3. /\ m + 1 \in 1..n /\ m + 1 \in 0..n /\ m \in Nat /\ f[m] \in S
        /\ <<f[m], m + 1>> \in S \X (1..n)
    BY <2>1 DEF IsRun
  <2>4. round[<<f[m], m + 1>>] \in S
    BY <2>3 DEF Loops
  <2>5. g \in [0..(m + 1) -> S]
    BY <2>1, <2>2, <2>3, <2>4 DEF IsRun
  <2>6. /\ \A k \in 0..m : g[k] = f[k]
        /\ g[m + 1] = round[<<f[m], m + 1>>] /\ m + 1 \in Nat /\ (m + 1) - 1 = m
    BY <2>2, <2>3
  <2>7. ASSUME NEW k \in 1..(m + 1) PROVE g[k] = round[<<g[k - 1], k>>]
    <3>1. CASE k = m + 1
      BY <2>3, <2>6, <3>1
    <3>2. CASE k \in 1..m
      BY <2>1, <2>6, <3>2 DEF IsRun
    <3>3. QED
      BY <2>3, <3>1, <3>2
  <2>8. IsRun(g, m + 1, S, first, round)
    BY <2>1, <2>3, <2>5, <2>6, <2>7 DEF IsRun
  <2>9. QED
    BY <2>3, <2>8
<1>3. \A k \in 0..n : k \in T
  <2> HIDE DEF T
  <2>1. QED
    BY <1>1, <1>2, Induction
<1>4. QED
  BY <1>3

(***************************************************************************)
(* Sequences of sequences                                                  *)
(***************************************************************************)
\* What holds of the empty sequence and is passed on by Append holds of all.
LEMMA EverySequence ==
    ASSUME NEW S, NEW P, <<>> \in P, \A s \in Seq(S), x \in S : s \in P => Append(s, x) \in P
    PROVE  \A s \in Seq(S) : s \in P
<1> SUFFICES ASSUME NEW s \in Seq(S) PROVE s \in P
  OBVIOUS
<1>1. PICK n \in Nat : n = Len(s)
  BY LenProperties
<1> DEFINE T == {k \in 0..n : \A t \in Seq(S) : Len(t) = k => t \in P}
<1>2. 0 \in T
  <2>1. \A t \in Seq(S) : Len(t) = 0 => t = <<>>
    BY EmptySeq
  <2>2. QED
    BY <2>1
<1>3. ASSUME NEW k \in 0..(n - 1), k \in T PROVE k + 1 \in T
  <2>1. ASSUME NEW t \in Seq(S), Len(t) = k + 1 PROVE t \in P
    <3>1. t # <<>>
      BY <2>1, EmptySeq
    <3>2. PICK r \in Seq(S), x \in S : t = Append(r, x)
      BY <3>1, SequenceEmptyOrAppend
    <3>3. Len(r) = k
      BY <2>1, <3>2, AppendProperties, LenProperties
    <3>4. QED
      BY <1>3, <3>2, <3>3
  <2>2. k + 1 \in 0..n
    OBVIOUS
  <2>3. QED
    BY <2>1, <2>2
<1>4. n \in T
  <2> HIDE DEF T
  <2>1. \A k \in 0..n : k \in T
    BY <1>2, <1>3, Induction
  <2>2. QED
    BY <2>1
<1>5. QED
  BY <1>1, <1>4

LEMMA FlattenNone == FlattenSeq(<<>>) = <<>>
BY DEF FlattenSeq

\* The partial results of FlattenSeq.
IsFlat(f, ss) ==
  /\ f = [k \in 1..Len(ss) |-> f[k]]
  /\ f[1] = ss[1] /\ \A k \in 2..Len(ss) : f[k] = f[k - 1] \o ss[k]

LEMMA FlattenRuns ==
    ASSUME NEW S, NEW ss \in Seq(Seq(S)), ss # <<>>
    PROVE  \E f : IsFlat(f, ss) /\ FlattenSeq(ss) = f[Len(ss)] /\ f \in [1..Len(ss) -> Seq(S)]
<1>1. PICK n \in Nat \ {0} : n = Len(ss) /\ \A k \in 1..n : ss[k] \in Seq(S)
  BY EmptySeq, ElementOfSeq
<1> DEFINE round == [p \in Seq(S) \X (1..(n - 1)) |-> p[1] \o ss[p[2] + 1]]
           Is(f) == f = [i \in 1..n |-> IF i = 1 THEN ss[i] ELSE f[i - 1] \o ss[i]]
           flat == CHOOSE f : Is(f)
<1>2. round \in Loops(n - 1, Seq(S))
  <2>1. ASSUME NEW p \in Seq(S) \X (1..(n - 1)) PROVE p[1] \o ss[p[2] + 1] \in Seq(S)
    <3>1. p[1] \in Seq(S) /\ ss[p[2] + 1] \in Seq(S)
      BY <1>1
    <3>2. QED
      BY <3>1, ConcatProperties
  <2>2. QED
    BY <2>1 DEF Loops
<1>3. ss[1] \in Seq(S) /\ n - 1 \in Nat
  BY <1>1
<1>4. PICK g : IsRun(g, n - 1, Seq(S), ss[1], round)
  <2> HIDE DEF round
  <2>1. QED
    BY <1>2, <1>3, LoopRuns
<1>5. PICK f : f = [i \in 1..n |-> g[i - 1]]
  OBVIOUS
<1>6. f[1] = ss[1] /\ 1 \in 1..n
  BY <1>4, <1>5 DEF IsRun
<1>7. ASSUME NEW i \in 2..n PROVE f[i] = f[i - 1] \o ss[i]
  <2>1. i - 1 \in 1..(n - 1) /\ i \in 1..n /\ i - 1 \in 1..n /\ (i - 1) + 1 = i
          /\ (i - 1) - 1 \in 0..(n - 1)
    OBVIOUS
  <2>2. g[i - 1] = round[<<g[(i - 1) - 1], i - 1>>] /\ g[(i - 1) - 1] \in Seq(S)
    BY <1>4, <2>1 DEF IsRun
  <2>3. round[<<g[(i - 1) - 1], i - 1>>] = g[(i - 1) - 1] \o ss[i]
    BY <2>1, <2>2
  <2>4. QED
    BY <1>5, <2>1, <2>2, <2>3
<1>8. Is(f)
  <2>1. \A i \in 1..n : i = 1 \/ i \in 2..n
    OBVIOUS
  <2>2. f = [i \in 1..n |-> f[i]]
    BY <1>5
  <2>3. \A i \in 1..n : f[i] = IF i = 1 THEN ss[i] ELSE f[i - 1] \o ss[i]
    BY <1>6, <1>7, <2>1
  <2>4. QED
    BY <2>2, <2>3
<1>9. Is(flat)
  <2> HIDE DEF Is
  <2>1. QED
    BY <1>8
<1>10. FlattenSeq(ss) = flat[n]
  BY <1>1 DEF FlattenSeq
<1>11. IsFlat(flat, ss)
  <2>1. /\ flat = [i \in 1..n |-> flat[i]]
        /\ \A i \in 1..n : flat[i] = IF i = 1 THEN ss[i] ELSE flat[i - 1] \o ss[i]
    <3> HIDE DEF flat
    <3>1. PICK h : h = flat
      OBVIOUS
    <3>2. h = [i \in 1..n |-> IF i = 1 THEN ss[i] ELSE h[i - 1] \o ss[i]]
      BY <1>9, <3>1
    <3>3. QED
      BY <3>1, <3>2
  <2>2. 1 \in 1..n /\ \A k \in 2..n : k \in 1..n /\ k # 1
    OBVIOUS
  <2>3. QED
    <3> HIDE DEF flat
    <3>1. QED
      BY <1>1, <2>1, <2>2 DEF IsFlat
<1>12. \A k \in 0..(n - 1) : flat[k + 1] \in Seq(S)
  <2> DEFINE T == {k \in 0..(n - 1) : flat[k + 1] \in Seq(S)}
  <2>1. 0 \in T
    <3> HIDE DEF flat
    <3>1. 0 \in 0..(n - 1) /\ flat[0 + 1] = ss[1]
      <4>1. 0 \in 0..(n - 1) /\ 0 + 1 = 1
        OBVIOUS
      <4>2. flat[1] = ss[1]
        BY <1>11 DEF IsFlat
      <4>3. QED
        BY <4>1, <4>2
    <3>2. QED
      BY <1>3, <3>1
  <2>2. ASSUME NEW k \in 0..((n - 1) - 1), k \in T PROVE k + 1 \in T
    <3>1. k + 1 \in 0..(n - 1) /\ (k + 1) + 1 \in 2..n /\ ((k + 1) + 1) - 1 = k + 1
      OBVIOUS
    <3>2. flat[(k + 1) + 1] = flat[k + 1] \o ss[(k + 1) + 1]
      BY <1>1, <1>11, <3>1 DEF IsFlat
    <3>3. flat[k + 1] \in Seq(S) /\ ss[(k + 1) + 1] \in Seq(S)
      BY <1>1, <2>2, <3>1
    <3>4. QED
      BY <3>1, <3>2, <3>3, ConcatProperties
  <2>3. QED
    <3> HIDE DEF T
    <3>1. \A k \in 0..(n - 1) : k \in T
      BY <1>3, <2>1, <2>2, Induction
    <3>2. QED
      BY <3>1 DEF T
<1>13. flat \in [1..Len(ss) -> Seq(S)]
  <2> HIDE DEF flat
  <2>1. \A k \in 1..n : k - 1 \in 0..(n - 1) /\ (k - 1) + 1 = k
    OBVIOUS
  <2>2. \A k \in 1..n : flat[k] \in Seq(S)
    BY <1>12, <2>1
  <2>3. QED
    BY <1>1, <1>11, <2>2 DEF IsFlat
<1>14. QED
  BY <1>1, <1>10, <1>11, <1>13

LEMMA FlattenType == ASSUME NEW S, NEW ss \in Seq(Seq(S)) PROVE FlattenSeq(ss) \in Seq(S)
<1>1. CASE ss = <<>>
  BY <1>1, FlattenNone, EmptySeq
<1>2. CASE ss # <<>>
  <2>1. PICK f : FlattenSeq(ss) = f[Len(ss)] /\ f \in [1..Len(ss) -> Seq(S)]
    BY <1>2, FlattenRuns
  <2>2. Len(ss) \in 1..Len(ss)
    BY <1>2, EmptySeq
  <2>3. QED
    BY <2>1, <2>2
<1>3. QED
  BY <1>1, <1>2

LEMMA FlattenAppend ==
    ASSUME NEW S, NEW ss \in Seq(Seq(S)), NEW x \in Seq(S)
    PROVE  FlattenSeq(Append(ss, x)) = FlattenSeq(ss) \o x
<1>1. PICK n \in Nat : n = Len(ss)
  BY LenProperties
<1>2. PICK tt \in Seq(Seq(S)) : tt = Append(ss, x)
  BY AppendProperties
<1>3. Len(tt) = n + 1 /\ tt # <<>> /\ tt[n + 1] = x /\ \A k \in 1..n : tt[k] = ss[k]
  BY <1>1, <1>2, AppendProperties
<1>4. PICK g : IsFlat(g, tt) /\ FlattenSeq(tt) = g[n + 1]
  BY <1>3, FlattenRuns
<1>5. CASE n = 0
  <2>1. ss = <<>>
    BY <1>1, <1>5, EmptySeq
  <2>2. FlattenSeq(tt) = x
    BY <1>3, <1>4, <1>5 DEF IsFlat
  <2>3. QED
    BY <1>2, <2>1, <2>2, FlattenNone, ConcatEmptySeq
<1>6. CASE n # 0
  <2>1. ss # <<>>
    BY <1>1, <1>6, EmptySeq
  <2>2. PICK f : IsFlat(f, ss) /\ FlattenSeq(ss) = f[n]
    BY <1>1, <2>1, FlattenRuns
  <2> DEFINE T == {k \in 0..(n - 1) : g[k + 1] = f[k + 1]}
  <2>3. 0 \in T
    <3>1. 0 \in 0..(n - 1) /\ 1 \in 1..n
      BY <1>6
    <3>2. f[1] = ss[1] /\ g[1] = tt[1]
      BY <1>4, <2>2 DEF IsFlat
    <3>3. tt[1] = ss[1] /\ 0 + 1 = 1
      BY <1>3, <3>1
    <3>4. QED
      BY <3>1, <3>2, <3>3
  <2>4. ASSUME NEW k \in 0..((n - 1) - 1), k \in T PROVE k + 1 \in T
    <3>1. k + 1 \in 0..(n - 1) /\ (k + 1) + 1 \in 2..n /\ (k + 1) + 1 \in 2..(n + 1)
            /\ ((k + 1) + 1) - 1 = k + 1
      OBVIOUS
    <3>2. /\ f[(k + 1) + 1] = f[k + 1] \o ss[(k + 1) + 1]
          /\ g[(k + 1) + 1] = g[k + 1] \o tt[(k + 1) + 1]
      BY <1>1, <1>3, <1>4, <2>2, <3>1 DEF IsFlat
    <3>3. tt[(k + 1) + 1] = ss[(k + 1) + 1] /\ g[k + 1] = f[k + 1]
      BY <1>3, <2>4, <3>1
    <3>4. QED
      BY <3>1, <3>2, <3>3
  <2>5. g[n] = f[n]
    <3> HIDE DEF T
    <3>1. n - 1 \in Nat /\ n - 1 \in 0..(n - 1) /\ (n - 1) + 1 = n
      BY <1>6
    <3>2. n - 1 \in T
      BY <2>3, <2>4, <3>1, Induction
    <3>3. QED
      BY <3>1, <3>2 DEF T
  <2>6. g[n + 1] = g[n] \o tt[n + 1]
    <3>1. n + 1 \in 2..Len(tt) /\ (n + 1) - 1 = n
      BY <1>3, <1>6
    <3>2. QED
      BY <1>4, <3>1 DEF IsFlat
  <2>7. QED
    BY <1>2, <1>3, <1>4, <2>2, <2>5, <2>6
<1>7. QED
  BY <1>5, <1>6

LEMMA FlattenConcat ==
    ASSUME NEW S, NEW a \in Seq(Seq(S)), NEW b \in Seq(Seq(S))
    PROVE  FlattenSeq(a \o b) = FlattenSeq(a) \o FlattenSeq(b)
<1> DEFINE P == {t \in Seq(Seq(S)) : FlattenSeq(a \o t) = FlattenSeq(a) \o FlattenSeq(t)}
<1>1. FlattenSeq(a) \in Seq(S)
  BY FlattenType
<1>2. <<>> \in P
  <2>1. a \o <<>> = a /\ FlattenSeq(a) \o <<>> = FlattenSeq(a) /\ <<>> \in Seq(Seq(S))
    BY <1>1, ConcatEmptySeq, EmptySeq
  <2>2. QED
    BY <2>1, FlattenNone
<1>3. ASSUME NEW t \in Seq(Seq(S)), NEW x \in Seq(S), t \in P PROVE Append(t, x) \in P
  <2>1. Append(t, x) \in Seq(Seq(S)) /\ a \o t \in Seq(Seq(S))
    BY AppendProperties, ConcatProperties
  <2>2. a \o Append(t, x) = Append(a \o t, x)
    <3>1. Append(t, x) = t \o <<x>> /\ Append(a \o t, x) = (a \o t) \o <<x>>
      BY <2>1, AppendIsConcat
    <3>2. <<x>> \in Seq(Seq(S))
      OBVIOUS
    <3>3. QED
      BY <3>1, <3>2, ConcatAssociative
  <2>3. FlattenSeq(Append(a \o t, x)) = FlattenSeq(a \o t) \o x
    BY <2>1, FlattenAppend
  <2>4. FlattenSeq(Append(t, x)) = FlattenSeq(t) \o x /\ FlattenSeq(t) \in Seq(S)
    BY FlattenAppend, FlattenType
  <2>5. (FlattenSeq(a) \o FlattenSeq(t)) \o x = FlattenSeq(a) \o (FlattenSeq(t) \o x)
    <3>1. PICK u \in Seq(S), v \in Seq(S) : u = FlattenSeq(a) /\ v = FlattenSeq(t)
      BY <1>1, <2>4
    <3>2. (u \o v) \o x = u \o (v \o x)
      BY ConcatAssociative, SMTT(30)
    <3>3. QED
      BY <3>1, <3>2
  <2>6. FlattenSeq(a \o t) = FlattenSeq(a) \o FlattenSeq(t)
    BY <1>3
  <2>7. FlattenSeq(a \o Append(t, x)) = FlattenSeq(a) \o FlattenSeq(Append(t, x))
    BY <2>2, <2>3, <2>4, <2>5, <2>6
  <2>8. QED
    BY <2>1, <2>7
<1>4. b \in P
  <2> HIDE DEF P
  <2>1. \A t \in Seq(Seq(S)) : t \in P
    BY <1>2, <1>3, EverySequence
  <2>2. QED
    BY <2>1
<1>5. QED
  BY <1>4

\* What the elements of a sequence are turned into, joined.
Turns(S, T) == [S -> Seq(T)]
Each(h, s) == [i \in DOMAIN s |-> h[s[i]]]
Through(h, s) == FlattenSeq(Each(h, s))

LEMMA EachOf ==
    ASSUME NEW S, NEW T, NEW h \in Turns(S, T), NEW s \in Seq(S)
    PROVE  /\ Each(h, s) \in Seq(Seq(T)) /\ Len(Each(h, s)) = Len(s)
           /\ \A i \in 1..Len(s) : Each(h, s)[i] = h[s[i]]
<1>1. PICK n \in Nat : n = Len(s) /\ DOMAIN s = 1..n /\ \A i \in 1..n : s[i] \in S
  BY LenProperties, ElementOfSeq
<1>2. PICK e : e = Each(h, s) /\ e = [i \in 1..n |-> h[s[i]]]
  BY <1>1 DEF Each
<1>3. e \in [1..n -> Seq(T)]
  BY <1>1, <1>2 DEF Turns
<1>4. e \in Seq(Seq(T)) /\ Len(e) = n
  BY <1>3
<1>5. QED
  BY <1>1, <1>2, <1>4

LEMMA ThroughType ==
    ASSUME NEW S, NEW T, NEW h \in Turns(S, T), NEW s \in Seq(S)
    PROVE  Through(h, s) \in Seq(T)
BY EachOf, FlattenType DEF Through

LEMMA ThroughNone == \A h : Through(h, <<>>) = <<>>
<1> TAKE h
<1>1. Each(h, <<>>) = <<>>
  BY DEF Each
<1>2. QED
  BY <1>1, FlattenNone DEF Through

LEMMA ThroughAppend ==
    ASSUME NEW S, NEW T, NEW h \in Turns(S, T), NEW s \in Seq(S), NEW x \in S
    PROVE  Through(h, Append(s, x)) = Through(h, s) \o h[x]
<1>1. PICK n \in Nat : n = Len(s) /\ DOMAIN s = 1..n
  BY LenProperties
<1>2. PICK t \in Seq(S) : t = Append(s, x)
  BY AppendProperties
<1>3. Len(t) = n + 1 /\ DOMAIN t = 1..(n + 1) /\ t[n + 1] = x /\ \A i \in 1..n : t[i] = s[i]
  BY <1>1, <1>2, AppendProperties, LenProperties
<1>4. PICK e \in Seq(Seq(T)) : /\ e = Each(h, s) /\ Len(e) = n
                                /\ \A i \in 1..(n) : e[i] = h[s[i]]
  <2>1. /\ Each(h, s) \in Seq(Seq(T)) /\ Len(Each(h, s)) = Len(s)
        /\ \A i \in 1..Len(s) : Each(h, s)[i] = h[s[i]]
    BY EachOf
  <2>2. QED
    BY <1>1, <2>1
<1>5. PICK f \in Seq(Seq(T)) : /\ f = Each(h, t) /\ Len(f) = n + 1
                                /\ \A i \in 1..(n + 1) : f[i] = h[t[i]]
  <2>1. /\ Each(h, t) \in Seq(Seq(T)) /\ Len(Each(h, t)) = Len(t)
        /\ \A i \in 1..Len(t) : Each(h, t)[i] = h[t[i]]
    BY EachOf
  <2>2. QED
    BY <1>3, <2>1
<1>6. h[x] \in Seq(T)
  BY DEF Turns
<1>7. f = Append(e, h[x])
  <2>1. Append(e, h[x]) \in Seq(Seq(T)) /\ Len(Append(e, h[x])) = n + 1
    BY <1>4, <1>6, AppendProperties
  <2>2. /\ \A i \in 1..n : Append(e, h[x])[i] = e[i]
        /\ Append(e, h[x])[n + 1] = h[x]
    BY <1>4, <1>6, AppendProperties
  <2>3. /\ \A i \in 1..n : e[i] = h[s[i]] /\ f[i] = h[s[i]]
        /\ f[n + 1] = h[x]
    BY <1>1, <1>3, <1>4, <1>5
  <2>4. \A i \in 1..(n + 1) : i \in 1..n \/ i = n + 1
    OBVIOUS
  <2>5. \A i \in 1..(n + 1) : f[i] = Append(e, h[x])[i]
    BY <2>2, <2>3, <2>4
  <2>6. QED
    BY <1>5, <2>1, <2>5, SeqEqual
<1>8. QED
  <2>1. PICK y \in Seq(T) : y = h[x]
    BY <1>6
  <2>2. FlattenSeq(Append(e, y)) = FlattenSeq(e) \o y
    BY FlattenAppend
  <2>3. QED
    BY <1>2, <1>4, <1>5, <1>7, <2>1, <2>2 DEF Through

LEMMA ThroughOne ==
    ASSUME NEW S, NEW T, NEW h \in Turns(S, T), NEW x \in S
    PROVE  Through(h, <<x>>) = h[x]
<1>1. <<>> \in Seq(S) /\ Append(<<>>, x) = <<x>> /\ h[x] \in Seq(T)
  BY DEF Turns
<1>2. Through(h, Append(<<>>, x)) = Through(h, <<>>) \o h[x]
  BY <1>1, ThroughAppend
<1>3. QED
  BY <1>1, <1>2, ThroughNone, ConcatEmptySeq

LEMMA ThroughConcat ==
    ASSUME NEW S, NEW T, NEW h \in Turns(S, T), NEW a \in Seq(S), NEW b \in Seq(S)
    PROVE  Through(h, a \o b) = Through(h, a) \o Through(h, b)
<1>1. PICK m \in Nat, n \in Nat : /\ m = Len(a) /\ DOMAIN a = 1..m
                                  /\ n = Len(b) /\ DOMAIN b = 1..n
  BY LenProperties
<1>2. PICK t \in Seq(S) : t = a \o b
  BY ConcatProperties
<1>3. /\ Len(t) = m + n /\ DOMAIN t = 1..(m + n)
      /\ \A i \in 1..(m + n) : t[i] = IF i <= m THEN a[i] ELSE b[i - m]
  BY <1>1, <1>2, ConcatProperties, LenProperties
<1>4. PICK e \in Seq(Seq(T)) : /\ e = Each(h, a) /\ Len(e) = m
                                /\ \A i \in 1..(m) : e[i] = h[a[i]]
  <2>1. /\ Each(h, a) \in Seq(Seq(T)) /\ Len(Each(h, a)) = Len(a)
        /\ \A i \in 1..Len(a) : Each(h, a)[i] = h[a[i]]
    BY EachOf
  <2>2. QED
    BY <1>1, <2>1
<1>5. PICK f \in Seq(Seq(T)) : /\ f = Each(h, b) /\ Len(f) = n
                                /\ \A i \in 1..(n) : f[i] = h[b[i]]
  <2>1. /\ Each(h, b) \in Seq(Seq(T)) /\ Len(Each(h, b)) = Len(b)
        /\ \A i \in 1..Len(b) : Each(h, b)[i] = h[b[i]]
    BY EachOf
  <2>2. QED
    BY <1>1, <2>1
<1>6. PICK g \in Seq(Seq(T)) : /\ g = Each(h, t) /\ Len(g) = m + n
                                /\ \A i \in 1..(m + n) : g[i] = h[t[i]]
  <2>1. /\ Each(h, t) \in Seq(Seq(T)) /\ Len(Each(h, t)) = Len(t)
        /\ \A i \in 1..Len(t) : Each(h, t)[i] = h[t[i]]
    BY EachOf
  <2>2. QED
    BY <1>3, <2>1
<1>7. g = e \o f
  <2>1. /\ e \o f \in Seq(Seq(T)) /\ Len(e \o f) = m + n
        /\ \A i \in 1..(m + n) : (e \o f)[i] = IF i <= m THEN e[i] ELSE f[i - m]
    <3>1. PICK Q : Q = Seq(T)
      OBVIOUS
    <3>2. e \in Seq(Q) /\ f \in Seq(Q)
      BY <3>1
    <3>3. /\ e \o f \in Seq(Q) /\ Len(e \o f) = Len(e) + Len(f)
          /\ \A i \in 1..(Len(e) + Len(f)) : (e \o f)[i] = IF i <= Len(e) THEN e[i] ELSE f[i - Len(e)]
      BY <3>2, ConcatProperties
    <3>4. QED
      BY <1>4, <1>5, <3>1, <3>3
  <2>2. ASSUME NEW i \in 1..(m + n) PROVE g[i] = (e \o f)[i]
    <3>1. CASE i <= m
      <4>1. i \in 1..m
        BY <3>1
      <4>2. QED
        <5>1. t[i] = a[i] /\ (e \o f)[i] = e[i]
          BY <1>3, <2>1, <3>1
        <5>2. g[i] = h[t[i]] /\ e[i] = h[a[i]]
          BY <1>4, <1>6, <4>1
        <5>3. QED
          BY <5>1, <5>2
    <3>2. CASE ~(i <= m)
      <4>1. i - m \in 1..n
        BY <3>2
      <4>2. QED
        <5>1. t[i] = b[i - m] /\ (e \o f)[i] = f[i - m]
          BY <1>3, <2>1, <3>2
        <5>2. g[i] = h[t[i]] /\ f[i - m] = h[b[i - m]]
          BY <1>5, <1>6, <4>1
        <5>3. QED
          BY <5>1, <5>2
    <3>3. QED
      BY <3>1, <3>2
  <2>3. QED
    BY <1>6, <2>1, <2>2, SeqEqual
<1>8. QED
  BY <1>2, <1>4, <1>5, <1>6, <1>7, FlattenConcat DEF Through

LEMMA LastOfAppend ==
    ASSUME NEW S, NEW s \in Seq(S), NEW x \in S
    PROVE  /\ Append(s, x) # <<>> /\ Last(Append(s, x)) = x /\ Front(Append(s, x)) = s
           /\ Len(Append(s, x)) = Len(s) + 1
<1>1. PICK n \in Nat : n = Len(s) /\ s = [i \in 1..n |-> s[i]]
  BY LenProperties
<1>2. PICK t \in Seq(S) : t = Append(s, x)
  BY AppendProperties
<1>3. Len(t) = n + 1 /\ t # <<>> /\ t[n + 1] = x /\ \A i \in 1..n : t[i] = s[i]
  BY <1>1, <1>2, AppendProperties
<1>4. \A i \in 1..n : t[i] \in S
  BY <1>3, ElementOfSeq
<1>5. /\ SubSeq(t, 1, n) \in Seq(S) /\ Len(SubSeq(t, 1, n)) = n
      /\ \A i \in 1..n : SubSeq(t, 1, n)[i] = t[i]
  <2>1. /\ SubSeq(t, 1, n) \in Seq(S)
        /\ Len(SubSeq(t, 1, n)) = IF 1 <= n THEN n - 1 + 1 ELSE 0
        /\ \A i \in 1..(n - 1 + 1) : SubSeq(t, 1, n)[i] = t[1 + i - 1]
    BY <1>4, SubSeqProperties
  <2>2. n - 1 + 1 = n /\ \A i \in 1..n : 1 + i - 1 = i
    OBVIOUS
  <2>3. QED
    BY <2>1, <2>2
<1>6. SubSeq(t, 1, n) = s
  BY <1>1, <1>3, <1>5, SeqEqual
<1>7. QED
  BY <1>1, <1>2, <1>3, <1>6 DEF Last, Front

(***************************************************************************)
(* What is asked                                                           *)
(***************************************************************************)
ContextMessages == [role : Roles, text : Seq(Chars), calls : Nat]
SpeaksTurn ==
  [m \in ContextMessages |-> IF m.role \in {"user", "assistant", "tool"} THEN <<m>> ELSE <<>>]
TellsTurn == [m \in ContextMessages |-> IF m.text # <<>> \/ m.calls > 0 THEN <<m>> ELSE <<>>]

LEMMA MessageTurns ==
    /\ SpeaksTurn \in Turns(ContextMessages, ContextMessages)
    /\ TellsTurn \in Turns(ContextMessages, ContextMessages)
<1>1. \A m \in ContextMessages : <<m>> \in Seq(ContextMessages)
  OBVIOUS
<1>2. <<>> \in Seq(ContextMessages)
  OBVIOUS
<1>3. QED
  BY <1>1, <1>2 DEF SpeaksTurn, TellsTurn, Turns

LEMMA SpokenIs == ASSUME NEW s \in Seq(ContextMessages) PROVE Spoken(s) = Through(SpeaksTurn, s)
<1>1. PICK n \in Nat : DOMAIN s = 1..n /\ \A i \in 1..n : s[i] \in ContextMessages
  BY LenProperties, ElementOfSeq
<1>2. QED
  BY <1>1 DEF Spoken, Picked, Through, Each, SpeaksTurn

LEMMA TellingIs == ASSUME NEW s \in Seq(ContextMessages) PROVE Telling(s) = Through(TellsTurn, s)
<1>1. PICK n \in Nat : DOMAIN s = 1..n /\ \A i \in 1..n : s[i] \in ContextMessages
  BY LenProperties, ElementOfSeq
<1>2. QED
  BY <1>1 DEF Telling, Picked, Through, Each, TellsTurn

LEMMA LastIsAsked ==
    ASSUME NEW s \in Seq(ContextMessages), NEW m \in ContextMessages, m.role = "user"
    PROVE  UserMessage(Append(s, m)) = m.text
<1>1. PICK n \in Nat : n = Len(s)
  BY LenProperties
<1>2. PICK t \in Seq(ContextMessages) : t = Append(s, m)
  BY AppendProperties
<1>3. Len(t) = n + 1 /\ t[n + 1] = m /\ DOMAIN t = 1..(n + 1)
  BY <1>1, <1>2, AppendProperties, LenProperties
<1> DEFINE asked == {i \in DOMAIN t : t[i].role = "user"}
<1>4. n + 1 \in asked /\ \A i \in asked : i \in Int /\ n + 1 >= i
  BY <1>3
<1>5. Max(asked) = n + 1
  <2> HIDE DEF asked
  <2>1. \A i \in asked : (\A j \in asked : i >= j) => i = n + 1
    BY <1>4
  <2>2. QED
    BY <1>4, <2>1 DEF Max
<1>6. asked # {} /\ t[Max(asked)].text = m.text
  BY <1>3, <1>4, <1>5
<1>7. QED
  BY <1>2, <1>6 DEF UserMessage

LEMMA AskedOnce ==
    ASSUME NEW h \in Histories, h # <<>>, Last(h).role = "user"
    PROVE  /\ ContextInjection(h).query = Last(h).text
           /\ Append(ContextInjection(h).transcript, Last(h)) = Telling(Spoken(h))
<1>1. h \in Seq(ContextMessages)
  BY LlmAssumption DEF ContextMessages
<1>2. PICK s \in Seq(ContextMessages), m \in ContextMessages : h = Append(s, m)
  BY <1>1, SequenceEmptyOrAppend
<1>3. Last(h) = m /\ m.role = "user"
  BY <1>2, LastOfAppend
<1>4. m.text # <<>>
  <2>1. Len(h) \in DOMAIN h
    BY <1>1, EmptySeq, LenProperties
  <2>2. QED
    BY <1>3, <2>1, LlmAssumption DEF Last
<1>5. SpeaksTurn[m] = <<m>> /\ TellsTurn[m] = <<m>>
  BY <1>3, <1>4 DEF SpeaksTurn, TellsTurn
<1>6. PICK u \in Seq(ContextMessages) : u = Through(SpeaksTurn, s)
  BY MessageTurns, ThroughType
<1>7. Spoken(h) = Append(u, m)
  <2>1. Spoken(h) = Through(SpeaksTurn, s) \o SpeaksTurn[m]
    BY <1>1, <1>2, SpokenIs, MessageTurns, ThroughAppend
  <2>2. QED
    BY <1>5, <1>6, <2>1, AppendIsConcat
<1>8. Prior(h) = u
  BY <1>3, <1>7, LastOfAppend DEF Prior
<1>9. Telling(Spoken(h)) = Append(Telling(u), m)
  <2>1. Append(u, m) \in Seq(ContextMessages)
    BY AppendProperties
  <2>2. Telling(Append(u, m)) = Through(TellsTurn, u) \o TellsTurn[m]
    BY <2>1, TellingIs, MessageTurns, ThroughAppend
  <2>3. Telling(u) = Through(TellsTurn, u) /\ Telling(u) \in Seq(ContextMessages)
    BY TellingIs, MessageTurns, ThroughType
  <2>4. QED
    BY <1>5, <1>7, <2>2, <2>3, AppendIsConcat
<1>10. ContextInjection(h).query = m.text
  BY <1>2, <1>3, LastIsAsked DEF ContextInjection
<1>11. QED
  BY <1>3, <1>8, <1>9, <1>10 DEF ContextInjection

LEMMA UserMessageType == ASSUME NEW h \in Histories \cup {<<>>} PROVE UserMessage(h) \in Seq(Chars)
<1>1. h \in Seq(ContextMessages)
  BY LlmAssumption, EmptySeq DEF ContextMessages
<1>2. PICK n \in Nat : n = Len(h) /\ DOMAIN h = 1..n /\ \A i \in 1..n : h[i] \in ContextMessages
  BY <1>1, LenProperties, ElementOfSeq
<1> DEFINE asked == {i \in DOMAIN h : h[i].role = "user"}
<1>3. ASSUME asked # {} PROVE Max(asked) \in asked
  <2>1. \E i \in asked : \A j \in asked : i >= j
    <3> DEFINE flipped == {n - i : i \in asked}
    <3>1. flipped \subseteq Nat /\ flipped # {}
      BY <1>2, <1>3
    <3>2. PICK k \in flipped : \A l \in flipped : k <= l
      <4> HIDE DEF flipped
      <4>1. QED
        BY <3>1, LeastNumber
    <3>3. PICK i \in asked : k = n - i
      BY <3>2
    <3>4. \A j \in asked : n - i <= n - j /\ i \in Int /\ j \in Int
      BY <1>2, <3>2, <3>3
    <3>5. \A j \in asked : i >= j
      BY <3>4
    <3>6. QED
      BY <3>5
  <2> HIDE DEF asked
  <2>2. QED
    BY <2>1 DEF Max
<1>4. CASE asked = {}
  BY <1>4, EmptySeq DEF UserMessage
<1>5. CASE asked # {}
  <2>1. Max(asked) \in 1..n
    BY <1>2, <1>3, <1>5
  <2>2. h[Max(asked)].text \in Seq(Chars)
    BY <1>2, <2>1 DEF ContextMessages
  <2>3. QED
    BY <1>5, <2>2 DEF UserMessage
<1>6. QED
  BY <1>4, <1>5

(***************************************************************************)
(* What is said                                                            *)
(***************************************************************************)
Symbols == Chars \cup Nat \cup {"t"}
EventNames == {"token", "tool_call_start", "tool_call_delta", "tool_call_end", "tool_result",
               "metadata", "done", "aborted", "rate_limited", "error"}
LlmEvents == [event : EventNames, id : Nat, data : Seq(Symbols)]
LetterTurn == [c \in Symbols |-> IF c # " " THEN <<c>> ELSE <<>>]
SayTurn == [e \in LlmEvents |-> IF e.event = "token" THEN e.data ELSE <<>>]

LEMMA LenIs == ASSUME NEW S, NEW n \in Nat, NEW e \in [1..n -> S] PROVE e \in Seq(S) /\ Len(e) = n
OBVIOUS

LEMMA OneElement == ASSUME NEW S, NEW x \in S PROVE <<x>> \in Seq(S)
OBVIOUS

LEMMA SymbolsOf == \A s \in Seq(Chars) : s \in Seq(Symbols)
<1>1. Chars \subseteq Symbols
  BY DEF Symbols
<1>2. QED
  BY <1>1, SeqMonotonic

LEMMA SaidTurns == LetterTurn \in Turns(Symbols, Symbols) /\ SayTurn \in Turns(LlmEvents, Symbols)
<1>1. \A c \in Symbols : <<c>> \in Seq(Symbols)
  OBVIOUS
<1>2. <<>> \in Seq(Symbols)
  OBVIOUS
<1>3. QED
  BY <1>1, <1>2 DEF LetterTurn, SayTurn, Turns, LlmEvents

LEMMA LettersIs == ASSUME NEW s \in Seq(Symbols) PROVE Letters(s) = Through(LetterTurn, s)
<1>1. PICK n \in Nat : DOMAIN s = 1..n /\ \A i \in 1..n : s[i] \in Symbols
  BY LenProperties, ElementOfSeq
<1>2. QED
  BY <1>1 DEF Letters, Picked, Through, Each, LetterTurn

LEMMA SaidIs == ASSUME NEW s \in Seq(LlmEvents) PROVE Said(s) = Through(SayTurn, s)
<1>1. PICK n \in Nat : DOMAIN s = 1..n /\ \A i \in 1..n : s[i] \in LlmEvents
  BY LenProperties, ElementOfSeq
<1>2. QED
  BY <1>1 DEF Said, Through, Each, SayTurn

LEMMA LettersConcat ==
    ASSUME NEW a \in Seq(Symbols), NEW b \in Seq(Symbols)
    PROVE  Letters(a \o b) = Letters(a) \o Letters(b) /\ Letters(a) \in Seq(Symbols)
<1>1. a \o b \in Seq(Symbols)
  BY ConcatProperties
<1>2. Through(LetterTurn, a \o b) = Through(LetterTurn, a) \o Through(LetterTurn, b)
  BY SaidTurns, ThroughConcat
<1>3. Through(LetterTurn, a) \in Seq(Symbols)
  BY SaidTurns, ThroughType
<1>4. QED
  BY <1>1, <1>2, <1>3, LettersIs

LEMMA SaidConcat ==
    ASSUME NEW a \in Seq(LlmEvents), NEW b \in Seq(LlmEvents)
    PROVE  Said(a \o b) = Said(a) \o Said(b) /\ Said(a) \in Seq(Symbols)
<1>1. a \o b \in Seq(LlmEvents)
  BY ConcatProperties
<1>2. Through(SayTurn, a \o b) = Through(SayTurn, a) \o Through(SayTurn, b)
  BY SaidTurns, ThroughConcat
<1>3. Through(SayTurn, a) \in Seq(Symbols)
  BY SaidTurns, ThroughType
<1>4. QED
  BY <1>1, <1>2, <1>3, SaidIs

LEMMA SaidOne ==
    ASSUME NEW e \in LlmEvents
    PROVE  Said(<<e>>) = IF e.event = "token" THEN e.data ELSE <<>>
<1>1. <<e>> \in Seq(LlmEvents)
  OBVIOUS
<1>2. Through(SayTurn, <<e>>) = SayTurn[e]
  BY SaidTurns, ThroughOne
<1>3. QED
  BY <1>1, <1>2, SaidIs DEF SayTurn

LEMMA NothingSaid == Said(<<>>) = <<>> /\ Letters(<<>>) = <<>> /\ Letters(<<" ">>) = <<>>
<1>1. /\ <<>> \in Seq(LlmEvents) /\ <<>> \in Seq(Symbols) /\ " " \in Symbols
      /\ <<" ">> \in Seq(Symbols)
  <2>1. " " \in Chars
    BY LlmAssumption
  <2>2. " " \in Symbols
    BY <2>1, Zenon DEF Symbols
  <2>3. QED
    BY <2>2, EmptySeq, OneElement
<1>2. Through(LetterTurn, <<" ">>) = LetterTurn[" "]
  BY <1>1, SaidTurns, ThroughOne
<1>3. QED
  BY <1>1, <1>2, SaidIs, LettersIs, ThroughNone DEF LetterTurn

LEMMA EvType ==
    ASSUME NEW name \in EventNames, NEW id \in Nat, NEW s \in Seq(Symbols)
    PROVE  /\ Ev(name, id, s) \in LlmEvents
           /\ Ev(name, id, s).event = name /\ Ev(name, id, s).id = id /\ Ev(name, id, s).data = s
BY DEF Ev, LlmEvents

LEMMA TokenType ==
    ASSUME NEW s \in Seq(Symbols)
    PROVE  Token(s) \in LlmEvents /\ Token(s).event = "token" /\ Token(s).data = s
<1>1. "token" \in EventNames /\ 0 \in Nat
  BY DEF EventNames
<1>2. QED
  BY <1>1, EvType DEF Token

(***************************************************************************)
(* Recited replies                                                         *)
(***************************************************************************)
LEMMA SplitKeeps ==
    ASSUME NEW t \in Seq(Seq(Chars)), NEW c \in Chars
    PROVE  Split(t, c) \in Seq(Seq(Chars)) /\ FlattenSeq(Split(t, c)) = FlattenSeq(t) \o <<c>>
<1>1. PICK one \in Seq(Chars) : one = <<c>>
  BY OneElement
<1>2. CASE c = " " \/ t = <<>> \/ Last(t) = <<" ">>
  <2>1. Split(t, c) = Append(t, one)
    BY <1>1, <1>2 DEF Split
  <2>2. Append(t, one) \in Seq(Seq(Chars)) /\ FlattenSeq(Append(t, one)) = FlattenSeq(t) \o one
    BY AppendProperties, FlattenAppend
  <2>3. QED
    BY <1>1, <2>1, <2>2
<1>3. CASE ~(c = " " \/ t = <<>> \/ Last(t) = <<" ">>)
  <2>1. PICK r \in Seq(Seq(Chars)), x \in Seq(Chars) : t = Append(r, x)
    BY <1>3, SequenceEmptyOrAppend
  <2>2. Last(t) = x /\ Front(t) = r
    BY <2>1, LastOfAppend
  <2>3. PICK y \in Seq(Chars) : y = Append(x, c)
    BY AppendProperties
  <2>4. Split(t, c) = Append(r, y)
    BY <1>3, <2>2, <2>3 DEF Split
  <2>5. Append(r, y) \in Seq(Seq(Chars))
    BY AppendProperties
  <2>6. FlattenSeq(Append(r, y)) = FlattenSeq(r) \o y /\ FlattenSeq(t) = FlattenSeq(r) \o x
    BY <2>1, FlattenAppend
  <2>7. PICK f \in Seq(Chars) : f = FlattenSeq(r)
    BY FlattenType
  <2>8. y = x \o one
    BY <1>1, <2>3, AppendIsConcat
  <2>9. (f \o x) \o one = f \o (x \o one)
    BY ConcatAssociative, SMTT(30)
  <2>10. QED
    BY <1>1, <2>4, <2>5, <2>6, <2>7, <2>8, <2>9
<1>4. QED
  BY <1>2, <1>3

\* Cutting a text into tokens loses none of it.
LEMMA TokenizeKeeps ==
    ASSUME NEW chars \in Seq(Chars)
    PROVE  Tokenize(chars) \in Seq(Seq(Chars)) /\ FlattenSeq(Tokenize(chars)) = chars
<1>1. PICK n \in Nat : n = Len(chars) /\ \A k \in 1..n : chars[k] \in Chars
  BY LenProperties, ElementOfSeq
<1> DEFINE round == [p \in Seq(Seq(Chars)) \X (1..n) |-> Split(p[1], chars[p[2]])]
           Is(f) == f = [i \in 0..n |-> IF i = 0 THEN <<>> ELSE Split(f[i - 1], chars[i])]
           cut == CHOOSE f : Is(f)
<1>2. round \in Loops(n, Seq(Seq(Chars)))
  <2>1. ASSUME NEW p \in Seq(Seq(Chars)) \X (1..n) PROVE Split(p[1], chars[p[2]]) \in Seq(Seq(Chars))
    BY <1>1, SplitKeeps
  <2>2. QED
    BY <2>1 DEF Loops
<1>3. <<>> \in Seq(Seq(Chars))
  OBVIOUS
<1>4. PICK g : IsRun(g, n, Seq(Seq(Chars)), <<>>, round)
  <2> HIDE DEF round
  <2>1. QED
    BY <1>2, <1>3, LoopRuns
<1>5. g \in [0..n -> Seq(Seq(Chars))] /\ g[0] = <<>>
  BY <1>4 DEF IsRun
<1>6. ASSUME NEW k \in 1..n PROVE g[k] = Split(g[k - 1], chars[k])
  <2>1. k - 1 \in 0..n
    OBVIOUS
  <2>2. g[k] = round[<<g[k - 1], k>>] /\ g[k - 1] \in Seq(Seq(Chars))
    BY <1>4, <1>5, <2>1 DEF IsRun
  <2>3. QED
    BY <2>2
<1>7. Is(g)
  <2>1. \A i \in 0..n : i = 0 \/ i \in 1..n
    OBVIOUS
  <2>2. \A i \in 0..n : g[i] = IF i = 0 THEN <<>> ELSE Split(g[i - 1], chars[i])
    BY <1>5, <1>6, <2>1
  <2>3. g = [i \in 0..n |-> g[i]]
    BY <1>5
  <2>4. QED
    BY <2>2, <2>3
<1>8. Is(cut)
  <2> HIDE DEF Is
  <2>1. QED
    BY <1>7
<1>9. Tokenize(chars) = cut[n]
  BY <1>1 DEF Tokenize
<1> HIDE DEF cut
<1>10. cut[0] = <<>> /\ \A k \in 1..n : cut[k] = Split(cut[k - 1], chars[k])
  <2>1. PICK f : f = cut
    OBVIOUS
  <2>2. f = [i \in 0..n |-> IF i = 0 THEN <<>> ELSE Split(f[i - 1], chars[i])]
    BY <1>8, <2>1
  <2>3. 0 \in 0..n /\ \A k \in 1..n : k \in 0..n /\ k # 0
    OBVIOUS
  <2>4. QED
    BY <2>1, <2>2, <2>3
<1> HIDE DEF Is, round
<1> DEFINE T == {k \in 0..n : cut[k] \in Seq(Seq(Chars)) /\ FlattenSeq(cut[k]) = SubSeq(chars, 1, k)}
<1>11. 0 \in T
  <2>1. 0 \in 0..n /\ 0 < 1 /\ 0 \in Int /\ 1 \in Int
    OBVIOUS
  <2>2. SubSeq(chars, 1, 0) = <<>>
    BY <2>1, SubSeqEmpty
  <2>3. QED
    BY <1>3, <1>10, <2>1, <2>2, FlattenNone
<1>12. ASSUME NEW k \in 0..(n - 1), k \in T PROVE k + 1 \in T
  <2>1. k + 1 \in 1..n /\ k + 1 \in 0..n /\ (k + 1) - 1 = k /\ 1 \in 1..n /\ k + 1 \in 1..n
    OBVIOUS
  <2>2. PICK t \in Seq(Seq(Chars)) : t = cut[k] /\ FlattenSeq(t) = SubSeq(chars, 1, k)
    BY <1>12
  <2>3. PICK c \in Chars : c = chars[k + 1]
    BY <1>1, <2>1
  <2>4. cut[k + 1] = Split(t, c)
    BY <1>10, <2>1, <2>2, <2>3
  <2>5. Split(t, c) \in Seq(Seq(Chars)) /\ FlattenSeq(Split(t, c)) = FlattenSeq(t) \o <<c>>
    BY SplitKeeps
  <2>6. SubSeq(chars, 1, k + 1) = SubSeq(chars, 1, k) \o <<c>>
    <3>1. SubSeq(chars, 1, k + 1) = SubSeq(chars, 1, (k + 1) - 1) \o <<chars[k + 1]>>
      BY <1>1, <2>1, SubSeqRecursiveSecond
    <3>2. QED
      BY <2>1, <2>3, <3>1
  <2>7. QED
    BY <2>1, <2>2, <2>4, <2>5, <2>6
<1>13. n \in T
  <2> HIDE DEF T
  <2>1. \A k \in 0..n : k \in T
    BY <1>11, <1>12, Induction
  <2>2. QED
    BY <2>1
<1>14. SubSeq(chars, 1, n) = chars
  BY <1>1, SubSeqFull
<1>15. QED
  BY <1>9, <1>13, <1>14

\* What the echo says: words with a blank before each but the first.
Spaced(words) == [i \in DOMAIN words |-> Token(IF i = 1 THEN words[i] ELSE <<" ">> \o words[i])]
WordTurn == [w \in Seq(Chars) |-> IF w # <<" ">> THEN <<w>> ELSE <<>>]

LEMMA WordTurns == WordTurn \in Turns(Seq(Chars), Seq(Chars))
<1>1. \A w \in Seq(Chars) : <<w>> \in Seq(Seq(Chars))
  BY OneElement
<1>2. <<>> \in Seq(Seq(Chars))
  BY EmptySeq
<1>3. QED
  BY <1>1, <1>2 DEF WordTurn, Turns

LEMMA BlankSaysNothing ==
    ASSUME NEW x \in Seq(Symbols)
    PROVE  <<" ">> \o x \in Seq(Symbols) /\ Letters(<<" ">> \o x) = Letters(x)
<1>1. PICK blank \in Seq(Symbols) : blank = <<" ">>
  <2>1. " " \in Symbols
    BY LlmAssumption, Zenon DEF Symbols
  <2>2. QED
    BY <2>1, OneElement
<1>2. Letters(blank \o x) = Letters(blank) \o Letters(x) /\ Letters(x) \in Seq(Symbols)
  BY LettersConcat
<1>3. Letters(blank) = <<>>
  BY <1>1, NothingSaid
<1>4. <<>> \o Letters(x) = Letters(x)
  BY <1>2, ConcatEmptySeq
<1>5. blank \o x \in Seq(Symbols)
  BY ConcatProperties
<1>6. QED
  BY <1>1, <1>2, <1>3, <1>4, <1>5

LEMMA SpacedAppend ==
    ASSUME NEW w \in Seq(Seq(Chars)), NEW x \in Seq(Chars), Spaced(w) \in Seq(LlmEvents)
    PROVE  \E y \in Seq(Symbols) : /\ Letters(y) = Letters(x)
                                   /\ Spaced(Append(w, x)) = Append(Spaced(w), Token(y))
<1>1. PICK n \in Nat : n = Len(w) /\ DOMAIN w = 1..n
  BY LenProperties
<1>2. PICK v \in Seq(Seq(Chars)) : v = Append(w, x)
  BY AppendProperties
<1>3. Len(v) = n + 1 /\ DOMAIN v = 1..(n + 1) /\ v[n + 1] = x /\ \A i \in 1..n : v[i] = w[i]
  BY <1>1, <1>2, AppendProperties, LenProperties
<1>4. x \in Seq(Symbols)
  BY SymbolsOf
<1>5. PICK y \in Seq(Symbols) : /\ Letters(y) = Letters(x)
                                /\ y = IF n + 1 = 1 THEN x ELSE <<" ">> \o x
  BY <1>4, BlankSaysNothing
<1>6. PICK e \in Seq(LlmEvents) : e = Spaced(w)
  OBVIOUS
<1>7. e = [i \in 1..n |-> Token(IF i = 1 THEN w[i] ELSE <<" ">> \o w[i])] /\ Len(e) = n
  <2>1. e = [i \in 1..n |-> Token(IF i = 1 THEN w[i] ELSE <<" ">> \o w[i])]
    BY <1>1, <1>6 DEF Spaced
  <2>2. e \in [DOMAIN e -> LlmEvents] /\ DOMAIN e = 1..n
    BY <2>1, LenProperties
  <2>3. QED
    BY <1>1, <2>1, <2>2, LenIs
<1>8. PICK t \in LlmEvents : t = Token(y)
  BY TokenType
<1>9. PICK f \in Seq(LlmEvents) : f = Append(e, t)
  BY AppendProperties
<1>10. /\ Len(f) = n + 1 /\ f[n + 1] = t /\ \A i \in 1..n : f[i] = e[i]
       /\ f = [i \in 1..(n + 1) |-> f[i]]
  <2>1. /\ Len(f) = Len(e) + 1 /\ f[Len(e) + 1] = t
        /\ \A i \in 1..Len(e) : f[i] = e[i]
    BY <1>9, AppendProperties
  <2>2. f \in [1..Len(f) -> LlmEvents]
    BY LenProperties
  <2>3. Len(e) = n
    BY <1>7
  <2>4. Len(f) = n + 1 /\ f[n + 1] = t /\ \A i \in 1..n : f[i] = e[i]
    BY <2>1, <2>3
  <2>5. f \in [1..(n + 1) -> LlmEvents]
    BY <2>2, <2>4
  <2>6. QED
    BY <2>4, <2>5
<1>11. PICK g : g = [i \in 1..(n + 1) |-> Token(IF i = 1 THEN v[i] ELSE <<" ">> \o v[i])]
  OBVIOUS
<1>12. ASSUME NEW i \in 1..(n + 1) PROVE g[i] = f[i]
  <2>1. g[i] = Token(IF i = 1 THEN v[i] ELSE <<" ">> \o v[i])
    BY <1>11
  <2>2. CASE i \in 1..n
    <3>1. f[i] = Token(IF i = 1 THEN w[i] ELSE <<" ">> \o w[i])
      BY <1>7, <1>10, <2>2
    <3>2. v[i] = w[i]
      BY <1>3, <2>2
    <3>3. QED
      BY <2>1, <3>1, <3>2
  <2>3. CASE i = n + 1
    <3>1. v[i] = x /\ f[i] = Token(y)
      BY <1>3, <1>8, <1>10, <2>3
    <3>2. y = IF i = 1 THEN v[i] ELSE <<" ">> \o v[i]
      BY <1>5, <2>3, <3>1
    <3>3. QED
      BY <2>1, <3>1, <3>2
  <2>4. QED
    BY <2>2, <2>3
<1>13. f = g
  BY <1>10, <1>11, <1>12
<1>14. QED
  <2>1. Spaced(v) = g
    BY <1>3, <1>11 DEF Spaced
  <2>2. Spaced(Append(w, x)) = Append(Spaced(w), Token(y))
    BY <1>2, <1>6, <1>8, <1>9, <1>13, <2>1
  <2>3. QED
    BY <1>5, <2>2

LEMMA SaidAppend ==
    ASSUME NEW s \in Seq(LlmEvents), NEW y \in Seq(Symbols)
    PROVE  /\ Append(s, Token(y)) \in Seq(LlmEvents)
           /\ Said(Append(s, Token(y))) = Said(s) \o y
<1>1. PICK e \in LlmEvents : e = Token(y) /\ e.event = "token" /\ e.data = y
  BY TokenType
<1>2. PICK one \in Seq(LlmEvents) : one = <<e>>
  BY OneElement
<1>3. Append(s, e) = s \o one /\ Append(s, e) \in Seq(LlmEvents)
  BY <1>2, AppendIsConcat, AppendProperties
<1>4. Said(s \o one) = Said(s) \o Said(one) /\ Said(one) = y
  BY <1>1, <1>2, SaidConcat, SaidOne
<1>5. QED
  BY <1>1, <1>3, <1>4

LEMMA SpacedSays ==
    ASSUME NEW w \in Seq(Seq(Chars))
    PROVE  Spaced(w) \in Seq(LlmEvents) /\ Letters(Said(Spaced(w))) = Letters(FlattenSeq(w))
<1> DEFINE P == {v \in Seq(Seq(Chars)) : /\ Spaced(v) \in Seq(LlmEvents)
                                         /\ Letters(Said(Spaced(v))) = Letters(FlattenSeq(v))}
<1>1. <<>> \in P
  <2>1. Spaced(<<>>) = <<>> /\ <<>> \in Seq(LlmEvents) /\ <<>> \in Seq(Seq(Chars))
    BY EmptySeq DEF Spaced
  <2>2. QED
    BY <2>1, NothingSaid, FlattenNone
<1>2. ASSUME NEW v \in Seq(Seq(Chars)), NEW x \in Seq(Chars), v \in P PROVE Append(v, x) \in P
  <2>1. PICK s \in Seq(LlmEvents) : s = Spaced(v) /\ Letters(Said(s)) = Letters(FlattenSeq(v))
    BY <1>2
  <2>2. PICK y \in Seq(Symbols) : /\ Letters(y) = Letters(x)
                                  /\ Spaced(Append(v, x)) = Append(s, Token(y))
    BY <2>1, SpacedAppend
  <2>3. Append(s, Token(y)) \in Seq(LlmEvents) /\ Said(Append(s, Token(y))) = Said(s) \o y
    BY SaidAppend
  <2>4. PICK a \in Seq(Symbols) : a = Said(s)
    <3>1. Said(s) \in Seq(Symbols)
      BY SaidConcat
    <3>2. QED
      BY <3>1
  <2>5. Letters(a \o y) = Letters(a) \o Letters(y)
    BY LettersConcat
  <2>6. PICK b \in Seq(Symbols), z \in Seq(Symbols) : b = FlattenSeq(v) /\ z = x
    <3>1. FlattenSeq(v) \in Seq(Chars)
      BY FlattenType
    <3>2. QED
      BY <3>1, SymbolsOf
  <2>7. Letters(b \o z) = Letters(b) \o Letters(z)
    BY LettersConcat
  <2>8. FlattenSeq(Append(v, x)) = FlattenSeq(v) \o x /\ Append(v, x) \in Seq(Seq(Chars))
    BY FlattenAppend, AppendProperties
  <2>9. Letters(Said(Spaced(Append(v, x)))) = Letters(FlattenSeq(Append(v, x)))
    BY <2>1, <2>2, <2>3, <2>4, <2>5, <2>6, <2>7, <2>8
  <2>10. QED
    BY <2>2, <2>3, <2>8, <2>9
<1>3. w \in P
  <2> HIDE DEF P
  <2>1. QED
    BY <1>1, <1>2, EverySequence
<1>4. QED
  BY <1>3

LEMMA WordsKeepLetters ==
    ASSUME NEW t \in Seq(Seq(Chars))
    PROVE  /\ Through(WordTurn, t) \in Seq(Seq(Chars))
           /\ Letters(FlattenSeq(Through(WordTurn, t))) = Letters(FlattenSeq(t))
<1> DEFINE P == {v \in Seq(Seq(Chars)) :
                   Letters(FlattenSeq(Through(WordTurn, v))) = Letters(FlattenSeq(v))}
<1>1. <<>> \in P
  BY ThroughNone, EmptySeq
<1>2. ASSUME NEW v \in Seq(Seq(Chars)), NEW x \in Seq(Chars), v \in P PROVE Append(v, x) \in P
  <2>1. PICK u \in Seq(Seq(Chars)) : u = Through(WordTurn, v)
    BY WordTurns, ThroughType
  <2>2. Through(WordTurn, Append(v, x)) = u \o WordTurn[x]
    BY <2>1, WordTurns, ThroughAppend
  <2>3. PICK a \in Seq(Symbols), b \in Seq(Symbols), z \in Seq(Symbols) :
          a = FlattenSeq(u) /\ b = FlattenSeq(v) /\ z = x
    <3>1. FlattenSeq(u) \in Seq(Chars) /\ FlattenSeq(v) \in Seq(Chars)
      BY FlattenType
    <3>2. QED
      BY <3>1, SymbolsOf
  <2>4. FlattenSeq(Append(v, x)) = b \o z /\ Append(v, x) \in Seq(Seq(Chars))
    BY <2>3, FlattenAppend, AppendProperties
  <2>5. Letters(b \o z) = Letters(b) \o Letters(z) /\ Letters(a) = Letters(b)
    BY <1>2, <2>1, <2>3, LettersConcat
  <2>6. CASE x = <<" ">>
    <3>1. WordTurn[x] = <<>> /\ Letters(z) = <<>>
      BY <2>3, <2>6, NothingSaid DEF WordTurn
    <3>2. u \o <<>> = u
      BY ConcatEmptySeq
    <3>3. Letters(b) \o <<>> = Letters(b)
      <4>1. Letters(b) \in Seq(Symbols)
        BY LettersConcat
      <4>2. QED
        BY <4>1, ConcatEmptySeq
    <3>4. FlattenSeq(Through(WordTurn, Append(v, x))) = a
      BY <2>2, <2>3, <3>1, <3>2
    <3>5. QED
      BY <2>4, <2>5, <3>1, <3>3, <3>4
  <2>7. CASE x # <<" ">>
    <3>1. WordTurn[x] = <<x>>
      BY <2>7 DEF WordTurn
    <3>2. u \o <<x>> = Append(u, x)
      BY AppendIsConcat
    <3>3. FlattenSeq(Append(u, x)) = a \o z
      BY <2>3, FlattenAppend
    <3>4. Letters(a \o z) = Letters(a) \o Letters(z)
      BY LettersConcat
    <3>5. QED
      BY <2>2, <2>4, <2>5, <3>1, <3>2, <3>3, <3>4
  <2>8. QED
    BY <2>6, <2>7
<1>3. t \in P
  <2> HIDE DEF P
  <2>1. QED
    BY <1>1, <1>2, EverySequence
<1>4. QED
  BY <1>3, WordTurns, ThroughType

\* The echo's events say the letters of its reply.
LEMMA EchoSays ==
    ASSUME NEW chars \in Seq(Chars)
    PROVE  EchoWords(chars) \in Seq(LlmEvents) /\ Letters(Said(EchoWords(chars))) = Letters(chars)
<1>1. PICK t \in Seq(Seq(Chars)) : t = Tokenize(chars) /\ FlattenSeq(t) = chars
  BY TokenizeKeeps
<1>2. PICK w \in Seq(Seq(Chars)) : w = Through(WordTurn, t) /\ Letters(FlattenSeq(w)) = Letters(chars)
  BY <1>1, WordsKeepLetters
<1>3. Picked(t, {i \in DOMAIN t : t[i] # <<" ">>}) = w
  <2>1. PICK n \in Nat : DOMAIN t = 1..n /\ \A i \in 1..n : t[i] \in Seq(Chars)
    BY LenProperties, ElementOfSeq
  <2>2. QED
    BY <1>2, <2>1 DEF Picked, Through, Each, WordTurn
<1>4. EchoWords(chars) = Spaced(w)
  BY <1>1, <1>3 DEF EchoWords, Spaced
<1>5. QED
  BY <1>2, <1>4, SpacedSays

\* What joins have, their pieces having it, however many there are.
LEMMA FlattenIn ==
    ASSUME NEW S, NEW P, P \subseteq Seq(S), <<>> \in P, \A a, b \in P : a \o b \in P,
           NEW ss \in Seq(P)
    PROVE  FlattenSeq(ss) \in P
<1> DEFINE Q == {t \in Seq(P) : FlattenSeq(t) \in P}
<1>1. <<>> \in Q
  BY FlattenNone, EmptySeq
<1>2. ASSUME NEW t \in Seq(P), NEW x \in P, t \in Q PROVE Append(t, x) \in Q
  <2>1. t \in Seq(Seq(S)) /\ x \in Seq(S)
    BY SeqMonotonic
  <2>2. PICK u \in Seq(Seq(S)), y \in Seq(S) : u = t /\ y = x
    BY <2>1
  <2>3. FlattenSeq(Append(u, y)) = FlattenSeq(u) \o y
    BY FlattenAppend
  <2>4. Append(t, x) \in Seq(P)
    BY AppendProperties
  <2>5. QED
    BY <1>2, <2>2, <2>3, <2>4
<1>3. ss \in Q
  <2> HIDE DEF Q
  <2>1. QED
    BY <1>1, <1>2, EverySequence
<1>4. QED
  BY <1>3

\* Every end in b has its start before it, in b or in a.
OpensAfter(a, b) ==
  \A j \in DOMAIN b : b[j].event = "tool_call_end" =>
    \/ \E i \in 1 .. (j - 1) : b[i].event = "tool_call_start" /\ b[i].id = b[j].id
    \/ \E i \in DOMAIN a : a[i].event = "tool_call_start" /\ a[i].id = b[j].id

LEMMA OpensConcat ==
    ASSUME NEW a \in Seq(LlmEvents), NEW b \in Seq(LlmEvents), OpensFirst(a), OpensAfter(a, b)
    PROVE  OpensFirst(a \o b)
<1>1. PICK m \in Nat : m = Len(a) /\ DOMAIN a = 1..m
  BY LenProperties
<1>2. PICK n \in Nat : n = Len(b) /\ DOMAIN b = 1..n
  BY LenProperties
<1>3. PICK c \in Seq(LlmEvents) : c = a \o b
  BY ConcatProperties
<1>4. DOMAIN c = 1..(m + n) /\ \A i \in 1..(m + n) : c[i] = IF i <= m THEN a[i] ELSE b[i - m]
  <2>1. Len(c) = Len(a) + Len(b)
    BY <1>3, ConcatProperties
  <2>2. \A i \in 1..(Len(a) + Len(b)) : c[i] = IF i <= Len(a) THEN a[i] ELSE b[i - Len(a)]
    BY <1>3, ConcatProperties
  <2>3. DOMAIN c = 1..Len(c)
    BY LenProperties
  <2>4. QED
    BY <1>1, <1>2, <2>1, <2>2, <2>3
<1>5. ASSUME NEW j \in 1..(m + n), c[j].event = "tool_call_end"
      PROVE  \E i \in 1 .. (j - 1) : c[i].event = "tool_call_start" /\ c[i].id = c[j].id
  <2>1. CASE j <= m
    <3>1. j \in 1..m /\ c[j] = a[j]
      BY <1>4, <2>1
    <3>2. PICK i \in 1..(j - 1) : a[i].event = "tool_call_start" /\ a[i].id = a[j].id
      BY <1>1, <1>5, <3>1 DEF OpensFirst
    <3>3. i \in 1..(m + n) /\ i <= m
      BY <3>1
    <3>4. c[i] = a[i]
      BY <1>4, <3>3
    <3>5. QED
      BY <3>1, <3>2, <3>4
  <2>2. CASE ~(j <= m)
    <3>1. j - m \in 1..n
      BY <2>2
    <3>2. c[j] = b[j - m]
      BY <1>4, <2>2
    <3>3. CASE \E i \in 1..((j - m) - 1) : b[i].event = "tool_call_start" /\ b[i].id = b[j - m].id
      <4>1. PICK i \in 1..((j - m) - 1) : b[i].event = "tool_call_start" /\ b[i].id = b[j - m].id
        BY <3>3
      <4>2. i + m \in 1..(j - 1) /\ i + m \in 1..(m + n) /\ ~(i + m <= m) /\ (i + m) - m = i
        BY <3>1
      <4>3. c[i + m] = b[i]
        BY <1>4, <4>2
      <4>4. QED
        BY <3>2, <4>1, <4>2, <4>3
    <3>4. CASE \E i \in DOMAIN a : a[i].event = "tool_call_start" /\ a[i].id = b[j - m].id
      <4>1. PICK i \in 1..m : a[i].event = "tool_call_start" /\ a[i].id = b[j - m].id
        BY <1>1, <3>4
      <4>2. i \in 1..(j - 1) /\ i \in 1..(m + n) /\ i <= m
        BY <2>2
      <4>3. c[i] = a[i]
        BY <1>4, <4>2
      <4>4. QED
        BY <3>2, <4>1, <4>2, <4>3
    <3>5. b[j - m].event = "tool_call_end"
      BY <1>5, <3>2
    <3>6. QED
      BY <1>2, <3>1, <3>3, <3>4, <3>5 DEF OpensAfter
  <2>3. QED
    BY <2>1, <2>2
<1>6. OpensFirst(c)
  BY <1>4, <1>5 DEF OpensFirst
<1>7. QED
  BY <1>3, <1>6

Opened == {s \in Seq(LlmEvents) : OpensFirst(s)}

LEMMA OpenedJoin == ASSUME NEW a \in Opened, NEW b \in Opened PROVE a \o b \in Opened
<1>1. a \in Seq(LlmEvents) /\ b \in Seq(LlmEvents) /\ OpensFirst(a) /\ OpensFirst(b)
  BY DEF Opened
<1>2. OpensAfter(a, b)
  BY <1>1 DEF OpensAfter, OpensFirst
<1>3. a \o b \in Seq(LlmEvents)
  BY <1>1, ConcatProperties
<1>4. QED
  BY <1>1, <1>2, <1>3, OpensConcat DEF Opened

\* An event that ends no call.
LEMMA OpenedOne ==
    ASSUME NEW e \in LlmEvents, e.event # "tool_call_end"
    PROVE  <<e>> \in Opened
<1>1. PICK s \in Seq(LlmEvents) : s = <<e>>
  BY OneElement
<1>2. DOMAIN s = {1} /\ s[1] = e
  BY <1>1
<1>3. OpensFirst(s)
  BY <1>2 DEF OpensFirst
<1>4. QED
  BY <1>1, <1>3 DEF Opened

LEMMA OpenedAppend ==
    ASSUME NEW s \in Opened, NEW e \in LlmEvents, e.event # "tool_call_end"
    PROVE  Append(s, e) \in Opened
<1>1. s \in Seq(LlmEvents)
  BY DEF Opened
<1>2. Append(s, e) = s \o <<e>>
  BY <1>1, AppendIsConcat
<1>3. QED
  BY <1>2, OpenedOne, OpenedJoin

LEMMA OpenedNone == <<>> \in Opened
<1>1. OpensFirst(<<>>)
  BY DEF OpensFirst
<1>2. QED
  BY <1>1, EmptySeq DEF Opened

\* The first events of a sequence that opens its calls.
LEMMA OpenedPrefix ==
    ASSUME NEW s \in Opened, NEW n \in 0..Len(s)
    PROVE  SubSeq(s, 1, n) \in Opened
<1>1. PICK t \in Seq(LlmEvents) : t = s /\ OpensFirst(t)
  BY DEF Opened
<1>2. PICK m \in Nat : m = Len(t) /\ DOMAIN t = 1..m /\ \A i \in 1..m : t[i] \in LlmEvents
  BY LenProperties, ElementOfSeq
<1>3. n \in 0..m /\ n \in Int /\ 1 \in Int /\ \A i \in 1..n : i \in 1..m
  BY <1>1, <1>2
<1>4. PICK u \in Seq(LlmEvents) : u = SubSeq(t, 1, n) /\ Len(u) = n /\ \A i \in 1..n : u[i] = t[i]
  <2>1. \A i \in 1..n : t[i] \in LlmEvents
    BY <1>2, <1>3
  <2>2. /\ SubSeq(t, 1, n) \in Seq(LlmEvents)
        /\ Len(SubSeq(t, 1, n)) = IF 1 <= n THEN n - 1 + 1 ELSE 0
        /\ \A i \in 1..(n - 1 + 1) : SubSeq(t, 1, n)[i] = t[1 + i - 1]
    BY <1>3, <2>1, SubSeqProperties
  <2>3. n \in Nat /\ n - 1 + 1 = n /\ \A i \in 1..n : 1 + i - 1 = i
    BY <1>2, <1>3
  <2>4. PICK u \in Seq(LlmEvents) : u = SubSeq(t, 1, n)
    BY <2>2
  <2>5. Len(u) = n
    BY <2>2, <2>3, <2>4
  <2>6. \A i \in 1..n : u[i] = t[i]
    BY <2>2, <2>3, <2>4
  <2>7. QED
    BY <2>4, <2>5, <2>6
<1>5. DOMAIN u = 1..n
  BY <1>4, LenProperties
<1>6. OpensFirst(u)
  <2>1. ASSUME NEW j \in 1..n, u[j].event = "tool_call_end"
        PROVE  \E i \in 1..(j - 1) : u[i].event = "tool_call_start" /\ u[i].id = u[j].id
    <3>1. j \in 1..m /\ u[j] = t[j]
      BY <1>3, <1>4
    <3>2. PICK i \in 1..(j - 1) : t[i].event = "tool_call_start" /\ t[i].id = t[j].id
      BY <1>1, <1>2, <2>1, <3>1 DEF OpensFirst
    <3>3. u[i] = t[i]
      BY <1>3, <1>4, <3>2
    <3>4. QED
      BY <3>1, <3>2, <3>3
  <2>2. QED
    BY <1>5, <2>1 DEF OpensFirst
<1>7. QED
  BY <1>1, <1>4, <1>6 DEF Opened

LEMMA MockWordsSay ==
    ASSUME NEW chars \in Seq(Chars)
    PROVE  MockWords(chars) \in Opened /\ Said(MockWords(chars)) = chars
<1>1. PICK t \in Seq(Seq(Chars)) : t = Tokenize(chars) /\ FlattenSeq(t) = chars
  BY TokenizeKeeps
<1>2. PICK n \in Nat : n = Len(t) /\ DOMAIN t = 1..n /\ \A i \in 1..n : t[i] \in Seq(Chars)
  BY LenProperties, ElementOfSeq
<1>3. \A i \in 1..n : /\ Token(t[i]) \in LlmEvents /\ Token(t[i]).event = "token"
                      /\ Token(t[i]).data = t[i]
  BY <1>2, SymbolsOf, TokenType
<1>4. PICK e : e = [i \in 1..n |-> Token(t[i])]
  OBVIOUS
<1>5. e \in [1..n -> LlmEvents]
  BY <1>3, <1>4
<1>6. e \in Seq(LlmEvents) /\ DOMAIN e = 1..n
  BY <1>5, LenIs
<1>7. MockWords(chars) = e
  BY <1>1, <1>2, <1>4 DEF MockWords
<1>8. OpensFirst(e)
  BY <1>3, <1>4, <1>6 DEF OpensFirst
<1>9. Said(e) = FlattenSeq(t)
  <2>1. \A i \in 1..n : e[i].event = "token" /\ e[i].data = t[i]
    BY <1>3, <1>4
  <2>2. [i \in DOMAIN e |-> IF e[i].event = "token" THEN e[i].data ELSE <<>>] = [i \in 1..n |-> t[i]]
    BY <1>6, <2>1
  <2>3. [i \in 1..n |-> t[i]] = t
    <3>1. t \in [1..n -> Seq(Chars)]
      BY <1>2, LenProperties
    <3>2. QED
      BY <3>1
  <2>4. QED
    BY <2>2, <2>3 DEF Said
<1>10. QED
  BY <1>1, <1>6, <1>7, <1>8, <1>9 DEF Opened

\* A step of a recited script that tells of a call says nothing.
Silent == {s \in Opened : Said(s) = <<>>}

LEMMA SilentJoin == <<>> \in Silent /\ \A a, b \in Silent : a \o b \in Silent
<1>1. <<>> \in Silent
  BY OpenedNone, NothingSaid DEF Silent
<1>2. ASSUME NEW a \in Silent, NEW b \in Silent PROVE a \o b \in Silent
  <2>1. a \in Opened /\ b \in Opened /\ Said(a) = <<>> /\ Said(b) = <<>>
    BY DEF Silent
  <2>2. a \in Seq(LlmEvents) /\ b \in Seq(LlmEvents)
    BY <2>1 DEF Opened
  <2>3. Said(a \o b) = Said(a) \o Said(b)
    BY <2>2, SaidConcat
  <2>4. <<>> \o <<>> = <<>>
    OBVIOUS
  <2>5. a \o b \in Opened
    BY <2>1, OpenedJoin
  <2>6. QED
    BY <2>1, <2>3, <2>4, <2>5 DEF Silent
<1>3. QED
  BY <1>1, <1>2

LEMMA MockCallSilent == ASSUME NEW i \in Nat PROVE MockCall(i) \in Silent
<1>1. PICK one \in Seq(Symbols) : one = <<i>>
  <2>1. i \in Symbols
    BY DEF Symbols
  <2>2. QED
    BY <2>1, OneElement
<1>2. PICK a \in LlmEvents : a = Ev("tool_call_start", i, <<>>) /\ a.event = "tool_call_start"
        /\ a.id = i
  <2>1. PICK none \in Seq(Symbols) : none = <<>>
    BY EmptySeq
  <2>2. "tool_call_start" \in EventNames
    BY DEF EventNames
  <2>3. PICK a \in LlmEvents : a = Ev("tool_call_start", i, none) /\ a.event = "tool_call_start"
          /\ a.id = i
    BY <2>2, EvType
  <2>4. QED
    BY <2>1, <2>3
<1>3. PICK b \in LlmEvents : b = Ev("tool_call_end", i, one) /\ b.event = "tool_call_end" /\ b.id = i
  <2>1. "tool_call_end" \in EventNames
    BY DEF EventNames
  <2>2. QED
    BY <2>1, EvType
<1>4. PICK c \in LlmEvents : c = Ev("tool_result", i, one) /\ c.event = "tool_result"
  <2>1. "tool_result" \in EventNames
    BY DEF EventNames
  <2>2. QED
    BY <2>1, EvType
<1>5. PICK s : s = <<a, b, c>>
  OBVIOUS
<1>6. s \in Seq(LlmEvents) /\ DOMAIN s = {1, 2, 3} /\ s[1] = a /\ s[2] = b /\ s[3] = c
  BY <1>5
<1>7. OpensFirst(s)
  <2>1. 1 \in 1..(2 - 1)
    OBVIOUS
  <2>2. ASSUME NEW j \in DOMAIN s, s[j].event = "tool_call_end" PROVE j = 2
    BY <1>2, <1>4, <1>6, <2>2
  <2>3. QED
    BY <1>2, <1>3, <1>6, <2>1, <2>2 DEF OpensFirst
<1>8. Said(s) = <<>>
  <2>1. PICK none : none = <<<<>>, <<>>, <<>>>>
    OBVIOUS
  <2>2. [i1 \in DOMAIN s |-> IF s[i1].event = "token" THEN s[i1].data ELSE <<>>]
        = [i1 \in {1, 2, 3} |-> <<>>]
    BY <1>2, <1>3, <1>4, <1>6
  <2>3. PICK f : f = [i1 \in {1, 2, 3} |-> <<>>]
    OBVIOUS
  <2>4. f \in Seq({<<>>})
    <3>1. f \in [1..3 -> {<<>>}]
      BY <2>3
    <3>2. QED
      BY <3>1, LenIs
  <2>5. FlattenSeq(f) \in {<<>>}
    <3>1. {<<>>} \subseteq Seq(Symbols) /\ \A u, v \in {<<>>} : u \o v \in {<<>>}
      BY EmptySeq
    <3>2. PICK P : P = {<<>>}
      OBVIOUS
    <3>3. FlattenSeq(f) \in P
      BY <2>4, <3>1, <3>2, FlattenIn
    <3>4. QED
      BY <3>2, <3>3
  <2>6. QED
    BY <2>2, <2>3, <2>5 DEF Said
<1>9. MockCall(i) = s
  BY <1>1, <1>2, <1>3, <1>4, <1>5 DEF MockCall
<1>10. QED
  BY <1>6, <1>7, <1>8, <1>9 DEF Silent, Opened

LEMMA MockScriptSays ==
    MockScript \in Opened /\ Said(MockScript) = MockText \o <<" ">> \o AfterTool
<1>1. MockText \in Seq(Chars) /\ AfterTool \in Seq(Chars) /\ MockCalls \in Nat
  BY LlmAssumption
<1>2. PICK a \in Opened : a = MockWords(MockText) /\ Said(a) = MockText
  BY <1>1, MockWordsSay
<1>3. PICK d \in Opened : d = MockWords(AfterTool) /\ Said(d) = AfterTool
  BY <1>1, MockWordsSay
<1>4. PICK b \in Silent : b = FlattenSeq([i \in 1..MockCalls |-> MockCall(i)])
  <2>1. PICK f : f = [i \in 1..MockCalls |-> MockCall(i)]
    OBVIOUS
  <2>2. f \in [1..MockCalls -> Silent]
    BY <1>1, <2>1, MockCallSilent
  <2>3. f \in Seq(Silent)
    BY <1>1, <2>2, LenIs
  <2>4. Silent \subseteq Seq(LlmEvents)
    BY DEF Silent, Opened
  <2>5. FlattenSeq(f) \in Silent
    BY <2>3, <2>4, SilentJoin, FlattenIn
  <2>6. QED
    BY <2>1, <2>5
<1>5. PICK blank \in Seq(Symbols) : blank = <<" ">>
  <2>1. " " \in Symbols
    BY LlmAssumption, Zenon DEF Symbols
  <2>2. QED
    BY <2>1, OneElement
<1>6. PICK e \in LlmEvents : e = MockBreak /\ e.event = "token" /\ e.data = blank
  <2>1. "token" \in EventNames /\ 1 \in Nat
    BY DEF EventNames
  <2>2. PICK e \in LlmEvents : e = Ev("token", 1, blank) /\ e.event = "token" /\ e.data = blank
    BY <2>1, EvType
  <2>3. QED
    BY <1>5, <2>2 DEF MockBreak
<1>7. PICK c \in Opened : c = <<e>> /\ Said(c) = blank
  <2>1. <<e>> \in Opened
    BY <1>6, OpenedOne
  <2>2. QED
    BY <1>6, <2>1, SaidOne
<1>8. /\ a \in Seq(LlmEvents) /\ b \in Opened /\ b \in Seq(LlmEvents) /\ Said(b) = <<>>
      /\ c \in Seq(LlmEvents) /\ d \in Seq(LlmEvents)
  BY DEF Silent, Opened
<1>9. PICK ab \in Opened : ab = a \o b /\ Said(ab) = MockText
  <2>1. Said(a \o b) = Said(a) \o Said(b)
    BY <1>8, SaidConcat
  <2>2. MockText \o <<>> = MockText
    BY <1>1, ConcatEmptySeq
  <2>3. a \o b \in Opened
    BY <1>8, OpenedJoin
  <2>4. QED
    BY <1>2, <1>8, <2>1, <2>2, <2>3
<1>10. PICK abc \in Opened : abc = ab \o c /\ Said(abc) = MockText \o blank
  <2>1. ab \in Seq(LlmEvents)
    BY DEF Opened
  <2>2. Said(ab \o c) = Said(ab) \o Said(c) /\ ab \o c \in Opened
    BY <1>8, <2>1, SaidConcat, OpenedJoin
  <2>3. QED
    BY <1>7, <1>9, <2>2
<1>11. PICK abcd \in Opened : abcd = abc \o d /\ Said(abcd) = (MockText \o blank) \o AfterTool
  <2>1. abc \in Seq(LlmEvents)
    BY DEF Opened
  <2>2. Said(abc \o d) = Said(abc) \o Said(d) /\ abc \o d \in Opened
    BY <1>8, <2>1, SaidConcat, OpenedJoin
  <2>3. QED
    BY <1>3, <1>10, <2>2
<1>12. MockScript = abcd
  BY <1>2, <1>3, <1>4, <1>6, <1>7, <1>9, <1>10, <1>11 DEF MockScript
<1>13. QED
  BY <1>5, <1>11, <1>12

LEMMA EchoOpens ==
    ASSUME NEW chars \in Seq(Chars)
    PROVE  EchoWords(chars) \in Opened
<1>1. EchoWords(chars) \in Seq(LlmEvents)
  BY EchoSays
<1>2. \A j \in DOMAIN EchoWords(chars) : EchoWords(chars)[j].event = "token"
  BY DEF EchoWords, Token, Ev
<1>3. OpensFirst(EchoWords(chars))
  BY <1>2 DEF OpensFirst
<1>4. QED
  BY <1>1, <1>3 DEF Opened

(***************************************************************************)
(* A vendor's calls                                                        *)
(***************************************************************************)
Places(s, name, i) == {j \in DOMAIN s : s[j].event = name /\ s[j].id = i}
VendorEvents == {e \in LlmEvents : /\ e.event # "tool_call_end"
                                   /\ e.event = "tool_call_start" => e.id \in CallIndexes}

LEMMA PlacesAppend ==
    ASSUME NEW s \in Seq(LlmEvents), NEW e \in LlmEvents, NEW name, NEW i
    PROVE  /\ Places(Append(s, e), name, i) =
                IF e.event = name /\ e.id = i THEN Places(s, name, i) \cup {Len(s) + 1}
                ELSE Places(s, name, i)
           /\ Places(s, name, i) \subseteq 1..Len(s)
<1>1. PICK n \in Nat : n = Len(s) /\ DOMAIN s = 1..n
  BY LenProperties
<1>2. PICK t \in Seq(LlmEvents) : t = Append(s, e)
  BY AppendProperties
<1>3. Len(t) = Len(s) + 1 /\ t[Len(s) + 1] = e /\ \A k \in 1..Len(s) : t[k] = s[k]
  BY <1>2, AppendProperties
<1>4. DOMAIN t = 1..(n + 1) /\ t[n + 1] = e /\ \A k \in 1..n : t[k] = s[k]
  BY <1>1, <1>3, LenProperties
<1>5. \A k \in 1..(n + 1) : k \in 1..n \/ k = n + 1
  OBVIOUS
<1>6. \A k \in Places(t, name, i) : k \in Places(s, name, i) \/ (k = n + 1 /\ e.event = name /\ e.id = i)
  BY <1>1, <1>4, <1>5 DEF Places
<1>7. \A k \in Places(s, name, i) : k \in Places(t, name, i)
  BY <1>1, <1>4 DEF Places
<1>8. e.event = name /\ e.id = i => n + 1 \in Places(t, name, i)
  BY <1>1, <1>4 DEF Places
<1>9. Places(s, name, i) \subseteq 1..n
  BY <1>1 DEF Places
<1>10. QED
  BY <1>1, <1>2, <1>6, <1>7, <1>8, <1>9

\* \o, where a lemma about it is to be applied and not computed.
Joined(a, b) == a \o b

LEMMA PlacesConcat ==
    ASSUME NEW a \in Seq(LlmEvents), NEW b \in Seq(LlmEvents),
           NEW name, NEW i, Places(a, name, i) = {}
    PROVE  /\ Places(b, name, i) = {} => Places(Joined(a, b), name, i) = {}
           /\ \A j \in DOMAIN b : Places(b, name, i) = {j} =>
                \E k \in DOMAIN Joined(a, b) : /\ Places(Joined(a, b), name, i) = {k}
                                              /\ Joined(a, b)[k] = b[j]
<1>1. PICK m \in Nat : m = Len(a) /\ DOMAIN a = 1..m
  BY LenProperties
<1>2. PICK n \in Nat : n = Len(b) /\ DOMAIN b = 1..n
  BY LenProperties
<1>3. PICK c \in Seq(LlmEvents) : c = a \o b
  BY ConcatProperties
<1>4. DOMAIN c = 1..(m + n) /\ \A k \in 1..(m + n) : c[k] = IF k <= m THEN a[k] ELSE b[k - m]
  <2>1. Len(c) = Len(a) + Len(b)
    BY <1>3, ConcatProperties
  <2>2. \A k \in 1..(Len(a) + Len(b)) : c[k] = IF k <= Len(a) THEN a[k] ELSE b[k - Len(a)]
    BY <1>3, ConcatProperties
  <2>3. DOMAIN c = 1..Len(c)
    BY LenProperties
  <2>4. QED
    BY <1>1, <1>2, <2>1, <2>2, <2>3
<1>5. ASSUME NEW k \in Places(c, name, i) PROVE k - m \in Places(b, name, i) /\ k \in Int
  <2>1. k \in 1..(m + n) /\ c[k].event = name /\ c[k].id = i
    BY <1>4 DEF Places
  <2>2. CASE k <= m
    <3>1. k \in DOMAIN a /\ c[k] = a[k]
      BY <1>1, <1>4, <2>1, <2>2
    <3>2. k \in Places(a, name, i)
      BY <2>1, <3>1 DEF Places
    <3>3. QED
      BY <3>2
  <2>3. CASE ~(k <= m)
    <3>1. k - m \in DOMAIN b /\ c[k] = b[k - m]
      BY <1>2, <1>4, <2>1, <2>3
    <3>2. QED
      BY <2>1, <3>1 DEF Places
  <2>4. QED
    BY <2>2, <2>3
<1>6. ASSUME NEW j \in Places(b, name, i)
      PROVE  m + j \in Places(c, name, i) /\ j \in Int /\ c[m + j] = b[j]
  <2>1. j \in 1..n /\ b[j].event = name /\ b[j].id = i
    BY <1>2 DEF Places
  <2>2. m + j \in 1..(m + n) /\ ~(m + j <= m) /\ (m + j) - m = j
    BY <2>1
  <2>3. c[m + j] = b[j]
    BY <1>4, <2>2
  <2>4. QED
    BY <1>4, <2>1, <2>2, <2>3 DEF Places
<1>7. ASSUME Places(b, name, i) = {} PROVE Places(c, name, i) = {}
  BY <1>5, <1>7
<1>8. ASSUME NEW j \in DOMAIN b, Places(b, name, i) = {j}
      PROVE  \E k \in DOMAIN c : Places(c, name, i) = {k} /\ c[k] = b[j]
  <2>1. m + j \in Places(c, name, i) /\ j \in Int /\ c[m + j] = b[j]
    BY <1>6, <1>8
  <2>2. \A k \in Places(c, name, i) : k - m = j /\ k \in Int
    BY <1>5, <1>8
  <2>3. \A k \in Places(c, name, i) : k = m + j
    BY <2>1, <2>2
  <2>4. Places(c, name, i) = {m + j} /\ m + j \in DOMAIN c
    BY <2>1, <2>3 DEF Places
  <2>5. QED
    BY <2>1, <2>4
<1>9. c = Joined(a, b)
  BY <1>3 DEF Joined
<1>10. QED
  BY <1>7, <1>8, <1>9

\* What is heard of the calls, and what is told of them before they end.
HeardCalls == [CallIndexes -> Seq(Nat)]
EndTurn(heard) ==
  [e \in VendorEvents |->
     IF e.event = "tool_call_start"
     THEN <<Ev("tool_call_end", e.id, ParsedArguments(heard[e.id]))>> ELSE <<>>]

LEMMA EndType ==
    ASSUME NEW heard \in HeardCalls, NEW i \in CallIndexes
    PROVE  /\ Ev("tool_call_end", i, ParsedArguments(heard[i])) \in LlmEvents
           /\ Ev("tool_call_end", i, ParsedArguments(heard[i])).event = "tool_call_end"
           /\ Ev("tool_call_end", i, ParsedArguments(heard[i])).id = i
           /\ Ev("tool_call_end", i, ParsedArguments(heard[i])).data = ParsedArguments(heard[i])
<1>1. PICK s \in Seq(Symbols) : s = ParsedArguments(heard[i])
  <2>1. heard[i] \in Seq(Nat)
    BY DEF HeardCalls
  <2>2. Nat \subseteq Symbols
    BY DEF Symbols
  <2>3. heard[i] \in Seq(Symbols)
    BY <2>1, <2>2, SeqMonotonic
  <2>4. <<>> \in Seq(Symbols)
    BY EmptySeq
  <2>5. QED
    BY <2>3, <2>4 DEF ParsedArguments
<1>2. i \in Nat /\ "tool_call_end" \in EventNames
  BY LlmAssumption DEF EventNames
<1>3. QED
  BY <1>1, <1>2, EvType

LEMMA EndTurns ==
    ASSUME NEW heard \in HeardCalls
    PROVE  EndTurn(heard) \in Turns(VendorEvents, LlmEvents)
<1>1. ASSUME NEW e \in VendorEvents, e.event = "tool_call_start"
      PROVE  <<Ev("tool_call_end", e.id, ParsedArguments(heard[e.id]))>> \in Seq(LlmEvents)
  <2>1. e.id \in CallIndexes
    BY <1>1 DEF VendorEvents
  <2>2. PICK f \in LlmEvents : f = Ev("tool_call_end", e.id, ParsedArguments(heard[e.id]))
    BY <2>1, EndType
  <2>3. QED
    BY <2>2, OneElement
<1>2. <<>> \in Seq(LlmEvents)
  BY EmptySeq
<1>3. QED
  BY <1>1, <1>2 DEF EndTurn, Turns

LEMMA EndsIs ==
    ASSUME NEW heard \in HeardCalls, NEW told \in Seq(VendorEvents)
    PROVE  Ends(heard, told) = Through(EndTurn(heard), told)
<1>1. PICK n \in Nat : DOMAIN told = 1..n /\ \A i \in 1..n : told[i] \in VendorEvents
  BY LenProperties, ElementOfSeq
<1>2. QED
  BY <1>1 DEF Ends, Through, Each, EndTurn

\* Calls that began once each end once each, each with what was heard of it.
EndsAs(heard, told, ends) ==
  /\ \A j \in DOMAIN ends : \E i \in DOMAIN told :
       told[i].event = "tool_call_start" /\ told[i].id = ends[j].id
  /\ \A i \in CallIndexes :
       /\ Places(told, "tool_call_start", i) = {} => Places(ends, "tool_call_end", i) = {}
       /\ (\E k : Places(told, "tool_call_start", i) = {k}) =>
            \E j \in DOMAIN ends : /\ Places(ends, "tool_call_end", i) = {j}
                                   /\ ends[j].data = ParsedArguments(heard[i])

LEMMA EndsAppend ==
    ASSUME NEW heard \in HeardCalls, NEW t \in Seq(VendorEvents), NEW x \in VendorEvents,
           NEW ends \in Seq(LlmEvents), EndsAs(heard, t, ends)
    PROVE  /\ ends \o EndTurn(heard)[x] \in Seq(LlmEvents)
           /\ EndsAs(heard, Append(t, x), ends \o EndTurn(heard)[x])
<1>1. t \in Seq(LlmEvents) /\ x \in LlmEvents
  <2>1. VendorEvents \subseteq LlmEvents
    BY DEF VendorEvents
  <2>2. QED
    BY <2>1, SeqMonotonic
<1>2. PICK n \in Nat : n = Len(t) /\ DOMAIN t = 1..n
  BY LenProperties
<1>3. PICK u \in Seq(LlmEvents) : u = Append(t, x)
  BY <1>1, AppendProperties
<1>4. DOMAIN u = 1..(n + 1) /\ u[n + 1] = x /\ \A k \in 1..n : u[k] = t[k]
  <2>1. Len(u) = Len(t) + 1 /\ u[Len(t) + 1] = x /\ \A k \in 1..Len(t) : u[k] = t[k]
    BY <1>1, <1>3, AppendProperties
  <2>2. QED
    BY <1>2, <2>1, LenProperties
<1>5. \A i : Places(u, "tool_call_start", i) =
               IF x.event = "tool_call_start" /\ x.id = i THEN Places(t, "tool_call_start", i) \cup {n + 1}
               ELSE Places(t, "tool_call_start", i)
  BY <1>1, <1>2, <1>3, PlacesAppend
<1>6. CASE x.event # "tool_call_start"
  <2>1. EndTurn(heard)[x] = <<>> /\ ends \o <<>> = ends
    BY <1>6, ConcatEmptySeq DEF EndTurn
  <2>2. EndsAs(heard, u, ends)
    <3>1. \A j \in DOMAIN ends : \E i \in DOMAIN u :
            u[i].event = "tool_call_start" /\ u[i].id = ends[j].id
      <4>1. \A i \in DOMAIN t : i \in DOMAIN u /\ u[i] = t[i]
        BY <1>2, <1>4
      <4>2. QED
        BY <4>1 DEF EndsAs
    <3>2. \A i : Places(u, "tool_call_start", i) = Places(t, "tool_call_start", i)
      BY <1>5, <1>6
    <3>3. QED
      BY <3>1, <3>2 DEF EndsAs
  <2>3. QED
    BY <1>3, <2>1, <2>2
<1>7. CASE x.event = "tool_call_start"
  <2>1. x.id \in CallIndexes
    BY <1>7 DEF VendorEvents
  <2>2. PICK e \in LlmEvents : /\ e = Ev("tool_call_end", x.id, ParsedArguments(heard[x.id]))
                               /\ e.event = "tool_call_end" /\ e.id = x.id
                               /\ e.data = ParsedArguments(heard[x.id])
    BY <2>1, EndType
  <2>3. EndTurn(heard)[x] = <<e>>
    BY <1>7, <2>2 DEF EndTurn
  <2>4. PICK f \in Seq(LlmEvents) : f = Append(ends, e)
    BY AppendProperties
  <2>12. f = ends \o EndTurn(heard)[x]
    BY <2>3, <2>4, AppendIsConcat
  <2>5. PICK m \in Nat : m = Len(ends) /\ DOMAIN ends = 1..m
    BY LenProperties
  <2>6. DOMAIN f = 1..(m + 1) /\ f[m + 1] = e /\ \A k \in 1..m : f[k] = ends[k]
    <3>1. Len(f) = Len(ends) + 1 /\ f[Len(ends) + 1] = e /\ \A k \in 1..Len(ends) : f[k] = ends[k]
      BY <2>4, AppendProperties
    <3>2. QED
      BY <2>5, <3>1, LenProperties
  <2>7. \A i : Places(f, "tool_call_end", i) =
                 IF x.id = i THEN Places(ends, "tool_call_end", i) \cup {m + 1}
                 ELSE Places(ends, "tool_call_end", i)
    <3>1. \A i : Places(Append(ends, e), "tool_call_end", i) =
                   IF e.event = "tool_call_end" /\ e.id = i
                   THEN Places(ends, "tool_call_end", i) \cup {Len(ends) + 1}
                   ELSE Places(ends, "tool_call_end", i)
      BY PlacesAppend
    <3>2. QED
      BY <2>2, <2>4, <2>5, <3>1
  <2>8. ASSUME NEW j \in DOMAIN f
        PROVE  \E i \in DOMAIN u : u[i].event = "tool_call_start" /\ u[i].id = f[j].id
    <3>1. CASE j \in 1..m
      <4>1. PICK i \in DOMAIN t : t[i].event = "tool_call_start" /\ t[i].id = ends[j].id
        BY <2>5, <3>1 DEF EndsAs
      <4>2. i \in DOMAIN u /\ u[i] = t[i] /\ f[j] = ends[j]
        BY <1>2, <1>4, <2>6, <3>1, <4>1
      <4>3. QED
        BY <4>1, <4>2
    <3>2. CASE j = m + 1
      BY <1>4, <1>7, <2>2, <2>6, <3>2
    <3>3. QED
      BY <2>5, <2>6, <3>1, <3>2
  <2>9. ASSUME NEW i \in CallIndexes
        PROVE  /\ Places(u, "tool_call_start", i) = {} => Places(f, "tool_call_end", i) = {}
               /\ (\E k : Places(u, "tool_call_start", i) = {k}) =>
                    \E j \in DOMAIN f : /\ Places(f, "tool_call_end", i) = {j}
                                        /\ f[j].data = ParsedArguments(heard[i])
    <3>1. CASE x.id # i
      <4>1. /\ Places(u, "tool_call_start", i) = Places(t, "tool_call_start", i)
            /\ Places(f, "tool_call_end", i) = Places(ends, "tool_call_end", i)
        BY <1>5, <2>7, <3>1
      <4>2. \A j \in DOMAIN ends : j \in DOMAIN f /\ f[j] = ends[j]
        BY <2>5, <2>6
      <4>3. QED
        BY <4>1, <4>2 DEF EndsAs
    <3>2. CASE x.id = i
      <4>1. /\ Places(u, "tool_call_start", i) = Places(t, "tool_call_start", i) \cup {n + 1}
            /\ Places(f, "tool_call_end", i) = Places(ends, "tool_call_end", i) \cup {m + 1}
        BY <1>5, <1>7, <2>7, <3>2
      <4>2. ASSUME NEW k, Places(u, "tool_call_start", i) = {k}
            PROVE  \E j \in DOMAIN f : /\ Places(f, "tool_call_end", i) = {j}
                                       /\ f[j].data = ParsedArguments(heard[i])
        <5>1. n + 1 \notin Places(t, "tool_call_start", i)
          BY <1>2 DEF Places
        <5>2. Places(t, "tool_call_start", i) = {}
          BY <4>1, <4>2, <5>1
        <5>3. Places(f, "tool_call_end", i) = {m + 1}
          BY <4>1, <5>2 DEF EndsAs
        <5>4. m + 1 \in DOMAIN f /\ f[m + 1].data = ParsedArguments(heard[i])
          BY <2>2, <2>5, <2>6, <3>2
        <5>5. QED
          BY <5>3, <5>4
      <4>3. QED
        BY <4>1, <4>2
    <3>3. QED
      BY <3>1, <3>2
  <2>10. EndsAs(heard, u, f)
    BY <2>8, <2>9 DEF EndsAs
  <2>11. QED
    BY <1>3, <2>12, <2>10
<1>8. QED
  BY <1>6, <1>7

LEMMA EndsWhole ==
    ASSUME NEW heard \in HeardCalls, NEW told \in Seq(VendorEvents)
    PROVE  Ends(heard, told) \in Seq(LlmEvents) /\ EndsAs(heard, told, Ends(heard, told))
<1> DEFINE P == {t \in Seq(VendorEvents) : /\ Through(EndTurn(heard), t) \in Seq(LlmEvents)
                                           /\ EndsAs(heard, t, Through(EndTurn(heard), t))}
<1>1. <<>> \in P
  <2>1. EndsAs(heard, <<>>, <<>>)
    BY DEF EndsAs, Places
  <2>2. <<>> \in Seq(VendorEvents) /\ <<>> \in Seq(LlmEvents)
    BY EmptySeq
  <2>3. QED
    BY <2>1, <2>2, ThroughNone
<1>2. ASSUME NEW t \in Seq(VendorEvents), NEW x \in VendorEvents, t \in P PROVE Append(t, x) \in P
  <2>1. PICK ends \in Seq(LlmEvents) : ends = Through(EndTurn(heard), t) /\ EndsAs(heard, t, ends)
    BY <1>2
  <2>2. /\ ends \o EndTurn(heard)[x] \in Seq(LlmEvents)
        /\ EndsAs(heard, Append(t, x), ends \o EndTurn(heard)[x])
    BY <2>1, EndsAppend
  <2>3. Through(EndTurn(heard), Append(t, x)) = ends \o EndTurn(heard)[x]
    BY <2>1, EndTurns, ThroughAppend
  <2>4. Append(t, x) \in Seq(VendorEvents)
    BY AppendProperties
  <2>5. QED
    BY <2>2, <2>3, <2>4
<1>3. told \in P
  <2> HIDE DEF P
  <2>1. QED
    BY <1>1, <1>2, EverySequence
<1>4. QED
  BY <1>3, EndsIs

\* A call is told once it is heard of, and is heard of by its own pieces.
BeganOnce(heard, told) ==
  \A i \in CallIndexes :
    IF heard[i] = <<>> THEN Places(told, "tool_call_start", i) = {}
    ELSE \E k : Places(told, "tool_call_start", i) = {k}
OwnPieces(heard) == \A i \in CallIndexes : heard[i] \in Seq({i})
VendorStates == {state \in [heard : HeardCalls, told : Seq(VendorEvents)] :
                   OwnPieces(state.heard) /\ BeganOnce(state.heard, state.told)}

LEMMA VendorTold == ASSUME NEW told \in Seq(VendorEvents) PROVE told \in Opened
<1>1. VendorEvents \subseteq LlmEvents
  BY DEF VendorEvents
<1>2. told \in Seq(LlmEvents)
  BY <1>1, SeqMonotonic
<1>3. PICK n \in Nat : DOMAIN told = 1..n /\ \A j \in 1..n : told[j] \in VendorEvents
  BY LenProperties, ElementOfSeq
<1>4. \A j \in DOMAIN told : told[j].event # "tool_call_end"
  BY <1>3 DEF VendorEvents
<1>5. OpensFirst(told)
  BY <1>4 DEF OpensFirst
<1>6. QED
  BY <1>2, <1>5 DEF Opened

\* Events that begin no call leave it to those before them.
LEMMA ToldOther ==
    ASSUME NEW heard \in HeardCalls, NEW told \in Seq(VendorEvents), NEW e \in VendorEvents,
           BeganOnce(heard, told), e.event # "tool_call_start"
    PROVE  Append(told, e) \in Seq(VendorEvents) /\ BeganOnce(heard, Append(told, e))
<1>1. told \in Seq(LlmEvents) /\ e \in LlmEvents
  BY VendorTold DEF Opened, VendorEvents
<1>2. \A i : Places(Append(told, e), "tool_call_start", i) = Places(told, "tool_call_start", i)
  BY <1>1, PlacesAppend
<1>3. QED
  BY <1>2, AppendProperties DEF BeganOnce

LEMMA ToldStart ==
    ASSUME NEW heard \in HeardCalls, NEW told \in Seq(VendorEvents), NEW e \in VendorEvents,
           BeganOnce(heard, told), NEW i \in CallIndexes, heard[i] = <<>>,
           e.event = "tool_call_start", e.id = i
    PROVE  /\ Append(told, e) \in Seq(VendorEvents)
           /\ BeganOnce([heard EXCEPT ![i] = Append(@, i)], Append(told, e))
<1>1. told \in Seq(LlmEvents) /\ e \in LlmEvents
  BY VendorTold DEF Opened, VendorEvents
<1>2. PICK more : more = [heard EXCEPT ![i] = Append(@, i)]
  OBVIOUS
<1>3. more[i] # <<>> /\ \A k \in CallIndexes \ {i} : more[k] = heard[k]
  <2>1. heard[i] \in Seq(Nat) /\ i \in Nat /\ DOMAIN heard = CallIndexes
    BY LlmAssumption DEF HeardCalls
  <2>2. Append(heard[i], i) # <<>>
    BY <2>1, AppendProperties
  <2>3. QED
    BY <1>2, <2>1, <2>2
<1>4. \A k : Places(Append(told, e), "tool_call_start", k) =
               IF k = i THEN Places(told, "tool_call_start", k) \cup {Len(told) + 1}
               ELSE Places(told, "tool_call_start", k)
  <2>1. \A k : Places(Append(told, e), "tool_call_start", k) =
                 IF e.event = "tool_call_start" /\ e.id = k
                 THEN Places(told, "tool_call_start", k) \cup {Len(told) + 1}
                 ELSE Places(told, "tool_call_start", k)
    BY <1>1, PlacesAppend
  <2>2. QED
    BY <2>1
<1>5. ASSUME NEW k \in CallIndexes
      PROVE  IF more[k] = <<>> THEN Places(Append(told, e), "tool_call_start", k) = {}
             ELSE \E j : Places(Append(told, e), "tool_call_start", k) = {j}
  <2>1. CASE k = i
    <3>1. Places(told, "tool_call_start", k) = {}
      BY <2>1 DEF BeganOnce
    <3>2. Places(Append(told, e), "tool_call_start", k) = {Len(told) + 1}
      BY <1>4, <2>1, <3>1
    <3>3. QED
      BY <1>3, <2>1, <3>2
  <2>2. CASE k # i
    BY <1>3, <1>4, <2>2 DEF BeganOnce
  <2>3. QED
    BY <2>1, <2>2
<1>6. QED
  BY <1>2, <1>5, AppendProperties DEF BeganOnce

LEMMA PieceEvents ==
    ASSUME NEW i \in CallIndexes
    PROVE  /\ \E e \in VendorEvents : /\ e = Ev("tool_call_start", i, <<>>)
                                      /\ e.event = "tool_call_start" /\ e.id = i
           /\ \E e \in VendorEvents : /\ e = Ev("tool_call_delta", i, <<i>>)
                                      /\ e.event = "tool_call_delta"
<1>1. i \in Nat
  BY LlmAssumption
<1>2. PICK one \in Seq(Symbols) : one = <<i>>
  <2>1. i \in Symbols
    BY <1>1 DEF Symbols
  <2>2. QED
    BY <2>1, OneElement
<1>3. PICK none \in Seq(Symbols) : none = <<>>
  BY EmptySeq
<1>4. "tool_call_start" \in EventNames /\ "tool_call_delta" \in EventNames
  BY DEF EventNames
<1>5. PICK e \in LlmEvents : /\ e = Ev("tool_call_start", i, none)
                             /\ e.event = "tool_call_start" /\ e.id = i
  BY <1>1, <1>4, EvType
<1>6. PICK f \in LlmEvents : f = Ev("tool_call_delta", i, one) /\ f.event = "tool_call_delta"
  BY <1>1, <1>4, EvType
<1>7. e \in VendorEvents /\ f \in VendorEvents
  BY <1>5, <1>6 DEF VendorEvents
<1>8. QED
  BY <1>2, <1>3, <1>5, <1>6, <1>7

LEMMA TwoMore ==
    ASSUME NEW S, NEW s \in Seq(S), NEW x \in S, NEW y \in S
    PROVE  s \o <<x, y>> = Append(Append(s, x), y)
<1>1. PICK one \in Seq(S) : one = <<x>>
  BY OneElement
<1>2. PICK two \in Seq(S) : two = <<y>>
  BY OneElement
<1>3. one \o two = <<x, y>>
  <2>1. PICK both \in Seq(S) : both = <<x, y>> /\ Len(both) = 2 /\ both[1] = x /\ both[2] = y
    <3>1. PICK both : both = <<x, y>>
      OBVIOUS
    <3>2. both[1] = x /\ both[2] = y /\ Len(both) = 2
      BY <3>1
    <3>3. both \in Seq(S)
      BY <3>1
    <3>4. QED
      BY <3>1, <3>2, <3>3
  <2>2. Len(one) = 1 /\ Len(two) = 1 /\ one[1] = x /\ two[1] = y
    BY <1>1, <1>2
  <2>3. /\ one \o two \in Seq(S) /\ Len(one \o two) = 2
        /\ (one \o two)[1] = x /\ (one \o two)[2] = y
    <3>1. /\ one \o two \in Seq(S) /\ Len(one \o two) = Len(one) + Len(two)
          /\ \A i \in 1..(Len(one) + Len(two)) :
               (one \o two)[i] = IF i <= Len(one) THEN one[i] ELSE two[i - Len(one)]
      BY ConcatProperties
    <3>2. 1 \in 1..(1 + 1) /\ 2 \in 1..(1 + 1) /\ 1 <= 1 /\ ~(2 <= 1) /\ 2 - 1 = 1 /\ 1 + 1 = 2
      OBVIOUS
    <3>3. QED
      BY <2>2, <3>1, <3>2
  <2>4. \A i \in 1..2 : i = 1 \/ i = 2
    OBVIOUS
  <2>5. QED
    BY <2>1, <2>3, <2>4, SeqEqual
<1>4. PICK t \in Seq(S) : t = Append(s, x)
  BY AppendProperties
<1>5. t = s \o one /\ Append(t, y) = t \o two
  BY <1>1, <1>2, <1>4, AppendIsConcat
<1>6. (s \o one) \o two = s \o (one \o two)
  BY ConcatAssociative, SMTT(30)
<1>7. QED
  BY <1>3, <1>4, <1>5, <1>6

LEMMA ReadKeeps ==
    ASSUME NEW state \in VendorStates, NEW i \in CallIndexes
    PROVE  /\ Read(state, i) \in VendorStates
           /\ \A k \in CallIndexes : Read(state, i).heard[k] =
                                       IF k = i THEN Append(state.heard[k], i) ELSE state.heard[k]
<1>1. PICK heard \in HeardCalls, told \in Seq(VendorEvents) :
        /\ heard = state.heard /\ told = state.told
        /\ OwnPieces(heard) /\ BeganOnce(heard, told)
  BY DEF VendorStates
<1>2. PICK more : more = [heard EXCEPT ![i] = Append(@, i)]
  OBVIOUS
<1>3. \A k \in CallIndexes : more[k] = IF k = i THEN Append(heard[k], i) ELSE heard[k]
  BY <1>2 DEF HeardCalls
<1>4. i \in Nat /\ i \in {i} /\ heard[i] \in Seq(Nat) /\ heard[i] \in Seq({i})
  BY <1>1, LlmAssumption DEF HeardCalls, OwnPieces
<1>5. more \in HeardCalls
  <2>1. Append(heard[i], i) \in Seq(Nat)
    BY <1>4, AppendProperties
  <2>2. QED
    BY <1>2, <2>1 DEF HeardCalls
<1>6. OwnPieces(more)
  <2>1. Append(heard[i], i) \in Seq({i})
    BY <1>4, AppendProperties
  <2>2. QED
    BY <1>1, <1>3, <2>1 DEF OwnPieces
<1>7. PICK start \in VendorEvents : /\ start = Ev("tool_call_start", i, <<>>)
                                    /\ start.event = "tool_call_start" /\ start.id = i
  BY PieceEvents
<1>8. PICK delta \in VendorEvents : /\ delta = Ev("tool_call_delta", i, <<i>>)
                                    /\ delta.event = "tool_call_delta"
  BY PieceEvents
<1>9. told \o Piece(heard, i) \in Seq(VendorEvents) /\ BeganOnce(more, told \o Piece(heard, i))
  <2>1. CASE heard[i] = <<>>
    <3>1. PICK t \in Seq(VendorEvents) : t = Append(told, start) /\ BeganOnce(more, t)
      <4>1. /\ Append(told, start) \in Seq(VendorEvents)
            /\ BeganOnce([heard EXCEPT ![i] = Append(@, i)], Append(told, start))
        BY <1>1, <1>7, <2>1, ToldStart
      <4>2. QED
        BY <1>2, <4>1
    <3>2. Append(t, delta) \in Seq(VendorEvents) /\ BeganOnce(more, Append(t, delta))
      BY <1>5, <1>8, <3>1, ToldOther
    <3>3. told \o <<start, delta>> = Append(t, delta)
      BY <3>1, TwoMore
    <3>4. Piece(heard, i) = <<start, delta>>
      BY <1>7, <1>8, <2>1 DEF Piece
    <3>5. QED
      BY <3>2, <3>3, <3>4
  <2>2. CASE heard[i] # <<>>
    <3>1. BeganOnce(more, told)
      <4>1. more[i] # <<>>
        <5>1. Append(heard[i], i) # <<>>
          BY <1>4, AppendProperties
        <5>2. QED
          BY <1>3, <5>1
      <4>2. QED
        BY <1>1, <1>3, <2>2, <4>1 DEF BeganOnce
    <3>2. Append(told, delta) \in Seq(VendorEvents) /\ BeganOnce(more, Append(told, delta))
      BY <1>5, <1>8, <3>1, ToldOther
    <3>3. Piece(heard, i) = <<delta>>
      BY <1>8, <2>2 DEF Piece
    <3>4. told \o <<delta>> = Append(told, delta)
      BY AppendIsConcat
    <3>5. QED
      BY <3>2, <3>3, <3>4
  <2>3. QED
    BY <2>1, <2>2
<1>10. Read(state, i) = [heard |-> more, told |-> told \o Piece(heard, i)]
  BY <1>1, <1>2 DEF Read, Heard
<1>11. PICK next : next = [heard |-> more, told |-> told \o Piece(heard, i)]
  OBVIOUS
<1>12. next \in VendorStates /\ next.heard = more
  BY <1>5, <1>6, <1>9, <1>11 DEF VendorStates
<1>13. QED
  BY <1>1, <1>3, <1>10, <1>11, <1>12

LEMMA ChunkType ==
    ASSUME NEW chunk \in Chunks
    PROVE  chunk.pieces \in Seq(CallIndexes) /\ chunk.text \in BOOLEAN /\ chunk.finish \in BOOLEAN
<1>1. CASE chunk = TextChunk
  BY <1>1, EmptySeq DEF TextChunk
<1>2. CASE chunk \in [text : {FALSE}, pieces : UNION {[1 .. n -> CallIndexes] : n \in 1 .. 2}, finish : {FALSE}]
  <2>1. PICK n \in 1..2 : chunk.pieces \in [1..n -> CallIndexes]
    BY <1>2
  <2>2. chunk.pieces \in Seq(CallIndexes)
    BY <2>1, LenIs
  <2>3. QED
    BY <1>2, <2>2
<1>3. CASE chunk \in [text : {FALSE}, pieces : {<<>>}, finish : {TRUE}]
  BY <1>3, EmptySeq
<1>4. QED
  BY <1>1, <1>2, <1>3 DEF Chunks

PieceTurn(i) == [k \in CallIndexes |-> IF k = i THEN <<k>> ELSE <<>>]

LEMMA PieceTurns == \A i : PieceTurn(i) \in Turns(CallIndexes, CallIndexes)
<1>1. \A k \in CallIndexes : <<k>> \in Seq(CallIndexes)
  BY OneElement
<1>2. <<>> \in Seq(CallIndexes)
  BY EmptySeq
<1>3. QED
  BY <1>1, <1>2 DEF PieceTurn, Turns

LEMMA PiecesIs ==
    ASSUME NEW chunk, chunk.pieces \in Seq(CallIndexes), NEW i
    PROVE  PiecesOf(chunk, i) = Through(PieceTurn(i), chunk.pieces)
<1>1. PICK p \in Seq(CallIndexes) : p = chunk.pieces
  OBVIOUS
<1>2. PICK n \in Nat : DOMAIN p = 1..n /\ \A k \in 1..n : p[k] \in CallIndexes
  BY LenProperties, ElementOfSeq
<1>3. QED
  BY <1>1, <1>2 DEF PiecesOf, Picked, Through, Each, PieceTurn

\* A chunk adds to each call the pieces of it that it holds, and to nothing else.
LEMMA ChunkKeeps ==
    ASSUME NEW chunk \in Chunks, [heard |-> calls, told |-> events] \in VendorStates
    PROVE  /\ AfterChunk(chunk) \in VendorStates
           /\ \A i \in CallIndexes :
                AfterChunk(chunk).heard[i] = calls[i] \o Through(PieceTurn(i), chunk.pieces)
<1>1. PICK p \in Seq(CallIndexes) : p = chunk.pieces
  BY ChunkType
<1>2. PICK n \in Nat : n = Len(p) /\ \A k \in 1..n : p[k] \in CallIndexes
  BY LenProperties, ElementOfSeq
<1>3. calls \in HeardCalls /\ events \in Seq(VendorEvents) /\ OwnPieces(calls)
        /\ BeganOnce(calls, events)
  <2>1. PICK state \in VendorStates : state = [heard |-> calls, told |-> events]
    OBVIOUS
  <2>2. state.heard = calls /\ state.told = events
    BY <2>1
  <2>3. QED
    BY <2>2 DEF VendorStates
<1>4. PICK first \in VendorStates :
        /\ first = [heard |-> calls, told |-> events \o (IF chunk.text THEN <<Token(<<"t">>)>> ELSE <<>>)]
        /\ first.heard = calls
  <2>1. CASE chunk.text
    <3>1. PICK e \in VendorEvents : e = Token(<<"t">>) /\ e.event # "tool_call_start"
      <4>1. PICK t \in Seq(Symbols) : t = <<"t">>
        <5>1. "t" \in Symbols
          BY Zenon DEF Symbols
        <5>2. QED
          BY <5>1, OneElement
      <4>2. PICK e \in LlmEvents : e = Token(t) /\ e.event = "token"
        BY TokenType
      <4>3. e \in VendorEvents
        BY <4>2 DEF VendorEvents
      <4>4. QED
        BY <4>1, <4>2, <4>3
    <3>2. Append(events, e) \in Seq(VendorEvents) /\ BeganOnce(calls, Append(events, e))
      BY <1>3, <3>1, ToldOther
    <3>3. PICK state : state = [heard |-> calls, told |-> Append(events, e)]
      OBVIOUS
    <3>4. state \in VendorStates /\ state.heard = calls
      BY <1>3, <3>2, <3>3 DEF VendorStates
    <3>5. Append(events, e) = events \o <<e>>
      BY <1>3, AppendIsConcat
    <3>6. QED
      BY <2>1, <3>1, <3>3, <3>4, <3>5
  <2>2. CASE ~chunk.text
    <3>1. events \o <<>> = events
      BY <1>3, ConcatEmptySeq
    <3>2. PICK state \in VendorStates : state = [heard |-> calls, told |-> events]
      OBVIOUS
    <3>3. state.heard = calls
      BY <3>2
    <3>4. QED
      BY <2>2, <3>1, <3>2, <3>3
  <2>3. QED
    BY <2>1, <2>2
<1> DEFINE round == [q \in VendorStates \X (1..n) |-> Read(q[1], p[q[2]])]
           Is(f) == f = [k \in 0..n |-> IF k = 0 THEN first ELSE Read(f[k - 1], p[k])]
           read == CHOOSE f : Is(f)
<1>5. round \in Loops(n, VendorStates)
  <2>1. ASSUME NEW q \in VendorStates \X (1..n) PROVE Read(q[1], p[q[2]]) \in VendorStates
    BY <1>2, ReadKeeps
  <2>2. QED
    BY <2>1 DEF Loops
<1>6. PICK g : IsRun(g, n, VendorStates, first, round)
  <2> HIDE DEF round
  <2>1. QED
    BY <1>5, LoopRuns
<1>7. g \in [0..n -> VendorStates] /\ g[0] = first
  BY <1>6 DEF IsRun
<1>8. ASSUME NEW k \in 1..n PROVE g[k] = Read(g[k - 1], p[k])
  <2>1. k - 1 \in 0..n
    OBVIOUS
  <2>2. g[k] = round[<<g[k - 1], k>>] /\ g[k - 1] \in VendorStates
    BY <1>6, <1>7, <2>1 DEF IsRun
  <2>3. QED
    BY <2>2
<1>9. Is(g)
  <2>1. \A i \in 0..n : i = 0 \/ i \in 1..n
    OBVIOUS
  <2>2. \A i \in 0..n : g[i] = IF i = 0 THEN first ELSE Read(g[i - 1], p[i])
    BY <1>7, <1>8, <2>1
  <2>3. g = [i \in 0..n |-> g[i]]
    BY <1>7
  <2>4. QED
    BY <2>2, <2>3
<1>10. Is(read)
  <2> HIDE DEF Is
  <2>1. QED
    BY <1>9
<1>11. AfterChunk(chunk) = read[n]
  BY <1>1, <1>2, <1>4 DEF AfterChunk
<1> HIDE DEF read
<1>12. read[0] = first /\ \A k \in 1..n : read[k] = Read(read[k - 1], p[k])
  <2>1. PICK f : f = read
    OBVIOUS
  <2>2. f = [i \in 0..n |-> IF i = 0 THEN first ELSE Read(f[i - 1], p[i])]
    BY <1>10, <2>1
  <2>3. 0 \in 0..n /\ \A k \in 1..n : k \in 0..n /\ k # 0
    OBVIOUS
  <2>4. QED
    BY <2>1, <2>2, <2>3
<1> HIDE DEF Is, round
<1> DEFINE T == {k \in 0..n :
                   /\ read[k] \in VendorStates
                   /\ \A i \in CallIndexes :
                        read[k].heard[i] = calls[i] \o Through(PieceTurn(i), SubSeq(p, 1, k))}
<1>13. 0 \in T
  <2>1. 0 \in 0..n /\ 0 < 1 /\ 0 \in Int /\ 1 \in Int
    OBVIOUS
  <2>2. SubSeq(p, 1, 0) = <<>>
    BY <2>1, SubSeqEmpty
  <2>3. ASSUME NEW i \in CallIndexes PROVE calls[i] = calls[i] \o Through(PieceTurn(i), SubSeq(p, 1, 0))
    <3>1. calls[i] \in Seq(Nat)
      BY <1>3 DEF HeardCalls
    <3>2. QED
      BY <2>2, <3>1, ThroughNone, ConcatEmptySeq
  <2>4. QED
    BY <1>4, <1>12, <2>1, <2>3
<1>14. ASSUME NEW k \in 0..(n - 1), k \in T PROVE k + 1 \in T
  <2>1. k + 1 \in 1..n /\ k + 1 \in 0..n /\ (k + 1) - 1 = k /\ 1 \in 1..n /\ k \in Int /\ 1 \in Int
    OBVIOUS
  <2>2. PICK state \in VendorStates :
          /\ state = read[k]
          /\ \A i \in CallIndexes : state.heard[i] = calls[i] \o Through(PieceTurn(i), SubSeq(p, 1, k))
    BY <1>14
  <2>3. PICK c \in CallIndexes : c = p[k + 1]
    BY <1>2, <2>1
  <2>4. read[k + 1] = Read(state, c)
    BY <1>12, <2>1, <2>2, <2>3
  <2>5. /\ Read(state, c) \in VendorStates
        /\ \A i \in CallIndexes : Read(state, c).heard[i] =
                                    IF i = c THEN Append(state.heard[i], c) ELSE state.heard[i]
    BY ReadKeeps
  <2>6. PICK r \in Seq(CallIndexes) : r = SubSeq(p, 1, k)
    <3>1. \A i \in 1..k : p[i] \in CallIndexes
      BY <1>2
    <3>2. QED
      BY <2>1, <3>1, SubSeqProperties
  <2>7. SubSeq(p, 1, k + 1) = Append(r, c)
    <3>1. SubSeq(p, 1, k + 1) = SubSeq(p, 1, (k + 1) - 1) \o <<p[k + 1]>>
      BY <1>2, <2>1, SubSeqRecursiveSecond
    <3>2. QED
      BY <2>1, <2>3, <2>6, <3>1, AppendIsConcat
  <2>8. ASSUME NEW i \in CallIndexes
        PROVE  Read(state, c).heard[i] = calls[i] \o Through(PieceTurn(i), Append(r, c))
    <3>1. Through(PieceTurn(i), Append(r, c)) = Through(PieceTurn(i), r) \o PieceTurn(i)[c]
      BY PieceTurns, ThroughAppend
    <3>2. PICK a \in Seq(Nat), b \in Seq(Nat), d \in Seq(Nat) :
            a = calls[i] /\ b = Through(PieceTurn(i), r) /\ d = PieceTurn(i)[c]
      <4>1. Through(PieceTurn(i), r) \in Seq(CallIndexes)
        BY PieceTurns, ThroughType
      <4>2. PieceTurn(i)[c] \in Seq(CallIndexes)
        BY PieceTurns DEF Turns
      <4>3. CallIndexes \subseteq Nat
        BY LlmAssumption
      <4>4. Through(PieceTurn(i), r) \in Seq(Nat) /\ PieceTurn(i)[c] \in Seq(Nat)
        BY <4>1, <4>2, <4>3, SeqMonotonic
      <4>5. calls[i] \in Seq(Nat)
        BY <1>3 DEF HeardCalls
      <4>6. QED
        BY <4>4, <4>5
    <3>3. state.heard[i] = a \o b
      BY <2>2, <2>6, <3>2
    <3>4. (a \o b) \o d = a \o (b \o d)
      BY ConcatAssociative, SMTT(30)
    <3>5. Read(state, c).heard[i] = (a \o b) \o d
      <4>1. PICK ab \in Seq(Nat) : ab = a \o b
        BY ConcatProperties
      <4>2. CASE i = c
        <5>1. d = <<c>> /\ c \in Nat
          BY <3>2, <4>2, LlmAssumption DEF PieceTurn
        <5>2. Append(ab, c) = ab \o <<c>>
          BY <5>1, AppendIsConcat
        <5>3. QED
          BY <2>5, <3>3, <4>1, <4>2, <5>1, <5>2
      <4>3. CASE i # c
        <5>1. d = <<>> /\ ab \o <<>> = ab
          BY <3>2, <4>3, ConcatEmptySeq DEF PieceTurn
        <5>2. QED
          BY <2>5, <3>3, <4>1, <4>3, <5>1
      <4>4. QED
        BY <4>2, <4>3
    <3>6. QED
      BY <3>1, <3>2, <3>4, <3>5
  <2>9. QED
    BY <2>1, <2>4, <2>5, <2>7, <2>8
<1>15. n \in T
  <2> HIDE DEF T
  <2>1. \A k \in 0..n : k \in T
    BY <1>13, <1>14, Induction
  <2>2. QED
    BY <2>1
<1>16. SubSeq(p, 1, n) = p
  BY <1>2, SubSeqFull
<1>17. QED
  BY <1>1, <1>11, <1>15, <1>16

(***************************************************************************)
(* The invariant                                                           *)
(***************************************************************************)
Reciting == provider \in {"echo", "mock"}
Asked ==
  /\ provider \in {"echo", "mock", "openai", "agent"}
  /\ history \in Histories \cup {<<>>}
  /\ prompt = ContextInjection(history)
Sent == events \in Opened /\ at \in Nat
Recited ==
  Reciting =>
    /\ at \in 0..Len(Script)
    /\ status \in {"streaming", "closed"} => events = SubSeq(Script, 1, at)
    /\ status = "done" => events = Script \o <<Plain("metadata"), Plain("done")>>
EndedWhole(heard, told) ==
  \A i \in CallIndexes :
    IF heard[i] = <<>> THEN Places(told, "tool_call_end", i) = {}
    ELSE \E j \in DOMAIN told : /\ Places(told, "tool_call_end", i) = {j}
                                /\ told[j].data = ParsedArguments(heard[i])
Vendored ==
  provider = "openai" =>
    /\ calls = spelled /\ calls \in HeardCalls /\ OwnPieces(calls)
    /\ finished \in BOOLEAN
    /\ ~finished => events \in Seq(VendorEvents) /\ BeganOnce(calls, events)
    /\ finished => EndedWhole(calls, events)
LlmInv == Asked /\ Sent /\ Recited /\ Vendored

LEMMA PlainType ==
    ASSUME NEW name \in EventNames
    PROVE  Plain(name) \in LlmEvents /\ Plain(name).event = name /\ Plain(name).data = <<>>
<1>1. PICK none \in Seq(Symbols) : none = <<>>
  BY EmptySeq
<1>2. Ev(name, 0, none) \in LlmEvents /\ Ev(name, 0, none).event = name /\ Ev(name, 0, none).data = none
  BY EvType
<1>3. QED
  BY <1>1, <1>2 DEF Plain

LEMMA ScriptIs ==
    ASSUME Asked, Reciting
    PROVE  /\ Script \in Opened
           /\ provider = "echo" => Letters(Said(Script)) = Letters(EchoReply(UserMessage(history)))
           /\ provider = "mock" => Said(Script) = MockText \o <<" ">> \o AfterTool
<1>1. prompt.query = UserMessage(history) /\ UserMessage(history) \in Seq(Chars)
  BY UserMessageType DEF Asked, ContextInjection
<1>2. EchoReply(UserMessage(history)) \in Seq(Chars)
  <2>1. "E" \in Chars /\ " " \in Chars /\ "0" \in Chars
    BY LlmAssumption
  <2>2. <<"0">> \in Seq(Chars)
    BY <2>1, OneElement
  <2>3. PICK a \in Chars, b \in Chars : a = "E" /\ b = " "
    BY <2>1
  <2>4. PICK e \in Seq(Chars) : e = <<a, b>>
    <3>1. PICK e : e = <<a, b>>
      OBVIOUS
    <3>2. e \in Seq(Chars)
      BY <3>1
    <3>3. QED
      BY <3>1, <3>2
  <2>5. PICK q \in Seq(Chars) : q = IF UserMessage(history) = <<>> THEN <<"0">> ELSE UserMessage(history)
    BY <1>1, <2>2
  <2>6. e \o q \in Seq(Chars)
    BY ConcatProperties
  <2>7. QED
    BY <2>3, <2>4, <2>5, <2>6 DEF EchoReply
<1>3. CASE provider = "echo"
  <2>1. Script = EchoWords(EchoReply(UserMessage(history)))
    BY <1>1, <1>3 DEF Script
  <2>2. QED
    BY <1>2, <1>3, <2>1, EchoSays, EchoOpens
<1>4. CASE provider = "mock"
  <2>1. Script = MockScript
    BY <1>4 DEF Script
  <2>2. QED
    BY <1>4, <2>1, MockScriptSays
<1>5. QED
  BY <1>3, <1>4 DEF Reciting

LEMMA MoreOfPrefix ==
    ASSUME NEW S, NEW s \in Seq(S), NEW n \in 0..(Len(s) - 1)
    PROVE  SubSeq(s, 1, n + 1) = Append(SubSeq(s, 1, n), s[n + 1])
<1>1. PICK m \in Nat : m = Len(s) /\ \A i \in 1..m : s[i] \in S
  BY LenProperties, ElementOfSeq
<1>2. n + 1 \in 1..m /\ n \in Int /\ 1 \in Int /\ 1 \in 1..m /\ (n + 1) - 1 = n
        /\ \A i \in 1..n : i \in 1..m
  BY <1>1
<1>3. SubSeq(s, 1, n + 1) = SubSeq(s, 1, (n + 1) - 1) \o <<s[n + 1]>>
  BY <1>1, <1>2, SubSeqRecursiveSecond
<1>4. PICK r \in Seq(S) : r = SubSeq(s, 1, n)
  <2>1. \A i \in 1..n : s[i] \in S
    BY <1>1, <1>2
  <2>2. QED
    BY <1>2, <2>1, SubSeqProperties
<1>5. PICK x \in S : x = s[n + 1]
  BY <1>1, <1>2
<1>6. Append(r, x) = r \o <<x>>
  BY AppendIsConcat
<1>7. QED
  BY <1>2, <1>3, <1>4, <1>5, <1>6

\* A plain event added after the calls have ended.
LEMMA EndedAppend ==
    ASSUME NEW heard, NEW told \in Seq(LlmEvents), NEW e \in LlmEvents,
           EndedWhole(heard, told), e.event # "tool_call_end"
    PROVE  EndedWhole(heard, Append(told, e))
<1>1. PICK more \in Seq(LlmEvents) : more = Append(told, e)
  BY AppendProperties
<1>2. \A j \in DOMAIN told : j \in DOMAIN more /\ more[j] = told[j]
  <2>1. Len(more) = Len(told) + 1 /\ \A k \in 1..Len(told) : more[k] = told[k]
    BY <1>1, AppendProperties
  <2>2. DOMAIN told = 1..Len(told) /\ DOMAIN more = 1..Len(more) /\ Len(told) \in Nat
    BY LenProperties
  <2>3. QED
    BY <2>1, <2>2
<1>3. \A i : Places(more, "tool_call_end", i) = Places(told, "tool_call_end", i)
  BY <1>1, PlacesAppend
<1>4. QED
  BY <1>1, <1>2, <1>3 DEF EndedWhole

\* A vendor's stream takes a plain event at any time.
LEMMA VendorAppend ==
    ASSUME LlmInv, provider = "openai", NEW name \in EventNames \ {"tool_call_start", "tool_call_end"}
    PROVE  /\ ~finished => /\ Append(events, Plain(name)) \in Seq(VendorEvents)
                           /\ BeganOnce(calls, Append(events, Plain(name)))
           /\ finished => EndedWhole(calls, Append(events, Plain(name)))
           /\ Append(events, Plain(name)) \in Opened
<1>1. PICK e \in LlmEvents : e = Plain(name) /\ e.event = name
  BY PlainType
<1>2. events \in Seq(LlmEvents) /\ events \in Opened
  BY DEF LlmInv, Sent, Opened
<1>3. ASSUME ~finished
      PROVE  Append(events, e) \in Seq(VendorEvents) /\ BeganOnce(calls, Append(events, e))
  <2>1. e \in VendorEvents
    BY <1>1 DEF VendorEvents
  <2>2. calls \in HeardCalls /\ events \in Seq(VendorEvents) /\ BeganOnce(calls, events)
    BY <1>3 DEF LlmInv, Vendored
  <2>3. QED
    BY <1>1, <2>1, <2>2, ToldOther
<1>4. ASSUME finished PROVE EndedWhole(calls, Append(events, e))
  <2>1. EndedWhole(calls, events)
    BY <1>4 DEF LlmInv, Vendored
  <2>2. QED
    BY <1>1, <1>2, <2>1, EndedAppend
<1>5. Append(events, e) \in Opened
  BY <1>1, <1>2, OpenedAppend
<1>6. QED
  BY <1>1, <1>3, <1>4, <1>5

\* The calls of a finished message, told and ended.
LEMMA FinishedWhole ==
    ASSUME NEW state \in VendorStates
    PROVE  /\ state.told \o Ends(state.heard, state.told) \in Opened
           /\ EndedWhole(state.heard, state.told \o Ends(state.heard, state.told))
<1>1. PICK heard \in HeardCalls, told \in Seq(VendorEvents) :
        heard = state.heard /\ told = state.told /\ BeganOnce(heard, told)
  BY DEF VendorStates
<1>2. told \in Seq(LlmEvents) /\ OpensFirst(told)
  BY VendorTold DEF Opened
<1>3. PICK ends \in Seq(LlmEvents) : ends = Ends(heard, told) /\ EndsAs(heard, told, ends)
  BY EndsWhole
<1>4. PICK all \in Seq(LlmEvents) : all = told \o ends /\ all = Joined(told, ends)
  BY <1>2, ConcatProperties DEF Joined
<1>5. OpensFirst(all)
  <2>1. OpensAfter(told, ends)
    BY <1>3 DEF EndsAs, OpensAfter
  <2>2. QED
    BY <1>2, <1>4, <2>1, OpensConcat
<1>6. ASSUME NEW i \in CallIndexes
      PROVE  IF heard[i] = <<>> THEN Places(all, "tool_call_end", i) = {}
             ELSE \E j \in DOMAIN all : /\ Places(all, "tool_call_end", i) = {j}
                                        /\ all[j].data = ParsedArguments(heard[i])
  <2>1. Places(told, "tool_call_end", i) = {}
    <3>1. PICK n \in Nat : DOMAIN told = 1..n /\ \A j \in 1..n : told[j] \in VendorEvents
      BY LenProperties, ElementOfSeq
    <3>2. QED
      BY <3>1 DEF Places, VendorEvents
  <2>2. CASE heard[i] = <<>>
    <3>1. Places(told, "tool_call_start", i) = {}
      BY <1>1, <2>2 DEF BeganOnce
    <3>2. Places(ends, "tool_call_end", i) = {}
      BY <1>3, <3>1 DEF EndsAs
    <3>3. QED
      <4>1. Places(all, "tool_call_end", i) = {}
        BY <1>2, <1>4, <2>1, <3>2, PlacesConcat
      <4>2. QED
        BY <2>2, <4>1
  <2>3. CASE heard[i] # <<>>
    <3>1. \E k : Places(told, "tool_call_start", i) = {k}
      BY <1>1, <2>3 DEF BeganOnce
    <3>2. PICK j \in DOMAIN ends : /\ Places(ends, "tool_call_end", i) = {j}
                                   /\ ends[j].data = ParsedArguments(heard[i])
      BY <1>3, <3>1 DEF EndsAs
    <3>3. \E k \in DOMAIN all : Places(all, "tool_call_end", i) = {k} /\ all[k] = ends[j]
      <4>1. \E k \in DOMAIN Joined(told, ends) :
              /\ Places(Joined(told, ends), "tool_call_end", i) = {k}
              /\ Joined(told, ends)[k] = ends[j]
        BY <1>2, <2>1, <3>2, PlacesConcat
      <4>2. QED
        BY <1>4, <4>1
    <3>4. QED
      BY <2>3, <3>2, <3>3
  <2>4. QED
    BY <2>2, <2>3
<1>7. EndedWhole(heard, all)
  BY <1>6 DEF EndedWhole
<1>8. QED
  BY <1>1, <1>3, <1>4, <1>5, <1>7 DEF Opened

LEMMA ReadsChunkKeeps ==
    ASSUME LlmInv, NEW chunk \in Chunks, ReadsChunk(chunk)
    PROVE  LlmInv'
<1>1. provider = "openai" /\ ~finished
  BY DEF ReadsChunk, Sendable
<1>2. [heard |-> calls, told |-> events] \in VendorStates
  <2>1. calls \in HeardCalls /\ events \in Seq(VendorEvents) /\ OwnPieces(calls)
          /\ BeganOnce(calls, events)
    BY <1>1 DEF LlmInv, Vendored
  <2>2. PICK state : state = [heard |-> calls, told |-> events]
    OBVIOUS
  <2>3. state \in VendorStates
    BY <2>1, <2>2 DEF VendorStates
  <2>4. QED
    BY <2>2, <2>3
<1>3. PICK after \in VendorStates :
        /\ after = AfterChunk(chunk)
        /\ \A i \in CallIndexes : after.heard[i] = calls[i] \o Through(PieceTurn(i), chunk.pieces)
  BY <1>2, ChunkKeeps
<1>4. /\ after.heard \in HeardCalls /\ after.told \in Seq(VendorEvents)
      /\ OwnPieces(after.heard) /\ BeganOnce(after.heard, after.told)
  BY DEF VendorStates
<1>5. /\ calls' = after.heard /\ finished' = chunk.finish /\ finished' \in BOOLEAN
      /\ events' = after.told \o IF chunk.finish THEN Ends(after.heard, after.told) ELSE <<>>
  BY <1>3, ChunkType DEF ReadsChunk
<1>6. /\ UNCHANGED <<provider, history, prompt, status>> /\ at' = at + 1 /\ status = "streaming"
      /\ spelled' = [i \in CallIndexes |-> spelled[i] \o PiecesOf(chunk, i)]
  BY DEF ReadsChunk, VendorKeeps
<1>7. calls' = spelled'
  <2>1. \A i \in CallIndexes : after.heard[i] = spelled[i] \o PiecesOf(chunk, i)
    <3>1. calls = spelled
      BY <1>1 DEF LlmInv, Vendored
    <3>2. \A i : PiecesOf(chunk, i) = Through(PieceTurn(i), chunk.pieces)
      BY ChunkType, PiecesIs
    <3>3. QED
      BY <1>3, <3>1, <3>2
  <2>2. after.heard = [i \in CallIndexes |-> after.heard[i]]
    BY <1>4 DEF HeardCalls
  <2>3. QED
    BY <1>5, <1>6, <2>1, <2>2
<1>8. CASE ~chunk.finish
  <2>1. events' = after.told
    <3>1. after.told \o <<>> = after.told
      BY <1>4, ConcatEmptySeq
    <3>2. QED
      BY <1>5, <1>8, <3>1
  <2>2. events' \in Opened
    BY <1>4, <2>1, VendorTold
  <2>3. Vendored'
    BY <1>4, <1>5, <1>6, <1>7, <1>8, <2>1 DEF Vendored
  <2>4. QED
    BY <1>1, <1>6, <2>2, <2>3 DEF LlmInv, Asked, Sent, Recited, Reciting
<1>9. CASE chunk.finish
  <2>1. events' = after.told \o Ends(after.heard, after.told)
    BY <1>5, <1>9
  <2>2. events' \in Opened /\ EndedWhole(calls', events')
    BY <1>5, <2>1, FinishedWhole
  <2>3. Vendored'
    BY <1>4, <1>5, <1>7, <1>9, <2>2 DEF Vendored
  <2>4. QED
    BY <1>1, <1>6, <2>2, <2>3 DEF LlmInv, Asked, Sent, Recited, Reciting
<1>10. QED
  BY <1>8, <1>9

\* The other steps of a vendor's stream add an event to it.
LEMMA VendorAdds ==
    ASSUME LlmInv, AbortsVendor \/ ReadsUsage \/ VendorEnds \/ VendorFails
    PROVE  LlmInv'
<1>1. provider = "openai"
  BY DEF AbortsVendor, ReadsUsage, VendorEnds, VendorFails
<1>2. UNCHANGED <<provider, history, prompt, calls, spelled, finished>> /\ at' \in Nat
  BY DEF AbortsVendor, ReadsUsage, VendorEnds, VendorFails, VendorKeeps, LlmInv, Sent
<1>3. PICK name \in {"aborted", "metadata", "done", "rate_limited", "error"} :
        events' = Append(events, Plain(name))
  BY DEF AbortsVendor, ReadsUsage, VendorEnds, VendorFails
<1>4. name \in EventNames \ {"tool_call_start", "tool_call_end"}
  BY DEF EventNames
<1>5. /\ ~finished => events' \in Seq(VendorEvents) /\ BeganOnce(calls, events')
      /\ finished => EndedWhole(calls, events')
      /\ events' \in Opened
  BY <1>1, <1>3, <1>4, VendorAppend
<1>6. Vendored'
  BY <1>1, <1>2, <1>5 DEF LlmInv, Vendored
<1>7. QED
  BY <1>1, <1>2, <1>5, <1>6 DEF LlmInv, Asked, Sent, Recited, Reciting

LEMMA ReciteKeeps ==
    ASSUME LlmInv, StopsReciting \/ Recites \/ FinishesReciting
    PROVE  LlmInv'
<1>1. Reciting /\ status = "streaming"
  BY DEF StopsReciting, Recites, FinishesReciting, Reciting
<1>2. UNCHANGED <<provider, history, prompt>>
  BY DEF StopsReciting, Recites, FinishesReciting, Unread
<1>3. PICK script \in Seq(LlmEvents) : script = Script /\ script \in Opened /\ script = Script'
  <2>1. Script' = Script
    BY <1>2 DEF Script
  <2>2. QED
    BY <1>1, <2>1, ScriptIs DEF LlmInv, Opened
<1>4. /\ events = SubSeq(script, 1, at) /\ at \in 0..Len(script)
      /\ events \in Opened /\ events \in Seq(LlmEvents)
  BY <1>1, <1>3 DEF LlmInv, Recited, Sent, Opened
<1>5. CASE StopsReciting
  <2>1. PICK e \in LlmEvents : e = Plain("aborted") /\ e.event = "aborted"
    <3>1. "aborted" \in EventNames
      BY DEF EventNames
    <3>2. QED
      BY <3>1, PlainType
  <2>2. events' \in Opened
    BY <1>4, <1>5, <2>1, OpenedAppend DEF StopsReciting
  <2>3. status' = "aborted" /\ at' = at
    BY <1>5 DEF StopsReciting
  <2>4. QED
    BY <1>1, <1>2, <1>3, <1>4, <2>2, <2>3 DEF LlmInv, Asked, Sent, Recited, Reciting, Vendored
<1>6. CASE Recites
  <2>1. at \in 0..(Len(script) - 1) /\ at' = at + 1 /\ status' = status
    BY <1>3, <1>4, <1>6, LenProperties DEF Recites
  <2>2. events' = SubSeq(script, 1, at + 1)
    BY <1>3, <1>4, <1>6, <2>1, MoreOfPrefix DEF Recites
  <2>3. at + 1 \in 0..Len(script)
    BY <2>1, LenProperties
  <2>4. events' \in Opened
    BY <1>3, <2>2, <2>3, OpenedPrefix
  <2>5. Recited'
    BY <1>1, <1>3, <2>1, <2>2, <2>3 DEF Recited
  <2>6. at' \in Nat
    BY <2>1, <2>3, LenProperties
  <2>7. QED
    BY <1>1, <1>2, <2>4, <2>5, <2>6 DEF LlmInv, Asked, Sent, Reciting, Vendored
<1>7. CASE FinishesReciting
  <2>1. at = Len(script) /\ events' = events \o <<Plain("metadata"), Plain("done")>>
          /\ status' = "done" /\ at' = at
    BY <1>3, <1>7 DEF FinishesReciting
  <2>2. events = script
    BY <1>4, <2>1, SubSeqFull
  <2>3. events' \in Opened
    <3>1. PICK a \in LlmEvents, b \in LlmEvents : /\ a = Plain("metadata") /\ a.event = "metadata"
                                                  /\ b = Plain("done") /\ b.event = "done"
      <4>1. "metadata" \in EventNames /\ "done" \in EventNames
        BY DEF EventNames
      <4>2. QED
        BY <4>1, PlainType
    <3>2. events' = Append(Append(events, a), b)
      <4>1. events \o <<a, b>> = Append(Append(events, a), b)
        BY <1>4, TwoMore
      <4>2. QED
        BY <2>1, <3>1, <4>1
    <3>3. Append(events, a) \in Opened
      BY <1>4, <3>1, OpenedAppend
    <3>4. QED
      BY <3>1, <3>2, <3>3, OpenedAppend
  <2>4. Recited'
    BY <1>3, <1>4, <2>1, <2>2 DEF Recited
  <2>5. QED
    BY <1>1, <1>2, <2>1, <2>3, <2>4 DEF LlmInv, Asked, Sent, Reciting, Vendored
<1>8. QED
  BY <1>5, <1>6, <1>7

LEMMA OpenedIf == ASSUME NEW yes, NEW e \in LlmEvents, e.event # "tool_call_end"
                  PROVE  (IF yes THEN <<e>> ELSE <<>>) \in Opened
BY OpenedOne, OpenedNone

\* An update that tells of a call tells of its start first.
LEMMA MappedOpens ==
    ASSUME NEW content \in UpdateContents, events \in Opened
    PROVE  Mapped(content) \in Opened
<1>1. PICK id \in Nat : id = IF content.id = 0 THEN 100 + Len(events) ELSE content.id
  <2>1. content.id \in {0, 1}
    BY DEF UpdateContents
  <2>2. Len(events) \in Nat
    BY LenProperties DEF Opened
  <2>3. QED
    BY <2>1, <2>2
<1>2. PICK one \in Seq(Symbols) : one = <<id>>
  <2>1. id \in Symbols
    BY DEF Symbols
  <2>2. QED
    BY <2>1, OneElement
<1>3. PICK none \in Seq(Symbols) : none = <<>>
  BY EmptySeq
<1>4. /\ "tool_call_start" \in EventNames /\ "tool_call_end" \in EventNames
      /\ "tool_result" \in EventNames
  BY DEF EventNames
<1>5. CASE content.type = "function_call"
  <2>1. PICK a \in LlmEvents : /\ a = Ev("tool_call_start", id, none)
                               /\ a.event = "tool_call_start" /\ a.id = id
    BY <1>4, EvType
  <2>2. PICK data \in Seq(Symbols) : data = IF content.whole THEN one ELSE none
    OBVIOUS
  <2>3. PICK b \in LlmEvents : /\ b = Ev("tool_call_end", id, data)
                               /\ b.event = "tool_call_end" /\ b.id = id
    BY <1>4, EvType
  <2>4. PICK s : s = <<a, b>>
    OBVIOUS
  <2>5. s \in Seq(LlmEvents) /\ DOMAIN s = {1, 2} /\ s[1] = a /\ s[2] = b
    BY <2>4
  <2>6. OpensFirst(s)
    <3>1. 1 \in 1..(2 - 1)
      OBVIOUS
    <3>2. ASSUME NEW j \in DOMAIN s, s[j].event = "tool_call_end" PROVE j = 2
      BY <2>1, <2>5, <3>2
    <3>3. QED
      BY <2>1, <2>3, <2>5, <3>1, <3>2 DEF OpensFirst
  <2>7. Mapped(content) = s
    BY <1>1, <1>2, <1>3, <1>5, <2>1, <2>2, <2>3, <2>4 DEF Mapped
  <2>8. QED
    BY <2>5, <2>6, <2>7 DEF Opened
<1>6. CASE content.type = "function_result"
  <2>1. PICK e \in LlmEvents : e = Ev("tool_result", id, one) /\ e.event = "tool_result"
    BY <1>4, EvType
  <2>2. Mapped(content) = <<e>>
    BY <1>1, <1>2, <1>6, <2>1 DEF Mapped
  <2>3. QED
    BY <2>1, <2>2, OpenedOne
<1>7. CASE content.type # "function_call" /\ content.type # "function_result"
  <2>1. Mapped(content) = <<>>
    BY <1>7 DEF Mapped
  <2>2. QED
    BY <2>1, OpenedNone
<1>8. QED
  BY <1>5, <1>6, <1>7

LEMMA AgentKeeps ==
    ASSUME LlmInv, NEW text \in BOOLEAN, NEW content \in UpdateContents, AgentUpdate(text, content)
    PROVE  LlmInv'
<1>1. PICK e \in LlmEvents : e = Token(<<"t">>) /\ e.event # "tool_call_end"
  <2>1. PICK t \in Seq(Symbols) : t = <<"t">>
    <3>1. "t" \in Symbols
      BY Zenon DEF Symbols
    <3>2. QED
      BY <3>1, OneElement
  <2>2. PICK e \in LlmEvents : e = Token(t) /\ e.event = "token"
    BY TokenType
  <2>3. QED
    BY <2>1, <2>2
<1>2. PICK a \in Opened : a = IF text THEN <<e>> ELSE <<>>
  BY <1>1, OpenedIf
<1>3. events \in Opened /\ Mapped(content) \in Opened
  BY MappedOpens DEF LlmInv, Sent
<1>4. events' = (events \o a) \o Mapped(content)
  BY <1>1, <1>2 DEF AgentUpdate
<1>5. events' \in Opened
  <2>1. events \o a \in Opened
    BY <1>3, OpenedJoin
  <2>2. QED
    BY <1>3, <1>4, <2>1, OpenedJoin
<1>6. provider = "agent" /\ UNCHANGED <<provider, history, prompt>> /\ at' = at + 1
  BY DEF AgentUpdate
<1>7. QED
  BY <1>5, <1>6 DEF LlmInv, Asked, Sent, Recited, Reciting, Vendored

LEMMA StatusKeeps ==
    ASSUME LlmInv, AgentLeaves \/ SetsAbort \/ Closes \/ UNCHANGED llmVars
    PROVE  LlmInv'
<1>1. /\ UNCHANGED <<provider, history, prompt, at, calls, spelled, finished, events>>
      /\ \/ status' = status
         \/ provider = "agent"
         \/ status = "streaming" /\ status' = "closed"
  BY DEF AgentLeaves, SetsAbort, Closes, Unread, llmVars
<1>2. Script' = Script
  BY <1>1 DEF Script
<1>3. Asked' /\ Sent'
  BY <1>1 DEF LlmInv, Asked, Sent
<1>4. Recited'
  BY <1>1, <1>2 DEF LlmInv, Recited, Reciting
<1>5. Vendored'
  BY <1>1 DEF LlmInv, Vendored
<1>6. QED
  BY <1>3, <1>4, <1>5 DEF LlmInv

LEMMA LlmStarts == ASSUME LlmInit PROVE LlmInv
<1>1. Asked
  BY DEF LlmInit, Asked
<1>2. Sent
  BY OpenedNone DEF LlmInit, Sent
<1>3. Recited
  <2>1. ASSUME Reciting PROVE at \in 0..Len(Script) /\ events = SubSeq(Script, 1, at)
    <3>1. PICK script \in Seq(LlmEvents) : script = Script
      BY <1>1, <2>1, ScriptIs DEF Opened
    <3>2. Len(script) \in Nat /\ 0 < 1 /\ 0 \in Int /\ 1 \in Int
      BY LenProperties
    <3>3. SubSeq(script, 1, 0) = <<>>
      BY <3>2, SubSeqEmpty
    <3>4. QED
      BY <3>1, <3>2, <3>3 DEF LlmInit
  <2>2. QED
    BY <2>1 DEF LlmInit, Recited
<1>4. Vendored
  <2>1. calls = [i \in CallIndexes |-> <<>>] /\ spelled = calls /\ events = <<>> /\ finished = FALSE
        /\ status = "streaming"
    BY DEF LlmInit
  <2>2. calls \in HeardCalls
    <3>1. <<>> \in Seq(Nat)
      BY EmptySeq
    <3>2. QED
      BY <2>1, <3>1 DEF HeardCalls
  <2>3. OwnPieces(calls)
    BY <2>1, EmptySeq DEF OwnPieces
  <2>4. <<>> \in Seq(VendorEvents)
    BY EmptySeq
  <2>5. BeganOnce(calls, <<>>)
    BY <2>1 DEF BeganOnce, Places
  <2>6. QED
    BY <2>1, <2>2, <2>3, <2>4, <2>5 DEF Vendored
<1>5. QED
  BY <1>1, <1>2, <1>3, <1>4 DEF LlmInv

LEMMA LlmSteps == ASSUME LlmInv, [LlmNext]_llmVars PROVE LlmInv'
BY ReciteKeeps, VendorAdds, ReadsChunkKeeps, AgentKeeps, StatusKeeps DEF LlmNext

LEMMA WholeFromInv == ASSUME LlmInv PROVE AnswersAreWhole
<1>1. CallsOpenFirst
  BY DEF LlmInv, Sent, Opened, CallsOpenFirst
<1>2. CallsWhole
  <2>1. ASSUME provider = "openai", status = "done", finished, NEW i \in CallIndexes
        PROVE  LET ends == {j \in DOMAIN events : events[j].event = "tool_call_end" /\ events[j].id = i}
               IN  IF spelled[i] = <<>> THEN ends = {}
                   ELSE \E j \in DOMAIN events :
                          /\ ends = {j}
                          /\ events[j].data = IF Len(spelled[i]) = Fragments THEN spelled[i] ELSE <<>>
    <3>1. calls = spelled /\ OwnPieces(calls) /\ finished /\ EndedWhole(calls, events)
      BY <2>1 DEF LlmInv, Vendored
    <3>2. ParsedArguments(calls[i]) = IF Len(spelled[i]) = Fragments THEN spelled[i] ELSE <<>>
      <4>1. PICK heard \in Seq({i}) : heard = calls[i] /\ heard = spelled[i]
        BY <3>1 DEF OwnPieces
      <4>2. \A j \in DOMAIN heard : heard[j] = i
        <5>1. \A j \in 1..Len(heard) : heard[j] \in {i}
          BY ElementOfSeq
        <5>2. QED
          BY <5>1, LenProperties
      <4>3. QED
        BY <4>1, <4>2 DEF ParsedArguments
    <3>3. QED
      BY <3>1, <3>2 DEF EndedWhole, Places
  <2>2. QED
    BY <2>1 DEF CallsWhole
<1>3. RepliesWhole
  <2>1. ASSUME Reciting, status = "done"
        PROVE  /\ provider = "echo" => Letters(Said(events)) = Letters(EchoReply(UserMessage(history)))
               /\ provider = "mock" => Said(events) = MockText \o <<" ">> \o AfterTool
    <3>1. PICK script \in Seq(LlmEvents) :
            /\ script = Script
            /\ provider = "echo" => Letters(Said(script)) = Letters(EchoReply(UserMessage(history)))
            /\ provider = "mock" => Said(script) = MockText \o <<" ">> \o AfterTool
      BY <2>1, ScriptIs DEF LlmInv, Opened
    <3>2. events = script \o <<Plain("metadata"), Plain("done")>>
      BY <2>1, <3>1 DEF LlmInv, Recited
    <3>3. PICK a \in LlmEvents, b \in LlmEvents :
            /\ a = Plain("metadata") /\ a.event = "metadata" /\ b = Plain("done") /\ b.event = "done"
      <4>1. "metadata" \in EventNames /\ "done" \in EventNames
        BY DEF EventNames
      <4>2. QED
        BY <4>1, PlainType
    <3>4. Said(<<a>>) = <<>> /\ Said(<<b>>) = <<>>
      BY <3>3, SaidOne
    <3>5. PICK one \in Seq(LlmEvents), two \in Seq(LlmEvents) : one = <<a>> /\ two = <<b>>
      BY OneElement
    <3>6. events = (script \o one) \o two
      <4>1. script \o <<a, b>> = Append(Append(script, a), b)
        BY TwoMore
      <4>2. PICK more \in Seq(LlmEvents) : more = Append(script, a)
        BY AppendProperties
      <4>3. more = script \o one /\ Append(more, b) = more \o two
        BY <3>5, <4>2, AppendIsConcat
      <4>4. QED
        BY <3>2, <3>3, <4>1, <4>2, <4>3
    <3>7. Said(events) = Said(script)
      <4>1. PICK more \in Seq(LlmEvents) : more = script \o one
        BY ConcatProperties
      <4>2. Said(more \o two) = Said(more) \o Said(two) /\ Said(more) \in Seq(Symbols)
        BY SaidConcat
      <4>3. Said(script \o one) = Said(script) \o Said(one) /\ Said(script) \in Seq(Symbols)
        BY SaidConcat
      <4>4. Said(more) \o <<>> = Said(more) /\ Said(script) \o <<>> = Said(script)
        BY <4>2, <4>3, ConcatEmptySeq
      <4>5. QED
        BY <3>4, <3>5, <3>6, <4>1, <4>2, <4>3, <4>4
    <3>8. QED
      BY <3>1, <3>7
  <2>2. QED
    BY <2>1 DEF RepliesWhole, Reciting
<1>4. QueryAskedOnce
  <2>1. ASSUME history # <<>>, Last(history).role = "user"
        PROVE  /\ prompt.query = Last(history).text
               /\ Append(prompt.transcript, Last(history)) = Telling(Spoken(history))
    BY <2>1, AskedOnce DEF LlmInv, Asked
  <2>2. QED
    BY <2>1 DEF QueryAskedOnce
<1>5. QED
  BY <1>1, <1>2, <1>3, <1>4 DEF AnswersAreWhole

\* Whatever provider serves a turn (services/llm), its stream always ends the calls of a
\* message that was finished, each once and with its own arguments, recites its reply to the
\* last word, and is asked the query once.
THEOREM AnswersAlwaysWhole == LlmInit /\ [][LlmNext]_llmVars => []AnswersAreWhole
<1>1. LlmInit => LlmInv
  BY LlmStarts
<1>2. LlmInv /\ [LlmNext]_llmVars => LlmInv'
  BY LlmSteps
<1>3. LlmInv => AnswersAreWhole
  BY WholeFromInv
<1>4. QED
  BY <1>1, <1>2, <1>3, PTL

=============================================================================
