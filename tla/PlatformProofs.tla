--------------------------- MODULE PlatformProofs ---------------------------
(***************************************************************************)
(* The parts of the server that meet only in its process, each with the    *)
(* inductive invariant its promise needs, and all of them, with those of   *)
(* EndpointProofs, in PlatformSpec.                                        *)
(*   UserSeeding      a request may add a clone only because none was there*)
(*                    when it counted, and no other has come in between    *)
(*                    (SeedingInv)                                         *)
(*   ScenarioScope    every entry of every cache is of the scenario that   *)
(*                    keys it (CachesAreKeyed), and so is what a request   *)
(*                    holds                                                *)
(*   ToolAdapters     the lock's holder alone takes the client away,       *)
(*                    permits and holders add up, and the rows a call has  *)
(*                    are whole pages                                      *)
(*   TurnContext      what the loops of the budget keep, round after round,*)
(*                    and what a thread and a kept history consist of      *)
(*   RunEngine        the text and the calls of a pass, from one pass to   *)
(*                    the next                                             *)
(*   AgentCatalog     every cached entry is what the registry would build  *)
(*                    now, unless the configuration was read before it     *)
(*                    changed                                              *)
(*   OperatorTools    the entry that is picked is the best of the          *)
(*                    catalogue, in whatever order the loop meets them     *)
(* What a loop over data computes is shown by its run, the states it       *)
(* passes through, one per round: if a round went wrong there would be a   *)
(* first one (LeastNumber, Induction).                                     *)
(***************************************************************************)
EXTENDS Platform, EndpointProofs, FiniteSetTheorems, SequenceTheorems, WellFoundedInduction, TLAPS

(***************************************************************************)
(* Numbers and loops                                                       *)
(***************************************************************************)
Below == {p \in Nat \X Nat : p[1] < p[2]}
LEMMA BelowWF == IsWellFoundedOn(Below, Nat)
BY NatLessThanWellFounded, Zenon DEF OpToRel, Below

\* Every set of numbers that is not empty has a least one.
LEMMA LeastNumber == ASSUME NEW T, T \subseteq Nat, T # {} PROVE \E m \in T : \A n \in T : m <= n
<1>1. PICK m \in T : \A n \in T : ~ (<<n, m>> \in Below)
  BY BelowWF, WFMin
<1>2. \A n \in T : n \in Nat /\ m \in Nat /\ ~(n < m)
  BY <1>1 DEF Below
<1>3. QED
  BY <1>2

\* What holds for 0 and is passed on holds for every number.
LEMMA Induction ==
    ASSUME NEW T, NEW n \in Nat, 0 \in T, \A k \in 0..(n - 1) : k \in T => k + 1 \in T
    PROVE  \A k \in 0..n : k \in T
<1> DEFINE bad == {k \in 0..n : k \notin T}
<1> SUFFICES ASSUME bad # {} PROVE FALSE
  OBVIOUS
<1>1. PICK m \in bad : \A k \in bad : m <= k
  <2>1. bad \subseteq Nat
    OBVIOUS
  <2>2. QED
    BY <2>1, LeastNumber
<1>2. m # 0 /\ m \in 1..n
  BY <1>1
<1>3. m - 1 \in 0..(n - 1) /\ m - 1 \notin bad
  BY <1>1, <1>2
<1>4. QED
  BY <1>2, <1>3

\* A loop whose rounds turn one state of S into another goes through a run of states.
Loops(n, S) == [S \X (1..n) -> S]
IsRun(f, n, S, first, round) ==
  f \in [0..n -> S] /\ f[0] = first /\ \A k \in 1..n : f[k] = round[<<f[k - 1], k>>]

LEMMA LoopRuns ==
    ASSUME NEW n \in Nat, NEW S, NEW first \in S, NEW round \in Loops(n, S)
    PROVE  \E f : IsRun(f, n, S, first, round)
<1> DEFINE T == {m \in 0..n : \E f : IsRun(f, m, S, first, round)}
<1>1. 0 \in T
  <2> DEFINE f == [k \in 0..0 |-> first]
  <2>1. IsRun(f, 0, S, first, round)
    BY DEF IsRun
  <2>2. 0 \in 0..n
    OBVIOUS
  <2> HIDE DEF f
  <2>3. QED
    BY <2>1, <2>2
<1>2. ASSUME NEW m \in 0..(n - 1), m \in T PROVE m + 1 \in T
  <2>1. PICK f : IsRun(f, m, S, first, round)
    BY <1>2
  <2>2. PICK g : g = [k \in 0..(m + 1) |-> IF k = m + 1 THEN round[<<f[m], m + 1>>] ELSE f[k]]
    OBVIOUS
  <2>3. /\ m + 1 \in 1..n /\ m + 1 \in 0..n /\ m \in Nat /\ f[m] \in S
        /\ <<f[m], m + 1>> \in S \X (1..n)
    BY <2>1 DEF IsRun
  <2>4. round[<<f[m], m + 1>>] \in S
    BY <2>3 DEF Loops
  <2>5. g \in [0..(m + 1) -> S]
    BY <2>1, <2>2, <2>3, <2>4 DEF IsRun
  <2>6. /\ \A k \in 0..m : g[k] = f[k]
        /\ g[m + 1] = round[<<f[m], m + 1>>] /\ m + 1 \in Nat /\ (m + 1) - 1 = m
    BY <2>2, <2>3
  <2>7. ASSUME NEW k \in 1..(m + 1) PROVE g[k] = round[<<g[k - 1], k>>]
    <3>1. CASE k = m + 1
      BY <2>3, <2>6, <3>1
    <3>2. CASE k \in 1..m
      BY <2>1, <2>6, <3>2 DEF IsRun
    <3>3. QED
      BY <2>3, <3>1, <3>2
  <2>8. IsRun(g, m + 1, S, first, round)
    BY <2>1, <2>3, <2>5, <2>6, <2>7 DEF IsRun
  <2>9. QED
    BY <2>3, <2>8
<1>3. \A k \in 0..n : k \in T
  <2> HIDE DEF T
  <2>1. QED
    BY <1>1, <1>2, Induction
<1>4. QED
  BY <1>3

\* The states of a run that starts in S and keeps to S.
LEMMA RunStays ==
    ASSUME NEW n \in Nat, NEW S, NEW f, f = [k \in 0..n |-> f[k]], f[0] \in S,
           \A k \in 1..n : f[k - 1] \in S => f[k] \in S
    PROVE  f \in [0..n -> S]
<1> DEFINE T == {k \in 0..n : f[k] \in S}
<1>1. ASSUME NEW k \in 0..(n - 1), k \in T PROVE k + 1 \in T
  <2>1. k + 1 \in 1..n /\ k + 1 \in 0..n /\ (k + 1) - 1 = k
    OBVIOUS
  <2>2. QED
    BY <1>1, <2>1
<1>2. 0 \in T
  OBVIOUS
<1>3. \A k \in 0..n : k \in T
  <2> HIDE DEF T
  <2>1. QED
    BY <1>1, <1>2, Induction
<1>4. QED
  BY <1>3

(***************************************************************************)
(* Demo seeding (UserSeeding)                                              *)
(***************************************************************************)
Labels == {"idle", "count", "fetch", "persist", "query", "deleting", "clear", "done"}

\* The part of TypeOK the argument needs.
SeedingTyped ==
    /\ clones \in SUBSET Clones
    /\ pc \in [Requests -> Labels]
    /\ todo \in [Requests -> SUBSET Templates]
    /\ again \in [Requests -> BOOLEAN]

SeedingIInv == SeedingTyped /\ SeedingInv /\ NoDuplicates

LEMMA SeedingInitIInv == Init /\ Serial => SeedingIInv
BY DEF Init, SeedingIInv, SeedingTyped, SeedingInv, NoDuplicates, Labels, ClonesOf, Busy

\* A request that only moves on, to a label that is neither "fetch" nor "persist",
\* and takes clones away at most, keeps the invariant.
LEMMA SeedingMovesOn ==
    ASSUME SeedingIInv, Serial, NEW p \in Requests, NEW label \in Labels \ {"fetch", "persist", "idle"},
           pc' = [pc EXCEPT ![p] = label], p \in Busy \/ Busy = {},
           clones' \in SUBSET clones, UNCHANGED todo, again' \in [Requests -> BOOLEAN]
    PROVE  SeedingIInv'
<1>1. SeedingTyped'
  BY DEF SeedingIInv, SeedingTyped, Labels
<1>2. NoDuplicates'
  BY DEF SeedingIInv, NoDuplicates
<1>3. Busy' \subseteq Busy \cup {p}
  BY DEF Busy, SeedingIInv, SeedingTyped
<1>4. \A q, r \in Busy' : q = r
  BY <1>3 DEF SeedingIInv, SeedingInv
<1>5. ASSUME NEW q \in Requests
      PROVE  /\ pc'[q] = "fetch" => clones' = {}
             /\ pc'[q] = "persist" => \A t \in todo'[q] : ClonesOf(t)' = {}
  BY <1>5 DEF SeedingIInv, SeedingInv, SeedingTyped, ClonesOf, Labels
<1>6. QED
  BY <1>1, <1>2, <1>4, <1>5 DEF SeedingIInv, SeedingInv

LEMMA SeedingNextIInv == SeedingIInv /\ Serial /\ [Next]_vars => SeedingIInv'
<1> SUFFICES ASSUME SeedingIInv, Serial, [Next]_vars PROVE SeedingIInv'
  OBVIOUS
<1>0. SeedingTyped /\ NoDuplicates /\ \A p, q \in Busy : p = q
  BY DEF SeedingIInv, SeedingInv
<1>1. ASSUME NEW p \in Requests, Start(p)
      PROVE  SeedingIInv'
  <2>1. PICK label \in {"done", "query", "count", "clear"} : pc' = [pc EXCEPT ![p] = label]
    BY <1>1 DEF Start, Enter, Return, Goto
  <2>2. QED
    BY <1>0, <1>1, <2>1, SeedingMovesOn DEF Start, Labels, SeedingTyped
<1>2. ASSUME NEW p \in Requests, Count(p)
      PROVE  SeedingIInv'
  <2>1. CASE pc' = [pc EXCEPT ![p] = "fetch"] /\ ~OwnsSessions
    <3>1. clones = {} /\ UNCHANGED <<clones, todo, again>>
      BY <1>2, <2>1 DEF Count, OwnsSessions
    <3>2. SeedingTyped' /\ NoDuplicates'
      BY <1>0, <2>1, <3>1 DEF SeedingTyped, NoDuplicates, Labels
    <3>3. Busy' = Busy
      BY <1>0, <1>2, <2>1 DEF Busy, Count, SeedingTyped
    <3>4. ASSUME NEW q \in Requests
          PROVE  /\ pc'[q] = "fetch" => clones' = {}
                 /\ pc'[q] = "persist" => \A t \in todo'[q] : ClonesOf(t)' = {}
      BY <3>1 DEF ClonesOf
    <3>5. QED
      BY <1>0, <3>2, <3>3, <3>4 DEF SeedingIInv, SeedingInv
  <2>2. CASE Return(p)
    <3>1. PICK label \in {"done", "query"} : pc' = [pc EXCEPT ![p] = label]
      BY <2>2 DEF Return, Goto
    <3>2. p \in Busy /\ UNCHANGED <<clones, todo, again>>
      BY <1>2 DEF Busy, Count
    <3>3. QED
      BY <1>0, <3>1, <3>2, SeedingMovesOn DEF Labels, SeedingTyped
  <2>3. QED
    BY <1>2, <2>1, <2>2 DEF Count, Goto
<1>3. ASSUME NEW p \in Requests, Fetch(p)
      PROVE  SeedingIInv'
  <2>1. /\ pc[p] = "fetch" /\ pc' = [pc EXCEPT ![p] = "persist"]
        /\ UNCHANGED <<clones, again>> /\ clones = {}
    BY <1>3 DEF Fetch, Goto, SeedingIInv, SeedingInv
  <2>2. todo' \in [Requests -> SUBSET Templates]
    BY <1>0, <1>3 DEF Fetch, SeedingTyped
  <2>3. SeedingTyped' /\ NoDuplicates'
    BY <1>0, <2>1, <2>2 DEF SeedingTyped, NoDuplicates, Labels
  <2>4. Busy' = Busy
    BY <1>0, <2>1 DEF Busy, SeedingTyped
  <2>5. ASSUME NEW q \in Requests
        PROVE  /\ pc'[q] = "fetch" => clones' = {}
               /\ pc'[q] = "persist" => \A t \in todo'[q] : ClonesOf(t)' = {}
    BY <2>1 DEF ClonesOf
  <2>6. QED
    BY <1>0, <2>3, <2>4, <2>5 DEF SeedingIInv, SeedingInv
<1>4. ASSUME NEW p \in Requests, Persist(p)
      PROVE  SeedingIInv'
  <2>1. PICK t \in todo[p] : /\ todo' = [todo EXCEPT ![p] = @ \ {t}]
                             /\ AddClone(p, t) \/ UNCHANGED clones
    BY <1>4 DEF Persist
  <2>2. pc[p] = "persist" /\ UNCHANGED <<pc, again>> /\ t \in Templates
    BY <1>0, <1>4 DEF Persist, SeedingTyped
  <2>3. ClonesOf(t) = {}
    BY <2>1, <2>2 DEF SeedingIInv, SeedingInv
  <2> DEFINE c == [of |-> t, by |-> p, again |-> again[p]]
  <2>4. c \in Clones /\ c.of = t
    BY <1>0, <2>2 DEF SeedingTyped, Clones
  <2>5. clones' \in {clones, clones \cup {c}}
    BY <2>1 DEF AddClone
  <2> HIDE DEF c
  <2>6. SeedingTyped'
    <3>1. todo' \in [Requests -> SUBSET Templates]
      BY <1>0, <2>1 DEF SeedingTyped
    <3>2. clones' \in SUBSET Clones
      BY <1>0, <2>4, <2>5 DEF SeedingTyped
    <3>3. QED
      BY <1>0, <2>2, <3>1, <3>2 DEF SeedingTyped
  <2>7. NoDuplicates'
    BY <1>0, <2>3, <2>4, <2>5 DEF NoDuplicates, ClonesOf
  <2>8. Busy' = Busy /\ p \in Busy
    BY <2>2 DEF Busy
  <2>9. ASSUME NEW q \in Requests
        PROVE  /\ pc'[q] = "fetch" => clones' = {}
               /\ pc'[q] = "persist" => \A u \in todo'[q] : ClonesOf(u)' = {}
    <3>1. CASE q = p
      <4>1. \A u \in todo'[p] : u \in todo[p] /\ u # t
        BY <1>0, <2>1 DEF SeedingTyped
      <4>2. \A u \in todo[p] : ClonesOf(u) = {}
        BY <2>2 DEF SeedingIInv, SeedingInv
      <4>3. \A u \in todo'[p] : ClonesOf(u)' = {}
        BY <2>4, <2>5, <4>1, <4>2 DEF ClonesOf
      <4>4. QED
        BY <2>2, <3>1, <4>3
    <3>2. CASE q # p
      BY <1>0, <2>2, <2>8, <3>2 DEF Busy
    <3>3. QED
      BY <3>1, <3>2
  <2>10. QED
    BY <1>0, <2>6, <2>7, <2>8, <2>9 DEF SeedingIInv, SeedingInv
<1>5. ASSUME NEW p \in Requests, MarkSeeded(p)
      PROVE  SeedingIInv'
  <2>1. PICK label \in {"done", "query"} : pc' = [pc EXCEPT ![p] = label]
    BY <1>5 DEF MarkSeeded, Return, Goto
  <2>2. p \in Busy /\ UNCHANGED <<clones, todo, again>>
    BY <1>5 DEF Busy, MarkSeeded
  <2>3. QED
    BY <1>0, <2>1, <2>2, SeedingMovesOn DEF Labels, SeedingTyped
<1>6. ASSUME NEW p \in Requests, Query(p)
      PROVE  SeedingIInv'
  <2>1. PICK label \in {"done", "deleting", "clear"} : pc' = [pc EXCEPT ![p] = label]
    BY <1>6 DEF Query, Goto
  <2>2. p \in Busy /\ UNCHANGED <<clones, todo, again>>
    BY <1>6 DEF Busy, Query
  <2>3. QED
    BY <1>0, <2>1, <2>2, SeedingMovesOn DEF Labels, SeedingTyped
<1>7. ASSUME NEW p \in Requests, Delete(p)
      PROVE  SeedingIInv'
  <2>1. PICK label \in {"deleting", "clear"} : pc' = [pc EXCEPT ![p] = label]
    BY <1>0, <1>7 DEF Delete, Goto, SeedingTyped
  <2>2. p \in Busy /\ clones' \in SUBSET clones /\ UNCHANGED <<todo, again>>
    BY <1>7 DEF Busy, Delete
  <2>3. QED
    BY <1>0, <2>1, <2>2, SeedingMovesOn DEF Labels, SeedingTyped
<1>8. ASSUME NEW p \in Requests, Clear(p)
      PROVE  SeedingIInv'
  <2>1. PICK label \in {"done", "count"} : pc' = [pc EXCEPT ![p] = label]
    BY <1>8 DEF Clear, Goto
  <2>2. p \in Busy /\ UNCHANGED <<clones, todo>> /\ again' \in [Requests -> BOOLEAN]
    BY <1>0, <1>8 DEF Busy, Clear, SeedingTyped
  <2>3. QED
    BY <1>0, <2>1, <2>2, SeedingMovesOn DEF Labels
<1>9. CASE Manual
  BY <1>9 DEF Manual, requests, SeedingIInv, SeedingTyped, SeedingInv, NoDuplicates, ClonesOf, Busy
<1>10. CASE Restart
  <2>1. /\ UNCHANGED clones /\ todo' = [p \in Requests |-> {}]
        /\ again' \in [Requests -> BOOLEAN]
        /\ pc' = [p \in Requests |-> IF p \in Busy THEN "done" ELSE pc[p]]
    BY <1>10 DEF Restart
  <2>2. \A p \in Requests : pc'[p] \in {"idle", "done"}
    BY <2>1 DEF Busy
  <2>3. Busy' = {}
    BY <2>2 DEF Busy
  <2>4. SeedingTyped' /\ NoDuplicates'
    BY <1>0, <2>1, <2>2 DEF SeedingTyped, NoDuplicates, Labels
  <2>5. QED
    BY <2>2, <2>3, <2>4 DEF SeedingIInv, SeedingInv
<1>11. CASE UNCHANGED vars
  BY <1>11 DEF vars, requests, SeedingIInv, SeedingTyped, SeedingInv, NoDuplicates, ClonesOf, Busy
<1>12. QED
  BY <1>1, <1>2, <1>3, <1>4, <1>5, <1>6, <1>7, <1>8, <1>9, <1>10, <1>11 DEF Next

\* A client that waits for each answer never gets a demo session twice, through
\* failures of Cosmos, resets and restarts of the server (_ensure_user_seeded,
\* reset_defaults).
THEOREM SerialSeedingMakesNoDuplicates == Serial /\ Spec => []NoDuplicates
<1>1. SeedingIInv => NoDuplicates
  BY DEF SeedingIInv
<1>2. ASSUME Serial PROVE Init => SeedingIInv
  BY <1>2, SeedingInitIInv
<1>3. ASSUME Serial PROVE SeedingIInv /\ [Next]_vars => SeedingIInv'
  BY <1>3, SeedingNextIInv
<1>4. QED
  <2>1. ASSUME Serial PROVE Spec => []NoDuplicates
    <3>1. Init => SeedingIInv
      BY <2>1, <1>2
    <3>2. SeedingIInv /\ [Next]_vars => SeedingIInv'
      BY <2>1, <1>3
    <3>3. QED
      BY <3>1, <3>2, <1>1, PTL DEF Spec
  <2>2. QED
    BY <2>1

(***************************************************************************)
(* Scenario packs and request scope (ScenarioScope)                        *)
(***************************************************************************)
ScenarioNames == Packs \cup {""}
Manifests == [of : Packs \cup {"", "none"}, version : Int]
\* What belongs to one scenario.
ManifestsOf(name) == {m \in Manifests : Of(m, name)}
ScopesOf(name) == [scenario : {name}, yaml : ManifestsOf(name), registry : Int]

\* Entries of the caches, whose values are of the scenario that is their key.
KeptManifests == {e \in [key : ScenarioNames, value : Manifests] : e.value \in ManifestsOf(e.key)}
KeptScopes == {e \in [key : ScenarioNames,
                      value : [scenario : ScenarioNames, yaml : Manifests, registry : Int]] :
                 e.value \in ScopesOf(e.key)}

CachesAreKeyed ==
  /\ manifests \in Seq(KeptManifests) /\ Len(manifests) <= ScopeMax
  /\ scopes \in Seq(KeptScopes) /\ Len(scopes) <= ScopeMax
  /\ blocks \in Seq(KeptManifests) /\ Len(blocks) <= AgentsMax

\* A request that runs holds what is of its scenario, and one that is over was answered
\* from nothing else.
StaysApart(s) ==
  /\ s.at \in {"new", "running", "done", "found", "ran", "failed"}
  /\ s.at \in {"running", "done"} => s.scenario \in ScenarioNames
  /\ s.at = "running" => /\ s.scope \in ScopesOf(s.scenario)
                         /\ s.agents \in ManifestsOf(s.scenario)
  /\ s.at = "done" => /\ s.read \subseteq ManifestsOf(s.scenario)
                      /\ s.url # NoUrl => s.url.scenario = s.scenario

ScopeTyped == disk \in [Packs -> Int] /\ registry \in Int /\ edits \in Nat

SwapsStayApart == /\ swaps = [r \in Swaps |-> swaps[r]]
                  /\ \A r \in Swaps : StaysApart(swaps[r])

ScopeIInv == ScopeTyped /\ CachesAreKeyed /\ SwapsStayApart
LEMMA RoomIsLeft ==
    ASSUME NEW S, NEW list \in Seq(S), NEW max \in Nat \ {0}, Len(list) <= max
    PROVE  Room(list, max) \in Seq(S) /\ Len(Room(list, max)) + 1 <= max
<1>1. CASE Len(list) >= max
  <2>1. list # <<>>
    BY <1>1, EmptySeq
  <2>2. Tail(list) \in Seq(S) /\ Len(Tail(list)) = Len(list) - 1
    BY <2>1, HeadTailProperties
  <2>3. QED
    BY <1>1, <2>2, LenProperties DEF Room
<1>2. CASE ~(Len(list) >= max)
  BY <1>2, LenProperties DEF Room
<1>3. QED
  BY <1>1, <1>2

LEMMA EntryIsTakenOut ==
    ASSUME NEW S, NEW list \in Seq(S), NEW i \in DOMAIN list
    PROVE  Without(list, i) \in Seq(S) /\ Len(Without(list, i)) + 1 = Len(list)
<1> DEFINE front == SubSeq(list, 1, i - 1)
           back == SubSeq(list, i + 1, Len(list))
<1>1. Len(list) \in Nat /\ i \in 1..Len(list)
  BY LenProperties
<1>2. front \in Seq(S) /\ Len(front) = i - 1
  <2>1. \A j \in 1..(i - 1) : list[j] \in S
    BY <1>1, ElementOfSeq
  <2>2. Len(front) = IF 1 <= i - 1 THEN i - 1 - 1 + 1 ELSE 0
    BY <1>1, <2>1, SubSeqProperties
  <2>3. QED
    BY <1>1, <2>1, <2>2, SubSeqProperties
<1>3. back \in Seq(S) /\ Len(back) = Len(list) - i
  <2>1. \A j \in (i + 1)..Len(list) : list[j] \in S
    BY <1>1, ElementOfSeq
  <2>2. Len(back) = IF i + 1 <= Len(list) THEN Len(list) - (i + 1) + 1 ELSE 0
    BY <1>1, <2>1, SubSeqProperties
  <2>3. QED
    BY <1>1, <2>1, <2>2, SubSeqProperties
<1>4. front \o back \in Seq(S) /\ Len(front \o back) = Len(front) + Len(back)
  BY <1>2, <1>3, ConcatProperties
<1>5. Without(list, i) = front \o back
  BY DEF Without
<1> HIDE DEF front, back
<1>6. (i - 1) + (Len(list) - i) + 1 = Len(list)
  BY <1>1
<1>7. QED
  BY <1>2, <1>3, <1>4, <1>5, <1>6

LEMMA EntryIsAdded ==
    ASSUME NEW S, NEW list \in Seq(S), NEW entry \in S, NEW max \in Nat, Len(list) + 1 <= max
    PROVE  Append(list, entry) \in Seq(S) /\ Len(Append(list, entry)) <= max
BY AppendProperties, LenProperties

\* What a list answers with is the value of an entry with that key.
LEMMA EntryIsFound ==
    ASSUME NEW S, NEW list \in Seq(S), NEW key, Has(list, key)
    PROVE  /\ Position(list, key) \in DOMAIN list
           /\ \E entry \in S : entry.key = key /\ At(list, key) = entry.value
<1>1. /\ Position(list, key) \in DOMAIN list
      /\ list[Position(list, key)].key = key
  BY DEF Has, Position
<1>2. list[Position(list, key)] \in S
  BY <1>1, ElementOfSeq, LenProperties
<1>3. QED
  BY <1>1, <1>2 DEF At

LEMMA NothingIsKeyed ==
    /\ <<>> \in Seq(KeptManifests) /\ <<>> \in Seq(KeptScopes) /\ Len(<<>>) = 0
    /\ 0 <= ScopeMax /\ 0 <= AgentsMax
<1>1. <<>> \in Seq(KeptManifests) /\ Len(<<>>) = 0
  BY EmptySeq
<1>2. <<>> \in Seq(KeptScopes)
  BY EmptySeq
<1>3. 0 <= ScopeMax /\ 0 <= AgentsMax
  <2>1. ScopeMax \in Nat \ {0} /\ AgentsMax \in Nat \ {0}
    BY ScopeAssumption
  <2>2. QED
    BY <2>1
<1>4. QED
  BY <1>1, <1>2, <1>3

\* The answers of the two caches.
LEMMA KeptManifestIsFound ==
    ASSUME NEW list \in Seq(KeptManifests), NEW name, Has(list, name)
    PROVE  At(list, name) \in ManifestsOf(name)
<1>1. PICK entry \in KeptManifests : entry.key = name /\ At(list, name) = entry.value
  BY EntryIsFound
<1>2. QED
  BY <1>1 DEF KeptManifests

LEMMA KeptScopeIsFound ==
    ASSUME NEW list \in Seq(KeptScopes), NEW name, Has(list, name)
    PROVE  At(list, name) \in ScopesOf(name)
<1>1. PICK entry \in KeptScopes : entry.key = name /\ At(list, name) = entry.value
  BY EntryIsFound
<1>2. QED
  BY <1>1 DEF KeptScopes

LEMMA FilesAreOfTheirPack ==
    ASSUME ScopeTyped, NEW name \in ScenarioNames
    PROVE  /\ Parsed(name) \in ManifestsOf(name) /\ get_scenario_file(name) \in ManifestsOf(name)
           /\ NoManifest \in ManifestsOf(name)
<1>1. NoManifest \in ManifestsOf(name)
  BY DEF NoManifest, Manifest, ManifestsOf, Manifests, Of
<1>2. ASSUME OnDisk(name)
      PROVE  Manifest(name, disk[name]) \in ManifestsOf(name)
  <2>1. name \in Packs /\ disk[name] \in Int
    BY <1>2 DEF OnDisk, ScopeTyped
  <2>2. Manifest(name, disk[name]) \in Manifests
    BY <2>1 DEF Manifest, Manifests
  <2>3. QED
    BY <2>2 DEF Manifest, ManifestsOf, Of
<1>3. QED
  BY <1>1, <1>2 DEF Parsed, get_scenario_file

LEMMA LoadYamlIsKeyed ==
    ASSUME ScopeTyped, CachesAreKeyed, NEW name \in ScenarioNames, NEW explicit
    PROVE  LET yaml == LoadYaml(name, explicit)
           IN  /\ yaml.value \in ManifestsOf(name)
               /\ yaml.cache \in Seq(KeptManifests) /\ Len(yaml.cache) <= ScopeMax
<1> DEFINE value == IF Has(manifests, name) THEN At(manifests, name) ELSE Parsed(name)
           kept == IF Has(manifests, name) THEN Without(manifests, Position(manifests, name))
                   ELSE Room(manifests, ScopeMax)
<1>1. value \in ManifestsOf(name)
  <2>1. CASE Has(manifests, name)
    BY <2>1, KeptManifestIsFound DEF CachesAreKeyed
  <2>2. CASE ~Has(manifests, name)
    BY <2>2, FilesAreOfTheirPack
  <2>3. QED
    BY <2>1, <2>2
<1>2. kept \in Seq(KeptManifests) /\ Len(kept) + 1 <= ScopeMax
  <2>1. CASE Has(manifests, name)
    <3>1. Position(manifests, name) \in DOMAIN manifests
      BY <2>1, EntryIsFound DEF CachesAreKeyed
    <3>2. kept \in Seq(KeptManifests) /\ Len(kept) + 1 = Len(manifests)
      BY <2>1, <3>1, EntryIsTakenOut DEF CachesAreKeyed
    <3>3. QED
      BY <3>2 DEF CachesAreKeyed
  <2>2. CASE ~Has(manifests, name)
    BY <2>2, RoomIsLeft, ScopeAssumption DEF CachesAreKeyed
  <2>3. QED
    BY <2>1, <2>2
<1>3. Entry(name, value) \in KeptManifests
  BY <1>1 DEF Entry, KeptManifests, ManifestsOf
<1>4. /\ LoadYaml(name, explicit).value = value
      /\ LoadYaml(name, explicit).cache = Append(kept, Entry(name, value))
  BY DEF LoadYaml, Key
<1> HIDE DEF value, kept
<1>5. /\ Append(kept, Entry(name, value)) \in Seq(KeptManifests)
      /\ Len(Append(kept, Entry(name, value))) <= ScopeMax
  BY <1>2, <1>3, EntryIsAdded, ScopeAssumption
<1>6. QED
  BY <1>1, <1>4, <1>5

LEMMA AgentsBlockIsKeyed ==
    ASSUME ScopeTyped, CachesAreKeyed, NEW name \in ScenarioNames, NEW scope \in ScopesOf(name)
    PROVE  LET found == AgentsBlock(scope)
           IN  /\ found.value \in ManifestsOf(name)
               /\ found.manifests \in Seq(KeptManifests) /\ Len(found.manifests) <= ScopeMax
               /\ found.cache \in Seq(KeptManifests) /\ Len(found.cache) <= AgentsMax
<1>0. scope.scenario = name /\ scope.yaml \in ManifestsOf(name)
  BY DEF ScopesOf
<1> DEFINE cached == Has(blocks, name)
           yaml == IF scope.yaml # NoManifest \/ cached
                   THEN [value |-> scope.yaml, cache |-> manifests]
                   ELSE LoadYaml(name, FALSE)
           loaded == IF cached THEN At(blocks, name) ELSE yaml.value
           kept == IF cached \/ loaded = NoManifest THEN blocks
                   ELSE Append(Room(blocks, AgentsMax), Entry(name, loaded))
<1>1. /\ yaml.value \in ManifestsOf(name)
      /\ yaml.cache \in Seq(KeptManifests) /\ Len(yaml.cache) <= ScopeMax
  BY <1>0, LoadYamlIsKeyed DEF CachesAreKeyed
<1> HIDE DEF yaml
<1>2. loaded \in ManifestsOf(name)
  <2>1. CASE cached
    BY <2>1, KeptManifestIsFound DEF CachesAreKeyed
  <2>2. CASE ~cached
    BY <1>1, <2>2
  <2>3. QED
    BY <2>1, <2>2
<1> HIDE DEF loaded
<1>3. Entry(name, loaded) \in KeptManifests
  BY <1>2 DEF Entry, KeptManifests, ManifestsOf
<1>4. kept \in Seq(KeptManifests) /\ Len(kept) <= AgentsMax
  <2>1. Room(blocks, AgentsMax) \in Seq(KeptManifests) /\ Len(Room(blocks, AgentsMax)) + 1 <= AgentsMax
    BY RoomIsLeft, ScopeAssumption DEF CachesAreKeyed
  <2>2. Append(Room(blocks, AgentsMax), Entry(name, loaded)) \in Seq(KeptManifests)
        /\ Len(Append(Room(blocks, AgentsMax), Entry(name, loaded))) <= AgentsMax
    BY <1>3, <2>1, EntryIsAdded, ScopeAssumption
  <2>3. QED
    BY <2>2 DEF CachesAreKeyed
<1> HIDE DEF kept, cached
<1>5. /\ AgentsBlock(scope).value = loaded /\ AgentsBlock(scope).manifests = yaml.cache
      /\ AgentsBlock(scope).cache = kept
  BY <1>0 DEF AgentsBlock, yaml, loaded, kept, cached
<1>6. QED
  BY <1>1, <1>2, <1>4, <1>5

LEMMA ResolvedIsAName ==
    ASSUME NEW header, NEW user
    PROVE  Resolved(header, user) \in ScenarioNames
BY ScopeAssumption DEF Resolved, OnDisk, ScenarioNames

LEMMA RequestMovesOn ==
    ASSUME SwapsStayApart, NEW r \in Swaps, NEW s, StaysApart(s), swaps' = [swaps EXCEPT ![r] = s]
    PROVE  SwapsStayApart'
<1>1. /\ swaps' = [q \in Swaps |-> swaps'[q]] /\ swaps'[r] = s
      /\ \A q \in Swaps \ {r} : swaps'[q] = swaps[q]
  BY DEF SwapsStayApart
<1>2. \A q \in Swaps : StaysApart(swaps'[q])
  BY <1>1 DEF SwapsStayApart
<1>3. \A q \in Swaps : StaysApart(swaps[q])' <=> StaysApart(swaps'[q])
  BY DEF StaysApart
<1>4. QED
  BY <1>1, <1>2, <1>3 DEF SwapsStayApart

LEMMA EntersKeepsIInv ==
    ASSUME ScopeIInv, NEW r \in Swaps, Enters(r) PROVE ScopeIInv'
<1> USE DEF ScopeIInv
<1>1. PICK user \in Oids, header \in Packs \cup {"", "unknown"} :
        LET scenario == Resolved(header, user)
            yaml == IF scenario = "" THEN [value |-> NoManifest, cache |-> manifests]
                    ELSE LoadYaml(scenario, TRUE)
            scope == Scope(scenario, yaml.value)
            begin(s) == [at |-> "running", user |-> user,
                         scenario |-> scenario, scope |-> s, agents |-> NoManifest]
        IN \/ /\ Has(scopes, scenario)
              /\ swaps' = [swaps EXCEPT ![r] = begin(At(scopes, scenario))]
              /\ UNCHANGED <<manifests, scopes>>
           \/ /\ ~Has(scopes, scenario) /\ (registry >= 0 \/ scenario = "")
              /\ swaps' = [swaps EXCEPT ![r] = begin(scope)]
              /\ manifests' = yaml.cache
              /\ scopes' = Append(Room(scopes, ScopeMax), Entry(scenario, scope))
           \/ /\ ~Has(scopes, scenario) /\ registry < 0 /\ scenario # ""
              /\ Fail(r) /\ manifests' = yaml.cache /\ UNCHANGED scopes
  BY DEF Enters
<1> DEFINE scenario == Resolved(header, user)
           yaml == IF scenario = "" THEN [value |-> NoManifest, cache |-> manifests]
                   ELSE LoadYaml(scenario, TRUE)
           scope == Scope(scenario, yaml.value)
           begin(s) == [at |-> "running", user |-> user,
                        scenario |-> scenario, scope |-> s, agents |-> NoManifest]
<1>2. \/ /\ Has(scopes, scenario)
         /\ swaps' = [swaps EXCEPT ![r] = begin(At(scopes, scenario))]
         /\ UNCHANGED <<manifests, scopes>>
      \/ /\ ~Has(scopes, scenario)
         /\ swaps' = [swaps EXCEPT ![r] = begin(scope)]
         /\ manifests' = yaml.cache
         /\ scopes' = Append(Room(scopes, ScopeMax), Entry(scenario, scope))
      \/ Fail(r) /\ manifests' = yaml.cache /\ UNCHANGED scopes
  BY <1>1
<1>3. scenario \in ScenarioNames
  BY ResolvedIsAName
<1> HIDE DEF scenario
<1>4. /\ yaml.value \in ManifestsOf(scenario)
      /\ yaml.cache \in Seq(KeptManifests) /\ Len(yaml.cache) <= ScopeMax
  BY <1>3, LoadYamlIsKeyed, FilesAreOfTheirPack DEF CachesAreKeyed
<1> HIDE DEF yaml
<1>5. scope \in ScopesOf(scenario) /\ NoManifest \in ManifestsOf(scenario)
  BY <1>3, <1>4, FilesAreOfTheirPack DEF Scope, ScopesOf, ScopeTyped
<1>6. ASSUME NEW s \in ScopesOf(scenario)
      PROVE  StaysApart(begin(s))
  BY <1>3, <1>5 DEF StaysApart
<1>7. UNCHANGED <<disk, registry, edits, blocks>>
  BY DEF Enters
<1>8. CASE Has(scopes, scenario) /\ swaps' = [swaps EXCEPT ![r] = begin(At(scopes, scenario))]
           /\ UNCHANGED <<manifests, scopes>>
  <2>0. scopes \in Seq(KeptScopes) /\ Has(scopes, scenario)
    BY <1>8 DEF CachesAreKeyed
  <2>2. At(scopes, scenario) \in ScopesOf(scenario)
    BY <2>0, KeptScopeIsFound
  <2>3. SwapsStayApart'
    BY <1>6, <1>8, <2>2, RequestMovesOn
  <2>4. QED
    BY <1>7, <1>8, <2>3 DEF ScopeTyped, CachesAreKeyed
<1>9. CASE /\ swaps' = [swaps EXCEPT ![r] = begin(scope)] /\ manifests' = yaml.cache
           /\ scopes' = Append(Room(scopes, ScopeMax), Entry(scenario, scope))
  <2>1. Entry(scenario, scope) \in KeptScopes
    BY <1>3, <1>5 DEF Entry, KeptScopes, ScopesOf, ManifestsOf
  <2>2. scopes' \in Seq(KeptScopes) /\ Len(scopes') <= ScopeMax
    BY <1>9, <2>1, RoomIsLeft, EntryIsAdded, ScopeAssumption DEF CachesAreKeyed
  <2>3. SwapsStayApart'
    BY <1>5, <1>6, <1>9, RequestMovesOn
  <2>4. QED
    BY <1>4, <1>7, <1>9, <2>2, <2>3 DEF ScopeTyped, CachesAreKeyed
<1>10. CASE Fail(r) /\ manifests' = yaml.cache /\ UNCHANGED scopes
  <2>1. StaysApart([at |-> "failed"])
    BY DEF StaysApart
  <2>2. SwapsStayApart'
    BY <1>10, <2>1, RequestMovesOn DEF Fail
  <2>3. QED
    BY <1>4, <1>7, <1>10, <2>2 DEF ScopeTyped, CachesAreKeyed
<1>11. QED
  BY <1>2, <1>8, <1>9, <1>10

\* A request ends with an answer from its own scenario, and leaves the caches as they
\* are but for the manifests.
LEMMA AnswersKeepIInv ==
    ASSUME ScopeIInv, NEW r \in Swaps, NEW name \in ScenarioNames,
           NEW read \in SUBSET ManifestsOf(name), NEW url, url # NoUrl => url.scenario = name,
           Answer(r, name, read, url) \/ Fail(r),
           UNCHANGED <<disk, registry, edits, scopes, blocks>>,
           manifests' \in Seq(KeptManifests), Len(manifests') <= ScopeMax
    PROVE  ScopeIInv'
<1> USE DEF ScopeIInv
<1>1. /\ StaysApart([at |-> "failed"])
      /\ StaysApart([at |-> "done", scenario |-> name, read |-> read, url |-> url])
  BY DEF StaysApart
<1>2. SwapsStayApart'
  BY <1>1, RequestMovesOn DEF Answer, Fail
<1>3. QED
  BY <1>2 DEF ScopeTyped, CachesAreKeyed

\* What a running request has at hand.
LEMMA RunningHasItsScope ==
    ASSUME ScopeIInv, NEW r \in Swaps, swaps[r].at = "running"
    PROVE  /\ swaps[r].scenario \in ScenarioNames
           /\ swaps[r].scope \in ScopesOf(swaps[r].scenario)
           /\ swaps[r].scope.scenario = swaps[r].scenario
BY DEF ScopeIInv, SwapsStayApart, StaysApart, ScopesOf

LEMMA LoadsAgentsKeepsIInv ==
    ASSUME ScopeIInv, NEW r \in Swaps, LoadsAgents(r) PROVE ScopeIInv'
<1> USE DEF ScopeIInv
<1> DEFINE found == AgentsBlock(swaps[r].scope)
<1>1. /\ swaps[r].at = "running" /\ UNCHANGED <<disk, registry, edits, scopes>>
      /\ manifests' = found.manifests /\ blocks' = found.cache
      /\ \/ Fail(r)
         \/ swaps' = [swaps EXCEPT ![r].agents = found.value]
  BY DEF LoadsAgents
<1>2. /\ found.value \in ManifestsOf(swaps[r].scenario)
      /\ found.manifests \in Seq(KeptManifests) /\ Len(found.manifests) <= ScopeMax
      /\ found.cache \in Seq(KeptManifests) /\ Len(found.cache) <= AgentsMax
  BY <1>1, RunningHasItsScope, AgentsBlockIsKeyed
<1> HIDE DEF found
<1>3. /\ StaysApart([at |-> "failed"])
      /\ StaysApart([swaps[r] EXCEPT !.agents = found.value])
  BY <1>1, <1>2 DEF SwapsStayApart, StaysApart
<1>4. SwapsStayApart'
  BY <1>1, <1>3, RequestMovesOn DEF Fail
<1>5. QED
  BY <1>1, <1>2, <1>4 DEF ScopeTyped, CachesAreKeyed

LEMMA AsksCatalogKeepsIInv ==
    ASSUME ScopeIInv, NEW r \in Swaps, AsksCatalog(r) PROVE ScopeIInv'
<1> USE DEF ScopeIInv
<1> DEFINE found == AgentsBlock(swaps[r].scope)
<1>1. /\ swaps[r].at = "running" /\ UNCHANGED <<disk, registry, edits, scopes>>
      /\ \/ UNCHANGED <<manifests, blocks>>
         \/ manifests' = found.manifests /\ blocks' = found.cache
      /\ swaps' = [swaps EXCEPT ![r] = [at |-> "found", scenario |-> swaps[r].scenario,
                                        entries |-> catalog']]
  BY DEF AsksCatalog
<1>2. /\ found.manifests \in Seq(KeptManifests) /\ Len(found.manifests) <= ScopeMax
      /\ found.cache \in Seq(KeptManifests) /\ Len(found.cache) <= AgentsMax
  BY <1>1, RunningHasItsScope, AgentsBlockIsKeyed
<1> HIDE DEF found
<1>3. StaysApart([at |-> "found", scenario |-> swaps[r].scenario, entries |-> catalog'])
  BY DEF StaysApart
<1>4. SwapsStayApart'
  BY <1>1, <1>3, RequestMovesOn
<1>5. QED
  BY <1>1, <1>2, <1>4 DEF ScopeTyped, CachesAreKeyed

\* The agent that runs may be another scenario's; what it is built from is kept by name.
LEMMA RunsAgentKeepsIInv ==
    ASSUME ScopeIInv, NEW r \in Swaps, RunsAgent(r) PROVE ScopeIInv'
<1> USE DEF ScopeIInv
<1> DEFINE found == AgentsBlock(swaps[r].scope)
           ran(a) == [at |-> "ran", agent |-> a, scenario |-> swaps[r].scenario]
<1>1. /\ swaps[r].at = "running" /\ UNCHANGED <<disk, registry, edits, scopes>>
      /\ \/ UNCHANGED <<manifests, blocks>>
         \/ manifests' = found.manifests /\ blocks' = found.cache
      /\ \/ Fail(r)
         \/ swaps' = [swaps EXCEPT ![r] = ran(agentCache)]
         \/ swaps' = [swaps EXCEPT ![r] = ran(found.value)]
  BY DEF RunsAgent
<1>2. /\ found.manifests \in Seq(KeptManifests) /\ Len(found.manifests) <= ScopeMax
      /\ found.cache \in Seq(KeptManifests) /\ Len(found.cache) <= AgentsMax
  BY <1>1, RunningHasItsScope, AgentsBlockIsKeyed
<1> HIDE DEF found
<1>3. /\ StaysApart([at |-> "failed"])
      /\ \A a : StaysApart(ran(a))
  BY DEF StaysApart
<1>4. SwapsStayApart'
  BY <1>1, <1>3, RequestMovesOn DEF Fail
<1>5. QED
  BY <1>1, <1>2, <1>4 DEF ScopeTyped, CachesAreKeyed

LEMMA ReadsScenarioKeepsIInv ==
    ASSUME ScopeIInv, NEW r \in Swaps, ReadsScenario(r) PROVE ScopeIInv'
<1> USE DEF ScopeIInv
<1> DEFINE name == swaps[r].scope.scenario
           yaml == LoadYaml(name, FALSE)
           meta == yaml.value
<1>1. /\ swaps[r].at = "running" /\ UNCHANGED <<disk, registry, edits, scopes, blocks>>
      /\ manifests' = yaml.cache
      /\ \/ Fail(r)
         \/ Shows(r, meta, {}, NoUrl)
         \/ \E localized \in BOOLEAN :
              Shows(r, meta, {GraphSchema(name), Tour(meta, name), Highlights(meta, name, localized)},
                    ReplayUrl(meta, name, localized))
  BY DEF ReadsScenario
<1>2. name = swaps[r].scenario /\ name \in ScenarioNames
  BY <1>1, RunningHasItsScope
<1> HIDE DEF name
<1>3. /\ meta \in ManifestsOf(name)
      /\ yaml.cache \in Seq(KeptManifests) /\ Len(yaml.cache) <= ScopeMax
  BY <1>2, LoadYamlIsKeyed
<1> HIDE DEF yaml, meta
<1>4. ASSUME NEW localized \in BOOLEAN
      PROVE  /\ GraphSchema(name) \in ManifestsOf(name) /\ Tour(meta, name) \in ManifestsOf(name)
             /\ Highlights(meta, name, localized) \in ManifestsOf(name)
             /\ ReplayUrl(meta, name, localized) # NoUrl =>
                  ReplayUrl(meta, name, localized).scenario = name
  BY <1>2, <1>3, FilesAreOfTheirPack DEF GraphSchema, Tour, Highlights, ReplayUrl, AssetUrl
<1>5. CASE Fail(r) \/ Shows(r, meta, {}, NoUrl)
  <2>1. {meta} \cup {} \in SUBSET ManifestsOf(name)
    BY <1>3
  <2>2. Fail(r) \/ Answer(r, name, {meta} \cup {}, NoUrl)
    BY <1>2, <1>5 DEF Shows
  <2>3. QED
    BY <1>1, <1>2, <1>3, <2>1, <2>2, AnswersKeepIInv
<1>6. ASSUME NEW localized \in BOOLEAN,
             Shows(r, meta, {GraphSchema(name), Tour(meta, name), Highlights(meta, name, localized)},
                   ReplayUrl(meta, name, localized))
      PROVE  ScopeIInv'
  <2> DEFINE read == {meta} \cup {GraphSchema(name), Tour(meta, name),
                                  Highlights(meta, name, localized)}
             url == ReplayUrl(meta, name, localized)
  <2>1. read \in SUBSET ManifestsOf(name) /\ (url # NoUrl => url.scenario = name)
    BY <1>3, <1>4
  <2>2. Answer(r, name, read, url)
    BY <1>2, <1>6 DEF Shows
  <2> HIDE DEF read, url
  <2>3. QED
    BY <1>1, <1>2, <1>3, <2>1, <2>2, AnswersKeepIInv
<1>7. QED
  BY <1>1, <1>5, <1>6

LEMMA ReadsHealthKeepsIInv ==
    ASSUME ScopeIInv, NEW r \in Swaps, ReadsHealth(r) PROVE ScopeIInv'
<1> DEFINE name == swaps[r].scope.scenario
           yaml == LoadYaml(name, FALSE)
           read == {yaml.value} \cup {get_scenario_file(name)}
<1>1. /\ swaps[r].at = "running" /\ UNCHANGED <<disk, registry, edits, scopes, blocks>>
      /\ manifests' = yaml.cache /\ Answer(r, swaps[r].scenario, read, NoUrl)
  BY DEF ReadsHealth, Shows
<1>2. name = swaps[r].scenario /\ name \in ScenarioNames
  BY <1>1, RunningHasItsScope
<1> HIDE DEF name
<1>3. /\ yaml.value \in ManifestsOf(name) /\ get_scenario_file(name) \in ManifestsOf(name)
      /\ yaml.cache \in Seq(KeptManifests) /\ Len(yaml.cache) <= ScopeMax
  BY <1>2, LoadYamlIsKeyed, FilesAreOfTheirPack DEF ScopeIInv
<1>4. read \in SUBSET ManifestsOf(name)
  BY <1>3
<1> HIDE DEF yaml, read
<1>5. QED
  BY <1>1, <1>2, <1>3, <1>4, AnswersKeepIInv

\* The URL names the scenario it was built for, so the scope of the request that follows
\* it does not matter.
LEMMA FetchesAssetKeepsIInv ==
    ASSUME ScopeIInv, NEW r \in Swaps, NEW s \in Swaps, FetchesAsset(r, s) PROVE ScopeIInv'
<1> DEFINE url == swaps[s].url
           name == swaps[s].scenario
           from == IF url.scenario = "none" THEN swaps[r].scope.scenario ELSE url.scenario
<1>1. /\ swaps[r].at = "running" /\ swaps[s].at = "done" /\ url # NoUrl
      /\ UNCHANGED <<disk, registry, edits, manifests, scopes, blocks>>
      /\ Answer(r, name, {get_scenario_file(from)}, NoUrl)
  BY DEF FetchesAsset
<1>2. name \in ScenarioNames /\ url.scenario = name
  BY <1>1 DEF ScopeIInv, SwapsStayApart, StaysApart
<1>3. from = name
  BY <1>2, ScopeAssumption DEF ScenarioNames
<1>4. {get_scenario_file(from)} \in SUBSET ManifestsOf(name)
  BY <1>2, <1>3, FilesAreOfTheirPack DEF ScopeIInv
<1>5. manifests' \in Seq(KeptManifests) /\ Len(manifests') <= ScopeMax
  BY <1>1 DEF ScopeIInv, CachesAreKeyed
<1> HIDE DEF name, from
<1>6. QED
  BY <1>1, <1>2, <1>4, <1>5, AnswersKeepIInv

LEMMA ScopeNextIInv == ScopeIInv /\ [ScopeNext]_scopeVars => ScopeIInv'
<1> SUFFICES ASSUME ScopeIInv, [ScopeNext]_scopeVars PROVE ScopeIInv'
  OBVIOUS
<1> USE DEF ScopeIInv
<1>1. ASSUME NEW r \in Swaps, Selects(r)
      PROVE  ScopeIInv'
  <2>1. /\ swaps[r].at = "running" /\ Answer(r, swaps[r].scenario, {}, NoUrl)
        /\ UNCHANGED <<disk, registry, edits, manifests, scopes, blocks>>
    BY <1>1 DEF Selects
  <2>2. swaps[r].scenario \in ScenarioNames
    BY <2>1, RunningHasItsScope
  <2>3. manifests' \in Seq(KeptManifests) /\ Len(manifests') <= ScopeMax
    BY <2>1 DEF CachesAreKeyed
  <2>4. QED
    BY <2>1, <2>2, <2>3, AnswersKeepIInv
<1>2. ASSUME NEW pack \in Packs, Edits(pack)
      PROVE  ScopeIInv'
  <2>1. PICK v \in {0, -1, edits + 2} : disk' = [disk EXCEPT ![pack] = v]
    BY <1>2 DEF Edits
  <2>2. v \in Int /\ edits' = edits + 1
    BY <1>2, <2>1 DEF Edits, ScopeTyped
  <2>3. ScopeTyped'
    BY <1>2, <2>1, <2>2 DEF Edits, ScopeTyped
  <2>4. UNCHANGED <<manifests, scopes, blocks, swaps>>
    BY <1>2 DEF Edits
  <2>5. QED
    BY <2>3, <2>4 DEF CachesAreKeyed, SwapsStayApart, StaysApart
<1>3. CASE Deploys
  <2>1. ScopeTyped' /\ UNCHANGED <<manifests, scopes, blocks, swaps>>
    BY <1>3 DEF Deploys, ScopeTyped
  <2>2. QED
    BY <2>1 DEF CachesAreKeyed, SwapsStayApart, StaysApart
<1>4. CASE RestartsApp
  <2>0. /\ UNCHANGED <<disk, registry>> /\ edits' = edits + 1
        /\ manifests' = <<>> /\ scopes' = <<>> /\ blocks' = <<>>
    BY <1>4 DEF RestartsApp
  <2>1. ScopeTyped'
    BY <2>0 DEF ScopeTyped
  <2>2. CachesAreKeyed'
    BY <2>0, NothingIsKeyed DEF CachesAreKeyed
  <2>3. swaps' = [r \in Swaps |-> IF swaps[r].at = "running" THEN [at |-> "failed"] ELSE swaps[r]]
    BY <1>4 DEF RestartsApp
  <2>4. StaysApart([at |-> "failed"])
    BY DEF StaysApart
  <2>5. \A r \in Swaps : StaysApart(swaps'[r])
    BY <2>3, <2>4 DEF SwapsStayApart
  <2>6. SwapsStayApart'
    BY <2>3, <2>5 DEF SwapsStayApart, StaysApart
  <2>7. QED
    BY <2>1, <2>2, <2>6
<1>5. CASE UNCHANGED scopeVars
  BY <1>5 DEF scopeVars, ScopeTyped, CachesAreKeyed, SwapsStayApart, StaysApart
<1>6. QED
  BY <1>1, <1>2, <1>3, <1>4, <1>5, EntersKeepsIInv, LoadsAgentsKeepsIInv, RunsAgentKeepsIInv, AsksCatalogKeepsIInv,
     ReadsScenarioKeepsIInv, ReadsHealthKeepsIInv, FetchesAssetKeepsIInv DEF ScopeNext

LEMMA ScopeInitIInv == ScopeInit => ScopeIInv
<1> SUFFICES ASSUME ScopeInit PROVE ScopeIInv
  OBVIOUS
<1>1. ScopeTyped
  <2>1. disk \in [Packs -> {1, -1}] /\ registry = 0 /\ edits = 0
    BY DEF ScopeInit
  <2>2. QED
    BY <2>1 DEF ScopeTyped
<1>2. CachesAreKeyed
  BY NothingIsKeyed DEF ScopeInit, CachesAreKeyed
<1>3. SwapsStayApart
  BY DEF ScopeInit, SwapsStayApart, StaysApart
<1>4. QED
  BY <1>1, <1>2, <1>3 DEF ScopeIInv

\* No request ever has the scope of another scenario, loads another's manifest or agents
\* block or is answered with another's files, whoever swaps scenarios, evicts entries or
\* edits packs meanwhile, and no cache outgrows its bound (app/_middleware.py,
\* app/scenario/_reader.py, agents/_config.py).  The agent the chat has built and the
\* catalogue are kept without a scenario, and nothing is proved of them.
THEOREM ScenariosNeverMix == ScopeInit /\ [][ScopeNext]_scopeVars => []ScenariosDoNotMix
<1>1. ScopeInit => ScopeIInv
  BY ScopeInitIInv
<1>2. ScopeIInv /\ [ScopeNext]_scopeVars => ScopeIInv'
  BY ScopeNextIInv
<1>3. ScopeIInv => ScenariosDoNotMix
  BY DEF ScopeIInv, CachesAreKeyed, SwapsStayApart, StaysApart, ScopesOf, ManifestsOf,
         ScenariosDoNotMix
<1>4. QED
  BY <1>1, <1>2, <1>3, PTL

(***************************************************************************)
(* Tool adapters (ToolAdapters)                                            *)
(***************************************************************************)
CallLabels == {"new", "error", "submit", "lock", "closing", "closed", "building", "answered",
               "cancelled", "waiting", "posting", "sleeping", "querying", "failing", "succeeding",
               "searching", "reading", "raised", "degraded"}
CallStates == [at : CallLabels, client : Nat, retried : BOOLEAN, force : BOOLEAN, held : BOOLEAN,
               throttled : Nat, colds : Nat, page : Nat, rows : Seq(Nat), semantic : BOOLEAN]

PoolClients == [fresh : BOOLEAN, open : BOOLEAN, stuck : BOOLEAN]
AdapterTyped ==
  /\ kind \in {"gremlin", "graph", "kql", "search", "runbooks"}
  /\ tool \in [ToolCalls -> CallStates]
  /\ clients \in Seq(PoolClients)
  /\ breaker \in [state : {"closed", "open", "half-open"}, failures : Nat,
                  probe : ToolCalls \cup {"nobody"}]

Locked == {"closing", "closed", "building"}

\* Only the holder of the lock takes the cached client away, step by step.
ClientsAreKept ==
  /\ kind # "gremlin" => holder = "nobody" /\ clients = <<>>
  /\ kind = "gremlin" =>
       /\ current \in 0..Len(clients)
       /\ \A i \in DOMAIN clients : clients[i].open => i = current \/ clients[i].stuck
       /\ \A c \in ToolCalls :
            /\ tool[c].at \in Locked => holder = c
            /\ tool[c].at \in {"closing", "closed"} => current # 0
            /\ tool[c].at = "closed" /\ clients[current].open => clients[current].stuck
            /\ tool[c].at = "building" => current = 0
       /\ holder # "nobody" => holder \in ToolCalls /\ tool[holder].at \in Locked

\* A permit is held from the gate to the answer, and never across a sleep.
Holding == {"posting", "querying", "succeeding", "failing"}
Held == {c \in ToolCalls : tool[c].held}
PermitsAreKept ==
  /\ \A c \in ToolCalls : tool[c].held <=> tool[c].at \in Holding
  /\ permits \in Nat /\ permits + Cardinality(Held) = Permits

\* The rows a call has are those of the pages before its continuation token.
Whole(call) == /\ 1..call.page \subseteq Pages(call.rows)
               /\ call.colds = 0 => Len(call.rows) = call.page
PagesAreWhole == \A c \in ToolCalls : Whole(tool[c])

Probing == {"building", "searching", "reading", "raised"}
ProbeIsUnderWay ==
  /\ kind \notin {"search", "runbooks"} => breaker.state = "closed"
  /\ breaker.state = "half-open" => breaker.probe \in ToolCalls /\ tool[breaker.probe].at \in Probing

AdapterIInv == AdapterTyped /\ ClientsAreKept /\ PermitsAreKept /\ PagesAreWhole /\ ProbeIsUnderWay

LEMMA AdapterInitIInv == AdapterInit => AdapterIInv
<1> SUFFICES ASSUME AdapterInit PROVE AdapterIInv
  OBVIOUS
<1>1. NewCall \in CallStates
  BY EmptySeq DEF NewCall, CallStates, CallLabels
<1>2. tool = [c \in ToolCalls |-> NewCall]
  BY DEF AdapterInit
<1>3. AdapterTyped
  BY <1>1, <1>2, EmptySeq DEF AdapterInit, AdapterTyped
<1>4. ClientsAreKept
  BY <1>2, EmptySeq DEF AdapterInit, ClientsAreKept, NewCall, Locked
<1>5. PermitsAreKept
  <2>1. Held = {}
    BY <1>2 DEF Held, NewCall
  <2>2. Cardinality(Held) = 0
    BY <2>1, FS_EmptySet
  <2>3. permits = Permits /\ permits \in Nat
    BY AdapterAssumption DEF AdapterInit
  <2>4. \A c \in ToolCalls : tool[c].held <=> tool[c].at \in Holding
    BY <1>2 DEF NewCall, Holding
  <2>5. QED
    BY <2>2, <2>3, <2>4 DEF PermitsAreKept
<1>6. PagesAreWhole
  BY <1>2, EmptySeq DEF PagesAreWhole, Whole, NewCall
<1>7. ProbeIsUnderWay
  BY DEF AdapterInit, ProbeIsUnderWay
<1>8. QED
  BY <1>3, <1>4, <1>5, <1>6, <1>7 DEF AdapterIInv

LEMMA ToolMoves ==
    ASSUME AdapterTyped, NEW c \in ToolCalls, NEW call \in CallStates,
           tool' = [tool EXCEPT ![c] = call]
    PROVE  /\ tool' \in [ToolCalls -> CallStates] /\ tool'[c] = call
           /\ \A d \in ToolCalls \ {c} : tool'[d] = tool[d]
BY DEF AdapterTyped

LEMMA HeldIsFinite == IsFiniteSet(Held) /\ Cardinality(Held) \in Nat
BY AdapterAssumption, FS_Subset, FS_CardinalityType DEF Held

\* A call that goes on to a label, and keeps what it holds and has read.
SameBut(call, label) ==
  {next \in CallStates : /\ next.at = label /\ next.held = call.held /\ next.page = call.page
                         /\ next.rows = call.rows /\ next.colds = call.colds}

LEMMA CallRelabels ==
    ASSUME NEW call \in CallStates, NEW label \in CallLabels
    PROVE  [call EXCEPT !.at = label] \in SameBut(call, label)
BY DEF CallStates, SameBut

LEMMA CallForces ==
    ASSUME NEW call \in CallStates, NEW label \in CallLabels, NEW b \in BOOLEAN
    PROVE  [call EXCEPT !.at = label, !.force = b] \in SameBut(call, label)
BY DEF CallStates, SameBut

LEMMA CallTakes ==
    ASSUME NEW call \in CallStates, NEW label \in CallLabels, NEW n \in Nat, NEW b \in BOOLEAN
    PROVE  [call EXCEPT !.at = label, !.client = n, !.force = b] \in SameBut(call, label)
BY DEF CallStates, SameBut

LEMMA CallRetries ==
    ASSUME NEW call \in CallStates, NEW label \in CallLabels, NEW b \in BOOLEAN
    PROVE  [call EXCEPT !.at = label, !.retried = b, !.force = b] \in SameBut(call, label)
BY DEF CallStates, SameBut

LEMMA CallNarrows ==
    ASSUME NEW call \in CallStates, NEW label \in CallLabels, NEW b \in BOOLEAN
    PROVE  [call EXCEPT !.at = label, !.semantic = b] \in SameBut(call, label)
BY DEF CallStates, SameBut

\* A call that neither takes nor gives back a permit.
LEMMA MovesAside ==
    ASSUME AdapterIInv, NEW c \in ToolCalls, NEW label \in CallLabels,
           label \in Holding <=> tool[c].at \in Holding,
           NEW call \in SameBut(tool[c], label), tool' = [tool EXCEPT ![c] = call],
           UNCHANGED permits
    PROVE  /\ tool' \in [ToolCalls -> CallStates] /\ tool'[c].at = label
           /\ \A d \in ToolCalls \ {c} : tool'[d] = tool[d]
           /\ PermitsAreKept' /\ PagesAreWhole'
<1> USE DEF AdapterIInv
<1>1. /\ call \in CallStates /\ call.at = label /\ call.held = tool[c].held
      /\ call.page = tool[c].page /\ call.rows = tool[c].rows /\ call.colds = tool[c].colds
  BY DEF SameBut
<1>2. /\ tool' \in [ToolCalls -> CallStates] /\ tool'[c] = call
      /\ \A d \in ToolCalls \ {c} : tool'[d] = tool[d]
  BY <1>1, ToolMoves
<1>3. \A d \in ToolCalls : tool'[d].held = tool[d].held
  BY <1>1, <1>2
<1>4. Held' = Held
  BY <1>3 DEF Held
<1>5. \A d \in ToolCalls : tool'[d].held <=> tool'[d].at \in Holding
  BY <1>1, <1>2 DEF PermitsAreKept
<1>6. PermitsAreKept'
  BY <1>4, <1>5 DEF PermitsAreKept
<1>7. Whole(call)
  BY <1>1 DEF PagesAreWhole, Whole
<1>8. \A d \in ToolCalls : Whole(tool'[d])
  BY <1>2, <1>7 DEF PagesAreWhole
<1>9. PagesAreWhole'
  BY <1>8 DEF PagesAreWhole, Whole
<1>10. QED
  BY <1>1, <1>2, <1>6, <1>9

LEMMA TakesPermit ==
    ASSUME AdapterIInv, NEW c \in ToolCalls, permits > 0, permits' = permits - 1,
           tool[c].at \notin Holding, NEW label \in Holding \cap CallLabels,
           tool' = [tool EXCEPT ![c].at = label, ![c].held = TRUE]
    PROVE  /\ tool' \in [ToolCalls -> CallStates] /\ tool'[c].at = label
           /\ \A d \in ToolCalls \ {c} : tool'[d] = tool[d]
           /\ PermitsAreKept' /\ PagesAreWhole'
<1> USE DEF AdapterIInv
<1> DEFINE call == [tool[c] EXCEPT !.at = label, !.held = TRUE]
<1>1. /\ call \in CallStates /\ call.at = label /\ call.held
      /\ call.page = tool[c].page /\ call.rows = tool[c].rows /\ call.colds = tool[c].colds
  BY ZenonT(60) DEF AdapterTyped, CallStates
<1>2. tool' = [tool EXCEPT ![c] = call]
  BY DEF AdapterTyped
<1> HIDE DEF call
<1>3. /\ tool' \in [ToolCalls -> CallStates] /\ tool'[c] = call
      /\ \A d \in ToolCalls \ {c} : tool'[d] = tool[d]
  BY <1>1, <1>2, ToolMoves
<1>4. c \notin Held /\ Held' = Held \cup {c}
  BY <1>1, <1>3 DEF Held, PermitsAreKept
<1>5. Cardinality(Held') = Cardinality(Held) + 1
  BY <1>4, HeldIsFinite, FS_AddElement
<1>6. permits' \in Nat /\ permits' + Cardinality(Held') = Permits
  BY <1>5, HeldIsFinite, AdapterAssumption DEF PermitsAreKept
<1>7. \A d \in ToolCalls : tool'[d].held <=> tool'[d].at \in Holding
  BY <1>1, <1>3 DEF PermitsAreKept
<1>8. PermitsAreKept'
  BY <1>6, <1>7 DEF PermitsAreKept
<1>9. \A d \in ToolCalls : Whole(tool'[d])
  BY <1>1, <1>3 DEF PagesAreWhole, Whole
<1>10. PagesAreWhole'
  BY <1>9 DEF PagesAreWhole, Whole
<1>11. QED
  BY <1>1, <1>3, <1>8, <1>10

\* A call lets go of its permit, if it holds one, and has whole rows then.
LEMMA LetsGo ==
    ASSUME AdapterIInv, NEW c \in ToolCalls, NEW call \in CallStates,
           ~call.held, call.at \notin Holding, Whole(call), tool' = [tool EXCEPT ![c] = call],
           permits' = IF tool[c].held THEN permits + 1 ELSE permits
    PROVE  /\ tool' \in [ToolCalls -> CallStates] /\ tool'[c] = call
           /\ \A d \in ToolCalls \ {c} : tool'[d] = tool[d]
           /\ PermitsAreKept' /\ PagesAreWhole'
<1> USE DEF AdapterIInv
<1>1. /\ tool' \in [ToolCalls -> CallStates] /\ tool'[c] = call
      /\ \A d \in ToolCalls \ {c} : tool'[d] = tool[d]
  BY ToolMoves
<1>2. Held' = Held \ {c}
  BY <1>1 DEF Held
<1>3. Cardinality(Held') = IF c \in Held THEN Cardinality(Held) - 1 ELSE Cardinality(Held)
  BY <1>2, HeldIsFinite, FS_RemoveElement
<1>4. c \in Held <=> tool[c].held
  BY DEF Held
<1>5. permits' \in Nat /\ permits' + Cardinality(Held') = Permits
  BY <1>3, <1>4, HeldIsFinite, AdapterAssumption DEF PermitsAreKept
<1>6. \A d \in ToolCalls : tool'[d].held <=> tool'[d].at \in Holding
  BY <1>1 DEF PermitsAreKept
<1>7. PermitsAreKept'
  BY <1>5, <1>6 DEF PermitsAreKept
<1>8. \A d \in ToolCalls : Whole(tool'[d])
  BY <1>1 DEF PagesAreWhole
<1>9. PagesAreWhole'
  BY <1>8 DEF PagesAreWhole, Whole
<1>10. QED
  BY <1>1, <1>7, <1>9
(***************************************************************************)
(* The Gremlin adapter                                                     *)
(***************************************************************************)
\* One client changes, and no other.
Alike(old, new, i) == /\ new \in Seq(PoolClients) /\ Len(new) = Len(old)
                      /\ \A k \in 1..Len(old) : k # i => new[k] = old[k]

LEMMA ClientChanges ==
    ASSUME NEW old \in Seq(PoolClients), NEW i \in 1..Len(old)
    PROVE  /\ Alike(old, [old EXCEPT ![i].open = FALSE], i)
           /\ Alike(old, [old EXCEPT ![i].stuck = TRUE], i)
           /\ Alike(old, [old EXCEPT ![i].fresh = FALSE], i)
           /\ ~[old EXCEPT ![i].open = FALSE][i].open
           /\ [old EXCEPT ![i].stuck = TRUE][i].stuck
           /\ [old EXCEPT ![i].fresh = FALSE][i].open = old[i].open
           /\ [old EXCEPT ![i].fresh = FALSE][i].stuck = old[i].stuck
<1>1. old[i] \in PoolClients
  OBVIOUS
<1>2. /\ [old[i] EXCEPT !.open = FALSE] \in PoolClients /\ ~[old[i] EXCEPT !.open = FALSE].open
      /\ [old[i] EXCEPT !.stuck = TRUE] \in PoolClients /\ [old[i] EXCEPT !.stuck = TRUE].stuck
      /\ [old[i] EXCEPT !.fresh = FALSE] \in PoolClients
      /\ [old[i] EXCEPT !.fresh = FALSE].open = old[i].open
      /\ [old[i] EXCEPT !.fresh = FALSE].stuck = old[i].stuck
  BY <1>1 DEF PoolClients
<1>3. \A x \in PoolClients : /\ [old EXCEPT ![i] = x] \in Seq(PoolClients)
                         /\ Len([old EXCEPT ![i] = x]) = Len(old) /\ [old EXCEPT ![i] = x][i] = x
                         /\ \A k \in 1..Len(old) : k # i => [old EXCEPT ![i] = x][k] = old[k]
  BY ExceptSeq
<1>4. \A x \in PoolClients : Alike(old, [old EXCEPT ![i] = x], i)
  BY <1>3 DEF Alike
<1>5. QED
  BY <1>2, <1>3, <1>4

\* A call goes on under the lock, or without looking at what it protects.
LEMMA GremlinGoes ==
    ASSUME AdapterIInv, Gremlin, NEW c \in ToolCalls, tool[c].at \notin Holding,
           NEW label \in CallLabels \ Holding,
           NEW call \in SameBut(tool[c], label), tool' = [tool EXCEPT ![c] = call],
           clients' \in Seq(PoolClients), current' \in 0..Len(clients'),
           \A i \in DOMAIN clients' : clients'[i].open => i = current' \/ clients'[i].stuck,
           label \in {"closing", "closed"} => current' # 0,
           label = "closed" /\ clients'[current'].open => clients'[current'].stuck,
           label = "building" => current' = 0,
           \/ holder \in {"nobody", c} /\ holder' = IF label \in Locked THEN c ELSE "nobody"
           \/ label \notin Locked /\ holder # c /\ UNCHANGED gremlinVars
    PROVE  AdapterIInv'
<1> USE DEF AdapterIInv
<1>0. /\ kind = "gremlin" /\ UNCHANGED kind /\ UNCHANGED permits
      /\ breaker.state = "closed" /\ UNCHANGED breaker
  BY DEF Gremlin, searchVars, ProbeIsUnderWay
<1>1. label \in CallLabels /\ (label \in Holding <=> tool[c].at \in Holding)
  OBVIOUS
<1>2. /\ tool' \in [ToolCalls -> CallStates] /\ tool'[c].at = label
      /\ \A d \in ToolCalls \ {c} : tool'[d] = tool[d]
      /\ PermitsAreKept' /\ PagesAreWhole'
  BY <1>0, <1>1, MovesAside
<1>3. AdapterTyped'
  BY <1>0, <1>2 DEF AdapterTyped
<1>4. ProbeIsUnderWay'
  BY <1>0 DEF ProbeIsUnderWay
<1>5. ClientsAreKept'
  <2>1. CASE holder \in {"nobody", c} /\ holder' = IF label \in Locked THEN c ELSE "nobody"
    <3>1. \A d \in ToolCalls \ {c} : tool'[d].at \notin Locked
      BY <2>1, <1>0, <1>2, AdapterAssumption DEF ClientsAreKept
    <3>2. \A d \in ToolCalls : /\ tool'[d].at \in Locked => holder' = d
                               /\ tool'[d].at \in {"closing", "closed"} => current' # 0
                               /\ tool'[d].at = "closed" /\ clients'[current'].open
                                    => clients'[current'].stuck
                               /\ tool'[d].at = "building" => current' = 0
      BY <2>1, <1>2, <3>1 DEF Locked
    <3>3. holder' # "nobody" => holder' \in ToolCalls /\ tool'[holder'].at \in Locked
      BY <2>1, <1>2
    <3>4. QED
      BY <1>0, <3>2, <3>3 DEF ClientsAreKept
  <2>2. CASE label \notin Locked /\ holder # c /\ UNCHANGED gremlinVars
    <3>1. holder' = holder /\ current' = current /\ clients' = clients
      BY <2>2 DEF gremlinVars
    <3>2. \A d \in ToolCalls : /\ tool'[d].at \in Locked => holder' = d
                               /\ tool'[d].at \in {"closing", "closed"} => current' # 0
                               /\ tool'[d].at = "closed" /\ clients'[current'].open
                                    => clients'[current'].stuck
                               /\ tool'[d].at = "building" => current' = 0
      BY <2>2, <3>1, <1>0, <1>2 DEF ClientsAreKept, Locked
    <3>3. holder' # "nobody" => holder' \in ToolCalls /\ tool'[holder'].at \in Locked
      BY <2>2, <3>1, <1>0, <1>2 DEF ClientsAreKept
    <3>4. QED
      BY <1>0, <3>2, <3>3 DEF ClientsAreKept
  <2>3. QED
    BY <2>1, <2>2
<1>6. QED
  BY <1>2, <1>3, <1>4, <1>5

LEMMA GremlinLabels ==
    {"error", "submit", "lock", "closing", "closed", "building", "answered", "cancelled"}
      \subseteq CallLabels \ Holding
BY DEF CallLabels, Holding

\* What Gets and Failing make of a call.
LEMMA CallGets ==
    ASSUME AdapterIInv, Gremlin, NEW c \in ToolCalls
    PROVE  \E label \in {"submit", "lock"} : Gets(tool[c]) \in SameBut(tool[c], label)
<1>1. tool[c] \in CallStates /\ current \in Nat
  BY DEF AdapterIInv, AdapterTyped, ClientsAreKept, Gremlin
<1>2. "submit" \in CallLabels /\ "lock" \in CallLabels
  BY DEF CallLabels
<1>3. /\ [tool[c] EXCEPT !.at = "submit", !.client = current, !.force = FALSE] \in SameBut(tool[c], "submit")
      /\ [tool[c] EXCEPT !.at = "lock", !.force = FALSE] \in SameBut(tool[c], "lock")
  BY <1>1, <1>2, CallTakes, CallForces, Zenon
<1>4. QED
  BY <1>3 DEF Gets

LEMMA CallFails ==
    ASSUME AdapterIInv, NEW c \in ToolCalls
    PROVE  \E label \in {"error", "lock"} : Failing(tool[c]) \in SameBut(tool[c], label)
<1>1. tool[c] \in CallStates
  BY DEF AdapterIInv, AdapterTyped
<1>2. "error" \in CallLabels /\ "lock" \in CallLabels /\ 0 \in Nat
  BY DEF CallLabels
<1>3. /\ [tool[c] EXCEPT !.at = "error"] \in SameBut(tool[c], "error")
      /\ [tool[c] EXCEPT !.at = "lock", !.retried = TRUE, !.force = TRUE] \in SameBut(tool[c], "lock")
  BY <1>1, <1>2, CallRelabels, CallRetries, Zenon
<1>4. QED
  BY <1>3 DEF Failing

\* Goes, as the call it makes.
LEMMA GoesMoves ==
    ASSUME AdapterTyped, NEW c \in ToolCalls, NEW label \in CallLabels
    PROVE  \E call \in SameBut(tool[c], label) : Goes(c, label) = [tool EXCEPT ![c] = call]
<1>1. tool[c] \in CallStates /\ 0 \in Nat /\ FALSE \in BOOLEAN
  BY DEF AdapterTyped
<1>2. [tool[c] EXCEPT !.at = label] \in SameBut(tool[c], label)
  BY <1>1, CallRelabels, Zenon
<1>3. QED
  BY <1>2 DEF Goes

\* A call that does not hold the lock leaves alone what it protects.
LEMMA GremlinPasses ==
    ASSUME AdapterIInv, Gremlin, NEW c \in ToolCalls, tool[c].at \notin Holding \cup Locked,
           NEW label \in {"error", "submit", "lock", "answered", "cancelled"},
           NEW call \in SameBut(tool[c], label), tool' = [tool EXCEPT ![c] = call],
           UNCHANGED gremlinVars
    PROVE  AdapterIInv'
<1>1. holder # c /\ label \notin Locked
  BY AdapterAssumption DEF AdapterIInv, ClientsAreKept, Gremlin, Locked
<1>2. /\ clients' \in Seq(PoolClients) /\ current' \in 0..Len(clients')
      /\ \A i \in DOMAIN clients' : clients'[i].open => i = current' \/ clients'[i].stuck
  BY DEF AdapterIInv, AdapterTyped, ClientsAreKept, Gremlin, gremlinVars
<1>3. label \in CallLabels \ Holding
  BY GremlinLabels
<1>4. label \notin {"closing", "closed"} /\ label # "closed" /\ label # "building"
  OBVIOUS
<1>5. QED
  BY <1>1, <1>2, <1>3, <1>4, GremlinGoes

LEMMA GremlinAsksIInv ==
    ASSUME AdapterIInv, NEW c \in ToolCalls, GremlinAsks(c) PROVE AdapterIInv'
<1> USE DEF AdapterIInv
<1>1. Gremlin /\ tool[c].at \notin Holding \cup Locked /\ UNCHANGED gremlinVars
  BY DEF GremlinAsks, Holding, Locked
<1>2. \E label \in {"error", "submit", "lock"} : \E call \in SameBut(tool[c], label) :
         tool' = [tool EXCEPT ![c] = call]
  <2>1. CASE tool' = Goes(c, "error")
    BY <2>1, GoesMoves, GremlinLabels
  <2>2. CASE tool' = [tool EXCEPT ![c] = Gets(@)]
    <3>1. tool' = [tool EXCEPT ![c] = Gets(tool[c])]
      BY <2>2 DEF AdapterTyped
    <3>2. QED
      BY <1>1, <3>1, CallGets
  <2>3. QED
    BY <2>1, <2>2 DEF GremlinAsks
<1>3. PICK label \in {"error", "submit", "lock"} : \E call \in SameBut(tool[c], label) :
         tool' = [tool EXCEPT ![c] = call]
  BY <1>2
<1>4. PICK call \in SameBut(tool[c], label) : tool' = [tool EXCEPT ![c] = call]
  BY <1>3
<1>5. QED
  BY <1>1, <1>4, GremlinPasses

LEMMA SubmitsIInv ==
    ASSUME AdapterIInv, NEW c \in ToolCalls, Submits(c) PROVE AdapterIInv'
<1> USE DEF AdapterIInv
<1>1. Gremlin /\ tool[c].at \notin Holding \cup Locked /\ UNCHANGED gremlinVars
  BY DEF Submits, Holding, Locked
<1>2. \E label \in {"error", "answered", "lock"} : \E call \in SameBut(tool[c], label) :
         tool' = [tool EXCEPT ![c] = call]
  <2>1. CASE tool' = Goes(c, "error")
    BY <2>1, GoesMoves, GremlinLabels
  <2>2. CASE tool' = Goes(c, "answered")
    BY <2>2, GoesMoves, GremlinLabels
  <2>3. CASE tool' = [tool EXCEPT ![c] = Failing(@)]
    <3>1. tool' = [tool EXCEPT ![c] = Failing(tool[c])]
      BY <2>3 DEF AdapterTyped
    <3>2. QED
      BY <3>1, CallFails
  <2>4. QED
    BY <2>1, <2>2, <2>3 DEF Submits
<1>3. PICK label \in {"error", "answered", "lock"} : \E call \in SameBut(tool[c], label) :
         tool' = [tool EXCEPT ![c] = call]
  BY <1>2
<1>4. PICK call \in SameBut(tool[c], label) : tool' = [tool EXCEPT ![c] = call]
  BY <1>3
<1>5. QED
  BY <1>1, <1>4, GremlinPasses

LEMMA LockTakenIInv ==
    ASSUME AdapterIInv, NEW c \in ToolCalls, LockTaken(c) PROVE AdapterIInv'
<1> USE DEF AdapterIInv
<1>1. Gremlin /\ tool[c].at \notin Holding \cup Locked /\ holder = "nobody" /\ UNCHANGED <<clients, current>>
  BY DEF LockTaken, Holding, Locked, Free
<1>2. CASE Usable /\ ~tool[c].force
  <2>1. tool' = [tool EXCEPT ![c] = Gets(tool[c])] /\ UNCHANGED gremlinVars
    BY <1>1, <1>2 DEF LockTaken, AdapterTyped, gremlinVars
  <2>2. PICK label \in {"submit", "lock"} : Gets(tool[c]) \in SameBut(tool[c], label)
    BY <1>1, CallGets
  <2>3. QED
    BY <1>1, <2>1, <2>2, GremlinPasses
<1>3. CASE ~(Usable /\ ~tool[c].force)
  <2> DEFINE label == IF current # 0 THEN "closing" ELSE "building"
  <2>1. holder' = c /\ tool' = Goes(c, label)
    BY <1>3 DEF LockTaken
  <2>2. label \in CallLabels \ Holding /\ label \in Locked
    BY GremlinLabels DEF Locked
  <2>3. PICK call \in SameBut(tool[c], label) : tool' = [tool EXCEPT ![c] = call]
    BY <2>1, <2>2, GoesMoves
  <2>4. /\ clients' \in Seq(PoolClients) /\ current' \in 0..Len(clients')
        /\ \A i \in DOMAIN clients' : clients'[i].open => i = current' \/ clients'[i].stuck
    BY <1>1 DEF AdapterTyped, ClientsAreKept, Gremlin
  <2>5. /\ label \in {"closing", "closed"} => current' # 0
        /\ label # "closed" /\ (label = "building" => current' = 0)
    BY <1>1
  <2>6. holder \in {"nobody", c} /\ holder' = IF label \in Locked THEN c ELSE "nobody"
    BY <1>1, <2>1, <2>2
  <2> HIDE DEF label
  <2>7. QED
    BY <1>1, <2>2, <2>3, <2>4, <2>5, <2>6, GremlinGoes
<1>4. QED
  BY <1>2, <1>3

LEMMA ClosesOldIInv ==
    ASSUME AdapterIInv, NEW c \in ToolCalls, ClosesOld(c) PROVE AdapterIInv'
<1> USE DEF AdapterIInv
<1>1. /\ Gremlin /\ tool[c].at \notin Holding /\ UNCHANGED <<current, holder>> /\ holder = c
      /\ current \in 1..Len(clients) /\ clients \in Seq(PoolClients) /\ tool' = Goes(c, "closed")
  BY DEF ClosesOld, Holding, Locked, ClientsAreKept, Gremlin, AdapterTyped
<1>2. /\ clients' \in Seq(PoolClients) /\ Len(clients') = Len(clients)
      /\ \A i \in 1..Len(clients) : i # current => clients'[i] = clients[i]
      /\ clients'[current].open => clients'[current].stuck
  <2>1. Alike(clients, clients', current) /\ (clients'[current].open => clients'[current].stuck)
    <3>1. CASE clients' = [clients EXCEPT ![current].open = FALSE]
      BY <1>1, <3>1, ClientChanges
    <3>2. CASE clients' = [clients EXCEPT ![current].stuck = TRUE]
      BY <1>1, <3>2, ClientChanges
    <3>3. QED
      BY <3>1, <3>2 DEF ClosesOld
  <2>2. QED
    BY <2>1 DEF Alike
<1>3. /\ current' \in 0..Len(clients') /\ current' # 0
      /\ \A i \in DOMAIN clients' : clients'[i].open => i = current' \/ clients'[i].stuck
      /\ clients'[current'].open => clients'[current'].stuck
  BY <1>1, <1>2 DEF ClientsAreKept, Gremlin
<1>4. "closed" \in CallLabels \ Holding /\ "closed" \in Locked
  BY GremlinLabels DEF Locked
<1>5. PICK call \in SameBut(tool[c], "closed") : tool' = [tool EXCEPT ![c] = call]
  BY <1>1, <1>4, GoesMoves
<1>6. QED
  BY <1>1, <1>2, <1>3, <1>4, <1>5, GremlinGoes

LEMMA DiscardsIInv ==
    ASSUME AdapterIInv, NEW c \in ToolCalls, Discards(c) PROVE AdapterIInv'
<1> USE DEF AdapterIInv
<1>1. /\ Gremlin /\ tool[c].at \notin Holding /\ UNCHANGED <<clients, holder>> /\ holder = c
      /\ current \in 1..Len(clients) /\ clients \in Seq(PoolClients) /\ tool' = Goes(c, "building")
      /\ current' = 0 /\ (clients[current].open => clients[current].stuck)
  BY DEF Discards, Holding, Locked, ClientsAreKept, Gremlin, AdapterTyped
<1>2. /\ clients' \in Seq(PoolClients) /\ current' \in 0..Len(clients')
      /\ \A i \in DOMAIN clients' : clients'[i].open => i = current' \/ clients'[i].stuck
  BY <1>1 DEF ClientsAreKept, Gremlin
<1>3. "building" \in CallLabels \ Holding /\ "building" \in Locked
  BY GremlinLabels DEF Locked
<1>4. PICK call \in SameBut(tool[c], "building") : tool' = [tool EXCEPT ![c] = call]
  BY <1>1, <1>3, GoesMoves
<1>5. QED
  BY <1>1, <1>2, <1>3, <1>4, GremlinGoes

LEMMA BuildsIInv ==
    ASSUME AdapterIInv, NEW c \in ToolCalls, Builds(c) PROVE AdapterIInv'
<1> USE DEF AdapterIInv
<1> DEFINE new == [fresh |-> TRUE, open |-> TRUE, stuck |-> FALSE]
           call == [tool[c] EXCEPT !.at = "submit", !.client = Len(clients'), !.force = FALSE]
<1>1. /\ Gremlin /\ tool[c].at \notin Holding /\ current = 0 /\ holder = c
      /\ clients \in Seq(PoolClients) /\ new \in PoolClients /\ tool[c] \in CallStates
  BY DEF Builds, Holding, Locked, ClientsAreKept, Gremlin, AdapterTyped, PoolClients
<1>2. clients' = Append(clients, new) /\ current' = Len(clients') /\ holder' = "nobody"
  BY DEF Builds
<1> HIDE DEF new
<1>3. /\ clients' \in Seq(PoolClients) /\ current' = Len(clients) + 1 /\ Len(clients') = Len(clients) + 1
      /\ \A i \in 1..Len(clients) : clients'[i] = clients[i]
  BY <1>1, <1>2
<1>4. /\ current' \in 0..Len(clients')
      /\ \A i \in DOMAIN clients' : clients'[i].open => i = current' \/ clients'[i].stuck
  BY <1>1, <1>3 DEF ClientsAreKept, Gremlin
<1>5. "submit" \in CallLabels \ Holding /\ "submit" \notin Locked
  BY GremlinLabels DEF Locked
<1>6. Len(clients') \in Nat
  BY <1>3
<1>7. call \in SameBut(tool[c], "submit")
  BY <1>1, <1>5, <1>6, CallTakes, Zenon
<1>8. tool' = [tool EXCEPT ![c] = call]
  BY DEF Builds, AdapterTyped
<1> HIDE DEF call
<1>9. QED
  BY <1>1, <1>2, <1>3, <1>4, <1>5, <1>7, <1>8, GremlinGoes

\* A call that held the lock gives it up.
LEMMA GivesUpLock ==
    ASSUME AdapterIInv, Gremlin, NEW c \in ToolCalls, holder = c,
           NEW label \in {"error", "lock", "cancelled"}, tool[c].at \notin Holding,
           NEW call \in SameBut(tool[c], label), tool' = [tool EXCEPT ![c] = call],
           clients' \in Seq(PoolClients), Len(clients') = Len(clients), UNCHANGED current,
           \A i \in DOMAIN clients' : clients'[i].open => clients[i].open /\ clients'[i].stuck = clients[i].stuck,
           holder' = "nobody"
    PROVE  AdapterIInv'
<1>1. clients \in Seq(PoolClients) /\ current \in 0..Len(clients)
  BY DEF AdapterIInv, AdapterTyped, ClientsAreKept, Gremlin
<1>2. /\ current' \in 0..Len(clients')
      /\ \A i \in DOMAIN clients' : clients'[i].open => i = current' \/ clients'[i].stuck
  BY <1>1 DEF AdapterIInv, ClientsAreKept, Gremlin
<1>3. label \in CallLabels \ Holding /\ label \notin Locked
  BY GremlinLabels DEF Locked
<1>4. label \notin {"closing", "closed"} /\ label # "closed" /\ label # "building"
  OBVIOUS
<1>5. QED
  BY <1>2, <1>3, <1>4, GremlinGoes

LEMMA BuildFailsIInv ==
    ASSUME AdapterIInv, NEW c \in ToolCalls, BuildFails(c) PROVE AdapterIInv'
<1> USE DEF AdapterIInv
<1>1. /\ Gremlin /\ tool[c].at \notin Holding /\ holder = c /\ holder' = "nobody"
      /\ UNCHANGED <<clients, current>> /\ clients \in Seq(PoolClients) /\ tool[c] \in CallStates
  BY DEF BuildFails, Holding, Locked, ClientsAreKept, Gremlin, AdapterTyped
<1>2. \E label \in {"error", "lock"} : \E call \in SameBut(tool[c], label) :
         tool' = [tool EXCEPT ![c] = call]
  <2>1. CASE tool' = Goes(c, "error")
    BY <2>1, GoesMoves, GremlinLabels
  <2>2. CASE tool' = [tool EXCEPT ![c].at = "lock", ![c].force = FALSE]
    <3>1. tool' = [tool EXCEPT ![c] = [tool[c] EXCEPT !.at = "lock", !.force = FALSE]]
      BY <2>2 DEF AdapterTyped
    <3>2. "lock" \in CallLabels /\ 0 \in Nat
      BY DEF CallLabels
    <3>3. [tool[c] EXCEPT !.at = "lock", !.force = FALSE] \in SameBut(tool[c], "lock")
      BY <1>1, <3>2, CallForces, Zenon
    <3>4. QED
      BY <3>1, <3>3
  <2>3. CASE tool' = [tool EXCEPT ![c] = Failing(@)]
    <3>1. tool' = [tool EXCEPT ![c] = Failing(tool[c])]
      BY <2>3 DEF AdapterTyped
    <3>2. QED
      BY <3>1, CallFails
  <2>4. QED
    BY <2>1, <2>2, <2>3 DEF BuildFails
<1>3. PICK label \in {"error", "lock"} : \E call \in SameBut(tool[c], label) :
         tool' = [tool EXCEPT ![c] = call]
  BY <1>2
<1>4. PICK call \in SameBut(tool[c], label) : tool' = [tool EXCEPT ![c] = call]
  BY <1>3
<1>5. QED
  BY <1>1, <1>4, GivesUpLock

LEMMA TokenAgesIInv == ASSUME AdapterIInv, TokenAges PROVE AdapterIInv'
<1> USE DEF AdapterIInv
<1>1. /\ kind = "gremlin" /\ UNCHANGED <<kind, permits, breaker, tool, current, holder>>
      /\ current \in 1..Len(clients) /\ clients \in Seq(PoolClients)
  BY DEF TokenAges, Gremlin, searchVars, Usable, ClientsAreKept, AdapterTyped
<1>2. /\ clients' \in Seq(PoolClients) /\ Len(clients') = Len(clients)
      /\ \A i \in 1..Len(clients) : clients'[i].open = clients[i].open /\ clients'[i].stuck = clients[i].stuck
  <2>1. /\ Alike(clients, clients', current)
        /\ clients'[current].open = clients[current].open /\ clients'[current].stuck = clients[current].stuck
    BY <1>1, ClientChanges DEF TokenAges
  <2>2. QED
    BY <2>1 DEF Alike
<1>3. AdapterTyped' /\ ProbeIsUnderWay'
  BY <1>1, <1>2 DEF AdapterTyped, ProbeIsUnderWay
<1>4. PermitsAreKept' /\ PagesAreWhole'
  BY <1>1 DEF PermitsAreKept, Held, PagesAreWhole, Whole
<1>5. ClientsAreKept'
  BY <1>1, <1>2, SMTT(30) DEF ClientsAreKept
<1>6. QED
  BY <1>3, <1>4, <1>5

LEMMA GremlinCancelledIInv ==
    ASSUME AdapterIInv, NEW c \in ToolCalls, GremlinCancelled(c) PROVE AdapterIInv'
<1> USE DEF AdapterIInv
<1>1. /\ Gremlin /\ tool[c].at \notin Holding /\ UNCHANGED current /\ clients \in Seq(PoolClients)
      /\ tool' = Goes(c, "cancelled") /\ current \in 0..Len(clients)
      /\ (tool[c].at \in Locked => holder = c)
      /\ (tool[c].at = "closing" => current # 0)
      /\ (holder = c => tool[c].at \in Locked)
  BY AdapterAssumption DEF GremlinCancelled, Holding, ClientsAreKept, Gremlin, AdapterTyped
<1>2. PICK call \in SameBut(tool[c], "cancelled") : tool' = [tool EXCEPT ![c] = call]
  BY <1>1, GoesMoves, GremlinLabels
<1>3. CASE holder = c
  <2>1. holder' = "nobody"
    BY <1>3 DEF GremlinCancelled
  <2>2. /\ clients' \in Seq(PoolClients) /\ Len(clients') = Len(clients)
        /\ \A i \in DOMAIN clients' : clients'[i].open => clients[i].open /\ clients'[i].stuck = clients[i].stuck
    <3>1. CASE tool[c].at = "closing"
      <4>1. clients' = [clients EXCEPT ![current].open = FALSE] /\ current \in 1..Len(clients)
        BY <1>1, <3>1 DEF GremlinCancelled
      <4>2. QED
        <5>1. Alike(clients, clients', current) /\ ~clients'[current].open
          BY <1>1, <4>1, ClientChanges
        <5>2. QED
          BY <1>1, <4>1, <5>1 DEF Alike
    <3>2. CASE tool[c].at # "closing"
      BY <1>1, <3>2 DEF GremlinCancelled
    <3>3. QED
      BY <3>1, <3>2
  <2>3. QED
    BY <1>1, <1>2, <1>3, <2>1, <2>2, GivesUpLock
<1>4. CASE holder # c
  <2>1. tool[c].at \notin Holding \cup Locked /\ UNCHANGED gremlinVars
    BY <1>1, <1>4 DEF GremlinCancelled, gremlinVars, Locked
  <2>2. QED
    BY <1>1, <1>2, <2>1, GremlinPasses
<1>5. QED
  BY <1>3, <1>4
(***************************************************************************)
(* The graph and KQL adapters                                              *)
(***************************************************************************)
\* Behind a gate, a step has only the calls and their permits to keep.
LEMMA GateKeeps ==
    ASSUME AdapterIInv, kind \in {"graph", "kql"}, UNCHANGED <<kind, clients, holder, breaker>>,
           tool' \in [ToolCalls -> CallStates], PermitsAreKept', PagesAreWhole'
    PROVE  AdapterIInv'
<1> USE DEF AdapterIInv
<1>1. AdapterTyped' /\ ClientsAreKept'
  BY DEF AdapterTyped, ClientsAreKept
<1>2. ProbeIsUnderWay'
  BY DEF ProbeIsUnderWay
<1>3. QED
  BY <1>1, <1>2

LEMMA GateLabels ==
    /\ {"waiting", "sleeping", "error", "answered", "cancelled"} \subseteq CallLabels \ Holding
    /\ {"posting", "querying", "succeeding", "failing"} \subseteq CallLabels \cap Holding
BY DEF CallLabels, Holding

LEMMA GateMoves ==
    ASSUME AdapterIInv, kind \in {"graph", "kql"}, UNCHANGED <<kind, clients, holder, breaker, permits>>,
           NEW c \in ToolCalls, NEW label \in CallLabels, tool' = Goes(c, label),
           label \in Holding <=> tool[c].at \in Holding
    PROVE  AdapterIInv'
<1>1. PICK call \in SameBut(tool[c], label) : tool' = [tool EXCEPT ![c] = call]
  BY GoesMoves DEF AdapterIInv
<1>2. tool' \in [ToolCalls -> CallStates] /\ PermitsAreKept' /\ PagesAreWhole'
  BY <1>1, MovesAside
<1>3. QED
  BY <1>2, GateKeeps

LEMMA GateTakes ==
    ASSUME AdapterIInv, kind \in {"graph", "kql"}, UNCHANGED <<kind, clients, holder, breaker>>,
           NEW c \in ToolCalls, NEW label \in CallLabels \cap Holding, tool[c].at = "waiting",
           permits > 0, permits' = permits - 1,
           tool' = [tool EXCEPT ![c].at = label, ![c].held = TRUE]
    PROVE  AdapterIInv'
<1>1. tool[c].at \notin Holding
  BY DEF Holding
<1>2. tool' \in [ToolCalls -> CallStates] /\ PermitsAreKept' /\ PagesAreWhole'
  BY <1>1, TakesPermit
<1>3. QED
  BY <1>2, GateKeeps

LEMMA GateLetsGo ==
    ASSUME AdapterIInv, kind \in {"graph", "kql"}, UNCHANGED <<kind, clients, holder, breaker>>,
           NEW c \in ToolCalls, NEW call \in CallStates, ~call.held, call.at \notin Holding,
           Whole(call), tool' = [tool EXCEPT ![c] = call],
           permits' = IF tool[c].held THEN permits + 1 ELSE permits
    PROVE  AdapterIInv'
<1>1. tool' \in [ToolCalls -> CallStates] /\ PermitsAreKept' /\ PagesAreWhole'
  BY LetsGo
<1>2. QED
  BY <1>1, GateKeeps

LEMMA GivesBackKeeps ==
    ASSUME AdapterIInv, kind \in {"graph", "kql"}, UNCHANGED <<kind, clients, holder, breaker>>,
           NEW c \in ToolCalls, NEW outcome \in {"error", "answered", "cancelled"},
           GivesBack(c, outcome)
    PROVE  AdapterIInv'
<1> DEFINE call == [tool[c] EXCEPT !.at = outcome, !.held = FALSE]
<1>1. tool[c] \in CallStates /\ Whole(tool[c])
  BY DEF AdapterIInv, AdapterTyped, PagesAreWhole
<1>2. outcome \in CallLabels \ Holding
  BY GateLabels
<1>3. /\ call \in CallStates /\ ~call.held /\ call.at = outcome
      /\ call.page = tool[c].page /\ call.rows = tool[c].rows /\ call.colds = tool[c].colds
  BY <1>1, <1>2 DEF CallStates
<1>4. tool' = [tool EXCEPT ![c] = call]
  BY DEF GivesBack, AdapterIInv, AdapterTyped
<1> HIDE DEF call
<1>5. Whole(call)
  BY <1>1, <1>3 DEF Whole
<1>6. permits' = IF tool[c].held THEN permits + 1 ELSE permits
  BY DEF GivesBack
<1>7. QED
  BY <1>2, <1>3, <1>4, <1>5, <1>6, GateLetsGo

\* A page after the pages read so far.
LEMMA PageIsAdded ==
    ASSUME NEW call \in CallStates, Whole(call), NEW next, next.page = call.page + 1,
           next.rows = Append(call.rows, call.page + 1), next.colds = call.colds
    PROVE  Whole(next)
<1>1. call.rows \in Seq(Nat) /\ call.page \in Nat /\ next.rows \in Seq(Nat)
  BY DEF CallStates
<1>2. Len(next.rows) = Len(call.rows) + 1
  BY <1>1
<1>3. next.rows[Len(call.rows) + 1] = call.page + 1
  BY <1>1
<1>4. \A i \in 1..Len(call.rows) : next.rows[i] = call.rows[i]
  BY <1>1
<1>5. 1..next.page \subseteq Pages(next.rows)
  <2> SUFFICES ASSUME NEW p \in 1..next.page PROVE p \in Pages(next.rows)
    OBVIOUS
  <2>1. CASE p = call.page + 1
    BY <1>1, <1>2, <1>3, <2>1, SMTT(30) DEF Pages
  <2>2. CASE p # call.page + 1
    <3>1. p \in 1..call.page
      BY <1>1, <2>2
    <3>2. PICK i \in 1..Len(call.rows) : call.rows[i] = p
      BY <1>1, <3>1, SMTT(30) DEF Whole, Pages
    <3>3. next.rows[i] = p /\ i \in DOMAIN next.rows
      BY <1>1, <1>2, <1>4, <3>2
    <3>4. QED
      BY <3>3 DEF Pages
  <2>3. QED
    BY <2>1, <2>2
<1>6. next.colds = 0 => Len(next.rows) = next.page
  BY <1>2 DEF Whole
<1>7. QED
  BY <1>5, <1>6 DEF Whole

LEMMA GraphStep ==
    ASSUME AdapterIInv, Graph
    PROVE  kind \in {"graph", "kql"} /\ UNCHANGED <<kind, clients, holder, breaker>>
BY DEF Graph, gremlinVars, searchVars

LEMMA PostingHolds ==
    ASSUME AdapterIInv, NEW c \in ToolCalls, tool[c].at = "posting"
    PROVE  tool[c] \in CallStates /\ Whole(tool[c]) /\ tool[c].held
BY DEF AdapterIInv, AdapterTyped, PagesAreWhole, PermitsAreKept, Holding

\* A sleep gives the permit up.
LEMMA SleepsKeeps ==
    ASSUME AdapterIInv, Graph, NEW c \in ToolCalls, tool[c].at = "posting",
           NEW counted \in CallStates, Whole(counted), Sleeps(c, counted)
    PROVE  AdapterIInv'
<1> DEFINE call == GivenUp(counted)
<1>1. "sleeping" \in CallLabels \ Holding
  BY GateLabels
<1>2. /\ call \in CallStates /\ ~call.held /\ call.at = "sleeping"
      /\ call.page = counted.page /\ call.rows = counted.rows /\ call.colds = counted.colds
  BY <1>1 DEF GivenUp, CallStates
<1>3. tool' = [tool EXCEPT ![c] = call] /\ permits' = permits + 1
  BY DEF Sleeps
<1> HIDE DEF call
<1>4. Whole(call)
  BY <1>2 DEF Whole
<1>5. permits' = IF tool[c].held THEN permits + 1 ELSE permits
  BY <1>3, PostingHolds
<1>6. QED
  BY <1>1, <1>2, <1>3, <1>4, <1>5, GraphStep, GateLetsGo

LEMMA ThrottledIInv == ASSUME AdapterIInv, NEW c \in ToolCalls, Throttled(c) PROVE AdapterIInv'
<1>1. Graph /\ tool[c].at = "posting"
  BY DEF Throttled
<1>2. CASE GivesBack(c, "error")
  BY <1>1, <1>2, GraphStep, GivesBackKeeps
<1>3. CASE Sleeps(c, [tool[c] EXCEPT !.throttled = @ + 1])
  <2> DEFINE call == [tool[c] EXCEPT !.throttled = @ + 1]
  <2>1. /\ call \in CallStates /\ call.page = tool[c].page /\ call.rows = tool[c].rows
        /\ call.colds = tool[c].colds
    BY <1>1, PostingHolds, SMTT(30) DEF CallStates
  <2>2. Sleeps(c, call)
    BY <1>3
  <2> HIDE DEF call
  <2>3. Whole(call)
    BY <1>1, <2>1, PostingHolds DEF Whole
  <2>4. QED
    BY <1>1, <2>1, <2>2, <2>3, SleepsKeeps
<1>4. QED
  BY <1>2, <1>3 DEF Throttled

LEMMA ColdStartIInv == ASSUME AdapterIInv, NEW c \in ToolCalls, ColdStart(c) PROVE AdapterIInv'
<1>1. Graph /\ tool[c].at = "posting"
  BY DEF ColdStart
<1>2. CASE GivesBack(c, "error")
  BY <1>1, <1>2, GraphStep, GivesBackKeeps
<1>3. CASE Sleeps(c, [tool[c] EXCEPT !.colds = @ + 1, !.page = 0])
  <2> DEFINE call == [tool[c] EXCEPT !.colds = @ + 1, !.page = 0]
  <2>1. call \in CallStates /\ call.page = 0 /\ call.colds # 0
    <3>1. tool[c] \in CallStates
      BY <1>1, PostingHolds
    <3>2. PICK n \in Nat \ {0} : n = tool[c].colds + 1
      BY <3>1 DEF CallStates
    <3>3. call = [tool[c] EXCEPT !.colds = n, !.page = 0]
      BY <3>2
    <3> HIDE DEF call
    <3>4. QED
      BY <3>1, <3>3 DEF CallStates
  <2>2. Sleeps(c, call)
    BY <1>3
  <2> HIDE DEF call
  <2>3. Whole(call)
    BY <2>1 DEF Whole
  <2>4. QED
    BY <1>1, <2>1, <2>2, <2>3, SleepsKeeps
<1>4. QED
  BY <1>2, <1>3 DEF ColdStart

LEMMA PageIInv == ASSUME AdapterIInv, NEW c \in ToolCalls, Page(c) PROVE AdapterIInv'
<1> DEFINE call == [tool[c] EXCEPT !.rows = Append(@, tool[c].page + 1), !.page = @ + 1]
<1>1. Graph /\ tool[c].at = "posting"
  BY DEF Page
<1>a. tool[c] \in CallStates
  BY <1>1, PostingHolds
<1>b. tool[c].page + 1 \in Nat /\ Append(tool[c].rows, tool[c].page + 1) \in Seq(Nat)
  BY <1>a, AppendProperties DEF CallStates
<1>2. /\ call \in CallStates /\ call.page = tool[c].page + 1 /\ call.colds = tool[c].colds
      /\ call.rows = Append(tool[c].rows, tool[c].page + 1)
  BY <1>a, <1>b DEF CallStates
<1>3. GivesBack(c, "error") \/ Sleeps(c, call)
  BY DEF Page
<1> HIDE DEF call
<1>4. Whole(call)
  BY <1>1, <1>2, PostingHolds, PageIsAdded
<1>5. CASE GivesBack(c, "error")
  BY <1>1, <1>5, GraphStep, GivesBackKeeps
<1>6. CASE Sleeps(c, call)
  BY <1>1, <1>2, <1>4, <1>6, SleepsKeeps
<1>7. QED
  BY <1>3, <1>5, <1>6

LEMMA LastPageIInv == ASSUME AdapterIInv, NEW c \in ToolCalls, LastPage(c) PROVE AdapterIInv'
<1> DEFINE call == [tool[c] EXCEPT !.rows = Append(@, tool[c].page + 1), !.page = @ + 1,
                                   !.at = "answered", !.held = FALSE]
<1>1. Graph /\ tool[c].at = "posting" /\ permits' = permits + 1
  BY DEF LastPage
<1>2. "answered" \in CallLabels \ Holding
  BY GateLabels
<1>3. /\ call \in CallStates /\ call.page = tool[c].page + 1 /\ call.colds = tool[c].colds
      /\ call.rows = Append(tool[c].rows, tool[c].page + 1) /\ call.at = "answered" /\ ~call.held
  <2>1. tool[c] \in CallStates
    BY <1>1, PostingHolds
  <2>2. tool[c].page + 1 \in Nat /\ Append(tool[c].rows, tool[c].page + 1) \in Seq(Nat)
    BY <2>1, AppendProperties DEF CallStates
  <2>3. QED
    BY <1>2, <2>1, <2>2 DEF CallStates
<1>4. tool' = [tool EXCEPT ![c] = call]
  BY DEF LastPage, AdapterIInv, AdapterTyped
<1> HIDE DEF call
<1>5. Whole(call)
  BY <1>1, <1>3, PostingHolds, PageIsAdded
<1>6. permits' = IF tool[c].held THEN permits + 1 ELSE permits
  BY <1>1, PostingHolds
<1>7. QED
  BY <1>1, <1>2, <1>3, <1>4, <1>5, <1>6, GraphStep, GateLetsGo

LEMMA GraphIInv ==
    ASSUME AdapterIInv, NEW c \in ToolCalls,
           \/ GraphAsks(c) \/ Acquires(c) \/ Wakes(c) \/ Throttled(c) \/ ColdStart(c)
           \/ Page(c) \/ LastPage(c) \/ GraphFails(c) \/ GraphCancelled(c)
    PROVE  AdapterIInv'
<1>1. ASSUME GraphAsks(c) PROVE AdapterIInv'
  <2>1. Graph /\ UNCHANGED permits /\ tool[c].at \notin Holding
    BY <1>1 DEF GraphAsks, Holding
  <2>2. CASE tool' = Goes(c, "error")
    BY <2>1, <2>2, GraphStep, GateMoves, GateLabels
  <2>3. CASE tool' = Goes(c, "waiting")
    BY <2>1, <2>3, GraphStep, GateMoves, GateLabels
  <2>4. QED
    BY <1>1, <2>2, <2>3 DEF GraphAsks
<1>2. ASSUME Acquires(c) PROVE AdapterIInv'
  BY <1>2, GraphStep, GateTakes, GateLabels DEF Acquires
<1>3. ASSUME Wakes(c) PROVE AdapterIInv'
  <2>1. Graph /\ UNCHANGED permits /\ tool[c].at \notin Holding /\ tool' = Goes(c, "waiting")
    BY <1>3 DEF Wakes, Holding
  <2>2. QED
    BY <2>1, GraphStep, GateMoves, GateLabels
<1>4. ASSUME GraphFails(c) PROVE AdapterIInv'
  BY <1>4, GraphStep, GivesBackKeeps DEF GraphFails
<1>5. ASSUME GraphCancelled(c) PROVE AdapterIInv'
  BY <1>5, GraphStep, GivesBackKeeps DEF GraphCancelled
<1>6. QED
  BY <1>1, <1>2, <1>3, <1>4, <1>5, ThrottledIInv, ColdStartIInv, PageIInv, LastPageIInv

LEMMA KqlIInv ==
    ASSUME AdapterIInv, NEW c \in ToolCalls,
           KqlAsks(c) \/ KqlStarts(c) \/ KqlReturns(c) \/ KqlEnds(c)
    PROVE  AdapterIInv'
<1>1. kind \in {"graph", "kql"} /\ UNCHANGED <<kind, clients, holder, breaker>>
  BY DEF KqlAsks, KqlStarts, KqlReturns, KqlEnds, Kql, searchVars
<1>2. ASSUME KqlAsks(c) PROVE AdapterIInv'
  <2>1. UNCHANGED permits /\ tool[c].at \notin Holding
    BY <1>2 DEF KqlAsks, Holding
  <2>2. CASE tool' = Goes(c, "error")
    BY <1>1, <2>1, <2>2, GateMoves, GateLabels
  <2>3. CASE tool' = Goes(c, "waiting")
    BY <1>1, <2>1, <2>3, GateMoves, GateLabels
  <2>4. QED
    BY <1>2, <2>2, <2>3 DEF KqlAsks
<1>3. ASSUME KqlStarts(c) PROVE AdapterIInv'
  BY <1>1, <1>3, GateTakes, GateLabels DEF KqlStarts
<1>4. ASSUME KqlReturns(c) PROVE AdapterIInv'
  <2>1. UNCHANGED permits /\ tool[c].at \in Holding
    BY <1>4 DEF KqlReturns, Holding
  <2>2. CASE tool' = Goes(c, "succeeding")
    BY <1>1, <2>1, <2>2, GateMoves, GateLabels
  <2>3. CASE tool' = Goes(c, "failing")
    BY <1>1, <2>1, <2>3, GateMoves, GateLabels
  <2>4. QED
    BY <1>4, <2>2, <2>3 DEF KqlReturns
<1>5. ASSUME KqlEnds(c) PROVE AdapterIInv'
  BY <1>1, <1>5, GivesBackKeeps DEF KqlEnds
<1>6. QED
  BY <1>2, <1>3, <1>4, <1>5

(***************************************************************************)
(* The search adapters and their breaker                                   *)
(***************************************************************************)
\* A call goes on, and the breaker has no probe but one that is under way.
LEMMA SearchGoes ==
    ASSUME AdapterIInv, kind \in {"search", "runbooks"}, UNCHANGED <<kind, clients, holder, permits>>,
           NEW c \in ToolCalls, tool[c].at \notin Holding, NEW label \in CallLabels \ Holding,
           NEW call \in SameBut(tool[c], label), tool' = [tool EXCEPT ![c] = call],
           breaker' \in [state : {"closed", "open", "half-open"}, failures : Nat,
                         probe : ToolCalls \cup {"nobody"}],
           breaker'.state = "half-open" =>
             \/ breaker'.probe = c /\ label \in Probing
             \/ /\ breaker.state = "half-open" /\ breaker'.probe = breaker.probe
                /\ breaker.probe = c => label \in Probing
    PROVE  AdapterIInv'
<1> USE DEF AdapterIInv
<1>1. label \in CallLabels /\ (label \in Holding <=> tool[c].at \in Holding) /\ UNCHANGED permits
  OBVIOUS
<1>2. /\ tool' \in [ToolCalls -> CallStates] /\ tool'[c].at = label
      /\ \A d \in ToolCalls \ {c} : tool'[d] = tool[d]
      /\ PermitsAreKept' /\ PagesAreWhole'
  BY <1>1, MovesAside
<1>3. AdapterTyped' /\ ClientsAreKept'
  BY <1>2 DEF AdapterTyped, ClientsAreKept
<1>4. ProbeIsUnderWay'
  BY <1>2 DEF ProbeIsUnderWay
<1>5. QED
  BY <1>2, <1>3, <1>4

LEMMA SearchLabels ==
    {"error", "degraded", "building", "searching", "reading", "raised", "answered"}
      \subseteq CallLabels \ Holding
BY DEF CallLabels, Holding

\* A call goes on inside the breaker's question and answer, which does not change.
LEMMA SearchPasses ==
    ASSUME AdapterIInv, kind \in {"search", "runbooks"},
           UNCHANGED <<kind, clients, holder, permits, breaker>>,
           NEW c \in ToolCalls, tool[c].at \notin Holding, NEW label \in CallLabels \ Holding,
           NEW call \in SameBut(tool[c], label), tool' = [tool EXCEPT ![c] = call],
           label \in Probing \/ tool[c].at = "new"
    PROVE  AdapterIInv'
<1>1. /\ breaker' \in [state : {"closed", "open", "half-open"}, failures : Nat,
                       probe : ToolCalls \cup {"nobody"}]
      /\ breaker'.probe = breaker.probe /\ breaker'.state = breaker.state
  BY DEF AdapterIInv, AdapterTyped
<1>2. breaker.state = "half-open" /\ breaker.probe = c => label \in Probing
  BY DEF AdapterIInv, ProbeIsUnderWay, Probing
<1>3. QED
  BY <1>1, <1>2, SearchGoes

\* What a call asks of the breaker before it begins.
LEMMA CallAsksIInv ==
    ASSUME AdapterIInv, kind \in {"search", "runbooks"}, UNCHANGED <<kind, clients, holder, permits>>,
           NEW c \in ToolCalls, tool[c].at = "new",
           \/ tool' = Goes(c, "error") /\ UNCHANGED searchVars
           \/ Granted(c) /\ tool' = Goes(c, "building")
           \/ Rejected /\ tool' = Goes(c, "degraded")
    PROVE  AdapterIInv'
<1> USE DEF AdapterIInv
<1>1. tool[c].at \notin Holding
  BY DEF Holding
<1>2. CASE UNCHANGED breaker
  <2>1. PICK label \in {"error", "building", "degraded"} : tool' = Goes(c, label)
    OBVIOUS
  <2>2. label \in CallLabels \ Holding
    BY SearchLabels
  <2>3. PICK call \in SameBut(tool[c], label) : tool' = [tool EXCEPT ![c] = call]
    BY <2>1, <2>2, GoesMoves
  <2>4. QED
    BY <1>1, <1>2, <2>2, <2>3, SearchPasses
<1>3. CASE breaker' = [breaker EXCEPT !.state = "half-open", !.probe = c] /\ tool' = Goes(c, "building")
  <2>1. "building" \in CallLabels \ Holding /\ "building" \in Probing
    BY SearchLabels DEF Probing
  <2>2. PICK call \in SameBut(tool[c], "building") : tool' = [tool EXCEPT ![c] = call]
    BY <1>3, <2>1, GoesMoves
  <2>3. /\ breaker' \in [state : {"closed", "open", "half-open"}, failures : Nat,
                         probe : ToolCalls \cup {"nobody"}]
        /\ breaker'.probe = c
    BY <1>3 DEF AdapterTyped
  <2>4. QED
    BY <1>1, <2>1, <2>2, <2>3, SearchGoes
<1>4. QED
  BY <1>2, <1>3 DEF Granted, Rejected, searchVars

\* What is recorded leaves nobody waiting.
LEMMA RecordsIInv ==
    ASSUME AdapterIInv, kind \in {"search", "runbooks"}, UNCHANGED <<kind, clients, holder, permits>>,
           NEW c \in ToolCalls, tool[c].at \in {"searching", "reading"},
           NEW label \in {"answered", "error"}, tool' = Goes(c, label),
           record_success(c) \/ record_failure(c)
    PROVE  AdapterIInv'
<1> USE DEF AdapterIInv
<1>1. tool[c].at \notin Holding
  BY DEF Holding
<1>2. label \in CallLabels \ Holding
  BY SearchLabels
<1>3. PICK call \in SameBut(tool[c], label) : tool' = [tool EXCEPT ![c] = call]
  BY <1>2, GoesMoves
<1>4. breaker' \in [state : {"closed", "open", "half-open"}, failures : Nat,
                    probe : ToolCalls \cup {"nobody"}]
  <2>1. breaker \in [state : {"closed", "open", "half-open"}, failures : Nat,
                      probe : ToolCalls \cup {"nobody"}]
    BY DEF AdapterTyped
  <2>2. CASE record_success(c)
    BY <2>1, <2>2 DEF record_success
  <2>3. CASE record_failure(c)
    <3>1. PICK n \in Nat : n = breaker.failures + 1
      BY <2>1
    <3>2. PICK next \in {"closed", "open", "half-open"} :
            breaker' = [breaker EXCEPT !.failures = n, !.state = next]
      BY <2>1, <2>3, <3>1 DEF record_failure
    <3>3. QED
      BY <2>1, <3>2
  <2>4. QED
    BY <2>2, <2>3
<1>5. breaker'.state # "half-open"
  BY DEF AdapterTyped, record_success, record_failure
<1>6. QED
  BY <1>1, <1>2, <1>3, <1>4, <1>5, SearchGoes

LEMMA SearchStep ==
    ASSUME AdapterIInv, Search \/ Runbooks
    PROVE  kind \in {"search", "runbooks"} /\ UNCHANGED <<kind, clients, holder, permits>>
BY DEF Search, Runbooks, gremlinVars

LEMMA SearchMoves ==
    ASSUME AdapterIInv, Search \/ Runbooks, UNCHANGED breaker, NEW c \in ToolCalls,
           tool[c].at \notin Holding, NEW label \in {"searching", "reading", "raised"},
           tool' = Goes(c, label)
    PROVE  AdapterIInv'
<1>1. label \in CallLabels \ Holding /\ label \in Probing
  BY SearchLabels DEF Probing
<1>2. PICK call \in SameBut(tool[c], label) : tool' = [tool EXCEPT ![c] = call]
  BY <1>1, GoesMoves DEF AdapterIInv
<1>3. kind \in {"search", "runbooks"} /\ UNCHANGED <<kind, clients, holder, permits, breaker>>
  BY SearchStep
<1>4. QED
  BY <1>1, <1>2, <1>3, SearchPasses

LEMMA SearchIInv ==
    ASSUME AdapterIInv, NEW c \in ToolCalls,
           \/ SearchAsks(c) \/ SearchClient(c) \/ Found(c) \/ QuotaEnds(c)
           \/ SearchSucceeds(c) \/ SearchFails(c)
    PROVE  AdapterIInv'
<1>1. Search
  BY DEF SearchAsks, SearchClient, Found, QuotaEnds, SearchSucceeds, SearchFails
<1>2. ASSUME SearchAsks(c) PROVE AdapterIInv'
  BY <1>1, <1>2, SearchStep, CallAsksIInv DEF SearchAsks
<1>3. ASSUME SearchClient(c) PROVE AdapterIInv'
  <2>1. tool[c].at \notin Holding /\ UNCHANGED breaker
    BY <1>3 DEF SearchClient, Holding, searchVars
  <2>2. QED
    BY <1>1, <1>3, <2>1, SearchMoves DEF SearchClient
<1>4. ASSUME Found(c) PROVE AdapterIInv'
  <2>1. tool[c].at \notin Holding /\ UNCHANGED breaker
    BY <1>4 DEF Found, Holding, searchVars
  <2>2. QED
    BY <1>1, <1>4, <2>1, SearchMoves DEF Found
<1>5. ASSUME QuotaEnds(c) PROVE AdapterIInv'
  <2> DEFINE call == [tool[c] EXCEPT !.at = "searching", !.semantic = FALSE]
  <2>1. tool[c].at \notin Holding /\ UNCHANGED breaker
    BY <1>5 DEF QuotaEnds, Holding, searchVars
  <2>2. "searching" \in CallLabels \ Holding /\ "searching" \in Probing
    BY SearchLabels DEF Probing
  <2>3. tool[c] \in CallStates /\ 0 \in Nat /\ FALSE \in BOOLEAN
    BY DEF AdapterIInv, AdapterTyped
  <2>4. call \in SameBut(tool[c], "searching")
    BY <2>2, <2>3, CallNarrows, Zenon
  <2>5. tool' = [tool EXCEPT ![c] = call]
    BY <1>5 DEF QuotaEnds, AdapterIInv, AdapterTyped
  <2> HIDE DEF call
  <2>6. kind \in {"search", "runbooks"} /\ UNCHANGED <<kind, clients, holder, permits, breaker>>
    BY <1>1, <2>1, SearchStep
  <2>7. QED
    BY <2>1, <2>2, <2>4, <2>5, <2>6, SearchPasses
<1>6. ASSUME SearchSucceeds(c) \/ SearchFails(c) PROVE AdapterIInv'
  <2>1. /\ tool[c].at \in {"searching", "reading"} /\ (record_success(c) \/ record_failure(c))
        /\ \E label \in {"answered", "error"} : tool' = Goes(c, label)
    BY <1>6 DEF SearchSucceeds, SearchFails
  <2>2. QED
    BY <1>1, <2>1, SearchStep, RecordsIInv
<1>7. QED
  BY <1>2, <1>3, <1>4, <1>5, <1>6

LEMMA RunbooksIInv ==
    ASSUME AdapterIInv, NEW c \in ToolCalls,
           RunbooksAsk(c) \/ RunbooksClient(c) \/ RunbooksReturn(c)
    PROVE  AdapterIInv'
<1>1. Runbooks
  BY DEF RunbooksAsk, RunbooksClient, RunbooksReturn
<1>2. ASSUME RunbooksAsk(c) PROVE AdapterIInv'
  BY <1>1, <1>2, SearchStep, CallAsksIInv DEF RunbooksAsk
<1>3. ASSUME RunbooksClient(c) PROVE AdapterIInv'
  <2>1. tool[c].at \notin Holding /\ UNCHANGED breaker
    BY <1>3 DEF RunbooksClient, Holding, searchVars
  <2>2. QED
    BY <1>1, <1>3, <2>1, SearchMoves DEF RunbooksClient
<1>4. ASSUME RunbooksReturn(c) PROVE AdapterIInv'
  <2>1. CASE tool[c].at = "searching" /\ tool' = Goes(c, "reading") /\ UNCHANGED breaker
    <3>1. tool[c].at \notin Holding
      BY <2>1 DEF Holding
    <3>2. QED
      BY <1>1, <2>1, <3>1, SearchMoves
  <2>2. CASE tool[c].at = "reading" /\ tool' = Goes(c, "answered") /\ record_success(c)
    BY <1>1, <2>2, SearchStep, RecordsIInv
  <2>3. CASE tool[c].at \in {"searching", "reading"} /\ tool' = Goes(c, "error") /\ record_failure(c)
    BY <1>1, <2>3, SearchStep, RecordsIInv
  <2>4. QED
    BY <1>4, <2>1, <2>2, <2>3 DEF RunbooksReturn
<1>5. QED
  BY <1>2, <1>3, <1>4

LEMMA AdapterNextIInv == AdapterIInv /\ [AdapterNext]_adapterVars => AdapterIInv'
<1>1. ASSUME AdapterIInv, UNCHANGED adapterVars PROVE AdapterIInv'
  BY <1>1 DEF AdapterIInv, AdapterTyped, ClientsAreKept, PermitsAreKept, Held, PagesAreWhole, Whole,
              ProbeIsUnderWay, adapterVars, gremlinVars, searchVars
<1>2. ASSUME AdapterIInv, AdapterNext PROVE AdapterIInv'
  BY <1>2, TokenAgesIInv, GremlinAsksIInv, LockTakenIInv, ClosesOldIInv, DiscardsIInv, BuildsIInv,
     BuildFailsIInv, SubmitsIInv, GremlinCancelledIInv, GraphIInv, KqlIInv, SearchIInv, RunbooksIInv
     DEF AdapterNext
<1>3. QED
  BY <1>1, <1>2

\* No adapter leaves a client open beside the cached one, a permit lost or returned twice,
\* a breaker waiting for a probe that is over, or an answer without one of its pages,
\* whatever fails, is retried, throttled or cancelled in between (tools/).
THEOREM AdaptersAlwaysLeaveNothing ==
    AdapterInit /\ [][AdapterNext]_adapterVars => []AdaptersLeaveNothing
<1>1. AdapterIInv => AdaptersLeaveNothing
  <2> SUFFICES ASSUME AdapterIInv PROVE AdaptersLeaveNothing
    OBVIOUS
  <2> USE DEF AdapterIInv
  <2>1. \A i \in DOMAIN clients : clients[i].open => i = current \/ clients[i].stuck
    BY EmptySeq DEF ClientsAreKept, AdapterTyped
  <2>2. holder # "nobody" => tool[holder].at \in {"closing", "closed", "building"}
    BY DEF ClientsAreKept, AdapterTyped, Locked
  <2>3. permits + Cardinality({c \in ToolCalls : tool[c].held}) = Permits
    BY DEF PermitsAreKept, Held
  <2>4. \A c \in ToolCalls : kind = "graph" /\ tool[c].at = "answered" =>
          /\ ~tool[c].held /\ 1..tool[c].page \subseteq Pages(tool[c].rows)
          /\ tool[c].colds = 0 => Len(tool[c].rows) = tool[c].page
    BY DEF PermitsAreKept, PagesAreWhole, Whole, Holding
  <2>5. breaker.state = "half-open" =>
          tool[breaker.probe].at \in {"building", "searching", "reading", "raised"}
    BY DEF ProbeIsUnderWay, Probing
  <2>6. QED
    BY <2>1, <2>2, <2>3, <2>4, <2>5 DEF AdaptersLeaveNothing
<1>2. QED
  BY <1>1, AdapterInitIInv, AdapterNextIInv, PTL

(***************************************************************************)
(* Context building (TurnContext)                                          *)
(***************************************************************************)
ThreadMessages ==
  {m \in [role : {"system", "user", "tool", "assistant"}, of : Scenarios \cup {"none"},
          tokens : Nat, linked : BOOLEAN] : m.role = "system" => m.of \in Scenarios}

RequestTurns == [at : {"ensured", "asked", "built"}, scenario : Scenarios, limit : TurnLimits]

\* A thread that was created with a prompt keeps one at its head, and from ensure_thread
\* to the window it is that of the request's scenario.
PromptIsAtHead ==
  /\ stored \in Seq(ThreadMessages)
  /\ turn = Rest \/ turn \in RequestTurns
  /\ origin = "new" => /\ stored # <<>> \/ turn.at # "rest" => HasPrompt(stored)
                       /\ turn.at \in {"ensured", "asked"} => Head(stored).of = turn.scenario
  /\ window # NoWindow /\ origin = "new" => window.prompt = window.asked

LEMMA Prompts ==
    ASSUME NEW s \in Scenarios
    PROVE  PromptOf(s) \in ThreadMessages /\ PromptOf(s).role = "system" /\ PromptOf(s).of = s
BY ContextAssumption DEF PromptOf, Message, ThreadMessages

\* What stands in front of a thread is its head, and stays so when something is appended.
LEMMA Heads ==
    ASSUME NEW m \in ThreadMessages, NEW t \in Seq(ThreadMessages)
    PROVE  /\ <<m>> \o t \in Seq(ThreadMessages) /\ <<m>> \o t # <<>> /\ Head(<<m>> \o t) = m
           /\ Append(t, m) \in Seq(ThreadMessages)
           /\ t # <<>> => Append(t, m) # <<>> /\ Head(Append(t, m)) = Head(t)
           /\ t # <<>> => Tail(t) \in Seq(ThreadMessages)
           /\ <<m>> \in Seq(ThreadMessages) /\ <<m>> # <<>> /\ Head(<<m>>) = m
OBVIOUS

LEMMA Pairs ==
    ASSUME NEW m \in ThreadMessages, NEW n \in ThreadMessages
    PROVE  <<m, n>> \in Seq(ThreadMessages)
OBVIOUS

LEMMA HeadStays ==
    ASSUME NEW m \in ThreadMessages, NEW t \in Seq(ThreadMessages), HasPrompt(t)
    PROVE  HasPrompt(Append(t, m)) /\ Head(Append(t, m)) = Head(t)
BY Heads DEF HasPrompt

LEMMA PromptNext == PromptIsAtHead /\ [ContextNext]_contextVars => PromptIsAtHead'
<1> SUFFICES ASSUME PromptIsAtHead, [ContextNext]_contextVars PROVE PromptIsAtHead'
  OBVIOUS
<1> USE DEF PromptIsAtHead
<1>0. NoWindow' = NoWindow
  BY DEF NoWindow
<1>1. ASSUME NEW s \in Scenarios, NEW n \in TurnLimits, EnsureThread(s, n) PROVE PromptIsAtHead'
  <2>1. /\ turn' \in RequestTurns /\ turn'.at = "ensured" /\ turn'.scenario = s
        /\ UNCHANGED <<durable, origin, window>>
        /\ turn.at = "rest"
    BY <1>1 DEF EnsureThread, RequestTurns
  <2>2. CASE stored = <<>> /\ stored' = <<PromptOf(s)>>
    BY <1>0, <2>1, <2>2, Prompts, Heads DEF HasPrompt
  <2>3. CASE /\ stored # <<>> /\ ~HasPrompt(stored)
             /\ stored' = Append(IF durable THEN stored ELSE <<PromptOf(s)>> \o stored, PromptOf(s))
    <3>1. stored' \in Seq(ThreadMessages)
      BY <2>3, Prompts, Heads
    <3>2. origin # "new"
      BY <2>3
    <3>3. QED
      BY <1>0, <2>1, <3>1, <3>2
  <2>4. CASE HasPrompt(stored) /\ stored' = <<PromptOf(s)>> \o Tail(stored)
    <3>1. Tail(stored) \in Seq(ThreadMessages)
      BY <2>4, Prompts, Heads DEF HasPrompt
    <3>2. stored' \in Seq(ThreadMessages) /\ HasPrompt(stored') /\ Head(stored').of = s
      BY <2>4, <3>1, Prompts, Heads DEF HasPrompt
    <3>3. QED
      BY <1>0, <2>1, <3>2
  <2>5. QED
    BY <1>1, <2>2, <2>3, <2>4 DEF EnsureThread
<1>2. ASSUME NEW s \in Scenarios, EnsureFails(s) PROVE PromptIsAtHead'
  <2>1. /\ turn.at = "rest" /\ turn' = turn /\ stored # <<>>
        /\ UNCHANGED <<durable, origin, window>>
    BY <1>2 DEF EnsureFails
  <2>2. CASE stored' = stored
    BY <1>0, <2>1, <2>2
  <2>3. CASE stored' = <<PromptOf(s)>> \o Conversation(stored)
    <3>1. Conversation(stored) \in Seq(ThreadMessages)
      BY <2>1, Prompts, Heads DEF Conversation
    <3>2. stored' \in Seq(ThreadMessages) /\ HasPrompt(stored')
      BY <2>3, <3>1, Prompts, Heads DEF HasPrompt
    <3>3. QED
      BY <1>0, <2>1, <3>2
  <2>4. QED
    BY <1>2, <2>2, <2>3 DEF EnsureFails
<1>3. ASSUME BuildContext PROVE PromptIsAtHead'
  <2>1. turn.at = "asked" /\ UNCHANGED <<durable, origin, stored>>
    BY <1>3 DEF BuildContext
  <2>2. CASE window' = Window(stored, turn.scenario, turn.limit) /\ turn' = [turn EXCEPT !.at = "built"]
    <3>1. /\ window'.prompt = IF HasPrompt(stored) THEN Head(stored).of ELSE "settings"
          /\ window'.asked = turn.scenario
      BY <2>2 DEF Window
    <3>2. turn \in RequestTurns
      BY <2>1 DEF Rest
    <3>3. turn' \in RequestTurns /\ turn'.at = "built" /\ turn'.scenario = turn.scenario
      BY <2>2, <3>2 DEF RequestTurns
    <3>4. QED
      BY <1>0, <2>1, <2>2, <3>1, <3>3
  <2>3. CASE turn' = Rest /\ UNCHANGED window
    BY <1>0, <2>1, <2>3 DEF Rest
  <2>4. QED
    BY <1>3, <2>2, <2>3 DEF BuildContext
<1>4. ASSUME NEW t \in Tokens, AppendUser(t) \/ Answered(t) PROVE PromptIsAtHead'
  <2>1. PICK m \in ThreadMessages :
          /\ stored' \in {stored, Append(stored, m)} /\ UNCHANGED <<durable, origin, window>>
          /\ \/ turn' = Rest
             \/ turn.at = "ensured" /\ turn' = [turn EXCEPT !.at = "asked"]
    <3>1. /\ Message("user", "none", t, TRUE) \in ThreadMessages
          /\ Message("assistant", "none", t, TRUE) \in ThreadMessages
      BY ContextAssumption DEF Message, ThreadMessages
    <3>2. QED
      BY <1>4, <3>1 DEF AppendUser, Answered
  <2>2. turn \in RequestTurns
    <3>1. turn.at \in {"ensured", "built"}
      BY <1>4 DEF AppendUser, Answered
    <3>2. QED
      BY <3>1 DEF Rest
  <2>3. stored' \in Seq(ThreadMessages)
    BY <2>1, Heads
  <2>5. HasPrompt(stored) => HasPrompt(stored') /\ Head(stored') = Head(stored)
    BY <2>1, HeadStays
  <2>4. CASE turn' = Rest
    BY <1>0, <2>1, <2>2, <2>3, <2>4, <2>5 DEF Rest, RequestTurns
  <2>6. CASE turn.at = "ensured" /\ turn' = [turn EXCEPT !.at = "asked"]
    <3>1. turn' \in RequestTurns /\ turn'.at = "asked" /\ turn'.scenario = turn.scenario
      BY <2>2, <2>6 DEF RequestTurns
    <3>2. QED
      BY <1>0, <2>1, <2>3, <2>5, <2>6, <3>1
  <2>7. QED
    BY <2>1, <2>4, <2>6
<1>5. ASSUME UNCHANGED contextVars PROVE PromptIsAtHead'
  BY <1>0, <1>5 DEF contextVars
<1>6. QED
  BY <1>1, <1>2, <1>3, <1>4, <1>5 DEF ContextNext

LEMMA PromptInit == ContextInit => PromptIsAtHead
<1> SUFFICES ASSUME ContextInit PROVE PromptIsAtHead
  OBVIOUS
<1>1. CASE origin = "new" /\ stored = <<>>
  BY <1>1, EmptySeq DEF ContextInit, PromptIsAtHead, Rest, NoWindow
<1>2. CASE \E linked \in BOOLEAN, t \in Tokens : 
             stored = <<Message("user", "none", t, TRUE), Message("tool", "none", t, linked)>>
  <2>1. PICK linked \in BOOLEAN, t \in Tokens :
             stored = <<Message("user", "none", t, TRUE), Message("tool", "none", t, linked)>>
    BY <1>2
  <2>2. /\ Message("user", "none", t, TRUE) \in ThreadMessages
        /\ Message("tool", "none", t, linked) \in ThreadMessages
    BY ContextAssumption DEF Message, ThreadMessages
  <2>3. stored \in Seq(ThreadMessages)
    BY <2>1, <2>2, Pairs
  <2>4. CASE origin = "new"
    BY <1>1, <2>4 DEF ContextInit
  <2>5. QED
    BY <2>3, <2>4 DEF ContextInit, PromptIsAtHead, Rest
<1>3. QED
  BY <1>1, <1>2 DEF ContextInit

Fills == [kept : Seq(ThreadMessages), room : Int, full : BOOLEAN]

\* The partial sums of a thread's cost.
LEMMA SumRuns ==
    ASSUME NEW s \in Seq(ThreadMessages)
    PROVE  \E f \in [0..Len(s) -> Nat] :
             /\ f[0] = 0 /\ (\A i \in 1..Len(s) : f[i] = f[i - 1] + s[i].tokens)
             /\ Cost(s) = f[Len(s)]
<1>1. PICK n \in Nat : n = Len(s) /\ DOMAIN s = 1..n /\ \A i \in 1..n : s[i].tokens \in Nat
  BY LenProperties, ElementOfSeq DEF ThreadMessages
<1> DEFINE round == [p \in Nat \X (1..n) |-> p[1] + s[p[2]].tokens]
           Sum(f) == f = [i \in 0..n |-> IF i = 0 THEN 0 ELSE f[i - 1] + s[i].tokens]
           sum == CHOOSE f : Sum(f)
<1>2. round \in Loops(n, Nat)
  BY <1>1 DEF Loops
<1>3. PICK f : IsRun(f, n, Nat, 0, round)
  BY <1>2, LoopRuns
<1>4. ASSUME NEW i \in 1..n PROVE f[i] = f[i - 1] + s[i].tokens
  <2>1. i - 1 \in 0..n /\ f[i - 1] \in Nat
    BY <1>3 DEF IsRun
  <2>2. <<f[i - 1], i>> \in Nat \X (1..n)
    BY <2>1
  <2>3. QED
    BY <1>3, <2>2 DEF IsRun
<1>5. Sum(f)
  <2>1. \A k \in 0..n : k # 0 => k \in 1..n
    OBVIOUS
  <2>2. f = [i \in 0..n |-> f[i]] /\ f[0] = 0
    BY <1>3 DEF IsRun
  <2>3. \A i \in 0..n : f[i] = IF i = 0 THEN 0 ELSE f[i - 1] + s[i].tokens
    BY <1>4, <2>1, <2>2
  <2>4. QED
    BY <2>2, <2>3
<1>6. Sum(sum)
  <2> HIDE DEF Sum
  <2>1. QED
    BY <1>5
<1>7. Cost(s) = sum[n]
  BY <1>1 DEF Cost
<1> HIDE DEF sum
<1>8. sum[0] = 0 /\ \A i \in 1..n : sum[i] = sum[i - 1] + s[i].tokens
  BY <1>6
<1>9. sum \in [0..n -> Nat]
  <2>1. \A k \in 1..n : sum[k - 1] \in Nat => sum[k] \in Nat
    BY <1>1, <1>8
  <2>2. sum = [i \in 0..n |-> sum[i]] /\ sum[0] \in Nat
    BY <1>6, <1>8
  <2>3. QED
    BY <2>1, <2>2, RunStays
<1>10. QED
  BY <1>1, <1>7, <1>8, <1>9

LEMMA CostGrows ==
    ASSUME NEW s \in Seq(ThreadMessages), NEW m \in ThreadMessages
    PROVE  /\ Cost(s) \in Nat /\ <<m>> \o s \in Seq(ThreadMessages)
           /\ Cost(<<m>> \o s) = m.tokens + Cost(s)
<1>1. PICK n \in Nat : n = Len(s) /\ \A i \in 1..n : s[i].tokens \in Nat
  BY LenProperties, ElementOfSeq DEF ThreadMessages
<1>2. PICK t \in Seq(ThreadMessages) : t = <<m>> \o s
  BY Heads
<1>3. /\ Len(t) = n + 1 /\ t[1] = m /\ \A i \in 1..n : t[i + 1] = s[i]
  BY <1>1, <1>2
<1>4. PICK f \in [0..n -> Nat] :
        f[0] = 0 /\ (\A i \in 1..n : f[i] = f[i - 1] + s[i].tokens) /\ Cost(s) = f[n]
  BY <1>1, SumRuns
<1>5. PICK g \in [0..(n + 1) -> Nat] :
        g[0] = 0 /\ (\A i \in 1..(n + 1) : g[i] = g[i - 1] + t[i].tokens) /\ Cost(t) = g[n + 1]
  BY <1>3, SumRuns
<1>6. m.tokens \in Nat
  BY DEF ThreadMessages
<1> DEFINE T == {i \in 0..n : g[i + 1] = m.tokens + f[i]}
<1>7. 0 \in T
  BY <1>3, <1>4, <1>5, <1>6
<1>8. ASSUME NEW k \in 0..(n - 1), k \in T PROVE k + 1 \in T
  <2>1. /\ k + 1 \in 1..n /\ k + 2 \in 1..(n + 1) /\ (k + 1) - 1 = k /\ (k + 2) - 1 = k + 1
        /\ (k + 1) + 1 = k + 2 /\ k \in 0..n /\ k + 1 \in 0..n
    OBVIOUS
  <2>2. g[k + 2] = g[k + 1] + t[k + 2].tokens /\ f[k + 1] = f[k] + s[k + 1].tokens
    BY <1>4, <1>5, <2>1
  <2>3. t[k + 2] = s[k + 1]
    BY <1>3, <2>1
  <2>4. g[k + 1] = m.tokens + f[k] /\ f[k] \in Nat /\ s[k + 1].tokens \in Nat
    BY <1>1, <1>8, <2>1
  <2>5. g[(k + 1) + 1] = m.tokens + f[k + 1]
    <3>1. g[(k + 1) + 1] = (m.tokens + f[k]) + s[k + 1].tokens
      BY <2>1, <2>2, <2>3, <2>4
    <3>2. f[k + 1] = f[k] + s[k + 1].tokens
      BY <2>2
    <3>3. PICK a \in Nat, b \in Nat, c \in Nat : a = m.tokens /\ b = f[k] /\ c = s[k + 1].tokens
      BY <1>6, <2>4
    <3>4. g[(k + 1) + 1] = (a + b) + c
      BY <3>1, <3>3
    <3>5. m.tokens + f[k + 1] = a + (b + c)
      BY <3>2, <3>3
    <3>6. QED
      BY <3>4, <3>5
  <2>6. QED
    BY <2>1, <2>5
<1>9. n \in T
  <2> HIDE DEF T
  <2>1. \A k \in 0..n : k \in T
    BY <1>7, <1>8, Induction
  <2>2. QED
    BY <2>1
<1>10. QED
  BY <1>2, <1>4, <1>5, <1>9

LEMMA CostOfNothing == Cost(<<>>) = 0
BY EmptySeq, SumRuns

\* The messages of s from the newest back, one more with each k.
ReadBack(u, s) ==
  /\ u \in [0..Len(s) -> Seq(ThreadMessages)] /\ u[0] = <<>>
  /\ \A k \in 1..Len(s) :
       LET m == s[Len(s) - k + 1]
       IN  u[k] = IF Orphaned(m) THEN u[k - 1] ELSE <<m>> \o u[k - 1]

LEMMA UsefulRuns ==
    ASSUME NEW s \in Seq(ThreadMessages)
    PROVE  \E u : ReadBack(u, s) /\ Useful(s) = u[Len(s)]
<1>1. PICK n \in Nat : n = Len(s) /\ DOMAIN s = 1..n /\ \A i \in 1..n : s[i] \in ThreadMessages
  BY LenProperties, ElementOfSeq
<1> DEFINE Next1(t, k) == IF Orphaned(s[n - k + 1]) THEN t ELSE <<s[n - k + 1]>> \o t
           round == [p \in Seq(ThreadMessages) \X (1..n) |-> Next1(p[1], p[2])]
           IsReading(u) == u = [k \in 0..n |-> IF k = 0 THEN <<>> ELSE Next1(u[k - 1], k)]
           reading == CHOOSE u : IsReading(u)
<1>2. \A k \in 1..n : n - k + 1 \in 1..n /\ k - 1 \in 0..n /\ k \in 0..n /\ k # 0
  OBVIOUS
<1>3. \A t \in Seq(ThreadMessages), k \in 1..n : Next1(t, k) \in Seq(ThreadMessages)
  BY <1>1, <1>2, Heads
<1> HIDE DEF Next1
<1>4. round \in Loops(n, Seq(ThreadMessages))
  BY <1>3 DEF Loops
<1>5. PICK f : IsRun(f, n, Seq(ThreadMessages), <<>>, round)
  BY <1>4, EmptySeq, LoopRuns
<1>6. ASSUME NEW k \in 1..n PROVE f[k] = Next1(f[k - 1], k)
  <2>1. f[k - 1] \in Seq(ThreadMessages)
    BY <1>2, <1>5 DEF IsRun
  <2>2. <<f[k - 1], k>> \in Seq(ThreadMessages) \X (1..n)
    BY <2>1
  <2>3. QED
    BY <1>5, <2>2 DEF IsRun
<1>7. IsReading(f)
  <2>1. \A k \in 0..n : k # 0 => k \in 1..n
    OBVIOUS
  <2>2. f = [k \in 0..n |-> f[k]] /\ f[0] = <<>>
    BY <1>5 DEF IsRun
  <2>3. \A k \in 0..n : f[k] = IF k = 0 THEN <<>> ELSE Next1(f[k - 1], k)
    BY <1>6, <2>1, <2>2
  <2>4. QED
    BY <2>2, <2>3
<1>8. IsReading(reading)
  <2> HIDE DEF IsReading
  <2>1. QED
    BY <1>7
<1>9. Useful(s) = reading[n]
  BY <1>1 DEF Useful, Next1
<1> HIDE DEF reading
<1>10. reading[0] = <<>> /\ \A k \in 1..n : reading[k] = Next1(reading[k - 1], k)
  BY <1>2, <1>8
<1>11. reading \in [0..n -> Seq(ThreadMessages)]
  <2>1. \A k \in 1..n : reading[k - 1] \in Seq(ThreadMessages) => reading[k] \in Seq(ThreadMessages)
    BY <1>3, <1>10
  <2>2. reading = [k \in 0..n |-> reading[k]]
    BY <1>8
  <2>3. reading[0] \in Seq(ThreadMessages)
    BY <1>10, EmptySeq
  <2>4. QED
    BY <2>1, <2>2, <2>3, RunStays
<1>12. ReadBack(reading, s)
  BY <1>1, <1>10, <1>11 DEF ReadBack, Next1
<1>13. QED
  BY <1>1, <1>9, <1>12

LEMMA Regroup ==
    ASSUME NEW a \in Seq(ThreadMessages), NEW b \in Seq(ThreadMessages), NEW c \in Seq(ThreadMessages)
    PROVE  a \o (b \o c) = (a \o b) \o c
BY ConcatAssociative

\* What was read back later stands in front of what was read before.
LEMMA ReadBackGrows ==
    ASSUME NEW s \in Seq(ThreadMessages), NEW u, ReadBack(u, s), NEW j \in 0..Len(s)
    PROVE  \E w \in Seq(ThreadMessages) : u[Len(s)] = w \o u[j]
<1>1. PICK n \in Nat : n = Len(s) /\ \A i \in 1..n : s[i] \in ThreadMessages
  BY LenProperties, ElementOfSeq
<1>2. u \in [0..n -> Seq(ThreadMessages)]
  BY <1>1 DEF ReadBack
<1> DEFINE T == {i \in 0..(n - j) : \E w \in Seq(ThreadMessages) : u[j + i] = w \o u[j]}
<1>3. 0 \in T
  <2>1. u[j + 0] = <<>> \o u[j] /\ 0 \in 0..(n - j) /\ <<>> \in Seq(ThreadMessages)
    BY <1>1, <1>2, EmptySeq, ConcatEmptySeq
  <2>2. QED
    BY <2>1
<1>4. ASSUME NEW i \in 0..((n - j) - 1), i \in T PROVE i + 1 \in T
  <2>1. PICK w \in Seq(ThreadMessages) : u[j + i] = w \o u[j]
    BY <1>4
  <2>2. PICK k \in 1..n : k = j + i + 1
    BY <1>1
  <2>3. /\ k - 1 = j + i /\ k = j + (i + 1) /\ i + 1 \in 0..(n - j) /\ n - k + 1 \in 1..n
        /\ j \in 0..n
    BY <1>1, <2>2
  <2>4. PICK m \in ThreadMessages : m = s[n - k + 1]
    BY <1>1, <2>3
  <2>5. u[k] = IF Orphaned(m) THEN u[k - 1] ELSE <<m>> \o u[k - 1]
    BY <1>1, <2>4 DEF ReadBack
  <2>6. CASE Orphaned(m)
    BY <2>1, <2>3, <2>5, <2>6
  <2>7. CASE ~Orphaned(m)
    <3>1. <<m>> \in Seq(ThreadMessages) /\ <<m>> \o w \in Seq(ThreadMessages)
      BY Heads
    <3>2. <<m>> \o (w \o u[j]) = (<<m>> \o w) \o u[j]
      <4>1. u[j] \in Seq(ThreadMessages)
        BY <1>2, <2>3
      <4>2. \A a, b \in Seq(ThreadMessages) : a \o (b \o u[j]) = (a \o b) \o u[j]
        <5> SUFFICES ASSUME NEW a \in Seq(ThreadMessages), NEW b \in Seq(ThreadMessages)
                     PROVE  a \o (b \o u[j]) = (a \o b) \o u[j]
          OBVIOUS
        <5>1. QED
          BY <4>1, Regroup, ZenonT(30)
      <4>3. QED
        BY <3>1, <4>2
    <3>3. u[j + (i + 1)] = (<<m>> \o w) \o u[j]
      BY <2>1, <2>3, <2>5, <2>7, <3>2
    <3>4. QED
      BY <2>3, <3>1, <3>3
  <2>8. QED
    BY <2>6, <2>7
<1>5. n - j \in Nat /\ j + (n - j) = n
  BY <1>1
<1>6. n - j \in T
  <2> HIDE DEF T
  <2>1. \A i \in 0..(n - j) : i \in T
    BY <1>3, <1>4, <1>5, Induction
  <2>2. QED
    BY <1>5, <2>1
<1>7. QED
  BY <1>1, <1>5, <1>6

\* The states of the loop of build_context_window.
FillRun(f, s, room) ==
  /\ f \in [0..Len(s) -> Fills]
  /\ f[0] = [kept |-> <<>>, room |-> room, full |-> room <= 0]
  /\ \A k \in 1..Len(s) : f[k] = Take(f[k - 1], s[Len(s) - k + 1])

LEMMA TakeStays ==
    ASSUME NEW fill \in Fills, NEW m \in ThreadMessages
    PROVE  Take(fill, m) \in Fills
<1>1. fill.kept \in Seq(ThreadMessages) /\ fill.room \in Int /\ m.tokens \in Int
  BY DEF Fills, ThreadMessages
<1>2. PICK longer \in Seq(ThreadMessages) : longer = <<m>> \o fill.kept
  BY <1>1, Heads
<1>3. CASE fill.full \/ Orphaned(m)
  BY <1>3 DEF Take
<1>4. CASE ~(fill.full \/ Orphaned(m)) /\ m.tokens > fill.room
  BY <1>4 DEF Take, Fills
<1>5. CASE ~(fill.full \/ Orphaned(m)) /\ ~(m.tokens > fill.room)
  <2>1. Take(fill, m) = [fill EXCEPT !.kept = longer, !.room = fill.room - m.tokens]
    BY <1>2, <1>5 DEF Take
  <2>2. fill.room - m.tokens \in Int
    BY <1>1
  <2>3. QED
    BY <1>2, <2>1, <2>2 DEF Fills
<1>6. QED
  BY <1>3, <1>4, <1>5

LEMMA FillRuns ==
    ASSUME NEW s \in Seq(ThreadMessages), NEW room \in Int
    PROVE  \E f : FillRun(f, s, room) /\ Filled(s, room) = f[Len(s)]
<1>1. PICK n \in Nat : n = Len(s) /\ DOMAIN s = 1..n /\ \A i \in 1..n : s[i] \in ThreadMessages
  BY LenProperties, ElementOfSeq
<1> DEFINE none == [kept |-> <<>>, room |-> room, full |-> room <= 0]
           round == [p \in Fills \X (1..n) |-> Take(p[1], s[n - p[2] + 1])]
           Runs(f) == f = [k \in 0..n |-> IF k = 0 THEN none ELSE Take(f[k - 1], s[n - k + 1])]
           after == CHOOSE f : Runs(f)
<1>2. \A k \in 1..n : n - k + 1 \in 1..n /\ k - 1 \in 0..n /\ k \in 0..n /\ k # 0
  OBVIOUS
<1>3. none \in Fills
  BY EmptySeq DEF Fills
<1>4. round \in Loops(n, Fills)
  <2>1. \A k \in 1..n : s[n - k + 1] \in ThreadMessages
    BY <1>1, <1>2
  <2>2. \A fill \in Fills, k \in 1..n : Take(fill, s[n - k + 1]) \in Fills
    BY <2>1, TakeStays
  <2>3. QED
    BY <2>2 DEF Loops
<1> HIDE DEF none
<1>5. PICK f : IsRun(f, n, Fills, none, round)
  BY <1>3, <1>4, LoopRuns
<1>6. ASSUME NEW k \in 1..n PROVE f[k] = Take(f[k - 1], s[n - k + 1])
  <2>1. f[k - 1] \in Fills
    BY <1>2, <1>5 DEF IsRun
  <2>2. <<f[k - 1], k>> \in Fills \X (1..n)
    BY <2>1
  <2>3. QED
    BY <1>5, <2>2 DEF IsRun
<1>7. Runs(f)
  <2>1. \A k \in 0..n : k # 0 => k \in 1..n
    OBVIOUS
  <2>2. f = [k \in 0..n |-> f[k]] /\ f[0] = none
    BY <1>5 DEF IsRun
  <2>3. \A k \in 0..n : f[k] = IF k = 0 THEN none ELSE Take(f[k - 1], s[n - k + 1])
    BY <1>6, <2>1, <2>2
  <2>4. QED
    BY <2>2, <2>3
<1>8. Runs(after)
  <2> HIDE DEF Runs
  <2>1. QED
    BY <1>7
<1>9. Filled(s, room) = after[n]
  BY <1>1 DEF Filled, none
<1> HIDE DEF after
<1>10. after[0] = none /\ \A k \in 1..n : after[k] = Take(after[k - 1], s[n - k + 1])
  BY <1>2, <1>8
<1>11. after \in [0..n -> Fills]
  <2>1. \A k \in 1..n : s[n - k + 1] \in ThreadMessages
    BY <1>1, <1>2
  <2>2. \A k \in 1..n : after[k - 1] \in Fills => after[k] \in Fills
    BY <1>10, <2>1, TakeStays
  <2>3. after = [k \in 0..n |-> after[k]]
    BY <1>8
  <2>4. after[0] \in Fills
    BY <1>3, <1>10
  <2>5. QED
    BY <2>2, <2>3, <2>4, RunStays
<1>12. FillRun(after, s, room)
  BY <1>1, <1>10, <1>11 DEF FillRun, none
<1>13. QED
  BY <1>1, <1>9, <1>12

\* After k rounds the loop has kept what was read back, or is stopped by what did not fit.
Filling(fill, s, u, room, k) ==
  /\ fill.room = room - Cost(fill.kept)
  /\ fill.kept # <<>> => fill.room >= 0
  /\ ~fill.full => room > 0
  /\ \E j \in 0..k :
       /\ fill.kept = u[j]
       /\ IF fill.full THEN room <= 0 \/ /\ j < k /\ ~Orphaned(s[Len(s) - j])
                                         /\ s[Len(s) - j].tokens > fill.room
          ELSE j = k

LEMMA FillingGoesOn ==
    ASSUME NEW s \in Seq(ThreadMessages), NEW u, ReadBack(u, s), NEW room \in Int,
           NEW f, FillRun(f, s, room), NEW k \in 0..(Len(s) - 1), Filling(f[k], s, u, room, k)
    PROVE  Filling(f[k + 1], s, u, room, k + 1)
<1>1. PICK n \in Nat : n = Len(s) /\ \A i \in 1..n : s[i] \in ThreadMessages
  BY LenProperties, ElementOfSeq
<1>2. /\ k + 1 \in 1..n /\ k + 1 \in 0..n /\ (k + 1) - 1 = k /\ k \in 0..n /\ k \in Nat /\ n - (k + 1) + 1 = n - k
      /\ n - k \in 1..n
  BY <1>1
<1>3. PICK m \in ThreadMessages : m = s[n - k]
  BY <1>1, <1>2
<1>4. PICK old \in Fills : old = f[k] /\ Filling(old, s, u, room, k)
  BY <1>1, <1>2 DEF FillRun
<1>5. PICK new \in Fills : new = f[k + 1]
  BY <1>1, <1>2 DEF FillRun
<1>6. new = Take(old, m)
  BY <1>1, <1>2, <1>3, <1>4, <1>5 DEF FillRun
<1>7. u[k + 1] = IF Orphaned(m) THEN u[k] ELSE <<m>> \o u[k]
  BY <1>1, <1>2, <1>3 DEF ReadBack
<1>8. PICK j \in 0..k :
        /\ old.kept = u[j]
        /\ IF old.full THEN room <= 0 \/ /\ j < k /\ ~Orphaned(s[n - j])
                                         /\ s[n - j].tokens > old.room
           ELSE j = k
  BY <1>1, <1>4 DEF Filling
<1>9. /\ old.room = room - Cost(old.kept) /\ (old.kept # <<>> => old.room >= 0)
      /\ (~old.full => room > 0)
  BY <1>4 DEF Filling
<1>10. CASE old.full
  <2>1. new = old
    BY <1>6, <1>10 DEF Take
  <2>2. j \in 0..(k + 1) /\ (j < k => j < k + 1)
    BY <1>2
  <2>3. QED
    BY <1>1, <1>5, <1>8, <1>9, <1>10, <2>1, <2>2 DEF Filling
<1>11. CASE ~old.full /\ Orphaned(m)
  <2>1. new = old
    BY <1>6, <1>11 DEF Take
  <2>2. u[k + 1] = u[k] /\ j = k /\ k + 1 \in 0..(k + 1)
    BY <1>2, <1>7, <1>8, <1>11
  <2>3. QED
    BY <1>1, <1>5, <1>8, <1>9, <1>11, <2>1, <2>2 DEF Filling
<1>12. CASE ~old.full /\ ~Orphaned(m) /\ m.tokens > old.room
  <2>1. new.full /\ new.kept = old.kept /\ new.room = old.room
    BY <1>6, <1>12 DEF Take, Fills
  <2>2. j = k /\ k < k + 1 /\ k \in 0..(k + 1)
    BY <1>2, <1>8, <1>12
  <2>3. QED
    BY <1>1, <1>3, <1>5, <1>8, <1>9, <1>12, <2>1, <2>2 DEF Filling
<1>13. CASE ~old.full /\ ~Orphaned(m) /\ ~(m.tokens > old.room)
  <2>1. ~new.full /\ new.kept = <<m>> \o old.kept /\ new.room = old.room - m.tokens
    BY <1>6, <1>13 DEF Take, Fills
  <2>2. old.kept = u[k] /\ new.kept = u[k + 1] /\ k + 1 \in 0..(k + 1)
    <3>1. j = k /\ old.kept = u[k]
      BY <1>8, <1>13
    <3>2. u[k + 1] = <<m>> \o u[k]
      BY <1>7, <1>13
    <3>3. QED
      BY <1>2, <2>1, <3>1, <3>2
  <2>3. /\ Cost(old.kept) \in Nat /\ Cost(new.kept) = m.tokens + Cost(old.kept)
        /\ m.tokens \in Nat /\ old.room \in Int
    <3>1. old.kept \in Seq(ThreadMessages) /\ old.room \in Int /\ m.tokens \in Nat
      BY DEF Fills, ThreadMessages
    <3>2. QED
      BY <2>1, <3>1, CostGrows
  <2>4. new.room = room - Cost(new.kept) /\ new.room >= 0
    BY <1>9, <1>13, <2>1, <2>3
  <2>5. QED
    BY <1>5, <1>9, <1>13, <2>1, <2>2, <2>4 DEF Filling
<1>14. QED
  BY <1>10, <1>11, <1>12, <1>13

\* What the loop returns: the newest of the useful messages, as many as fit.
LEMMA FilledIsRight ==
    ASSUME NEW s \in Seq(ThreadMessages), NEW room \in Int
    PROVE  LET recent == Useful(s)
               fill == Filled(s, room)
               kept == fill.kept
               cut == Len(recent) - Len(kept)
           IN  /\ kept \in Seq(ThreadMessages) /\ fill.room = room - Cost(kept) /\ Cost(kept) \in Nat
               /\ cut \in Nat /\ kept = Between(recent, cut + 1, Len(recent))
               /\ kept # <<>> => Cost(kept) <= room
               /\ cut > 0 => room <= 0 \/ Cost(kept) + recent[cut].tokens > room
<1>1. PICK n \in Nat : n = Len(s) /\ \A i \in 1..n : s[i] \in ThreadMessages
  BY LenProperties, ElementOfSeq
<1>2. PICK u : ReadBack(u, s) /\ Useful(s) = u[n]
  BY <1>1, UsefulRuns
<1>3. PICK f : FillRun(f, s, room) /\ Filled(s, room) = f[n]
  BY <1>1, FillRuns
<1>4. \A k \in 0..n : u[k] \in Seq(ThreadMessages) /\ f[k] \in Fills
  BY <1>1, <1>2, <1>3 DEF ReadBack, FillRun
<1> DEFINE T == {k \in 0..n : Filling(f[k], s, u, room, k)}
<1>5. 0 \in T
  <2>1. f[0] = [kept |-> <<>>, room |-> room, full |-> room <= 0] /\ u[0] = <<>>
    BY <1>2, <1>3 DEF ReadBack, FillRun
  <2>2. 0 \in 0..0 /\ 0 \in 0..n
    OBVIOUS
  <2>3. Filling(f[0], s, u, room, 0)
    <3>1. PICK fill : fill = f[0] /\ fill.kept = <<>> /\ fill.room = room /\ (fill.full <=> room <= 0)
      <4>1. PICK none : none = [kept |-> <<>>, room |-> room, full |-> room <= 0]
        OBVIOUS
      <4>2. none.kept = <<>> /\ none.room = room /\ (none.full <=> room <= 0)
        BY <4>1
      <4>3. f[0] = none
        BY <2>1, <4>1
      <4>4. QED
        BY <4>2, <4>3
    <3>2. fill.room = room - Cost(fill.kept)
      BY <3>1, CostOfNothing
    <3>3. fill.kept = u[0]
      BY <2>1, <3>1
    <3>4. ~fill.full => room > 0
      BY <3>1
    <3>5. \E j \in 0..0 :
            /\ fill.kept = u[j]
            /\ IF fill.full THEN room <= 0 \/ /\ j < 0 /\ ~Orphaned(s[Len(s) - j])
                                              /\ s[Len(s) - j].tokens > fill.room
               ELSE j = 0
      BY <2>2, <3>1, <3>3
    <3>6. QED
      BY <3>1, <3>2, <3>4, <3>5 DEF Filling
  <2>4. QED
    BY <2>2, <2>3
<1>6. ASSUME NEW k \in 0..(n - 1), k \in T PROVE k + 1 \in T
  BY <1>1, <1>2, <1>3, <1>6, FillingGoesOn
<1>7. Filling(f[n], s, u, room, n)
  <2> HIDE DEF T
  <2>1. \A k \in 0..n : k \in T
    BY <1>5, <1>6, Induction
  <2>2. QED
    BY <2>1 DEF T
<1>8. PICK fill \in Fills : fill = Filled(s, room) /\ Filling(fill, s, u, room, n)
  BY <1>3, <1>4, <1>7
<1>9. PICK kept \in Seq(ThreadMessages) : kept = fill.kept
  BY DEF Fills
<1>10. PICK j \in 0..n :
         /\ kept = u[j]
         /\ IF fill.full THEN room <= 0 \/ /\ j < n /\ ~Orphaned(s[n - j])
                                           /\ s[n - j].tokens > fill.room
            ELSE j = n
  BY <1>1, <1>8, <1>9 DEF Filling
<1>11. /\ fill.room = room - Cost(kept) /\ Cost(kept) \in Nat
       /\ kept # <<>> => Cost(kept) <= room
  <2>1. Cost(kept) \in Nat
    BY SumRuns, LenProperties
  <2>2. QED
    BY <1>8, <1>9, <2>1 DEF Filling
<1>12. PICK recent \in Seq(ThreadMessages) : recent = Useful(s) /\ recent = u[n]
  BY <1>2, <1>4
<1>13. PICK w \in Seq(ThreadMessages) : recent = w \o kept
  <2>1. j \in 0..Len(s) /\ ReadBack(u, s) /\ kept = u[j] /\ recent = u[Len(s)]
    BY <1>1, <1>2, <1>10, <1>12
  <2>2. QED
    BY <2>1, ReadBackGrows
<1>14. PICK cut \in Nat : cut = Len(w) /\ cut = Len(recent) - Len(kept)
  BY <1>13, LenProperties, ConcatProperties
<1>15. kept = Between(recent, cut + 1, Len(recent))
  <2>1. Len(kept) \in Nat /\ Len(recent) = cut + Len(kept)
    BY <1>13, <1>14, LenProperties, ConcatProperties
  <2>2. CASE kept = <<>>
    BY <2>1, <2>2, <1>14 DEF Between
  <2>3. CASE kept # <<>>
    <3>1. Len(kept) >= 1
      BY <2>1, <2>3, EmptySeq
    <3>2. cut + 1 \in Len(w) + 1..Len(w) + Len(kept) /\ Len(recent) \in Len(w) + 1..Len(w) + Len(kept)
      BY <1>14, <2>1, <3>1
    <3>3. SubSeq(recent, cut + 1, Len(recent)) = SubSeq(kept, 1, Len(kept))
      BY <1>13, <1>14, <2>1, <3>2, SubSeqOfConcat2
    <3>4. QED
      BY <2>1, <3>1, <3>3, SubSeqFull DEF Between
  <2>4. QED
    BY <2>2, <2>3
<1>16. ASSUME cut > 0, ~(room <= 0) PROVE Cost(kept) + recent[cut].tokens > room
  <2>1. j < n /\ fill.full
    <3>1. CASE j = n
      BY <1>10, <1>12, <1>14, <1>16, <3>1, LenProperties
    <3>2. QED
      BY <1>10, <1>16, <3>1
  <2>2. n - j \in 1..n /\ j + 1 \in 0..n /\ j + 1 \in 1..n /\ (j + 1) - 1 = j /\ n - (j + 1) + 1 = n - j
    BY <2>1
  <2>3. PICK m \in ThreadMessages : m = s[n - j]
    BY <1>1, <2>2
  <2>4. ~Orphaned(m) /\ m.tokens > fill.room
    BY <1>10, <1>16, <2>1, <2>3
  <2>5. u[j + 1] = <<m>> \o kept
    BY <1>1, <1>2, <1>10, <2>2, <2>3, <2>4 DEF ReadBack
  <2>6. PICK v \in Seq(ThreadMessages) : recent = v \o u[j + 1]
    <3>1. j + 1 \in 0..Len(s) /\ ReadBack(u, s) /\ recent = u[Len(s)]
      BY <1>1, <1>2, <1>12, <2>2
    <3>2. QED
      BY <3>1, ReadBackGrows
  <2>7. PICK t \in Seq(ThreadMessages) : t = <<m>> \o kept /\ Len(t) = Len(kept) + 1 /\ t[1] = m
    <3>1. <<m>> \o kept \in Seq(ThreadMessages) /\ Len(<<m>> \o kept) = Len(kept) + 1
          /\ (<<m>> \o kept)[1] = m
      BY Heads
    <3>2. QED
      BY <3>1
  <2>8. Len(v) \in Nat /\ Len(kept) \in Nat /\ Len(recent) = Len(v) + Len(t)
    BY <2>5, <2>6, <2>7, LenProperties, ConcatProperties
  <2>9. cut = Len(v) + 1
    BY <1>14, <2>7, <2>8
  <2>10. recent[cut] = m
    <3>1. cut \in 1..Len(v) + Len(t) /\ ~(cut <= Len(v)) /\ cut - Len(v) = 1
      BY <2>7, <2>8, <2>9
    <3>2. (v \o t)[cut] = t[cut - Len(v)]
      BY <3>1, ConcatProperties
    <3>3. QED
      BY <2>5, <2>6, <2>7, <3>1, <3>2
  <2>11. m.tokens \in Nat /\ fill.room \in Int
    BY DEF ThreadMessages, Fills
  <2>12. QED
    BY <1>11, <2>4, <2>10, <2>11
<1>17. QED
  BY <1>8, <1>9, <1>11, <1>12, <1>14, <1>15, <1>16

\* What build_turn_context makes of a thread is the window that was meant.
WindowIsRight(w) ==
  LET recent == Useful(Sliced(Conversation(w.thread), w.limit))
      kept == w.kept
      cut == Len(recent) - Len(kept)
      room == Budget - PromptTokens[w.prompt]
  IN /\ cut >= 0 /\ kept = Between(recent, cut + 1, Len(recent))
     /\ kept # <<>> => Cost(kept) <= room
     /\ cut > 0 => room <= 0 \/ Cost(kept) + recent[cut].tokens > room
     /\ w.used = PromptTokens[w.prompt] + Cost(kept)
     /\ w.total = Len(kept) + w.dropped

LEMMA SlicesAreThreads ==
    ASSUME NEW s \in Seq(ThreadMessages), NEW limit \in Nat
    PROVE  Sliced(s, limit) \in Seq(ThreadMessages)
<1>1. PICK n \in Nat : n = Len(s) /\ \A i \in 1..n : s[i] \in ThreadMessages
  BY LenProperties, ElementOfSeq
<1>2. ASSUME NEW i \in 1..(n + 1) PROVE Between(s, i, n) \in Seq(ThreadMessages)
  <2>1. \A k \in i..n : s[k] \in ThreadMessages
    BY <1>1
  <2>2. SubSeq(s, i, n) \in Seq(ThreadMessages)
    BY <2>1, SubSeqProperties
  <2>3. QED
    BY <2>2, EmptySeq DEF Between
<1>3. n > 2 * limit => n - 2 * limit + 1 \in 1..(n + 1)
  OBVIOUS
<1>4. 1 \in 1..(n + 1)
  OBVIOUS
<1>5. QED
  BY <1>1, <1>2, <1>3, <1>4 DEF Sliced

LEMMA WindowsAreRight ==
    ASSUME NEW t \in Seq(ThreadMessages), NEW s, NEW limit \in Nat
    PROVE  WindowIsRight(Window(t, s, limit))
<1> DEFINE head == IF HasPrompt(t) THEN Head(t).of ELSE "settings"
           talk == Conversation(t)
<1>1. PromptTokens[head] \in Nat /\ Budget \in Nat
  <2>1. HasPrompt(t) => Head(t) \in ThreadMessages /\ Head(t).role = "system"
    BY HeadTailProperties DEF HasPrompt
  <2>2. head \in Scenarios \cup {"settings"}
    BY <2>1 DEF ThreadMessages
  <2>3. QED
    BY <2>2, ContextAssumption
<1>2. talk \in Seq(ThreadMessages)
  BY HeadTailProperties DEF Conversation, HasPrompt
<1>3. PICK cost \in Nat : cost = PromptTokens[head]
  BY <1>1
<1>4. PICK slice \in Seq(ThreadMessages) : slice = Sliced(talk, limit)
  BY <1>2, SlicesAreThreads
<1>5. PICK fill : fill = Filled(slice, Budget - cost)
  OBVIOUS
<1>6. PICK w : w = Window(t, s, limit)
  OBVIOUS
<1>7. /\ w.thread = t /\ w.limit = limit /\ w.prompt = head /\ w.kept = fill.kept
      /\ w.used = Budget - fill.room /\ w.total = Len(talk) /\ w.dropped = Len(talk) - Len(fill.kept)
  BY <1>3, <1>4, <1>5, <1>6 DEF Window
<1> HIDE DEF head
<1>8. Len(talk) \in Nat /\ Useful(Sliced(Conversation(w.thread), w.limit)) = Useful(slice)
  BY <1>2, <1>4, <1>7, LenProperties
<1> HIDE DEF talk
<1>9. PICK room \in Int : room = Budget - cost
  BY <1>1
<1>10. PICK kept \in Seq(ThreadMessages) : kept = fill.kept
  BY <1>5, <1>9, FilledIsRight
<1>11. Len(kept) \in Nat
  BY LenProperties
<1>12. PICK recent : recent = Useful(slice)
  OBVIOUS
<1>13. PICK cut \in Nat : cut = Len(recent) - Len(kept)
  BY <1>5, <1>9, <1>10, <1>12, FilledIsRight
<1>14. /\ fill.room = room - Cost(kept) /\ Cost(kept) \in Nat
       /\ kept = Between(recent, cut + 1, Len(recent))
       /\ kept # <<>> => Cost(kept) <= room
       /\ cut > 0 => room <= 0 \/ Cost(kept) + recent[cut].tokens > room
  BY <1>5, <1>9, <1>10, <1>12, <1>13, FilledIsRight
<1>15. w.used = PromptTokens[w.prompt] + Cost(kept)
  BY <1>1, <1>3, <1>7, <1>9, <1>14
<1>16. w.total = Len(kept) + w.dropped
  BY <1>7, <1>8, <1>10, <1>11
<1>17. QED
  <2>1. w.kept = kept /\ Budget - PromptTokens[w.prompt] = room
    BY <1>3, <1>7, <1>9, <1>10
  <2>2. WindowIsRight(w)
    BY <1>8, <1>12, <1>13, <1>14, <1>15, <1>16, <2>1 DEF WindowIsRight
  <2>3. QED
    BY <1>6, <2>2

WindowHolds == window # NoWindow => WindowIsRight(window)

LEMMA WindowStays ==
    ASSUME PromptIsAtHead, WindowHolds, [ContextNext]_contextVars PROVE WindowHolds'
<1>1. UNCHANGED window => WindowHolds'
  BY DEF WindowHolds, NoWindow, WindowIsRight
<1>2. ASSUME BuildContext, window' # window PROVE WindowHolds'
  <2>1. turn.at = "asked" /\ window' = Window(stored, turn.scenario, turn.limit)
    BY <1>2 DEF BuildContext
  <2>2. stored \in Seq(ThreadMessages) /\ turn.limit \in Nat
    <3>1. turn \in RequestTurns
      BY <2>1 DEF PromptIsAtHead, Rest
    <3>2. turn.limit \in TurnLimits
      BY <3>1 DEF RequestTurns
    <3>3. QED
      BY <3>2, ContextAssumption DEF PromptIsAtHead
  <2>3. WindowIsRight(Window(stored, turn.scenario, turn.limit))
    BY <2>2, WindowsAreRight
  <2>4. QED
    BY <2>1, <2>3 DEF WindowHolds, WindowIsRight
<1>3. QED
  BY <1>1, <1>2 DEF ContextNext, EnsureThread, EnsureFails, AppendUser, Answered, BuildContext, contextVars

\* For any thread, costs, limits and budget: build_turn_context keeps the longest run of the
\* newest messages, useless tool results aside, that fits next to the prompt, its snapshot
\* accounts for every message, and a thread created with a prompt is sent with the prompt of
\* the request's scenario, whichever scenarios it went through and whichever turns failed in
\* between (ensure_thread).
THEOREM ContextIsAlwaysRight == ContextInit /\ [][ContextNext]_contextVars => []ContextIsRight
<1>1. PromptIsAtHead /\ WindowHolds => ContextIsRight
  BY DEF PromptIsAtHead, WindowHolds, WindowIsRight, ContextIsRight
<1>2. ContextInit => WindowHolds
  BY DEF ContextInit, WindowHolds
<1>3. PromptIsAtHead /\ WindowHolds /\ [ContextNext]_contextVars => WindowHolds'
  BY WindowStays
<1>4. QED
  BY <1>1, <1>2, <1>3, PromptInit, PromptNext, PTL

(***************************************************************************)
(* Run engine (RunEngine)                                                  *)
(***************************************************************************)
Engines == [reflecting : BOOLEAN, resolver : BOOLEAN, round : Nat, updates : Nat,
            answered : BOOLEAN, visible : BOOLEAN, buffer : Seq(Contents)]
Outputs == [text : BOOLEAN, open : BOOLEAN, round : {"open", "closed"}, hidden : BOOLEAN,
            continued : BOOLEAN, fallback : BOOLEAN,
            terminal : {"none", "DONE", "ERROR", "ABORTED"}]
EngineTyped ==
  /\ phase \in {"main", "assess", "reflect", "check", "tail", "over"} /\ stopped \in BOOLEAN
  /\ engine \in Engines /\ output \in Outputs

\* Calls are open in a pass that shows them, a round is open while it runs, and there is
\* room for one when it begins.
PassesClose ==
  /\ phase \in {"assess", "check", "tail"} => ~output.open
  /\ phase \in {"main", "assess", "check", "tail"} => output.round = "closed"
  /\ engine.round <= Rounds
  /\ phase = "reflect" => engine.round < Rounds

\* What is thought to be seen was seen; the check's continuation is.
SeenIsShown ==
  /\ engine.visible => output.text
  /\ output.continued => engine.visible
  /\ ~output.hidden
  /\ phase # "over" => output.terminal = "none" /\ ~output.fallback
  /\ output.fallback => ~engine.visible

EngineIInv == EngineTyped /\ PassesClose /\ SeenIsShown /\ AnswerHasText

LEMMA RoundsIsNat == Rounds \in Nat \ {0}
BY EngineAssumption DEF Rounds

LEMMA EngineInitIInv == EngineInit => EngineIInv
<1> SUFFICES ASSUME EngineInit PROVE EngineIInv
  OBVIOUS
<1>1. engine \in Engines
  BY EmptySeq DEF EngineInit, Engines
<1>2. output \in Outputs
  BY DEF EngineInit, Outputs
<1>3. PassesClose
  BY RoundsIsNat DEF EngineInit, PassesClose
<1>4. SeenIsShown /\ AnswerHasText
  BY <1>3 DEF EngineInit, SeenIsShown, AnswerHasText, PassesClose
<1>5. QED
  BY <1>1, <1>2, <1>3, <1>4 DEF EngineInit, EngineIInv, EngineTyped

LEMMA EngineNextIInv == EngineIInv /\ [EngineNext]_engineVars => EngineIInv'
<1> SUFFICES ASSUME EngineIInv, [EngineNext]_engineVars PROVE EngineIInv'
  OBVIOUS
<1> USE DEF EngineIInv, PassesClose, SeenIsShown, AnswerHasText, EngineTyped
<1>0. Rounds' = Rounds /\ Rounds \in Nat \ {0}
  BY RoundsIsNat DEF Rounds
<1>10. /\ Counted \in Engines /\ Counted.round = engine.round /\ Counted.visible = engine.visible
       /\ Counted.buffer = engine.buffer /\ Counted.answered = engine.answered
  <2>1. engine.updates + 1 \in Nat
    BY DEF Engines
  <2>2. QED
    BY <2>1 DEF Counted, Engines
<1>1. ASSUME NEW content \in Contents, ShownUpdate(content) PROVE EngineIInv'
  <2>1. /\ phase \in {"main", "reflect"} /\ UNCHANGED <<phase, stopped>>
        /\ engine' = [Counted EXCEPT !.visible = Counted.visible \/ Seen(content),
                                     !.answered = Counted.answered \/ content \in Texts]
        /\ \E opened : output' = [output EXCEPT !.text = output.text \/ (content \in Texts /\ phase = "main"),
                                                !.open = opened]
    BY <1>1 DEF ShownUpdate
  <2>2. /\ engine' \in Engines /\ engine'.round = engine.round
        /\ engine'.visible = (engine.visible \/ Seen(content))
    BY <1>10, <2>1 DEF Engines
  <2>3. PICK opened \in BOOLEAN :
          output' = [output EXCEPT !.text = output.text \/ Seen(content), !.open = opened]
    <3>1. CASE content \in {"call", "result"}
      BY <1>1, <3>1 DEF ShownUpdate, Seen
    <3>2. CASE content \notin {"call", "result"}
      <4>1. output.open \in BOOLEAN
        BY DEF Outputs
      <4>2. output' = [output EXCEPT !.text = output.text \/ Seen(content), !.open = output.open]
        BY <1>1, <3>2 DEF ShownUpdate, Seen
      <4>3. QED
        BY <4>1, <4>2
    <3>3. QED
      BY <3>1, <3>2
  <2>4. /\ output' \in Outputs /\ output'.text = (output.text \/ Seen(content))
        /\ output'.round = output.round
        /\ output'.hidden = output.hidden /\ output'.continued = output.continued
        /\ output'.fallback = output.fallback /\ output'.terminal = output.terminal
    BY <2>3 DEF Outputs
  <2>5. QED
    BY <1>0, <2>1, <2>2, <2>4 DEF Seen
<1>2. ASSUME NEW content \in Contents, CheckUpdate(content) PROVE EngineIInv'
  <2>1. CASE stopped
    BY <1>0, <1>2, <2>1 DEF CheckUpdate, Terminates, Outputs
  <2>2. CASE ~stopped
    <3>1. /\ UNCHANGED <<phase, output, stopped>>
          /\ \/ engine' = Counted
             \/ engine' = [Counted EXCEPT !.buffer = Append(engine.buffer, content)]
      BY <1>2, <1>10, <2>2 DEF CheckUpdate, Engines
    <3>2. engine' \in Engines /\ engine'.round = engine.round /\ engine'.visible = engine.visible
      <4>1. Append(engine.buffer, content) \in Seq(Contents)
        BY AppendProperties DEF Engines
      <4>2. QED
        BY <1>10, <3>1, <4>1 DEF Engines
    <3>3. QED
      BY <1>0, <3>1, <3>2
  <2>3. QED
    BY <2>1, <2>2
<1>3. ASSUME RunsAgain \/ MainCompletes \/ Assesses \/ CheckFails PROVE EngineIInv'
  <2>1. CASE RunsAgain
    BY <1>0, <2>1 DEF RunsAgain, Outputs
  <2>2. ASSUME NEW p, Pass(p)
        PROVE  /\ phase' = p /\ engine' \in Engines /\ engine'.round = engine.round
               /\ engine'.visible = engine.visible
    BY <2>2 DEF Pass, Engines
  <2>3. CASE MainCompletes \/ CheckFails
    BY <1>0, <2>2, <2>3 DEF MainCompletes, CheckFails, Checks
  <2>4. CASE Assesses
    BY <1>0, <2>2, <2>4 DEF Assesses, Checks, Outputs
  <2>5. QED
    BY <1>3, <2>1, <2>3, <2>4
<1>4. ASSUME NEW yes \in BOOLEAN, Reflected(yes) PROVE EngineIInv'
  <2>1. /\ phase = "reflect" /\ phase' \in {"assess", "check", "tail"}
        /\ engine' = [engine EXCEPT !.round = engine.round + 1, !.updates = 0, !.answered = FALSE]
        /\ output' = [output EXCEPT !.round = "closed"] /\ ~output.open /\ stopped' = stopped
    BY <1>4 DEF Reflected
  <2>2. engine' \in Engines /\ engine'.round = engine.round + 1 /\ engine'.visible = engine.visible
    <3>1. engine.round + 1 \in Nat
      BY DEF Engines
    <3>2. QED
      BY <2>1, <3>1 DEF Engines
  <2>3. /\ output' \in Outputs /\ output'.text = output.text /\ output'.round = "closed"
        /\ output'.hidden = output.hidden /\ output'.continued = output.continued
        /\ output'.fallback = output.fallback /\ output'.terminal = output.terminal
        /\ output'.open = output.open
    BY <2>1 DEF Outputs
  <2>4. QED
    BY <1>0, <2>1, <2>2, <2>3 DEF Engines
<1>5. ASSUME PassAborted \/ PassFails PROVE EngineIInv'
  BY <1>0, <1>5 DEF PassAborted, PassFails, Terminates, Outputs
<1>6. ASSUME CheckCompletes PROVE EngineIInv'
  BY <1>0, <1>6 DEF CheckCompletes, Continues, Texts, Engines, Outputs
<1>7. ASSUME EndsAnswer PROVE EngineIInv'
  BY <1>0, <1>7 DEF EndsAnswer, Outputs
<1>8. ASSUME StopsEngine \/ UNCHANGED engineVars PROVE EngineIInv'
  BY <1>0, <1>8 DEF StopsEngine, engineVars
<1>9. QED
  BY <1>1, <1>2, <1>3, <1>4, <1>5, <1>6, <1>7, <1>8 DEF EngineNext

\* Whatever the passes do, DONE comes behind an answer with text, made up only when the
\* client saw none; every call and every round is closed by then; the sentinel never
\* shows; and reflection keeps to its rounds (run_agent_stream).
THEOREM AnswersHaveText == EngineInit /\ [][EngineNext]_engineVars => []AnswerHasText
<1>1. EngineIInv => AnswerHasText
  BY DEF EngineIInv
<1>2. QED
  BY <1>1, EngineInitIInv, EngineNextIInv, PTL

(***************************************************************************)
(* Agent registry (AgentCatalog)                                           *)
(***************************************************************************)
KeptConfigs == [version : Nat, agents : [Names -> Settings]]
MadeClients == [open : BOOLEAN, limit : Nat]
AgentObjects == [name : Names, version : Nat, providers : SUBSET (Guests \cup {"static"})]

CatalogTyped ==
  /\ house \in {"agentkit", "app"} /\ factory \in {"none", "shared", "each"}
  /\ config \in [version : Nat, parses : BOOLEAN, agents : [Names -> Settings]]
  /\ parsed \in KeptConfigs /\ block \in KeptConfigs

\* agentkit keeps an agents block only of the configuration it has parsed last.
BlockIsParsed == house = "agentkit" /\ block.version # 0 => block.version = parsed.version

BuiltIsKnown == house = "agentkit" /\ last.outcome = "built" /\ last.used < last.disk =>
                  last.known < last.disk

\* The registry's clients: those it knows are open and one agent's each, but for a shared one.
ClientsAreApart ==
  /\ made \in Seq(MadeClients) /\ clientOf \in [Names -> 0..Len(made)]
  /\ factory = "none" => \A n \in Names : clientOf[n] = 0
  /\ factory # "shared" => \A m, n \in Names : m # n /\ clientOf[m] = clientOf[n] => clientOf[m] = 0
  /\ \A c \in 1..Len(made) : made[c].limit = OwnLimit
  /\ house = "agentkit" /\ factory # "shared" => \A c \in Cached : made[c].open

\* The object that is kept for an agent has no guest's providers, a guest's has its own.
AgentsArePrivate ==
  /\ agents \in Seq(AgentObjects)
  /\ prepared \in [Names -> 0..Len(agents)] /\ held \in [Guests -> 0..Len(agents)]
  /\ \A n \in Names : prepared[n] # 0 => agents[prepared[n]].providers = {"static"}
  /\ \A g \in Guests : held[g] # 0 => agents[held[g]].providers = {"static", g}

CatalogIInv == CatalogTyped /\ BlockIsParsed /\ BuiltIsKnown /\ ClientsAreApart /\ AgentsArePrivate

LEMMA CatalogInitIInv == CatalogInit => CatalogIInv
<1> SUFFICES ASSUME CatalogInit PROVE CatalogIInv
  OBVIOUS
<1>1. CatalogTyped
  BY DEF CatalogInit, CatalogTyped, NoContent, KeptConfigs, Settings
<1>2. BlockIsParsed /\ BuiltIsKnown
  BY DEF CatalogInit, BlockIsParsed, BuiltIsKnown, NoContent
<1>3. ClientsAreApart
  <2>1. made = <<>> /\ clientOf = [n \in Names |-> 0] /\ Cached = {}
    BY DEF CatalogInit, Cached
  <2>2. QED
    BY <2>1, EmptySeq DEF ClientsAreApart
<1>4. AgentsArePrivate
  BY EmptySeq DEF CatalogInit, AgentsArePrivate
<1>5. QED
  BY <1>1, <1>2, <1>3, <1>4 DEF CatalogIInv

(***************************************************************************)
(* The caches of the configuration                                         *)
(***************************************************************************)
\* What the caches may become.
CachesFollow ==
  /\ parsed' \in KeptConfigs /\ block' \in KeptConfigs
  /\ house = "agentkit" /\ block'.version # 0 => block'.version = parsed'.version

LEMMA ConfigContents ==
    ASSUME CatalogTyped
    PROVE  /\ Content \in KeptConfigs /\ Content.version = config.version
           /\ Loaded \in KeptConfigs /\ BlockNow \in KeptConfigs
           /\ NoContent \in KeptConfigs /\ NoContent.version = 0
           /\ Reads => Loaded = Content
BY DEF CatalogTyped, KeptConfigs, Content, Loaded, BlockNow, NoContent, Settings

LEMMA BlockIsFrom ==
    ASSUME CatalogTyped, BlockIsParsed, HasBlock
    PROVE  IF block.version # 0 THEN BlockNow = block ELSE Reads /\ BlockNow = Content
BY DEF HasBlock, BlockNow, Loaded

LEMMA CachesIInv ==
    ASSUME CatalogTyped, BlockIsParsed,
           \/ UNCHANGED caches
           \/ Reads /\ parsed' = Content /\ block' = Popped(block)
           \/ /\ HasBlock /\ block' = BlockNow
              /\ parsed' = IF block.version # 0 THEN parsed ELSE Content
           \/ HasBlock /\ Reads /\ parsed' = Content /\ block' = Popped(BlockNow)
           \/ /\ HasBlock /\ ~(house = "agentkit" /\ Reads) /\ block' = BlockNow
              /\ UNCHANGED parsed
    PROVE  CachesFollow
<1>1. CASE UNCHANGED caches
  BY <1>1 DEF caches, CachesFollow, CatalogTyped, BlockIsParsed
<1>2. CASE Reads /\ parsed' = Content /\ block' = Popped(block)
  BY <1>2, ConfigContents DEF CachesFollow, CatalogTyped, BlockIsParsed, Popped
<1>3. CASE /\ HasBlock /\ block' = BlockNow
           /\ parsed' = IF block.version # 0 THEN parsed ELSE Content
  BY <1>3, ConfigContents, BlockIsFrom DEF CachesFollow, CatalogTyped, BlockIsParsed
<1>4. CASE HasBlock /\ Reads /\ parsed' = Content /\ block' = Popped(BlockNow)
  BY <1>4, ConfigContents, BlockIsFrom DEF CachesFollow, CatalogTyped, BlockIsParsed, Popped
<1>5. CASE HasBlock /\ ~(house = "agentkit" /\ Reads) /\ block' = BlockNow /\ UNCHANGED parsed
  BY <1>5, ConfigContents, BlockIsFrom DEF CachesFollow, CatalogTyped, BlockIsParsed
<1>6. QED
  BY <1>1, <1>2, <1>3, <1>4, <1>5

(***************************************************************************)
(* The clients                                                             *)
(***************************************************************************)
LEMMA ClosedClients ==
    ASSUME ClientsAreApart, NEW shut
    PROVE  /\ Closed(shut) \in Seq(MadeClients) /\ Len(Closed(shut)) = Len(made)
           /\ \A c \in 1..Len(made) : Closed(shut)[c].limit = OwnLimit
<1> USE DEF ClientsAreApart
<1> DEFINE closed(c) == IF c \in shut THEN [made[c] EXCEPT !.open = FALSE] ELSE made[c]
<1>1. \A c \in 1..Len(made) : closed(c) \in MadeClients /\ closed(c).limit = OwnLimit
  <2>1. TAKE c \in 1..Len(made)
  <2>2. made[c] \in MadeClients /\ made[c].limit = OwnLimit
    OBVIOUS
  <2>3. CASE c \in shut
    BY <2>2, <2>3 DEF MadeClients
  <2>4. CASE c \notin shut
    BY <2>2, <2>4
  <2>5. QED
    BY <2>3, <2>4
<1> HIDE DEF closed
<1>2. CASE house = "app"
  BY <1>2 DEF Closed
<1>3. CASE house # "app"
  <2>1. Closed(shut) = [c \in 1..Len(made) |-> closed(c)]
    BY <1>3 DEF Closed, closed
  <2>2. Closed(shut) \in Seq(MadeClients) /\ Len(Closed(shut)) = Len(made)
    BY <1>1, <2>1, IsASeq
  <2>3. QED
    BY <1>1, <2>1, <2>2
<1>4. QED
  BY <1>2, <1>3

\* No client is cached any more, whichever of them were closed.
LEMMA ClientsForgotten ==
    ASSUME ClientsAreApart, ForgetsClients, house' = house,
           \/ factory' = factory
           \/ factory = "none"
    PROVE  ClientsAreApart'
<1>0. PICK shut : made' = Closed(shut)
  BY DEF ForgetsClients
<1>1. clientOf' = [n \in Names |-> 0] /\ Cached' = {}
  BY DEF ForgetsClients, Cached
<1>2. OwnLimit' = OwnLimit
  BY DEF OwnLimit
<1>3. clientOf' \in [Names -> 0..Len(made')]
  BY <1>0, <1>1, ClosedClients DEF ClientsAreApart
<1>4. QED
  BY <1>0, <1>1, <1>2, <1>3, ClosedClients DEF ClientsAreApart

\* Handing out the client of an agent.
LEMMA ClientIsHanded ==
    ASSUME CatalogTyped, ClientsAreApart, NEW n \in Names, Clients(n), factory # "none", house' = house
    PROVE  ClientsAreApart'
<1> USE DEF ClientsAreApart
<1> DEFINE c == ClientFor(n)
           setting == BlockNow.agents[n]
<1>1. /\ clientOf' = [clientOf EXCEPT ![n] = c] /\ factory' = factory
      /\ made' = Restored(WithClient(c), c, setting)
  BY DEF Clients
<1>2. /\ c \in 1..(Len(made) + 1)
      /\ clientOf[n] # 0 => c = clientOf[n]
      /\ factory # "shared" /\ clientOf[n] = 0 => c = Len(made) + 1
  BY DEF ClientFor, Shared
<1> HIDE DEF c, setting
<1>3. PICK fresh \in MadeClients : fresh = [open |-> TRUE, limit |-> OwnLimit]
  BY DEF MadeClients, OwnLimit
<1>4. /\ WithClient(c) \in Seq(MadeClients) /\ c \in 1..Len(WithClient(c))
      /\ Len(WithClient(c)) = IF c = Len(made) + 1 THEN Len(made) + 1 ELSE Len(made)
      /\ \A d \in 1..Len(made) : WithClient(c)[d] = made[d]
      /\ c = Len(made) + 1 => WithClient(c)[c] = fresh
  <2>1. CASE c \in DOMAIN made
    BY <1>2, <2>1 DEF WithClient
  <2>2. CASE c \notin DOMAIN made
    BY <1>2, <1>3, <2>2, AppendProperties DEF WithClient
  <2>3. QED
    BY <2>1, <2>2
<1>5. PICK conns : conns = WithClient(c)
  OBVIOUS
<1>6. \A d \in 1..Len(conns) : conns[d].limit = OwnLimit /\ conns[d] \in MadeClients
  BY <1>2, <1>3, <1>4, <1>5
<1>7. PICK limit \in Nat : Limited(conns, c, setting) = [conns EXCEPT ![c] = [conns[c] EXCEPT !.limit = limit]]
  <2>1. OwnLimit \in Nat /\ Limit \in Nat
    BY DEF OwnLimit, Limit
  <2>2. CASE setting = "plain"
    BY <1>4, <1>5, <1>6, <2>1, <2>2 DEF Limited
  <2>3. CASE setting # "plain"
    BY <2>1, <2>3 DEF Limited
  <2>4. QED
    BY <2>2, <2>3
<1>8. made' = [conns EXCEPT ![c] = [conns[c] EXCEPT !.limit = OwnLimit]]
  <2>1. Restored(conns, c, setting) = [Limited(conns, c, setting) EXCEPT ![c] = [Limited(conns, c, setting)[c] EXCEPT !.limit = OwnLimit]]
    BY DEF Restored
  <2>2. Limited(conns, c, setting)[c] = [conns[c] EXCEPT !.limit = limit]
    BY <1>4, <1>5, <1>7
  <2>3. [[conns[c] EXCEPT !.limit = limit] EXCEPT !.limit = OwnLimit] = [conns[c] EXCEPT !.limit = OwnLimit]
    OBVIOUS
  <2>4. made' = Restored(conns, c, setting)
    BY <1>1, <1>5
  <2>5. Restored(conns, c, setting) = [conns EXCEPT ![c] = [conns[c] EXCEPT !.limit = OwnLimit]]
    <3> HIDE DEF ClientsAreApart
    <3> QED
      BY <1>4, <1>5, <1>7, <2>1, <2>2, <2>3
  <2>6. QED
    BY <2>4, <2>5
<1>9. [conns[c] EXCEPT !.limit = OwnLimit] = conns[c]
  BY <1>4, <1>5, <1>6 DEF MadeClients
<1>10. made' = conns
  BY <1>4, <1>5, <1>8, <1>9
<1>11. clientOf' \in [Names -> 0..Len(made')]
  BY <1>1, <1>2, <1>4, <1>5, <1>10
<1>12. factory # "shared" => \A m, k \in Names : m # k /\ clientOf'[m] = clientOf'[k] => clientOf'[m] = 0
  BY <1>1, <1>2
<1>13. factory # "shared" => Cached' = Cached \cup {c}
  BY <1>1, <1>2 DEF Cached
<1>14. house = "agentkit" /\ factory # "shared" => \A d \in Cached' : made'[d].open
  <2>1. SUFFICES ASSUME house = "agentkit", factory # "shared", NEW d \in Cached \cup {c}
                 PROVE  conns[d].open
    BY <1>10, <1>13
  <2>2. Cached \subseteq 1..Len(made)
    BY DEF Cached
  <2>3. CASE d \in Cached
    <3>1. d \in 1..Len(made) /\ made[d].open
      BY <2>1, <2>2, <2>3
    <3>2. QED
      BY <1>4, <1>5, <3>1
  <2>4. CASE d \notin Cached
    <3>1. d = c /\ clientOf[n] = 0
      BY <1>2, <2>4 DEF Cached
    <3>2. c = Len(made) + 1
      BY <1>2, <2>1, <3>1
    <3>3. QED
      BY <1>3, <1>4, <1>5, <3>1, <3>2
  <2>5. QED
    BY <2>3, <2>4
<1>15. OwnLimit' = OwnLimit
  BY DEF OwnLimit
<1>16. QED
  BY <1>1, <1>4, <1>5, <1>6, <1>10, <1>11, <1>12, <1>14, <1>15

LEMMA ClientsStay ==
    ASSUME ClientsAreApart, UNCHANGED clientVars, house' = house PROVE ClientsAreApart'
BY DEF ClientsAreApart, clientVars, Cached, OwnLimit

(***************************************************************************)
(* Building                                                                *)
(***************************************************************************)
LEMMA BuildStepsIInv ==
    ASSUME CatalogTyped, BlockIsParsed, BuiltIsKnown, ClientsAreApart, NEW n \in Names, BuildSteps(n),
           UNCHANGED files
    PROVE  (CatalogTyped /\ BlockIsParsed /\ BuiltIsKnown /\ ClientsAreApart)'
<1>1. /\ UNCHANGED <<house, config, factory>>
      /\ UNCHANGED clientVars \/ (factory # "none" /\ Clients(n))
  BY DEF BuildSteps, files, clientVars, Clients, Refused
<1>2. ClientsAreApart'
  BY <1>1, ClientsStay, ClientIsHanded
<1>3. CachesFollow
  BY CachesIInv DEF BuildSteps, Unresolved, ReadsAgain
<1>4. CatalogTyped' /\ BlockIsParsed'
  BY <1>1, <1>3 DEF CatalogTyped, BlockIsParsed, CachesFollow
<1>5. BuiltIsKnown'
  <2>1. CASE last'.outcome # "built"
    BY <2>1 DEF BuiltIsKnown
  <2>2. CASE last'.outcome = "built"
    <3>1. /\ Succeeds(n) /\ last'.used = BlockNow.version /\ last'.disk = config.version
          /\ last'.known = parsed.version
      BY <2>2 DEF BuildSteps, Unresolved, Outcome
    <3>2. IF block.version # 0 THEN BlockNow = block ELSE BlockNow = Content
      BY <3>1, BlockIsFrom DEF Succeeds
    <3>3. QED
      BY <1>1, <3>1, <3>2, ConfigContents DEF BuiltIsKnown, BlockIsParsed, CatalogTyped, KeptConfigs
  <2>3. QED
    BY <2>1, <2>2
<1>6. QED
  BY <1>2, <1>4, <1>5

(***************************************************************************)
(* prepare_agent                                                           *)
(***************************************************************************)
LEMMA AgentsStay ==
    ASSUME AgentsArePrivate, UNCHANGED <<agents, prepared, held>> PROVE AgentsArePrivate'
BY DEF AgentsArePrivate

\* A guest's copy of an object that is kept without guests.
LEMMA GuestGetsCopy ==
    ASSUME NEW kept \in Seq(AgentObjects), NEW a \in 1..Len(kept), NEW g \in Guests,
           kept[a].providers = {"static"}, ForGuest(kept, a, g),
           prepared' \in [Names -> 0..Len(kept)], held \in [Guests -> 0..Len(kept)],
           \A n \in Names : prepared'[n] # 0 => kept[prepared'[n]].providers = {"static"},
           \A h \in Guests : held[h] # 0 => kept[held[h]].providers = {"static", h}
    PROVE  AgentsArePrivate'
<1> DEFINE copy == [kept[a] EXCEPT !.providers = @ \cup {g}]
<1>1. agents' = Append(kept, copy) /\ held' = [held EXCEPT ![g] = Len(kept) + 1]
  BY DEF ForGuest
<1>2. copy \in AgentObjects /\ copy.providers = {"static", g}
  <2>1. kept[a] \in AgentObjects
    OBVIOUS
  <2>2. copy \in AgentObjects /\ copy.providers = kept[a].providers \cup {g}
    BY <2>1 DEF AgentObjects
  <2>3. QED
    BY <2>2
<1> HIDE DEF copy
<1>3. /\ agents' \in Seq(AgentObjects) /\ Len(agents') = Len(kept) + 1
      /\ agents'[Len(kept) + 1] = copy /\ \A i \in 1..Len(kept) : agents'[i] = kept[i]
  BY <1>1, <1>2, AppendProperties
<1>4. Len(kept) \in Nat
  OBVIOUS
<1>5. held' \in [Guests -> 0..Len(agents')] /\ prepared' \in [Names -> 0..Len(agents')]
  BY <1>1, <1>3, <1>4
<1>6. \A n \in Names : prepared'[n] # 0 => agents'[prepared'[n]].providers = {"static"}
  BY <1>3, <1>4
<1>7. \A h \in Guests : held'[h] # 0 => agents'[held'[h]].providers = {"static", h}
  <2>1. TAKE h \in Guests
  <2>2. CASE h = g
    BY <1>1, <1>2, <1>3, <2>2
  <2>3. CASE h # g
    BY <1>1, <1>3, <1>4, <2>3
  <2>4. QED
    BY <2>2, <2>3
<1>8. QED
  BY <1>3, <1>5, <1>6, <1>7 DEF AgentsArePrivate

LEMMA PreparesIInv ==
    ASSUME CatalogIInv, NEW n \in Names, NEW g \in Guests, Prepares(n, g) PROVE CatalogIInv'
<1> USE DEF CatalogIInv
<1>1. UNCHANGED files
  BY DEF Prepares
<1>2. CASE /\ prepared[n] # 0 /\ ForGuest(agents, prepared[n], g)
           /\ UNCHANGED <<caches, clientVars, prepared, last>>
  <2>1. AgentsArePrivate'
    <3>1. /\ agents \in Seq(AgentObjects) /\ prepared' = prepared /\ prepared[n] \in 1..Len(agents)
          /\ agents[prepared[n]].providers = {"static"} /\ ForGuest(agents, prepared[n], g)
          /\ prepared' \in [Names -> 0..Len(agents)] /\ held \in [Guests -> 0..Len(agents)]
          /\ \A m \in Names : prepared'[m] # 0 => agents[prepared'[m]].providers = {"static"}
          /\ \A h \in Guests : held[h] # 0 => agents[held[h]].providers = {"static", h}
      BY <1>2 DEF AgentsArePrivate
    <3>2. QED
      BY <3>1, GuestGetsCopy
  <2>2. ClientsAreApart'
    BY <1>1, <1>2, ClientsStay DEF files
  <2>3. CatalogTyped' /\ BlockIsParsed' /\ BuiltIsKnown'
    BY <1>1, <1>2 DEF CatalogTyped, BlockIsParsed, BuiltIsKnown, caches, files, clientVars
  <2>4. QED
    BY <2>1, <2>2, <2>3
<1>3. CASE prepared[n] = 0 /\ BuildSteps(n)
  <2>1. (CatalogTyped /\ BlockIsParsed /\ BuiltIsKnown /\ ClientsAreApart)'
    BY <1>1, <1>3, BuildStepsIInv
  <2>2. CASE ~Succeeds(n)
    BY <1>3, <2>1, <2>2, AgentsStay DEF Prepares
  <2>3. CASE Succeeds(n)
    <3> DEFINE object == Agent(n, BlockNow.version)
               kept == Append(agents, object)
    <3>1. /\ prepared' = [prepared EXCEPT ![n] = Len(agents) + 1]
          /\ ForGuest(kept, Len(agents) + 1, g)
      BY <1>3, <2>3 DEF Prepares
    <3>2. object \in AgentObjects /\ object.providers = {"static"}
      BY ConfigContents DEF Agent, AgentObjects, KeptConfigs
    <3> HIDE DEF object
    <3>3. /\ kept \in Seq(AgentObjects) /\ Len(kept) = Len(agents) + 1 /\ kept[Len(agents) + 1] = object
          /\ Len(agents) \in Nat /\ \A i \in 1..Len(agents) : kept[i] = agents[i]
      BY <3>2, AppendProperties DEF AgentsArePrivate
    <3> HIDE DEF kept
    <3>4. /\ prepared' \in [Names -> 0..Len(kept)] /\ held \in [Guests -> 0..Len(kept)]
          /\ \A m \in Names : prepared'[m] # 0 => kept[prepared'[m]].providers = {"static"}
          /\ \A h \in Guests : held[h] # 0 => kept[held[h]].providers = {"static", h}
      <4>1. prepared' \in [Names -> 0..Len(kept)] /\ held \in [Guests -> 0..Len(kept)]
        BY <3>1, <3>3 DEF AgentsArePrivate
      <4>2. \A m \in Names : prepared'[m] # 0 => kept[prepared'[m]].providers = {"static"}
        BY <3>1, <3>2, <3>3 DEF AgentsArePrivate
      <4>3. \A h \in Guests : held[h] # 0 => kept[held[h]].providers = {"static", h}
        BY <3>3 DEF AgentsArePrivate
      <4>4. QED
        BY <4>1, <4>2, <4>3
    <3>5. AgentsArePrivate'
      <4>1. Len(agents) + 1 \in 1..Len(kept) /\ kept[Len(agents) + 1].providers = {"static"}
        BY <3>2, <3>3
      <4>2. QED
        BY <3>1, <3>3, <3>4, <4>1, GuestGetsCopy
    <3>6. QED
      BY <2>1, <3>5
  <2>4. QED
    BY <2>2, <2>3
<1>4. QED
  BY <1>2, <1>3 DEF Prepares

LEMMA CatalogNextIInv == CatalogIInv /\ [CatalogNext]_catalogVars => CatalogIInv'
<1> SUFFICES ASSUME CatalogIInv, [CatalogNext]_catalogVars PROVE CatalogIInv'
  OBVIOUS
<1> USE DEF CatalogIInv
<1>1. ASSUME ReadsConfig \/ ReadsBlock PROVE CatalogIInv'
  <2>1. UNCHANGED <<files, clientVars, built>>
    BY <1>1 DEF ReadsConfig, ReadsBlock
  <2>2. CachesFollow
    BY <1>1, CachesIInv DEF ReadsConfig, ReadsBlock
  <2>3. ClientsAreApart' /\ AgentsArePrivate'
    BY <2>1, ClientsStay, AgentsStay DEF files, built
  <2>4. CatalogTyped' /\ BlockIsParsed' /\ BuiltIsKnown'
    BY <2>1, <2>2 DEF CatalogTyped, BlockIsParsed, BuiltIsKnown, CachesFollow, files, clientVars, built
  <2>5. QED
    BY <2>3, <2>4
<1>2. ASSUME EditsConfig PROVE CatalogIInv'
  <2>1. /\ UNCHANGED <<house, caches, clientVars, built>>
        /\ config' \in [version : Nat, parses : BOOLEAN, agents : [Names -> Settings]]
    BY <1>2 DEF EditsConfig, CatalogTyped
  <2>2. ClientsAreApart' /\ AgentsArePrivate'
    BY <2>1, ClientsStay, AgentsStay DEF built
  <2>3. CatalogTyped' /\ BlockIsParsed' /\ BuiltIsKnown'
    BY <2>1 DEF CatalogTyped, BlockIsParsed, BuiltIsKnown, caches, clientVars, built
  <2>4. QED
    BY <2>2, <2>3
<1>3. ASSUME NEW one \in {"shared", "each"}, Configures(one) PROVE CatalogIInv'
  <2>1. /\ factory = "none" /\ factory' = one /\ ForgetsClients
        /\ UNCHANGED <<house, config, parsed, block, agents, prepared, held, last>>
    BY <1>3 DEF Configures, files, caches, built
  <2>2. ClientsAreApart' /\ AgentsArePrivate'
    BY <2>1, ClientsForgotten, AgentsStay
  <2>3. CatalogTyped' /\ BlockIsParsed' /\ BuiltIsKnown'
    BY <2>1 DEF CatalogTyped, BlockIsParsed, BuiltIsKnown
  <2>4. QED
    BY <2>2, <2>3
<1>4. ASSUME Invalidates PROVE CatalogIInv'
  <2>1. /\ block' = NoContent /\ parsed' \in {parsed, NoContent}
        /\ \/ UNCHANGED <<clientOf, made>>
           \/ ForgetsClients
        /\ UNCHANGED <<house, config, factory, agents, prepared, held, last>>
    BY <1>4 DEF Invalidates, files, built
  <2>2. ClientsAreApart' /\ AgentsArePrivate'
    BY <2>1, ClientsForgotten, ClientsStay, AgentsStay DEF clientVars
  <2>3. CatalogTyped' /\ BlockIsParsed' /\ BuiltIsKnown'
    BY <2>1, ConfigContents DEF CatalogTyped, BlockIsParsed, BuiltIsKnown
  <2>4. QED
    BY <2>2, <2>3
<1>5. ASSUME NEW n \in Names, BuildsAgent(n) PROVE CatalogIInv'
  BY <1>5, BuildStepsIInv, AgentsStay DEF BuildsAgent
<1>6. ASSUME UNCHANGED catalogVars PROVE CatalogIInv'
  <2>1. UNCHANGED <<files, caches, clientVars, built>>
    BY <1>6 DEF catalogVars
  <2>2. ClientsAreApart' /\ AgentsArePrivate'
    BY <2>1, ClientsStay, AgentsStay DEF files, built
  <2>3. CatalogTyped' /\ BlockIsParsed' /\ BuiltIsKnown'
    BY <2>1 DEF CatalogTyped, BlockIsParsed, BuiltIsKnown, files, caches, clientVars, built
  <2>4. QED
    BY <2>2, <2>3
<1>7. QED
  BY <1>1, <1>2, <1>3, <1>4, <1>5, <1>6, PreparesIInv DEF CatalogNext

\* For any agents, guests and edits of the configuration: an agent is built from the
\* present file unless nothing has read it since its change, no guest runs with another's
\* providers, no client keeps an agent's limit, and the registry hands out no client it has
\* closed, whichever clients its best-effort close reached.
THEOREM CatalogAlwaysFollowsConfig ==
    CatalogInit /\ [][CatalogNext]_catalogVars => []CatalogFollowsConfig
<1>1. CatalogIInv => CatalogFollowsConfig
  <2> SUFFICES ASSUME CatalogIInv PROVE CatalogFollowsConfig
    OBVIOUS
  <2>1. DOMAIN made = 1..Len(made)
    BY DEF CatalogIInv, ClientsAreApart
  <2>2. QED
    BY <2>1 DEF CatalogIInv, BuiltIsKnown, ClientsAreApart, AgentsArePrivate, CatalogFollowsConfig
<1>2. QED
  BY <1>1, CatalogInitIInv, CatalogNextIInv, PTL

(***************************************************************************)
(* Operator tools (OperatorTools)                                          *)
(***************************************************************************)
Values == {"down", "up", "cut", "first", "second", "open", "estimated"}
ActionNames == {"set_link_status", "reroute_traffic", "update_advisory",
                "create_incident_ticket", "estimate_blast_radius"}
Overrides == [id : Links \cup Paths \cup Nat, value : Values, second : Nat]
LoggedActions == [action : ActionNames, entry : Overrides]

\* The places of a log where an action was done on an id, and that it was done latest at i.
DoneAt(log, action, id) == {i \in DOMAIN log : log[i].action = action /\ log[i].entry.id = id}
LastAt(log, action, id, i) ==
  i \in DoneAt(log, action, id) /\ \A j \in DoneAt(log, action, id) : j <= i

\* One session's overrides of one kind are what its log says was done latest.
Follows(d, log, action) ==
  /\ d = [id \in DOMAIN d |-> d[id]]
  /\ \A id : id \in DOMAIN d <=> DoneAt(log, action, id) # {}
  /\ \A id \in DOMAIN d : \E i : LastAt(log, action, id, i) /\ d[id] = log[i].entry

OperatorTyped ==
  /\ actionLog \in [Talks -> Seq(LoggedActions)] /\ second \in Nat
  /\ DOMAIN linkStatus = Talks /\ DOMAIN trafficRoutes = Talks /\ DOMAIN advisories = Talks

LogIsFollowed ==
  \A s \in Talks : /\ Follows(linkStatus[s], actionLog[s], "set_link_status")
                   /\ Follows(trafficRoutes[s], actionLog[s], "reroute_traffic")
                   /\ Follows(advisories[s], actionLog[s], "update_advisory")

OperatorIInv == OperatorTyped /\ LogIsFollowed

LEMMA LogAppends ==
    ASSUME NEW log \in Seq(LoggedActions), NEW e \in LoggedActions, NEW action, NEW id
    PROVE  /\ Append(log, e) \in Seq(LoggedActions)
           /\ \A i \in DOMAIN log : Append(log, e)[i] = log[i]
           /\ Append(log, e)[Len(log) + 1] = e
           /\ DoneAt(Append(log, e), action, id) =
                IF e.action = action /\ e.entry.id = id
                THEN DoneAt(log, action, id) \cup {Len(log) + 1} ELSE DoneAt(log, action, id)
           /\ \A i \in DoneAt(log, action, id) : i \in DOMAIN log /\ i < Len(log) + 1
<1>1. /\ Append(log, e) \in Seq(LoggedActions) /\ Len(log) \in Nat
      /\ DOMAIN log = 1..Len(log) /\ DOMAIN Append(log, e) = 1..(Len(log) + 1)
      /\ \A i \in 1..Len(log) : Append(log, e)[i] = log[i]
      /\ Append(log, e)[Len(log) + 1] = e
  BY AppendProperties
<1>2. PICK n \in Nat : n = Len(log)
  BY <1>1
<1>3. PICK longer : longer = Append(log, e)
  OBVIOUS
<1>4. \A i : i \in DOMAIN longer <=> i \in DOMAIN log \/ i = n + 1
  BY <1>1, <1>2, <1>3
<1>5. \A i : i \in DoneAt(longer, action, id) <=>
               \/ i \in DoneAt(log, action, id)
               \/ i = n + 1 /\ e.action = action /\ e.entry.id = id
  BY <1>1, <1>2, <1>3, <1>4 DEF DoneAt
<1>6. \A i \in DoneAt(log, action, id) : i \in DOMAIN log /\ i < n + 1
  BY <1>1, <1>2 DEF DoneAt
<1>7. QED
  BY <1>1, <1>2, <1>3, <1>5, <1>6

\* An action of another kind changes nothing of what is followed.
LEMMA OthersAreFollowed ==
    ASSUME NEW log \in Seq(LoggedActions), NEW e \in LoggedActions, NEW action, e.action # action,
           NEW d, Follows(d, log, action)
    PROVE  Follows(d, Append(log, e), action)
<1>1. \A id : DoneAt(Append(log, e), action, id) = DoneAt(log, action, id)
  BY LogAppends
<1>2. \A id, i : LastAt(log, action, id, i) =>
                   LastAt(Append(log, e), action, id, i) /\ Append(log, e)[i] = log[i]
  BY <1>1, LogAppends DEF LastAt
<1>3. PICK longer : longer = Append(log, e)
  OBVIOUS
<1>4. /\ \A id : DoneAt(longer, action, id) = DoneAt(log, action, id)
      /\ \A id, i : LastAt(log, action, id, i) => LastAt(longer, action, id, i) /\ longer[i] = log[i]
  BY <1>1, <1>2, <1>3
<1>5. /\ d = [id \in DOMAIN d |-> d[id]]
      /\ \A id : id \in DOMAIN d <=> DoneAt(longer, action, id) # {}
  BY <1>4 DEF Follows
<1>6. ASSUME NEW id \in DOMAIN d PROVE \E i : LastAt(longer, action, id, i) /\ d[id] = longer[i].entry
  <2>1. PICK i : LastAt(log, action, id, i) /\ d[id] = log[i].entry
    BY DEF Follows
  <2>2. QED
    BY <1>4, <2>1
<1>7. Follows(d, longer, action)
  BY <1>5, <1>6 DEF Follows
<1>8. QED
  BY <1>3, <1>7

\* A new override is the latest of its id.
LEMMA StoredIsFollowed ==
    ASSUME NEW log \in Seq(LoggedActions), NEW e \in LoggedActions, NEW action, e.action = action,
           NEW d, Follows(d, log, action), NEW new,
           new = [id \in DOMAIN d \cup {e.entry.id} |-> IF id = e.entry.id THEN e.entry ELSE d[id]]
    PROVE  Follows(new, Append(log, e), action)
<1>1. /\ new = [id \in DOMAIN new |-> new[id]] /\ DOMAIN new = DOMAIN d \cup {e.entry.id}
      /\ new[e.entry.id] = e.entry /\ \A id \in DOMAIN d \ {e.entry.id} : new[id] = d[id]
  OBVIOUS
<1>2. \A id : DoneAt(Append(log, e), action, id) =
                IF e.entry.id = id THEN DoneAt(log, action, id) \cup {Len(log) + 1}
                ELSE DoneAt(log, action, id)
  BY LogAppends
<1>3. \A id : id \in DOMAIN new <=> DoneAt(Append(log, e), action, id) # {}
  BY <1>1, <1>2 DEF Follows
<1>4. ASSUME NEW id \in DOMAIN new
      PROVE  \E i : LastAt(Append(log, e), action, id, i) /\ new[id] = Append(log, e)[i].entry
  <2>1. CASE id = e.entry.id
    <3>1. Len(log) \in Nat /\ \A j \in DoneAt(log, action, id) : j < Len(log) + 1
      BY LogAppends
    <3>2. \A j \in DoneAt(log, action, id) : j \in Nat
      BY DEF DoneAt
    <3>3. \A j \in DoneAt(log, action, id) \cup {Len(log) + 1} : j <= Len(log) + 1
      BY <3>1, <3>2
    <3>4. LastAt(Append(log, e), action, id, Len(log) + 1)
      BY <1>2, <2>1, <3>3 DEF LastAt
    <3>5. QED
      BY <1>1, <2>1, <3>4, LogAppends
  <2>2. CASE id # e.entry.id
    <3>1. PICK i : LastAt(log, action, id, i) /\ d[id] = log[i].entry
      BY <1>1, <2>2 DEF Follows
    <3>2. LastAt(Append(log, e), action, id, i) /\ Append(log, e)[i] = log[i]
      BY <1>2, <2>2, <3>1, LogAppends DEF LastAt
    <3>3. QED
      BY <1>1, <2>2, <3>1, <3>2
  <2>3. QED
    BY <2>1, <2>2
<1>5. QED
  BY <1>1, <1>3, <1>4 DEF Follows

LEMMA StoredElsewhere ==
    ASSUME NEW dict, DOMAIN dict = Talks, NEW s \in Talks, NEW entry, NEW new, new = Stored(dict, s, entry)
    PROVE  DOMAIN new = Talks /\ \A t \in Talks \ {s} : new[t] = dict[t]
BY DEF Stored

LEMMA NothingFollowed == ASSUME NEW action PROVE Follows(NoOverride, <<>>, action)
BY DEF Follows, NoOverride, DoneAt

LEMMA OperatorInitIInv == OperatorInit => OperatorIInv
<1> SUFFICES ASSUME OperatorInit PROVE OperatorIInv
  OBVIOUS
<1>1. OperatorTyped
  BY EmptySeq DEF OperatorInit, OperatorTyped
<1>2. LogIsFollowed
  BY NothingFollowed DEF OperatorInit, LogIsFollowed
<1>3. QED
  BY <1>1, <1>2 DEF OperatorIInv

LEMMA EntryIs ==
    ASSUME OperatorTyped, NEW id \in Links \cup Paths \cup Nat, NEW value \in Values,
           NEW action \in ActionNames
    PROVE  /\ Override(id, value) \in Overrides
           /\ WithAction(action, Override(id, value)) \in LoggedActions
           /\ WithAction(action, Override(id, value)).action = action
           /\ WithAction(action, Override(id, value)).entry = Override(id, value)
BY DEF OperatorTyped, Override, Overrides, WithAction, LoggedActions

\* A step that logs an action, with or without an override of its kind.
LEMMA LogIInv ==
    ASSUME OperatorIInv, NEW s \in Talks, NEW e \in LoggedActions,
           actionLog' = [actionLog EXCEPT ![s] = Append(@, e)], second' \in Nat,
           \/ linkStatus' = Stored(linkStatus, s, e.entry) /\ e.action = "set_link_status"
           \/ linkStatus' = linkStatus /\ e.action # "set_link_status",
           \/ trafficRoutes' = Stored(trafficRoutes, s, e.entry) /\ e.action = "reroute_traffic"
           \/ trafficRoutes' = trafficRoutes /\ e.action # "reroute_traffic",
           \/ advisories' = Stored(advisories, s, e.entry) /\ e.action = "update_advisory"
           \/ advisories' = advisories /\ e.action # "update_advisory"
    PROVE  OperatorIInv'
<1> USE DEF OperatorIInv
<1>1. /\ actionLog'[s] = Append(actionLog[s], e) /\ actionLog[s] \in Seq(LoggedActions)
      /\ \A t \in Talks \ {s} : actionLog'[t] = actionLog[t]
  BY DEF OperatorTyped
<1>2. OperatorTyped'
  <2>1. Append(actionLog[s], e) \in Seq(LoggedActions)
    BY <1>1, AppendProperties
  <2>2. actionLog' \in [Talks -> Seq(LoggedActions)]
    BY <2>1 DEF OperatorTyped
  <2>3. QED
    <3>1. ASSUME NEW dict, DOMAIN dict = Talks, NEW new,
                 new = dict \/ new = Stored(dict, s, e.entry)
          PROVE  DOMAIN new = Talks
      BY <3>1, StoredElsewhere
    <3>2. QED
      BY <2>2, <3>1 DEF OperatorTyped
<1>3. ASSUME NEW dict, DOMAIN dict = Talks, NEW new, NEW action,
             \A t \in Talks : Follows(dict[t], actionLog[t], action),
             \/ new = Stored(dict, s, e.entry) /\ e.action = action
             \/ new = dict /\ e.action # action,
             NEW t \in Talks
      PROVE  Follows(new[t], actionLog'[t], action)
  <2>1. CASE t # s
    <3>1. new[t] = dict[t] /\ actionLog'[t] = actionLog[t]
      BY <1>1, <1>3, <2>1, StoredElsewhere
    <3>2. QED
      BY <1>3, <3>1
  <2>2. CASE t = s /\ new = dict /\ e.action # action
    BY <1>1, <1>3, <2>2, OthersAreFollowed
  <2>3. CASE t = s /\ new = Stored(dict, s, e.entry) /\ e.action = action
    <3>1. new[s] = [id \in DOMAIN dict[s] \cup {e.entry.id} |->
                       IF id = e.entry.id THEN e.entry ELSE dict[s][id]]
      <4>1. DOMAIN dict = Talks /\ new = Stored(dict, s, e.entry)
        BY <1>3, <2>3
      <4>2. QED
        BY <4>1 DEF Stored
    <3>2. Follows(dict[s], actionLog[s], action) /\ actionLog[s] \in Seq(LoggedActions)
      BY <1>1, <1>3
    <3>3. Follows(new[s], Append(actionLog[s], e), action)
      BY <2>3, <3>1, <3>2, StoredIsFollowed
    <3>4. QED
      BY <1>1, <2>3, <3>3
  <2>4. QED
    BY <1>3, <2>1, <2>2, <2>3
<1>4. ASSUME NEW t \in Talks PROVE Follows(linkStatus'[t], actionLog'[t], "set_link_status")
  BY <1>3 DEF OperatorTyped, LogIsFollowed
<1>5. ASSUME NEW t \in Talks PROVE Follows(trafficRoutes'[t], actionLog'[t], "reroute_traffic")
  BY <1>3 DEF OperatorTyped, LogIsFollowed
<1>6. ASSUME NEW t \in Talks PROVE Follows(advisories'[t], actionLog'[t], "update_advisory")
  BY <1>3 DEF OperatorTyped, LogIsFollowed
<1>7. LogIsFollowed'
  BY <1>4, <1>5, <1>6 DEF LogIsFollowed
<1>8. QED
  BY <1>2, <1>7

LEMMA LogKeepsIInv ==
    ASSUME OperatorIInv, UNCHANGED actionLog, LogKeeps, second' \in Nat PROVE OperatorIInv'
BY DEF OperatorIInv, OperatorTyped, LogIsFollowed, LogKeeps

LEMMA OperatorNextIInv == OperatorIInv /\ [OperatorNext]_operatorVars => OperatorIInv'
<1> SUFFICES ASSUME OperatorIInv, [OperatorNext]_operatorVars PROVE OperatorIInv'
  OBVIOUS
<1>0. OperatorTyped /\ second \in Nat
  BY DEF OperatorIInv, OperatorTyped
<1>1. ASSUME NEW s \in Talks, NEW link \in Links, NEW how \in {"down", "up"}, SetsLink(s, link, how)
      PROVE  OperatorIInv'
  <2> DEFINE e == WithAction("set_link_status", Override(link, how))
  <2>0. link \in Links \cup Paths \cup Nat /\ how \in Values /\ "set_link_status" \in ActionNames
    BY <1>0 DEF Values, ActionNames
  <2>1. /\ e \in LoggedActions /\ e.action = "set_link_status" /\ e.entry = Override(link, how)
    BY <1>0, <2>0, EntryIs
  <2>2. /\ linkStatus' = Stored(linkStatus, s, Override(link, how))
        /\ actionLog' = [actionLog EXCEPT ![s] = Append(@, e)]
        /\ trafficRoutes' = trafficRoutes /\ advisories' = advisories /\ second' = second
    BY <1>1 DEF SetsLink, set_link_status, log_action, Returns
  <2> HIDE DEF e
  <2>3. QED
    BY <1>0, <2>1, <2>2, LogIInv
<1>2. ASSUME NEW s \in Talks, NEW path \in Paths, NEW reason \in {"cut"}, Reroutes(s, path, reason)
      PROVE  OperatorIInv'
  <2> DEFINE e == WithAction("reroute_traffic", Override(path, reason))
  <2>0. path \in Links \cup Paths \cup Nat /\ reason \in Values /\ "reroute_traffic" \in ActionNames
    BY <1>0 DEF Values, ActionNames
  <2>1. /\ e \in LoggedActions /\ e.action = "reroute_traffic" /\ e.entry = Override(path, reason)
    BY <1>0, <2>0, EntryIs
  <2>2. /\ trafficRoutes' = Stored(trafficRoutes, s, Override(path, reason))
        /\ actionLog' = [actionLog EXCEPT ![s] = Append(@, e)]
        /\ linkStatus' = linkStatus /\ advisories' = advisories /\ second' = second
    BY <1>2 DEF Reroutes, activate_route, log_action, Returns
  <2> HIDE DEF e
  <2>3. QED
    BY <1>0, <2>1, <2>2, LogIInv
<1>3. ASSUME NEW s \in Talks, NEW content \in {"first", "second"}, Advises(s, content)
      PROVE  OperatorIInv'
  <2> DEFINE e == WithAction("update_advisory", Override(second, content))
  <2>0. second \in Links \cup Paths \cup Nat /\ content \in Values /\ "update_advisory" \in ActionNames
    BY <1>0 DEF Values, ActionNames
  <2>1. /\ e \in LoggedActions /\ e.action = "update_advisory" /\ e.entry = Override(second, content)
    BY <1>0, <2>0, EntryIs
  <2>2. /\ advisories' = Stored(advisories, s, Override(second, content))
        /\ actionLog' = [actionLog EXCEPT ![s] = Append(@, e)]
        /\ linkStatus' = linkStatus /\ trafficRoutes' = trafficRoutes /\ second' = second
    BY <1>3 DEF Advises, TimeId, post_advisory, log_action, Returns
  <2> HIDE DEF e
  <2>3. QED
    BY <1>0, <2>1, <2>2, LogIInv
<1>4. ASSUME NEW s \in Talks, CreatesTicket(s) \/ \E link \in Links : EstimatesBlast(s, link)
      PROVE  OperatorIInv'
  <2>1. PICK e \in LoggedActions :
           /\ e.action \in {"create_incident_ticket", "estimate_blast_radius"}
           /\ actionLog' = [actionLog EXCEPT ![s] = Append(@, e)]
    <3>1. CASE CreatesTicket(s)
      <4>1. /\ second \in Links \cup Paths \cup Nat /\ "open" \in Values
            /\ "create_incident_ticket" \in ActionNames
        BY <1>0 DEF Values, ActionNames
      <4>2. QED
        BY <1>0, <3>1, <4>1, EntryIs DEF CreatesTicket, TimeId, log_action
    <3>2. ASSUME NEW link \in Links, EstimatesBlast(s, link)
          PROVE  \E e \in LoggedActions :
                    /\ e.action \in {"create_incident_ticket", "estimate_blast_radius"}
                    /\ actionLog' = [actionLog EXCEPT ![s] = Append(@, e)]
      <4>1. /\ link \in Links \cup Paths \cup Nat /\ "estimated" \in Values
            /\ "estimate_blast_radius" \in ActionNames
        BY DEF Values, ActionNames
      <4>2. QED
        BY <1>0, <3>2, <4>1, EntryIs DEF EstimatesBlast, log_action
    <3>3. QED
      BY <1>4, <3>1, <3>2
  <2>2. LogKeeps /\ second' = second
    BY <1>4 DEF CreatesTicket, EstimatesBlast, Returns
  <2>3. QED
    BY <1>0, <2>1, <2>2, LogIInv DEF LogKeeps
<1>5. ASSUME NEW s \in Talks, DeletesTalk(s) PROVE OperatorIInv'
  <2>1. OperatorTyped'
    BY <1>0, <1>5, EmptySeq DEF DeletesTalk, reset, OperatorTyped
  <2>2. \A t \in Talks : \/ t = s /\ actionLog'[t] = <<>> /\ linkStatus'[t] = NoOverride
                            /\ trafficRoutes'[t] = NoOverride /\ advisories'[t] = NoOverride
                         \/ /\ actionLog'[t] = actionLog[t] /\ linkStatus'[t] = linkStatus[t]
                            /\ trafficRoutes'[t] = trafficRoutes[t] /\ advisories'[t] = advisories[t]
    BY <1>0, <1>5 DEF DeletesTalk, reset, OperatorTyped
  <2>3. LogIsFollowed'
    BY <2>2, NothingFollowed DEF OperatorIInv, LogIsFollowed
  <2>4. QED
    BY <2>1, <2>3 DEF OperatorIInv
<1>6. ASSUME NEW s \in Talks, Rings(s) \/ RingsOut(s) \/ HangsUp(s) PROVE OperatorIInv'
  BY <1>0, <1>6, LogKeepsIInv DEF Rings, RingsOut, HangsUp
<1>7. ASSUME NEW titled, NEW recommended, PresentsOptions(titled, recommended) PROVE OperatorIInv'
  BY <1>0, <1>7, LogKeepsIInv DEF PresentsOptions, Returns
<1>8. ASSUME NEW words, AsksWorkIQ(words) PROVE OperatorIInv'
  BY <1>0, <1>8, LogKeepsIInv DEF AsksWorkIQ, Returns
<1>9. ASSUME Dispatches \/ SendsReport \/ SecondPasses PROVE OperatorIInv'
  BY <1>0, <1>9, LogKeepsIInv DEF Dispatches, SendsReport, SecondPasses, Returns
<1>10. ASSUME UNCHANGED operatorVars PROVE OperatorIInv'
  BY <1>0, <1>10, LogKeepsIInv DEF operatorVars, LogKeeps
<1>11. QED
  BY <1>1, <1>2, <1>3, <1>4, <1>5, <1>6, <1>7, <1>8, <1>9, <1>10 DEF OperatorNext

LEMMA FollowedIsLast ==
    ASSUME NEW s \in Talks, NEW action, NEW dict, Follows(dict[s], actionLog[s], action),
           actionLog[s] \in Seq(LoggedActions)
    PROVE  /\ DOMAIN dict[s] = {actionLog[s][i].entry.id : i \in LoggedUnder(s, action)}
           /\ \A id \in DOMAIN dict[s] : dict[s][id] = LastLogged(s, action, id)
<1>1. \A id : {i \in LoggedUnder(s, action) : actionLog[s][i].entry.id = id} = DoneAt(actionLog[s], action, id)
  BY DEF LoggedUnder, DoneAt
<1>2. DOMAIN dict[s] = {actionLog[s][i].entry.id : i \in LoggedUnder(s, action)}
  <2>1. \A id : id \in DOMAIN dict[s] <=> DoneAt(actionLog[s], action, id) # {}
    BY DEF Follows
  <2>2. \A id : DoneAt(actionLog[s], action, id) # {} <=>
                 \E i \in LoggedUnder(s, action) : actionLog[s][i].entry.id = id
    BY <1>1
  <2>3. QED
    BY <2>1, <2>2
<1>3. ASSUME NEW id \in DOMAIN dict[s] PROVE dict[s][id] = LastLogged(s, action, id)
  <2> DEFINE places == DoneAt(actionLog[s], action, id)
             latest == CHOOSE i \in places : \A j \in places : j <= i
  <2>1. PICK i : i \in places /\ (\A j \in places : j <= i) /\ dict[s][id] = actionLog[s][i].entry
    BY DEF Follows, LastAt
  <2>2. places \subseteq Nat
    BY DEF DoneAt
  <2>3. latest \in places /\ \A j \in places : j <= latest
    BY <2>1
  <2>4. latest = i
    BY <2>1, <2>2, <2>3
  <2>5. LastLogged(s, action, id) = actionLog[s][latest].entry
    BY <1>1 DEF LastLogged
  <2>6. QED
    BY <2>1, <2>4, <2>5
<1>4. QED
  BY <1>2, <1>3

Fractions == Nat \X (Nat \ {0})
ScoreOf(question, i) == Score(question, WordTokens(RESPONSE_CATALOG[i]))
Picks == [entry : Nat, score : Fractions]
NoPick == [entry |-> 0, score |-> <<0, 1>>]
Better(question, pick, i) ==
  IF Above(ScoreOf(question, i), pick.score) THEN [entry |-> i, score |-> ScoreOf(question, i)]
  ELSE pick

LEMMA BestRuns ==
    ASSUME NEW question,
           \A i \in DOMAIN RESPONSE_CATALOG : ScoreOf(question, i) \in Fractions
    PROVE  \E f \in [0..Len(RESPONSE_CATALOG) -> Picks] :
             /\ f[0] = NoPick
             /\ \A k \in 1..Len(RESPONSE_CATALOG) : f[k] = Better(question, f[k - 1], k)
             /\ BestEntry(question) = f[Len(RESPONSE_CATALOG)]
<1>1. PICK n \in Nat : n = Len(RESPONSE_CATALOG) /\ DOMAIN RESPONSE_CATALOG = 1..n
  BY OperatorAssumption
<1> DEFINE round == [p \in Picks \X (1..n) |-> Better(question, p[1], p[2])]
           Runs(f) == f = [k \in 0..n |-> IF k = 0 THEN NoPick
                                          ELSE Better(question, f[k - 1], k)]
           best == CHOOSE f : Runs(f)
<1>2. NoPick \in Picks
  BY DEF NoPick, Picks, Fractions
<1>3. \A pick \in Picks, i \in 1..n : Better(question, pick, i) \in Picks
  BY <1>1 DEF Better, Picks
<1>4. round \in [Picks \X (1..n) -> Picks]
  BY <1>3
<1>5. PICK f \in [0..n -> Picks] : f[0] = NoPick /\ \A k \in 1..n : f[k] = round[<<f[k - 1], k>>]
  <2>1. PICK f : IsRun(f, n, Picks, NoPick, round)
    BY <1>2, <1>4, LoopRuns DEF Loops
  <2> HIDE DEF round
  <2>2. QED
    BY <2>1 DEF IsRun
<1>6. \A k \in 1..n : k - 1 \in 0..n /\ round[<<f[k - 1], k>>] = Better(question, f[k - 1], k)
  <2> SUFFICES ASSUME NEW k \in 1..n
               PROVE  k - 1 \in 0..n /\ round[<<f[k - 1], k>>] = Better(question, f[k - 1], k)
    OBVIOUS
  <2>1. k - 1 \in 0..n
    OBVIOUS
  <2>2. <<f[k - 1], k>> \in Picks \X (1..n)
    BY <2>1
  <2>3. QED
    BY <2>1, <2>2
<1>7. Runs(f)
  <2> HIDE DEF round
  <2>1. \A k \in 0..n : k # 0 => k \in 1..n
    OBVIOUS
  <2>2. QED
    BY <1>5, <1>6, <2>1
<1>8. Runs(best)
  <2> HIDE DEF Runs
  <2>1. QED
    BY <1>7
<1>9. BestEntry(question) = best[n]
  BY <1>1 DEF BestEntry, Better, NoPick, ScoreOf
<1> HIDE DEF best
<1>10. best[0] = NoPick /\ \A k \in 1..n : best[k] = Better(question, best[k - 1], k)
  BY <1>8
<1>11. best \in [0..n -> Picks]
  <2> DEFINE T == {k \in 0..n : best[k] \in Picks}
  <2>1. 0 \in T
    BY <1>2, <1>10
  <2>2. ASSUME NEW k \in 0..(n - 1), k \in T PROVE k + 1 \in T
    <3>1. k + 1 \in 1..n /\ k + 1 \in 0..n /\ (k + 1) - 1 = k
      OBVIOUS
    <3>2. best[k + 1] = Better(question, best[k], k + 1) /\ best[k] \in Picks
      BY <1>10, <2>2, <3>1
    <3>3. QED
      BY <1>3, <3>1, <3>2
  <2>3. \A k \in 0..n : k \in T
    <3> HIDE DEF T
    <3>1. QED
      BY <2>1, <2>2, Induction
  <2>4. best = [k \in 0..n |-> best[k]]
    BY <1>8
  <2>5. QED
    BY <2>3, <2>4
<1>12. QED
  BY <1>1, <1>9, <1>10, <1>11

\* An order of fractions: what is above one is above all that are not.
LEMMA AboveAll ==
    ASSUME NEW p \in Fractions, NEW q \in Fractions, NEW r \in Fractions, Above(p, q), ~Above(r, q)
    PROVE  Above(p, r)
<1>1. PICK a \in Nat, b \in Nat \ {0} : p = <<a, b>>
  BY DEF Fractions
<1>2. PICK c \in Nat, d \in Nat \ {0} : q = <<c, d>>
  BY DEF Fractions
<1>3. PICK e \in Nat, f \in Nat \ {0} : r = <<e, f>>
  BY DEF Fractions
<1>4. a * d > c * b /\ e * d <= c * f
  BY <1>1, <1>2, <1>3 DEF Above
<1>5. (a * d) * f > (c * b) * f
  BY <1>4
<1>6. (e * d) * b <= (c * f) * b
  BY <1>4
<1>7. (c * b) * f = (c * f) * b /\ (a * d) * f = (a * f) * d /\ (e * d) * b = (e * b) * d
  OBVIOUS
<1>8. (a * f) * d > (e * b) * d
  BY <1>5, <1>6, <1>7
<1>9. a * f > e * b
  BY <1>8
<1>10. QED
  BY <1>1, <1>3, <1>9 DEF Above

LEMMA AboveIsStrict ==
    ASSUME NEW p \in Fractions, NEW q \in Fractions, Above(p, q)
    PROVE  ~Above(q, p)
BY DEF Above, Fractions

LEMMA ScoresAreFractions ==
    ASSUME NEW words, IsFiniteSet(words), NEW i \in DOMAIN RESPONSE_CATALOG
    PROVE  ScoreOf(WordTokens(words), i) \in Fractions
<1>1. ASSUME NEW set, IsFiniteSet(set) PROVE IsFiniteSet(WordTokens(set))
  BY <1>1, FS_Difference DEF WordTokens
<1> DEFINE p == WordTokens(words)
           q == WordTokens(RESPONSE_CATALOG[i])
<1>2. IsFiniteSet(p) /\ IsFiniteSet(q)
  BY <1>1, OperatorAssumption
<1> HIDE DEF p, q
<1>3. Cardinality(p) \in Nat /\ Cardinality(q) \in Nat /\ Cardinality(p \cap q) \in Nat
  BY <1>2, FS_CardinalityType, FS_Intersection
<1>4. p # {} /\ q # {} => Cardinality(p) # 0 /\ Cardinality(q) # 0
  BY <1>2, FS_EmptySet
<1>5. Score(p, q) \in Fractions
  BY <1>3, <1>4 DEF Score, Smaller, Fractions
<1>6. QED
  BY <1>5 DEF ScoreOf, p, q

\* What the loop has picked when it has seen k entries.
BestOf(question, pick, k) ==
  /\ \A j \in 1..k : ~Above(ScoreOf(question, j), pick.score)
  /\ IF pick.entry = 0 THEN pick.score = <<0, 1>>
     ELSE /\ pick.entry \in 1..k /\ pick.score = ScoreOf(question, pick.entry)
          /\ \A j \in 1..(pick.entry - 1) : Above(pick.score, ScoreOf(question, j))

LEMMA BestEntryIsBest ==
    ASSUME NEW question,
           \A i \in DOMAIN RESPONSE_CATALOG : ScoreOf(question, i) \in Fractions
    PROVE  /\ BestEntry(question) \in Picks
           /\ BestOf(question, BestEntry(question), Len(RESPONSE_CATALOG))
<1>1. PICK n \in Nat : n = Len(RESPONSE_CATALOG) /\ DOMAIN RESPONSE_CATALOG = 1..n
  BY OperatorAssumption
<1>2. PICK f \in [0..n -> Picks] :
        /\ f[0] = NoPick /\ BestEntry(question) = f[n]
        /\ \A k \in 1..n : f[k] = Better(question, f[k - 1], k)
  BY <1>1, BestRuns
<1> DEFINE T == {k \in 0..n : BestOf(question, f[k], k)}
<1>3. 0 \in T
  BY <1>2 DEF BestOf, NoPick
<1>4. ASSUME NEW k \in 0..(n - 1), k \in T PROVE k + 1 \in T
  <2>1. k + 1 \in 1..n /\ k \in 0..n /\ k + 1 \in 0..n /\ (k + 1) - 1 = k /\ k \in Nat
    OBVIOUS
  <2>2. PICK score \in Fractions : score = ScoreOf(question, k + 1)
    BY <1>1, <2>1
  <2>3. PICK old \in Picks : old = f[k] /\ BestOf(question, old, k)
    BY <1>4, <2>1
  <2>4. PICK new \in Picks : new = f[k + 1]
    BY <2>1
  <2>5. \A j \in 1..k : ScoreOf(question, j) \in Fractions /\ old.score \in Fractions
    BY <1>1, <2>1 DEF Picks
  <2>6. \A j \in 1..(k + 1) : j \in 1..k \/ j = k + 1
    BY <2>1
  <2>7. CASE Above(score, old.score)
    <3>1. new.entry = k + 1 /\ new.score = score
      <4>1. new = Better(question, old, k + 1)
        BY <1>2, <2>1, <2>3, <2>4
      <4>2. new = [entry |-> k + 1, score |-> score]
        BY <2>2, <2>7, <4>1 DEF Better
      <4>3. QED
        BY <4>2
    <3>2. \A j \in 1..k : Above(score, ScoreOf(question, j))
      BY <2>3, <2>5, <2>7, AboveAll DEF BestOf
    <3>3. \A j \in 1..k : ~Above(ScoreOf(question, j), score)
      BY <2>5, <3>2, AboveIsStrict
    <3>4. ~Above(score, score)
      BY AboveIsStrict
    <3>5. BestOf(question, new, k + 1)
      BY <2>1, <2>2, <2>6, <3>1, <3>2, <3>3, <3>4 DEF BestOf
    <3>6. QED
      BY <2>1, <2>4, <3>5
  <2>8. CASE ~Above(score, old.score)
    <3>1. new = old
      BY <1>2, <2>1, <2>2, <2>3, <2>4, <2>8 DEF Better
    <3>2. BestOf(question, new, k + 1)
      BY <2>1, <2>2, <2>3, <2>6, <2>8, <3>1 DEF BestOf
    <3>3. QED
      BY <2>1, <2>4, <3>2
  <2>9. QED
    BY <2>7, <2>8
<1>5. \A k \in 0..n : k \in T
  <2> HIDE DEF T
  <2>1. QED
    BY <1>3, <1>4, Induction
<1>6. QED
  BY <1>1, <1>2, <1>5

LEMMA AsksBest == ASSUME NEW words \in Questions, AsksWorkIQ(words) PROVE AnswersBest'
<1>1. PICK n \in Nat : n = Len(RESPONSE_CATALOG) /\ DOMAIN RESPONSE_CATALOG = 1..n
  BY OperatorAssumption
<1>2. PICK question : question = WordTokens(words)
  OBVIOUS
<1>3. \A i \in 1..n : ScoreOf(question, i) \in Fractions
  BY <1>1, <1>2, ScoresAreFractions, OperatorAssumption
<1>4. PICK best \in Picks : best = BestEntry(question) /\ BestOf(question, best, n)
  BY <1>1, <1>3, BestEntryIsBest
<1>5. PICK entry \in Nat : entry = IF best.entry = 0 \/ Above(Threshold, best.score) THEN 0 ELSE best.entry
  BY DEF Picks
<1>6. /\ result'.tool = "ask_work_iq" /\ result'.question = words
      /\ result'.entry = entry
  BY <1>2, <1>4, <1>5 DEF AsksWorkIQ, Returns
<1>7. Threshold \in Fractions /\ best.score \in Fractions /\ Above(Threshold, <<0, 1>>)
  BY OperatorAssumption DEF Fractions, Above, Picks
<1>8. CASE entry = 0
  <2>1. Above(Threshold, best.score)
    BY <1>4, <1>5, <1>7, <1>8 DEF BestOf
  <2>2. \A j \in 1..n : Above(Threshold, ScoreOf(question, j))
    BY <1>3, <1>4, <1>7, <2>1, AboveAll DEF BestOf
  <2>3. QED
    BY <1>1, <1>2, <1>6, <1>8, <2>2 DEF AnswersBest, ScoreOf
<1>9. CASE entry # 0
  <2>1. /\ entry = best.entry /\ ~Above(Threshold, best.score) /\ entry \in 1..n
        /\ best.score = ScoreOf(question, entry)
    BY <1>4, <1>5, <1>9 DEF BestOf
  <2>2. \A j \in 1..n : IF j < entry THEN Above(best.score, ScoreOf(question, j))
                        ELSE ~Above(ScoreOf(question, j), best.score)
    BY <1>4, <2>1 DEF BestOf
  <2>3. QED
    BY <1>1, <1>2, <1>6, <1>9, <2>1, <2>2 DEF AnswersBest, ScoreOf
<1>10. QED
  BY <1>8, <1>9

\* Nothing else answers a question.
LEMMA OthersAnswer ==
    ASSUME AnswersBest, result' = result \/ result'.tool # "ask_work_iq" PROVE AnswersBest'
BY DEF AnswersBest

LEMMA AnswersBestNext ==
    ASSUME AnswersBest, [OperatorNext]_operatorVars PROVE AnswersBest'
<1>1. ASSUME NEW words \in Questions, AsksWorkIQ(words) PROVE AnswersBest'
  BY <1>1, AsksBest
<1>2. ASSUME NEW s \in Talks, NEW link \in Links,
             (\E how \in {"down", "up"} : SetsLink(s, link, how)) \/ EstimatesBlast(s, link)
      PROVE  AnswersBest'
  BY <1>2, OthersAnswer DEF SetsLink, EstimatesBlast, Returns
<1>3. ASSUME NEW s \in Talks, \/ \E path \in Paths, reason \in {"cut"} : Reroutes(s, path, reason)
                              \/ \E content \in {"first", "second"} : Advises(s, content)
                              \/ CreatesTicket(s)
      PROVE  AnswersBest'
  BY <1>3, OthersAnswer DEF Reroutes, Advises, CreatesTicket, Returns
<1>4. ASSUME NEW s \in Talks, Rings(s) \/ RingsOut(s) \/ HangsUp(s) \/ DeletesTalk(s)
      PROVE  AnswersBest'
  BY <1>4, OthersAnswer DEF Rings, RingsOut, HangsUp, DeletesTalk
<1>5. ASSUME NEW titled, NEW recommended, PresentsOptions(titled, recommended) PROVE AnswersBest'
  BY <1>5, OthersAnswer DEF PresentsOptions, Returns
<1>6. ASSUME Dispatches \/ SendsReport \/ SecondPasses PROVE AnswersBest'
  BY <1>6, OthersAnswer DEF Dispatches, SendsReport, SecondPasses, Returns
<1>7. ASSUME UNCHANGED operatorVars PROVE AnswersBest'
  BY <1>7, OthersAnswer DEF operatorVars
<1>8. QED
  BY <1>1, <1>2, <1>3, <1>4, <1>5, <1>6, <1>7 DEF OperatorNext

\* For any sessions, links, paths, questions and catalogue: what the tools hold as overridden
\* is exactly what a session's action log says was done latest to it, through repeated actions,
\* ids that coincide within a second and resets (_spoof_state.py), and ask_work_iq answers
\* with the first of the best entries, or with none below the threshold.
THEOREM OverridesAlwaysFollowLog == OperatorInit /\ [][OperatorNext]_operatorVars => []OverridesFollowLog
<1>1. OperatorIInv /\ AnswersBest => OverridesFollowLog
  BY FollowedIsLast DEF OperatorIInv, OperatorTyped, LogIsFollowed, FollowsLog, OverridesFollowLog
<1>2. OperatorInit => AnswersBest
  BY DEF OperatorInit, AnswersBest
<1>3. QED
  BY <1>1, <1>2, OperatorInitIInv, OperatorNextIInv, AnswersBestNext, PTL

(***************************************************************************)
(* The whole platform                                                      *)
(***************************************************************************)
\* Every part behaves in the platform as it does by itself.
LEMMA PartsAreApart ==
    PlatformSpec => /\ Spec /\ HealthSpec
                    /\ ChannelInit /\ [][ChannelNext]_channelVars
                    /\ AuthInit /\ [][AuthNext]_authVars
                    /\ ScopeInit /\ [][ScopeNext]_scopeVars
                    /\ AdapterInit /\ [][AdapterNext]_adapterVars
                    /\ ContextInit /\ [][ContextNext]_contextVars
                    /\ EngineInit /\ [][EngineNext]_engineVars
                    /\ ApiInit /\ [][ApiNext]_apiVars
                    /\ CatalogInit /\ [][CatalogNext]_catalogVars
                    /\ OperatorInit /\ [][OperatorNext]_operatorVars
<1>1. PlatformInit => /\ Init /\ HealthInit /\ ChannelInit /\ AuthInit /\ ScopeInit /\ AdapterInit
                      /\ ContextInit /\ EngineInit /\ ApiInit /\ CatalogInit /\ OperatorInit
  BY DEF PlatformInit
<1>2. [PlatformNext]_platformVars =>
        /\ [Next]_vars /\ [HealthNext]_healthVars /\ [ChannelNext]_channelVars
        /\ [AuthNext]_authVars
        /\ [ScopeNext]_scopeVars /\ [AdapterNext]_adapterVars
        /\ [ContextNext]_contextVars /\ [EngineNext]_engineVars
        /\ [ApiNext]_apiVars /\ [CatalogNext]_catalogVars /\ [OperatorNext]_operatorVars
  BY DEF PlatformNext, Step, Or, platformVars
<1>3. QED
  BY <1>1, <1>2, PTL DEF PlatformSpec, Spec, HealthSpec

\* Whichever part of the server a behaviour follows, what the parts promise holds: the
\* theorems of the parts are theorems of PlatformSpec.
THEOREM PlatformKeepsItsPromises ==
    PlatformSpec => [](/\ NothingLostUnseen /\ VerdictIsFresh /\ KeysServe /\ ContextIsRight
                       /\ ScenariosDoNotMix /\ AdaptersLeaveNothing /\ AnswerHasText
                       /\ SessionsStayApart /\ CatalogFollowsConfig /\ OverridesFollowLog)
BY PartsAreApart, NothingIsEverLostUnseen, VerdictsAreFresh, KeysAlwaysServe, ContextIsAlwaysRight,
   ScenariosNeverMix, AdaptersAlwaysLeaveNothing, AnswersHaveText, SessionsAlwaysStayApart,
   CatalogAlwaysFollowsConfig, OverridesAlwaysFollowLog, PTL
=============================================================================
