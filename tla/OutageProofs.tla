---------------------------- MODULE OutageProofs ----------------------------
(***************************************************************************)
(* What holds through an outage of Cosmos: theorems about CosmosStore for  *)
(* any number of concurrent turns, renames, readers and deletes, any       *)
(* number of retries and any breaker, and about the breaker itself         *)
(* (BreakerCalls) for any number of callers, threshold and cooldowns.      *)
(*                                                                         *)
(* CountNeverAhead alone is not inductive: a turn whose document is        *)
(* created and not yet patched is going to increment the counter, and a    *)
(* rename is going to write back the one it has read.  CountOK therefore   *)
(* bounds both by the documents that have their patch behind them.         *)
(* HalfOpenHasProbe is inductive only with ClosedIsReset and the types: a  *)
(* result that leaves a half-open breaker half-open would take the probe   *)
(* away.                                                                   *)
(***************************************************************************)
EXTENDS CosmosStore, BreakerCalls, FiniteSetTheorems, TLAPS

Labels == {"append", "create", "patch", "answer", "upsert", "done",
           "update", "read", "write", "get", "fetch", "query",
           "delete", "list", "deleting", "deleted", "failed"}

\* The part of TypeOK the argument needs.
Typed ==
    /\ sess \in [exists : BOOLEAN, count : Nat]
    /\ docs \in [Turns -> {"absent", "streaming", "final"}]
    /\ pc \in [Procs -> Labels]
    /\ snap \in [Renames -> [exists : BOOLEAN, count : Nat]]
    /\ todo \in [Deletes -> SUBSET (Turns \cup {SessionDoc})]
    /\ acked \in SUBSET Turns

\* The documents whose patch is over, whatever became of it.
Counted == {t \in Turns : docs[t] # "absent" /\ pc[t] # "patch"}

CountOK ==
    /\ sess.exists
    /\ sess.count <= Cardinality(Counted)
    /\ \A t \in Turns : pc[t] = "patch" => docs[t] # "absent"
    /\ \A r \in Renames : pc[r] = "write" => snap[r].count <= Cardinality(Counted)

\* A delete has nothing to do before it has listed the documents.
TodoOK == \A d \in Deletes : pc[d] \in {"delete", "list"} => todo[d] = {}

IInv == Typed /\ TodoOK /\ (Undeleted => CountOK) /\ AckedIsStored

LEMMA CountIsMonotonic ==
    ASSUME NEW A \in SUBSET Turns, NEW B \in SUBSET Turns, A \subseteq B
    PROVE  /\ Cardinality(A) \in Nat /\ Cardinality(B) \in Nat
           /\ Cardinality(A) <= Cardinality(B)
<1>1. IsFiniteSet(B)
  BY StoreAssumption, FS_Subset
<1>2. QED
  BY <1>1, FS_Subset, FS_CardinalityType

LEMMA CountOfOneMore ==
    ASSUME NEW A \in SUBSET Turns, NEW B \in SUBSET Turns, A \subseteq B,
           NEW t \in B, t \notin A
    PROVE  Cardinality(A) + 1 <= Cardinality(B)
<1>1. IsFiniteSet(A)
  BY StoreAssumption, FS_Subset
<1>2. Cardinality(A \cup {t}) = Cardinality(A) + 1
  BY <1>1, FS_AddElement
<1>3. A \cup {t} \in SUBSET Turns /\ A \cup {t} \subseteq B
  OBVIOUS
<1>4. Cardinality(A \cup {t}) <= Cardinality(B)
  BY <1>3, CountIsMonotonic
<1>5. QED
  BY <1>2, <1>4

LEMMA InitIInv == Init => IInv
<1> SUFFICES ASSUME Init PROVE IInv
  OBVIOUS
<1>1. Typed
  BY DEF Init, Typed, Absent, Procs, Labels
<1>2. TodoOK /\ AckedIsStored
  BY DEF Init, TodoOK, AckedIsStored
<1>3. Cardinality(Counted) \in Nat
  BY CountIsMonotonic DEF Counted
<1>4. \A t \in Turns : pc[t] # "patch"
  BY DEF Init, Procs
<1>5. \A r \in Renames : pc[r] # "write"
  BY DEF Init, Procs
<1>6. sess.exists /\ sess.count = 0
  BY DEF Init
<1>7. sess.count <= Cardinality(Counted)
  BY <1>3, <1>6
<1>8. CountOK
  BY <1>4, <1>5, <1>6, <1>7 DEF CountOK
<1>9. QED
  BY <1>1, <1>2, <1>8 DEF IInv

-----------------------------------------------------------------------------
\* The documents only grow: none is removed, and a final one stays final.
Grow == \A t \in Turns : /\ docs[t] # "absent" => docs'[t] # "absent"
                         /\ docs[t] = "final" => docs'[t] = "final"

\* A process goes on to a label: a delete does not go back.
Moves(p, label) ==
    /\ pc' = [pc EXCEPT ![p] = label]
    /\ label \in {"delete", "list"} => pc[p] = "delete"

\* What every move keeps of the deletes, if their lists are left alone.
LEMMA DeletesGoOn ==
    ASSUME IInv, NEW p \in Procs, NEW label \in Labels, Moves(p, label), UNCHANGED todo
    PROVE  TodoOK' /\ (Undeleted' => Undeleted)
BY DEF IInv, Typed, TodoOK, Undeleted, Moves, Procs

\* A step of a call that neither touches the session document nor has its patch or
\* its write ahead.
LEMMA StepAside ==
    ASSUME IInv, Typed', NEW p \in Procs, NEW label \in Labels \ {"patch", "write"},
           Moves(p, label), pc[p] # "patch", Grow, UNCHANGED <<sess, snap, todo, acked>>
    PROVE  IInv'
<1>1. TodoOK' /\ (Undeleted' => Undeleted)
  BY DeletesGoOn
<1>2. Counted \subseteq Counted' /\ Counted \in SUBSET Turns /\ Counted' \in SUBSET Turns
  BY DEF IInv, Typed, Moves, Counted, Grow, Procs
<1>3. /\ Cardinality(Counted) \in Nat /\ Cardinality(Counted') \in Nat
      /\ Cardinality(Counted) <= Cardinality(Counted')
  BY <1>2, CountIsMonotonic
<1>4. ASSUME CountOK PROVE CountOK'
  <2>1. sess'.count <= Cardinality(Counted')
    BY <1>3, <1>4 DEF CountOK, IInv, Typed
  <2>2. \A t \in Turns : pc'[t] = "patch" => docs'[t] # "absent"
    BY <1>4 DEF CountOK, IInv, Typed, Moves, Grow, Procs
  <2>3. \A r \in Renames : pc'[r] = "write" => snap'[r].count <= Cardinality(Counted')
    BY <1>3, <1>4 DEF CountOK, IInv, Typed, Moves, Procs
  <2>4. QED
    BY <1>4, <2>1, <2>2, <2>3 DEF CountOK
<1>5. AckedIsStored'
  BY <1>1 DEF IInv, Typed, AckedIsStored, Grow
<1>6. QED
  BY <1>1, <1>4, <1>5 DEF IInv

\* The patch of a turn, with or without its effect.
LEMMA StepPatch ==
    ASSUME IInv, Typed', NEW t \in Turns, NEW label \in {"append", "answer"},
           pc[t] = "patch", Moves(t, label), sess' \in {sess, Increment},
           UNCHANGED <<docs, snap, todo, acked>>
    PROVE  IInv'
<1>1. TodoOK' /\ (Undeleted' => Undeleted)
  BY DeletesGoOn DEF Procs, Labels
<1>2. AckedIsStored'
  BY <1>1 DEF IInv, Typed, AckedIsStored
<1>3. ASSUME CountOK PROVE CountOK'
  <2>1. /\ Counted \subseteq Counted' /\ Counted \in SUBSET Turns /\ Counted' \in SUBSET Turns
        /\ t \in Counted' /\ t \notin Counted
    BY <1>3 DEF IInv, Typed, Moves, Counted, CountOK, Procs
  <2>2. /\ Cardinality(Counted) \in Nat /\ Cardinality(Counted') \in Nat
        /\ Cardinality(Counted) + 1 <= Cardinality(Counted')
    BY <2>1, CountIsMonotonic, CountOfOneMore
  <2>3. sess'.exists /\ sess'.count \in {sess.count, sess.count + 1}
    BY <1>3 DEF CountOK, IInv, Typed, Increment
  <2>4. sess'.count <= Cardinality(Counted')
    BY <1>3, <2>2, <2>3 DEF CountOK, IInv, Typed
  <2>5. \A u \in Turns : pc'[u] = "patch" => docs'[u] # "absent"
    BY <1>3 DEF CountOK, IInv, Typed, Moves, Procs
  <2>6. \A r \in Renames : pc'[r] = "write" => snap'[r].count <= Cardinality(Counted')
    BY <1>3, <2>2 DEF CountOK, IInv, Typed, Moves, Procs
  <2>7. QED
    BY <2>3, <2>4, <2>5, <2>6 DEF CountOK
<1>4. QED
  BY <1>1, <1>2, <1>3 DEF IInv
-----------------------------------------------------------------------------
\* What update reads and writes, and what delete leaves, are session documents.
LEMMA DocsOfTheSession ==
    /\ Absent \in [exists : BOOLEAN, count : Nat]
    /\ Typed => \A r \in Renames :
          [exists |-> TRUE, count |-> snap[r].count] \in [exists : BOOLEAN, count : Nat]
<1>1. Absent \in [exists : BOOLEAN, count : Nat]
  BY DEF Absent
<1>2. ASSUME Typed, NEW r \in Renames PROVE snap[r].count \in Nat
  BY <1>2 DEF Typed
<1>3. QED
  BY <1>1, <1>2

LEMMA NextTyped == IInv /\ [Next]_vars => Typed'
<1> SUFFICES ASSUME IInv, [Next]_vars PROVE Typed'
  OBVIOUS
<1>0. Typed
  BY DEF IInv
<1>1. ASSUME NEW t \in Turns, TurnStep(t)
      PROVE  Typed'
  <2>1. CASE CheckTurn(t)
    BY <1>0, <2>1 DEF CheckTurn, Retry, NextAttempt, Goto, Typed, Procs, Labels, container
  <2>2. CASE Create(t)
    BY <1>0, <2>2 DEF Create, Retry, NextAttempt, Goto, Typed, Procs, Labels
  <2>3. CASE Patch(t)
    <3>1. sess' \in {sess, Increment}
      BY <2>3 DEF Patch
    <3>2. sess' \in [exists : BOOLEAN, count : Nat]
      BY <1>0, <3>1 DEF Typed, Increment
    <3>3. pc' \in [Procs -> Labels] /\ UNCHANGED <<docs, snap, todo, acked>>
      BY <1>0, <2>3 DEF Patch, Retry, NextAttempt, Written, Goto, Typed, Procs, Labels
    <3>4. QED
      BY <1>0, <3>2, <3>3 DEF Typed
  <2>4. CASE Upsert(t)
    BY <1>0, <2>4 DEF Upsert, UpsertDoc, Retry, NextAttempt, Written, Goto, Typed, Procs, Labels
  <2>5. CASE Cancel(t)
    <3>1. sess' \in {sess, Increment}
      BY <2>5 DEF Cancel
    <3>2. sess' \in [exists : BOOLEAN, count : Nat]
      BY <1>0, <3>1 DEF Typed, Increment
    <3>3. /\ pc' \in [Procs -> Labels] /\ UNCHANGED <<snap, todo, acked>>
          /\ docs' \in [Turns -> {"absent", "streaming", "final"}]
      BY <1>0, <2>5 DEF Cancel, UpsertDoc, Written, Goto, Typed, Procs, Labels
    <3>4. QED
      BY <1>0, <3>2, <3>3 DEF Typed
  <2>6. QED
    BY <1>1, <2>1, <2>2, <2>3, <2>4, <2>5 DEF TurnStep
<1>2. ASSUME NEW p \in Procs, NEW label, NEW admitted \in Labels, NEW rejected \in Labels,
             CheckOther(p, label, admitted, rejected)
      PROVE  Typed'
  BY <1>0, <1>2 DEF CheckOther, Goto, Typed, container, local
<1>3. ASSUME NEW r \in Renames, ReadForUpdate(r)
      PROVE  Typed'
  <2>1. pc' \in [Procs -> Labels] /\ UNCHANGED <<sess, docs, todo, acked>>
    BY <1>0, <1>3 DEF ReadForUpdate, Goto, Typed, Procs, Labels, container
  <2>2. PICK s \in {snap[r], sess, Absent} : snap' = [snap EXCEPT ![r] = s]
    BY <1>0, <1>3 DEF ReadForUpdate, Typed
  <2>3. s \in [exists : BOOLEAN, count : Nat]
    BY <1>0, DocsOfTheSession DEF Typed
  <2>4. snap' \in [Renames -> [exists : BOOLEAN, count : Nat]]
    BY <1>0, <2>2, <2>3 DEF Typed
  <2>5. QED
    BY <1>0, <2>1, <2>4 DEF Typed
<1>4. ASSUME NEW r \in Renames, WriteUpdate(r)
      PROVE  Typed'
  <2>1. pc' \in [Procs -> Labels] /\ UNCHANGED <<docs, snap, todo, acked>>
    BY <1>0, <1>4 DEF WriteUpdate, Goto, Typed, Procs, Labels, local
  <2>2. sess' \in {sess, [exists |-> TRUE, count |-> snap[r].count]}
    BY <1>4 DEF WriteUpdate
  <2>3. sess' \in [exists : BOOLEAN, count : Nat]
    BY <1>0, <2>2, DocsOfTheSession DEF Typed
  <2>4. QED
    BY <1>0, <2>1, <2>3 DEF Typed
<1>5. ASSUME NEW g \in Reads, Fetch(g) \/ Query(g)
      PROVE  Typed'
  BY <1>0, <1>5 DEF Fetch, Query, Goto, Typed, Procs, Labels, container, local
<1>6. ASSUME NEW d \in Deletes, ListDocs(d) \/ DeleteReturns(d)
      PROVE  Typed'
  BY <1>0, <1>6 DEF ListDocs, DeleteReturns, Goto, Typed, Procs, Labels, container, local
<1>7. ASSUME NEW d \in Deletes, NEW x \in todo[d], DeleteItem(d, x)
      PROVE  Typed'
  <2>1. pc' \in [Procs -> Labels] /\ UNCHANGED <<snap, acked>>
    BY <1>0, <1>7 DEF DeleteItem, Goto, Typed, Procs, Labels
  <2>2. todo' \in [Deletes -> SUBSET (Turns \cup {SessionDoc})]
    BY <1>0, <1>7 DEF DeleteItem, Typed
  <2>3. Remove(x) \/ UNCHANGED container
    BY <1>7 DEF DeleteItem
  <2>4. /\ sess' \in [exists : BOOLEAN, count : Nat]
        /\ docs' \in [Turns -> {"absent", "streaming", "final"}]
    BY <1>0, <2>3, DocsOfTheSession DEF Remove, Typed, container
  <2>5. QED
    BY <1>0, <2>1, <2>2, <2>4 DEF Typed
<1>8. CASE Tick \/ UNCHANGED vars
  BY <1>0, <1>8 DEF Tick, Typed, vars, container, local
<1>9. QED
  <2>1. ASSUME NEW r \in Renames, CheckOther(r, "update", "read", "failed")
        PROVE  Typed'
    BY <1>2, <2>1 DEF Procs, Labels
  <2>2. ASSUME NEW g \in Reads, CheckOther(g, "get", "fetch", "get")
        PROVE  Typed'
    BY <1>2, <2>2 DEF Procs, Labels
  <2>3. ASSUME NEW d \in Deletes, CheckOther(d, "delete", "list", "failed")
        PROVE  Typed'
    BY <1>2, <2>3 DEF Procs, Labels
  <2>4. QED
    BY <1>1, <1>3, <1>4, <1>5, <1>6, <1>7, <1>8, <2>1, <2>2, <2>3 DEF Next

-----------------------------------------------------------------------------
\* A failed attempt sends a turn back, on, or to its end.
LEMMA RetryFacts ==
    ASSUME NEW t \in Turns, Retry(t)
    PROVE  /\ \E label \in {"append", "answer", "done"} : Goto(t, label)
           /\ pc[t] = "patch" =>
                \E label \in {"append", "answer"} : Goto(t, label)
BY DEF Retry, NextAttempt

LEMMA TurnKeepsIInv ==
    ASSUME IInv, Typed', NEW t \in Turns, TurnStep(t)
    PROVE  IInv'
<1> USE DEF Procs, Moves, Goto
<1>0. Typed
  BY DEF IInv
<1>1. CASE CheckTurn(t)
  <2>1. PICK label \in {"create", "upsert", "append", "answer", "done"} :
             pc' = [pc EXCEPT ![t] = label]
    BY <1>1, RetryFacts DEF CheckTurn
  <2>2. UNCHANGED <<sess, docs, snap, todo, acked>> /\ pc[t] # "patch"
    BY <1>1 DEF CheckTurn, container
  <2>3. QED
    BY <2>1, <2>2, StepAside DEF Labels, Grow
<1>2. CASE Create(t)
  <2>1. CASE /\ docs[t] = "absent"
             /\ docs' = [docs EXCEPT ![t] = "streaming"]
             /\ pc' = [pc EXCEPT ![t] = "patch"]
    <3>1. UNCHANGED <<sess, snap, todo, acked>>
      BY <1>2 DEF Create
    <3>2. TodoOK' /\ (Undeleted' => Undeleted)
      BY <2>1, <3>1, DeletesGoOn DEF Labels
    <3>3. AckedIsStored'
      BY <1>0, <2>1, <3>1, <3>2 DEF IInv, Typed, AckedIsStored
    <3>4. Counted' = Counted
      BY <1>0, <2>1 DEF Counted, Typed
    <3>5. \A r \in Renames : pc'[r] = "write" => pc[r] = "write"
      BY <1>0, <2>1 DEF Typed
    <3>6. CountOK => \A u \in Turns : pc'[u] = "patch" => docs'[u] # "absent"
      BY <1>0, <2>1 DEF Typed, CountOK
    <3>7. CountOK => CountOK'
      BY <3>1, <3>4, <3>5, <3>6 DEF CountOK
    <3>8. QED
      BY <3>2, <3>3, <3>7 DEF IInv
  <2>2. CASE /\ Retry(t)
             /\ docs' \in {docs, [docs EXCEPT ![t] = IF @ = "absent" THEN "streaming" ELSE @]}
    <3>1. PICK label \in {"append", "answer", "done"} : pc' = [pc EXCEPT ![t] = label]
      BY <2>2, RetryFacts
    <3>2. UNCHANGED <<sess, snap, todo, acked>> /\ pc[t] # "patch"
      BY <1>2 DEF Create
    <3>3. Grow
      BY <1>0, <2>2 DEF Grow, Typed
    <3>4. QED
      BY <3>1, <3>2, <3>3, StepAside DEF Labels
  <2>3. QED
    BY <1>2, <2>1, <2>2 DEF Create
<1>3. CASE Patch(t)
  <2>1. PICK label \in {"append", "answer"} : pc' = [pc EXCEPT ![t] = label]
    BY <1>3, RetryFacts DEF Patch, Written
  <2>2. UNCHANGED <<docs, snap, todo, acked>> /\ sess' \in {sess, Increment} /\ pc[t] = "patch"
    BY <1>3 DEF Patch
  <2>3. QED
    BY <2>1, <2>2, StepPatch
<1>4. CASE Upsert(t)
  <2>1. PICK label \in {"append", "answer", "done"} : pc' = [pc EXCEPT ![t] = label]
    BY <1>4, RetryFacts DEF Upsert, Written
  <2>2. UNCHANGED <<sess, snap, todo>> /\ pc[t] = "upsert"
    BY <1>4 DEF Upsert
  <2>3. Grow
    BY <1>0, <1>4 DEF Upsert, UpsertDoc, Grow, Typed
  <2>4. CASE UNCHANGED acked
    BY <2>1, <2>2, <2>3, <2>4, StepAside DEF Labels
  <2>5. CASE acked' = acked \cup {t} /\ docs' = [docs EXCEPT ![t] = "final"]
    <3>1. TodoOK' /\ (Undeleted' => Undeleted)
      BY <2>1, <2>2, DeletesGoOn DEF Labels
    <3>2. AckedIsStored'
      BY <1>0, <2>5, <3>1 DEF IInv, Typed, AckedIsStored
    <3>3. Counted \subseteq Counted' /\ Counted \in SUBSET Turns /\ Counted' \in SUBSET Turns
      BY <1>0, <2>1, <2>5 DEF Counted, Typed
    <3>4. /\ Cardinality(Counted) \in Nat /\ Cardinality(Counted') \in Nat
          /\ Cardinality(Counted) <= Cardinality(Counted')
      BY <3>3, CountIsMonotonic
    <3>5. CountOK => sess'.count <= Cardinality(Counted')
      BY <1>0, <2>2, <3>4 DEF CountOK, Typed
    <3>6. CountOK => \A u \in Turns : pc'[u] = "patch" => docs'[u] # "absent"
      BY <1>0, <2>1, <2>3 DEF CountOK, Typed, Grow
    <3>7. CountOK => \A r \in Renames : pc'[r] = "write" => snap'[r].count <= Cardinality(Counted')
      BY <1>0, <2>1, <2>2, <3>4 DEF CountOK, Typed
    <3>8. CountOK => CountOK'
      BY <2>2, <3>5, <3>6, <3>7 DEF CountOK
    <3>9. QED
      BY <3>1, <3>2, <3>8 DEF IInv
  <2>6. QED
    BY <1>4, <2>4, <2>5 DEF Upsert, UpsertDoc
<1>5. CASE Cancel(t)
  <2>1. UNCHANGED <<snap, todo, acked>>
    BY <1>5 DEF Cancel
  <2>2. CASE pc[t] = "patch"
    <3>1. /\ UNCHANGED docs /\ sess' \in {sess, Increment}
          /\ pc' = [pc EXCEPT ![t] = "answer"]
      BY <1>5, <2>2 DEF Cancel, Written
    <3>2. QED
      BY <2>1, <2>2, <3>1, StepPatch
  <2>3. CASE pc[t] # "patch"
    <3>1. PICK label \in {"answer", "done"} : pc' = [pc EXCEPT ![t] = label]
      BY <1>5, <2>3 DEF Cancel, Written
    <3>2. UNCHANGED sess /\ Grow
      BY <1>0, <1>5, <2>3 DEF Cancel, UpsertDoc, Grow, Typed
    <3>3. QED
      BY <2>1, <2>3, <3>1, <3>2, StepAside DEF Labels
  <2>4. QED
    BY <2>2, <2>3
<1>6. QED
  BY <1>1, <1>2, <1>3, <1>4, <1>5 DEF TurnStep

-----------------------------------------------------------------------------
LEMMA RenameKeepsIInv ==
    ASSUME IInv, Typed', NEW r \in Renames, ReadForUpdate(r) \/ WriteUpdate(r)
    PROVE  IInv'
<1> USE DEF Procs, Moves, Goto
<1>0. Typed
  BY DEF IInv
<1>1. CASE ReadForUpdate(r) /\ pc' = [pc EXCEPT ![r] = "failed"] /\ UNCHANGED snap
  BY <1>1, StepAside DEF ReadForUpdate, container, Labels, Grow
<1>2. ASSUME pc' = [pc EXCEPT ![r] = "write"] /\ ReadForUpdate(r),
             snap' = [snap EXCEPT ![r] = IF sess.exists THEN sess ELSE Absent]
      PROVE  IInv'
  <2>1. UNCHANGED <<sess, docs, todo, acked>> /\ pc[r] = "read"
    BY <1>2 DEF ReadForUpdate, container
  <2>2. TodoOK' /\ (Undeleted' => Undeleted)
    BY <1>2, <2>1, DeletesGoOn DEF Labels
  <2>3. AckedIsStored'
    BY <2>1, <2>2 DEF IInv, AckedIsStored
  <2>4. Counted' = Counted
    BY <1>0, <1>2, <2>1 DEF Counted, Typed
  <2>5. ASSUME CountOK PROVE CountOK'
    <3>1. snap' = [snap EXCEPT ![r] = sess]
      BY <1>2, <2>5 DEF CountOK
    <3>2. \A u \in Renames : pc'[u] = "write" => snap'[u].count <= Cardinality(Counted')
      BY <1>0, <1>2, <2>4, <2>5, <3>1 DEF CountOK, Typed
    <3>3. \A u \in Turns : pc'[u] = "patch" => docs'[u] # "absent"
      BY <1>0, <1>2, <2>1, <2>5 DEF CountOK, Typed
    <3>4. QED
      BY <2>1, <2>4, <2>5, <3>2, <3>3 DEF CountOK
  <2>6. QED
    BY <2>2, <2>3, <2>5 DEF IInv
<1>3. CASE WriteUpdate(r)
  <2>1. PICK label \in {"done", "failed"} : pc' = [pc EXCEPT ![r] = label]
    BY <1>3 DEF WriteUpdate
  <2>2. UNCHANGED <<docs, snap, todo, acked>> /\ pc[r] = "write"
    BY <1>3 DEF WriteUpdate, local
  <2>3. sess' \in {sess, [exists |-> TRUE, count |-> snap[r].count]}
    BY <1>3 DEF WriteUpdate
  <2>4. TodoOK' /\ (Undeleted' => Undeleted)
    BY <2>1, <2>2, DeletesGoOn DEF Labels
  <2>5. AckedIsStored'
    BY <2>2, <2>4 DEF IInv, AckedIsStored
  <2>6. Counted \subseteq Counted' /\ Counted \in SUBSET Turns /\ Counted' \in SUBSET Turns
    BY <1>0, <2>1, <2>2 DEF Counted, Typed
  <2>7. /\ Cardinality(Counted) \in Nat /\ Cardinality(Counted') \in Nat
        /\ Cardinality(Counted) <= Cardinality(Counted')
    BY <2>6, CountIsMonotonic
  <2>8. ASSUME CountOK PROVE CountOK'
    <3>1. sess.count <= Cardinality(Counted') /\ snap[r].count <= Cardinality(Counted')
      BY <1>0, <2>2, <2>7, <2>8 DEF CountOK, Typed
    <3>2. sess'.count <= Cardinality(Counted')
      BY <2>3, <3>1
    <3>3. sess'.exists
      BY <2>3, <2>8 DEF CountOK
    <3>4. \A u \in Turns : pc'[u] = "patch" => docs'[u] # "absent"
      BY <1>0, <2>1, <2>2, <2>8 DEF CountOK, Typed
    <3>5. \A u \in Renames : pc'[u] = "write" => snap'[u].count <= Cardinality(Counted')
      BY <1>0, <2>1, <2>2, <2>7, <2>8 DEF CountOK, Typed
    <3>6. QED
      BY <3>2, <3>3, <3>4, <3>5 DEF CountOK
  <2>9. QED
    BY <2>4, <2>5, <2>8 DEF IInv
<1>4. QED
  BY <1>1, <1>2, <1>3 DEF ReadForUpdate

\* Once a delete has listed the documents, the invariant says nothing of them.
LEMMA DeleteKeepsIInv ==
    ASSUME IInv, Typed', NEW d \in Deletes,
           ListDocs(d) \/ DeleteReturns(d) \/ \E x \in todo[d] : DeleteItem(d, x)
    PROVE  IInv'
<1>1. ~Undeleted'
  BY DEF IInv, Typed, TodoOK, Undeleted, ListDocs, DeleteReturns, DeleteItem, Goto, Procs
<1>2. TodoOK'
  BY DEF IInv, Typed, TodoOK, ListDocs, DeleteReturns, DeleteItem, Goto, Procs, local
<1>3. QED
  BY <1>1, <1>2 DEF IInv, AckedIsStored

LEMMA OtherKeepsIInv ==
    ASSUME IInv, Typed', NEW p \in Procs, NEW label \in Labels \ {"patch", "write"},
           Moves(p, label), pc[p] # "patch", UNCHANGED <<container, local>>
    PROVE  IInv'
BY StepAside DEF container, local, Grow

LEMMA NextIInv == IInv /\ [Next]_vars => IInv'
<1> SUFFICES ASSUME IInv, [Next]_vars PROVE IInv'
  OBVIOUS
<1>0. Typed /\ Typed'
  BY NextTyped DEF IInv
<1>1. ASSUME NEW t \in Turns, TurnStep(t)
      PROVE  IInv'
  BY <1>0, <1>1, TurnKeepsIInv
<1>2. ASSUME NEW p \in Procs, NEW label, NEW admitted, NEW rejected,
             CheckOther(p, label, admitted, rejected),
             <<label, admitted, rejected>> \in {<<"update", "read", "failed">>,
                 <<"get", "fetch", "get">>, <<"delete", "list", "failed">>}
      PROVE  IInv'
  BY <1>0, <1>2, OtherKeepsIInv DEF CheckOther, Goto, Moves, Labels
<1>3. ASSUME NEW r \in Renames, ReadForUpdate(r) \/ WriteUpdate(r)
      PROVE  IInv'
  BY <1>0, <1>3, RenameKeepsIInv
<1>4. ASSUME NEW g \in Reads, Fetch(g) \/ Query(g)
      PROVE  IInv'
  BY <1>0, <1>4, OtherKeepsIInv DEF Fetch, Query, Goto, Moves, Labels, Procs
<1>5. ASSUME NEW d \in Deletes,
             ListDocs(d) \/ DeleteReturns(d) \/ \E x \in todo[d] : DeleteItem(d, x)
      PROVE  IInv'
  BY <1>0, <1>5, DeleteKeepsIInv
<1>6. CASE Tick \/ UNCHANGED vars
  BY <1>0, <1>6
     DEF Tick, vars, container, local, IInv, TodoOK, Undeleted, CountOK, Counted, AckedIsStored
<1>7. QED
  <2>1. ASSUME NEW r \in Renames, CheckOther(r, "update", "read", "failed")
        PROVE  IInv'
    BY <1>2, <2>1 DEF Procs
  <2>2. ASSUME NEW g \in Reads, CheckOther(g, "get", "fetch", "get")
        PROVE  IInv'
    BY <1>2, <2>2 DEF Procs
  <2>3. ASSUME NEW d \in Deletes, CheckOther(d, "delete", "list", "failed")
        PROVE  IInv'
    BY <1>2, <2>3 DEF Procs
  <2>4. QED
    BY <1>1, <1>3, <1>4, <1>5, <1>6, <2>1, <2>2, <2>3 DEF Next

LEMMA IInvAlways == Spec => []IInv
BY InitIInv, NextIInv, PTL DEF Spec

-----------------------------------------------------------------------------
\* append_message creates a document before it patches the counter, and a retry
\* meets its own document as a conflict: message_count never passes the number of
\* documents, whatever fails, is cancelled or is written back late by update.
THEOREM CountStaysBehind == Spec => []CountNeverAhead
<1>1. ASSUME IInv, Undeleted PROVE sess.count <= Cardinality(Messages)
  <2>1. /\ Cardinality(Counted) \in Nat /\ Cardinality(Messages) \in Nat
        /\ Cardinality(Counted) <= Cardinality(Messages)
    BY CountIsMonotonic DEF Counted, Messages
  <2>2. sess.count \in Nat /\ sess.count <= Cardinality(Counted)
    BY <1>1 DEF IInv, Typed, CountOK
  <2>3. QED
    BY <2>1, <2>2
<1>2. IInv => CountNeverAhead
  BY <1>1 DEF CountNeverAhead
<1>3. QED
  BY IInvAlways, <1>2, PTL

\* An answer whose upsert_item returned is in the store as final, and no retry, late
\* placeholder or rename takes it away while nobody deletes the session.
THEOREM AcknowledgedIsStored == Spec => []AckedIsStored
<1>1. IInv => AckedIsStored
  BY DEF IInv
<1>2. QED
  BY IInvAlways, <1>1, PTL

-----------------------------------------------------------------------------
(* The types: how far message_count can get *)

\* A turn patches the counter at most once in each attempt of append_message.
Early == {"append", "create", "patch"}
Slots == Turns \X (0 .. MaxRetries)
Used == {s \in Slots : pc[s[1]] \notin Early \/ s[2] < attempt[s[1]]}

AttemptsOK == attempt \in [Turns -> 0 .. MaxRetries]
CountsOK ==
    /\ sess.count <= Cardinality(Used)
    /\ \A r \in Renames : snap[r].count <= Cardinality(Used)
CountedOK == AttemptsOK /\ CountsOK

StoreInv ==
    /\ AttemptsOK /\ CountsOK
    /\ BreakerTypeOK /\ outage \in 0 .. Threshold

LEMMA SlotsAreBounded ==
    /\ Cardinality(Slots) = Cardinality(Turns) * (MaxRetries + 1)
    /\ \A S \in SUBSET Slots : /\ IsFiniteSet(S) /\ Cardinality(S) \in Nat
                               /\ Cardinality(S) <= Cardinality(Turns) * (MaxRetries + 1)
<1>1. IsFiniteSet(Turns) /\ MaxRetries \in Nat
  BY StoreAssumption
<1>2. IsFiniteSet(0 .. MaxRetries) /\ Cardinality(0 .. MaxRetries) = MaxRetries + 1
  BY <1>1, FS_Interval
<1>3. IsFiniteSet(Slots) /\ Cardinality(Slots) = Cardinality(Turns) * (MaxRetries + 1)
  BY <1>1, <1>2, FS_Product DEF Slots
<1>4. ASSUME NEW S \in SUBSET Slots
      PROVE  /\ IsFiniteSet(S) /\ Cardinality(S) \in Nat
             /\ Cardinality(S) <= Cardinality(Turns) * (MaxRetries + 1)
  BY <1>3, FS_Subset, FS_CardinalityType
<1>5. QED
  BY <1>3, <1>4

\* The slots that are used stay used: a turn never goes back to an earlier attempt
\* of its placeholder.
TurnsGoOn ==
    \A t \in Turns : \/ pc'[t] \notin Early
                     \/ pc[t] \in Early /\ attempt[t] <= attempt'[t]

LEMMA UsedGrows ==
    ASSUME AttemptsOK, AttemptsOK', TurnsGoOn
    PROVE  Used \subseteq Used'
<1>1. ASSUME NEW t \in Turns, NEW k \in 0 .. MaxRetries, pc[t] \notin Early \/ k < attempt[t]
      PROVE  pc'[t] \notin Early \/ k < attempt'[t]
  BY <1>1, StoreAssumption DEF AttemptsOK, TurnsGoOn
<1>2. QED
  BY <1>1 DEF Used, Slots

LEMMA UsedCounts ==
    ASSUME AttemptsOK, AttemptsOK', TurnsGoOn
    PROVE  /\ Cardinality(Used) \in Nat /\ Cardinality(Used') \in Nat
           /\ Cardinality(Used) <= Cardinality(Used')
           /\ \A s \in Used' : s \notin Used => Cardinality(Used) + 1 <= Cardinality(Used')
<1>1. Used \in SUBSET Slots /\ Used' \in SUBSET Slots /\ Used \subseteq Used'
  BY UsedGrows DEF Used, Slots
<1>2. IsFiniteSet(Used) /\ IsFiniteSet(Used')
  BY <1>1, SlotsAreBounded
<1>3. /\ Cardinality(Used) \in Nat /\ Cardinality(Used') \in Nat
      /\ Cardinality(Used) <= Cardinality(Used')
  BY <1>1, <1>2, FS_Subset, FS_CardinalityType
<1>4. ASSUME NEW s \in Used', s \notin Used PROVE Cardinality(Used) + 1 <= Cardinality(Used')
  <2>1. Cardinality(Used \cup {s}) = Cardinality(Used) + 1
    BY <1>2, <1>4, FS_AddElement
  <2>2. Used \cup {s} \subseteq Used'
    BY <1>1, <1>4
  <2>3. Cardinality(Used \cup {s}) <= Cardinality(Used')
    BY <1>2, <2>2, FS_Subset
  <2>4. QED
    BY <2>1, <2>3
<1>5. QED
  BY <1>3, <1>4

\* A failed attempt, and a write that is over, move a turn on.
LEMMA RetryMovesOn ==
    ASSUME Typed, AttemptsOK, NEW t \in Turns,
           Retry(t) \/ Written(t, "answer") \/ Written(t, "done")
    PROVE  /\ AttemptsOK' /\ TurnsGoOn
           /\ pc[t] = "patch" => pc'[t] \notin Early \/ attempt[t] < attempt'[t]
<1>1. /\ attempt' \in [Turns -> 0 .. MaxRetries] /\ pc' \in [Procs -> Labels]
      /\ \A u \in Turns \ {t} : attempt'[u] = attempt[u] /\ pc'[u] = pc[u]
      /\ \/ pc'[t] \notin Early
         \/ pc[t] \in Early /\ attempt[t] < attempt'[t]
  BY StoreAssumption DEF Typed, AttemptsOK, Retry, NextAttempt, Written, Goto, Procs, Labels, Early
<1>2. \A u \in Turns : attempt[u] \in Nat
  BY StoreAssumption DEF AttemptsOK
<1>3. QED
  BY <1>1, <1>2 DEF AttemptsOK, TurnsGoOn

LEMMA StaysPut ==
    ASSUME Typed, AttemptsOK, NEW t \in Procs, NEW label,
           Goto(t, label), t \in Turns => pc[t] \in Early, UNCHANGED attempt
    PROVE  AttemptsOK' /\ TurnsGoOn
<1>1. \A u \in Turns : attempt[u] \in Nat
  BY StoreAssumption DEF AttemptsOK
<1>2. QED
  BY <1>1 DEF Typed, AttemptsOK, Goto, TurnsGoOn, Procs

LEMMA GoesElsewhere ==
    ASSUME Typed, AttemptsOK, NEW p \in Procs, NEW label \in Labels \ Early,
           Goto(p, label), UNCHANGED attempt
    PROVE  AttemptsOK' /\ TurnsGoOn
<1>1. \A u \in Turns : attempt[u] \in Nat
  BY StoreAssumption DEF AttemptsOK
<1>2. QED
  BY <1>1 DEF Typed, AttemptsOK, Goto, TurnsGoOn, Procs

LEMMA NothingMoves == ASSUME AttemptsOK, UNCHANGED <<pc, attempt>> PROVE AttemptsOK' /\ TurnsGoOn
<1>1. \A u \in Turns : attempt[u] \in Nat
  BY StoreAssumption DEF AttemptsOK
<1>2. QED
  BY <1>1 DEF AttemptsOK, TurnsGoOn

LEMMA TurnMovesOn ==
    ASSUME Typed, AttemptsOK, NEW t \in Turns, TurnStep(t)
    PROVE  /\ AttemptsOK' /\ TurnsGoOn /\ snap' = snap
           /\ \/ sess' = sess
              \/ /\ sess' = Increment
                 /\ pc[t] = "patch" /\ (pc'[t] \notin Early \/ attempt[t] < attempt'[t])
<1>0. t \in Procs
  BY DEF Procs
<1>1. CASE CheckTurn(t)
  <2>1. sess' = sess /\ snap' = snap
    BY <1>1 DEF CheckTurn, container
  <2>2. CASE Retry(t)
    BY <2>1, <2>2, RetryMovesOn
  <2>3. CASE pc[t] = "append" /\ Goto(t, "create") /\ UNCHANGED attempt
    BY <1>0, <2>1, <2>3, StaysPut DEF Early
  <2>4. CASE pc[t] = "answer" /\ Goto(t, "upsert") /\ UNCHANGED attempt
    BY <1>0, <2>1, <2>4, GoesElsewhere DEF Early, Labels
  <2>5. QED
    BY <1>1, <2>2, <2>3, <2>4 DEF CheckTurn
<1>2. CASE Create(t)
  <2>1. sess' = sess /\ snap' = snap /\ pc[t] = "create"
    BY <1>2 DEF Create
  <2>2. CASE Retry(t)
    BY <2>1, <2>2, RetryMovesOn
  <2>3. CASE Goto(t, "patch") /\ UNCHANGED attempt
    BY <1>0, <2>1, <2>3, StaysPut DEF Early
  <2>4. QED
    BY <1>2, <2>2, <2>3 DEF Create
<1>3. CASE Patch(t)
  <2>1. /\ sess' \in {sess, Increment} /\ snap' = snap /\ pc[t] = "patch"
        /\ Retry(t) \/ Written(t, "answer")
    BY <1>3 DEF Patch
  <2>2. QED
    BY <2>1, RetryMovesOn
<1>4. CASE Upsert(t)
  BY <1>4, RetryMovesOn DEF Upsert
<1>5. CASE Cancel(t)
  <2>1. snap' = snap /\ (Written(t, "answer") \/ Written(t, "done"))
    BY <1>5 DEF Cancel
  <2>2. sess' = sess \/ (pc[t] = "patch" /\ sess' = Increment)
    BY <1>5 DEF Cancel
  <2>3. QED
    BY <2>1, <2>2, RetryMovesOn
<1>6. QED
  BY <1>1, <1>2, <1>3, <1>4, <1>5 DEF TurnStep

\* The steps that are no turn's: nothing is counted, what is written was read before.
LEMMA OthersKeepCounts ==
    ASSUME Typed, CountsOK, AttemptsOK, AttemptsOK', TurnsGoOn,
           sess' \in {sess, Absent} \/ \E r \in Renames : sess' = [exists |-> TRUE, count |-> snap[r].count],
           snap' = snap \/ \E r \in Renames : \E s \in {sess, Absent} : snap' = [snap EXCEPT ![r] = s]
    PROVE  CountsOK'
<1>1. /\ Cardinality(Used) \in Nat /\ Cardinality(Used') \in Nat
      /\ Cardinality(Used) <= Cardinality(Used')
  BY UsedCounts
<1>2. Absent.count = 0 /\ sess.count \in Nat /\ \A r \in Renames : snap[r].count \in Nat
  BY DEF Absent, Typed
<1>3. sess'.count <= Cardinality(Used')
  BY <1>1, <1>2 DEF CountsOK
<1>4. ASSUME NEW r \in Renames PROVE snap'[r].count <= Cardinality(Used')
  <2>1. snap'[r] \in {snap[r], sess, Absent}
    BY DEF Typed
  <2>2. QED
    BY <1>1, <1>2, <2>1 DEF CountsOK
<1>5. QED
  BY <1>3, <1>4 DEF CountsOK

LEMMA TurnsKeepCounts ==
    ASSUME Typed, AttemptsOK, CountsOK, NEW t \in Turns, TurnStep(t)
    PROVE  AttemptsOK' /\ CountsOK'
<1>1. /\ AttemptsOK' /\ TurnsGoOn /\ snap' = snap
      /\ \/ sess' = sess
         \/ /\ sess' = Increment
            /\ pc[t] = "patch" /\ (pc'[t] \notin Early \/ attempt[t] < attempt'[t])
  BY TurnMovesOn
<1>2. CASE sess' = sess
  BY <1>1, <1>2, OthersKeepCounts
<1>3. CASE sess' = Increment /\ pc[t] = "patch" /\ (pc'[t] \notin Early \/ attempt[t] < attempt'[t])
  <2> DEFINE slot == <<t, attempt[t]>>
  <2>1. attempt[t] \in 0 .. MaxRetries
    BY DEF AttemptsOK
  <2>2. slot \in Slots /\ slot[1] = t /\ slot[2] = attempt[t]
    BY <2>1 DEF Slots
  <2>3. slot \in Used' /\ slot \notin Used
    BY <1>3, <2>1, <2>2 DEF Used, Early
  <2>4. /\ Cardinality(Used) \in Nat /\ Cardinality(Used') \in Nat
        /\ Cardinality(Used) + 1 <= Cardinality(Used')
    BY <1>1, <2>3, UsedCounts
  <2>5. sess'.count = sess.count + 1 /\ sess.count \in Nat
    BY <1>3 DEF Increment, Typed
  <2>6. QED
    BY <1>1, <2>4, <2>5 DEF CountsOK, Typed
<1>4. QED
  BY <1>1, <1>2, <1>3

\* The breaker and the failures of the outage keep their types whatever a call reports.
LEMMA BreakerKeepsType ==
    ASSUME BreakerTypeOK, outage \in 0 .. Threshold,
           \/ (Admit \/ UNCHANGED breaker \/ Elapse) /\ UNCHANGED outage
           \/ Ok \/ Refused \/ Down
    PROVE  BreakerTypeOK' /\ outage' \in 0 .. Threshold
<1>1. CASE (Admit \/ UNCHANGED breaker) /\ UNCHANGED outage
  BY <1>1 DEF Admit, AdmitClosed, AdmitProbe, breaker, BreakerTypeOK
<1>2. CASE Elapse /\ UNCHANGED outage
  BY <1>2, BreakerAssumption DEF Elapse, BreakerTypeOK
<1>3. CASE Ok
  BY <1>3, BreakerAssumption DEF Ok, RecordSuccess, BreakerTypeOK
<1>4. CASE Refused \/ Down
  <2>1. RecordFailure /\ outage' \in {outage, Smaller(outage + 1, Threshold)}
    BY <1>4 DEF Refused, Down
  <2>2. outage' \in 0 .. Threshold
    BY <2>1, BreakerAssumption DEF Smaller
  <2>3. failures' \in 0 .. Threshold
    BY <2>1, BreakerAssumption DEF RecordFailure, Smaller, BreakerTypeOK
  <2>4. cooldown' \in BaseCooldown .. MaxCooldown
    BY <2>1, BreakerAssumption DEF RecordFailure, Smaller, BreakerTypeOK
  <2>5. wait' \in 0 .. MaxCooldown
    BY <2>1, <2>4, BreakerAssumption DEF RecordFailure, BreakerTypeOK
  <2>6. QED
    BY <2>1, <2>2, <2>3, <2>4, <2>5 DEF RecordFailure, BreakerTypeOK
<1>5. QED
  BY <1>1, <1>2, <1>3, <1>4

LEMMA NextReports ==
    ASSUME [Next]_vars
    PROVE  \/ (Admit \/ UNCHANGED breaker \/ Elapse) /\ UNCHANGED outage
           \/ Ok \/ Refused \/ Down
<1>1. ASSUME NEW t \in Turns, TurnStep(t)
      PROVE  ((Admit \/ UNCHANGED breaker) /\ UNCHANGED outage) \/ Ok \/ Refused \/ Down
  BY <1>1 DEF TurnStep, CheckTurn, Create, Patch, Upsert, Cancel
<1>2. ASSUME NEW p, NEW label, NEW admitted, NEW rejected, CheckOther(p, label, admitted, rejected)
      PROVE  (Admit \/ UNCHANGED breaker) /\ UNCHANGED outage
  BY <1>2 DEF CheckOther
<1>3. ASSUME NEW r \in Renames, ReadForUpdate(r) \/ WriteUpdate(r)
      PROVE  UNCHANGED <<breaker, outage>> \/ Ok \/ Down
  BY <1>3 DEF ReadForUpdate, WriteUpdate
<1>4. ASSUME NEW g \in Reads, Fetch(g) \/ Query(g)
      PROVE  UNCHANGED <<breaker, outage>> \/ Ok \/ Down
  BY <1>4 DEF Fetch, Query
<1>5. ASSUME NEW d \in Deletes,
             ListDocs(d) \/ DeleteReturns(d) \/ \E x \in todo[d] : DeleteItem(d, x)
      PROVE  UNCHANGED <<breaker, outage>> \/ Ok \/ Refused \/ Down
  BY <1>5 DEF ListDocs, DeleteReturns, DeleteItem
<1>6. CASE Tick \/ UNCHANGED vars
  BY <1>6 DEF Tick, vars
<1>7. QED
  BY <1>1, <1>2, <1>3, <1>4, <1>5, <1>6 DEF Next

LEMMA InitStoreInv == Init => StoreInv
<1> SUFFICES ASSUME Init PROVE StoreInv
  OBVIOUS
<1>1. BreakerTypeOK /\ outage \in 0 .. Threshold
  BY BreakerAssumption DEF Init, BreakerInit, BreakerTypeOK
<1>2. AttemptsOK
  BY StoreAssumption DEF Init, AttemptsOK
<1>3. Cardinality(Used) \in Nat
  BY SlotsAreBounded DEF Used
<1>4. CountsOK
  BY <1>3 DEF Init, CountsOK, Absent
<1>5. QED
  BY <1>1, <1>2, <1>4 DEF StoreInv

LEMMA NextStoreInv == IInv /\ StoreInv /\ [Next]_vars => StoreInv'
<1> SUFFICES ASSUME IInv, StoreInv, [Next]_vars PROVE StoreInv'
  OBVIOUS
<1>0. Typed /\ AttemptsOK /\ CountsOK
  BY DEF IInv, StoreInv
<1>1. BreakerTypeOK' /\ outage' \in 0 .. Threshold
  BY NextReports, BreakerKeepsType DEF StoreInv
<1>2. ASSUME NEW t \in Turns, TurnStep(t)
      PROVE  CountedOK'
  BY <1>0, <1>2, TurnsKeepCounts DEF CountedOK
<1>3. ASSUME NEW p \in Procs, NEW label, NEW admitted \in Labels \ Early,
             NEW rejected \in Labels \ Early, CheckOther(p, label, admitted, rejected)
      PROVE  CountedOK'
  <2>1. PICK next \in Labels \ Early : Goto(p, next)
    BY <1>3 DEF CheckOther
  <2>2. UNCHANGED <<sess, snap, attempt>>
    BY <1>3 DEF CheckOther, container, local
  <2>3. AttemptsOK' /\ TurnsGoOn
    BY <1>0, <2>1, <2>2, GoesElsewhere
  <2>4. QED
    BY <1>0, <2>2, <2>3, OthersKeepCounts DEF CountedOK
<1>4. ASSUME NEW r \in Renames, ReadForUpdate(r)
      PROVE  CountedOK'
  <2>1. PICK next \in Labels \ Early : Goto(r, next)
    BY <1>4 DEF ReadForUpdate, Labels, Early
  <2>2. UNCHANGED <<sess, attempt>> /\ r \in Procs
    BY <1>4 DEF ReadForUpdate, container, Procs
  <2>3. AttemptsOK' /\ TurnsGoOn
    BY <1>0, <2>1, <2>2, GoesElsewhere
  <2>4. snap' = snap \/ \E s \in {sess, Absent} : snap' = [snap EXCEPT ![r] = s]
    BY <1>4 DEF ReadForUpdate
  <2>5. QED
    BY <1>0, <2>2, <2>3, <2>4, OthersKeepCounts DEF CountedOK
<1>5. ASSUME NEW r \in Renames, WriteUpdate(r)
      PROVE  CountedOK'
  <2>1. PICK next \in Labels \ Early : Goto(r, next)
    BY <1>5 DEF WriteUpdate, Labels, Early
  <2>2. UNCHANGED <<snap, attempt>> /\ r \in Procs
    BY <1>5 DEF WriteUpdate, local, Procs
  <2>3. AttemptsOK' /\ TurnsGoOn
    BY <1>0, <2>1, <2>2, GoesElsewhere
  <2>4. sess' = sess \/ sess' = [exists |-> TRUE, count |-> snap[r].count]
    BY <1>5 DEF WriteUpdate
  <2>5. QED
    BY <1>0, <2>2, <2>3, <2>4, OthersKeepCounts DEF CountedOK
<1>6. ASSUME NEW g \in Reads, Fetch(g) \/ Query(g)
      PROVE  CountedOK'
  <2>1. PICK next \in Labels \ Early : Goto(g, next)
    BY <1>6 DEF Fetch, Query, Labels, Early
  <2>2. UNCHANGED <<sess, snap, attempt>> /\ g \in Procs
    BY <1>6 DEF Fetch, Query, container, local, Procs
  <2>3. AttemptsOK' /\ TurnsGoOn
    BY <1>0, <2>1, <2>2, GoesElsewhere
  <2>4. QED
    BY <1>0, <2>2, <2>3, OthersKeepCounts DEF CountedOK
<1>7. ASSUME NEW d \in Deletes,
             ListDocs(d) \/ DeleteReturns(d) \/ \E x \in todo[d] : DeleteItem(d, x)
      PROVE  CountedOK'
  <2>1. UNCHANGED pc \/ \E next \in Labels \ Early : Goto(d, next)
    BY <1>7 DEF ListDocs, DeleteReturns, DeleteItem, Labels, Early
  <2>2. /\ UNCHANGED <<snap, attempt>> /\ d \in Procs
        /\ sess' \in {sess, Absent}
    BY <1>7 DEF ListDocs, DeleteReturns, DeleteItem, Remove, container, local, Procs
  <2>3. AttemptsOK' /\ TurnsGoOn
    BY <1>0, <2>1, <2>2, GoesElsewhere, NothingMoves
  <2>4. QED
    BY <1>0, <2>2, <2>3, OthersKeepCounts DEF CountedOK
<1>8. ASSUME Tick \/ UNCHANGED vars PROVE CountedOK'
  <2>1. UNCHANGED <<sess, snap, pc, attempt>>
    BY <1>8 DEF Tick, vars, container, local
  <2>2. AttemptsOK' /\ TurnsGoOn
    BY <1>0, <2>1, NothingMoves
  <2>3. sess' = sess /\ snap' = snap
    BY <2>1
  <2>4. CountsOK'
    BY <1>0, <2>2, <2>3, OthersKeepCounts
  <2>5. QED
    BY <2>2, <2>4 DEF CountedOK
<1>9. CountedOK'
  <2>1. ASSUME NEW r \in Renames, CheckOther(r, "update", "read", "failed")
        PROVE  CountedOK'
    BY <1>3, <2>1 DEF Procs, Labels, Early
  <2>2. ASSUME NEW g \in Reads, CheckOther(g, "get", "fetch", "get")
        PROVE  CountedOK'
    BY <1>3, <2>2 DEF Procs, Labels, Early
  <2>3. ASSUME NEW d \in Deletes, CheckOther(d, "delete", "list", "failed")
        PROVE  CountedOK'
    BY <1>3, <2>3 DEF Procs, Labels, Early
  <2>4. QED
    BY <1>2, <1>4, <1>5, <1>6, <1>7, <1>8, <2>1, <2>2, <2>3 DEF Next
<1>10. QED
  BY <1>1, <1>9 DEF StoreInv, CountedOK

\* However often append_message is retried, its document deleted in between, and its
\* count written back by a late update, message_count stays below one for each attempt
\* of each turn; and the store's other types.
THEOREM StoreTypeCorrect == Spec => []TypeOK
<1>1. ASSUME IInv, StoreInv PROVE TypeOK
  <2>1. /\ Cardinality(Used) \in Nat /\ Cardinality(Turns) * (MaxRetries + 1) \in Nat
        /\ Cardinality(Used) <= Cardinality(Turns) * (MaxRetries + 1)
    <3>1. Used \in SUBSET Slots /\ Slots \in SUBSET Slots
      BY DEF Used
    <3>2. QED
      BY <3>1, SlotsAreBounded
  <2> DEFINE most == Cardinality(Turns) * (MaxRetries + 1)
  <2>2. ASSUME NEW s \in [exists : BOOLEAN, count : Nat], s.count <= Cardinality(Used)
        PROVE  s \in SessionDocs
    <3>1. s.count \in 0 .. most
      BY <2>1, <2>2
    <3>2. QED
      BY <3>1 DEF SessionDocs
  <2>3. sess \in SessionDocs
    BY <1>1, <2>2 DEF IInv, Typed, StoreInv, CountsOK
  <2>4. \A r \in Renames : snap[r] \in SessionDocs
    BY <1>1, <2>2 DEF IInv, Typed, StoreInv, CountsOK
  <2>5. snap \in [Renames -> SessionDocs]
    BY <1>1, <2>4 DEF IInv, Typed
  <2>6. QED
    BY <1>1, <2>3, <2>5 DEF IInv, Typed, Labels, StoreInv, AttemptsOK, TypeOK
<1>2. QED
  BY <1>1, IInvAlways, InitStoreInv, NextStoreInv, PTL DEF Spec

-----------------------------------------------------------------------------
(* The breaker *)

BreakerInv == CallsTypeOK /\ ClosedIsReset /\ HalfOpenHasProbe

LEMMA SmallerFacts ==
    \A a, b \in Int : /\ Smaller(a, b) \in {a, b}
                      /\ Smaller(a, b) <= a /\ Smaller(a, b) <= b
BY DEF Smaller

\* Whatever its state, a breaker that is told of a success is reset unless it is open.
LEMMA SuccessFacts ==
    ASSUME BreakerTypeOK, ClosedIsReset, RecordSuccess
    PROVE  BreakerTypeOK' /\ ClosedIsReset' /\ state' # "half_open"
BY BreakerAssumption DEF BreakerTypeOK, ClosedIsReset, RecordSuccess

\* A failure leaves the breaker closed below the threshold, or open.
LEMMA FailureFacts ==
    ASSUME BreakerTypeOK, ClosedIsReset, RecordFailure
    PROVE  BreakerTypeOK' /\ ClosedIsReset' /\ state' # "half_open"
<1>1. failures' \in 0 .. Threshold /\ (failures' # Threshold => failures' < Threshold)
  BY SmallerFacts, BreakerAssumption DEF BreakerTypeOK, RecordFailure
<1>2. cooldown' \in BaseCooldown .. MaxCooldown
  BY SmallerFacts, BreakerAssumption DEF BreakerTypeOK, RecordFailure, Smaller
<1>3. state' \in {"closed", "open"}
  BY DEF BreakerTypeOK, RecordFailure
<1>4. wait' \in 0 .. MaxCooldown
  BY <1>2, BreakerAssumption DEF BreakerTypeOK, RecordFailure
<1>5. state' = "closed" => failures' < Threshold /\ cooldown' = BaseCooldown
  BY <1>1 DEF RecordFailure, ClosedIsReset
<1>6. QED
  BY <1>1, <1>2, <1>3, <1>4, <1>5 DEF BreakerTypeOK, ClosedIsReset, RecordFailure

LEMMA InitBreakerInv == CallsInit => BreakerInv
BY BreakerAssumption
   DEF CallsInit, BreakerInit, BreakerInv, CallsTypeOK, BreakerTypeOK, ClosedIsReset, HalfOpenHasProbe

LEMMA NextBreakerInv == BreakerInv /\ [CallsNext]_callVars => BreakerInv'
<1> SUFFICES ASSUME BreakerInv, [CallsNext]_callVars PROVE BreakerInv'
  OBVIOUS
<1> USE BreakerAssumption DEF BreakerInv
<1>1. ASSUME NEW c \in Calls, Begin(c)
      PROVE  BreakerInv'
  <2>1. CallsTypeOK'
    BY <1>1 DEF Begin, AdmitClosed, AdmitProbe, CallsTypeOK, BreakerTypeOK, breaker
  <2>2. ClosedIsReset' /\ HalfOpenHasProbe'
    <3>1. CASE AdmitClosed
      BY <1>1, <3>1 DEF AdmitClosed, Begin, ClosedIsReset, HalfOpenHasProbe, breaker
    <3>2. CASE AdmitProbe /\ call' = [call EXCEPT ![c] = "probe"]
      BY <3>2 DEF AdmitProbe, CallsTypeOK, ClosedIsReset, HalfOpenHasProbe
    <3>3. QED
      BY <1>1, <3>1, <3>2 DEF Begin
  <2>3. QED
    BY <2>1, <2>2
<1>2. ASSUME NEW c \in Calls, Succeed(c)
      PROVE  BreakerInv'
  BY <1>2, SuccessFacts DEF Succeed, CallsTypeOK, HalfOpenHasProbe
<1>3. ASSUME NEW c \in Calls, Fail(c)
      PROVE  BreakerInv'
  BY <1>3, FailureFacts DEF Fail, CallsTypeOK, HalfOpenHasProbe
<1>4. CASE CooldownElapses
  BY <1>4 DEF CooldownElapses, Elapse, CallsTypeOK, BreakerTypeOK, ClosedIsReset, HalfOpenHasProbe
<1>5. CASE ResetByHand
  BY <1>5 DEF ResetByHand, Reset, CallsTypeOK, BreakerTypeOK, ClosedIsReset, HalfOpenHasProbe
<1>6. CASE Outage
  BY <1>6 DEF Outage, breaker, CallsTypeOK, BreakerTypeOK, ClosedIsReset, HalfOpenHasProbe
<1>7. CASE UNCHANGED callVars
  BY <1>7 DEF callVars, breaker, CallsTypeOK, BreakerTypeOK, ClosedIsReset, HalfOpenHasProbe
<1>8. QED
  BY <1>1, <1>2, <1>3, <1>4, <1>5, <1>6, <1>7 DEF CallsNext

LEMMA BreakerInvAlways == CallsSpec => []BreakerInv
BY InitBreakerInv, NextBreakerInv, PTL DEF CallsSpec

\* The cooldown stays between its base and its cap however often it doubles, and
\* the other variables of record_failure, record_success and is_open keep their types.
THEOREM TypeCorrect == CallsSpec => []CallsTypeOK
<1>1. BreakerInv => CallsTypeOK
  BY DEF BreakerInv
<1>2. QED
  BY BreakerInvAlways, <1>1, PTL

\* However late results arrive at record_success and record_failure, a closed
\* breaker has no failures of its last outage to count and no backoff.
THEOREM ClosedForgets == CallsSpec => []ClosedIsReset
<1>1. BreakerInv => ClosedIsReset
  BY DEF BreakerInv
<1>2. QED
  BY BreakerInvAlways, <1>1, PTL

\* While is_open() turns callers away in HALF_OPEN, a probe is in flight, provided
\* every call site reports its result.
THEOREM HalfOpenIsOccupied == CallsSpec => []HalfOpenHasProbe
<1>1. BreakerInv => HalfOpenHasProbe
  BY DEF BreakerInv
<1>2. QED
  BY BreakerInvAlways, <1>1, PTL
=============================================================================
