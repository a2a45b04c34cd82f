---------------------------- MODULE CosmosStore ----------------------------
(***************************************************************************)
(* One session in the Cosmos store (services/session_store/cosmos.py): its *)
(* session document with the denormalized message_count, its message       *)
(* documents, and the store methods of concurrent requests, each a series  *)
(* of awaited container calls between _check_breaker and _record_ok or     *)
(* _record_fail.  Turns write through _store_with_retry                    *)
(* (services/conversation/_lifecycle.py).  Cosmos itself is external: a    *)
(* call answers, or fails with or without its effect.                      *)
(***************************************************************************)
EXTENDS CircuitBreaker, FiniteSets

CONSTANTS Turns,       \* assistant messages: append_message, later update_message
          Renames,     \* calls of update
          Reads,       \* clients that call get
          Deletes,     \* calls of delete
          SessionDoc,  \* the id of the session document
          MaxRetries,  \* max_retries of _store_with_retry
          Faults,      \* container calls may fail
          Cancels      \* a client may disconnect while its turn writes

ASSUME StoreAssumption ==
    /\ MaxRetries \in Nat
    /\ {Faults, Cancels} \subseteq BOOLEAN
    /\ IsFiniteSet(Turns)
    /\ SessionDoc \notin Turns

VARIABLES
    sess,     \* the session document: does it exist, and its message_count
    docs,     \* docs[t]: the message document of t
    pc,       \* the next thing each call does
    attempt,  \* attempt number in _store_with_retry
    snap,     \* snap[r]: the session document update has read
    todo,     \* todo[d]: documents whose delete_item is under way
    acked,    \* turns whose update_message returned
    outage    \* failures of Cosmos since the last success, up to Threshold

Procs == Turns \cup Renames \cup Reads \cup Deletes

container == <<sess, docs>>
local     == <<attempt, snap, todo, acked>>
vars      == <<breaker, container, pc, local, outage>>

SessionDocs == [exists : BOOLEAN, count : 0 .. Cardinality(Turns) * (MaxRetries + 1)]

Absent == [exists |-> FALSE, count |-> 0]

TypeOK ==
    /\ BreakerTypeOK
    /\ sess \in SessionDocs
    /\ docs \in [Turns -> {"absent", "streaming", "final"}]
    /\ pc \in [Procs -> {"append", "create", "patch", "answer", "upsert", "done",
                         "update", "read", "write", "get", "fetch", "query",
                         "delete", "list", "deleting", "deleted", "failed"}]
    /\ attempt \in [Turns -> 0 .. MaxRetries]
    /\ snap \in [Renames -> SessionDocs]
    /\ todo \in [Deletes -> SUBSET (Turns \cup {SessionDoc})]
    /\ acked \in SUBSET Turns
    /\ outage \in 0 .. Threshold

Init ==
    /\ BreakerInit
    /\ sess = [exists |-> TRUE, count |-> 0]
    /\ docs = [t \in Turns |-> "absent"]
    /\ pc = [p \in Procs |-> CASE p \in Turns -> "append" [] p \in Renames -> "update"
                               [] p \in Reads -> "get" [] p \in Deletes -> "delete"]
    /\ attempt = [t \in Turns |-> 0]
    /\ snap = [r \in Renames |-> Absent]
    /\ todo = [d \in Deletes |-> {}]
    /\ acked = {}
    /\ outage = 0

Goto(p, label) == pc' = [pc EXCEPT ![p] = label]

\* _check_breaker lets the call through.
Admit == AdmitClosed \/ AdmitProbe

\* _record_ok.
Ok == RecordSuccess /\ outage' = 0

\* _record_fail for an answer that is no outage: a conflict or a missing document.
Refused == RecordFailure /\ UNCHANGED outage

\* _record_fail for a failure of Cosmos.
Down == Faults /\ RecordFailure /\ outage' = Smaller(outage + 1, Threshold)

-----------------------------------------------------------------------------
(* A turn: append_message of the placeholder, update_message of the answer. *)

\* A mutated form of NextAttempt: the retries have no end.
NextAttemptForever(t, again, next) == Goto(t, again) /\ UNCHANGED attempt

\* An attempt has failed: again after the sleep, or the write is given up and the
\* turn goes on without it.
NextAttempt(t, again, next) ==
    \/ /\ attempt[t] < MaxRetries
       /\ attempt' = [attempt EXCEPT ![t] = @ + 1]
       /\ Goto(t, again)
    \/ /\ attempt[t] = MaxRetries
       /\ attempt' = [attempt EXCEPT ![t] = 0]
       /\ Goto(t, next)

Retry(t) == IF pc[t] \in {"append", "create", "patch"}
              THEN NextAttempt(t, "append", "answer")
              ELSE NextAttempt(t, "answer", "done")

Written(t, next) == Goto(t, next) /\ attempt' = [attempt EXCEPT ![t] = 0]

CheckTurn(t) ==
    /\ pc[t] \in {"append", "answer"}
    /\ \/ /\ Admit
          /\ Goto(t, IF pc[t] = "append" THEN "create" ELSE "upsert")
          /\ UNCHANGED attempt
       \/ /\ IsOpen
          /\ Retry(t)
          /\ UNCHANGED breaker
    /\ UNCHANGED <<container, snap, todo, acked, outage>>

\* create_item: a document with this id is a conflict.
Create(t) ==
    /\ pc[t] = "create"
    /\ \/ /\ docs[t] = "absent"
          /\ docs' = [docs EXCEPT ![t] = "streaming"]
          /\ Goto(t, "patch")
          /\ UNCHANGED <<breaker, attempt, outage>>
       \/ /\ docs[t] # "absent"
          /\ Refused /\ Retry(t)
          /\ UNCHANGED docs
       \/ /\ Down /\ Retry(t)
          /\ docs' \in {docs, [docs EXCEPT ![t] = IF @ = "absent" THEN "streaming" ELSE @]}
    /\ UNCHANGED <<sess, snap, todo, acked>>

\* A mutated form of Increment: both counters of a message go to one field.
IncrementTwice == [sess EXCEPT !.count = @ + 2]

Increment == [sess EXCEPT !.count = @ + 1]

\* patch_item with "incr": atomic, but a call of its own.
Patch(t) ==
    /\ pc[t] = "patch"
    /\ \/ /\ sess.exists
          /\ sess' = Increment
          /\ Ok /\ Written(t, "answer")
       \/ /\ ~sess.exists
          /\ Refused /\ Retry(t)
          /\ UNCHANGED sess
       \/ /\ Down /\ Retry(t)
          /\ sess' \in {sess} \cup (IF sess.exists THEN {Increment} ELSE {})
    /\ UNCHANGED <<docs, snap, todo, acked>>

\* A mutated form of UpsertDoc: only a document that is there is written.
UpsertDocReplaces(t) ==
    docs' = [docs EXCEPT ![t] = IF @ = "absent" THEN @ ELSE "final"]

UpsertDoc(t) == docs' = [docs EXCEPT ![t] = "final"]

\* upsert_item of the final message.
Upsert(t) ==
    /\ pc[t] = "upsert"
    /\ \/ /\ UpsertDoc(t)
          /\ Ok /\ Written(t, "done")
          /\ acked' = acked \cup {t}
       \/ /\ Down /\ Retry(t)
          /\ UpsertDoc(t) \/ UNCHANGED docs
          /\ UNCHANGED acked
    /\ UNCHANGED <<sess, snap, todo>>

\* The task is cancelled in a container call: CancelledError passes every except
\* clause, so neither the breaker nor the retry loop learns of it.  After a
\* cancelled append the turn finalizes as ABORTED.
Cancel(t) ==
    /\ Cancels
    /\ \/ /\ pc[t] = "create"
          /\ docs' \in {docs, [docs EXCEPT ![t] = IF @ = "absent" THEN "streaming" ELSE @]}
          /\ Written(t, "answer")
          /\ UNCHANGED sess
       \/ /\ pc[t] = "patch"
          /\ sess' \in {sess} \cup (IF sess.exists THEN {Increment} ELSE {})
          /\ Written(t, "answer")
          /\ UNCHANGED docs
       \/ /\ pc[t] = "upsert"
          /\ UpsertDoc(t) \/ UNCHANGED docs
          /\ Written(t, "done")
          /\ UNCHANGED sess
    /\ UNCHANGED <<breaker, snap, todo, acked, outage>>

-----------------------------------------------------------------------------
(* update, get and delete.                                                  *)

CheckOther(p, label, admitted, rejected) ==
    /\ pc[p] = label
    /\ \/ Admit /\ Goto(p, admitted)
       \/ IsOpen /\ Goto(p, rejected) /\ UNCHANGED breaker
    /\ UNCHANGED <<container, local, outage>>

\* update: read_item, or an empty baseline when there is no document.
ReadForUpdate(r) ==
    /\ pc[r] = "read"
    /\ \/ /\ snap' = [snap EXCEPT ![r] = IF sess.exists THEN sess ELSE Absent]
          /\ Goto(r, "write")
          /\ UNCHANGED <<breaker, outage>>
       \/ Down /\ Goto(r, "failed") /\ UNCHANGED snap
    /\ UNCHANGED <<container, attempt, todo, acked>>

\* update: upsert_item of what was read, with the new title.
WriteUpdate(r) ==
    LET written == [exists |-> TRUE, count |-> snap[r].count]
    IN  /\ pc[r] = "write"
        /\ \/ Ok /\ Goto(r, "done") /\ sess' = written
           \/ Down /\ Goto(r, "failed") /\ sess' \in {sess, written}
        /\ UNCHANGED <<docs, local>>

\* get: read_item of this session, or of an id that is no session any more; a 404
\* returns None without a word to the breaker.
Fetch(g) ==
    /\ pc[g] = "fetch"
    /\ \/ sess.exists /\ Goto(g, "query") /\ UNCHANGED <<breaker, outage>>
       \/ Goto(g, "get") /\ UNCHANGED <<breaker, outage>>
       \/ Down /\ Goto(g, "get")
    /\ UNCHANGED <<container, local>>

\* get: the messages; a failure of this query leaves the method unrecorded.
Query(g) ==
    /\ pc[g] = "query"
    /\ Goto(g, "get")
    /\ \/ Ok
       \/ Faults /\ UNCHANGED <<breaker, outage>>
    /\ UNCHANGED <<container, local>>

\* delete: the ids of the partition.
ListDocs(d) ==
    /\ pc[d] = "list"
    /\ \/ /\ todo' = [todo EXCEPT ![d] = {t \in Turns : docs[t] # "absent"}
                                          \cup {x \in {SessionDoc} : sess.exists}]
          /\ Goto(d, "deleting")
          /\ UNCHANGED <<breaker, outage>>
       \/ Down /\ Goto(d, "failed") /\ UNCHANGED todo
    /\ UNCHANGED <<container, attempt, snap, acked>>

Present(x) == IF x = SessionDoc THEN sess.exists ELSE docs[x] # "absent"

Remove(x) ==
    IF x = SessionDoc THEN sess' = Absent /\ UNCHANGED docs
                      ELSE docs' = [docs EXCEPT ![x] = "absent"] /\ UNCHANGED sess

\* One delete_item of the gather; the first failure ends delete, the rest go on.
DeleteItem(d, x) ==
    /\ x \in todo[d]
    /\ todo' = [todo EXCEPT ![d] = @ \ {x}]
    /\ \/ /\ Present(x)
          /\ Remove(x)
          /\ UNCHANGED <<breaker, pc, outage>>
       \/ /\ ~Present(x) \/ Faults
          /\ Goto(d, "failed")
          /\ IF pc[d] = "failed" THEN UNCHANGED <<breaker, outage>>
             ELSE IF Present(x) THEN Down ELSE Refused
          /\ UNCHANGED container \/ (Present(x) /\ Remove(x))
    /\ UNCHANGED <<attempt, snap, acked>>

DeleteReturns(d) ==
    /\ pc[d] = "deleting"
    /\ todo[d] = {}
    /\ Ok
    /\ Goto(d, "deleted")
    /\ UNCHANGED <<container, local>>

Tick == Elapse /\ UNCHANGED <<container, pc, local, outage>>

TurnStep(t) == CheckTurn(t) \/ Create(t) \/ Patch(t) \/ Upsert(t) \/ Cancel(t)

Next ==
    \/ \E t \in Turns : TurnStep(t)
    \/ \E r \in Renames : \/ CheckOther(r, "update", "read", "failed")
                          \/ ReadForUpdate(r) \/ WriteUpdate(r)
    \/ \E g \in Reads : CheckOther(g, "get", "fetch", "get") \/ Fetch(g) \/ Query(g)
    \/ \E d \in Deletes : \/ CheckOther(d, "delete", "list", "failed")
                          \/ ListDocs(d) \/ DeleteReturns(d)
                          \/ \E x \in todo[d] : DeleteItem(d, x)
    \/ Tick

Spec == Init /\ [][Next]_vars

\* The loop runs every turn; each container call ends, if only with an error.
FairSpec == Spec /\ \A t \in Turns : WF_vars(TurnStep(t))

-----------------------------------------------------------------------------
Undeleted == \A d \in Deletes : pc[d] \in {"delete", "list"}
Messages  == {t \in Turns : docs[t] # "absent"}

\* Retries, conflicts and late renames may leave message_count behind the documents,
\* never ahead of them.
CountNeverAhead == Undeleted => sess.count <= Cardinality(Messages)

\* A final answer that update_message has acknowledged is in the store, whatever
\* became of the placeholder.
AckedIsStored == Undeleted => \A t \in acked : docs[t] = "final"

\* Every turn gets through its writes, however long the outage and whatever the
\* breaker says: the retries are bounded and nothing waits.
WritesEnd == \A t \in Turns : <>(pc[t] = "done")

\* cosmos.py:397, append_message creates the document and patches "session counters
\* atomically"; cosmos.py:13, "patch_item for atomic counter increments": when no
\* write is under way, the counter is right.
CountsMatch ==
    (\A p \in Turns \cup Renames : pc[p] \in {"append", "answer", "update", "done", "failed"})
        /\ (\A t \in Turns : attempt[t] = 0)
      => sess.count = Cardinality(Messages)

\* cosmos.py:105, the breaker "trips after 3 consecutive Cosmos failures".
TripsOnOutage == [][state = "closed" /\ state' = "open" => outage' = Threshold]_vars

\* resilience.py:82, callers of a half-open breaker are rejected "until probe
\* resolves": so there is a call in flight.
ProbeInFlight ==
    state = "half_open" =>
        \E p \in Procs : pc[p] \in {"create", "patch", "upsert", "read", "write",
                                    "fetch", "query", "list", "deleting"}

\* cosmos.py:356, delete removes the "session + all message docs within the partition".
DeletedStaysDeleted ==
    (\E d \in Deletes : pc[d] = "deleted") => Messages = {} /\ ~sess.exists
=============================================================================
