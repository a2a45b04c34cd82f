---------------------------- MODULE UserSeeding ----------------------------
(***************************************************************************)
(* The demo sessions of one user: every list_all of an authenticated user  *)
(* first runs _ensure_user_seeded (session_store/cosmos.py), which clones  *)
(* the __default__ templates (session_store/_user_seeding.py) unless the   *)
(* user is known to be seeded or owns a session; POST reset-defaults       *)
(* (routers/sessions.py) deletes the clones and seeds again.  Requests     *)
(* interleave at every awaited Cosmos call.                                *)
(***************************************************************************)
EXTENDS Integers, FiniteSets

CONSTANTS Lists,      \* GET /api/sessions requests of the user
          Resets,     \* POST /api/sessions/reset-defaults requests
          Templates,  \* _template_ids
          Serial,     \* the client waits for an answer before the next request
          Faults,     \* Cosmos calls fail, or the breaker turns them away
          MaxRestarts \* bound on restarts of the server

ASSUME SeedingAssumption ==
    /\ IsFiniteSet(Lists) /\ IsFiniteSet(Resets) /\ Lists \cap Resets = {}
    /\ {Serial, Faults} \subseteq BOOLEAN
    /\ MaxRestarts \in Nat

VARIABLES
    clones,    \* the clones the user owns: of which template, by which request
    manual,    \* the user owns a session that is no clone
    seeded,    \* the user is in _seeded_users
    pc,        \* where each request is
    todo,      \* todo[p]: clones to persist
    again,     \* again[p]: the reset has deleted and is seeding again
    doomed,    \* doomed[p]: clones the reset is deleting
    restarts

Requests == Lists \cup Resets

requests == <<pc, todo, again, doomed>>
vars == <<clones, manual, seeded, requests, restarts>>

\* Each pass of a request over the templates makes at most one clone of each.
Clones == [of : Templates, by : Requests, again : BOOLEAN]

ClonesOf(t) == {c \in clones : c.of = t}

TypeOK ==
    /\ clones \in SUBSET Clones
    /\ manual \in BOOLEAN
    /\ seeded \in BOOLEAN
    /\ pc \in [Requests -> {"idle", "count", "fetch", "persist", "query", "deleting",
                            "clear", "done"}]
    /\ todo \in [Requests -> SUBSET Templates]
    /\ again \in [Requests -> BOOLEAN]
    /\ doomed \in [Requests -> SUBSET Clones]
    /\ restarts \in 0 .. MaxRestarts

Init ==
    /\ clones = {}
    /\ manual \in BOOLEAN
    /\ seeded = FALSE
    /\ pc = [p \in Requests |-> "idle"]
    /\ todo = [p \in Requests |-> {}]
    /\ again = [p \in Requests |-> FALSE]
    /\ doomed = [p \in Requests |-> {}]
    /\ restarts = 0

Goto(p, label) == pc' = [pc EXCEPT ![p] = label]

Busy == {p \in Requests : pc[p] \notin {"idle", "done"}}

-----------------------------------------------------------------------------
(* _ensure_user_seeded.                                                     *)

\* Where a request goes on when _ensure_user_seeded returns: list_all queries the
\* sessions; a reset that seeds for the second time is done.
Return(p) == Goto(p, IF again[p] THEN "done" ELSE "query")

\* The fast path, and the section under _seed_lock, which awaits nothing: it ends
\* before the count.
Enter(p) ==
    IF seeded \/ Templates = {}
      THEN seeded' = TRUE /\ Return(p)
      ELSE Goto(p, "count") /\ UNCHANGED seeded

\* The breaker turns a list_all away, or a reset raises while it reads the templates;
\* a reset that could read no title has nothing to list or delete.
Start(p) ==
    /\ pc[p] = "idle"
    /\ Serial => Busy = {}
    /\ \/ Enter(p)
       \/ Faults /\ Goto(p, "done") /\ UNCHANGED seeded
       \/ p \in Resets /\ Faults /\ Goto(p, "clear") /\ UNCHANGED seeded
    /\ UNCHANGED <<clones, manual, todo, again, doomed, restarts>>

\* A mutated form of OwnsSessions: the user is asked for by the cache alone.
OwnsSessionsUnknown == FALSE

OwnsSessions == manual \/ clones # {}

\* SELECT VALUE COUNT(1): an owner of any session counts as seeded; a failure
\* skips the seeding.
Count(p) ==
    /\ pc[p] = "count"
    /\ \/ OwnsSessions /\ seeded' = TRUE /\ Return(p)
       \/ ~OwnsSessions /\ Goto(p, "fetch") /\ UNCHANGED seeded
       \/ Faults /\ Return(p) /\ UNCHANGED seeded
    /\ UNCHANGED <<clones, manual, todo, again, doomed, restarts>>

\* clone_templates_for_user: a template whose get returns None, as it does while
\* the breaker rejects, or raises, is passed over.
Fetch(p) ==
    /\ pc[p] = "fetch"
    /\ \E fetched \in SUBSET Templates :
          /\ Faults \/ fetched = Templates
          /\ todo' = [todo EXCEPT ![p] = fetched]
    /\ Goto(p, "persist")
    /\ UNCHANGED <<clones, manual, seeded, again, doomed, restarts>>

AddClone(p, t) == clones' = clones \cup {[of |-> t, by |-> p, again |-> again[p]]}

\* create of one clone; an exception is logged and the next clone comes.
Persist(p) ==
    /\ pc[p] = "persist"
    /\ \E t \in todo[p] :
          /\ todo' = [todo EXCEPT ![p] = @ \ {t}]
          /\ AddClone(p, t) \/ (Faults /\ UNCHANGED clones)
    /\ UNCHANGED <<manual, seeded, pc, again, doomed, restarts>>

\* Every clone has been tried: the user is seeded.
MarkSeeded(p) ==
    /\ pc[p] = "persist"
    /\ todo[p] = {}
    /\ seeded' = TRUE
    /\ Return(p)
    /\ UNCHANGED <<clones, manual, todo, again, doomed, restarts>>

-----------------------------------------------------------------------------
(* What list_all and reset_defaults do besides.                             *)

\* list_all answers; for a reset the sessions with a template's title are picked,
\* or the listing fails and nothing is deleted.
Query(p) ==
    /\ pc[p] = "query"
    /\ \/ /\ p \in Lists
          /\ Goto(p, "done")
          /\ UNCHANGED doomed
       \/ /\ p \in Resets
          /\ Goto(p, "deleting")
          /\ \E titles \in SUBSET Templates :
                /\ Faults \/ titles = Templates
                /\ doomed' = [doomed EXCEPT ![p] = {c \in clones : c.of \in titles}]
       \/ /\ p \in Resets
          /\ Faults
          /\ Goto(p, "clear")
          /\ UNCHANGED doomed
    /\ UNCHANGED <<clones, manual, seeded, todo, again, restarts>>

\* store.delete of one clone, which another reset may have deleted before; the
\* first failure ends the loop.
Delete(p) ==
    /\ pc[p] = "deleting"
    /\ \/ \E c \in doomed[p] :
             /\ doomed' = [doomed EXCEPT ![p] = @ \ {c}]
             /\ clones' = clones \ {c}
             /\ UNCHANGED pc
       \/ /\ Faults \/ doomed[p] = {}
          /\ Goto(p, "clear")
          /\ UNCHANGED <<clones, doomed>>
    /\ UNCHANGED <<manual, seeded, todo, again, restarts>>

\* _seeded_users.discard, then _ensure_user_seeded up to its first await: another
\* request cannot see the user unseeded in between unless the count follows.
Clear(p) ==
    /\ pc[p] = "clear"
    /\ again' = [again EXCEPT ![p] = TRUE]
    /\ IF Templates = {} THEN seeded' = TRUE /\ Goto(p, "done")
                         ELSE seeded' = FALSE /\ Goto(p, "count")
    /\ UNCHANGED <<clones, manual, todo, doomed, restarts>>

\* The user creates or deletes a session of their own.
Manual == manual' = ~manual /\ UNCHANGED <<clones, seeded, requests, restarts>>

\* The process restarts: the cache of seeded users and every request are gone.
Restart ==
    /\ restarts < MaxRestarts
    /\ restarts' = restarts + 1
    /\ seeded' = FALSE
    /\ pc' = [p \in Requests |-> IF p \in Busy THEN "done" ELSE pc[p]]
    /\ todo' = [p \in Requests |-> {}]
    /\ again' = [p \in Requests |-> FALSE]
    /\ doomed' = [p \in Requests |-> {}]
    /\ UNCHANGED <<clones, manual>>

Next ==
    \/ \E p \in Requests : \/ Start(p) \/ Count(p) \/ Fetch(p) \/ Persist(p)
                           \/ MarkSeeded(p) \/ Query(p) \/ Delete(p) \/ Clear(p)
    \/ Manual \/ Restart

Spec == Init /\ [][Next]_vars

-----------------------------------------------------------------------------
\* cosmos.py:102-103, the lock "prevents duplicate demo session creation when two
\* concurrent requests arrive for the same new user".  It holds for a client that
\* waits for its answers, restarts and failed calls included, because the count
\* comes before the clones.
NoDuplicates == \A c, d \in clones : c.of = d.of => c = d

\* Why NoDuplicates holds for such a client: one request at a time is past its
\* count, it found no clone, and it adds one of each template at most.
SeedingInv ==
    Serial =>
        /\ \A p, q \in Busy : p = q
        /\ \A p \in Requests :
              /\ pc[p] = "fetch" => clones = {}
              /\ pc[p] = "persist" => \A t \in todo[p] : ClonesOf(t) = {}

\* cosmos.py:269, "After seeding, user owns copies": whoever is newly marked as
\* seeded, and so never looked at again, owns a session.
SeededOwnsSessions == [][~seeded /\ seeded' /\ Templates # {} => OwnsSessions]_vars

\* sessions.py:343-344, reset "immediately re-clones the templates. The next
\* list_all() will show fresh copies".
ResetRestores ==
    [][\A p \in Resets :
          again[p] /\ pc[p] # "done" /\ pc'[p] = "done"
              => \A t \in Templates : ClonesOf(t) # {}]_vars
=============================================================================
