---------------------------- MODULE SessionsApi ----------------------------
(***************************************************************************)
(* The session endpoints (app/routers/sessions.py) on the in-memory store  *)
(* (services/session_store/memory.py), with the turns of the chat endpoint *)
(* that write to it.  No call of that store suspends, so a handler is one  *)
(* step, and a turn is three: its start, its placeholder and its end.      *)
(* Sessions hand their messages out by reference: a message is a number,   *)
(* the object, and "objects" tells who wrote it.  A saved conversation is  *)
(* a file that becomes a template of every user at the next start.         *)
(***************************************************************************)
EXTENDS Integers, Sequences, FiniteSets

CONSTANTS People,      \* oids of users
          AgentCount,  \* agents of the scenario, in the order of its manifest
          MaxSessions, \* bound: sessions ever made
          MaxObjects,  \* bound: message objects ever made
          MaxSaves,    \* bound: conversations saved
          MaxStarts    \* bound: restarts of the server

ASSUME SessionsAssumption == /\ {"__default__", "app", "template"} \cap People = {}
                             /\ {AgentCount, MaxSessions, MaxObjects, MaxSaves, MaxStarts} \subseteq Nat

AgentIds == 1 .. AgentCount

VARIABLES sessions,  \* _sessions: per id its owner, title and threads
          nextId,    \* ids come from uuid4
          objects,   \* per message object its writer and role
          seededPeople, \* _seeded_users
          saved,     \* saved_conversations: per id title and threads
          talks,     \* per user the turn under way
          saves, starts \* counts, for the bounds

counts == <<saves, starts>>
apiVars == <<sessions, nextId, objects, seededPeople, saved, talks, counts>>

Session(owner, title, threads) == [owner |-> owner, title |-> title, threads |-> threads]
NoTalk == [at |-> "none", session |-> 0, agent |-> 0, message |-> 0]

TemplateIds == {id \in DOMAIN sessions : sessions[id].owner = "__default__"}
Own(user) == {id \in DOMAIN sessions : sessions[id].owner = user}
Dropping(ids) == [id \in (DOMAIN sessions) \ ids |-> sessions[id]]
Written(by, role) == Append(objects, [by |-> by, role |-> role])
Made == Len(objects)

\* The store holds the objects it is given: a new session, a title, a thread with its
\* prompt as message 0, a message at the end of a thread.
With(f, x, v) == [y \in (DOMAIN f) \cup {x} |-> IF y = x THEN v ELSE f[y]]
create(id, session) == With(sessions, id, session)
update(id, title) == [sessions EXCEPT ![id].title = title]
create_thread(threads, a, prompt) == With(threads, a, <<prompt>>)
append_message(threads, a, message) == [threads EXCEPT ![a] = Append(@, message)]

\* _check_ownership lets every user at a template; _check_not_default keeps PATCH and
\* DELETE away from it, and nothing keeps a turn away.
MayUse(user, id) == id \in DOMAIN sessions /\ sessions[id].owner \in {user, "__default__"}
MayChange(user, id) == MayUse(user, id) /\ sessions[id].owner # "__default__"

\* The threads of a set of sessions with every message made anew: the copies, and their
\* objects, in the order of the ids, agents and messages.
SlotsIn(threads, id, a) == {<<id, a, i>> : i \in DOMAIN threads[a]}
SlotsOf(of, id) == UNION {SlotsIn(of[id].threads, id, a) : a \in DOMAIN of[id].threads}
Slots(of) == UNION {SlotsOf(of, id) : id \in DOMAIN of}

Place(s, slots) == Cardinality({t \in slots :
  \/ t[1] < s[1]
  \/ t[1] = s[1] /\ (t[2] < s[2] \/ (t[2] = s[2] /\ t[3] <= s[3]))})

\* Mutated: the clone holds the template's messages.
CopiedShared(of) == of

\* Message(...) and AgentThread(...) of clone_templates_for_user, and what a file parses
\* to: one object after the other.
Copied(of) ==
  [id \in DOMAIN of |->
     [of[id] EXCEPT !.threads =
        [a \in DOMAIN @ |-> [i \in DOMAIN @[a] |-> Made + Place(<<id, a, i>>, Slots(of))]]]]

Copies(of) ==
  /\ Made + Cardinality(Slots(of)) <= MaxObjects
  /\ objects' = objects \o [k \in 1 .. Cardinality(Slots(of)) |->
       LET s == CHOOSE s \in Slots(of) : Place(s, Slots(of)) = k IN
       [by |-> "template", role |-> objects[of[s[1]].threads[s[2]][s[3]]].role]]

(***************************************************************************)
(* Seeding                                                                 *)
(***************************************************************************)
\* Clones get ids of their own, in the order of the templates.
TemplateSessions == [id \in TemplateIds |-> sessions[id]]
Rank(id) == Cardinality({t \in TemplateIds : t <= id})
CloneIds == {nextId + Rank(id) : id \in TemplateIds}
Original(n) == CHOOSE id \in TemplateIds : nextId + Rank(id) = n
ClonesFor(user) ==
  [n \in CloneIds |-> [Copied(TemplateSessions)[Original(n)] EXCEPT !.owner = user]]

\* _ensure_user_seeded: an owner of any session is seeded already.
Seeds(user, kept, seeded) ==
  LET owns == \E id \in DOMAIN kept : kept[id].owner = user
  IN /\ seededPeople' = seeded \cup {user}
     /\ IF user \in seeded \/ TemplateIds = {} \/ owns
        THEN sessions' = kept /\ UNCHANGED <<nextId, objects>>
        ELSE /\ nextId' = nextId + Cardinality(TemplateIds) /\ nextId' <= MaxSessions
             /\ sessions' = [id \in DOMAIN kept \cup CloneIds |->
                               IF id \in DOMAIN kept THEN kept[id] ELSE ClonesFor(user)[id]]
             /\ Copies(TemplateSessions)

ListsSessions(user) == Seeds(user, sessions, seededPeople) /\ UNCHANGED <<saved, talks, counts>>

Doomed(user, titles) == {id \in Own(user) : sessions[id].title \in titles}

\* reset_defaults: what bears a template's title is deleted, and the seeding is done again
\* unless the user still owns a session.  What the list_all before it seeds goes at once.
ResetsDefaults(user) ==
  /\ LET titles == {sessions[id].title : id \in TemplateIds}
     IN Seeds(user, Dropping(Doomed(user, titles)), seededPeople \ {user})
  /\ UNCHANGED <<saved, talks, counts>>

(***************************************************************************)
(* The other endpoints                                                     *)
(***************************************************************************)
\* create, then a thread with its prompt for every agent.
Creates(user) ==
  /\ nextId < MaxSessions /\ Made + AgentCount <= MaxObjects
  /\ nextId' = nextId + 1
  /\ sessions' = create(nextId', Session(user, "new", [a \in AgentIds |-> <<Made + a>>]))
  /\ objects' = objects \o [a \in AgentIds |-> [by |-> "app", role |-> "system"]]
  /\ UNCHANGED <<seededPeople, saved, talks, counts>>

Patches(user, id) ==
  /\ MayChange(user, id)
  /\ \E title \in {"new", "demo"} : sessions' = update(id, title)
  /\ UNCHANGED <<nextId, objects, seededPeople, saved, talks, counts>>

DeletesSession(user, id) ==
  /\ MayChange(user, id) /\ sessions' = Dropping({id})
  /\ UNCHANGED <<nextId, objects, seededPeople, saved, talks, counts>>

\* A file named by the id, which a later save replaces.
SavesSession(user, id) ==
  /\ MayUse(user, id) /\ saves < MaxSaves /\ saves' = saves + 1
  /\ saved' = With(saved, id, sessions[id])
  /\ UNCHANGED <<sessions, nextId, objects, seededPeople, talks, starts>>

(***************************************************************************)
(* A turn                                                                  *)
(***************************************************************************)
\* ensure_thread: the thread is made with its prompt; or a prompt is put before one that
\* has none, into the list the store holds, to which the store's append_message adds it again.
Ensured(threads, a, prompt) ==
  CASE a \notin DOMAIN threads -> create_thread(threads, a, prompt)
    [] a \in DOMAIN threads /\ (threads[a] = <<>> \/ objects[threads[a][1]].role # "system") ->
         append_message([threads EXCEPT ![a] = <<prompt>> \o @], a, prompt)
    [] OTHER -> threads

\* send_message up to its first suspension: the thread, the user's message, the title.
StartsTalk(user, id, a) ==
  /\ talks[user].at = "none" /\ MayUse(user, id)
  /\ LET threads == Ensured(sessions[id].threads, a, Made + 1)
         prompts == IF threads = sessions[id].threads THEN objects ELSE Written("app", "system")
         first == \A i \in DOMAIN threads[a] : prompts[threads[a][i]].role = "system"
     IN /\ Len(prompts) < MaxObjects
        /\ objects' = Append(prompts, [by |-> user, role |-> "user"])
        /\ sessions' = [sessions EXCEPT
             ![id].threads = append_message(threads, a, Len(prompts) + 1),
             ![id].title = IF first THEN "chat" ELSE @]
  /\ talks' = [talks EXCEPT ![user] = [at |-> "started", session |-> id, agent |-> a, message |-> 0]]
  /\ UNCHANGED <<nextId, seededPeople, saved, counts>>

\* begin_response raises for a session that is gone.
BeginsResponse(user) ==
  /\ talks[user].at = "started"
  /\ LET id == talks[user].session IN
     IF id \notin DOMAIN sessions
     THEN talks' = [talks EXCEPT ![user] = NoTalk] /\ UNCHANGED <<sessions, objects>>
     ELSE /\ Made < MaxObjects /\ objects' = Written(user, "assistant")
          /\ sessions' = [sessions EXCEPT
               ![id].threads = append_message(@, talks[user].agent, Made + 1)]
          /\ talks' = [talks EXCEPT ![user].at = "responding", ![user].message = Made + 1]
  /\ UNCHANGED <<nextId, seededPeople, saved, counts>>

\* finalize replaces the message by itself where its id is found, or raises.
EndsTalk(user) ==
  /\ talks[user].at = "responding" /\ talks' = [talks EXCEPT ![user] = NoTalk]
  /\ UNCHANGED <<sessions, nextId, objects, seededPeople, saved, counts>>

\* load_saved into an empty store: what was saved is everybody's.
StartsAgain ==
  /\ starts < MaxStarts /\ starts' = starts + 1
  /\ sessions' = [id \in DOMAIN saved |-> [Copied(saved)[id] EXCEPT !.owner = "__default__"]]
  /\ Copies(saved)
  /\ seededPeople' = {} /\ talks' = [u \in People |-> NoTalk]
  /\ UNCHANGED <<nextId, saved, saves>>

\* A pack may come with a conversation, which an older version may have saved without
\* prompts.
ApiInit ==
  /\ objects \in {<<[by |-> "template", role |-> "user"]>>,
                  <<[by |-> "template", role |-> "system"], [by |-> "template", role |-> "user"]>>}
  /\ LET demo == Session("__default__", "demo",
                         [a \in {1} |-> [i \in DOMAIN objects |-> i]])
     IN saved = [id \in {1} |-> demo] /\ sessions = [id \in {1} |-> demo]
  /\ nextId = 1 /\ seededPeople = {} /\ talks = [u \in People |-> NoTalk] /\ saves = 0 /\ starts = 0

ApiNext ==
  \/ StartsAgain
  \/ \E user \in People :
       \/ ListsSessions(user) \/ ResetsDefaults(user) \/ Creates(user)
       \/ BeginsResponse(user) \/ EndsTalk(user)
       \/ \E id \in DOMAIN sessions :
            \/ Patches(user, id) \/ DeletesSession(user, id) \/ SavesSession(user, id)
            \/ \E a \in AgentIds : StartsTalk(user, id, a)

(***************************************************************************)
(* Properties                                                              *)
(***************************************************************************)
Messages(id) ==
  UNION {{<<a, i>> : i \in DOMAIN sessions[id].threads[a]} : a \in DOMAIN sessions[id].threads}
MessageAt(id, m) == sessions[id].threads[m[1]][m[2]]

\* Sessions of one process share their message objects with nobody, though every user's
\* copies come from the same templates and saving, restarting, seeding and resetting
\* pass them on: no message is in two sessions, or is counted twice in one; a user's
\* session holds what that user wrote, what the app wrote, and what a template held; and
\* no request of a user takes a template away.
SessionsStayApart ==
  /\ \A s, t \in DOMAIN sessions : \A m \in Messages(s) : \A n \in Messages(t) :
       MessageAt(s, m) = MessageAt(t, n) =>
         s = t /\ (m = n \/ objects[MessageAt(s, m)].role = "system")
  /\ \A user \in People : \A id \in Own(user) : \A m \in Messages(id) :
       objects[MessageAt(id, m)].by \in {user, "app", "template"}
  /\ 1 \in TemplateIds
=============================================================================
