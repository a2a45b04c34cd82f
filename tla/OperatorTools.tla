--------------------------- MODULE OperatorTools ---------------------------
(***************************************************************************)
(* The simulated tools of the operations agents (backend/tools): links,    *)
(* routes, advisories, tickets, estimates and dispatches write per-session *)
(* overrides and an action log (_spoof_state.py), a question to Work IQ    *)
(* picks an answer from a catalogue, and options are put to the operator.  *)
(* The tools run in one event loop without an await between a read and a   *)
(* write, so a call is one step, except for the call that rings.           *)
(***************************************************************************)
EXTENDS Integers, Sequences, FiniteSets

CONSTANTS Talks,          \* sessions
          Links, Paths,   \* entities the agents act on
          Questions,      \* questions asked of Work IQ: sets of words
          RESPONSE_CATALOG,  \* sequence of keyword sets
          ShortWords,     \* words of one letter
          Threshold,      \* _MATCH_THRESHOLD, as <<numerator, denominator>>
          MaxActions,     \* bound on the entries of all logs
          MaxSeconds      \* bound on the clock

ASSUME OperatorAssumption ==
  /\ Len(RESPONSE_CATALOG) \in Nat /\ DOMAIN RESPONSE_CATALOG = 1 .. Len(RESPONSE_CATALOG)
  /\ \A i \in DOMAIN RESPONSE_CATALOG : IsFiniteSet(RESPONSE_CATALOG[i])
  /\ \A words \in Questions : IsFiniteSet(words)
  /\ Threshold \in (Nat \ {0}) \X (Nat \ {0})

VARIABLES
    linkStatus,     \* _link_status
    trafficRoutes,  \* _traffic_routes
    advisories,     \* _advisories
    actionLog,      \* _action_log
    ringing,        \* sessions whose agent waits for an engineer to pick up
    result,         \* what the last tool returned
    second          \* the clock, in the seconds the generated ids have

operatorVars == <<linkStatus, trafficRoutes, advisories, actionLog, ringing, result, second>>

NoOverride == [n \in {} |-> 0]
LogKeeps == UNCHANGED <<linkStatus, trafficRoutes, advisories>>

\* ------------------------------------------------------ _spoof_state

Override(id, value) == [id |-> id, value |-> value, second |-> second]
WithAction(action, entry) == [action |-> action, entry |-> entry]

log_action(s, action, entry) ==
  /\ Cardinality(UNION {{t} \X DOMAIN actionLog[t] : t \in Talks}) < MaxActions
  /\ actionLog' = [actionLog EXCEPT ![s] = Append(@, WithAction(action, entry))]

\* dict[session].setdefault({})[id] = entry
Stored(dict, s, entry) ==
  [dict EXCEPT ![s] = [id \in DOMAIN @ \cup {entry.id} |->
                         IF id = entry.id THEN entry ELSE @[id]]]

set_link_status(s, link, status) ==
  LET entry == Override(link, status)
  IN  /\ linkStatus' = Stored(linkStatus, s, entry)
      /\ log_action(s, "set_link_status", entry)
      /\ UNCHANGED <<trafficRoutes, advisories>>

activate_route(s, path, reason) ==
  LET entry == Override(path, reason)
  IN  /\ trafficRoutes' = Stored(trafficRoutes, s, entry)
      /\ log_action(s, "reroute_traffic", entry)
      /\ UNCHANGED <<linkStatus, advisories>>

post_advisory(s, advisory, content) ==
  LET entry == Override(advisory, content)
  IN  /\ advisories' = Stored(advisories, s, entry)
      /\ log_action(s, "update_advisory", entry)
      /\ UNCHANGED <<linkStatus, trafficRoutes>>

\* A mutated form of reset: the log is kept.
resetOverrides(s) ==
  /\ linkStatus' = [linkStatus EXCEPT ![s] = NoOverride]
  /\ trafficRoutes' = [trafficRoutes EXCEPT ![s] = NoOverride]
  /\ advisories' = [advisories EXCEPT ![s] = NoOverride]
  /\ UNCHANGED actionLog

reset(s) ==
  /\ linkStatus' = [linkStatus EXCEPT ![s] = NoOverride]
  /\ trafficRoutes' = [trafficRoutes EXCEPT ![s] = NoOverride]
  /\ advisories' = [advisories EXCEPT ![s] = NoOverride]
  /\ actionLog' = [actionLog EXCEPT ![s] = <<>>]

\* ------------------------------------------------------ the tools

\* Ids have the resolution of a second: INC-..., ADV-..., DISPATCH-..., MSG-...
TimeId == second
Returns(answer) == result' = answer /\ UNCHANGED <<ringing, second>>

SetsLink(s, link, status) ==
  /\ set_link_status(s, link, status)
  /\ Returns([tool |-> "set_link_status"])

Reroutes(s, path, reason) ==
  /\ activate_route(s, path, reason)
  /\ Returns([tool |-> "reroute_traffic"])

\* Two advisories of one second share an id: the later replaces the earlier.
Advises(s, content) ==
  /\ post_advisory(s, TimeId, content)
  /\ Returns([tool |-> "update_advisory", id |-> TimeId])

CreatesTicket(s) ==
  /\ log_action(s, "create_incident_ticket", Override(TimeId, "open")) /\ LogKeeps
  /\ Returns([tool |-> "create_incident_ticket", id |-> TimeId])

EstimatesBlast(s, link) ==
  /\ log_action(s, "estimate_blast_radius", Override(link, "estimated")) /\ LogKeeps
  /\ Returns([tool |-> "estimate_blast_radius"])

\* A dispatch and a report leave nothing but their result.
Dispatches == UNCHANGED actionLog /\ LogKeeps /\ Returns([tool |-> "dispatch", id |-> TimeId])
SendsReport == UNCHANGED actionLog /\ LogKeeps /\ Returns([tool |-> "report", id |-> TimeId])

\* The phone rings for five seconds, in which other tools go on; nobody answers.
Rings(s) ==
  /\ s \notin ringing
  /\ ringing' = ringing \cup {s}
  /\ UNCHANGED <<actionLog, result, second>> /\ LogKeeps
RingsOut(s) ==
  /\ s \in ringing
  /\ ringing' = ringing \ {s}
  /\ result' = [tool |-> "call_engineer", status |-> "no_answer"]
  /\ UNCHANGED <<actionLog, second>> /\ LogKeeps

\* The turn is stopped while the phone rings.
HangsUp(s) ==
  /\ s \in ringing
  /\ ringing' = ringing \ {s}
  /\ UNCHANGED <<actionLog, result, second>> /\ LogKeeps

\* present_options: an option without a title is left out, the others keep
\* their numbers, and the recommended one is marked if it is there.
PresentsOptions(titled, recommended) ==
  /\ UNCHANGED actionLog /\ LogKeeps
  /\ Returns([tool |-> "present_options",
              options |-> [i \in titled |-> [recommended |-> i = recommended]]])

\* ------------------------------------------------------ Work IQ

\* Words shorter than two letters do not count.
WordTokens(words) == words \ ShortWords

\* _score_match: the overlap over the smaller set, as <<numerator, denominator>>.
Smaller(m, n) == IF m < n THEN m ELSE n
Score(question, entry) ==
  IF question = {} \/ entry = {} THEN <<0, 1>>
  ELSE <<Cardinality(question \cap entry), Smaller(Cardinality(question), Cardinality(entry))>>
Above(p, q) == p[1] * q[2] > q[1] * p[2]

\* The first of the best entries, 0 when none shares a word with the question.
BestEntry(question) ==
  LET n == Len(RESPONSE_CATALOG)
      best[i \in 0 .. n] ==
        IF i = 0 THEN [entry |-> 0, score |-> <<0, 1>>]
        ELSE LET score == Score(question, WordTokens(RESPONSE_CATALOG[i]))
             IN  IF Above(score, best[i - 1].score) THEN [entry |-> i, score |-> score]
                 ELSE best[i - 1]
  IN  best[n]

AsksWorkIQ(words) ==
  LET best == BestEntry(WordTokens(words))
  IN  /\ UNCHANGED actionLog /\ LogKeeps
      /\ Returns([tool |-> "ask_work_iq", question |-> words,
                  entry |-> IF best.entry = 0 \/ Above(Threshold, best.score)
                            THEN 0 ELSE best.entry])

\* ------------------------------------------------------ the specification

\* delete_session resets the session's overrides; an agent of it that still
\* runs writes new ones afterwards, which stay until the process ends.
DeletesTalk(s) == reset(s) /\ UNCHANGED <<ringing, result, second>>

SecondPasses ==
  /\ second < MaxSeconds
  /\ second' = second + 1
  /\ UNCHANGED <<actionLog, ringing, result>> /\ LogKeeps

OperatorInit ==
  /\ linkStatus = [s \in Talks |-> NoOverride]
  /\ trafficRoutes = [s \in Talks |-> NoOverride]
  /\ advisories = [s \in Talks |-> NoOverride]
  /\ actionLog = [s \in Talks |-> <<>>]
  /\ ringing = {}
  /\ result = [tool |-> "none"]
  /\ second = 0

OperatorNext ==
  \/ \E s \in Talks :
       \/ \E link \in Links : (\E status \in {"down", "up"} : SetsLink(s, link, status))
                              \/ EstimatesBlast(s, link)
       \/ \E path \in Paths, reason \in {"cut"} : Reroutes(s, path, reason)
       \/ \E content \in {"first", "second"} : Advises(s, content)
       \/ CreatesTicket(s) \/ Rings(s) \/ RingsOut(s) \/ HangsUp(s) \/ DeletesTalk(s)
  \/ \E titled \in SUBSET (1 .. 3), recommended \in {0, 3} :
       {1, 2} \subseteq titled /\ PresentsOptions(titled, recommended)
  \/ \E words \in Questions : AsksWorkIQ(words)
  \/ Dispatches \/ SendsReport \/ SecondPasses

\* ------------------------------------------------------ properties

LoggedUnder(s, action) == {i \in DOMAIN actionLog[s] : actionLog[s][i].action = action}
LastLogged(s, action, id) ==
  LET places == {i \in LoggedUnder(s, action) : actionLog[s][i].entry.id = id}
  IN  actionLog[s][CHOOSE i \in places : \A j \in places : j <= i].entry

\* An override stands for exactly what the session's log says was done last.
FollowsLog(dict, action) ==
  \A s \in Talks :
    /\ DOMAIN dict[s] = {actionLog[s][i].entry.id : i \in LoggedUnder(s, action)}
    /\ \A id \in DOMAIN dict[s] : dict[s][id] = LastLogged(s, action, id)

\* Work IQ answers with an entry no other beats, the first of those, and with
\* none only when all are below the threshold.
AnswersBest ==
  result.tool = "ask_work_iq" =>
    LET At(i) == Score(WordTokens(result.question), WordTokens(RESPONSE_CATALOG[i]))
        i == result.entry
    IN  IF i = 0 THEN \A j \in DOMAIN RESPONSE_CATALOG : Above(Threshold, At(j))
        ELSE /\ ~Above(Threshold, At(i))
             /\ \A j \in DOMAIN RESPONSE_CATALOG :
                  IF j < i THEN Above(At(i), At(j)) ELSE ~Above(At(j), At(i))

\* The operator's tools agree with each other: _spoof_state.py keeps a
\* session's overrides and its log in step through repeated actions, ids that
\* coincide and resets, and ask_work_iq returns the best entry there is.
OverridesFollowLog ==
  /\ FollowsLog(linkStatus, "set_link_status")
  /\ FollowsLog(trafficRoutes, "reroute_traffic")
  /\ FollowsLog(advisories, "update_advisory")
  /\ AnswersBest
=============================================================================
