---------------------------- MODULE ToolAdapters ----------------------------
(***************************************************************************)
(* The calls of agentkit's data-source adapters (agentkit/tools/adapters), *)
(* as tools make them side by side:                                        *)
(*   gremlin   one cached client with a token, rebuilt under a lock;       *)
(*   graph     a retry loop that gives its gate up while it sleeps;        *)
(*   kql       one attempt behind the gate, with a cached client, in a     *)
(*             thread;                                                     *)
(*   search    threads behind a circuit breaker, with a second attempt     *)
(*             when the semantic quota is exhausted;                       *)
(*   runbooks  the backend's own search of runbooks and tickets            *)
(*             (tools/search), behind a breaker of the same kind, with one *)
(*             attempt and its clients cached per index.                   *)
(* A behaviour is of the kind chosen at its start.  A turn may be          *)
(* cancelled, and its calls with it, at every await of the first three;    *)
(* the threads of a search go on to their end.                             *)
(***************************************************************************)
EXTENDS Integers, Sequences, FiniteSets

CONSTANTS ToolCalls,
          Permits,       \* of the gate
          Max429, MaxColdstarts, MaxContinuations, \* GraphRetryBudget
          Trip,          \* failure_threshold of the search breaker
          MaxClients,    \* bound: Gremlin clients built
          MaxCooldowns   \* bound: cooldowns of the breaker

ASSUME AdapterAssumption ==
  /\ IsFiniteSet(ToolCalls) /\ "nobody" \notin ToolCalls
  /\ {Permits, Trip} \subseteq Nat \ {0}
  /\ {Max429, MaxColdstarts, MaxContinuations, MaxClients, MaxCooldowns} \subseteq Nat

VARIABLES kind,
          tool,     \* per call where it is, and what its loop has counted
          clients,  \* every Gremlin client built: token still good, connection open
          current,  \* self._client: an index of clients, 0 for None; 1 for the
                    \* KQL adapter's client of the one cluster, and for the runbooks'
                    \* client of the one index
          holder,   \* who has the adapter's lock
          permits,  \* free permits of the gate
          breaker,  \* the search breaker
          cooldowns

gremlinVars == <<clients, current, holder>>
searchVars == <<breaker, cooldowns>>
adapterVars == <<kind, tool, gremlinVars, permits, searchVars>>

NewCall == [at |-> "new", client |-> 0, retried |-> FALSE, force |-> FALSE, held |-> FALSE,
            throttled |-> 0, colds |-> 0, page |-> 0, rows |-> <<>>, semantic |-> TRUE]
Goes(c, label) == [tool EXCEPT ![c].at = label]

(***************************************************************************)
(* The Gremlin adapter                                                     *)
(***************************************************************************)
Gremlin == kind = "gremlin" /\ UNCHANGED <<kind, permits, searchVars>>

\* A cached client whose token outlasts the margin; no step looks at its connection.
Usable == current # 0 /\ clients[current].fresh

\* _get_client without a refresh: before the lock, and again behind it.
Gets(call) == IF Usable THEN [call EXCEPT !.at = "submit", !.client = current, !.force = FALSE]
              ELSE [call EXCEPT !.at = "lock", !.force = FALSE]

\* execute refuses without an endpoint, or a query that is not read-only.
GremlinAsks(c) ==
  /\ Gremlin /\ tool[c].at = "new"
  /\ tool' \in {Goes(c, "error"), [tool EXCEPT ![c] = Gets(@)]}
  /\ UNCHANGED gremlinVars

Free == holder = "nobody"

LockTaken(c) ==
  /\ Gremlin /\ tool[c].at = "lock" /\ Free
  /\ IF Usable /\ ~tool[c].force
     THEN tool' = [tool EXCEPT ![c] = Gets(@)] /\ UNCHANGED holder
     ELSE /\ holder' = c
          /\ tool' = Goes(c, IF current # 0 THEN "closing" ELSE "building")
  /\ UNCHANGED <<clients, current>>

\* The thread closes the connection, or cannot; the loop hears of it later.
ClosesOld(c) ==
  /\ Gremlin /\ tool[c].at = "closing"
  /\ clients' \in {[clients EXCEPT ![current].open = FALSE],
                   [clients EXCEPT ![current].stuck = TRUE]}
  /\ tool' = Goes(c, "closed") /\ UNCHANGED <<current, holder>>
Discards(c) ==
  /\ Gremlin /\ tool[c].at = "closed"
  /\ current' = 0 /\ tool' = Goes(c, "building") /\ UNCHANGED <<clients, holder>>

\* A transient failure is tried again once, with a client built anew.
Failing(call) == IF call.retried THEN [call EXCEPT !.at = "error"]
                 ELSE [call EXCEPT !.at = "lock", !.retried = TRUE, !.force = TRUE]

Builds(c) ==
  /\ Gremlin /\ tool[c].at = "building" /\ Len(clients) < MaxClients
  /\ clients' = Append(clients, [fresh |-> TRUE, open |-> TRUE, stuck |-> FALSE])
  /\ current' = Len(clients')
  /\ tool' = [tool EXCEPT ![c].at = "submit", ![c].client = Len(clients'), ![c].force = FALSE]
  /\ holder' = "nobody"

\* No token: a forced refresh only logs it, and the loop asks for a client again.
BuildFails(c) ==
  /\ Gremlin /\ tool[c].at = "building"
  /\ tool' \in IF tool[c].force THEN {[tool EXCEPT ![c].at = "lock", ![c].force = FALSE]}
               ELSE {Goes(c, "error"), [tool EXCEPT ![c] = Failing(@)]}
  /\ holder' = "nobody" /\ UNCHANGED <<clients, current>>

\* The query runs in a thread; a client closed under it loses the connection.
Submits(c) ==
  /\ Gremlin /\ tool[c].at = "submit"
  /\ \/ clients[tool[c].client].open /\ tool' = Goes(c, "answered")
     \/ tool' \in {Goes(c, "error"), [tool EXCEPT ![c] = Failing(@)]}
  /\ UNCHANGED gremlinVars

TokenAges == /\ Gremlin /\ Usable
             /\ clients' = [clients EXCEPT ![current].fresh = FALSE]
             /\ UNCHANGED <<tool, current, holder>>

\* The lock is given up wherever the call stood; a thread that closes goes on.
GremlinCancelled(c) ==
  /\ Gremlin /\ tool[c].at \in {"lock", "closing", "closed", "building", "submit"}
  /\ tool' = Goes(c, "cancelled")
  /\ holder' = IF holder = c THEN "nobody" ELSE holder
  /\ clients' = IF tool[c].at = "closing" THEN [clients EXCEPT ![current].open = FALSE]
                ELSE clients
  /\ UNCHANGED current

(***************************************************************************)
(* The graph adapter                                                       *)
(***************************************************************************)
Graph == kind = "graph" /\ UNCHANGED <<kind, gremlinVars, searchVars>>

\* The finally block of execute gives back what the call holds.
GivesBack(c, outcome) ==
  /\ tool' = [tool EXCEPT ![c].at = outcome, ![c].held = FALSE]
  /\ permits' = IF tool[c].held THEN permits + 1 ELSE permits

GraphAsks(c) == Graph /\ tool[c].at = "new" /\ UNCHANGED permits
                /\ tool' \in {Goes(c, "error"), Goes(c, "waiting")}

\* gate.acquire, before the first request or behind a sleep.
Acquires(c) ==
  /\ Graph /\ tool[c].at = "waiting" /\ permits > 0
  /\ permits' = permits - 1
  /\ tool' = [tool EXCEPT ![c].at = "posting", ![c].held = TRUE]

\* _sleep_releasing_gate: the permit is given up, and forgotten.
GivenUpHolding(call) == [call EXCEPT !.at = "sleeping"]
GivenUp(call) == [call EXCEPT !.at = "sleeping", !.held = FALSE]
Sleeps(c, counted) == /\ tool' = [tool EXCEPT ![c] = GivenUp(counted)]
                      /\ permits' = permits + 1
Wakes(c) == Graph /\ tool[c].at = "sleeping" /\ tool' = Goes(c, "waiting") /\ UNCHANGED permits

Throttled(c) ==
  /\ Graph /\ tool[c].at = "posting"
  /\ IF tool[c].throttled = Max429 THEN GivesBack(c, "error")
     ELSE Sleeps(c, [tool[c] EXCEPT !.throttled = @ + 1])

\* A cold start drops the continuation token, not the rows.
ColdStart(c) ==
  /\ Graph /\ tool[c].at = "posting"
  /\ IF tool[c].colds = MaxColdstarts THEN GivesBack(c, "error")
     ELSE Sleeps(c, [tool[c] EXCEPT !.colds = @ + 1, !.page = 0])

\* page is the continuation token, as the number of pages before it.
Page(c) ==
  /\ Graph /\ tool[c].at = "posting"
  /\ LET call == [tool[c] EXCEPT !.rows = Append(@, tool[c].page + 1), !.page = @ + 1]
     IN IF Len(call.rows) > MaxContinuations THEN GivesBack(c, "error") ELSE Sleeps(c, call)

LastPage(c) ==
  /\ Graph /\ tool[c].at = "posting"
  /\ tool' = [tool EXCEPT ![c].rows = Append(@, tool[c].page + 1), ![c].page = @ + 1,
                          ![c].at = "answered", ![c].held = FALSE]
  /\ permits' = permits + 1

\* Another status, a token that cannot be had, a gate that raises, a cancellation.
GraphFails(c) == /\ Graph /\ tool[c].at \in {"waiting", "posting"} /\ GivesBack(c, "error")
GraphCancelled(c) == /\ Graph /\ tool[c].at \in {"waiting", "posting", "sleeping"}
                     /\ GivesBack(c, "cancelled")

(***************************************************************************)
(* The KQL adapter                                                         *)
(***************************************************************************)
Kql == kind = "kql" /\ UNCHANGED <<kind, clients, holder, searchVars>>

\* No target, or a query that the guard refuses.
KqlAsks(c) == /\ Kql /\ tool[c].at = "new" /\ UNCHANGED <<current, permits>>
              /\ tool' \in {Goes(c, "error"), Goes(c, "waiting")}

\* Nothing is awaited between the gate and the thread, so that the lock of _get_client
\* is always free: the client is the cached one, or is built, or cannot be.
KqlStarts(c) ==
  /\ Kql /\ tool[c].at = "waiting" /\ permits > 0
  /\ permits' = permits - 1
  /\ \/ current' = 1 /\ tool' = [tool EXCEPT ![c].at = "querying", ![c].held = TRUE]
     \/ /\ current = 0 /\ UNCHANGED current
        /\ tool' = [tool EXCEPT ![c].at = "failing", ![c].held = TRUE]

\* The thread answers or raises; what the gate is told of it is awaited with the permit
\* held, and an answer that cannot be recorded or projected fails after all.
KqlReturns(c) == /\ Kql /\ UNCHANGED <<current, permits>>
                 /\ \/ tool[c].at = "querying" /\ tool' \in {Goes(c, "succeeding"), Goes(c, "failing")}
                    \/ tool[c].at = "succeeding" /\ tool' = Goes(c, "failing")
KqlEnds(c) == /\ Kql /\ UNCHANGED current
              /\ \/ tool[c].at = "succeeding" /\ GivesBack(c, "answered")
                 \/ tool[c].at \in {"waiting", "failing"} /\ GivesBack(c, "error")
                 \/ tool[c].at \in {"waiting", "querying", "succeeding", "failing"}
                    /\ GivesBack(c, "cancelled")

(***************************************************************************)
(* The search adapter and its breaker                                      *)
(***************************************************************************)
Search == kind = "search" /\ UNCHANGED <<kind, gremlinVars, permits>>
Runbooks == kind = "runbooks" /\ UNCHANGED <<kind, clients, holder, permits>>

\* is_open lets a call through a closed breaker and, when the cooldown of an open one is
\* over, the first that asks: its probe.
Granted(c) ==
  \/ breaker.state = "closed" /\ UNCHANGED searchVars
  \/ /\ breaker.state = "open" /\ cooldowns < MaxCooldowns
     /\ breaker' = [breaker EXCEPT !.state = "half-open", !.probe = c]
     /\ cooldowns' = cooldowns + 1
Rejected == breaker.state # "closed" /\ UNCHANGED searchVars

\* Without an endpoint the breaker is not asked.
SearchAsks(c) ==
  /\ Search /\ tool[c].at = "new"
  /\ \/ tool' = Goes(c, "error") /\ UNCHANGED searchVars
     \/ Granted(c) /\ tool' = Goes(c, "building")
     \/ Rejected /\ tool' = Goes(c, "degraded")

\* SearchClient is built outside of the try: what it raises is reported to nobody.
SearchClient(c) == Search /\ tool[c].at = "building" /\ UNCHANGED searchVars
                   /\ tool' \in {Goes(c, "searching"), Goes(c, "raised")}

record_success(c) ==
  breaker' = [breaker EXCEPT !.failures = 0,
                             !.state = IF @ = "half-open" THEN "closed" ELSE @]
record_failure(c) ==
  breaker' = [breaker EXCEPT !.failures = @ + 1,
       !.state = IF @ = "half-open" \/ (@ = "closed" /\ breaker.failures + 1 >= Trip)
                 THEN "open" ELSE @]

\* The results are found, and read; each may meet the end of the semantic quota.
Found(c) == Search /\ tool[c].at = "searching" /\ tool' = Goes(c, "reading")
            /\ UNCHANGED searchVars
QuotaEnds(c) == /\ Search /\ tool[c].at \in {"searching", "reading"} /\ tool[c].semantic
                /\ tool' = [tool EXCEPT ![c].at = "searching", ![c].semantic = FALSE]
                /\ UNCHANGED searchVars
SearchSucceeds(c) == /\ Search /\ tool[c].at = "reading" /\ tool' = Goes(c, "answered")
                     /\ record_success(c) /\ UNCHANGED cooldowns
SearchFails(c) == /\ Search /\ tool[c].at \in {"searching", "reading"} /\ tool' = Goes(c, "error")
                  /\ record_failure(c) /\ UNCHANGED cooldowns

\* search_index: the same questions, before anything is imported or built.
RunbooksAsk(c) ==
  /\ Runbooks /\ tool[c].at = "new" /\ UNCHANGED current
  /\ \/ tool' = Goes(c, "error") /\ UNCHANGED searchVars
     \/ Granted(c) /\ tool' = Goes(c, "building")
     \/ Rejected /\ tool' = Goes(c, "degraded")

\* _get_search_client: the cached client, or one built outside of the try.
RunbooksClient(c) ==
  /\ Runbooks /\ tool[c].at = "building" /\ UNCHANGED searchVars
  /\ \/ current' = 1 /\ tool' = Goes(c, "searching")
     \/ current = 0 /\ UNCHANGED current /\ tool' = Goes(c, "raised")

\* The index answers page by page while the results are read: success is recorded behind
\* the last, a failure wherever it comes.
RunbooksReturn(c) ==
  /\ Runbooks /\ UNCHANGED <<current, cooldowns>>
  /\ \/ /\ tool[c].at = "searching" /\ tool' = Goes(c, "reading") /\ UNCHANGED breaker
     \/ tool[c].at = "reading" /\ tool' = Goes(c, "answered") /\ record_success(c)
     \/ tool[c].at \in {"searching", "reading"} /\ tool' = Goes(c, "error") /\ record_failure(c)

AdapterInit ==
  /\ kind \in {"gremlin", "graph", "kql", "search", "runbooks"} /\ tool = [c \in ToolCalls |-> NewCall]
  /\ clients = <<>> /\ current = 0 /\ holder = "nobody" /\ permits = Permits
  /\ breaker = [state |-> "closed", failures |-> 0, probe |-> "nobody"] /\ cooldowns = 0

AdapterNext ==
  \/ TokenAges
  \/ \E c \in ToolCalls :
       \/ GremlinAsks(c) \/ LockTaken(c) \/ ClosesOld(c) \/ Discards(c) \/ Builds(c)
       \/ BuildFails(c) \/ Submits(c) \/ GremlinCancelled(c)
       \/ GraphAsks(c) \/ Acquires(c) \/ Wakes(c) \/ Throttled(c) \/ ColdStart(c)
       \/ Page(c) \/ LastPage(c) \/ GraphFails(c) \/ GraphCancelled(c)
       \/ KqlAsks(c) \/ KqlStarts(c) \/ KqlReturns(c) \/ KqlEnds(c)
       \/ SearchAsks(c) \/ SearchClient(c) \/ Found(c) \/ QuotaEnds(c)
       \/ SearchSucceeds(c) \/ SearchFails(c)
       \/ RunbooksAsk(c) \/ RunbooksClient(c) \/ RunbooksReturn(c)

(***************************************************************************)
(* Properties                                                              *)
(***************************************************************************)
Pages(rows) == {rows[i] : i \in DOMAIN rows}

\* Concurrent calls leave nothing behind, whichever fails or is cancelled where: no
\* Gremlin client stays open beside the cached one unless it could not be closed; the
\* gate gets back every permit once, though calls sleep without it; an answer has
\* every page, and each once unless a cold start came between; and a search breaker
\* waits for a probe only while that probe is under way, or has lost its client.
AdaptersLeaveNothing ==
  /\ \A i \in DOMAIN clients : clients[i].open => i = current \/ clients[i].stuck
  /\ holder # "nobody" => tool[holder].at \in {"closing", "closed", "building"}
  /\ permits + Cardinality({c \in ToolCalls : tool[c].held}) = Permits
  /\ \A c \in ToolCalls : kind = "graph" /\ tool[c].at = "answered" =>
       /\ ~tool[c].held /\ 1..tool[c].page \subseteq Pages(tool[c].rows)
       /\ tool[c].colds = 0 => Len(tool[c].rows) = tool[c].page
  /\ breaker.state = "half-open" =>
       tool[breaker.probe].at \in {"building", "searching", "reading", "raised"}
=============================================================================
