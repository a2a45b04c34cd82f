----------------------------- MODULE ChatClient -----------------------------
(***************************************************************************)
(* The browser's chat state: chatStore keeps one slice per agent (not per  *)
(* session), sessionStore keeps the selected session and the document last *)
(* fetched for a session, and the callbacks of every stream, timer and     *)
(* request write to whatever slice their agent has when they run.  One     *)
(* JavaScript task, up to its next await, is one action.                   *)
(*                                                                         *)
(* A message is its role and its id: 0 for the temporary ids given while   *)
(* streaming, otherwise the number of the exchange the server stored.      *)
(* Exchanges (a send, or a delegation the orchestrator makes) are numbered *)
(* 1..MaxExchanges in the order they start.                                *)
(***************************************************************************)
EXTENDS Integers, Sequences

CONSTANTS Sessions,      \* the ids the server may give a session
          Tabs,          \* one per agent: a tab and one slice each
          Delegates,     \* the agents the orchestrator delegates to
          NoSession,     \* no session
          MaxExchanges,  \* bound: sends and delegations together
          MaxSwitches    \* bound: selections, creations and deletions of sessions

ASSUME ClientAssumption == /\ Delegates \subseteq Tabs
                           /\ NoSession \notin Sessions
                           /\ MaxExchanges \in Nat /\ MaxSwitches \in Nat

VARIABLES slice,      \* chatStore.slices
          orphans,    \* per agent: armed idle timers whose handle was dropped
          xs,         \* the exchanges
          active,     \* sessionStore.activeSessionId
          doc,        \* sessionStore.activeSession: a session and its threads
          requests,   \* session requests in flight
          threads,    \* the server's threads, per session and agent
          existing,   \* the sessions the server has
          switches    \* counts the session requests of the user, for the bound

clientVars == <<slice, orphans, xs, active, doc, requests, threads, existing,
          switches>>
chatVars == <<slice, orphans>>
sessionVars == <<active, doc, existing, switches>>

Exchanges == 1..MaxExchanges
\* The phases of a fetch: "starting" while it is pending, "open" while its body is read,
\* "silent" when nothing comes any more, "fetchAborted" and "readAborted" after its
\* AbortController was aborted, and "closed".

DefaultSlice == [status |-> "idle", partial |-> FALSE, ctrl |-> 0, timer |-> FALSE,
                 msgs |-> <<>>]

ClientInit ==
  /\ slice = [a \in Tabs |-> DefaultSlice]
  /\ orphans = [a \in Tabs |-> 0]
  /\ xs = [k \in Exchanges |-> [kind |-> "send", sess |-> NoSession, phase |-> "unused",
                                agent |-> CHOOSE a \in Tabs : TRUE,
                                server |-> "waiting"]]
  /\ requests = {} /\ switches = 0
  /\ active = CHOOSE s \in Sessions : TRUE
  /\ doc = [id |-> active, threads |-> [a \in Tabs |-> <<>>]]
  /\ threads = [s \in Sessions |-> [a \in Tabs |-> <<>>]]
  /\ existing \in {S \in SUBSET Sessions : active \in S}

-----------------------------------------------------------------------------
(* Slices *)

Temp(sl, role) == [sl EXCEPT !.msgs = Append(@, [role |-> role, id |-> 0])]
KeepPartial(sl) == IF sl.partial THEN Temp(sl, "assistant") ELSE sl

\* An event that shows the stream is alive clears the held timer and arms a
\* new one; a token or a tool call leaves something in streamingParts.
Event(sl, content) == [sl EXCEPT !.timer = TRUE, !.partial = @ \/ content]

EndError(sl) == [KeepPartial(sl) EXCEPT !.status = "error", !.partial = FALSE,
                                        !.ctrl = 0, !.timer = FALSE]
EndDone(sl) == [Temp(sl, "assistant") EXCEPT !.status = "idle", !.partial = FALSE,
                                             !.ctrl = 0, !.timer = FALSE]

\* onAborted is the terminal callback that leaves the idle timer armed.
EndAborted(sl) == [Temp(sl, "assistant") EXCEPT !.status = "idle",
                                                !.partial = FALSE, !.ctrl = 0]

\* The position-and-role matching that gives temporary messages the server's ids:
\* the guard looks at the ids before the call, not at those it has just given.
\* (Mutated: the server's list replaces the local one.)
SyncIdsReplaces(local, server) == server

SyncIds(local, server) ==
  [i \in DOMAIN local |->
     LET Taken(s) == \E l \in DOMAIN local \ {i} : local[l] = s
         match == {j \in DOMAIN server : /\ server[j].role = local[i].role
                                         /\ j - i \in -1..1
                                         /\ ~Taken(server[j])}
     IN IF local[i].id # 0 \/ match = {} THEN local[i]
        ELSE server[CHOOSE j \in match : \A m \in match : j <= m]]

\* Only the agents that have a thread in the document are overwritten.
Loaded(sls, d) ==
  [a \in Tabs |-> IF d.id = NoSession \/ d.threads[a] = <<>> THEN sls[a]
                    ELSE [sls[a] EXCEPT !.msgs = d.threads[a]]]

Fetched(s) == [id |-> s, threads |-> threads[s]]
Add(s, a, role, k) == [threads EXCEPT ![s][a] = Append(@, [role |-> role, id |-> k])]

\* Aborting the controller of a stream that is over has no effect.
Cancel(ks) ==
  xs' = [k \in Exchanges |-> [xs[k] EXCEPT !.phase =
           IF k \notin ks THEN @
           ELSE IF @ = "starting" THEN "fetchAborted"
           ELSE IF @ \in {"open", "silent"} THEN "readAborted" ELSE @]]

clearAll ==
  /\ slice' = [a \in Tabs |-> DefaultSlice]
  /\ Cancel({slice[a].ctrl : a \in Tabs})
  /\ UNCHANGED orphans

On(a, sl) == slice' = [slice EXCEPT ![a] = sl]

-----------------------------------------------------------------------------
(* Sending, the stream's callbacks and its idle timer *)

NextExchange(k) == /\ xs[k].phase = "unused"
                   /\ \A j \in 1..(k - 1) : xs[j].phase # "unused"

sendMessage(a, k) ==
  /\ active # NoSession /\ slice[a].status # "streaming" /\ NextExchange(k)
  /\ On(a, [Temp(slice[a], "user") EXCEPT !.status = "streaming", !.partial = FALSE,
                                          !.ctrl = k, !.timer = TRUE])
  /\ orphans' = [orphans EXCEPT ![a] = @ + IF slice[a].timer THEN 1 ELSE 0]
  /\ xs' = [xs EXCEPT ![k] = [kind |-> "send", sess |-> active, agent |-> a,
                              phase |-> "starting", server |-> "waiting"]]
  /\ UNCHANGED <<sessionVars, requests, threads>>

IsSend(k, phases) == xs[k].kind = "send" /\ xs[k].phase \in phases
Alive(k) == IsSend(k, {"open"})
To(k, phase) == xs' = [xs EXCEPT ![k].phase = phase]

\* The dynamic import fails: the catch of sendMessage leaves the timer armed.
ImportFails(k) ==
  /\ IsSend(k, {"starting", "fetchAborted"})
  /\ To(k, "closed")
  /\ On(xs[k].agent, [slice[xs[k].agent] EXCEPT !.status = "error", !.ctrl = 0])
  /\ UNCHANGED <<orphans, sessionVars, requests, threads>>

Accepted(k) == /\ xs[k].sess \in existing
               /\ threads' = Add(xs[k].sess, xs[k].agent, "user", k)

\* The server accepts the request, stores the user's message and answers.
ResponseStarts(k) ==
  /\ IsSend(k, {"starting"})
  /\ xs' = [xs EXCEPT ![k].phase = "open", ![k].server = "running"]
  /\ Accepted(k)
  /\ UNCHANGED <<chatVars, sessionVars, requests>>

\* fetch rejects (an aborted signal, no network) or answers with an HTTP error;
\* in the first case the server may have the request all the same.
FetchFails(k) ==
  /\ IsSend(k, {"starting", "fetchAborted"})
  /\ \/ To(k, "closed") /\ UNCHANGED threads
     \/ /\ xs' = [xs EXCEPT ![k].phase = "closed", ![k].server = "running"]
        /\ Accepted(k)
  /\ On(xs[k].agent, EndError(slice[xs[k].agent]))
  /\ UNCHANGED <<orphans, sessionVars, requests>>

\* The server stores the answer: before its terminal event, or on its own when
\* the client no longer listens.
Answered(k) == threads' = IF xs[k].sess \in existing
                          THEN Add(xs[k].sess, xs[k].agent, "assistant", k) ELSE threads

ServerStores(k) ==
  /\ xs[k].phase = "closed" /\ xs[k].server = "running"
  /\ xs' = [xs EXCEPT ![k].server = "stored"]
  /\ Answered(k)
  /\ UNCHANGED <<chatVars, sessionVars, requests>>

StreamEvent(k) ==
  /\ Alive(k)
  /\ \E content \in BOOLEAN : On(xs[k].agent, Event(slice[xs[k].agent], content))
  /\ UNCHANGED <<orphans, xs, sessionVars, requests, threads>>

Refresh(k) ==
  requests' = requests \cup
    (IF active = NoSession THEN {}
     ELSE {[op |-> "refresh", sess |-> active, agent |-> xs[k].agent, was |-> doc.id,
            of |-> k]})

Terminal(k) ==
  /\ Alive(k)
  /\ xs' = [xs EXCEPT ![k].phase = "closed", ![k].server = "stored"]
  /\ Answered(k)

OnDone(k) ==
  /\ Terminal(k) /\ On(xs[k].agent, EndDone(slice[xs[k].agent])) /\ Refresh(k)
  /\ UNCHANGED <<orphans, sessionVars>>

\* An aborted event of the server, or the read that rejects after abort().
OnAborted(k) ==
  /\ \/ Terminal(k)
     \/ /\ IsSend(k, {"readAborted"})
        /\ To(k, "closed") /\ UNCHANGED threads
  /\ On(xs[k].agent, EndAborted(slice[xs[k].agent])) /\ Refresh(k)
  /\ UNCHANGED <<orphans, sessionVars>>

\* An error event, or a read that fails.
OnError(k) ==
  /\ Alive(k)
  /\ To(k, "closed") /\ On(xs[k].agent, EndError(slice[xs[k].agent]))
  /\ UNCHANGED <<orphans, sessionVars, requests, threads>>

\* The body ends without a terminal event: streamChat returns, nothing is set.
EndsSilently(k) ==
  /\ Alive(k) /\ To(k, "closed")
  /\ UNCHANGED <<chatVars, sessionVars, requests, threads>>

\* The connection goes silent for good.  One that comes back after the idle
\* timer fired is an open one whose timer fired: no time is modelled.
GoesSilent(k) ==
  /\ Alive(k) /\ To(k, "silent")
  /\ UNCHANGED <<chatVars, sessionVars, requests, threads>>

\* (Mutated: a timer that only ends a stream the user did not stop.)
TimedOutUnlessStopped(sl) ==
  IF sl.status = "streaming" /\ sl.ctrl # 0 THEN EndError(sl) ELSE sl

TimedOut(sl) == IF sl.status = "streaming" THEN EndError(sl) ELSE sl

\* _fireStreamTimeout, of the timer the slice holds or of one it lost; the
\* second drops the handle of a timer that stays armed.
FireHeld(a) ==
  /\ slice[a].timer
  /\ On(a, [TimedOut(slice[a]) EXCEPT !.timer = FALSE])
  /\ UNCHANGED orphans

FireOrphan(a) ==
  /\ orphans[a] > 0
  /\ On(a, TimedOut(slice[a]))
  /\ orphans' = [orphans EXCEPT ![a] =
       @ - 1 + IF slice[a].status = "streaming" /\ slice[a].timer THEN 1 ELSE 0]

fireStreamTimeout(a) ==
  /\ FireHeld(a) \/ FireOrphan(a)
  /\ UNCHANGED <<xs, sessionVars, requests, threads>>

abort(a) ==
  /\ active # NoSession /\ slice[a].status = "streaming" /\ slice[a].ctrl # 0
  /\ Cancel({slice[a].ctrl})
  /\ On(a, [slice[a] EXCEPT !.ctrl = 0])
  /\ UNCHANGED <<orphans, sessionVars, requests, threads>>

-----------------------------------------------------------------------------
(* Delegations, heard through the session's event source *)

\* The orchestrator's turn runs a delegation; the browser hears of its start
\* when it is subscribed to that session and the event is not lost.
DelegationStarts(k, j, a) ==
  /\ NextExchange(k) /\ a \in Delegates
  /\ xs[j].kind = "send" /\ xs[j].server = "running" /\ xs[j].agent # a
  /\ xs' = [xs EXCEPT ![k] = [kind |-> "delegation", sess |-> xs[j].sess, agent |-> a,
                              phase |-> "open", server |-> "running"]]
  /\ threads' = Add(xs[j].sess, a, "user", k)
  /\ \/ /\ xs[j].sess = active
        /\ On(a, [slice[a] EXCEPT !.status = "streaming", !.partial = FALSE])
     \/ UNCHANGED slice
  /\ UNCHANGED <<orphans, sessionVars, requests>>

Heard(k) == xs[k].kind = "delegation" /\ xs[k].phase = "open" /\ xs[k].sess = active

DelegationEvent(k) ==
  /\ Heard(k)
  /\ On(xs[k].agent, [slice[xs[k].agent] EXCEPT !.partial = TRUE])
  /\ UNCHANGED <<orphans, xs, sessionVars, requests, threads>>

\* "done" and "error" touch neither the controller nor the timer; both may be lost.
DelegationEnds(k) ==
  /\ xs[k].kind = "delegation" /\ xs[k].phase = "open"
  /\ xs' = [xs EXCEPT ![k].phase = "closed", ![k].server = "stored"]
  /\ Answered(k)
  /\ \/ /\ Heard(k)
        /\ \E status \in {"idle", "error"} :
             On(xs[k].agent, [KeepPartial(slice[xs[k].agent]) EXCEPT
                                !.status = status, !.partial = FALSE])
     \/ UNCHANGED slice
  /\ UNCHANGED <<orphans, sessionVars, requests>>

-----------------------------------------------------------------------------
(* Sessions *)

\* The sidebar refuses to switch while the visible tab streams, whatever the others
\* do: the user may show any tab first.
SidebarFree == \E a \in Tabs : slice[a].status # "streaming"

AskFor(op, s) ==
  /\ switches < MaxSwitches /\ switches' = switches + 1
  /\ requests' = requests \cup {[op |-> op, sess |-> s, was |-> active]}

handleSelect(s) ==
  /\ SidebarFree /\ s \in existing /\ s # active
  /\ clearAll /\ active' = s
  /\ AskFor("select", s)
  /\ UNCHANGED <<doc, threads, existing>>

\* A failed select keeps the previous document, and loads it under the new id.
SelectAnswered(q) ==
  /\ q \in requests /\ q.op = "select"
  /\ \/ q.sess \in existing /\ doc' = Fetched(q.sess)
     \/ doc' = doc
  /\ slice' = Loaded(slice, doc')
  /\ requests' = requests \ {q}
  /\ UNCHANGED <<orphans, xs, active, threads, existing, switches>>

handleCreate ==
  /\ SidebarFree /\ ~\E q \in requests : q.op = "create"
  /\ clearAll
  /\ AskFor("create", NoSession)
  /\ UNCHANGED <<active, doc, existing, threads>>

CreateAnswered(q) ==
  /\ q \in requests /\ q.op = "create"
  /\ \/ \E s \in Sessions \ existing :
          /\ threads[s] = [a \in Tabs |-> <<>>]
          /\ existing' = existing \cup {s} /\ active' = s /\ doc' = Fetched(s)
     \/ UNCHANGED <<existing, active, doc>>
  /\ requests' = requests \ {q}
  /\ UNCHANGED <<chatVars, xs, threads, switches>>

\* The store's part: the session that is active by now is closed when it is the deleted one.
deleteSession(s) ==
  \/ /\ existing' = existing \ {s}
     /\ IF active = s THEN active' = NoSession /\ doc' = [id |-> NoSession]
                      ELSE UNCHANGED <<active, doc>>
  \/ UNCHANGED <<existing, active, doc>>

handleDelete(s) ==
  /\ s \in existing /\ AskFor("delete", s)
  /\ UNCHANGED <<chatVars, xs, active, doc, existing, threads>>

\* The slices are cleared when the session was the active one at the click.
DeleteAnswered(q) ==
  /\ q \in requests /\ q.op = "delete"
  /\ deleteSession(q.sess)
  /\ IF q.was = q.sess THEN clearAll ELSE UNCHANGED <<chatVars, xs>>
  /\ requests' = requests \ {q}
  /\ UNCHANGED <<threads, switches>>

\* The document is replaced whatever session is active by now, or kept.
refreshActiveSession(s) == (s \in existing /\ doc' = Fetched(s)) \/ doc' = doc

\* The ids are synced when the document is of the session open as the stream completed.
RefreshAnswered(q) ==
  /\ q \in requests /\ q.op = "refresh" /\ refreshActiveSession(q.sess)
  /\ slice' = IF doc'.id = NoSession \/ doc'.id # q.was THEN slice
              ELSE [slice EXCEPT ![q.agent].msgs = SyncIds(@, doc'.threads[q.agent])]
  /\ requests' = requests \ {q}
  /\ UNCHANGED <<orphans, xs, active, threads, existing, switches>>

-----------------------------------------------------------------------------
Stream(k) ==
  \/ ImportFails(k) \/ ResponseStarts(k) \/ FetchFails(k) \/ ServerStores(k)
  \/ StreamEvent(k) \/ OnDone(k) \/ OnAborted(k) \/ OnError(k)
  \/ EndsSilently(k) \/ GoesSilent(k)
  \/ DelegationEvent(k) \/ DelegationEnds(k)

Switches ==
  \/ handleCreate
  \/ \E s \in Sessions : handleSelect(s)
  \/ \E q \in requests : SelectAnswered(q) \/ DeleteAnswered(q)

ClientNext ==
  \/ \E k \in Exchanges : Stream(k)
  \/ \E k \in Exchanges, a \in Tabs : sendMessage(a, k)
  \/ \E j, k \in Exchanges, a \in Tabs : DelegationStarts(k, j, a)
  \/ \E a \in Tabs : fireStreamTimeout(a) \/ abort(a)
  \/ Switches
  \/ \E s \in Sessions : handleDelete(s)
  \/ \E q \in requests : CreateAnswered(q) \/ RefreshAnswered(q)

(***************************************************************************)
(* Fairness.  The backend ends every turn it accepted (GenerationEnds of   *)
(* ChatTurn), so a connection that is not silent delivers a terminal       *)
(* event; an aborted fetch rejects; and an armed timer fires once nothing  *)
(* of its agent can reset it.  The user, the network and the delegations   *)
(* are under no obligation.                                                *)
(***************************************************************************)
Silent(a) == \A k \in Exchanges :
               ~(IsSend(k, {"open"}) /\ xs[k].agent = a)

ClientFairness ==
  /\ \A k \in Exchanges : WF_clientVars(OnDone(k) \/ OnAborted(k))
  /\ \A a \in Tabs : WF_clientVars(Silent(a) /\ fireStreamTimeout(a))

ClientSpec == ClientInit /\ [][ClientNext]_clientVars /\ ClientFairness

-----------------------------------------------------------------------------

\* Until the session is switched, a message once shown stays shown and in its
\* place: every asynchronous continuation adds to the list it finds when it
\* runs, never to one it read before it waited.
NoMessageVanishes ==
  [][~Switches => \A a \in Tabs :
        /\ Len(slice'[a].msgs) >= Len(slice[a].msgs)
        /\ \A i \in DOMAIN slice[a].msgs :
             /\ slice'[a].msgs[i].role = slice[a].msgs[i].role
             /\ slice[a].msgs[i].id # 0 => slice'[a].msgs[i].id = slice[a].msgs[i].id
    ]_clientVars

\* A tab that streams for the user stops streaming: by the terminal event, by
\* the Stop button, or by the idle timer when the stream is silent or ended
\* without a terminal event.
StreamingEnds ==
  \A a \in Tabs \ Delegates :
    slice[a].status = "streaming" ~> slice[a].status # "streaming"

\* What idSync.ts says of the ids it gives: no two messages of a list share one.
UniqueIds ==
  \A a \in Tabs : \A i, j \in DOMAIN slice[a].msgs :
    slice[a].msgs[i].id # 0 /\ slice[a].msgs[i] = slice[a].msgs[j] => i = j
=============================================================================
