------------------------------ MODULE Channels ------------------------------
(***************************************************************************)
(* The fan-out of events to subscribers, in its three forms: the log       *)
(* broadcaster (replay buffer, called from any thread), the broadcaster of *)
(* a session's delegation events, and agentkit's bounded channel in front  *)
(* of one queue.  A behaviour uses the form chosen at its start.           *)
(*                                                                         *)
(* A record is its source and its number there.  A broadcast takes its     *)
(* snapshot under the lock and then, outside of it, hands the record to    *)
(* one subscriber after the other: on a running loop that only schedules   *)
(* put_nowait, whose QueueFull then ends in the loop's exception handler.  *)
(***************************************************************************)
EXTENDS Integers, Sequences, FiniteSets

CONSTANTS Sources,      \* the threads that broadcast
          Subscribers,
          MaxQueue,     \* depth of a subscriber's queue
          MaxBuffer,    \* length of the replay buffer
          MaxRecords,   \* bound: records of all sources
          MaxStrikes    \* failed deliveries in a row before the log prunes

ASSUME ChannelAssumption == /\ MaxQueue \in Nat \ {0} /\ MaxBuffer \in Nat
                            /\ MaxRecords \in Nat /\ MaxStrikes \in Nat \ {0}

VARIABLES form,       \* "log", "session" or "bounded"
          sent,       \* all records, in the order the lock was taken
          buffer,     \* the replay buffer
          underway,   \* per source: the record and who is still to get it
          registered, \* the broadcaster's subscribers
          streams,    \* per subscriber: phase, position, queue, callbacks, received
          strikes,
          loop,       \* the subscribers' event loop runs
          lost,       \* per subscriber: records that met a full queue
          drops       \* the bounded channel's counter

channelVars == <<form, sent, buffer, underway, registered, streams, strikes,
                 loop, lost, drops>>

Idle == [targets |-> {}]
Elements(s) == {s[i] : i \in DOMAIN s}
LastOf(s, n) == IF Len(s) <= n THEN s ELSE SubSeq(s, Len(s) - n + 1, Len(s))

Full(s) == Len(streams[s].queue) >= MaxQueue
Put(st, record) == [st EXCEPT !.queue = Append(@, record)]

\* The snapshot of the subscribers, and the record in the log's replay buffer.
Targets(record) == registered
Begin(source) ==
  /\ underway[source] = Idle /\ form # "bounded"
  /\ LET n == Cardinality({i \in DOMAIN sent : sent[i][1] = source}) + 1
         record == <<source, n>>
     IN /\ Len(sent) < MaxRecords
        /\ sent' = Append(sent, record)
        /\ buffer' = IF form = "log" THEN LastOf(Append(buffer, record), MaxBuffer) ELSE buffer
        /\ underway' = [underway EXCEPT ![source] =
                          IF Targets(record) = {} THEN Idle
                          ELSE [record |-> record, targets |-> Targets(record)]]
  /\ UNCHANGED <<form, registered, streams, strikes, loop, lost, drops>>

\* A failed delivery: the log prunes at the last strike, the session broadcaster at once.
Prunes(s) == form = "session" \/ strikes[s] + 1 >= MaxStrikes

\* The next subscriber of the snapshot, whether it is still registered or not.
Deliver(source, s) ==
  /\ underway[source] # Idle /\ s \in underway[source].targets
  /\ LET record == underway[source].record
         rest == underway[source].targets \ {s}
     IN /\ underway' = [underway EXCEPT ![source] =
                          IF rest = {} THEN Idle ELSE [@ EXCEPT !.targets = rest]]
        /\ \/ /\ loop
              /\ streams' = [streams EXCEPT ![s].callbacks = Append(@, record)]
              /\ strikes' = [strikes EXCEPT ![s] = 0]
              /\ UNCHANGED <<registered, lost>>
           \/ /\ ~loop /\ ~Full(s)
              /\ streams' = [streams EXCEPT ![s] = Put(@, record)]
              /\ strikes' = [strikes EXCEPT ![s] = 0]
              /\ UNCHANGED <<registered, lost>>
           \/ /\ ~loop /\ Full(s)
              /\ lost' = [lost EXCEPT ![s] = @ \cup {record}]
              /\ registered' = IF Prunes(s) THEN registered \ {s} ELSE registered
              /\ strikes' = [strikes EXCEPT ![s] = IF Prunes(s) THEN 0 ELSE @ + 1]
              /\ UNCHANGED streams
  /\ UNCHANGED <<form, sent, buffer, loop, drops>>

\* The loop runs a scheduled put_nowait.
RunCallback(s) ==
  /\ loop /\ streams[s].callbacks # <<>>
  /\ LET record == Head(streams[s].callbacks)
         rest == [streams[s] EXCEPT !.callbacks = Tail(@)]
     IN IF Full(s) THEN /\ lost' = [lost EXCEPT ![s] = @ \cup {record}]
                        /\ streams' = [streams EXCEPT ![s] = rest]
        ELSE streams' = [streams EXCEPT ![s] = Put(rest, record)] /\ UNCHANGED lost
  /\ UNCHANGED <<form, sent, buffer, underway, registered, strikes, loop, drops>>

\* publish: a full queue is still full when the marker is tried, so only the counter grows.
Publish(source, s) ==
  /\ form = "bounded" /\ loop /\ streams[s].phase = "live"
  /\ LET record == <<source, Cardinality({i \in DOMAIN sent : sent[i][1] = source}) + 1>>
     IN /\ Len(sent) < MaxRecords
        /\ sent' = Append(sent, record)
        /\ IF Full(s) THEN /\ drops' = drops + 1
                           /\ lost' = [lost EXCEPT ![s] = @ \cup {record}]
                           /\ UNCHANGED streams
           ELSE streams' = [streams EXCEPT ![s] = Put(@, record)] /\ UNCHANGED <<drops, lost>>
  /\ UNCHANGED <<form, buffer, underway, registered, strikes, loop>>

\* The replay of a new subscriber is read and the queue registered under one lock.
ReplayNever == <<>>
Replay == IF form = "log" THEN buffer ELSE <<>>
Remembered == IF form = "log" THEN MaxBuffer ELSE 0
Subscribe(s) ==
  /\ loop /\ streams[s].phase = "new"
  /\ form = "bounded" => \A t \in Subscribers : streams[t].phase = "new"
  /\ streams' = [streams EXCEPT ![s].phase = "live", ![s].replay = Replay,
                                ![s].from = Len(sent) + 1 - Len(LastOf(sent, Remembered))]
  /\ registered' = IF form = "bounded" THEN registered ELSE registered \cup {s}
  /\ UNCHANGED <<form, sent, buffer, underway, strikes, loop, lost, drops>>

\* The generator yields: first the replay, then the queue.
Pending(s) == IF streams[s].replay # <<>> THEN streams[s].replay ELSE streams[s].queue
Receive(s) ==
  /\ loop /\ streams[s].phase = "live" /\ Pending(s) # <<>>
  /\ streams' = [streams EXCEPT ![s].received = Append(@, Head(Pending(s))),
                   ![s].replay = IF @ # <<>> THEN Tail(@) ELSE @,
                   ![s].queue = IF streams[s].replay # <<>> THEN @ ELSE Tail(@)]
  /\ UNCHANGED <<form, sent, buffer, underway, registered, strikes, loop, lost, drops>>

\* The client disconnects: the queue is unregistered, broadcasts under way still reach it.
Unsubscribe(s) ==
  /\ loop /\ streams[s].phase = "live"
  /\ streams' = [streams EXCEPT ![s].phase = "gone"]
  /\ registered' = registered \ {s}
  /\ UNCHANGED <<form, sent, buffer, underway, strikes, loop, lost, drops>>

\* The server shuts down while other threads still log.
LoopStops == /\ loop /\ form # "bounded" /\ loop' = FALSE
             /\ UNCHANGED <<form, sent, buffer, underway, registered, streams, strikes,
                            lost, drops>>

ChannelInit ==
  /\ form \in {"log", "session", "bounded"}
  /\ sent = <<>> /\ buffer = <<>> /\ registered = {} /\ loop = TRUE /\ drops = 0
  /\ underway = [t \in Sources |-> Idle]
  /\ streams = [s \in Subscribers |-> [phase |-> "new", from |-> 1, replay |-> <<>>,
                                       queue |-> <<>>, callbacks |-> <<>>, received |-> <<>>]]
  /\ strikes = [s \in Subscribers |-> 0] /\ lost = [s \in Subscribers |-> {}]

ChannelNext ==
  \/ \E t \in Sources : Begin(t) \/ \E s \in Subscribers : Deliver(t, s) \/ Publish(t, s)
  \/ \E s \in Subscribers : RunCallback(s) \/ Subscribe(s) \/ Receive(s) \/ Unsubscribe(s)
  \/ LoopStops

(***************************************************************************)
(* Properties                                                              *)
(***************************************************************************)
\* What a subscriber has, will have or had to lose, in the order it gets it.
Stream(s) == streams[s].received \o streams[s].replay \o streams[s].queue \o streams[s].callbacks
UnderwayTo(s) == {underway[t].record : t \in {x \in Sources : underway[x] # Idle
                                                 /\ s \in underway[x].targets}}
Due(s) == {sent[i] : i \in streams[s].from..Len(sent)}

\* A subscriber gets every record from the start of its replay on, once, and those of
\* one thread in order, however broadcasts, subscriptions and callbacks interleave: a
\* record is missing only where the queue was full, and the channel counted it.
NothingLostUnseen ==
  \A s \in Subscribers : streams[s].phase = "live" =>
    LET stream == Stream(s) IN
    /\ Cardinality(Elements(stream)) = Len(stream)
    /\ loop => \A i, j \in DOMAIN stream :
         i < j /\ stream[i][1] = stream[j][1] => stream[i][2] < stream[j][2]
    /\ s \in registered \/ form = "bounded" =>
         Elements(stream) \cup UnderwayTo(s) \cup lost[s] = Due(s)
    /\ form = "bounded" => drops = Cardinality(lost[s])
=============================================================================
