------------------------------ MODULE Hosting ------------------------------
(***************************************************************************)
(* The hosting layer: a response of agentkit with everything it is layered *)
(* of, and the life of the server process.  The two share no state, so a   *)
(* behaviour follows the one that was chosen at its start.                 *)
(***************************************************************************)
EXTENDS HostedStream, AppShell

VARIABLE side   \* "response" or "process"

hostingVars == <<side, hostedVars, shellVars>>

HostingInit == side \in {"response", "process"} /\ HostedInit /\ ShellInit

Response(A) == side = "response" /\ A /\ UNCHANGED <<side, shellVars>>
Process(A) == side = "process" /\ A /\ UNCHANGED <<side, hostedVars>>

HostingNext == Response(HostedNext) \/ Process(ShellNext)

(***************************************************************************)
(* Fairness.  The event loop runs every layer and task that is ready and   *)
(* the timers fire; the calls of the warm-up end, by an answer or by the   *)
(* SDK's time limits.  The agent, the client, the server and the trace     *)
(* exporter may stay silent for ever.                                      *)
(***************************************************************************)
Fairness == /\ WF_hostingVars(Response(ChatSteps)) /\ WF_hostingVars(Response(KeeperSteps))
            /\ WF_hostingVars(Response(WatcherSteps))
            /\ WF_hostingVars(Process(WarmupSteps)) /\ WF_hostingVars(Process(CloseSteps))

HostingSpec == HostingInit /\ [][HostingNext]_hostingVars /\ Fairness

\* The warm-up ends in ready, and a shutdown in an end, whether Cosmos fails and the
\* trace exporter answers or not.
ProcessProgresses ==
  /\ side = "process" /\ process = "up" /\ startup = "warming" ~> startup = "ready" \/ process # "up"
  /\ side = "process" /\ process = "stopping" ~> process \in {"up", "down"}
=============================================================================
