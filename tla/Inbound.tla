---------------------------------- MODULE Inbound ----------------------------------
(***************************************************************************)
(* ForwardPodToLocal, pkg/kt/transmission/inbound.go: the reverse tunnels  *)
(* of a session run over one port forward to the SSH port of its shadow    *)
(* pod.  Both are set up again on their own when the connection is lost:   *)
(* the port forward (PortForward) after PortForwardTimeout, each tunnel    *)
(* (ReverseTunnel) ten seconds after it has failed.                        *)
(*                                                                         *)
(* The forward of a lane (SetupSessionPortForwardToLocal) carries no       *)
(* tunnels.                                                                *)
(***************************************************************************)
EXTENDS PortForward

CONSTANT Tunnels   \* the exposed ports

VARIABLES
  tunnel, res, consumer, taken,   \* as in ReverseTunnel
  starter                         \* the caller of the tunnels

tunnels == <<tunnel, res, consumer, taken, starter>>
all     == <<vars, tunnels>>

\* What listens on localSshPort is connected to the pod.
Usable == goroutine = "forward" /\ net

T == INSTANCE ReverseTunnel WITH caller <- starter, net <- Usable

InboundInit == Init /\ T!Init

\* ForwardPorts closes the connections it carries when it returns, long before
\* PortForwardTimeout is over.
ConnectionsClosed == goroutine = "sleep" => \A t \in Tunnels : tunnel[t] # "established"

PortForwardStep ==
  /\ Goroutine \/ ForwardReady \/ Caller \/ Tickers \/ Network
  /\ goroutine' = "create" => ConnectionsClosed
  /\ UNCHANGED tunnels

\* SetupPortForwardToLocal has returned without an error.
ForwardRemotePorts ==
  /\ reconnect /\ result = "ok"
  /\ UNCHANGED vars
  /\ T!Caller

Tunnel(t) == UNCHANGED vars /\ (T!Attempt(t) \/ T!SendError(t))
Daemon(t) == UNCHANGED vars /\ T!PortFreed(t)

InboundNext ==
  \/ PortForwardStep
  \/ ForwardRemotePorts
  \/ \E t \in Tunnels : Tunnel(t) \/ Daemon(t)

InboundSpec == InboundInit /\ [][InboundNext]_all

\* Everything PortForward and ReverseTunnel assume: goroutines run, dials and
\* timers end, who waits at a channel is served in turn, and a pod that can be
\* reached again and again is reached before the time-out some time.
InboundFairSpec ==
  /\ InboundSpec
  /\ WF_all(CreateForwarder /\ UNCHANGED tunnels) /\ WF_all(ForwardReturns /\ UNCHANGED tunnels)
  /\ WF_all(ForwardEnded /\ UNCHANGED tunnels) /\ WF_all(Caller /\ UNCHANGED tunnels)
  /\ WF_all(ReconnectForward /\ ConnectionsClosed /\ UNCHANGED tunnels)
  /\ WF_all(StopTicker /\ UNCHANGED tunnels) /\ WF_all(StopOldTicker /\ UNCHANGED tunnels)
  /\ SF_all(ForwardReady /\ caller = "wait" /\ UNCHANGED tunnels)
  /\ SF_all(CallerReady /\ UNCHANGED tunnels)
  /\ WF_all(ForwardRemotePorts)
  /\ \A t \in Tunnels :
       WF_all(UNCHANGED vars /\ T!Attempt(t)) /\ WF_all(UNCHANGED vars /\ T!SendError(t))

-------------------------------------------------------------------------------
(* Properties, besides those of PortForward *)

\* While the session goes on, one tunnel at most has gone past its first error:
\* res is read once, however many ports are exposed.
OnePasses == T!OnePasses

\* The first tunnel that fails after the first second is set up again when the
\* pod can be reached, over the port forward that is set up again below it: a
\* session of one exposed port survives every loss of the connection.
FirstReconnects ==
  (<>(starter = "ok") /\ <>[]net) => <>[](\E t \in Tunnels : tunnel[t] = "established")

\* Every tunnel of a session is set up again when the network has recovered, as
\* the change log says.
AllReconnect ==
  (<>(starter = "ok") /\ <>[]net) => <>[](\A t \in Tunnels : tunnel[t] = "established")
===============================================================================
