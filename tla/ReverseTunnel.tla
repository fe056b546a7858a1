------------------------------ MODULE ReverseTunnel ------------------------------
(***************************************************************************)
(* ForwardRemotePortsViaSshTunnel, pkg/kt/transmission/inbound.go, and     *)
(* ForwardRemoteToLocal, pkg/kt/service/sshchannel/ssh.go: one goroutine   *)
(* per exposed port listens on the shadow pod through SSH, and begins      *)
(* again ten seconds after it has failed.  The caller waits a second for   *)
(* the first error.  They share the channel res, which has no buffer.      *)
(*                                                                         *)
(* The connections that are accepted are left out (handleRequest goes on   *)
(* whatever becomes of them).                                              *)
(***************************************************************************)
CONSTANT Tunnels   \* the exposed ports

VARIABLES
  tunnel,    \* [Tunnels -> State]
  res,       \* [Tunnels -> BOOLEAN]: does sshReverseTunnel have a channel?
  caller,    \* "start", "wait", "ok" or "error"
  consumer,  \* of the goroutine that takes a value off res: "none", "wait" or "done"
  taken,     \* remote ports held by the SSH session of an attempt before
  net        \* can an SSH session be set up?

vars == <<tunnel, res, caller, consumer, taken, net>>

\* "failed" is blocked at res <- err, when there is a channel.
State == {"none", "connect", "established", "failed", "sleep"}

Init ==
  /\ tunnel = [t \in Tunnels |-> "none"]
  /\ res = [t \in Tunnels |-> TRUE]
  /\ caller = "start" /\ consumer = "none"
  /\ taken = {}
  /\ net \in BOOLEAN

Becomes(t, s) == tunnel' = [tunnel EXCEPT ![t] = s]

-------------------------------------------------------------------------------
(* The caller *)

\* One turn of the loop over the exposed ports, the last of which leads to the
\* select.
StartTunnel(t) ==
  /\ caller = "start" /\ tunnel[t] = "none"
  /\ Becomes(t, "connect")
  /\ caller' = IF \E u \in Tunnels \ {t} : tunnel[u] = "none" THEN "start" ELSE "wait"
  /\ UNCHANGED <<res, consumer, taken, net>>

\* ParsePortMapping fails, after some tunnels were started.
BadMapping ==
  /\ caller = "start"
  /\ caller' = "error"
  /\ UNCHANGED <<tunnel, res, consumer, taken, net>>

\* Mutant: nobody takes a value off res after the first second.
NoConsumer ==
  /\ caller = "wait"
  /\ caller' = "ok"
  /\ UNCHANGED <<tunnel, res, consumer, taken, net>>

\* A second without an error: the caller is content.
CallerTimeout ==
  /\ caller = "wait"
  /\ caller' = "ok" /\ consumer' = "wait"
  /\ UNCHANGED <<tunnel, res, taken, net>>

-------------------------------------------------------------------------------
(* A tunnel *)

\* dialer.Listen succeeds.
Establish(t) ==
  /\ tunnel[t] = "connect" /\ net /\ t \notin taken
  /\ Becomes(t, "established")
  /\ UNCHANGED <<res, caller, consumer, taken, net>>

\* disconnectRemotePort
Disconnected(t) == taken \ {t}

\* dialer.Listen fails: the remote port is held by the session of an attempt
\* before, which disconnectRemotePort ends for the next one.
PortTaken(t) ==
  /\ tunnel[t] = "connect" /\ net /\ t \in taken
  /\ Becomes(t, "failed")
  /\ taken' = Disconnected(t)
  /\ UNCHANGED <<res, caller, consumer, net>>

NoConnection(t) ==
  /\ tunnel[t] = "connect" /\ ~net
  /\ Becomes(t, "failed")
  /\ UNCHANGED <<res, caller, consumer, taken, net>>

\* Accept ends with io.EOF: the connection is lost here, and the pod may notice
\* it later.
ConnectionLost(t) ==
  /\ tunnel[t] = "established" /\ ~net
  /\ Becomes(t, "failed")
  /\ taken' \in {taken, taken \cup {t}}
  /\ UNCHANGED <<res, caller, consumer, net>>

\* The SSH daemon of the pod ends a session that is lost.
PortFreed(t) ==
  /\ t \in taken
  /\ taken' = taken \ {t}
  /\ UNCHANGED <<tunnel, res, caller, consumer, net>>

\* res <- err: there is a receiver, the caller or the consumer.
SendError(t) ==
  /\ tunnel[t] = "failed" /\ res[t]
  /\ \/ caller = "wait" /\ caller' = "error" /\ UNCHANGED consumer
     \/ consumer = "wait" /\ consumer' = "done" /\ UNCHANGED caller
  /\ Becomes(t, "sleep")
  /\ UNCHANGED <<res, taken, net>>

\* There is no channel from the second attempt on.
Interrupted(t) ==
  /\ tunnel[t] = "failed" /\ ~res[t]
  /\ Becomes(t, "sleep")
  /\ UNCHANGED <<res, caller, consumer, taken, net>>

\* sshReverseTunnel(..., nil)
ReconnectTunnel(t) ==
  /\ tunnel[t] = "sleep"
  /\ Becomes(t, "connect")
  /\ res' = [res EXCEPT ![t] = FALSE]
  /\ UNCHANGED <<caller, consumer, taken, net>>

\* The connection to the pod is lost and comes back.
Network ==
  /\ net' = ~net
  /\ UNCHANGED <<tunnel, res, caller, consumer, taken>>

-------------------------------------------------------------------------------

Caller == (\E t \in Tunnels : StartTunnel(t)) \/ BadMapping \/ CallerTimeout

Attempt(t) ==
  Establish(t) \/ PortTaken(t) \/ NoConnection(t) \/ ConnectionLost(t) \/ Interrupted(t)
    \/ ReconnectTunnel(t)

Next ==
  \/ Caller
  \/ \E t \in Tunnels : Attempt(t) \/ SendError(t) \/ PortFreed(t)
  \/ Network

Spec == Init /\ [][Next]_vars

-------------------------------------------------------------------------------
(* Properties *)

\* The variables have the values given where they are declared.
TypeOK ==
  /\ tunnel \in [Tunnels -> State]
  /\ res \in [Tunnels -> BOOLEAN]
  /\ caller \in {"start", "wait", "ok", "error"}
  /\ consumer \in {"none", "wait", "done"}
  /\ taken \subseteq Tunnels
  /\ net \in BOOLEAN

\* The tunnels that have gone past their first error.
Passed == {t \in Tunnels : ~res[t] \/ tunnel[t] = "sleep"}

\* The value that the consumer takes off res is the error of one tunnel: while
\* the session goes on, one tunnel at most has gone past its first error, and
\* the consumer has waited for it.
OnePasses ==
  caller = "ok" => /\ \A t, u \in Passed : t = u
                   /\ Passed = {} <=> consumer = "wait"

\* What the proofs need besides: before that, no tunnel has gone past it.
NonePassesBefore ==
  /\ caller # "ok" => consumer = "none"
  /\ caller \in {"start", "wait"} => Passed = {}
  /\ caller = "ok" => consumer \in {"wait", "done"}

IInv ==
  /\ TypeOK
  /\ OnePasses
  /\ NonePassesBefore
===============================================================================
