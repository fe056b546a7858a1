------------------------------ MODULE InboundProofs ------------------------------
(***************************************************************************)
(* Theorems about PortForward: what its channels and its sync.Once keep,   *)
(* for any number of interruptions.  Theorems about the reverse tunnels:   *)
(* what their channel lets through, for any set of exposed ports, over any *)
(* connection that comes and goes.  Then the two together: every step of a *)
(* session is one of its port forward and one of its tunnels, to which the *)
(* port forward is that connection, so what is proved of the parts holds   *)
(* of the whole.                                                           *)
(***************************************************************************)
EXTENDS Inbound, TLAPS

-------------------------------------------------------------------------------
(* The port forward *)

\* The bounds that a natural number of heart beats may have.
LEMMA ZeroStopping == 0 \in 0..MaxStopping
  BY MaxStoppingAssumption

\* The initial attempt satisfies the inductive invariant.
LEMMA InitIInv == Init => IInv
<1> SUFFICES ASSUME Init PROVE IInv
  OBVIOUS
<1>1. TypeOK
  BY ZeroStopping DEF Init, TypeOK
<1>2. AbandonedIsStopped /\ NoTickerLeaks /\ GoneMeansEnded
  BY DEF Init, AbandonedIsStopped, MayServe, NoTickerLeaks, GoneMeansEnded
<1>3. OnceAndStop /\ AsleepIsStopped /\ OneAttempt /\ BegunFirst
  BY DEF Init, OnceAndStop, AsleepIsStopped, OneAttempt, BegunFirst
<1> QED
  BY <1>1, <1>2, <1>3 DEF IInv

\* Every step of the goroutine, the caller, the heart beats and the network
\* keeps it.
LEMMA NextIInv == IInv /\ [Next]_vars => IInv'
<1> SUFFICES ASSUME IInv, [Next]_vars PROVE IInv'
  OBVIOUS
<1> USE DEF IInv, AbandonedIsStopped, NoTickerLeaks, GoneMeansEnded, OnceAndStop,
        MayServe, AsleepIsStopped, OneAttempt, BegunFirst
<1>1. CASE CreateForwarder
  <2>1. TypeOK'
    BY <1>1 DEF TypeOK, CreateForwarder
  <2>2. AbandonedIsStopped' /\ NoTickerLeaks'
    BY <1>1 DEF TypeOK, CreateForwarder
  <2>3. GoneMeansEnded'
    BY <1>1 DEF TypeOK, CreateForwarder
  <2>4. OnceAndStop'
    BY <1>1 DEF TypeOK, CreateForwarder
  <2>5. AsleepIsStopped' /\ OneAttempt' /\ BegunFirst'
    BY <1>1 DEF TypeOK, CreateForwarder
  <2> QED
    BY <2>1, <2>2, <2>3, <2>4, <2>5
<1>2. CASE ForwardReady
  <2>1. TypeOK'
    BY <1>2 DEF TypeOK, ForwardReady
  <2> QED
    BY <1>2, <2>1 DEF TypeOK, ForwardReady
<1>3. CASE ForwardReturns
  <2>1. TypeOK'
    BY <1>3 DEF TypeOK, ForwardReturns
  <2> QED
    BY <1>3, <2>1 DEF TypeOK, ForwardReturns
\* The goroutine closes heartbeatStop unless the time-out has used the once, and
\* then there is no heart beat.
<1>4. CASE ForwardEnded
  <2>1. TypeOK'
    BY <1>4 DEF TypeOK, ForwardEnded, StopHeartbeat
  <2> QED
    BY <1>4, <2>1 DEF TypeOK, ForwardEnded, StopHeartbeat
\* A heart beat that is left behind can be stopped.
<1>5. CASE ReconnectForward
  <2>1. ticker = "on" => heartbeatStop
    BY <1>5 DEF ReconnectForward
  <2>2. leaked' = 0
    BY <1>5, <2>1 DEF ReconnectForward
  <2>3. stopping' \in 0..MaxStopping
    BY <1>5, MaxStoppingAssumption DEF TypeOK, ReconnectForward
  <2>4. TypeOK'
    BY <1>5, <2>2, <2>3 DEF TypeOK, ReconnectForward
  <2> QED
    BY <1>5, <2>2, <2>4 DEF TypeOK, ReconnectForward
<1>6. CASE CallerReady
  <2>1. TypeOK'
    BY <1>6 DEF TypeOK, CallerReady, Return
  <2>2. AbandonedIsStopped' /\ NoTickerLeaks'
    BY <1>6 DEF TypeOK, CallerReady, Return
  <2>3. GoneMeansEnded'
    BY <1>6 DEF TypeOK, CallerReady, Return
  <2>4. OnceAndStop'
    BY <1>6 DEF TypeOK, CallerReady, Return
  <2>5. AsleepIsStopped' /\ OneAttempt' /\ BegunFirst'
    BY <1>6 DEF TypeOK, CallerReady, Return
  <2> QED
    BY <2>1, <2>2, <2>3, <2>4, <2>5
<1>7. CASE CallerError
  <2>1. TypeOK'
    BY <1>7 DEF TypeOK, CallerError, Return
  <2>2. AbandonedIsStopped' /\ NoTickerLeaks'
    BY <1>7 DEF TypeOK, CallerError, Return
  <2>3. GoneMeansEnded'
    BY <1>7 DEF TypeOK, CallerError, Return
  <2>4. OnceAndStop'
    BY <1>7 DEF TypeOK, CallerError, Return
  <2>5. AsleepIsStopped' /\ OneAttempt' /\ BegunFirst'
    BY <1>7 DEF TypeOK, CallerError, Return
  <2> QED
    BY <2>1, <2>2, <2>3, <2>4, <2>5
\* The time-out uses the once for stop: nobody waits for heartbeatStop.
<1>8. CASE CallerTimeout
  <2>1. TypeOK'
    BY <1>8 DEF TypeOK, CallerTimeout, CloseStop, Return
  <2> QED
    BY <1>8, <2>1 DEF TypeOK, CallerTimeout, CloseStop, Return
<1>9. CASE StopTicker
  <2>1. TypeOK'
    BY <1>9 DEF TypeOK, StopTicker
  <2> QED
    BY <1>9, <2>1 DEF TypeOK, StopTicker
<1>10. CASE StopOldTicker
  <2>1. TypeOK'
    BY MaxStoppingAssumption, <1>10 DEF TypeOK, StopOldTicker, attempt
  <2> QED
    BY <1>10, <2>1 DEF TypeOK, StopOldTicker, attempt
<1>11. CASE Network
  <2>1. TypeOK'
    BY <1>11 DEF TypeOK, Network, attempt
  <2> QED
    BY <1>11, <2>1 DEF TypeOK, Network, attempt
<1>12. CASE UNCHANGED vars
  BY <1>12 DEF TypeOK, vars, attempt
<1> QED
  BY <1>1, <1>2, <1>3, <1>4, <1>5, <1>6, <1>7, <1>8, <1>9, <1>10, <1>11, <1>12
  DEF Next, Goroutine, Caller, Tickers

\* The inductive invariant holds however often the forward is interrupted.
THEOREM IInvCorrect == Spec => []IInv
  BY InitIInv, NextIInv, PTL DEF Spec

\* The forward of an attempt that was given up is told to stop, although stop and
\* heartbeatStop are closed through the same sync.Once; without reconnection that
\* holds of what the first caller was told for good.
THEOREM AbandonedIsStoppedCorrect == Spec => []AbandonedIsStopped
<1>1. IInv => AbandonedIsStopped
  BY DEF IInv
<1> QED
  BY <1>1, IInvCorrect, PTL

\* No heart beat is left that nobody can stop.
THEOREM NoTickerLeaksCorrect == Spec => []NoTickerLeaks
<1>1. IInv => NoTickerLeaks
  BY DEF IInv
<1> QED
  BY <1>1, IInvCorrect, PTL

-------------------------------------------------------------------------------
(* The tunnels, over any connection that comes and goes *)

\* The invariant that is proved holds at the start, ...
LEMMA TunnelsInit == T!Init => T!IInv
  BY DEF T!Init, T!IInv, T!TypeOK, T!State, T!OnePasses, T!NonePassesBefore, T!Passed

\* ... and every step of the caller, of a tunnel and of the network keeps it.
LEMMA TunnelsNext == T!IInv /\ [T!Next]_(T!vars) => T!IInv'
<1> SUFFICES ASSUME T!IInv, [T!Next]_(T!vars) PROVE T!IInv'
  OBVIOUS
<1> USE DEF T!IInv, T!TypeOK, T!State, T!OnePasses, T!NonePassesBefore, T!Passed, Usable
<1>1. ASSUME NEW t \in Tunnels, T!StartTunnel(t) PROVE T!IInv'
  BY <1>1 DEF T!StartTunnel, T!Becomes
<1>2. CASE T!BadMapping
  BY <1>2 DEF T!BadMapping
\* No tunnel has passed yet: the consumer will take the first error.
<1>3. CASE T!CallerTimeout
  BY <1>3 DEF T!CallerTimeout
<1>4. ASSUME NEW t \in Tunnels, T!Establish(t) PROVE T!IInv'
  BY <1>4 DEF T!Establish, T!Becomes
<1>5. ASSUME NEW t \in Tunnels, T!PortTaken(t) PROVE T!IInv'
  BY <1>5 DEF T!PortTaken, T!Becomes, T!Disconnected
<1>6. ASSUME NEW t \in Tunnels, T!NoConnection(t) PROVE T!IInv'
  BY <1>6 DEF T!NoConnection, T!Becomes
<1>7. ASSUME NEW t \in Tunnels, T!ConnectionLost(t) PROVE T!IInv'
  BY <1>7 DEF T!ConnectionLost, T!Becomes
<1>8. ASSUME NEW t \in Tunnels, T!PortFreed(t) PROVE T!IInv'
  BY <1>8 DEF T!PortFreed
\* The caller turns to the error, or the consumer is used up by this tunnel.
<1>9. ASSUME NEW t \in Tunnels, T!SendError(t) PROVE T!IInv'
  <2>1. T!TypeOK'
    BY <1>9 DEF T!SendError, T!Becomes
  <2>2. T!NonePassesBefore'
    BY <1>9 DEF T!SendError, T!Becomes
  <2>3. T!OnePasses'
    <3>1. CASE starter = "wait"
      BY <1>9, <3>1 DEF T!SendError, T!Becomes
    <3>2. CASE starter # "wait"
      <4>1. T!Passed = {} /\ consumer' = "done"
        BY <1>9, <3>2 DEF T!SendError
      <4>2. T!Passed' = {t}
        BY <1>9, <4>1 DEF T!SendError, T!Becomes
      <4> QED
        BY <4>1, <4>2
    <3> QED
      BY <3>1, <3>2
  <2> QED
    BY <2>1, <2>2, <2>3
<1>10. ASSUME NEW t \in Tunnels, T!Interrupted(t) PROVE T!IInv'
  BY <1>10 DEF T!Interrupted, T!Becomes
<1>11. ASSUME NEW t \in Tunnels, T!ReconnectTunnel(t) PROVE T!IInv'
  BY <1>11 DEF T!ReconnectTunnel, T!Becomes
<1>12. CASE T!Network
  BY <1>12 DEF T!Network
<1>13. CASE UNCHANGED T!vars
  BY <1>13 DEF T!vars
<1> QED
  BY <1>1, <1>2, <1>3, <1>4, <1>5, <1>6, <1>7, <1>8, <1>9, <1>10, <1>11, <1>12, <1>13
  DEF T!Next, T!Caller, T!Attempt

\* The inductive invariant holds for any number of exposed ports.
THEOREM TunnelsCorrect == T!Spec => []T!IInv
  BY TunnelsInit, TunnelsNext, PTL DEF T!Spec

\* While a session goes on, one tunnel at most has gone past its first error:
\* however many ports are exposed, res is read once.
THEOREM TunnelsOnePass == T!Spec => []T!OnePasses
<1>1. T!IInv => T!OnePasses
  BY DEF T!IInv
<1> QED
  BY <1>1, TunnelsCorrect, PTL

-------------------------------------------------------------------------------
(* The tunnels over the port forward *)

\* A step of the session is a step of its port forward or leaves it alone.
THEOREM ImplementsPortForward == InboundSpec => Spec
<1>1. InboundInit => Init
  BY DEF InboundInit
<1>2. [InboundNext]_all => [Next]_vars
  BY DEF InboundNext, PortForwardStep, ForwardRemotePorts, Tunnel, Daemon, all, Next
<1> QED
  BY <1>1, <1>2, PTL DEF InboundSpec, Spec

\* What is proved of a port forward holds below the tunnels.
THEOREM ForwardCorrect == InboundSpec => []IInv
  BY ImplementsPortForward, IInvCorrect, PTL

\* A step of the session is a step of its tunnels or leaves them alone: what
\* the port forward does is to them the network that comes and goes.
THEOREM ImplementsTunnels == InboundSpec => T!Spec
<1>1. InboundInit => T!Init
  BY DEF InboundInit
<1>2. [InboundNext]_all => [T!Next]_(T!vars)
  <2> SUFFICES ASSUME [InboundNext]_all PROVE [T!Next]_(T!vars)
    OBVIOUS
  <2>1. CASE PortForwardStep
    BY <2>1 DEF PortForwardStep, tunnels, T!Next, T!Network, T!vars, Usable
  <2>2. CASE ForwardRemotePorts
    BY <2>2 DEF ForwardRemotePorts, T!Next
  <2>3. ASSUME NEW t \in Tunnels, Tunnel(t) PROVE T!Next
    BY <2>3 DEF Tunnel, T!Next
  <2>4. ASSUME NEW t \in Tunnels, Daemon(t) PROVE T!Next
    BY <2>4 DEF Daemon, T!Next
  <2>5. CASE UNCHANGED all
    BY <2>5 DEF all, vars, attempt, tunnels, T!vars, Usable
  <2> QED
    BY <2>1, <2>2, <2>3, <2>4, <2>5 DEF InboundNext
<1> QED
  BY <1>1, <1>2, PTL DEF InboundSpec, T!Spec

\* Over the port forward as well, one tunnel at most gets past its first error
\* while the session goes on.
THEOREM OnePassesCorrect == InboundSpec => []OnePasses
  BY ImplementsTunnels, TunnelsOnePass, PTL DEF OnePasses
===============================================================================
