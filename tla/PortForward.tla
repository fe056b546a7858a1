------------------------------- MODULE PortForward -------------------------------
(***************************************************************************)
(* setupPortForwardToLocal, pkg/kt/transmission/portforward.go: a goroutine *)
(* forwards a local port to a pod until the connection is lost, and then   *)
(* calls setupPortForwardToLocal again; the caller waits until it is ready *)
(* or a time-out.  A third goroutine stops the heart beat of the forward   *)
(* when it ends.  They meet in the channels ready, errCh, stop and         *)
(* heartbeatStop, of which the last two are closed through one sync.Once.  *)
(*                                                                         *)
(* Each call has its own channels, and the one who waits in its select:    *)
(* the first call the code that set the forward up, every later one the    *)
(* goroutine of the call before.  The model follows the last call and      *)
(* keeps what the first one returned; of those between only heart beats    *)
(* may be left.  The goroutine sleeps as long as the caller of its own     *)
(* attempt waits at most, so that this has returned by then.               *)
(***************************************************************************)
EXTENDS Naturals

CONSTANT
  MaxStopping    \* bound on heart beats of earlier attempts still to stop

ASSUME MaxStoppingAssumption == MaxStopping \in Nat \ {0}

VARIABLES
  reconnect,   \* SetupPortForwardToLocal, or SetupSessionPortForwardToLocal
  goroutine,   \* "create", "dial", "forward", "returned", "sleep" or "ended"
  caller,      \* of the current attempt: "wait", "ok" or "error"
  ready, stop, heartbeatStop, \* of the current attempt: is the channel closed?
  stopOnce,    \* has it been used?
  errCh,       \* does it hold an error?
  ticker,      \* heart beat of the current attempt: "none", "on" or "stopped"
  stopping,    \* heart beats of earlier attempts whose heartbeatStop is closed
  leaked,      \* ... and of those for which it will never be
  isInitConnect,
  result,      \* what the first call returned: "none", "ok" or "error"
  gone,        \* is it closed?
  net          \* can the pod be reached?

attempt == <<goroutine, caller, ready, stop, heartbeatStop, stopOnce, errCh, ticker>>
vars    == <<reconnect, attempt, stopping, leaked, isInitConnect, result, gone, net>>

Init ==
  /\ reconnect \in BOOLEAN
  /\ goroutine = "create" /\ caller = "wait"
  /\ ready = FALSE /\ stop = FALSE /\ heartbeatStop = FALSE
  /\ stopOnce = FALSE /\ errCh = FALSE
  /\ ticker = "none" /\ stopping = 0 /\ leaked = 0
  /\ isInitConnect = TRUE /\ result = "none"
  /\ gone = FALSE
  /\ net \in BOOLEAN

-------------------------------------------------------------------------------
(* The goroutine *)

\* createPortForwarder depends on parameters and configuration only: it fails
\* at the first attempt or never.
CreateForwarder ==
  /\ goroutine = "create"
  /\ \/ /\ goroutine' = "dial"
        /\ UNCHANGED <<errCh, gone>>
     \/ /\ isInitConnect
        /\ goroutine' = "ended" /\ errCh' = TRUE /\ gone' = TRUE
  /\ UNCHANGED <<reconnect, caller, ready, stop, heartbeatStop, stopOnce, ticker, stopping,
                 leaked, isInitConnect, result, net>>

\* ForwardPorts has dialled and listens.
ForwardReady ==
  /\ goroutine = "dial" /\ net
  /\ goroutine' = "forward" /\ ready' = TRUE
  /\ UNCHANGED <<reconnect, caller, stop, heartbeatStop, stopOnce, errCh, ticker, stopping,
                 leaked, isInitConnect, result, gone, net>>

\* ForwardPorts returns: no connection, no local port, or told to stop.
ForwardReturns ==
  /\ \/ goroutine = "dial"
     \/ goroutine = "forward" /\ (stop \/ ~net)
  /\ goroutine' = "returned"
  /\ UNCHANGED <<reconnect, caller, ready, stop, heartbeatStop, stopOnce, errCh, ticker,
                 stopping, leaked, isInitConnect, result, gone, net>>

\* Mutant: the heart beat goes on when the forward has ended.
HeartbeatForgotten == UNCHANGED <<heartbeatStop, stopOnce>>

\* closeStop(heartbeatStop, stopOnce)
StopHeartbeat ==
  /\ stopOnce' = TRUE
  /\ heartbeatStop' = (heartbeatStop \/ ~stopOnce)

\* closeStop(heartbeatStop), closeGone
ForwardEnded ==
  /\ goroutine = "returned"
  /\ StopHeartbeat
  /\ \/ reconnect /\ goroutine' = "sleep" /\ UNCHANGED gone
     \/ ~reconnect /\ goroutine' = "ended" /\ gone' = TRUE
  /\ UNCHANGED <<reconnect, caller, ready, stop, errCh, ticker, stopping, leaked, isInitConnect,
                 result, net>>

\* Mutant: the goroutine ends after the interruption.
ReconnectNever == FALSE

\* The next attempt, also when the first caller has been told of a time-out and knows
\* nothing of it: new channels, and the goroutine becomes its caller.
ReconnectForward ==
  /\ goroutine = "sleep" /\ caller # "wait" /\ stopping < MaxStopping
  /\ goroutine' = "create" /\ caller' = "wait" /\ isInitConnect' = FALSE
  /\ ready' = FALSE /\ stop' = FALSE /\ heartbeatStop' = FALSE
  /\ stopOnce' = FALSE /\ errCh' = FALSE /\ ticker' = "none"
  /\ stopping' = IF ticker = "on" /\ heartbeatStop THEN stopping + 1 ELSE stopping
  /\ leaked' = IF ticker = "on" /\ ~heartbeatStop THEN leaked + 1 ELSE leaked
  /\ UNCHANGED <<reconnect, result, gone, net>>

-------------------------------------------------------------------------------
(* The caller's select *)

\* Only the first call has a caller that looks at what it returns.
Return(r) ==
  /\ caller' = r
  /\ result' = IF isInitConnect THEN r ELSE result

CallerReady ==
  /\ caller = "wait" /\ ready
  /\ ticker' = "on"
  /\ Return("ok")
  /\ UNCHANGED <<reconnect, goroutine, ready, stop, heartbeatStop, stopOnce, errCh, stopping,
                 leaked, isInitConnect, gone, net>>

CallerError ==
  /\ caller = "wait" /\ errCh
  /\ errCh' = FALSE
  /\ Return("error")
  /\ UNCHANGED <<reconnect, goroutine, ready, stop, heartbeatStop, stopOnce, ticker, stopping,
                 leaked, isInitConnect, gone, net>>

\* Mutant: the two channels are closed in the other order.
CloseHeartbeatFirst ==
  /\ stopOnce' = TRUE
  /\ heartbeatStop' = (heartbeatStop \/ ~stopOnce)
  /\ UNCHANGED stop

\* closeStop(stop, stopOnce), closeStop(heartbeatStop, stopOnce): the second
\* does nothing.
CloseStop ==
  /\ stopOnce' = TRUE
  /\ stop' = (stop \/ ~stopOnce)
  /\ UNCHANGED heartbeatStop

CallerTimeout ==
  /\ caller = "wait" /\ goroutine # "create"
  /\ CloseStop
  /\ Return("error")
  /\ UNCHANGED <<reconnect, goroutine, ready, errCh, ticker, stopping, leaked, isInitConnect,
                 gone, net>>

\* <-heartbeatStop; ticker.Stop()
StopTicker ==
  /\ ticker = "on" /\ heartbeatStop
  /\ ticker' = "stopped"
  /\ UNCHANGED <<reconnect, goroutine, caller, ready, stop, heartbeatStop, stopOnce, errCh,
                 stopping, leaked, isInitConnect, result, gone, net>>

StopOldTicker ==
  /\ stopping > 0
  /\ stopping' = stopping - 1
  /\ UNCHANGED <<reconnect, attempt, leaked, isInitConnect, result, gone, net>>

\* The connection to the pod is lost and comes back.
Network ==
  /\ net' = ~net
  /\ UNCHANGED <<reconnect, attempt, stopping, leaked, isInitConnect, result, gone>>

-------------------------------------------------------------------------------

Goroutine == CreateForwarder \/ ForwardReturns \/ ForwardEnded \/ ReconnectForward
Caller == CallerReady \/ CallerError \/ CallerTimeout
Tickers == StopTicker \/ StopOldTicker

Next == Goroutine \/ ForwardReady \/ Caller \/ Tickers \/ Network

Spec == Init /\ [][Next]_vars

-------------------------------------------------------------------------------
(* Properties *)

\* The variables have the values given where they are declared.
TypeOK ==
  /\ goroutine \in {"create", "dial", "forward", "returned", "sleep", "ended"}
  /\ caller \in {"wait", "ok", "error"}
  /\ reconnect \in BOOLEAN /\ isInitConnect \in BOOLEAN
  /\ ready \in BOOLEAN /\ stop \in BOOLEAN /\ heartbeatStop \in BOOLEAN
  /\ stopOnce \in BOOLEAN /\ errCh \in BOOLEAN
  /\ gone \in BOOLEAN /\ net \in BOOLEAN
  /\ ticker \in {"none", "on", "stopped"}
  /\ stopping \in 0..MaxStopping /\ leaked \in Nat
  /\ result \in {"none", "ok", "error"}

MayServe == goroutine \in {"dial", "forward"}

\* stop and heartbeatStop share one sync.Once.  The forward of an attempt that its
\* caller has given up is told to stop all the same: the once is free as long as the
\* goroutine may get ready.  Where the forward does not reconnect, the forward of a
\* lane, that is the end of it: what the first caller has given up stays told to
\* stop.  Where it does reconnect, nothing of the kind can be said: after its sleep
\* the goroutine makes a call of its own, whatever the first caller was told.
AbandonedIsStopped ==
  /\ caller = "error" /\ MayServe => stop
  /\ ~reconnect /\ result = "error" /\ MayServe => stop

\* No heart beat of a forward is left without anybody to stop it, however often
\* the forward is lost and set up again.
NoTickerLeaks == leaked = 0

\* The channel gone is closed only when nobody will forward the port any more:
\* a session that ends on it does not end for an interruption that is repaired.
GoneMeansEnded == gone => goroutine = "ended"

\* What the proofs need besides: the once is used up by stop only after a
\* time-out, when there is no heart beat, ...
OnceAndStop ==
  /\ goroutine \in {"create", "dial", "forward"} /\ ~stop => ~stopOnce
  /\ caller = "wait" => ~stop /\ ticker = "none"
  /\ caller = "wait" \/ ticker # "none" => (stopOnce => heartbeatStop)

\* ... it is used up before the goroutine sleeps, ...
AsleepIsStopped == goroutine = "sleep" => stopOnce

\* ... a forward that does not reconnect has one attempt, ...
OneAttempt == ~reconnect => goroutine # "sleep" /\ (result = "error" => caller = "error")

\* ... and the caller leaves an attempt only after the goroutine has begun it.
BegunFirst ==
  /\ goroutine = "create" => caller = "wait" /\ ~ready
  /\ errCh => goroutine = "ended"

IInv ==
  /\ TypeOK
  /\ AbandonedIsStopped
  /\ NoTickerLeaks
  /\ GoneMeansEnded
  /\ OnceAndStop
  /\ AsleepIsStopped
  /\ OneAttempt
  /\ BegunFirst

\* A forward that was established is established again after every
\* interruption, when the pod can be reached.
Reconnects ==
  (reconnect /\ <>(result = "ok") /\ <>[]net) => <>[](goroutine = "forward")
===============================================================================
