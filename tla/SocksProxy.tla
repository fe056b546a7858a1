--------------------------------- MODULE SocksProxy ---------------------------------
(***************************************************************************)
(* The SOCKS proxy of ktctl connect and its reconnection,                  *)
(* startSocks5Connection of connect/tun2socks.go: a caller waits one       *)
(* second for a failure of the proxy that a goroutine runs; the goroutine  *)
(* makes the next call ten seconds after the proxy has ended.  The first   *)
(* caller is the main goroutine, every other one is the goroutine of the   *)
(* call before.  They share gone and ticker without a lock; a read is      *)
(* taken to return what was written last.                                  *)
(***************************************************************************)
EXTENDS Naturals

CONSTANT MaxFailures   \* how often the proxy ends

ASSUME SocksAssumption == MaxFailures \in Nat

VARIABLES
  caller,      \* "none", "select", "beat", "established" or "error"
  proxy,       \* the goroutine: "none", "running", "ended", "sending", "quiet", "waiting"
  gone,        \* the call has returned without an error
  ticker,      \* the heart beat of this call: "none", "ticking" or "stopped"
  early,       \* history: this goroutine has read gone before it was set
  failures

socksVars == <<caller, proxy, gone, ticker, early, failures>>

SocksInit ==
  /\ caller = "none" /\ proxy = "none" /\ ticker = "none"
  /\ gone = FALSE /\ early = FALSE
  /\ failures = 0

StartSocks5Connection ==
  /\ caller' = "select" /\ proxy' = "running" /\ ticker' = "none"
  /\ gone' = FALSE /\ early' = FALSE

FirstConnection ==
  /\ caller = "none"
  /\ StartSocks5Connection
  /\ UNCHANGED failures

\* StartSocks5Proxy returns: its port is taken, or its listener fails.
ProxyEnds ==
  /\ proxy = "running"
  /\ failures < MaxFailures
  /\ failures' = failures + 1
  /\ proxy' = "ended"
  /\ UNCHANGED <<caller, gone, ticker, early>>

\* Mutant: the error is sent whether somebody waits for it or not.
AlwaysSends == TRUE

Sends == ~gone

ReadGone ==
  /\ proxy = "ended"
  /\ early' = ~gone
  /\ proxy' = IF Sends THEN "sending" ELSE "quiet"
  /\ UNCHANGED <<caller, gone, ticker, failures>>

\* res is not buffered.
Receive ==
  /\ caller = "select" /\ proxy = "sending"
  /\ caller' = "error" /\ proxy' = "quiet"
  /\ UNCHANGED <<gone, ticker, early, failures>>

StopTicker ==
  /\ proxy = "quiet"
  /\ proxy' = "waiting"
  /\ ticker' = IF ticker = "none" THEN "none" ELSE "stopped"
  /\ UNCHANGED <<caller, gone, early, failures>>

\* The goroutine calls startSocks5Connection itself; its caller has returned.
Reconnect ==
  /\ proxy = "waiting"
  /\ StartSocks5Connection
  /\ UNCHANGED failures

\* One second is over.
SetupSocks5HeartBeat ==
  /\ caller = "select"
  /\ caller' = "beat" /\ ticker' = "ticking"
  /\ UNCHANGED <<proxy, gone, early, failures>>

MarkGone ==
  /\ caller = "beat"
  /\ caller' = "established" /\ gone' = TRUE
  /\ UNCHANGED <<proxy, ticker, early, failures>>

SocksNext ==
  \/ ProxyEnds \/ ReadGone \/ Receive \/ StopTicker \/ Reconnect
  \/ SetupSocks5HeartBeat \/ MarkGone

SocksType ==
  /\ caller \in {"none", "select", "beat", "established", "error"}
  /\ proxy \in {"none", "running", "ended", "sending", "quiet", "waiting"}
  /\ ticker \in {"none", "ticking", "stopped"}
  /\ {gone, early} \subseteq BOOLEAN
  /\ failures \in 0..MaxFailures
================================================================================
