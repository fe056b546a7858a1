------------------------------- MODULE ConnectSession -------------------------------
(***************************************************************************)
(* One process of `ktctl connect`, in tun2socks mode with local DNS on     *)
(* Linux: SetupProcess, the steps of ByTun2Socks and setupDns, the wait    *)
(* for a signal, CleanupWorkspace.  Beside the main goroutine run the      *)
(* watcher of the PID file, the ones that wait for a signal to stop the    *)
(* tun device and to restore the name server, those that write the hosts   *)
(* file when Services or pods change, and, for a lane, those that end the  *)
(* session when a port forward is gone.                                    *)
(*                                                                         *)
(* A signal goes to every channel registered for it.  The main goroutine's *)
(* has no buffer: the signal is dropped unless main is waiting.  The other *)
(* channels hold one.                                                      *)
(*                                                                         *)
(* The shadow pod is the session's own (SharedShadow has the shared one).  *)
(***************************************************************************)
EXTENDS HostsFile

CONSTANT Scenarios   \* records of a lane or not, the informers and what the environment does

Watchers == Writers \ {"main"}   \* callbacks of WatchService and WatchPod
Forwards == {"ssh", "dns"}
Sources == Forwards \cup {"user", "hangup"}   \* SIGINT or SIGTERM; SIGHUP or SIGQUIT

ASSUME SessionAssumption ==
  /\ {"main"} \subseteq Writers /\ "nobody" \notin Writers
  /\ Scenarios \subseteq [lane : BOOLEAN, watchers : SUBSET Watchers,
                           events : SUBSET {"user", "hangup", "pidfile"}]

SetupSteps == {"process", "shadow", "filter", "forward ssh", "socks", "device", "route",
                 "dump hosts", "dumping", "forward dns", "local dns", "name server"}
CleanupSteps == {"files", "drop hosts", "dropping", "stop device", "stopping", "stopped",
                 "config map", "pod", "filter by name", "filter by label"}
Ended == {"exited", "aborted"}

VARIABLES
  scenario,   \* which lane and watchers this process has
  main,       \* where the main goroutine is
  store,      \* the fields of opt.Store that are set
  cluster,    \* what the session has created in the cluster
  missed,     \* a removal of the tear-down has failed
  forward,    \* the forwards of a lane: none, up, gone, told
  watching,   \* watchServicesAndPods has been called
  registered, \* the goroutines whose channel is registered for SIGINT and SIGTERM
  inbox,      \* those whose channel holds a signal
  dropped,    \* history: the sources of signals that set-up has missed
  pidFile,    \* the PID file exists
  pidWatcher, \* its watcher
  engine,     \* the tun2socks engine
  stopMu,     \* who is inside Shutdown
  stopped,    \* the guard of Shutdown
  tunWaiter,  \* the goroutine of ToSocks
  dnsWaiter,  \* the goroutine of SetNameServer
  redirect,   \* iptables redirects port 53 to the local server
  resolver    \* resolv.conf names the local server

local == <<engine, stopMu, stopped, tunWaiter, dnsWaiter, redirect, resolver>>
signals == <<registered, inbox, dropped>>
pid == <<pidFile, pidWatcher>>
remote == <<store, cluster, missed>>
vars == <<scenario, main, remote, forward, watching, signals, pid, local, hosts>>

Lane == scenario.lane

SessionType ==
  /\ scenario \in Scenarios
  /\ main \in SetupSteps \cup CleanupSteps \cup Ended \cup {"ready"}
  /\ store \subseteq {"Shadow", "LaneEnvoyFilter"}
  /\ cluster \subseteq {"configmap", "pod", "envoyfilter"}
  /\ missed \in BOOLEAN
  /\ forward \in [Forwards -> {"none", "up", "gone", "told"}]
  /\ watching \in BOOLEAN
  /\ registered \subseteq {"tun", "dns"} /\ inbox \subseteq {"tun", "dns"}
  /\ dropped \subseteq Sources
  /\ pidFile \in BOOLEAN /\ pidWatcher \in {"none", "new", "watching", "sending", "over"}
  /\ engine \in {"none", "running", "stopped"}
  /\ stopMu \in {"free", "tun", "main"} /\ stopped \in BOOLEAN
  /\ tunWaiter \in {"none", "new", "waiting", "stop", "stopping", "stopped", "over"}
  /\ dnsWaiter \in {"none", "iptables", "resolv", "answered", "waiting",
                    "restore resolv", "restore iptables", "over"}
  /\ redirect \in BOOLEAN /\ resolver \in BOOLEAN

Init ==
  /\ HostsInit
  /\ scenario \in Scenarios
  /\ main = "process"
  /\ store = {} /\ cluster = {} /\ missed = FALSE
  /\ forward = [f \in Forwards |-> "none"] /\ watching = FALSE
  /\ registered = {} /\ inbox = {} /\ dropped = {}
  /\ pidFile = FALSE /\ pidWatcher = "none"
  /\ engine = "none" /\ stopMu = "free" /\ stopped = FALSE
  /\ tunWaiter = "none" /\ dnsWaiter = "none"
  /\ redirect = FALSE /\ resolver = FALSE

Alive == main \notin Ended

\* An error of RunE: main.go logs it and goes on to CleanupWorkspace.
Fails == main' = "files"

-------------------------------------------------------------------------------
(* Set-up: Connect, ByTun2Socks, setupDns *)

SetupProcess ==
  /\ main = "process"
  /\ \/ main' = "shadow" /\ pidFile' = TRUE /\ pidWatcher' = "new"
     \/ Fails /\ UNCHANGED pid
  /\ UNCHANGED <<scenario, remote, forward, watching, signals, local, hosts>>

\* Store.Shadow is set first; then the config map, then the pod.
GetOrCreateShadow ==
  /\ main = "shadow"
  /\ store' = store \cup {"Shadow"}
  /\ \/ cluster' = {"configmap", "pod"} /\ main' = IF Lane THEN "filter" ELSE "forward ssh"
     \/ cluster' \in {{}, {"configmap"}, {"configmap", "pod"}} /\ Fails
  /\ UNCHANGED <<scenario, missed, forward, watching, signals, pid, local, hosts>>

\* An answer that is lost leaves the filter without its name in opt.Store.
ApplyLaneEnvoyFilter ==
  /\ main = "filter"
  /\ \/ /\ cluster' = cluster \cup {"envoyfilter"}
        /\ store' = store \cup {"LaneEnvoyFilter"}
        /\ main' = "forward ssh"
     \/ cluster' \in {cluster, cluster \cup {"envoyfilter"}} /\ Fails /\ UNCHANGED store
  /\ UNCHANGED <<scenario, missed, forward, watching, signals, pid, local, hosts>>

\* The forward of a session without a lane reconnects (PortForward).
SetupShadowPortForward(f, at, next) ==
  /\ main = at
  /\ \/ /\ main' = next
        /\ forward' = IF Lane THEN [forward EXCEPT ![f] = "up"] ELSE forward
     \/ Fails /\ UNCHANGED forward
  /\ UNCHANGED <<scenario, remote, watching, signals, pid, local, hosts>>

StartSocks5Connection ==
  /\ main = "socks"
  /\ main' = "device" \/ Fails
  /\ UNCHANGED <<scenario, remote, forward, watching, signals, pid, local, hosts>>

\* engine.Start ends the process itself when it fails.
ToSocks ==
  /\ main = "device"
  /\ \/ main' = "route" /\ engine' = "running" /\ tunWaiter' = "new"
     \/ (Fails \/ main' = "aborted") /\ UNCHANGED <<engine, tunWaiter>>
  /\ UNCHANGED <<scenario, remote, forward, watching, signals, pid, hosts,
                 stopMu, stopped, dnsWaiter, redirect, resolver>>

SetupTunRoute ==
  /\ main = "route"
  /\ main' = "dump hosts" \/ Fails
  /\ UNCHANGED <<scenario, remote, forward, watching, signals, pid, local, hosts>>

SetupDumpHosts ==
  /\ main = "dump hosts"
  /\ DumpHosts("main")
  /\ main' = "dumping"
  /\ UNCHANGED <<scenario, remote, forward, watching, signals, pid, local>>

HostsDumped ==
  /\ main = "dumping" /\ Idle("main")
  /\ \/ outcome = "ok" /\ main' = "forward dns" /\ watching' = TRUE
     \/ outcome # "ok" /\ Fails /\ UNCHANGED watching
  /\ UNCHANGED <<scenario, remote, forward, signals, pid, local, hosts>>

SetupLocalDns ==
  /\ main = "local dns"
  /\ \/ main' = "name server" /\ dnsWaiter' = "iptables"
     \/ Fails /\ UNCHANGED dnsWaiter
  /\ UNCHANGED <<scenario, remote, forward, watching, signals, pid, hosts,
                 engine, stopMu, stopped, tunWaiter, redirect, resolver>>

Setup ==
  \/ SetupProcess \/ GetOrCreateShadow \/ ApplyLaneEnvoyFilter
  \/ SetupShadowPortForward("ssh", "forward ssh", "socks")
  \/ StartSocks5Connection \/ ToSocks \/ SetupTunRoute \/ SetupDumpHosts \/ HostsDumped
  \/ SetupShadowPortForward("dns", "forward dns", "local dns")
  \/ SetupLocalDns

-------------------------------------------------------------------------------
(* The name server: the goroutine of SetNameServer *)

SetupIptables ==
  /\ dnsWaiter = "iptables"
  /\ \/ redirect' = TRUE /\ dnsWaiter' = "resolv" /\ UNCHANGED main
     \/ dnsWaiter' = "restore resolv" /\ Fails /\ UNCHANGED redirect
  /\ UNCHANGED <<engine, stopMu, stopped, tunWaiter, resolver, signals>>

\* main receives the result, nil or not, and the goroutine goes on.
SetupResolvConf ==
  /\ dnsWaiter = "resolv"
  /\ dnsWaiter' = "answered"
  /\ \/ resolver' = TRUE /\ main' = "ready"
     \/ Fails /\ UNCHANGED resolver
  /\ UNCHANGED <<engine, stopMu, stopped, tunWaiter, redirect, signals>>

\* signal.Notify of the goroutine, and the signal it waits for.
WaitToRestore ==
  /\ \/ dnsWaiter = "answered" /\ dnsWaiter' = "waiting" /\ registered' = registered \cup {"dns"}
        /\ UNCHANGED inbox
     \/ dnsWaiter = "waiting" /\ "dns" \in inbox /\ dnsWaiter' = "restore resolv"
        /\ inbox' = inbox \ {"dns"} /\ UNCHANGED registered
  /\ UNCHANGED <<main, dropped, engine, stopMu, stopped, tunWaiter, redirect, resolver>>

\* Mutant: iptables first.
RestoresIptablesFirst ==
  /\ \/ dnsWaiter = "restore resolv" /\ redirect' = FALSE
        /\ dnsWaiter' = "restore iptables" /\ UNCHANGED resolver
     \/ dnsWaiter = "restore iptables" /\ resolver' = FALSE
        /\ dnsWaiter' = "over" /\ UNCHANGED redirect
  /\ UNCHANGED <<main, signals, engine, stopMu, stopped, tunWaiter>>

\* The deferred restoreResolvConf and restoreIptables: what fails is logged.
Restore ==
  /\ \/ dnsWaiter = "restore resolv" /\ resolver' \in {resolver, FALSE}
        /\ dnsWaiter' = "restore iptables" /\ UNCHANGED redirect
     \/ dnsWaiter = "restore iptables" /\ redirect' \in {redirect, FALSE}
        /\ dnsWaiter' = "over" /\ UNCHANGED resolver
  /\ UNCHANGED <<main, signals, engine, stopMu, stopped, tunWaiter>>

NameServer ==
  /\ Alive
  /\ SetupIptables \/ SetupResolvConf \/ WaitToRestore \/ Restore
  /\ UNCHANGED <<scenario, remote, forward, watching, pid, hosts>>

-------------------------------------------------------------------------------
(* The tun device: Shutdown, called by main and by the goroutine of ToSocks *)

LockStop(p) == stopMu = "free" /\ stopMu' = p

\* Mutant: Shutdown without the guard.
StopsAlways == TRUE

\* What the guard lets through.
MayStop == ~stopped

\* engine.Stop of an engine that has been stopped ends the process.
StopOnce(next) ==
  /\ main' = IF MayStop /\ engine = "stopped" THEN "aborted" ELSE next
  /\ engine' = IF MayStop /\ engine = "running" THEN "stopped" ELSE engine

UnlockStop(p) == stopMu = p /\ stopMu' = "free" /\ stopped' = TRUE

\* signal.Notify, the signal, Shutdown.
TunSignal ==
  \/ /\ tunWaiter = "new" /\ tunWaiter' = "waiting"
     /\ registered' = registered \cup {"tun"}
     /\ UNCHANGED <<main, inbox, engine, stopMu, stopped>>
  \/ /\ tunWaiter = "waiting" /\ "tun" \in inbox /\ tunWaiter' = "stop"
     /\ inbox' = inbox \ {"tun"}
     /\ UNCHANGED <<main, registered, engine, stopMu, stopped>>
  \/ /\ tunWaiter = "stop" /\ LockStop("tun") /\ tunWaiter' = "stopping"
     /\ UNCHANGED <<main, registered, inbox, engine, stopped>>
  \/ /\ tunWaiter = "stopping" /\ StopOnce(main) /\ tunWaiter' = "stopped"
     /\ UNCHANGED <<registered, inbox, stopMu, stopped>>
  \/ /\ tunWaiter = "stopped" /\ UnlockStop("tun") /\ tunWaiter' = "over"
     /\ UNCHANGED <<main, registered, inbox, engine>>

TunWaiter ==
  /\ Alive
  /\ TunSignal
  /\ UNCHANGED <<scenario, remote, forward, watching, dropped, pid, hosts,
                 dnsWaiter, redirect, resolver>>

-------------------------------------------------------------------------------
(* Signals and the PID file *)

\* os/signal offers a signal to every channel registered for it, without waiting.
Deliver(source) ==
  /\ Alive /\ main # "process"
  /\ IF main = "ready" THEN main' = "files" /\ UNCHANGED dropped
     ELSE UNCHANGED main /\ dropped' = IF main \in SetupSteps THEN dropped \cup {source} ELSE dropped
  /\ inbox' = IF source = "hangup" THEN inbox ELSE inbox \cup registered
  /\ UNCHANGED <<scenario, remote, watching, registered, pid, local, hosts>>

Signal == \E source \in {"user", "hangup"} \cap scenario.events : Deliver(source) /\ UNCHANGED forward

\* The port forward of a lane ends; watchConnectionGone, terminateConnectSession.
ForwardLost(f) ==
  /\ Alive
  /\ forward[f] = "up" /\ forward' = [forward EXCEPT ![f] = "gone"]
  /\ UNCHANGED <<scenario, main, remote, watching, signals, pid, local, hosts>>

\* Mutant: the loss is logged and that is all.
OnlyWarns(f) ==
  /\ Alive
  /\ forward[f] = "gone" /\ forward' = [forward EXCEPT ![f] = "told"]
  /\ UNCHANGED <<scenario, main, remote, watching, signals, pid, local, hosts>>

TerminateConnectSession(f) ==
  /\ forward[f] = "gone" /\ forward' = [forward EXCEPT ![f] = "told"]
  /\ Deliver(f)

PidFileRemoved ==
  /\ Alive
  /\ "pidfile" \in scenario.events
  /\ pidFile /\ pidFile' = FALSE
  /\ UNCHANGED <<scenario, main, remote, forward, watching, signals, pidWatcher, local, hosts>>

\* watcher.Add, which comes too late for a file that is gone, and the event.
WatchPidFile ==
  /\ Alive
  /\ \/ pidWatcher = "new" /\ pidWatcher' = IF pidFile THEN "watching" ELSE "over"
     \/ pidWatcher = "watching" /\ ~pidFile /\ pidWatcher' = "sending"
  /\ UNCHANGED <<scenario, main, remote, forward, watching, signals, pidFile, local, hosts>>

\* Mutant: the watcher does not wait for main, like os/signal.
SendOrDrop ==
  /\ Alive
  /\ pidWatcher = "sending" /\ pidWatcher' = "over"
  /\ main' = IF main = "ready" THEN "files" ELSE main
  /\ UNCHANGED <<scenario, remote, forward, watching, signals, pidFile, local, hosts>>

\* ch <- os.Interrupt waits until main receives.
SendInterrupt ==
  /\ pidWatcher = "sending" /\ main = "ready"
  /\ pidWatcher' = "over" /\ main' = "files"
  /\ UNCHANGED <<scenario, remote, forward, watching, signals, pidFile, local, hosts>>

-------------------------------------------------------------------------------
(* Tear-down: CleanupWorkspace *)

CleanLocalFiles ==
  /\ main = "files" /\ main' = "drop hosts"
  /\ pidFile' = FALSE
  /\ UNCHANGED <<scenario, remote, forward, watching, signals, pidWatcher, local, hosts>>

CleanDropHosts ==
  /\ main = "drop hosts" /\ main' = "dropping"
  /\ DropHosts("main")
  /\ UNCHANGED <<scenario, remote, forward, watching, signals, pid, local>>

\* RestoreRoute does nothing: routes go with the device.
HostsDropped ==
  /\ main = "dropping" /\ Idle("main") /\ main' = "stop device"
  /\ UNCHANGED <<scenario, remote, forward, watching, signals, pid, local, hosts>>

ShutdownTunDevice ==
  /\ \/ main = "stop device" /\ LockStop("main") /\ main' = "stopping"
        /\ UNCHANGED <<engine, stopped>>
     \/ main = "stopping" /\ StopOnce("stopped") /\ UNCHANGED <<stopMu, stopped>>
     \/ /\ main = "stopped" /\ UnlockStop("main") /\ UNCHANGED engine
        /\ main' = IF "Shadow" \in store THEN "config map" ELSE "exited"
  /\ UNCHANGED <<scenario, remote, forward, watching, signals, pid, hosts,
                 tunWaiter, dnsWaiter, redirect, resolver>>

\* A removal that fails is logged.
Remove(resource) ==
  \/ cluster' = cluster \ {resource} /\ UNCHANGED missed
  \/ missed' = TRUE /\ UNCHANGED cluster

\* The filter recorded in opt.Store goes by name, then others by their labels.
FilterIsNamed == "LaneEnvoyFilter" \in store
CleanByName == IF FilterIsNamed THEN Remove("envoyfilter") ELSE UNCHANGED <<cluster, missed>>

\* Mutant: filters are removed by name only.
CleanByNameOnly == UNCHANGED <<cluster, missed>>

CleanByLabel == IF FilterIsNamed THEN UNCHANGED <<cluster, missed>> ELSE Remove("envoyfilter")

CleanShadowPodAndConfigMap ==
  /\ \/ main = "config map" /\ Remove("configmap") /\ main' = "pod"
     \/ main = "pod" /\ Remove("pod") /\ main' = IF Lane THEN "filter by name" ELSE "exited"
     \/ main = "filter by name" /\ CleanByName /\ main' = "filter by label"
     \/ main = "filter by label" /\ CleanByLabel /\ main' = "exited"
  /\ UNCHANGED <<scenario, store, forward, watching, signals, pid, local, hosts>>

CleanupWorkspace ==
  CleanLocalFiles \/ CleanDropHosts \/ HostsDropped \/ ShutdownTunDevice
    \/ CleanShadowPodAndConfigMap

-------------------------------------------------------------------------------
(* The hosts file *)

\* A callback of an informer: the addresses have changed.
ServicesChange(w) ==
  /\ Alive /\ watching /\ w \in scenario.watchers
  /\ DumpHosts(w)
  /\ UNCHANGED <<scenario, main, remote, forward, watching, signals, pid, local>>

WriteHosts(w) ==
  /\ Alive
  /\ HostsStep(w)
  /\ UNCHANGED <<scenario, main, remote, forward, watching, signals, pid, local>>

\* main has returned while a callback writes.
EndsInWrite(w) ==
  /\ ~Alive /\ w \in Watchers
  /\ WriterEnds(w)
  /\ UNCHANGED <<scenario, main, remote, forward, watching, signals, pid, local>>

-------------------------------------------------------------------------------
Next ==
  \/ Setup \/ CleanupWorkspace \/ NameServer \/ TunWaiter
  \/ Signal \/ PidFileRemoved \/ WatchPidFile \/ SendInterrupt
  \/ \E f \in Forwards : ForwardLost(f) \/ TerminateConnectSession(f)
  \/ \E w \in Writers : ServicesChange(w) \/ WriteHosts(w) \/ EndsInWrite(w)

Spec == Init /\ [][Next]_vars

\* Goroutines run and their calls end; nothing makes a user send a signal, a
\* forward end or a Service change.
FairSpec ==
  /\ Spec
  /\ WF_vars(Setup) /\ WF_vars(CleanupWorkspace) /\ WF_vars(NameServer) /\ WF_vars(TunWaiter)
  /\ WF_vars(WatchPidFile) /\ WF_vars(SendInterrupt)
  /\ \A f \in Forwards : WF_vars(TerminateConnectSession(f))
  /\ \A w \in Writers : WF_vars(WriteHosts(w))

-------------------------------------------------------------------------------
(* Properties *)

\* One goroutine at a time is inside Shutdown.
ShutdownExclusive ==
  /\ tunWaiter \in {"stopping", "stopped"} <=> stopMu = "tun"
  /\ main \in {"stopping", "stopped"} => stopMu = "main"
  /\ stopMu = "main" => main \in {"stopping", "stopped", "aborted"}

\* An engine that is stopped is known to be: between engine.Stop and the
\* assignment of stopped, the one who stops it is inside Shutdown.
StoppedIsKnown ==
  engine = "stopped" /\ ~stopped => tunWaiter = "stopped" \/ main = "stopped"

\* Goroutines are started once, by the step of the set-up that needs them.
BeforeDevice == {"process", "shadow", "filter", "forward ssh", "socks", "device"}
BeforeNameServer == SetupSteps \ {"name server"}

StartedOnce ==
  /\ main \in BeforeDevice => tunWaiter = "none"
  /\ main \in BeforeNameServer => dnsWaiter = "none"
  /\ dnsWaiter \in {"iptables", "resolv"} => main = "name server"

\* Where the goroutine of SetNameServer is tells what it has changed.
NameServerState ==
  /\ dnsWaiter = "resolv" => redirect
  /\ resolver => dnsWaiter \in {"answered", "waiting", "restore resolv", "restore iptables", "over"}
  /\ resolver /\ dnsWaiter # "over" => redirect

\* Until main waits, whatever has reached another goroutine was dropped by main.
Told == \/ inbox # {}
        \/ tunWaiter \in {"stop", "stopping", "stopped", "over"}
        \/ dnsWaiter \in {"restore resolv", "restore iptables", "over"}

SignalsDropped ==
  /\ main \in SetupSteps \cup {"ready"} /\ Told => dropped # {}
  /\ main \in (SetupSteps \ BeforeDevice) \cup {"ready"} /\ engine # "running" => Told
  /\ main = "ready" /\ ~(redirect /\ resolver) => Told

\* What has been created is removed in the order of the tear-down.
RemovedInOrder ==
  /\ "Shadow" \notin store => cluster = {}
  /\ main \in SetupSteps \ {"process", "shadow"} => "Shadow" \in store
  /\ main \in {"process", "shadow"} => cluster = {}
  /\ main = "filter" \/ "envoyfilter" \in cluster => Lane
  /\ ~missed =>
       /\ main \in {"pod", "filter by name", "filter by label", "exited"} => "configmap" \notin cluster
       /\ main \in {"filter by name", "filter by label", "exited"} => "pod" \notin cluster
       /\ main = "filter by label" /\ FilterIsNamed => "envoyfilter" \notin cluster
       /\ main = "exited" => "envoyfilter" \notin cluster

\* The inductive invariant.
IInv ==
  /\ SessionType /\ ShutdownExclusive /\ StoppedIsKnown /\ StartedOnce
  /\ NameServerState /\ SignalsDropped /\ RemovedInOrder

\* The tear-down is never cut short, once the device has been set up: it goes on
\* to the removal of what is in the cluster.
NeverAborted == [][main' = "aborted" => main = "device"]_main

\* A session that ends by itself, in whatever step of the set-up or after
\* whatever signal, leaves nothing in the cluster unless a removal failed.
NothingLeft == main = "exited" /\ ~missed => cluster = {}

\* resolv.conf never names the local server while port 53 is not redirected to it,
\* whatever step of the set-up fails and whenever the process ends, but for one case:
\* the goroutine that restores both has come to its end and could not write resolv.conf.
RedirectBeforeResolver == resolver /\ dnsWaiter # "over" => redirect

\* A session that was set up and whose tun device or name server is gone has
\* dropped a signal that arrived during the set-up: nothing else makes a
\* session look ready and be dead.
DeadSessionMissedSignal ==
  main = "ready" /\ (engine # "running" \/ ~redirect \/ ~resolver) => dropped # {}

\* A session that has ended leaves no section in the hosts file, except by a dump
\* that was under way when DropHosts began, or by a drop that failed: half a file
\* that was loaded earlier does not bring the section back.
SectionDropped == main = "exited" /\ outcome = "ok" => "begin" \notin file \/ pastCheck

\* Removing the PID file ends the session, also during the set-up: unlike a
\* signal, what its watcher sends is not dropped.
PidFileEndsSession == pidWatcher = "sending" ~> ~Alive

\* A forward of a lane that is gone ends the session, unless its signal was
\* dropped.
GoneEndsSession ==
  \A f \in Forwards : forward[f] = "gone" ~> (~Alive \/ f \in dropped)

=====================================================================================
