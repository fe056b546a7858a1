---------------------------- MODULE ConnectSessionProofs ----------------------------
(* The theorems of ConnectSession, for any number of informers and any scenarios. *)
EXTENDS ConnectSession, TLAPS

USE SessionAssumption

(***************************************************************************)
(* The hosts file.  A call that is past its load holds the user's lines,   *)
(* unless it loaded while another wrote or after a write was cut short;    *)
(* the lock keeps two writers apart.                                       *)
(***************************************************************************)

LEMMA HostsInitInv == HostsInit => HostsInv
BY DEF HostsInit, HostsInv, HostsType, UserLinesKept, OwnerFlushes, LinesLoaded, Contents, Section

LEMMA CallInv ==
  ASSUME HostsInv, NEW w \in Writers, DumpHosts(w) \/ DropHosts(w)
  PROVE  HostsInv'
<1> USE DEF HostsInv, HostsType, UserLinesKept, OwnerFlushes, LinesLoaded, Idle, Go, Return
<1>1. CASE DumpHosts(w)
  BY <1>1 DEF DumpHosts, Contents
<1>2. CASE DropHosts(w)
  BY <1>2 DEF DropHosts
<1> QED BY <1>1, <1>2

LEMMA LoadInv ==
  ASSUME HostsInv, NEW w \in Writers, NEW from \in {"loadDump", "loadDrop"},
         NEW lines \in Contents, "user" \in file => "user" \in lines, Load(w, from, lines)
  PROVE  HostsInv'
<1>1. PICK r \in {"ok", "error", "lock"} :
        IF r = "lock"
        THEN writing' = [writing EXCEPT ![w] = "lock"] /\ newLines' = [newLines EXCEPT ![w] = lines]
        ELSE writing' = [writing EXCEPT ![w] = "idle"] /\ newLines' = [newLines EXCEPT ![w] = {}]
  BY DEF Load, Return, Go
<1>2. HostsType'
  BY <1>1 DEF Load, Return, HostsInv, HostsType, Contents
<1>3. UserLinesKept'
  BY DEF Load, HostsInv, HostsType, UserLinesKept
<1>4. OwnerFlushes'
  BY <1>1 DEF Load, HostsInv, HostsType, OwnerFlushes
<1>5. LinesLoaded'
  BY <1>1 DEF Load, HostsInv, HostsType, UserLinesKept, LinesLoaded
<1> QED BY <1>2, <1>3, <1>4, <1>5 DEF HostsInv

\* A write that is cut short gives the lock back; from then on nothing is said of the lines.
LEMMA CutInv ==
  ASSUME HostsInv, NEW w \in Writers, writing[w] = "flush", CutShort, Go(w, "idle"),
         file' \in Contents, newLines' \in [Writers -> Contents],
         outcome' \in {"none", "ok", "error"}, UNCHANGED <<doNotDump, torn, pastCheck>>
  PROVE  HostsInv'
<1>1. HostsType'
  BY DEF HostsInv, HostsType, CutShort, Go
<1>2. OwnerFlushes'
  BY DEF HostsInv, HostsType, OwnerFlushes, Go
<1>3. UserLinesKept' /\ LinesLoaded'
  BY DEF CutShort, UserLinesKept, LinesLoaded
<1> QED BY <1>1, <1>2, <1>3 DEF HostsInv

LEMMA StepInv ==
  ASSUME HostsInv, NEW w \in Writers, HostsStep(w)
  PROVE  HostsInv'
<1> USE DEF SessionAssumption, HostsInv, HostsType, UserLinesKept, OwnerFlushes, LinesLoaded
<1>1. CASE LoadToDump(w)
  BY <1>1, LoadInv DEF LoadToDump, LinesKept, Contents, Section
<1>2. CASE LoadToDrop(w)
  BY <1>2, LoadInv DEF LoadToDrop, LinesKept, Contents, Section
<1>3. CASE UpdateHostsFile(w)
  BY <1>3 DEF UpdateHostsFile, Go, Contents
<1>4. CASE UpdateFails(w)
  BY <1>4 DEF UpdateFails, Go, Return, Contents
<1>5. CASE Flush(w)
  <2>1. fileLock = w
    BY <1>5 DEF Flush
  <2>2. PICK p \in Parts(newLines[w]) :
          /\ file' = p
          /\ IF p = newLines[w]
             THEN fileLock' = "nobody" /\ Return(w, "ok")
             ELSE UNCHANGED <<fileLock, writing, outcome, newLines>>
    BY <1>5 DEF Flush
  <2>3. p \in Contents
    BY <2>2 DEF Parts, Contents
  <2>4. CASE p = newLines[w]
    BY <1>5, <2>1, <2>2, <2>3, <2>4 DEF Flush, Return, Go, Contents
  <2>5. CASE p # newLines[w]
    BY <1>5, <2>1, <2>2, <2>3, <2>5 DEF Flush
  <2> QED BY <2>4, <2>5
<1>6. CASE FlushFails(w)
  BY <1>6, CutInv DEF FlushFails, Go, Return, Parts, Contents
<1> QED BY <1>1, <1>2, <1>3, <1>4, <1>5, <1>6 DEF HostsStep

\* Whatever the session does besides leaves the hosts file alone.
LEMMA HostsNext ==
  ASSUME HostsInv, [Next]_vars
  PROVE  HostsInv'
<1>1. CASE \E w \in Writers : DumpHosts(w) \/ DropHosts(w)
  BY <1>1, CallInv
<1>2. CASE \E w \in Writers : HostsStep(w)
  BY <1>2, StepInv
<1>3. CASE UNCHANGED hosts
  BY <1>3 DEF hosts, HostsInv, HostsType, UserLinesKept, OwnerFlushes, LinesLoaded
<1>4. CASE \E w \in Writers : WriterEnds(w)
  BY <1>4, CutInv DEF WriterEnds, HostsInv, HostsType
<1>5. \/ \E w \in Writers : DumpHosts(w) \/ DropHosts(w)
      \/ \E w \in Writers : HostsStep(w) \/ WriterEnds(w)
      \/ UNCHANGED hosts
  BY DEF Next, vars, Setup, SetupProcess, GetOrCreateShadow, ApplyLaneEnvoyFilter,
         SetupShadowPortForward, StartSocks5Connection, ToSocks, SetupTunRoute, SetupDumpHosts,
         HostsDumped, SetupLocalDns, CleanupWorkspace, CleanLocalFiles, CleanDropHosts,
         HostsDropped, ShutdownTunDevice, CleanShadowPodAndConfigMap, NameServer, TunWaiter,
         Signal, Deliver, PidFileRemoved, WatchPidFile, SendInterrupt, ForwardLost,
         TerminateConnectSession, ServicesChange, WriteHosts, EndsInWrite
<1> QED BY <1>1, <1>2, <1>3, <1>4, <1>5

\* The hosts file is written by one goroutine at a time, and the user's lines in
\* it survive every dump and drop, failed ones and the end of the process included,
\* as long as no file is loaded that is being written and no write is cut short.
THEOREM HostsInvCorrect == Spec => []HostsInv
<1>1. Init => HostsInv
  BY HostsInitInv DEF Init
<1>2. HostsInv /\ [Next]_vars => HostsInv'
  BY HostsNext
<1> QED BY <1>1, <1>2, PTL DEF Spec

THEOREM UserLinesKeptCorrect == Spec => []UserLinesKept
<1>1. HostsInv => UserLinesKept
  BY DEF HostsInv
<1> QED BY <1>1, HostsInvCorrect, PTL

(***************************************************************************)
(* The session.  The invariant says for each place of main and of the two  *)
(* goroutines what they have done so far.  Who is inside Shutdown follows  *)
(* from any step at once; the rest is taken by groups of actions.          *)
(***************************************************************************)

PlacesInv == StartedOnce /\ NameServerState /\ SignalsDropped /\ RemovedInOrder

LEMMA InitInv == Init => IInv
BY SessionAssumption DEF Init, IInv, SessionType, ShutdownExclusive, StoppedIsKnown, StartedOnce,
   NameServerState, SignalsDropped, Told, RemovedInOrder, Forwards, Sources, SetupSteps,
   CleanupSteps, Ended, BeforeDevice, BeforeNameServer, Lane, FilterIsNamed

LEMMA TypeInv ==
  ASSUME SessionType, [Next]_vars
  PROVE  SessionType'
<1> USE DEF SessionType, Next, vars, local, signals, pid, remote, Fails,
        Setup, SetupProcess, GetOrCreateShadow, ApplyLaneEnvoyFilter, SetupShadowPortForward,
        StartSocks5Connection, ToSocks, SetupTunRoute, SetupDumpHosts, HostsDumped, SetupLocalDns,
        CleanupWorkspace, CleanLocalFiles, CleanDropHosts, HostsDropped, ShutdownTunDevice,
        CleanShadowPodAndConfigMap, NameServer, SetupIptables, SetupResolvConf, WaitToRestore,
        Restore, TunWaiter, TunSignal, LockStop, StopOnce, UnlockStop, Signal, Deliver,
        PidFileRemoved, WatchPidFile, SendInterrupt, ForwardLost, TerminateConnectSession,
        ServicesChange, WriteHosts, EndsInWrite
<1>1. scenario' \in Scenarios
  OBVIOUS
<1>2. main' \in SetupSteps \cup CleanupSteps \cup Ended \cup {"ready"}
  BY DEF SetupSteps, CleanupSteps, Ended
<1>3. store' \subseteq {"Shadow", "LaneEnvoyFilter"} /\ missed' \in BOOLEAN
  BY DEF Remove, CleanByName, CleanByLabel
<1>4. cluster' \subseteq {"configmap", "pod", "envoyfilter"}
  BY DEF Remove, CleanByName, CleanByLabel
<1>5. forward' \in [Forwards -> {"none", "up", "gone", "told"}]
  OBVIOUS
<1>6. watching' \in BOOLEAN
  OBVIOUS
<1>7. registered' \subseteq {"tun", "dns"}
  OBVIOUS
<1>8. inbox' \subseteq {"tun", "dns"}
  OBVIOUS
<1>9. dropped' \subseteq Sources
  <2>1. CASE UNCHANGED dropped
    BY <2>1
  <2>2. CASE dropped' # dropped
    <3>1. PICK source \in Sources : dropped' = dropped \cup {source}
      BY <2>2 DEF Sources
    <3> QED BY <3>1
  <2> QED BY <2>1, <2>2
<1>10. pidFile' \in BOOLEAN
  OBVIOUS
<1>11. pidWatcher' \in {"none", "new", "watching", "sending", "over"}
  OBVIOUS
<1>12. /\ engine' \in {"none", "running", "stopped"}
       /\ stopMu' \in {"free", "tun", "main"} /\ stopped' \in BOOLEAN
  OBVIOUS
<1>13. tunWaiter' \in {"none", "new", "waiting", "stop", "stopping", "stopped", "over"}
  OBVIOUS
<1>14. /\ dnsWaiter' \in {"none", "iptables", "resolv", "answered", "waiting",
                          "restore resolv", "restore iptables", "over"}
       /\ redirect' \in BOOLEAN /\ resolver' \in BOOLEAN
  OBVIOUS
<1> QED BY <1>1, <1>2, <1>3, <1>4, <1>5, <1>6, <1>7, <1>8, <1>9, <1>10, <1>11, <1>12, <1>13, <1>14

LEMMA ShutdownInv ==
  ASSUME ShutdownExclusive, StoppedIsKnown, StartedOnce, [Next]_vars
  PROVE  ShutdownExclusive' /\ StoppedIsKnown'
<1> USE DEF Next, vars, local, signals, pid, remote, Fails,
        Setup, SetupProcess, GetOrCreateShadow, ApplyLaneEnvoyFilter, SetupShadowPortForward,
        StartSocks5Connection, ToSocks, SetupTunRoute, SetupDumpHosts, HostsDumped, SetupLocalDns,
        CleanupWorkspace, CleanLocalFiles, CleanDropHosts, HostsDropped, ShutdownTunDevice,
        CleanShadowPodAndConfigMap, NameServer, SetupIptables, SetupResolvConf, WaitToRestore,
        Restore, TunWaiter, TunSignal, LockStop, StopOnce, UnlockStop, Signal, Deliver,
        PidFileRemoved, WatchPidFile, SendInterrupt, ForwardLost, TerminateConnectSession,
        ServicesChange, WriteHosts, EndsInWrite, ShutdownExclusive, StoppedIsKnown, StartedOnce, BeforeDevice
<1>1. ShutdownExclusive'
  BY DEF Alive, Ended
<1>2. StoppedIsKnown'
  BY DEF MayStop
<1> QED BY <1>1, <1>2

LEMMA SetupInv ==
  ASSUME IInv, Setup
  PROVE  PlacesInv'
<1> USE DEF Setup, SetupProcess, GetOrCreateShadow, ApplyLaneEnvoyFilter,
         SetupShadowPortForward, StartSocks5Connection, ToSocks, SetupTunRoute, SetupDumpHosts,
         HostsDumped, SetupLocalDns, local, signals, pid, remote, Fails
<1>1. StartedOnce'
  BY DEF IInv, StartedOnce, BeforeDevice, BeforeNameServer, SetupSteps
<1>2. NameServerState'
  <2>1. main = "local dns" => dnsWaiter = "none"
    BY DEF IInv, StartedOnce, BeforeNameServer, SetupSteps
  <2>2. CASE SetupLocalDns
    BY <2>1, <2>2 DEF IInv, NameServerState
  <2>3. CASE ~SetupLocalDns
    <3>1. UNCHANGED <<dnsWaiter, redirect, resolver>>
      BY <2>3
    <3> QED BY <3>1 DEF IInv, NameServerState
  <2> QED BY <2>2, <2>3
<1>3. SignalsDropped'
  BY DEF IInv,SignalsDropped, Told, SetupSteps, BeforeDevice, StartedOnce, BeforeNameServer
<1>4. RemovedInOrder'
  BY DEF IInv, SessionType, RemovedInOrder, SetupSteps, Lane, FilterIsNamed
<1> QED BY <1>1, <1>2, <1>3, <1>4 DEF PlacesInv

LEMMA CleanupInv ==
  ASSUME IInv, CleanupWorkspace
  PROVE  PlacesInv'
<1> USE DEF CleanupWorkspace, CleanLocalFiles, CleanDropHosts, HostsDropped, ShutdownTunDevice, StopOnce,
        CleanShadowPodAndConfigMap, local, signals, pid, remote
<1>1. StartedOnce'
  BY DEF IInv, StartedOnce, BeforeDevice, BeforeNameServer, SetupSteps
<1>2. NameServerState'
  <2>1. UNCHANGED <<dnsWaiter, redirect, resolver>>
    OBVIOUS
  <2> QED BY <2>1 DEF IInv, NameServerState
<1>3. SignalsDropped'
  <2>1. main' \notin SetupSteps \cup {"ready"}
    BY DEF SetupSteps
  <2> QED BY <2>1 DEF SignalsDropped
<1>4. RemovedInOrder'
  BY DEF IInv, SessionType, RemovedInOrder, SetupSteps, Lane, FilterIsNamed, Remove, CleanByName, CleanByLabel
<1> QED BY <1>1, <1>2, <1>3, <1>4 DEF PlacesInv

LEMMA GoroutinesInv ==
  ASSUME IInv, NameServer \/ TunWaiter
  PROVE  PlacesInv'
<1> USE DEF local, signals, pid, remote
<1>1. CASE NameServer /\ SetupIptables
  <2> USE <1>1 DEF NameServer, SetupIptables, Fails
  <2>1. StartedOnce' /\ RemovedInOrder'
    BY DEF IInv, StartedOnce, BeforeDevice, BeforeNameServer, SetupSteps,
           RemovedInOrder, Lane, FilterIsNamed
  <2>2. NameServerState'
    BY DEF IInv, NameServerState
  <2>3. SignalsDropped'
    BY DEF IInv, SignalsDropped, Told, StartedOnce, SetupSteps, BeforeDevice
  <2> QED BY <2>1, <2>2, <2>3 DEF PlacesInv
<1>2. CASE NameServer /\ SetupResolvConf
  <2> USE <1>2 DEF NameServer, SetupResolvConf, Fails
  <2>1. StartedOnce' /\ RemovedInOrder'
    BY DEF IInv, StartedOnce, BeforeDevice, BeforeNameServer, SetupSteps,
           RemovedInOrder, Lane, FilterIsNamed
  <2>2. NameServerState'
    BY DEF IInv, NameServerState
  <2>3. SignalsDropped'
    BY DEF IInv, SignalsDropped, Told, StartedOnce, SetupSteps, BeforeDevice, NameServerState
  <2> QED BY <2>1, <2>2, <2>3 DEF PlacesInv
<1>3. CASE NameServer /\ WaitToRestore
  <2> USE <1>3 DEF NameServer, WaitToRestore
  <2>1. StartedOnce' /\ RemovedInOrder'
    BY DEF IInv, StartedOnce, BeforeDevice, BeforeNameServer, SetupSteps,
           RemovedInOrder, Lane, FilterIsNamed
  <2>2. NameServerState'
    BY DEF IInv, NameServerState
  <2>3. SignalsDropped'
    BY DEF IInv, SignalsDropped, Told, SetupSteps, BeforeDevice
  <2> QED BY <2>1, <2>2, <2>3 DEF PlacesInv
<1>4. CASE NameServer /\ Restore
  <2> USE <1>4 DEF NameServer, Restore
  <2>1. StartedOnce' /\ RemovedInOrder'
    BY DEF IInv, StartedOnce, BeforeDevice, BeforeNameServer, SetupSteps,
           RemovedInOrder, Lane, FilterIsNamed
  <2>2. NameServerState'
    <3>2. CASE dnsWaiter = "restore resolv"
      <4>1. (resolver' = FALSE \/ resolver' = resolver) /\ redirect' = redirect
        BY <3>2
      <4>2. resolver => redirect
        BY <3>2 DEF IInv, NameServerState
      <4>3. resolver' => redirect'
        BY <4>1, <4>2, Zenon
      <4> QED BY <3>2, <4>3 DEF NameServerState
    <3>3. CASE dnsWaiter = "restore iptables"
      BY <3>3 DEF NameServerState
    <3> QED BY <3>2, <3>3
  <2>3. SignalsDropped'
    BY DEF IInv, SignalsDropped, Told, SetupSteps, BeforeDevice
  <2> QED BY <2>1, <2>2, <2>3 DEF PlacesInv
<1>5. CASE TunWaiter
  <2> USE <1>5 DEF TunWaiter, TunSignal, StopOnce
  <2>1. StartedOnce' /\ RemovedInOrder'
    BY DEF IInv, ShutdownExclusive, StoppedIsKnown, MayStop, StartedOnce, BeforeDevice,
           BeforeNameServer, SetupSteps, RemovedInOrder, Lane, FilterIsNamed
  <2>2. NameServerState'
    BY DEF IInv, NameServerState
  <2>3. SignalsDropped'
    BY DEF IInv, SignalsDropped, Told, StartedOnce, SetupSteps, BeforeDevice
  <2> QED BY <2>1, <2>2, <2>3 DEF PlacesInv
<1> QED BY <1>1, <1>2, <1>3, <1>4, <1>5 DEF NameServer

LEMMA EventsInv ==
  ASSUME IInv,
         \/ Signal \/ PidFileRemoved \/ WatchPidFile \/ SendInterrupt
         \/ \E f \in Forwards : ForwardLost(f) \/ TerminateConnectSession(f)
         \/ \E w \in Writers : ServicesChange(w) \/ WriteHosts(w) \/ EndsInWrite(w)
         \/ UNCHANGED vars
  PROVE  PlacesInv'
<1> USE DEF local, signals, pid, remote
<1>1. /\ UNCHANGED <<scenario, store, cluster, missed, registered, engine, tunWaiter, dnsWaiter, redirect, resolver>>
      /\ \/ UNCHANGED <<main, inbox, dropped>>
         \/ main = "ready" /\ main' = "files"
         \/ /\ main # "ready" /\ UNCHANGED main /\ inbox \subseteq inbox'
            /\ main \in SetupSteps => dropped' # {}
  BY DEF Signal, Deliver, PidFileRemoved, WatchPidFile, SendInterrupt, ForwardLost,
         TerminateConnectSession, ServicesChange, WriteHosts, EndsInWrite, vars
<1>2. StartedOnce'
  BY <1>1 DEF IInv, StartedOnce, BeforeDevice, BeforeNameServer, SetupSteps
<1>3. NameServerState'
  BY <1>1 DEF IInv, NameServerState
<1>4. SignalsDropped'
  BY <1>1 DEF IInv, SignalsDropped, Told, SetupSteps, BeforeDevice
<1>5. RemovedInOrder'
  BY <1>1 DEF IInv, RemovedInOrder, SetupSteps, Lane, FilterIsNamed
<1> QED BY <1>2, <1>3, <1>4, <1>5 DEF PlacesInv

\* The goroutines of a session stand where its main goroutine and what it has
\* created say they do.
THEOREM IInvCorrect == Spec => []IInv
<1>1. IInv /\ [Next]_vars => IInv'
  <2> SUFFICES ASSUME IInv, [Next]_vars
               PROVE  IInv'
    OBVIOUS
  <2>1. SessionType' /\ ShutdownExclusive' /\ StoppedIsKnown'
    BY TypeInv, ShutdownInv DEF IInv
  <2>2. PlacesInv'
    BY SetupInv, CleanupInv, GoroutinesInv, EventsInv DEF Next
  <2> QED BY <2>1, <2>2 DEF IInv, PlacesInv
<1> QED BY InitInv, <1>1, PTL DEF Spec

\* A session that has ended leaves nothing in the cluster unless a removal failed.
THEOREM NothingLeftCorrect == Spec => []NothingLeft
<1>1. IInv => NothingLeft
  BY DEF IInv, SessionType, RemovedInOrder, NothingLeft
<1> QED BY <1>1, IInvCorrect, PTL

\* resolv.conf never names the local server while port 53 is not redirected to it,
\* but for a goroutine that has come to its end and could not restore resolv.conf.
THEOREM RedirectBeforeResolverCorrect == Spec => []RedirectBeforeResolver
<1>1. IInv => RedirectBeforeResolver
  BY DEF IInv, NameServerState, RedirectBeforeResolver
<1> QED BY <1>1, IInvCorrect, PTL

\* A session that looks ready and has lost its device or name server dropped a signal.
THEOREM DeadSessionMissedSignalCorrect == Spec => []DeadSessionMissedSignal
<1>1. IInv => DeadSessionMissedSignal
  BY DEF IInv, SignalsDropped, DeadSessionMissedSignal
<1> QED BY <1>1, IInvCorrect, PTL

\* Two callers of Shutdown never stop the engine twice, which would end the process.
THEOREM NeverAbortedCorrect == Spec => NeverAborted
<1>1. IInv /\ [Next]_vars => [main' = "aborted" => main = "device"]_main
  <2> SUFFICES ASSUME IInv, [Next]_vars, main' # main, main' = "aborted"
               PROVE  main = "device"
    OBVIOUS
  <2>1. ShutdownTunDevice \/ TunWaiter \/ ToSocks
    BY DEF Next, vars, local, signals, pid, remote, Fails, Setup, SetupProcess, GetOrCreateShadow,
           ApplyLaneEnvoyFilter, SetupShadowPortForward, StartSocks5Connection, SetupTunRoute,
           SetupDumpHosts, HostsDumped, SetupLocalDns, CleanupWorkspace, CleanLocalFiles,
           CleanDropHosts, HostsDropped, CleanShadowPodAndConfigMap, NameServer, SetupIptables,
           SetupResolvConf, WaitToRestore, Restore, Signal, Deliver, PidFileRemoved, WatchPidFile,
           SendInterrupt, ForwardLost, TerminateConnectSession, ServicesChange, WriteHosts,
           EndsInWrite
  <2>2. ~ShutdownTunDevice /\ ~TunWaiter
    BY DEF ShutdownTunDevice, TunWaiter, TunSignal, StopOnce, MayStop, IInv, ShutdownExclusive,
           StoppedIsKnown
  <2> QED BY <2>1, <2>2 DEF ToSocks
<1> QED BY <1>1, IInvCorrect, PTL DEF Spec, NeverAborted

(***************************************************************************)
(* The section.  Once DropHosts has begun with nobody else under way, main *)
(* has the hosts file for itself: nobody passes the check of doNotDump.    *)
(***************************************************************************)

AfterDrop == (CleanupSteps \ {"files", "drop hosts"}) \cup {"exited"}

\* doNotDump is set where the tear-down drops the section, and main leaves a call of
\* hosts.go only when it has returned.
DropPhase ==
  main # "aborted" =>
    /\ doNotDump <=> main \in AfterDrop
    /\ Idle("main") \/ main \in {"dumping", "dropping"}

\* What is then under way is that drop alone; when it returns without an error there
\* is no section.
DropAlone ==
  doNotDump /\ ~pastCheck =>
    /\ \A w \in Watchers : Idle(w)
    /\ writing["main"] \in {"idle", "loadDrop", "lock", "flush"}
    /\ writing["main"] \in {"lock", "flush"} => "begin" \notin newLines["main"]
    /\ Idle("main") /\ outcome = "ok" => "begin" \notin file

DropInv == HostsType /\ DropPhase /\ DropAlone

\* A step of a call in progress.
LEMMA DropStep ==
  ASSUME DropInv, NEW w \in Writers, HostsStep(w), UNCHANGED main
  PROVE  DropPhase' /\ DropAlone'
<1> USE DEF SessionAssumption, DropInv, HostsType, DropPhase, DropAlone, Idle, Go, Return, Watchers
<1>1. ~Idle(w) /\ UNCHANGED <<doNotDump, pastCheck>>
  BY DEF HostsStep, LoadToDump, LoadToDrop, Load, UpdateHostsFile, UpdateFails, Flush, FlushFails, CutShort
<1>2. writing' = [writing EXCEPT ![w] = writing'[w]]
  BY DEF HostsStep, LoadToDump, LoadToDrop, Load, UpdateHostsFile, UpdateFails, Flush, FlushFails
<1>3. DropPhase'
  BY <1>1, <1>2
<1>4. DropAlone'
  <2> SUFFICES ASSUME doNotDump, ~pastCheck PROVE DropAlone'
    BY <1>1
  <2>1. w = "main" /\ writing[w] \in {"loadDrop", "lock", "flush"}
    BY <1>1
  <2>2. CASE LoadToDump(w)
    BY <2>1, <2>2 DEF LoadToDump, Load
  <2>3. CASE LoadToDrop(w)
    <3>1. "begin" \notin LinesKept
      BY DEF LinesKept, Section
    <3>. QED
      BY <2>1, <2>3, <3>1 DEF LoadToDrop, Load
  <2>4. CASE UpdateHostsFile(w)
    BY <2>1, <2>4 DEF UpdateHostsFile
  <2>5. CASE UpdateFails(w)
    BY <2>1, <2>5 DEF UpdateFails
  <2>6. CASE Flush(w)
    BY <2>1, <2>6 DEF Flush
  <2>7. CASE FlushFails(w)
    BY <2>1, <2>7 DEF FlushFails
  <2>. QED
    BY <2>2, <2>3, <2>4, <2>5, <2>6, <2>7 DEF HostsStep
<1>. QED
  BY <1>3, <1>4

\* A call of DumpHosts: none begins once doNotDump is set.
LEMMA DropDump ==
  ASSUME DropInv, NEW w \in Writers, DumpHosts(w),
         w = "main" => main = "dump hosts" /\ main' = "dumping",
         w # "main" => UNCHANGED main
  PROVE  DropPhase' /\ DropAlone'
<1> USE DEF SessionAssumption, DropInv, HostsType, DropPhase, DropAlone, Idle, Go, Return, Watchers,
            AfterDrop, CleanupSteps
<1>1. UNCHANGED <<doNotDump, pastCheck, file>> /\ writing' = [writing EXCEPT ![w] = writing'[w]]
  BY DEF DumpHosts
<1>2. DropPhase'
  BY <1>1
<1>3. DropAlone'
  <2> SUFFICES ASSUME doNotDump, ~pastCheck PROVE DropAlone'
    BY <1>1
  <2>1. w # "main"
    BY DEF Ended
  <2>2. UNCHANGED <<outcome, writing>> /\ newLines'["main"] = newLines["main"]
    BY <2>1 DEF DumpHosts, MayDump
  <2>. QED
    BY <1>1, <2>2
<1>. QED
  BY <1>2, <1>3

\* Where main leaves the hosts file alone it stands in no call, or waits in one.
LEMMA DropRest ==
  ASSUME DropInv, UNCHANGED hosts,
         main' \notin {main, "aborted"} =>
           /\ main' \in AfterDrop <=> main \in AfterDrop
           /\ main' \notin {"dumping", "dropping"} /\ main # "aborted"
           /\ main \in {"dumping", "dropping"} => Idle("main")
  PROVE  DropPhase' /\ DropAlone'
BY DEF DropInv, DropPhase, DropAlone, hosts, Idle

LEMMA DropNext ==
  ASSUME IInv, DropInv, [Next]_vars
  PROVE  DropPhase' /\ DropAlone'
<1>1. CASE SetupDumpHosts
  BY <1>1, DropDump DEF SetupDumpHosts, SessionAssumption
<1>2. ASSUME NEW w \in Writers, ServicesChange(w) PROVE DropPhase' /\ DropAlone'
  <2>1. w # "main"
    BY <1>2 DEF ServicesChange, SessionAssumption, Watchers, IInv, SessionType
  <2>. QED
    BY <1>2, <2>1, DropDump DEF ServicesChange
<1>3. ASSUME NEW w \in Writers, WriteHosts(w) PROVE DropPhase' /\ DropAlone'
  BY <1>3, DropStep DEF WriteHosts
<1>10. ASSUME NEW w \in Writers, EndsInWrite(w) PROVE DropPhase' /\ DropAlone'
  BY <1>10 DEF EndsInWrite, WriterEnds, Watchers, DropInv, HostsType, DropPhase, DropAlone, Idle, Go
<1>4. CASE CleanDropHosts
  BY <1>4 DEF CleanDropHosts, DropHosts, DropInv, HostsType, DropPhase, DropAlone, AfterDrop, CleanupSteps,
              Idle, Go, Watchers, SessionAssumption
<1>5. CASE Setup /\ ~SetupDumpHosts
  BY <1>5, DropRest
  DEF Setup, SetupProcess, GetOrCreateShadow, ApplyLaneEnvoyFilter, SetupShadowPortForward,
      StartSocks5Connection, ToSocks, SetupTunRoute, HostsDumped, SetupLocalDns, Fails, AfterDrop, CleanupSteps
<1>6. CASE CleanupWorkspace /\ ~CleanDropHosts
  BY <1>6, DropRest
  DEF CleanupWorkspace, CleanLocalFiles, HostsDropped, ShutdownTunDevice, StopOnce,
      CleanShadowPodAndConfigMap, AfterDrop, CleanupSteps
<1>7. CASE NameServer
  <2>1. main' # main => main = "name server" /\ main' \in {"files", "ready"}
    BY <1>7 DEF NameServer, SetupIptables, SetupResolvConf, WaitToRestore, Restore, Fails, IInv, StartedOnce
  <2>. QED
    BY <1>7, <2>1, DropRest DEF NameServer, AfterDrop, CleanupSteps
<1>8. CASE TunWaiter
  BY <1>8, DropRest DEF TunWaiter, TunSignal, StopOnce
<1>9. CASE \/ Signal \/ PidFileRemoved \/ WatchPidFile \/ SendInterrupt
           \/ \E f \in Forwards : ForwardLost(f) \/ TerminateConnectSession(f)
           \/ UNCHANGED vars
  <2>1. UNCHANGED hosts /\ (main' # main => main = "ready" /\ main' = "files")
    BY <1>9 DEF Signal, Deliver, PidFileRemoved, WatchPidFile, SendInterrupt, ForwardLost,
                TerminateConnectSession, vars
  <2>. QED
    BY <2>1, DropRest DEF AfterDrop, CleanupSteps
<1>. QED
  BY <1>1, <1>2, <1>3, <1>4, <1>5, <1>6, <1>7, <1>8, <1>9, <1>10 DEF Next

\* Whatever the informers do meanwhile, a session that has ended leaves no section in
\* the hosts file, except by a dump that had passed the check when the drop began or
\* by a drop that failed.
THEOREM SectionDroppedCorrect == Spec => []SectionDropped
<1>1. Init => DropInv
  BY DEF Init, HostsInit, DropInv, HostsType, DropPhase, DropAlone, AfterDrop, CleanupSteps, Contents,
         Section, Idle, SessionAssumption
<1>2. HostsInv' /\ IInv /\ DropInv /\ [Next]_vars => DropInv'
  BY DropNext DEF HostsInv, DropInv
<1>3. DropInv => SectionDropped
  BY DEF DropInv, DropPhase, DropAlone, SectionDropped, AfterDrop, Idle
<1>. QED
  BY <1>1, <1>2, <1>3, HostsInvCorrect, IInvCorrect, PTL DEF Spec
=====================================================================================
