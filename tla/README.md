# KtConnect in TLA+

KtConnect joins a developer's machine and a Kubernetes cluster. Its client,
`ktctl`, is one process per command; the state that several developers share
lives in the cluster: annotations of a Service, reference counters of pods, a
configuration file inside a router pod. There is no server that orders what
clients do. This directory models that protocol between clients, the API server
and the clients' own goroutines, checks it with TLC and proves parts of it with
TLAPS. File names below are relative to `src/`.

## 1. The system

| Component | State | Operations | Interacts with |
|---|---|---|---|
| Service lock, `pkg/kt/command/general/lock.go` | annotation `kt-lock` (a time stamp) | `LockService`, `UnlockService` | every writer of the Service |
| Auto mesh, `command/mesh/auto.go`, `command/mesh.go` | stuntman and shadow services, router pod, `opt.Store` | `AutoMesh`, `createRouter`, ... | lock, router, shadow pods, watcher |
| Manual mesh, `command/mesh/manual.go` | a shadow deployment | `ManualMesh` | shadow pods |
| Exchange, `command/exchange/*.go` | Service selector (selector mode), replicas (scale mode), iptables of pods (ephemeral mode) | `BySelector`, `ByScale`, `ByEphemeralContainer` | lock, shadow pods, watcher |
| Service watcher, `general/resource.go:143` | captured selector and annotation | callback of `WatchService` | Service, router and shadow pods |
| Tear-down, `general/teardown.go` | `opt.Store` | `CleanupWorkspace` and what it calls | everything the session created |
| Router program, `cmd/router`, `pkg/router` | `/etc/kt.conf`, nginx `route.conf`, a file lock | `setup`, `add`, `remove` | executed in the router pod by clients |
| Shadow pods, `service/cluster/shadow_pod.go` | pod or deployment, config map, `kt-ref-count` | `GetOrCreateShadow`, `tryGetExistingShadows` | tear-down, `ktctl clean` |
| Reference counters, `cluster/pod.go`, `cluster/deployment.go` | annotation `kt-ref-count` | `Increase*Ref`, `Decrease*Ref` | mesh, connect |
| Heart beats and `ktctl clean`, `cluster/heartbeat.go`, `command/clean/common.go` | annotation `kt-last-heart-beat`, PID files, config maps | tickers, `CheckClusterResources`, `TidyClusterResources` | all resources |
| `ktctl recover`, `command/recover.go`, `command/recover/common.go` | | removes all kt resources of one Service | sessions on it |
| Port forward and reverse tunnel, `pkg/kt/transmission` | goroutines, channels, tickers | `setupPortForwardToLocal`, `sshReverseTunnel` | shadow pods |
| Connect, `command/connect/*.go` | SOCKS proxy, sshuttle process | `ByTun2Socks`, `BySshuttle` | shadow pods, tun, DNS |
| Lanes, `cluster/lane.go`, `command/connect.go` | session label, envoy filter | `CleanupWorkspace` by label | shadow pods |
| DNS, `pkg/kt/service/dns` | local server and its caches, hosts file, resolver settings | `DumpHosts`, `DropHosts`, `query`, `SetNameServer` | shadow pod's DNS |
| Tun, `pkg/kt/service/tun` | device, routes | `ToSocks`, `SetRoute`, `CheckRoute`, `RestoreRoute` | CIDR discovery |
| CIDR discovery, `cluster/cidr.go` | none | `ClusterCidr` | tun |
| Process life cycle, `cmd/ktctl`, `general/setup.go`, `util/system.go` | PID file, signal channel | `main`, `SetupProcess`, `watchPidFile` | all commands |
| Preview, forward | a service, a port forward | `Expose`, `RedirectAddress`, ... | shadow pods, port forward |
| Shadow programs, `cmd/shadow`, `pkg/shadow` | DNS cache | DNS server, proxy | connect |
| Options, config, birdseye, utilities | files, reports | | |

Hard behaviours, all of which come from clients that share state without a
server of their own:

* every read-modify-write of the cluster is optimistic (a `resourceVersion`
  conflict refuses it) and each call site treats a refusal differently: retry
  (`LockService`), error of the command (`IncreasePodRef`), log line and go on
  (`RecoverOriginalService`), silence (`DecreasePodRef`);
* a session is a dozen API calls, any of which may fail, and a process that is
  killed leaves the rest to the others;
* set-up runs under a lock that expires, tear-down under none;
* watchers of several sessions and the owner of the Service write the same two
  fields;
* pods terminate slowly, informers deliver late;
* a killed process is cleaned up after by `ktctl clean` and `ktctl recover`, which
  work from lists they made a while ago;
* nginx reads its configuration later than the router program writes it, and
  without its lock; two name servers, one behind the other, cache each other's answers.

What makes the components correct is stated as properties in section 4; the
`hazards` of `PROJECT.json` list where each could go wrong, including the two no
property covers.

## 2. The modules

| Module | Role |
|---|---|
| `ServiceMutex` | the promise of the lock: one process at a time |
| `ServiceLock` | `lock.go`, call by call, with clocks, conflicts, lost answers and crashes; implements `ServiceMutex` |
| `ServiceRedirect` | auto mesh and selector exchange sessions on one Service, from the lock to the end of tear-down, with the watcher, the router's counter and configuration |
| `SharedShadow` | connect sessions that share one shadow pod or deployment, its config map and counter, with the silent clean-up |
| `PortForward` | one port forward: its goroutine, its caller, its heart beats and the channels between them |
| `ReverseTunnel` | the reverse tunnels of one session and the channel they share |
| `Inbound` | both together, as in `ForwardPodToLocal`: tunnels over a port forward |
| `HostsFile` | the hosts file under the goroutines that write it |
| `ConnectSession` | one connect process with its goroutines, signals, PID file, tun device and name server, from set-up to the end of tear-down; it has the hosts file in it |
| `ScaleExchange` | exchange sessions that scale one deployment, with `ktctl clean` and `ktctl recover` beside them |
| `CleanRecover` | `ktctl clean` and `ktctl recover` beside the sessions of `ServiceRedirect`, with heart beats |
| `RouteStore` | the promise of the router program: a list of versions, changed by whole updates |
| `RouterConf` | the router program file by file, its lock, and nginx; implements `RouteStore` |
| `ClusterRoutes` | the ranges computed from the cluster's addresses, the routes, sshuttle |
| `DomainLookup` | lookups through the local name server and the shadow pod's, with both caches |
| `SocksProxy` | the SOCKS proxy of tun2socks and its reconnection |
| `LocalNetwork` | the last three together: what a program beside `ktctl connect` finds |
| `MC...` | the values of the constants for TLC |
| `ServiceLockProofs`, `ServiceRedirectProofs`, `SharedShadowProofs`, `InboundProofs`, `ConnectSessionProofs`, `ScaleExchangeProofs`, `RouterConfProofs`, `LocalNetworkProofs` | theorems |

`ServiceRedirect` uses the lock through its promise (`locked`): whether one user
at a time is inside is what `ServiceLock` is about, and the hazard `slowSetup`
drops the promise. `Inbound` composes `PortForward` (EXTENDS) with an instance of
`ReverseTunnel` whose network is the port forward. `ConnectSession` EXTENDS
`HostsFile`, of which main and the callbacks of its informers are the writers.
`ServiceRedirect` uses the router through its promise too; `RouterConf` shows that
the program keeps it. `LocalNetwork` EXTENDS its three parts and adds the order of
`ByTun2Socks` and `BySshuttle`: the proxy, then the routes, then names.

`CleanRecover` EXTENDS `ServiceRedirect`: its steps are those, with what they do to heart
beats, and the steps of the tools. The runs of both are runs of `CleanRecover`; in a
scenario whose `allowed` has neither `clean` nor `recover` (`tools = {}`) it takes the
steps of `ServiceRedirect` and no other.

`ServiceRedirect`, `SharedShadow`, `ScaleExchange` and `RouterConf` take a set of `Scenarios`: which users take
part, which `Hazards` the environment has and, in `ServiceRedirect`, how often the
Service is redeployed. `Init` chooses one (`allowed`, and
`kind` of the shadow) and no step changes it, so that one run covers the calm
case and the hostile ones, and a property says under which hazards it holds.

### ServiceLock and the code

`lock` is the annotation of the Service in the cluster, `copy[u]` the one in the
`svc` variable of process `u`, and `fresh` the processes whose copy still has the
current `resourceVersion`. `GetToLock`, `Occupied`/`StampLock` and
`UpdateToLock`/`UpdateToLockFails` are the three parts of `LockService`;
`UpdateToLockFails` covers a conflict, any other error, and an answer that is
lost after the update was applied. `GetToUnlock`, `UpdateToUnlock` are
`UnlockService`. `OtherWrite` is any other write to the Service, `Tick` the time,
`Skew` what `SetupTimeDifference` leaves of the difference between clocks.

### ServiceRedirect and the code

`pc[u]` follows `AutoMesh` or `BySelector` and then `CleanupWorkspace`; `store[u]`
is the set of fields of `opt.Store` that are set, which is what tear-down goes
by. `sel` and `ann` are the selector of the Service and its annotation
`kt-selector`. Selectors are reduced to the labels `kt-role` and `kt-target`. The
router pod is `routerState`, `routerTarget` (its random label, named by the user
who drew it), `refs` and the two fields of `/etc/kt.conf` that sessions change.
`watch[u]` is the informer of process `u`: `starting` until its first list,
`armed` while it sleeps before its second look. Where a read and the write based
on it can be separated by another's write with consequences, they are two
actions (`...Put`).

### SharedShadow and the code

`pc[u]` follows `GetOrCreateShadow` (`tryGetExistingShadows`, then either
`IncreasePodRef`/`IncreaseDeploymentRef` or `createShadow`), the connection, and
`cleanShadowPodAndConfigMap`; `SilenceCleanup` is the goroutine of every connect
that removes what has no recent heart beat. A process whose set-up fails goes
through the same tear-down (`Abort`), because `opt.Store.Shadow` is the first thing
`GetOrCreateShadow` sets. `holders` is a history variable: who is counted.

### PortForward, ReverseTunnel, Inbound and the code

`goroutine` is the goroutine of `setupPortForwardToLocal`, `caller` its select,
`ticker` the goroutine that waits for `heartbeatStop`. `stop` and `heartbeatStop`
go through one `sync.Once`, which is `stopOnce`. A reconnection resets the
variables, as the recursive call makes new channels and waits for them as a caller of
its own: `caller`, `ticker` and the channels are those of the attempt under way, `result`
what the first caller was told, and of earlier attempts only heart beats remain
(`stopping`, `leaked`). In `ReverseTunnel`, `res[t]` says whether
the goroutine of port `t` still has the unbuffered channel, `consumer` is the
goroutine that takes one value off it, and `taken` the remote ports that the pod's
SSH daemon holds for a session that is lost. In `Inbound` the tunnels see the
network as "the port forward is up and the pod can be reached"; a forward that
returns closes its connections, so that a tunnel notices before the forward is
set up again (`ConnectionsClosed`; `PortForwardTimeout` lies between the two).

### HostsFile, ConnectSession and the code

`main` follows `Connect` (`SetupProcess`, `ByTun2Socks` with `setupDns` for local
DNS, `<-ch`) and `CleanupWorkspace`; an error anywhere leads to `"files"`, the first
step of tear-down, as `cmd/ktctl/main.go` runs it whatever `RunE` returns. `store` is
`opt.Store`, `cluster` what has been created. `tunWaiter` is the goroutine of
`ToSocks`, `dnsWaiter` the one of `SetNameServer`, on which main waits while it
changes iptables and resolv.conf; `stopMu` and `stopped` are the variables of
`tun.go`. `Deliver` is `os/signal`: a signal is offered to every registered channel
and dropped where there is no room, for main unless it is at `<-ch`. What the watcher
of the PID file sends blocks instead (`SendInterrupt`). `forward[f]` are the port
forwards of a lane, whose loss makes the process interrupt itself; those of a
session without a lane reconnect and are in `PortForward`. `writing[w]` says where a
goroutine is in `DumpHosts` or `DropHosts`: both load the file without the lock and
write under it, and a write is a truncation followed by one or more appends. A write may stop
anywhere, by an error of `w.Flush` (`FlushFails`) or with the process (`WriterEnds`); the
lock is free afterwards in both cases. `torn` (a goroutine has loaded what another is
writing), `cut` (a write was cut short) and `pastCheck` are history variables.

### ScaleExchange and the code

`pc[u]` follows `ByScale` (read the deployment, create the config map and the shadow
pod, wait for it, scale to zero) and `CleanupWorkspace` (scale back, wait, remove). An
error leads to `"scaleBack"` as in `main`. `replicas[u]` is `opt.Store.Replicas` and the
annotation of the shadow, which are the same number. `spec` and `ready` are the two
replica counts of the deployment, whose controller moves one towards the other.
`CheckClusterResources` makes the lists of `ktctl clean` at once (it only reads) and
`Tidy...` work them off; `Recover` likewise with the pod it found. `old` are the users
whose heart beats have passed the threshold of `ktctl clean`. A session may start
whatever the tools do: `beside` (history) are those that started while `ktctl clean` was
at work. A session that starts while the deployment is down reads 0 and later "restores"
0: the hazard `down`. `recoverExchangedTarget` waits for the pods before the shadow goes,
until they are there, until the time is over (`slowPods`), until another session has scaled
the deployment, or until a second signal comes (`secondSignal`). `ScaleTo` reads and
updates; as its update is refused when another came between, it is one step that succeeds
or fails, and `apiFailure` stands for the conflict as well.

### CleanRecover and the code

`Session` is a step of `ServiceRedirect`. `beats[u]` are the resources whose ticker
(`SetupHeartBeat`) runs in process `u`: it is started where a resource is created, never
where one is joined, and tries by name as long as the process lives. `Expire` is the time
after which a heart beat nobody renews is older than the threshold of `ktctl clean`.
`CheckClusterResources` and `AnalyseServices` make the lists (`toPods`, `toSvcs`,
`toRecover`, `toUnlock`), `Tidy...` work them off in the order of the code, an error
being a line of the log. `Recover` reads the Service into a copy (`Tool \in svcFresh` while
it is current) and chooses the handler; `RecoverRouter` .. `RecoverShadows` are the one
for a mesh, `RecoverExchanged` the one for an exchange and for a Service that selects
something else, each ending in `TidyPods` and `TidyServices` with lists of their own.
`undone` is a history variable: `ktctl recover` has undone a mesh, with nobody in set-up
and no watcher at its second look, and nobody has locked the Service since. So is
`robbed`: a tool has dropped the lock of a living process (`DropLock` removes the annotation
without a look at whose it is).

### RouteStore, RouterConf and the code

`pc[s]` follows `main` of `cmd/router` with `setup`, `add` and `remove`: wait for the
file lock, read `kt.conf` into `copy[s]`, truncate and write it, remove, create and
fill `route.conf`, signal nginx, unlock. Each write of a file is at least two steps,
because a kill or a reload may fall between them. `Kill` gives the lock back, as the
kernel does, and leaves the files as they are. `Reload` is nginx, in its own time. The
refinement maps `routes` to what `kt.conf` last said in full.

### ClusterRoutes, DomainLookup, SocksProxy, LocalNetwork and the code

An address is a sequence of bits, a range the prefix its addresses share.
`CalculateMinimalIpRange`, `MergeIpRange`, `ExcludeIpFromRange` and the loop over the
excluded ranges are operators with the order of the code, in which the result depends
on the order of the cluster's lists; `ClusterCidr` is the whole call, with lists that
may be refused. `routed` are the ranges that have a route, or that sshuttle was given.
`Ask` .. `WriteCache` are `query` of the local server, `ShadowQuery` and
`ShadowWriteCache` that of the shadow pod; a query reads a cache, asks and writes a
cache in separate steps, so that two queries of a name overlap. Time passes in ticks
that both caches count; a lookup may take `MaxWait`. `Kept` is `ArrayDelete` and the other
loops that filter a list. In `SocksProxy`, `caller` is the
`select` of `startSocks5Connection`, `proxy` its goroutine, which is the next caller.

## 3. Runs, bounds and fairness

| Run | Question | Answer |
|---|---|---|
| `service_lock` | does the lock exclude when every section ends before its stamp is 180 s old? does each call end? | yes |
| `redirect` | mesh and exchange sessions on one Service, with `ktctl clean` and `ktctl recover` beside them: what holds under every hazard, what when tear-downs do not overlap? | the selector is never lost; everything is counted, served, restored and removed; a session keeps what it created, a recovered mesh stays recovered |
| `redirect_heal` | does the watcher undo redeployments? does `ktctl clean` find everything a killed session leaves? | yes, those it is told of; yes, if used again |
| `shared_shadow` | is a shared shadow counted, kept while it is used, removed by the last? | yes for users one at a time, also when they die; its counter stays positive and joins end under every hazard |
| `inbound` | do port forwards and tunnels come back, without leaving goroutines behind? | the forward and the first tunnel that fails do |
| `connect_session` | does a connect process leave anything behind, whatever fails and whenever signals come? does it end when its PID file or a forward of its lane goes? | nothing in the cluster; the hosts file with the exceptions the properties name; it ends, but for a forward whose signal came during set-up |
| `scale_exchange` | does the deployment always come back, through kills, sleep and `ktctl clean`? | yes, if no session starts while it is scaled down and `ktctl clean` runs to its end |
| `router_conf` | do router processes lose updates, does nginx come to route what they wrote? | whole updates only; nginx catches up unless a process is killed or two headers meet |
| `local_network` | which addresses go to the cluster, what do names lead to, does the proxy come back? | the expected ones, after the caches' time; the proxy but for one window |
| `header_leak`, `shared_join_race`, `reverse_stuck` | does the code keep what its docs and comments say? | no, see findings |

Bounds.

* `service_lock`: 2 users with clocks a second apart, `LockTimeout` 2, `MaxTime` 4
  (the code compares ages only, so the unit does not matter; the clock runs past
  two expiries), `MaxTries` 1 (it only ends a call). `TimelyUnlock` is TRUE: what is
  left without it (types, `LockNotStolen`) is proved.
* `redirect`: six scenarios. Four users without hazards: two of the same version,
  so that its mark clashes; one with a mark of its own, so that a counter of 2 has
  to distinguish `leave` from `leave last`; one that exchanges. Two users of one
  version with different headers under all hazards. One mesh and one exchange
  under all hazards but those that end the exclusion of exchange. In these three, one
  redeployment, which hits every state of a session. Then the tools: a version that is
  killed and asked for again, so that lists of `ktctl clean` name what another session has
  by now; a mesh and an exchange that `ktctl recover` meets in every state, its removal of
  locks included; a session whose calls, like those of both tools, may fail. The tools are
  used any number of times, a user runs one session.
* `redirect_heal`: three sessions and two redeployments; one mesh or one exchange session,
  killed anywhere, and one redeployment: liveness of `ktctl clean` is about what is left,
  which one session can leave as well as two.
* `shared_shadow`: three users one at a time, with and without crashes (two to
  share, a third to find what they leave), two users at will under all hazards,
  each for a pod and for a deployment.
* `inbound`: two exposed ports, the least number that shares the channel, and two
  heart beats of earlier attempts at a time.
* `connect_session`: a lane whose two forwards may be lost at any time; a session
  without a lane that gets SIGINT and SIGHUP any number of times and loses its PID
  file; one whose informer dumps the hosts file any number of times beside main, which is
  what it takes for a load of a truncated file and for a dump past the check. Any step
  of the set-up and any removal may fail in all three. The scenarios are apart because
  informers and signals meet only in main; that they do not add up to more, nor more
  informers, is in the proofs, which are for any set of scenarios.
* `scale_exchange`: two users, who can already take the deployment from each other; five
  scenarios, because each property names the hazards it withstands: overlap alone, kills and
  `ktctl clean`, one session at a time with all that may happen to it, all ways to end in
  order, and overlap with a deployment found down. `Original` is 2, so
  that a deployment may be partly ready.
* `router_conf`: three sessions, so that one can leave from the middle of a list while
  another joins; two headers, since the router only compares them.
* `local_network`: addresses of three numbers of two bits, of which the first is what the
  code's `Threshold` of 16 bits is; a list of services and one of pods, every sequence of
  at most two of four (three) addresses in every order, one of three, which
  is where merging in order matters, and one of four, longer than what is asked for
  (`ListLimit`, 1000 in the code); an API server outside, that runs a pod, and
  beside a service; six included and nine lists of excluded ranges that equal, hold, lie in
  or lie beside those of the cluster. Addresses of the options are not mixed with other
  clusters: the options work on ranges, whatever they come from. Names: two overlapping
  queries of one name with two possible domains, `TtlLocal` 2 (so that half of it differs
  from it), `TtlShadow` 1, one change or failure. At most two failures of the proxy.
  Lookups and failures of the proxy have scenes of their own, as they share no variable
  with the rest.

`CHECK_DEADLOCK FALSE` is set where all sessions end, or a forward of one session,
or the process.

Fairness. `ServiceLock!FairSpec` assumes weak fairness of `LockService` for each
user: sequential code whose waits end. `ServiceRedirect!Fairness` assumes it for
the process's own code, its informer and the kubelet's termination of pods;
`SharedShadow!FairSpec` for the process's own code only, the cluster need not start
or stop a pod. Nothing makes users start, quit or redeploy. `InboundFairSpec`
assumes weak fairness of goroutines, timers and dials and, besides, strong
fairness of one thing: a pod that can be reached again and again is reached before
a time-out some time (`ForwardReady` while the caller waits, and the caller seeing
it). Its liveness properties are about networks that stay up in the end.
`ConnectSession!FairSpec` assumes weak fairness of the process's goroutines, each by
itself; nothing makes a user send a signal, a forward end or a Service change.
`ScaleExchange!FairSpec` assumes it of the processes, the kubelet, the controller of the
deployment, the growing age of heart beats that nobody renews, and of one thing a user
does: while `ktctl clean` would find something, somebody uses it again.
`CleanRecover!ToolsFairSpec` assumes `Fairness`, and the same of time and of the use of
`ktctl clean`. `RouterConf!FairSpec` assumes it of router processes, of the kernel that gives the lock
to who waits, and of nginx, which answers a signal; `LocalNetwork!FairSpec` of the
goroutines and timers of the proxy.

## 4. Properties

Each has a comment with its meaning in its module and a mutant of the code in
`PROJECT.json` that TLC must find.

| Module | Always | Under conditions | Liveness |
|---|---|---|---|
| `ServiceLock` | | timely unlocks: `ImplementsMutex` | `LockServiceEnds` |
| `ServiceRedirect` | `SelectorRecoverable` | no tools: `OwnShadowServiceOnly`; no hazard: `RefsExact`, `ServiceServed`, `SessionServed`, `ResourcesRemoved` | `RedirectHeals` |
| `SharedShadow` | | one user at a time, slow pods: `ResourcesRemoved`; and crashes: `ShadowServesUsers` | `JoinEnds` |
| `PortForward`, `ReverseTunnel`, `Inbound` | `AbandonedIsStopped`, `NoTickerLeaks` | | `Reconnects`, `FirstReconnects` |
| `HostsFile` | | no half-written file loaded, no write cut short: `UserLinesKept` | |
| `ConnectSession` | `NeverAborted` | no removal failed: `NothingLeft`; no dump under way at the drop: `SectionDropped` | `PidFileEndsSession`, `GoneEndsSession` |
| `ScaleExchange` | | kills, sleep, slow pods, a whole `ktctl clean`: `DownIsRecorded`; all end by themselves: `Restored`; sessions only, in time: `ServiceServed`; one session at a time: `ExchangeIntact` | `CleanRestores` |
| `CleanRecover` | `SelectorRecoverable` | kills and `ktctl clean` only, no lock in use dropped: `CleanSparesOwn`; no failing call, nobody in set-up: `MeshRecoveryStays` | `CleanUndoes` |
| `RouterConf` | `ImplementsStore` | no kill, one header: `LoadedIsWritten`; nginx in time: `StaysRouted` | `GetsRouted` |
| `ClusterRoutes`, `LocalNetwork` | `ApiServerDirect` | nothing refused: `CidrExact`; and no route failed, address not left out: `NamesReachCluster`; sshuttle: `ExcludedBypassed` | |
| `DomainLookup`, `LocalNetwork` | | after the time of both caches: `AnswersSettle` | |
| `SocksProxy`, `LocalNetwork` | | | `ProxyReconnects` |

Only proved, and in no run: `LockNotStolen`, `MutualExclusion` (it follows from
`ImplementsMutex`), `StuntmanTargetsOriginal`, `OnePasses`, `CounterPositive`,
`RedirectBeforeResolver`, `DeadSessionMissedSignal`, `StuckWhenEarly`, `CallsApart` and the inductive invariants.

The conditions are where the code's guarantees end. Without timely unlocks two
users can be inside the lock (`UnlockService` removes whatever lock it finds, and
the waits inside a section may add up to more than 180 s). With overlapping
tear-downs the redirect properties fail in several ways, of which the runs below
keep the ones that contradict the documentation; others are a decrement swallowed
by a conflict (`DecreasePodRef` drops the error) and a watcher that redirects the
Service again between its recovery and the removal of the router. With `clean`, a
shared shadow whose creator has left loses its heart beat and is removed under
those who remain. A callback that is past the check of `doNotDump` when tear-down
drops the section writes it again; whoever loads the hosts file while another has
truncated it computes the new content from nothing, and the user's lines are lost
with the next write; so are they when a write fails, or the process ends, after the
truncation (`os.Create` comes before the first byte): `SectionDropped` and
`UserLinesKept` say exactly when. A file that was loaded half-written (`torn`) costs the
user's lines, never the removal of the section.

`ktctl recover` drops the lock of whoever has it, so that a mesh and an exchange may both
be set up; which of their watchers wins is then open, but the original selector is
kept (`SelectorRecoverable`). `ktctl clean` spares what a session has created
(`CleanSparesOwn`), not what it uses, and only as long as it has not dropped a lock that was
taken after it was listed (`robbed`): see the findings.

With `overlap` a scale session that starts while another holds the deployment at zero
records zero (the hazard `down`). A second signal in a
tear-down, or pods that come late, leave a moment in which nobody answers: `ServiceServed`
is about every other one. A `ktctl clean` that is killed, or whose `ScaleTo` fails, after it has
removed the pods loses the number of replicas, and one that is at work
while a session starts may scale back under it; `DownIsRecorded` and
`ExchangeIntact` say that these are the only ways. Where a port forward reconnects, the
goroutine goes on after its caller was told of a time-out (the session ends by that
error); `AbandonedIsStopped` is about each attempt, and about all of them where it does not
reconnect. `ktctl clean` counts a pod it cannot read as gone and recovers the Service
(`OrphanInError`), which a living session's watcher undoes. The one window of `ProxyReconnects` is that the proxy's
end is noticed between the second its caller waits and the assignment to `gone`: the
goroutine then sends to nobody for ever and the proxy is lost. Half a `kt.conf`, which a
killed router process leaves, is refused by every later process (`ImplementsStore` holds
because it is refused, not repaired).

## 5. What is proved

All theorems hold for every value of the constants that satisfies the named
assumptions of the modules.

`ServiceLockProofs`: `Spec => []TypeOK`, `LockNotStolen` for every instance, and,
assuming `TimelyUnlock = TRUE`, `MutualExclusion`, `HolderOwnsLock` and the
refinement of `ServiceMutex`. Mutual exclusion is not inductive. The invariant adds
that a copy that is still fresh equals the Service (`FreshCopies`), that what
`StampLock` found expired stays expired (`OldEnough`, time only grows), that a lock
in use is live on every clock (`InTime`, from `TimelyUnlock`), and that nobody who
could still unlock successfully does it to another (`UnlocksOwn`). The step that
matters is `UpdateToLock`: an accepted update means the copy is the Service, so a
holder's stamp would be both live (`InTime`) and expired (`OldEnough`).

`ServiceRedirectProofs`: `IInv`, for any set of users and any scenarios, hence
`StuntmanTargetsOriginal`. Besides the properties, `IInv` says that a copy about to be
written by tear-down has the annotation (`RecoveryReady`), that living watchers
recorded the original selector (`WatchersKnowOriginal`), that a selector without
`kt-role` is the application's (`AppIsOriginal`), and who owns a shadow service.
`ToolsKeepSelector` is `SelectorRecoverable` with the tools of `CleanRecover` at work: ownership is lost there,
so the invariant is types and `SelectorInv`, and `ToolReady`: the current copy of a tool
that is about to write still has the annotation, since every write of a session makes the
copy stale (`SessionsOutdateTools`). `MeshRecoveryStays` rests on `UndoneInv` besides: who
has not begun does not hold `kt-lock` (`LockAsked`), so between the recovery and the next
`setLock` nobody is in set-up; a router that is gone never comes back under its label,
which is drawn anew for every router (`LabelsDrawn`); and when `ktctl recover` is about to
write, the router its copy selects is already gone (`RouterFirst`), so every watcher that
was going to repair the selector finds its target dead (`RecoveryKept`). The action property `OwnShadowServiceOnly` is proved
for `CleanRecover` too: where no tool is used, it takes the steps of sessions only.

Its second part has the four properties of whole sessions, `RefsExact`, `ServiceServed`,
`SessionServed` and `ResourcesRemoved`, for any number of users. They assume `OneHeader`:
sessions that may meet without a hazard agree on the header of their versions. Without it
they are false, which the run `header_leak` shows. The argument is `CalmInv`, one part per
thing shared: at most one process is being set up or torn down, under the lock if it is set
up (`Turns`); what `opt.Store` holds follows from where a process is (`StorePhases`); a
shadow pod and a shadow service belong to a session that has noted them (`PodsOwned`,
`SvcsOwned`, which make a version exclusive); the router is there exactly while sessions are
counted, and has their versions (`RouterShared`, with the cardinality of the set of
counted sessions: the last reference is the only one left); an exchange excludes everybody
else, and who is about to remove the redirection is the last to have one (`Exclusive`); so
the stuntman and the redirection are there from the first session to the last
(`StuntmanShared`, `Redirection`). A watcher only ever acts for a session that holds the
redirection, and then writes what is there (`WatcherActs`).

The third part is `CleanSparesOwn`, for any number of users who are killed at any time and
`ktctl clean` used at any time. Three facts carry it (`SpareInv`): set-ups and tear-downs still
take turns, as long as no lock in use is dropped; what exists was noted by its creator
(`PodCreators`, `SvcCreators`), who renews its heart beat while it lives (`Beaten`); hence what is
old, or on a list, is a dead process' (`OldAreDead`), and stays so until it is removed from the
cluster, since nobody gets to create something of a name that is taken.

`SharedShadowProofs`: `CounterPositive` under every hazard. A decrement reads and
writes in two calls; the invariant adds that who is about to write a copy that is
still current has read more than one (`CurrentCopies`). `ShadowServesUsers` holds of users who
start one at a time, also when they are killed (`OneAtATimeInv`): the config map of a shadow
that is being removed is gone before the shadow, so who finds the map finds the shadow, with
its key; whoever runs is counted, and a removal begins when the counter says one user is left.
`ResourcesRemoved` holds of users who come and leave in order (`OrderlyInv`): then the counter is
the number of those who use the shadow, and the last one sees a one.

`InboundProofs`: `AbandonedIsStopped` and `NoTickerLeaks` of a port forward, for any number of
interruptions. Two channels share a `sync.Once`, so that either closing can make
the other a no-op; `OnceAndStop` says when the once is used up: by `stop` only
after a time-out, when no heart beat waits for `heartbeatStop`. `OnePasses` of the tunnels,
for any set of exposed ports; `NonePassesBefore` is what it needs. Then the composition: a
session implements its port forward and, with the forward as their network, its tunnels, and
what is proved of the parts holds of the whole.

`RouterConfProofs`, for any number of router processes, versions and headers: they implement
`RouteStore`. Who works on the files has the file lock (`Ownership`), the first process of a
router has written `kt.conf` before another reads it (`SetupFirst`), what a process is about
to write is one update of what is there (`CopyIsUpdate`), and what goes to `route.conf` is what
went to `kt.conf` (`CopyIsWritten`). `LoadedIsWritten` and `StaysRouted` follow with what nginx may
find of `route.conf`, and when (`RouteInv`, `Prompt`, `RoutedIsWritten`). That a removal takes one
occurrence and leaves the others needs the first occurrence in a list, which is found as the
smallest of the sets `1 .. i`, as the library's induction theorems cannot be used.

`ConnectSessionProofs`, for any informers and any scenarios: of the hosts file,
`HostsInv` and `UserLinesKept` (the lock keeps two writers apart, and a content about
to be written has the user's lines unless a load was torn or a write cut short before); of the session, `IInv`
and from it `NothingLeft`, `RedirectBeforeResolver`, `DeadSessionMissedSignal` and the
action property `NeverAborted`. The parts of `IInv` say who is inside `Shutdown`
(`ShutdownExclusive`, `StoppedIsKnown`: between `engine.Stop` and `stopped = true` the
mutex is held, so nobody else sees the guard open), which goroutines have been
started (`StartedOnce`), what the name server's has changed (`NameServerState`), that
a signal which reached another goroutine during set-up was dropped by main
(`SignalsDropped`), and what tear-down has removed so far (`RemovedInOrder`). `SectionDropped`
has an invariant of its own (`DropInv`): where `DropHosts` begins with nobody past the check of
`doNotDump`, main has the file for itself from then on, whatever it loads.

`ScaleExchangeProofs`, for any number of users, replicas and scenarios: `DownIsRecorded`,
`Restored`, `ServiceServed` and `ExchangeIntact`. The strengthening is one part per
property: a session and a shadow have read replicas (`ReplicasRead`), what is scaled
down is recorded by a shadow whose session has not begun to remove it, and what
`ktctl clean` removes it has noted before (`Kept`); somebody who is up will scale
back (`WillRestore`); until the pods are there, the shadow of who scaled down last is
(`ShadowKept`); and beside a session there is nothing of another but what a `ktctl clean`
that was at work when it started has on its lists (`NothingElse`).

`LocalNetworkProofs`, for addresses and ranges of any size, clusters of any number of
addresses, any options (`ScenesAssumption` only gives them their types), names, durations
and queries: `CidrExact`, `ApiServerDirect`, `ExcludedBypassed`, `NamesReachCluster` and the
action property `AnswersSettle`, besides `StuckWhenEarly` and `CallsApart`, the safety that
`ProxyReconnects` rests on.

* What `cidr.go` computes is a fold over lists, or several, and what a fold computes is an induction
  over its list. The library's induction theorems take an operator as a parameter and cannot
  be used; `Induction` gets one from its well-foundedness of finite sets, for a set of
  numbers. The library's fold is a function that is chosen (`CHOOSE`), about which nothing
  can be said before it is known to exist: `FoldExists` shows that there is one.
* `Groups(rs, I, Q)` is the invariant of the first fold: the ranges `rs` stand for the groups
  of the addresses `I`, one range for each, and as wide as all of its group need, as far as
  the words of `Q` can tell. It holds for all words while addresses are added (`WidenStep`),
  for words of whole segments after `Align` (`AlignGroups`), and again when services and
  pods, each in ranges of their own, are put together (`GroupsCompose`), so that the
  result does not depend on the order of any list. `BesideIs` says that the ranges beside the
  API server cover the rest of its range, each address once.
* `Serves` says what the loop over the excluded ranges leaves (`ExcludeStep` for one turn:
  the loop stops at the first range that equals or holds the excluded one, which is right
  because the ranges computed before are apart, and only those included may overlap them).
* `RoutesInv`: whatever is routed is part of such a plan for the lists that were got.
* `LookupInv`: an answer on its way or in a cache is the right one, or it is younger than the
  last change allows: what the shadow pod is about to write was found since, or its query has
  waited as long (`WritesInTime`); an entry of its cache was, too, and has the rest of its
  time (`ShadowEntries`); so has a query that took its answer from there (`Ways`), and an
  entry of the local server's cache that such a query wrote (`LocalEntries`). The bounds add
  up to `SettleTime`, TtlLocal + TtlShadow + 2 MaxWait - 1.

Only model-checked: the liveness properties (`LockServiceEnds`, `RedirectHeals`,
`CleanUndoes`, `JoinEnds`, `Reconnects`, `FirstReconnects`, `PidFileEndsSession`,
`GoneEndsSession`, `CleanRestores`, `GetsRouted`, `ProxyReconnects`): fairness is stated with
ENABLED, which the prover cannot expand.

## 6. Findings

Three runs are expected to end in a violation; each contradicts a sentence of the
repository, quoted in `PROJECT.json`:

* `header_leak`: a mesh session refused by the router (another header) stays counted.
* `shared_join_race`: two connect sessions start at once; the second fails in
  `createConfigMapWithSshKey`, and its tear-down removes the first one's shadow.
* `reverse_stuck`: with two exposed ports and one loss of the connection, the
  second tunnel blocks at `res <- err` and its port is never served again.

Met while modelling, without a run of their own because a condition of a property says
where they lie, or because they are plain from the code:

* the heart beats of the router and the stuntman service are renewed by the session that
  created them only (`SetupHeartBeat` runs where a resource is created): when it has left,
  `ktctl clean` removes them under the others, also with its default threshold, against
  `docs/en-us/cli/clean.md:20`; hence `CleanSparesOwn` is about what a session created;
* `ktctl clean` removes the lock of every Service whose lock was old when it was listed, without
  a second look (`command/clean/common.go:118`): a lock taken since goes too, two sessions of one
  version may then be set up at once, and a third user's shadow pod can be removed as the
  refused one's own, by its name. The shortest trace has four users and 59 steps; it was met
  when `CleanSparesOwn` could not be proved without `~robbed`;
* `ktctl recover` of an exchanged Service updates the Service before it removes the pod, the
  wrong order by its own comment (`command/recover/common.go:60`): the session's watcher
  redirects the Service again, to the removed pod; hence `MeshRecoveryStays` is about meshes;
* a user who joins during another's tear-down may be left with a Service that selects a
  terminating router (`ServiceServed` and the rest are claimed without overlap);
* a forward of a lane lost during set-up sends its one SIGINT while nobody receives: the
  session ends only by its user (`GoneEndsSession` says from where on it ends);
* `docs/en-us/cli/connect.md:20` on `--excludeIps`: a single IP without a slash is ignored
  in every mode, and an excluded part of a cluster range in tun2socks, as `SetRoute` has no
  use for its argument `excludeIpRange`; hence `ExcludedBypassed` is about sshuttle;
* `CheckRoute` reports every single address as not routed, since `ip route show` prints it
  without its "/32"; it only logs;
* of several addresses of the API server only the first is left out of the routes;
  `--includeIps` may put it back (`ApiServerDirect`);
* the local DNS server caches upstream answers too, despite its comment; the shadow pod's
  caches failures for 60 s;
* sshuttle is started again after it ends, but a start that then fails is not repeated;
* `ktctl recover` does nothing for a scale exchange while the Service selects the
  deployment itself; `ScaleTo` failing in a tear-down or in `ktctl clean` loses the record of
  the replicas, and so does a `ktctl clean` that is killed after it has removed the shadow pods,
  which it does before it scales back (`command/clean/common.go:65`): no later one finds the
  deployment, against `docs/en-us/cli/recover.md:14`; hence the premise of `DownIsRecorded`;
* a scale exchange that starts while another has the deployment at zero records zero; leaving
  last, it "recovers" the deployment to zero (`command/exchange/scale.go:22`, `teardown.go:106`);
* `ktctl clean`, at work on what a killed session left, scales the deployment back under a
  session that has started since its list was made: the pods then take part of the requests
  that `docs/en-us/cli/exchange.md:4` redirects; hence `beside` in `ExchangeIntact`;
* a dump that loads the hosts file while another has truncated it (`dns/hosts.go:175`) writes it
  without the user's lines, though no call failed; so does a failing `w.Flush`: hence `torn` and
  `cut` in `UserLinesKept`;
* what is beyond the first 1000 services or pods of a list is not routed, and nobody is told
  (`ListLimit`; `CidrExact` and `NamesReachCluster` are about lists that fit);
* an address that was listed but lies in a range of `--excludeIps` that equals or holds the
  cluster's is not routed, in tun2socks too, where a smaller excluded range has no effect:
  `NamesReachCluster` could not be proved before it left out what the user does;
* the router program exits with zero on errors.

## 7. Plan and limits

What is left: an abstract promise of mesh sessions that `ServiceRedirect` implements, and
`ktctl recover` for shadow deployments.

Not modelled: flag parsing, configuration and profiles, birdseye and log output (no
protocol); manual mesh, preview and forward (each one resource, its steps are those of
sessions that are modelled, nothing shared); ephemeral exchange (it waits for its container
with the arguments of `isEphemeralContainerReady` swapped, and then runs commands in one
pod); the bytes of connections; IPv6; system calls of macOS and Windows; the local files
`ktctl clean` removes; a connect process that is killed (its shadow is in `SharedShadow`,
what it leaves in resolv.conf nobody restores); what the shadow pod's name server writes
into its cache after its client has given up.

Taken as one step: the Get and the Create of the stuntman service, which only a session that
has outlived its lock can come between (it is then refused, as under `slowSetup`). The
watcher's second look falls into the tear-down of its own process only under `slowExit`,
since tear-downs take less than its sleep as a rule. `ktctl clean` finds the locks of killed
processes old; a lock a living process has outlived is `slowSetup`, which no scenario
combines with `clean`. The directory `.graphify_scope/` is a stale
partial copy of the same code and is not mapped. Two hazards of `PROJECT.json` have no
property: none could hold (each connection leaves a goroutine behind; a session that does
not end by SIGINT or SIGTERM leaves resolv.conf changed).
