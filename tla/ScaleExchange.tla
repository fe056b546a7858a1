------------------------------ MODULE ScaleExchange ------------------------------
(***************************************************************************)
(* ktctl exchange --mode scale: a shadow pod with the labels of the        *)
(* original deployment takes its requests while the deployment is scaled   *)
(* to zero; its replicas are remembered by the process and by an annotation *)
(* of the shadow pod.  command/exchange/scale.go, the tear-down of          *)
(* command/general/teardown.go, ScaleTo of cluster/deployment.go; beside   *)
(* the sessions ktctl clean (command/clean/common.go) and ktctl recover    *)
(* (command/recover) bring back what a session left.                       *)
(*                                                                         *)
(* Abstractions: one deployment; a config map and a pod belong to the user *)
(* who created them, their names are random; the age of a heart beat is    *)
(* whether it is older than the threshold of ktctl clean; ScaleTo reads    *)
(* the deployment and updates it: the update is refused when another has   *)
(* come between, so that ScaleTo is one step that succeeds, or fails when  *)
(* "apiFailure" is allowed, which stands for a conflict as well.           *)
(***************************************************************************)
EXTENDS Integers, FiniteSets

CONSTANTS
  Users,     \* the ktctl processes, one exchange session each
  NoUser,    \* not a user
  Original,  \* the replicas of the deployment before any session
  Unset,     \* no number of replicas
  Scenarios  \* which users take part and what may happen besides

Hazards ==
  { "overlap",    \* a session starts while another, or its pod, is there
    "down",       \* a session starts while the deployment is scaled down
    "secondSignal", \* the user sends another signal during the tear-down
    "slowPods",   \* a pod starts or stops later than it is waited for
    "crash",      \* a process is killed
    "sleep",      \* the computer of a running session sleeps
    "clean",      \* ktctl clean is used
    "recover",    \* ktctl recover is used; the deployment has no labels of its own
    "toolCrash",  \* ktctl clean or recover is killed
    "apiFailure" } \* a call of the API server fails, by a conflict or otherwise

ASSUME ConstantsAssumption ==
  /\ NoUser \notin Users
  /\ Original \in Nat \ {0} /\ Unset \notin Nat
  /\ Scenarios \subseteq [ users : SUBSET Users, allowed : SUBSET Hazards ]

VARIABLES
  allowed,  \* the hazards of this scenario
  spec,     \* Spec.Replicas of the deployment
  ready,    \* Status.ReadyReplicas
  shadow,   \* shadow[u]: "none", "starting", "running" or "terminating"
  maps,     \* the users whose config map exists
  old,      \* the users whose heart beats are older than the threshold
  pc,
  replicas, \* replicas[u]: Store.Replicas, and the annotation of u's shadow
  cleaner,  \* where ktctl clean is
  toPods, toMaps, toScale,  \* its lists: pods, config maps, replicas
  recoverer, target,        \* where ktctl recover is, and the pod it found
  beside    \* history: the users whose session has started while ktctl clean was at work

cluster == <<spec, ready, shadow, maps, old>>
session == <<pc, replicas>>
cleaning == <<cleaner, toPods, toMaps, toScale>>
recovery == <<recoverer, target>>
state   == <<cluster, session, cleaning, recovery>>
vars    == <<allowed, beside, state>>

Values == {0, Original}
SetupStates == {"createMap", "createPod", "waitReady", "scaleDown"}
TeardownStates == {"scaleBack", "await", "dropMap", "dropShadow"}
Ended == {"exited", "dead"}
States == SetupStates \cup TeardownStates \cup Ended \cup {"idle", "running"}

Init ==
  /\ spec = Original /\ ready = Original
  /\ shadow = [u \in Users |-> "none"] /\ maps = {} /\ old = {}
  /\ \E s \in Scenarios :
       /\ allowed = s.allowed
       /\ pc = [u \in Users |-> IF u \in s.users THEN "idle" ELSE "exited"]
  /\ replicas = [u \in Users |-> Unset]
  /\ cleaner = "idle" /\ toPods = {} /\ toMaps = {} /\ toScale = Unset
  /\ recoverer = "idle" /\ target = NoUser
  /\ beside = {}

Goto(u, s) == pc' = [pc EXCEPT ![u] = s]

Fails == "apiFailure" \in allowed
Slow  == "slowPods" \in allowed

Up(u) == shadow[u] \in {"starting", "running"}

\* RemovePod: a pod that is gone is an error that nobody minds.
PodRemoved(u) == IF Up(u) THEN [shadow EXCEPT ![u] = "terminating"] ELSE shadow

Active(u) == pc[u] \notin Ended \cup {"idle"}

Alone(u) == \A v \in Users \ {u} :
              ~Active(v) /\ shadow[v] = "none"

\* ByScale returns an error: main calls CleanupWorkspace.
Abort(u) == Goto(u, "scaleBack")

-------------------------------------------------------------------------------
(* ByScale *)

\* The deployment is read, opt.Store.Origin and opt.Store.Replicas are set.  When
\* it cannot be read the tear-down has nothing to do.
ByScale(u) ==
  /\ pc[u] = "idle"
  /\ "overlap" \in allowed \/ Alone(u)
  /\ "down" \in allowed \/ spec = Original
  /\ \/ /\ replicas' = [replicas EXCEPT ![u] = spec]
        /\ Goto(u, "createMap")
     \/ /\ Fails
        /\ Goto(u, "exited")
        /\ UNCHANGED replicas
  /\ UNCHANGED <<cluster, cleaning, recovery>>

CreateConfigMap(u) ==
  /\ pc[u] = "createMap"
  /\ \/ /\ maps' = maps \cup {u}
        /\ Goto(u, "createPod")
     \/ Fails /\ Abort(u) /\ UNCHANGED maps
  /\ UNCHANGED <<spec, ready, shadow, old, replicas, cleaning, recovery>>

CreateShadow(u) ==
  /\ pc[u] = "createPod"
  /\ \/ /\ shadow' = [shadow EXCEPT ![u] = "starting"]
        /\ Goto(u, "waitReady")
     \/ Fails /\ Abort(u) /\ UNCHANGED shadow
  /\ UNCHANGED <<spec, ready, maps, old, replicas, cleaning, recovery>>

\* Mutant: the deployment is scaled down without waiting for the shadow pod.
DoesNotWait(u) ==
  /\ pc[u] = "waitReady"
  /\ Goto(u, "scaleDown")
  /\ UNCHANGED <<cluster, replicas, cleaning, recovery>>

\* WaitPodReady and ForwardPodToLocal.
WaitReady(u) ==
  /\ pc[u] = "waitReady"
  /\ \/ shadow[u] = "running" /\ Goto(u, "scaleDown")
     \/ shadow[u] \in {"none", "terminating"} /\ Abort(u)
     \/ (Fails \/ Slow) /\ Abort(u)
  /\ UNCHANGED <<cluster, replicas, cleaning, recovery>>

ScaleDown(u) ==
  /\ pc[u] = "scaleDown"
  /\ \/ spec' = 0 /\ Goto(u, "running")
     \/ Fails /\ Abort(u) /\ UNCHANGED spec
  /\ UNCHANGED <<ready, shadow, maps, old, replicas, cleaning, recovery>>

-------------------------------------------------------------------------------
(* CleanupWorkspace *)

Quit(u) ==
  /\ pc[u] = "running"
  /\ Goto(u, "scaleBack")
  /\ UNCHANGED <<cluster, replicas, cleaning, recovery>>

\* Mutant: the tear-down removes what the session has created and no more.
SkipsScale(u) ==
  /\ pc[u] = "scaleBack"
  /\ Goto(u, "await")
  /\ UNCHANGED <<cluster, replicas, cleaning, recovery>>

\* recoverExchangedTarget: a failure is logged.
ScaleBack(u) ==
  /\ pc[u] = "scaleBack"
  /\ spec' = replicas[u] \/ (Fails /\ UNCHANGED spec)
  /\ Goto(u, "await")
  /\ UNCHANGED <<ready, shadow, maps, old, replicas, cleaning, recovery>>

\* waitDeploymentRecoverComplete has seen the replicas, or its time is over,
\* which it is when the deployment has been scaled by another.
WaitOver(u) == ready = replicas[u] \/ spec # replicas[u] \/ Slow \/ Fails

\* A signal ends the wait as well.
WaitRecovered(u) ==
  /\ pc[u] = "await"
  /\ WaitOver(u) \/ "secondSignal" \in allowed
  /\ Goto(u, "dropMap")
  /\ UNCHANGED <<cluster, replicas, cleaning, recovery>>

\* cleanShadowPodAndConfigMap.
RemoveConfigMap(u) ==
  /\ pc[u] = "dropMap"
  /\ maps' = maps \ {u} \/ (Fails /\ UNCHANGED maps)
  /\ Goto(u, "dropShadow")
  /\ UNCHANGED <<spec, ready, shadow, old, replicas, cleaning, recovery>>

RemoveShadow(u) ==
  /\ pc[u] = "dropShadow"
  /\ shadow' = PodRemoved(u) \/ (Fails /\ UNCHANGED shadow)
  /\ Goto(u, "exited")
  /\ UNCHANGED <<spec, ready, maps, old, replicas, cleaning, recovery>>

Crash(u) ==
  /\ "crash" \in allowed
  /\ Active(u)
  /\ Goto(u, "dead")
  /\ UNCHANGED <<cluster, replicas, cleaning, recovery>>

-------------------------------------------------------------------------------
(* Heart beats *)

\* Nobody renews the heart beats of an ended process; of a living one they grow
\* old while its computer sleeps.
Expire(u) ==
  /\ u \notin old
  /\ u \in maps \/ shadow[u] # "none"
  /\ pc[u] \in Ended \/ ("sleep" \in allowed /\ pc[u] = "running")
  /\ old' = old \cup {u}
  /\ UNCHANGED <<spec, ready, shadow, maps, session, cleaning, recovery>>

HeartBeat(u) ==
  /\ u \in old /\ pc[u] = "running"
  /\ old' = old \ {u}
  /\ UNCHANGED <<spec, ready, shadow, maps, session, cleaning, recovery>>

-------------------------------------------------------------------------------
(* ktctl clean *)

\* Mutant: whether a heart beat has expired is not looked at.
AnyAge == Users

\* isExpired.
Expired == old

\* Mutant: a pod that is to be removed is not analysed.
NotAnalysed == {}

\* analysisExpiredPods analyses the pods that are terminating as well.
Analysed == {u \in Expired : shadow[u] # "none"}

\* analysisConfigAnnotation: replicas of zero are passed over.
Recorded == {replicas[u] : u \in Analysed} \ {0}

\* CheckClusterResources; one map entry for the deployment.
CheckClusterResources ==
  /\ "clean" \in allowed
  /\ cleaner = "idle"
  /\ toPods' = {u \in Expired : Up(u)}
  /\ toMaps' = Expired \cap maps
  /\ toScale' \in IF Recorded = {} THEN {Unset} ELSE Recorded
  /\ <<toPods', toMaps', toScale'>> # <<{}, {}, Unset>>
  /\ cleaner' = "pods"
  /\ UNCHANGED <<cluster, session, recovery>>

\* TidyClusterResources: what fails is logged.
TidyPods ==
  /\ cleaner = "pods"
  /\ \/ \E u \in toPods :
          /\ toPods' = toPods \ {u}
          /\ shadow' = PodRemoved(u) \/ (Fails /\ UNCHANGED shadow)
          /\ UNCHANGED cleaner
     \/ toPods = {} /\ cleaner' = "maps" /\ UNCHANGED <<shadow, toPods>>
  /\ UNCHANGED <<spec, ready, maps, old, session, toMaps, toScale, recovery>>

TidyConfigMaps ==
  /\ cleaner = "maps"
  /\ maps' = maps \ toMaps \/ (Fails /\ maps' \in {maps \ s : s \in SUBSET toMaps})
  /\ toMaps' = {}
  /\ cleaner' = "scale"
  /\ UNCHANGED <<spec, ready, shadow, old, session, toPods, toScale, recovery>>

\* Mutant: the deployment is not scaled back.
NotScaled == spec

Rescaled == IF toScale = Unset THEN spec ELSE toScale

TidyScale ==
  /\ cleaner = "scale"
  /\ spec' = Rescaled \/ (Fails /\ UNCHANGED spec)
  /\ toScale' = Unset /\ cleaner' = "idle"
  /\ UNCHANGED <<ready, shadow, maps, old, session, toPods, toMaps, recovery>>

CleanKilled ==
  /\ "toolCrash" \in allowed
  /\ cleaner # "idle"
  /\ cleaner' = "idle" /\ toPods' = {} /\ toMaps' = {} /\ toScale' = Unset
  /\ UNCHANGED <<cluster, session, recovery>>

-------------------------------------------------------------------------------
(* ktctl recover *)

\* Recover finds the role of a shadow pod among the pods the service selects, if
\* the service selects no deployment, and updates the service.
Recover ==
  /\ "recover" \in allowed
  /\ recoverer = "idle"
  /\ \E u \in Users : Up(u) /\ target' = u
  /\ recoverer' = "remove"
  /\ UNCHANGED <<cluster, session, cleaning>>

\* HandleExchangedByScaleService.
RecoverRemovePod ==
  /\ recoverer = "remove"
  /\ shadow' = PodRemoved(target) \/ (Fails /\ UNCHANGED shadow)
  /\ recoverer' = "scale"
  /\ UNCHANGED <<spec, ready, maps, old, session, cleaning, target>>

RecoverScale ==
  /\ recoverer = "scale"
  /\ spec' = (IF replicas[target] > 0 THEN replicas[target] ELSE spec)
       \/ (Fails /\ UNCHANGED spec)
  /\ recoverer' = "idle" /\ target' = NoUser
  /\ UNCHANGED <<ready, shadow, maps, old, session, cleaning>>

RecoverKilled ==
  /\ "toolCrash" \in allowed
  /\ recoverer # "idle"
  /\ recoverer' = "idle" /\ target' = NoUser
  /\ UNCHANGED <<cluster, session, cleaning>>

-------------------------------------------------------------------------------
(* The cluster *)

PodStarts(u) ==
  /\ shadow[u] = "starting" /\ u \in maps
  /\ shadow' = [shadow EXCEPT ![u] = "running"]
  /\ UNCHANGED <<spec, ready, maps, old, session, cleaning, recovery>>

PodGone(u) ==
  /\ shadow[u] = "terminating"
  /\ shadow' = [shadow EXCEPT ![u] = "none"]
  /\ UNCHANGED <<spec, ready, maps, old, session, cleaning, recovery>>

\* The controller of the deployment starts or stops one pod.
Controller ==
  /\ ready # spec
  /\ ready' = IF ready < spec THEN ready + 1 ELSE ready - 1
  /\ UNCHANGED <<spec, shadow, maps, old, session, cleaning, recovery>>

-------------------------------------------------------------------------------

Exchange(u) ==
  \/ CreateConfigMap(u) \/ CreateShadow(u) \/ WaitReady(u) \/ ScaleDown(u)
CleanupWorkspace(u) ==
  \/ ScaleBack(u) \/ WaitRecovered(u) \/ RemoveConfigMap(u) \/ RemoveShadow(u)
User(u) ==
  \/ ByScale(u) \/ Exchange(u) \/ Quit(u) \/ CleanupWorkspace(u) \/ Crash(u)
  \/ Expire(u) \/ HeartBeat(u) \/ PodStarts(u) \/ PodGone(u)

TidyClusterResources == TidyPods \/ TidyConfigMaps \/ TidyScale
Tools ==
  \/ CheckClusterResources \/ TidyClusterResources \/ CleanKilled
  \/ Recover \/ RecoverRemovePod \/ RecoverScale \/ RecoverKilled

Starts(u) == pc[u] = "idle" /\ pc'[u] # "idle"

Next ==
  /\ (\E u \in Users : User(u)) \/ Tools \/ Controller
  /\ beside' = beside \cup {u \in Users : Starts(u) /\ cleaner # "idle"}
  /\ UNCHANGED allowed

Spec == Init /\ [][Next]_vars

\* A process runs its own code, the cluster starts and stops pods; a heart beat
\* nobody renews grows old, and as long as something is left ktctl clean is used
\* again.
FairSpec ==
  /\ Spec
  /\ \A u \in Users :
       /\ WF_state(Exchange(u)) /\ WF_state(CleanupWorkspace(u))
       /\ WF_state(PodStarts(u)) /\ WF_state(PodGone(u)) /\ WF_state(Expire(u))
  /\ WF_state(Controller)
  /\ WF_state(CheckClusterResources) /\ WF_state(TidyClusterResources)

-------------------------------------------------------------------------------
(* Properties *)

\* The variables have the shapes given where they are declared.
TypeOK ==
  /\ allowed \subseteq Hazards
  /\ spec \in Values /\ ready \in 0..Original
  /\ shadow \in [Users -> {"none", "starting", "running", "terminating"}]
  /\ maps \subseteq Users /\ old \subseteq Users
  /\ pc \in [Users -> States]
  /\ replicas \in [Users -> Values \cup {Unset}]
  /\ cleaner \in {"idle", "pods", "maps", "scale"}
  /\ toPods \subseteq Users /\ toMaps \subseteq Users
  /\ toScale \in {Original, Unset}
  /\ recoverer \in {"idle", "remove", "scale"} /\ target \in Users \cup {NoUser}
  /\ beside \subseteq Users

Only(hazards) == allowed \subseteq hazards

\* Who can still tell the replicas: the annotation of a shadow pod that is not
\* being removed, or the list of ktctl clean.
Recordings == {replicas[u] : u \in {v \in Users : Up(v)}} \cup {toScale}

KillHazards == {"overlap", "slowPods", "secondSignal", "crash", "sleep", "clean"}

\* However the sessions and ktctl clean interleave and whatever session is killed,
\* the deployment is never scaled down without a record in the cluster, or under way
\* in ktctl clean, of the replicas it had, provided no session starts while it is
\* scaled down, the calls that scale it succeed and ktctl clean runs to its end:
\* killed between the pods and the deployment it takes the record with it
\* (TidyClusterResources).
DownIsRecorded ==
  Only(KillHazards) /\ spec # Original =>
    Original \in Recordings

\* What the proofs need besides.  A session, and a shadow, has read replicas ...
ReplicasRead ==
  /\ \A u \in Users : Active(u) \/ shadow[u] # "none" => replicas[u] \in Values
  /\ recoverer # "idle" => target \in Users /\ replicas[target] \in Values
  /\ "down" \notin allowed => \A u \in Users : replicas[u] # 0

\* ... the session that has scaled down last, or its remains, has a shadow, and
\* what ktctl clean removes it has noted.
Keeps(u) == Up(u) /\ replicas[u] = Original /\ pc[u] \in {"scaleDown", "running", "scaleBack", "dead"}

Kept ==
  Only(KillHazards) =>
    /\ spec # Original => toScale = Original \/ \E u \in Users : Keeps(u)
    /\ \A u \in Users : pc[u] = "scaleDown" => Up(u)
    /\ \A u \in Users : shadow[u] # "none" => replicas[u] = Original
    /\ \A u \in Users : pc[u] \in {"idle", "createMap", "createPod"} => shadow[u] = "none"
    /\ \A u \in old \cup toPods : pc[u] \notin SetupStates \cup {"idle"}
    /\ toPods # {} => toScale = Original /\ cleaner = "pods"
    /\ cleaner = "idle" => toScale = Unset
    /\ recoverer = "idle"

Over == \A u \in Users : pc[u] \in {"idle", "exited"}

EndHazards == {"overlap", "slowPods", "secondSignal", "sleep", "clean", "recover"}

\* When all sessions have ended the deployment has its replicas again, also when
\* they were there at the same time, slept, or were undone by ktctl clean or recover,
\* provided none started while the deployment was scaled down.
Restored ==
  Only(EndHazards) /\ Over => spec = Original

\* Somebody is still going to scale back what is scaled down.
WillRestore ==
  Only(EndHazards) /\ spec # Original =>
    \E u \in Users : pc[u] \in {"running", "scaleBack"}

Serving(u) == shadow[u] = "running" /\ pc[u] \notin Ended

\* At every moment of an exchange and of its end, of one session or several, a
\* pod of the deployment or the shadow of a living session answers, as long as pods
\* start in the time they are waited for and nobody cuts the wait short by a second
\* signal, which removes the last shadow before the pods are back
\* (recoverExchangedTarget).
ServiceServed == Only({"overlap"}) => ready > 0 \/ \E u \in Users : Serving(u)

\* Until all the pods are there again, a shadow is kept by who scaled down last.
ShadowKept ==
  Only({"overlap"}) =>
    /\ spec # Original \/ ready # Original =>
         \E u \in Users : /\ Serving(u)
                         /\ pc[u] \in {"running", "scaleBack"} \cup
                              IF spec = 0 THEN {} ELSE {"await"}
    /\ \A u \in Users : pc[u] \in {"scaleDown", "running", "scaleBack", "await"} =>
                         shadow[u] = "running"
    /\ \A u \in Users : pc[u] = "waitReady" => Up(u)
    /\ \A u \in Users : shadow[u] = "terminating" => pc[u] \in Ended
    /\ cleaner = "idle" /\ recoverer = "idle"

OneHazards == {"slowPods", "secondSignal", "crash", "clean", "apiFailure", "toolCrash"}

\* ktctl clean, at whatever moment it lists and removes, takes no shadow from a session
\* that runs, and scales the deployment back under it only if the session started
\* while ktctl clean was at work on what another had left: its list is not made anew
\* (CheckClusterResources, TidyClusterResources).
ExchangeIntact ==
  Only(OneHazards) =>
    \A u \in Users : pc[u] = "running" => Up(u) /\ (spec = 0 \/ u \in beside)

\* While a session is there nothing of another is, and in the lists of ktctl clean
\* only if it was at work when the session started.
NothingElse ==
  Only(OneHazards) =>
    /\ \A u, v \in Users : Active(u) /\ u # v => ~Active(v) /\ shadow[v] = "none"
    /\ \A u \in Users : Active(u) => u \in beside \/ (toPods = {} /\ toScale = Unset)
    /\ \A u \in toPods : pc[u] \in Ended
    /\ cleaner # "pods" => toPods = {}
    /\ cleaner = "idle" => toScale = Unset
    /\ \A u \in Users : pc[u] = "scaleDown" => Up(u)
    /\ \A u \in old : pc[u] \in Ended
    /\ recoverer = "idle"

IInv == TypeOK /\ ReplicasRead /\ Kept /\ WillRestore /\ ShadowKept /\ NothingElse /\ ExchangeIntact

Settled == \A u \in Users : ~Active(u)
Clean == spec = Original /\ maps = {} /\ \A u \in Users : shadow[u] = "none"

\* Wherever the processes are killed, using ktctl clean as long as it finds
\* something brings the deployment back and leaves nothing in the cluster.
CleanRestores ==
  Only(KillHazards) /\ "clean" \in allowed /\ Settled
    ~> Clean \/ ~Settled
===============================================================================
