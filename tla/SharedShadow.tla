------------------------------ MODULE SharedShadow ------------------------------
(***************************************************************************)
(* ktctl connect --shareShadow: the developers of a namespace share one    *)
(* shadow pod (or deployment) named kt-connect-shadow-daemon and the config *)
(* map of the same name with its SSH key.  pkg/kt/service/cluster:         *)
(* shadow_pod.go, the reference counters of pod.go and deployment.go,      *)
(* configmap.go; command/connect.go (silenceCleanup), command/connect,     *)
(* command/clean/common.go, command/general/teardown.go.                   *)
(*                                                                         *)
(* A process looks for the shadow, joins it or creates it, connects, and   *)
(* when it ends, also by an error, decreases the counter or removes it.    *)
(*                                                                         *)
(* Abstractions: an SSH key is named by the user who generated it; a       *)
(* deployment and its pod are one thing whose `pending' state includes     *)
(* that the pod does not exist yet; the age of a heart beat is reduced to  *)
(* whether a living process renews it.                                     *)
(***************************************************************************)
EXTENDS Integers, FiniteSets

CONSTANTS
  Users,     \* the ktctl processes, one connect session each
  NoUser,    \* not a user
  Scenarios  \* which users take part, what the shadow is, what may happen besides

Hazards ==
  { "joins",       \* several users join at the same time
    "leaves",      \* a user leaves while others join or leave
    "slowPods",    \* a pod starts or terminates later than it is waited for
    "heartbeat",   \* the creator renews the time stamp at any time
    "clean",       \* silenceCleanup removes what has no heart beat
    "apiFailure",  \* a call of the API server fails
    "crash" }      \* a process is killed

\* A pod, or a deployment with --useShadowDeployment.
Kinds == {"pod", "deployment"}

ASSUME ConstantsAssumption ==
  /\ NoUser \notin Users
  /\ Scenarios \subseteq [ users : SUBSET Users, kind : Kinds, allowed : SUBSET Hazards ]

VARIABLES
  kind,       \* the kind of the shadow in this scenario
  allowed,    \* the hazards of this scenario
  shadow,     \* the shadow: "absent", "pending", "alive" or "terminating"
  shadowKey,  \* the key its sshd accepts, NoUser until it has started
  refs,       \* its annotation kt-ref-count
  fresh,      \* users whose copy of it is the current revision
  map,        \* the key in the config map, NoUser when there is none
  pc,
  key,        \* key[u]: the private key u uses
  dying,      \* users who found the shadow terminating
  beats,      \* beats[u]: of what u renews the heart beat
  expired,    \* expired[u]: what silenceCleanup of u is going to remove
  checked,    \* users whose silenceCleanup has made its list
  holders     \* history: the users who are counted in refs

cluster == <<shadow, shadowKey, refs, fresh, map, holders>>
process == <<key, dying, beats, expired, checked>>
state   == <<cluster, pc, process>>
vars    == <<kind, allowed, state>>

SetupStates == {"readMap", "await", "increase", "increasePut", "createMap",
                "createShadow", "waitReady", "connect"}
TeardownStates == {"decrease", "decreasePut", "dropMap", "dropShadow"}
Ended == {"exited", "dead"}
States == SetupStates \cup TeardownStates \cup Ended \cup {"idle", "running"}

Nobody(states) == \A v \in Users : pc[v] \notin states

Init ==
  /\ shadow = "absent" /\ shadowKey = NoUser /\ refs = 0 /\ fresh = {}
  /\ map = NoUser
  /\ holders = {}
  /\ \E s \in Scenarios :
       /\ kind = s.kind /\ allowed = s.allowed
       /\ pc = [u \in Users |-> IF u \in s.users THEN "idle" ELSE "exited"]
  /\ key = [u \in Users |-> NoUser]
  /\ dying = {}
  /\ beats = [u \in Users |-> {}]
  /\ expired = [u \in Users |-> {}]
  /\ checked = {}

Goto(u, s) == pc' = [pc EXCEPT ![u] = s]

\* Connect returns the error, main calls CleanupWorkspace; opt.Store.Shadow is
\* set by the first line of GetOrCreateShadow.
Abort(u) == Goto(u, "decrease")

\* The process is gone, and with it its tickers and silenceCleanup.
Exit(u, how) ==
  /\ Goto(u, how)
  /\ beats' = [beats EXCEPT ![u] = {}]
  /\ expired' = [expired EXCEPT ![u] = {}]
  /\ UNCHANGED <<key, dying, checked>>

Fails == "apiFailure" \in allowed

-------------------------------------------------------------------------------
(* tryGetExistingShadows *)

\* The shadow is found: its pod, or its deployment with exactly one pod, which the
\* deployment has some time before the pod is ready.
Found == shadow # "absent"
NoPodYet == kind = "deployment" /\ shadow = "pending"

GetOrCreateShadow(u) ==
  /\ pc[u] = "idle"
  /\ "joins" \in allowed \/ Nobody(SetupStates)
  /\ "leaves" \in allowed \/ Nobody(TeardownStates)
  /\ \/ /\ Found
        /\ dying' = IF shadow = "terminating" THEN dying \cup {u} ELSE dying
        /\ Goto(u, "readMap")
     \/ /\ ~Found \/ NoPodYet \/ Fails
        /\ Goto(u, "createMap")
        /\ UNCHANGED dying
  /\ UNCHANGED <<cluster, key, beats, expired, checked>>

FoundDying(u) == u \in dying

\* GetConfigMap.  Without it a living pod is an error, a terminating one is
\* waited for.
GetConfigMap(u) ==
  /\ pc[u] = "readMap"
  /\ \/ /\ map # NoUser
        /\ key' = [key EXCEPT ![u] = map]
        /\ Goto(u, "increase")
     \/ /\ map = NoUser /\ FoundDying(u)
        /\ Goto(u, "await")
        /\ UNCHANGED key
     \/ /\ (map = NoUser /\ ~FoundDying(u)) \/ Fails
        /\ Abort(u)
        /\ UNCHANGED key
  /\ UNCHANGED <<cluster, dying, beats, expired, checked>>

\* Mutant: the pod is waited for without a limit.
NeverGivesUp == FALSE

\* The wait for a pod ends after some polls: `times > ...'.
GivesUp == "slowPods" \in allowed

\* WaitPodTerminate.  A pod that is found again, a new one, is no error either.
WaitPodTerminate(u) ==
  /\ pc[u] = "await"
  /\ \/ /\ shadow # "terminating"
        /\ Goto(u, "createMap")
     \/ /\ (shadow = "terminating" /\ GivesUp) \/ Fails
        /\ Abort(u)
  /\ UNCHANGED <<cluster, process>>

\* IncreasePodRef, IncreaseDeploymentRef: the read ...
IncreaseRef(u) ==
  /\ pc[u] = "increase"
  /\ \/ /\ shadow # "absent"
        /\ fresh' = fresh \cup {u}
        /\ Goto(u, "increasePut")
     \/ /\ shadow = "absent" \/ Fails
        /\ Abort(u)
        /\ UNCHANGED fresh
  /\ UNCHANGED <<shadow, shadowKey, refs, map, holders, process>>

Increased == refs + 1

\* ... and the update; a conflict is an error of the command.
IncreaseRefPut(u) ==
  /\ pc[u] = "increasePut"
  /\ \/ /\ u \in fresh
        /\ refs' = Increased
        /\ fresh' = {}
        /\ holders' = holders \cup {u}
        /\ Goto(u, "connect")
     \/ /\ u \notin fresh \/ Fails
        /\ Abort(u)
        /\ UNCHANGED <<refs, fresh, holders>>
  /\ UNCHANGED <<shadow, shadowKey, map, process>>

-------------------------------------------------------------------------------
(* createShadow *)

\* createConfigMapWithSshKey; the ticker is started before the call.
CreateConfigMap(u) ==
  /\ pc[u] = "createMap"
  /\ beats' = [beats EXCEPT ![u] = @ \cup {"map"}]
  /\ \/ /\ map = NoUser
        /\ map' = u
        /\ key' = [key EXCEPT ![u] = u]
        /\ Goto(u, "createShadow")
     \/ /\ map # NoUser \/ Fails
        /\ Abort(u)
        /\ UNCHANGED <<map, key>>
  /\ UNCHANGED <<shadow, shadowKey, refs, fresh, holders, dying, expired, checked>>

\* createPod, createDeployment: the annotation kt-ref-count.
InitialRefs == 1

\* createShadowPod, createShadowDeployment.
CreateShadow(u) ==
  /\ pc[u] = "createShadow"
  /\ \/ /\ shadow = "absent"
        /\ shadow' = "pending" /\ refs' = InitialRefs /\ fresh' = {}
        /\ holders' = {u}
        /\ beats' = [beats EXCEPT ![u] = @ \cup {"shadow"}]
        /\ Goto(u, "waitReady")
     \/ /\ shadow # "absent" \/ Fails
        /\ Abort(u)
        /\ UNCHANGED <<shadow, refs, fresh, holders, beats>>
  /\ UNCHANGED <<shadowKey, map, key, dying, expired, checked>>

\* WaitPodReady, WaitPodsReady.
WaitReady(u) ==
  /\ pc[u] = "waitReady"
  /\ \/ /\ shadow = "alive" \/ (shadow = "terminating" /\ shadowKey # NoUser)
        /\ Goto(u, "connect")
     \/ /\ shadow = "absent" \/ (shadow # "alive" /\ GivesUp) \/ Fails
        /\ Abort(u)
  /\ UNCHANGED <<cluster, process>>

\* The port forward and the SSH connection of the SOCKS proxy.
Connect(u) ==
  /\ pc[u] = "connect"
  /\ \/ /\ shadow \in {"alive", "terminating"} /\ shadowKey = key[u]
        /\ Goto(u, "running")
     \/ /\ shadow # "alive" \/ shadowKey # key[u] \/ Fails
        /\ Abort(u)
  /\ UNCHANGED <<cluster, process>>

-------------------------------------------------------------------------------
(* CleanupWorkspace: cleanShadowPodAndConfigMap *)

Quit(u) ==
  /\ pc[u] = "running"
  /\ "leaves" \in allowed \/ Nobody(SetupStates \cup TeardownStates)
  /\ Goto(u, "decrease")
  /\ UNCHANGED <<cluster, process>>

\* Mutant: whoever leaves removes the shadow, as without --shareShadow.
AlwaysLast == TRUE

\* Mutant: nobody is ever the last.
NeverLast == FALSE

\* A count of one is left as it is: the caller removes the shadow.
LastRef == refs = 1

\* DecreasePodRef, DecreaseDeploymentRef: the read ...  When the shadow is not
\* found nothing else is removed.
DecreaseRef(u) ==
  /\ pc[u] = "decrease"
  /\ \/ /\ shadow = "absent" \/ Fails
        /\ Exit(u, "exited")
        /\ UNCHANGED fresh
     \/ /\ shadow # "absent" /\ LastRef
        /\ Goto(u, "dropMap")
        /\ UNCHANGED <<fresh, process>>
     \/ /\ shadow # "absent" /\ ~LastRef
        /\ fresh' = fresh \cup {u}
        /\ Goto(u, "decreasePut")
        /\ UNCHANGED process
  /\ UNCHANGED <<shadow, shadowKey, refs, map, holders>>

\* ... and the update, whose conflict is dropped or logged.
DecreaseRefPut(u) ==
  /\ pc[u] = "decreasePut"
  /\ \/ /\ u \in fresh
        /\ refs' = refs - 1
        /\ fresh' = {}
     \/ /\ u \notin fresh \/ Fails
        /\ UNCHANGED <<refs, fresh>>
  /\ holders' = holders \ {u}
  /\ Exit(u, "exited")
  /\ UNCHANGED <<shadow, shadowKey, map>>

RemovedMap == NoUser

RemoveConfigMap(u) ==
  /\ pc[u] = "dropMap"
  /\ map' = RemovedMap \/ (Fails /\ UNCHANGED map)
  /\ Goto(u, "dropShadow")
  /\ UNCHANGED <<shadow, shadowKey, refs, fresh, holders, process>>

\* RemovePod starts the graceful termination; RemoveDeployment removes the
\* deployment at once, its pod in the background.
Removal ==
  IF kind = "pod" /\ shadow # "absent"
    THEN shadow' = "terminating" /\ fresh' = {} /\ UNCHANGED <<shadowKey, refs, holders>>
    ELSE shadow' = "absent" /\ shadowKey' = NoUser /\ refs' = 0 /\ fresh' = {}
         /\ holders' = {}

RemoveShadow(u) ==
  /\ pc[u] = "dropShadow"
  /\ Removal \/ (Fails /\ UNCHANGED <<shadow, shadowKey, refs, fresh, holders>>)
  /\ Exit(u, "exited")
  /\ UNCHANGED map

-------------------------------------------------------------------------------
(* silenceCleanup, in the background of every connect *)

Unbeaten(x) == \A v \in Users : x \notin beats[v]

\* What may have a heart beat older than the threshold of five minutes.
Expired == {x \in {"shadow", "map"} : Unbeaten(x)}

\* CheckClusterResources, when the process has just started; the removals take
\* place beside the rest of it.
SilenceCheck(u) ==
  /\ "clean" \in allowed
  /\ pc[u] = "idle" /\ u \notin checked
  /\ checked' = checked \cup {u}
  /\ \E old \in SUBSET Expired :
       /\ "shadow" \in old => shadow \in {"pending", "alive"}
       /\ "map" \in old => map # NoUser
       /\ expired' = [expired EXCEPT ![u] = old]
  /\ UNCHANGED <<cluster, pc, key, dying, beats>>

\* The pods are removed, then the config maps, then the deployments; by name.
SilenceShadow(u) ==
  /\ "shadow" \in expired[u]
  /\ kind = "deployment" => "map" \notin expired[u]
  /\ Removal
  /\ expired' = [expired EXCEPT ![u] = @ \ {"shadow"}]
  /\ UNCHANGED <<map, pc, key, dying, beats, checked>>

SilenceMap(u) ==
  /\ "map" \in expired[u]
  /\ kind = "pod" => "shadow" \notin expired[u]
  /\ map' = NoUser
  /\ expired' = [expired EXCEPT ![u] = @ \ {"map"}]
  /\ UNCHANGED <<shadow, shadowKey, refs, fresh, holders, pc, key, dying, beats, checked>>

-------------------------------------------------------------------------------
(* The cluster *)

\* The pod starts with the config map as its volume, not without.
ShadowStarts ==
  /\ shadow = "pending" /\ map # NoUser
  /\ shadow' = "alive" /\ shadowKey' = map /\ fresh' = {}
  /\ UNCHANGED <<refs, map, holders, pc, process>>

ShadowGone ==
  /\ shadow = "terminating"
  /\ shadow' = "absent" /\ shadowKey' = NoUser /\ refs' = 0 /\ fresh' = {}
  /\ holders' = {}
  /\ UNCHANGED <<map, pc, process>>

\* UpdatePodHeartBeat, UpdateDeploymentHeartBeat make other copies stale.
HeartBeat ==
  /\ "heartbeat" \in allowed
  /\ ~Unbeaten("shadow") /\ shadow # "absent" /\ fresh # {}
  /\ fresh' = {}
  /\ UNCHANGED <<shadow, shadowKey, refs, map, holders, pc, process>>

Crash(u) ==
  /\ "crash" \in allowed
  /\ pc[u] \notin Ended \cup {"idle"}
  /\ Exit(u, "dead")
  /\ UNCHANGED cluster

-------------------------------------------------------------------------------

Setup(u) ==
  \/ GetConfigMap(u) \/ WaitPodTerminate(u) \/ IncreaseRef(u) \/ IncreaseRefPut(u)
  \/ CreateConfigMap(u) \/ CreateShadow(u) \/ WaitReady(u) \/ Connect(u)

CleanupWorkspace(u) ==
  \/ DecreaseRef(u) \/ DecreaseRefPut(u) \/ RemoveConfigMap(u) \/ RemoveShadow(u)

SilenceCleanup(u) == SilenceCheck(u) \/ SilenceShadow(u) \/ SilenceMap(u)

User(u) ==
  \/ GetOrCreateShadow(u) \/ Setup(u) \/ Quit(u) \/ CleanupWorkspace(u)
  \/ SilenceCleanup(u) \/ Crash(u)

Next ==
  /\ (\E u \in Users : User(u)) \/ ShadowStarts \/ ShadowGone \/ HeartBeat
  /\ UNCHANGED <<kind, allowed>>

Spec == Init /\ [][Next]_vars

\* A process runs its own code.  The cluster need not start or stop a pod.
FairSpec == Spec /\ \A u \in Users : WF_state(Setup(u)) /\ WF_state(CleanupWorkspace(u))

-------------------------------------------------------------------------------
(* Properties *)

\* The variables have the shapes given where they are declared.
TypeOK ==
  /\ kind \in Kinds /\ allowed \subseteq Hazards
  /\ shadow \in {"absent", "pending", "alive", "terminating"}
  /\ shadowKey \in Users \cup {NoUser}
  /\ refs \in Nat
  /\ fresh \subseteq Users
  /\ map \in Users \cup {NoUser}
  /\ pc \in [Users -> States]
  /\ key \in [Users -> Users \cup {NoUser}]
  /\ dying \subseteq Users
  /\ beats \in [Users -> SUBSET {"shadow", "map"}]
  /\ expired \in [Users -> SUBSET {"shadow", "map"}]
  /\ checked \subseteq Users
  /\ holders \subseteq Users

\* Whatever fails, crashes or interleaves, the counter of a shadow that exists is
\* never brought down to zero or below: the user who reads a one removes the
\* shadow instead, and nobody decreases what changed since it was read.
CounterPositive == shadow # "absent" => refs > 0

\* What the proof needs besides: a copy that is current is of a shadow that is
\* there, and who is about to decrease a current counter has read more than one.
CurrentCopies ==
  /\ fresh # {} => shadow # "absent"
  /\ \A u \in fresh : pc[u] = "decreasePut" => refs # 1

IInv ==
  /\ TypeOK
  /\ CounterPositive
  /\ CurrentCopies

\* A connected user has a living shadow that accepts its key: one shadow pod
\* serves all the developers of a namespace.
SharedByAll ==
  \A u \in Users : pc[u] = "running" => shadow = "alive" /\ shadowKey = key[u]

\* Users come and go one at a time; pods are slow, processes may die.
OneAtATime == allowed \subseteq {"slowPods", "crash"}
Orderly    == allowed \subseteq {"slowPods"}

\* Nobody loses the shadow because another user is refused, fails, dies or leaves,
\* in whatever order they do: also when its creator has left first.
ShadowServesUsers == OneAtATime => SharedByAll

Up == shadow \in {"pending", "alive"}

\* When all clients have exited nothing is left: a config map that stayed would
\* refuse every later user, createConfigMapWithSshKey fails when it exists.
ResourcesRemoved ==
  Orderly /\ (\A u \in Users : pc[u] \in {"idle", "exited"}) => ~Up /\ map = NoUser

\* Whatever happens to the shadow, a user who joins is connected or told to
\* have failed: no wait in GetOrCreateShadow is without end.
JoinEnds == \A u \in Users : pc[u] \in SetupStates ~> pc[u] \in {"running"} \cup Ended
===============================================================================
