---------------------------- MODULE ServiceRedirect ----------------------------
(***************************************************************************)
(* Sessions of ktctl mesh (auto mode) and ktctl exchange (selector mode) on *)
(* one Service: pkg/kt/command/mesh/auto.go, exchange/selector.go,         *)
(* general/resource.go, general/teardown.go and the reference counter of   *)
(* cluster/pod.go.                                                         *)
(*                                                                         *)
(* Every user runs one ktctl process.  A process takes the lock of the     *)
(* Service, creates its resources, redirects the Service and releases the  *)
(* lock; it then serves until it is told to quit and tears its session     *)
(* down, without a lock.  Each call of the API server is a step.           *)
(*                                                                         *)
(* Abstractions.                                                           *)
(*   - A read and the update based on it are two steps where a conflict of *)
(*     the resourceVersion has consequences (svcFresh, podFresh), and one  *)
(*     step where the code tries again: LockService and the watcher.       *)
(*   - The lock is `locked', see ServiceLock and ServiceMutex.             *)
(*   - The random kt-target label of a router or shadow pod is the user    *)
(*     who created it; a version mark is a member of Users too.            *)
(*   - `allowed' names what may go wrong in the environment.  It is chosen  *)
(*     at the start, so that a property can say under which conditions it  *)
(*     holds.                                                              *)
(***************************************************************************)
EXTENDS Integers, FiniteSets

CONSTANTS
  Users,         \* the ktctl processes
  Mode,          \* Mode[u]: "mesh" or "exchange"
  Mark,          \* Mark[u]: names the shadow pod and service of u
  Header,        \* Header[u]: the user who names the header of u's mark
  NoUser,        \* not a user
  Scenarios      \* which users take part, what the environment may do, and
                 \* how often the Service is redeployed at most

Hazards ==
  { "quits",       \* several sessions are torn down at the same time
    "joins",       \* a session is set up while another is torn down
    "updates",     \* the Service is redeployed while a session is torn down
    "slowSetup",   \* a session outlives its lock
    "slowExit",    \* a watcher wakes up before its process has exited
    "slowPods",    \* a pod is still terminating when the wait for it gives up
    "heartbeat",   \* UpdatePodHeartBeat patches the router pod at any time
    "replace",     \* a redeployment drops the annotations of the Service
    "apiFailure",  \* a call of the API server fails
    "crash",       \* a process is killed
    "clean",       \* ktctl clean is used, see CleanRecover
    "recover" }    \* ktctl recover is used, see CleanRecover

ASSUME ConstantsAssumption ==
  /\ NoUser \notin Users
  /\ Mode \in [Users -> {"mesh", "exchange"}]
  /\ Mark \in [Users -> Users]
  /\ Header \in [Users -> Users]
  /\ Scenarios \subseteq [users : SUBSET Users, allowed : SUBSET Hazards, redeploys : Nat]

\* RandomString(5): the name of an exchange shadow is its own.
ASSUME MarkAssumption ==
  \A u, v \in Users : Mode[u] = "exchange" /\ Mark[v] = Mark[u] => v = u

\* A selector, reduced to its kt-role and kt-target labels.
Selectors == [role : {"app", "router", "exchange"}, target : Users \cup {NoUser}]
Original == [role |-> "app", target |-> NoUser]
None == [role |-> "none", target |-> NoUser]

VARIABLES
  allowed,      \* what the environment may do, see Hazards
  sel,          \* spec.selector of the Service
  ann,          \* its annotation kt-selector, None when absent
  svcFresh,     \* users whose copy of the Service is the current revision; NoUser is a tool
  notify,       \* users to whom a modification of it is still to be delivered
  stuntman,     \* selector of the stuntman service, None when it is absent
  shadowSvc,    \* shadowSvc[m]: who created the shadow service of mark m
  shadowPod,    \* shadowPod[m]: [state, owner] of the shadow pod of mark m
  routerState,  \* the router pod: "absent", "alive" or "terminating"
  routerTarget, \* its kt-target label
  refs,         \* its annotation kt-ref-count
  podFresh,     \* users whose copy of the router pod is the current revision
  confHeader,   \* header in /etc/kt.conf of the router, NoUser before setup
  routes,       \* routes[m]: how often version m is in /etc/kt.conf
  locked,       \* users between LockService and UnlockService
  redeploys,    \* redeployments of the Service that are left
  pc,
  seen,         \* seen[u]: [sel, ann] of the Service when u locked it
  label,        \* label[u]: kt-target label of the router u redirects to
  recorded,     \* recorded[u]: marshaledSelector of u's watcher
  watch,        \* watch[u]: "off", "starting", "on" or "armed" (before its fix)
  store,        \* store[u]: which fields of opt.Store are set
  routerLost    \* users who found their router pod gone when they left

service  == <<sel, ann, svcFresh, notify>>
shadows  == <<shadowSvc, shadowPod>>
router   == <<routerState, routerTarget, refs, podFresh, confHeader, routes>>
process  == <<seen, label, recorded, watch, store, routerLost>>
state    == <<service, stuntman, shadows, router, locked, redeploys, pc, process>>
vars     == <<allowed, state>>

SetupStates ==
  {"name", "stuntman", "shadowSvc", "router", "newRouter", "setup", "increase",
   "increasePut", "add", "select", "selectPut", "shadow", "unlock", "abort"}
TeardownStates ==
  {"down", "decrease", "decreasePut", "removeRoute", "recover", "recoverPut",
   "dropStuntman", "dropRouter", "dropSvc", "dropShadow"}
Ended == {"exited", "dead"}
States == SetupStates \cup TeardownStates \cup Ended \cup {"idle", "running"}

Nobody(states) == \A v \in Users : pc[v] \notin states

Init ==
  /\ sel = Original /\ ann = None /\ svcFresh = {} /\ notify = {}
  /\ stuntman = None
  /\ shadowSvc = [m \in Users |-> NoUser]
  /\ shadowPod = [m \in Users |-> [state |-> "absent", owner |-> NoUser]]
  /\ routerState = "absent" /\ routerTarget = NoUser
  /\ refs = 0 /\ podFresh = {}
  /\ confHeader = NoUser /\ routes = [m \in Users |-> 0]
  /\ locked = {}
  /\ \E s \in Scenarios :
       /\ allowed = s.allowed
       /\ redeploys = s.redeploys
       /\ pc = [u \in Users |-> IF u \in s.users THEN "idle" ELSE "exited"]
  /\ seen = [u \in Users |-> [sel |-> Original, ann |-> None]]
  /\ label = [u \in Users |-> NoUser]
  /\ recorded = [u \in Users |-> None]
  /\ watch = [u \in Users |-> "off"]
  /\ store = [u \in Users |-> {}]
  /\ routerLost = {}

Goto(u, s) == pc' = [pc EXCEPT ![u] = s]
Store(u, field) == store' = [store EXCEPT ![u] = @ \cup {field}]

\* UpdateService: every other copy is stale, every informer sees a change.
Write(s, a) ==
  /\ sel' = s /\ ann' = a
  /\ svcFresh' = {}
  /\ notify' = {v \in Users : watch[v] \in {"on", "armed"}}

\* A call of the API server fails.
Fails == "apiFailure" \in allowed

\* The other commands that change what sessions have made.
tools == allowed \cap {"clean", "recover"}

-------------------------------------------------------------------------------
(* The first half of AutoMesh and BySelector: the lock and its checks *)

\* AutoMesh refuses a service that is exchanged, BySelector one that is
\* redirected at all.
Refused(u, s) ==
  /\ s.ann # None
  /\ Mode[u] = "mesh" => s.sel.role = "exchange"

LockService(u) ==
  /\ pc[u] = "idle"
  /\ locked = {} \/ "slowSetup" \in allowed
  /\ "joins" \in allowed \/ Nobody(TeardownStates)
  /\ locked' = locked \cup {u}
  /\ seen' = [seen EXCEPT ![u] = [sel |-> sel, ann |-> ann]]
  /\ Goto(u, CASE Refused(u, [sel |-> sel, ann |-> ann]) -> "abort"
               [] Mode[u] = "mesh" -> "name"
               [] OTHER -> "shadow")
  /\ Write(sel, ann)
  /\ UNCHANGED <<stuntman, shadows, router, redeploys, label, recorded, watch,
                 store, routerLost>>

\* LockService itself failed: nothing to undo but the process ends.
LockFails(u) ==
  /\ pc[u] = "idle"
  /\ Goto(u, "exited")
  /\ UNCHANGED <<service, stuntman, shadows, router, locked, redeploys, process>>

\* isNameUsable: a living shadow pod of the same version refuses u, one that
\* is terminating is waited for, 11 times at most.
IsNameUsable(u) ==
  /\ pc[u] = "name"
  /\ \/ /\ shadowPod[Mark[u]].state = "absent" \/ Fails
        /\ Goto(u, "stuntman")
     \/ /\ shadowPod[Mark[u]].state \in
             {"alive"} \cup IF "slowPods" \in allowed THEN {"terminating"} ELSE {}
        /\ Goto(u, "abort")
  /\ UNCHANGED <<service, stuntman, shadows, router, locked, redeploys, process>>

\* sanityCheck, on the copy of the Service that LockService returned.
Sane(u) == seen[u].ann = None /\ seen[u].sel.role = "app"

\* GetService and CreateService: who has outlived its lock may find the stuntman
\* created by another between the two.
CreateStuntmanService(u) ==
  /\ pc[u] = "stuntman"
  /\ \/ /\ stuntman = None /\ Sane(u)
        /\ stuntman' = seen[u].sel
        /\ Goto(u, "shadowSvc")
     \/ /\ stuntman # None
        /\ Goto(u, "shadowSvc")
        /\ UNCHANGED stuntman
     \/ /\ \/ stuntman = None /\ ~Sane(u)
           \/ stuntman # None /\ "slowSetup" \in allowed
           \/ Fails
        /\ Goto(u, "abort")
        /\ UNCHANGED stuntman
  /\ UNCHANGED <<service, shadows, router, locked, redeploys, process>>

CreateShadowService(u) ==
  /\ pc[u] = "shadowSvc"
  /\ \/ /\ shadowSvc[Mark[u]] = NoUser
        /\ shadowSvc' = [shadowSvc EXCEPT ![Mark[u]] = u]
        /\ Store(u, "service")
        /\ Goto(u, "router")
     \/ /\ shadowSvc[Mark[u]] # NoUser \/ Fails
        /\ Goto(u, "abort")
        /\ UNCHANGED <<shadowSvc, store>>
  /\ UNCHANGED <<service, stuntman, shadowPod, router, locked, redeploys, seen,
                 label, recorded, watch, routerLost>>

-------------------------------------------------------------------------------
(* createRouter *)

\* GetPod, and WaitPodTerminate for a terminating one, 11 times at most.
GetRouter(u) ==
  /\ pc[u] = "router"
  /\ \/ /\ routerState = "absent"
        /\ Goto(u, "newRouter")
        /\ UNCHANGED label
     \/ /\ routerState = "alive"
        /\ label' = [label EXCEPT ![u] = routerTarget]
        /\ Goto(u, "increase")
     \/ /\ (routerState = "terminating" /\ "slowPods" \in allowed) \/ Fails
        /\ Goto(u, "abort")
        /\ UNCHANGED label
  /\ UNCHANGED <<service, stuntman, shadows, router, locked, redeploys, seen,
                 recorded, watch, store, routerLost>>

\* CreateRouterPod, and the wait until it is ready.
CreateRouter(u) ==
  /\ pc[u] = "newRouter"
  /\ \/ /\ routerState = "absent"
        /\ routerState' = "alive" /\ routerTarget' = u /\ refs' = 1
        /\ confHeader' = NoUser /\ routes' = [m \in Users |-> 0]
        /\ podFresh' = {}
        /\ label' = [label EXCEPT ![u] = u]
        /\ Goto(u, "setup") \/ (Fails /\ Goto(u, "abort"))
     \/ /\ routerState # "absent" \/ Fails
        /\ Goto(u, "abort")
        /\ UNCHANGED <<router, label>>
  /\ UNCHANGED <<service, stuntman, shadows, locked, redeploys, seen, recorded,
                 watch, store, routerLost>>

\* A command executed in the router pod reaches it.
ExecInRouter == routerState # "absent"
ExecFails == routerState # "alive" \/ Fails

\* exec router setup; Store.Router is set when it has succeeded.
SetupRouter(u) ==
  /\ pc[u] = "setup"
  /\ \/ /\ ExecInRouter
        /\ confHeader' = Header[u]
        /\ routes' = [m \in Users |-> IF m = Mark[u] THEN 1 ELSE 0]
        /\ Store(u, "router")
        /\ Goto(u, "select")
     \/ /\ ExecFails
        /\ Goto(u, "abort")
        /\ UNCHANGED <<confHeader, routes, store>>
  /\ UNCHANGED <<service, stuntman, shadows, routerState, routerTarget, refs,
                 podFresh, locked, redeploys, seen, label, recorded, watch, routerLost>>

\* Mutant: the counter is increased twice.
IncreasedTwice == refs + 2

Increased == refs + 1

\* IncreasePodRef: GetPod ...
IncreasePodRef(u) ==
  /\ pc[u] = "increase"
  /\ \/ /\ routerState # "absent"
        /\ podFresh' = podFresh \cup {u}
        /\ Goto(u, "increasePut")
     \/ /\ routerState = "absent" \/ Fails
        /\ Goto(u, "abort")
        /\ UNCHANGED podFresh
  /\ UNCHANGED <<service, stuntman, shadows, routerState, routerTarget, refs,
                 confHeader, routes, locked, redeploys, process>>

\* ... and UpdatePod; here a conflict is an error of the command.
IncreasePodRefPut(u) ==
  /\ pc[u] = "increasePut"
  /\ \/ /\ u \in podFresh
        /\ refs' = Increased
        /\ podFresh' = {}
        /\ Goto(u, "add")
     \/ /\ u \notin podFresh \/ Fails
        /\ Goto(u, "abort")
        /\ UNCHANGED <<refs, podFresh>>
  /\ UNCHANGED <<service, stuntman, shadows, routerState, routerTarget, confHeader,
                 routes, locked, redeploys, process>>

\* exec router add: the router refuses a header that is not its own, and then
\* Store.Router stays unset; as it does when the answer is lost.
AddRoute(u) ==
  /\ pc[u] = "add"
  /\ \/ /\ ExecInRouter /\ confHeader = Header[u]
        /\ routes' = [routes EXCEPT ![Mark[u]] = @ + 1]
        /\ \/ Store(u, "router") /\ Goto(u, "select")
           \/ Fails /\ Goto(u, "abort") /\ UNCHANGED store
     \/ /\ ExecFails \/ confHeader # Header[u]
        /\ Goto(u, "abort")
        /\ UNCHANGED <<routes, store>>
  /\ UNCHANGED <<service, stuntman, shadows, routerState, routerTarget, refs,
                 podFresh, confHeader, locked, redeploys, seen, label, recorded,
                 watch, routerLost>>

-------------------------------------------------------------------------------
(* UpdateServiceSelector, CreateShadowAndInbound, UnlockService *)

\* The selector u redirects the Service to.
Target(u) == IF Mode[u] = "mesh" THEN [role |-> "router", target |-> label[u]]
                                 ELSE [role |-> "exchange", target |-> u]

\* Mutant: the annotation of an earlier user is not looked at.
MarshaledAgain == sel

\* The original selector, as the first or a later redirecting user finds it.
Marshaled == IF ann # None THEN ann ELSE sel

\* Without the annotation, a selector of kt pods would be taken for the original.
Redirectable == ann # None \/ sel.role = "app"

\* The end of UpdateServiceSelector: the watcher is started.
Redirected(u) ==
  /\ recorded' = [recorded EXCEPT ![u] = Marshaled]
  /\ watch' = [watch EXCEPT ![u] = "starting"]
  /\ Store(u, "origin")
  /\ Goto(u, IF Mode[u] = "mesh" THEN "shadow" ELSE "unlock")

\* GetService ...
UpdateServiceSelector(u) ==
  /\ pc[u] = "select"
  /\ \/ /\ Redirectable /\ sel = Target(u) /\ ann # None
        /\ Redirected(u)
        /\ UNCHANGED service
     \/ /\ Redirectable /\ (sel # Target(u) \/ ann = None)
        /\ svcFresh' = svcFresh \cup {u}
        /\ Goto(u, "selectPut")
        /\ UNCHANGED <<sel, ann, notify, recorded, watch, store>>
     \/ /\ ~Redirectable \/ Fails
        /\ Goto(u, "abort")
        /\ UNCHANGED <<service, recorded, watch, store>>
  /\ UNCHANGED <<stuntman, shadows, router, locked, redeploys, seen, label,
                 routerLost>>

\* ... and UpdateService; a conflict is an error of the command.
UpdateServiceSelectorPut(u) ==
  /\ pc[u] = "selectPut"
  /\ \/ /\ u \in svcFresh
        /\ Write(Target(u), Marshaled)
        /\ Redirected(u)
     \/ /\ u \notin svcFresh \/ Fails
        /\ Goto(u, "abort")
        /\ UNCHANGED <<service, recorded, watch, store>>
  /\ UNCHANGED <<stuntman, shadows, router, locked, redeploys, seen, label,
                 routerLost>>

\* GetOrCreateShadow records Store.Shadow before it creates anything; the
\* exchange records Store.Origin before it redirects the Service.
CreateShadow(u) ==
  /\ pc[u] = "shadow"
  /\ \/ /\ shadowPod[Mark[u]].state = "absent"
        /\ shadowPod' = [shadowPod EXCEPT ![Mark[u]] = [state |-> "alive", owner |-> u]]
        /\ \/ /\ Goto(u, IF Mode[u] = "mesh" THEN "unlock" ELSE "select")
              /\ store' = [store EXCEPT ![u] = @ \cup
                   IF Mode[u] = "mesh" THEN {"shadow"} ELSE {"shadow", "origin"}]
           \/ Fails /\ Goto(u, "abort") /\ Store(u, "shadow")
     \/ /\ shadowPod[Mark[u]].state # "absent" \/ Fails
        /\ Goto(u, "abort")
        /\ Store(u, "shadow")
        /\ UNCHANGED shadowPod
  /\ UNCHANGED <<service, stuntman, shadowSvc, router, locked, redeploys, seen,
                 label, recorded, watch, routerLost>>

\* The deferred UnlockService, whose update may conflict; after an error the
\* process goes on to CleanupWorkspace.
UnlockService(u) ==
  /\ pc[u] \in {"unlock", "abort"}
  /\ Write(sel, ann) \/ UNCHANGED service
  /\ locked' = locked \ {u}
  /\ Goto(u, IF pc[u] = "unlock" THEN "running" ELSE "down")
  /\ UNCHANGED <<stuntman, shadows, router, redeploys, process>>

-------------------------------------------------------------------------------
(* CleanupWorkspace *)

\* Mutant: resources are removed whoever created them.
StoredAlways(u, field) == u \in Users /\ field # "origin"

\* The field of opt.Store that says what there is to clean up.
Stored(u, field) == field \in store[u]

Quit(u) ==
  /\ pc[u] = "running"
  /\ "joins" \in allowed \/ Nobody(SetupStates)
  /\ "quits" \in allowed \/ Nobody(TeardownStates)
  /\ Goto(u, "down")
  /\ UNCHANGED <<service, stuntman, shadows, router, locked, redeploys, process>>

\* recoverAutoMeshRoute until its GetPod, recoverExchangedTarget until
\* RecoverOriginalService.
RecoverRoute(u) ==
  /\ pc[u] = "down"
  /\ \/ /\ Mode[u] = "exchange"
        /\ Goto(u, IF Stored(u, "origin") THEN "recover" ELSE "dropShadow")
        /\ UNCHANGED routerLost
     \/ /\ Mode[u] = "mesh" /\ ~Stored(u, "router")
        /\ Goto(u, "dropSvc")
        /\ UNCHANGED routerLost
     \/ /\ Mode[u] = "mesh" /\ Stored(u, "router")
        /\ \/ /\ routerState # "absent"
              /\ Goto(u, "decrease")
              /\ UNCHANGED routerLost
           \/ /\ routerState = "absent" \/ Fails
              /\ routerLost' = routerLost \cup {u}
              /\ Goto(u, IF Stored(u, "origin") THEN "recover" ELSE "dropSvc")
  /\ UNCHANGED <<service, stuntman, shadows, router, locked, redeploys, seen, label,
                 recorded, watch, store>>

\* Mutant: the last session but one takes itself for the last.
LastRefEarly == refs <= 2

\* Mutant: the counter is written back as it was read.
DecreasedForgotten == refs

\* decreaseRef
Decreased == refs - 1

\* DecreasePodRef: GetPod.  A count of one is left as it is: the caller will
\* delete the pod.
LastRef == refs = 1

DecreasePodRef(u) ==
  /\ pc[u] = "decrease"
  /\ \/ /\ routerState = "absent" \/ Fails
        /\ Goto(u, "dropSvc")
        /\ UNCHANGED podFresh
     \/ /\ routerState # "absent" /\ LastRef
        /\ Goto(u, "recover")
        /\ UNCHANGED podFresh
     \/ /\ routerState # "absent" /\ ~LastRef
        /\ podFresh' = podFresh \cup {u}
        /\ Goto(u, "decreasePut")
  /\ UNCHANGED <<service, stuntman, shadows, routerState, routerTarget, refs,
                 confHeader, routes, locked, redeploys, process>>

\* UpdatePod; the error of a conflict is dropped: `return false, nil'.
DecreasePodRefPut(u) ==
  /\ pc[u] = "decreasePut"
  /\ \/ /\ u \in podFresh
        /\ refs' = Decreased
        /\ podFresh' = {}
     \/ /\ u \notin podFresh \/ Fails
        /\ UNCHANGED <<refs, podFresh>>
  /\ Goto(u, "removeRoute")
  /\ UNCHANGED <<service, stuntman, shadows, routerState, routerTarget, confHeader,
                 routes, locked, redeploys, process>>

Unrouted(m) == [routes EXCEPT ![m] = @ - 1]

\* exec router remove.
RemoveRoute(u) ==
  /\ pc[u] = "removeRoute"
  /\ \/ /\ ExecInRouter /\ confHeader = Header[u] /\ routes[Mark[u]] > 0
        /\ routes' = Unrouted(Mark[u])
     \/ /\ ExecFails \/ confHeader # Header[u] \/ routes[Mark[u]] = 0
        /\ UNCHANGED routes
  /\ Goto(u, "dropSvc")
  /\ UNCHANGED <<service, stuntman, shadows, routerState, routerTarget, refs,
                 podFresh, confHeader, locked, redeploys, process>>

\* The annotation with the original selector exists.
Recorded == ann # None

\* RecoverOriginalService: GetService ...
RecoverOriginalService(u) ==
  /\ pc[u] = "recover"
  /\ \/ /\ Recorded
        /\ svcFresh' = svcFresh \cup {u}
        /\ Goto(u, "recoverPut")
     \/ /\ ~Recorded \/ Fails
        /\ Goto(u, IF Mode[u] = "mesh" THEN "dropStuntman" ELSE "dropShadow")
        /\ UNCHANGED svcFresh
  /\ UNCHANGED <<sel, ann, notify, stuntman, shadows, router, locked, redeploys,
                 process>>

\* ... and UpdateService; a conflict is logged, there is no second attempt.
RecoverOriginalServicePut(u) ==
  /\ pc[u] = "recoverPut"
  /\ \/ u \in svcFresh /\ Write(ann, None)
     \/ (u \notin svcFresh \/ Fails) /\ UNCHANGED service
  /\ Goto(u, IF Mode[u] = "mesh" THEN "dropStuntman" ELSE "dropShadow")
  /\ UNCHANGED <<stuntman, shadows, router, locked, redeploys, process>>

RemoveStuntman(u) ==
  /\ pc[u] = "dropStuntman"
  /\ stuntman' = None \/ (Fails /\ UNCHANGED stuntman)
  /\ Goto(u, IF u \in routerLost THEN "dropSvc" ELSE "dropRouter")
  /\ UNCHANGED <<service, shadows, router, locked, redeploys, process>>

\* RemovePod of the router starts its graceful termination.
RemoveRouter(u) ==
  /\ pc[u] = "dropRouter"
  /\ \/ /\ routerState = "alive"
        /\ routerState' = "terminating" /\ podFresh' = {}
     \/ /\ routerState # "alive" \/ Fails
        /\ UNCHANGED <<routerState, podFresh>>
  /\ Goto(u, "dropSvc")
  /\ UNCHANGED <<service, stuntman, shadows, routerTarget, refs, confHeader, routes,
                 locked, redeploys, process>>

\* cleanService
CleanService(u) ==
  /\ pc[u] = "dropSvc"
  /\ \/ /\ Stored(u, "service")
        /\ shadowSvc' = [shadowSvc EXCEPT ![Mark[u]] = NoUser]
     \/ /\ ~Stored(u, "service") \/ Fails
        /\ UNCHANGED shadowSvc
  /\ Goto(u, "dropShadow")
  /\ UNCHANGED <<service, stuntman, shadowPod, router, locked, redeploys, process>>

\* cleanShadowPodAndConfigMap; then the process is gone, and its watcher.
CleanShadow(u) ==
  /\ pc[u] = "dropShadow"
  /\ \/ /\ Stored(u, "shadow") /\ shadowPod[Mark[u]].state = "alive"
        /\ shadowPod' = [shadowPod EXCEPT ![Mark[u]] = [state |-> "terminating", owner |-> @.owner]]
     \/ /\ ~Stored(u, "shadow") \/ shadowPod[Mark[u]].state # "alive" \/ Fails
        /\ UNCHANGED shadowPod
  /\ Goto(u, "exited")
  /\ watch' = [watch EXCEPT ![u] = "off"]
  /\ notify' = notify \ {u}
  /\ UNCHANGED <<sel, ann, svcFresh, stuntman, shadowSvc, router, locked, redeploys,
                 seen, label, recorded, store, routerLost>>

-------------------------------------------------------------------------------
(* The watcher that UpdateServiceSelector starts *)

\* Mutant: only the annotation is compared.
ChangedAnnotation(u) == ann # recorded[u]

\* isServiceChanged
Changed(u) == sel # Target(u) \/ ann # recorded[u]

\* A pod with the labels of Target(u) exists and is not terminating.
TargetAlive(s) ==
  \/ s.role = "router" /\ routerState = "alive" /\ routerTarget = s.target
  \/ s.role = "exchange" /\ shadowPod[Mark[s.target]] = [state |-> "alive", owner |-> s.target]

\* The informer has listed the Service; earlier modifications go unnoticed.
StartWatch(u) ==
  /\ watch[u] = "starting"
  /\ watch' = [watch EXCEPT ![u] = "on"]
  /\ UNCHANGED <<service, stuntman, shadows, router, locked, redeploys, pc, seen,
                 label, recorded, store, routerLost>>

\* A modification is delivered: ignored, or a sleep of 1 to 10 seconds.
WatchService(u) ==
  /\ watch[u] = "on" /\ u \in notify
  /\ notify' = notify \ {u}
  /\ watch' = [watch EXCEPT ![u] =
                 IF TargetAlive(Target(u)) /\ Changed(u) THEN "armed" ELSE "on"]
  /\ UNCHANGED <<sel, ann, svcFresh, stuntman, shadows, router, locked, redeploys, pc,
                 seen, label, recorded, store, routerLost>>

\* The second look at the Service, and the fix.  The tear-down of the process
\* itself takes less than the sleep unless "slowExit".
FixService(u) ==
  /\ watch[u] = "armed"
  /\ pc[u] \in TeardownStates => "slowExit" \in allowed
  /\ \/ Changed(u) /\ Write(Target(u), recorded[u])
     \/ (~Changed(u) \/ Fails) /\ UNCHANGED service
  /\ watch' = [watch EXCEPT ![u] = "on"]
  /\ UNCHANGED <<stuntman, shadows, router, locked, redeploys, pc, seen, label,
                 recorded, store, routerLost>>

-------------------------------------------------------------------------------
(* The cluster and its other users *)

\* The kubelet has stopped a terminating pod.
RouterGone ==
  /\ routerState = "terminating"
  /\ routerState' = "absent" /\ routerTarget' = NoUser /\ refs' = 0
  /\ confHeader' = NoUser /\ routes' = [m \in Users |-> 0] /\ podFresh' = {}
  /\ UNCHANGED <<service, stuntman, shadows, locked, redeploys, pc, process>>

ShadowGone(m) ==
  /\ shadowPod[m].state = "terminating"
  /\ shadowPod' = [shadowPod EXCEPT ![m] = [state |-> "absent", owner |-> NoUser]]
  /\ UNCHANGED <<service, stuntman, shadowSvc, router, locked, redeploys, pc, process>>

\* Any change of the pod by others makes the copies read before it stale.
HeartBeat ==
  /\ "heartbeat" \in allowed
  /\ routerState = "alive" /\ podFresh # {}
  /\ podFresh' = {}
  /\ UNCHANGED <<service, stuntman, shadows, routerState, routerTarget, refs,
                 confHeader, routes, locked, redeploys, pc, process>>

\* The owner of the Service applies its manifest again, which keeps the
\* annotations of ktctl, or replaces it, which does not.
Redeploy ==
  /\ redeploys > 0
  /\ "updates" \in allowed \/ Nobody(TeardownStates)
  /\ sel # Original
  /\ Write(Original, ann) \/ ("replace" \in allowed /\ Write(Original, None))
  /\ redeploys' = redeploys - 1
  /\ UNCHANGED <<stuntman, shadows, router, locked, pc, process>>

\* A process is killed; its lock expires.
Crash(u) ==
  /\ "crash" \in allowed
  /\ pc[u] \notin Ended \cup {"idle"}
  /\ Goto(u, "dead")
  /\ locked' = locked \ {u}
  /\ watch' = [watch EXCEPT ![u] = "off"]
  /\ notify' = notify \ {u}
  /\ UNCHANGED <<sel, ann, svcFresh, stuntman, shadows, router, redeploys, seen,
                 label, recorded, store, routerLost>>

-------------------------------------------------------------------------------

AutoMesh(u) ==
  \/ IsNameUsable(u) \/ CreateStuntmanService(u) \/ CreateShadowService(u)
  \/ GetRouter(u) \/ CreateRouter(u) \/ SetupRouter(u)
  \/ IncreasePodRef(u) \/ IncreasePodRefPut(u) \/ AddRoute(u)

Setup(u) ==
  \/ AutoMesh(u) \/ UpdateServiceSelector(u) \/ UpdateServiceSelectorPut(u)
  \/ CreateShadow(u) \/ UnlockService(u)

CleanupWorkspace(u) ==
  \/ RecoverRoute(u) \/ DecreasePodRef(u) \/ DecreasePodRefPut(u) \/ RemoveRoute(u)
  \/ RecoverOriginalService(u) \/ RecoverOriginalServicePut(u)
  \/ RemoveStuntman(u) \/ RemoveRouter(u) \/ CleanService(u) \/ CleanShadow(u)

Watcher(u) == StartWatch(u) \/ WatchService(u) \/ FixService(u)

User(u) ==
  \/ LockService(u) \/ LockFails(u) \/ Setup(u) \/ Quit(u)
  \/ CleanupWorkspace(u) \/ Watcher(u) \/ Crash(u) \/ ShadowGone(u)

Next ==
  /\ (\E u \in Users : User(u)) \/ RouterGone \/ HeartBeat \/ Redeploy
  /\ UNCHANGED allowed

Spec == Init /\ [][Next]_vars

\* A process keeps running its code, its informer keeps delivering events, and
\* the kubelet finishes what it terminates.  Nobody has to start, to quit or
\* to redeploy.
Fairness ==
  /\ \A u \in Users : WF_state(Setup(u)) /\ WF_state(CleanupWorkspace(u))
                      /\ WF_state(Watcher(u)) /\ WF_state(ShadowGone(u))
  /\ WF_state(RouterGone)

-------------------------------------------------------------------------------
(* Properties *)

\* The variables have the shapes given where they are declared; allowed stays
\* as it was chosen.
TypeOK ==
  /\ sel \in Selectors
  /\ ann \in Selectors \cup {None}
  /\ svcFresh \subseteq Users \cup {NoUser} /\ notify \subseteq Users
  /\ stuntman \in Selectors \cup {None}
  /\ shadowSvc \in [Users -> Users \cup {NoUser}]
  /\ shadowPod \in [Users -> [state : {"absent", "alive", "terminating"},
                              owner : Users \cup {NoUser}]]
  /\ routerState \in {"absent", "alive", "terminating"}
  /\ routerTarget \in Users \cup {NoUser}
  /\ refs \in Int
  /\ podFresh \subseteq Users
  /\ confHeader \in Users \cup {NoUser}
  /\ routes \in [Users -> Nat]
  /\ locked \subseteq Users
  /\ redeploys \in Nat
  /\ pc \in [Users -> States]
  /\ seen \in [Users -> [sel : Selectors, ann : Selectors \cup {None}]]
  /\ label \in [Users -> Users \cup {NoUser}]
  /\ recorded \in [Users -> Selectors \cup {None}]
  /\ watch \in [Users -> {"off", "starting", "on", "armed"}]
  /\ store \in [Users -> SUBSET {"service", "router", "origin", "shadow"}]
  /\ routerLost \subseteq Users

\* Whatever fails, crashes or interleaves, a Service that selects kt pods
\* carries the selector of its application in the annotation kt-selector, from
\* which tear-down, watchers and `ktctl recover' rebuild it: no user ever
\* records another user's redirection as the original.
SelectorRecoverable ==
  /\ sel # Original => ann = Original
  /\ ann \in {None, Original}

\* Unmarked requests of a meshed Service reach the application and never the
\* router again: the stuntman service selects what the Service did before the
\* first user, also when it is created by a user who joins late.
StuntmanTargetsOriginal == stuntman \in {None, Original}

ShadowServiceStep ==
  \A m \in Users : shadowSvc'[m] # shadowSvc[m] /\ shadowSvc[m] # NoUser
     => pc[shadowSvc[m]] = "dropSvc" /\ pc'[shadowSvc[m]] = "dropShadow"

\* The shadow service of a version is removed by the session that created it
\* and by no other session, whatever fails: opt.Store.Service is set by the
\* creator only.
OwnShadowServiceOnly == [][tools = {} => ShadowServiceStep]_vars

\* What the proofs need besides: a copy that tear-down is about to write back
\* still has the annotation, ...
RecoveryReady == \A u \in Users : pc[u] = "recoverPut" /\ u \in svcFresh => ann # None

\* ... a living watcher recorded the selector of the application, ...
WatchersKnowOriginal == \A u \in Users : watch[u] # "off" => recorded[u] = Original

\* ... no other selector than the application's lacks a kt-role, ...
AppIsOriginal ==
  /\ sel.role = "app" => sel = Original
  /\ \A u \in Users : seen[u].sel.role = "app" => seen[u].sel = Original

\* ... and until it has removed it, a session owns the shadow service it created.
OwnsShadowService(u) ==
  Stored(u, "service") /\ pc[u] \notin {"dropShadow"} \cup Ended => shadowSvc[Mark[u]] = u

IInv ==
  /\ TypeOK
  /\ SelectorRecoverable
  /\ StuntmanTargetsOriginal
  /\ RecoveryReady
  /\ WatchersKnowOriginal
  /\ AppIsOriginal
  /\ \A u \in Users : OwnsShadowService(u)

\* The environment behaves: set-ups and tear-downs do not overlap.
Calm == allowed = {}

\* The sessions that hold a reference of the router pod.
Counted(u) ==
  /\ Mode[u] = "mesh"
  /\ \/ pc[u] \in {"setup", "add"}
     \/ Stored(u, "router") /\ pc[u] \notin {"removeRoute", "dropSvc", "dropShadow"} \cup Ended

\* When sessions do not overlap in their tear-down, the reference counter of
\* the router is exact: the last one to leave, and only the last, removes it.
RefsExact ==
  Calm /\ routerState = "alive" => refs = Cardinality({u \in Users : Counted(u)})

\* The Service never selects a pod that is not there or about to go: AutoMesh
\* redirects it when the router is ready, tear-down recovers it before that.
SelectsLivingPods == sel.role \in {"router", "exchange"} => TargetAlive(sel)

\* ... and a router it selects is configured and has the application behind it.
ServiceServed ==
  Calm => /\ SelectsLivingPods
          /\ sel.role = "router" => confHeader # NoUser /\ stuntman = Original

\* While a session is told to be ready its version is reachable end to end:
\* route, shadow service and shadow pod.
SessionServed ==
  \A u \in Users : Calm /\ pc[u] = "running" =>
    /\ shadowPod[Mark[u]] = [state |-> "alive", owner |-> u]
    /\ Mode[u] = "mesh" =>
         routerState = "alive" /\ routes[Mark[u]] > 0 /\ shadowSvc[Mark[u]] = u

AllGone == \A u \in Users : pc[u] \in Ended \cup {"idle"}

\* When all clients have exited, the Service is as it was before the first and
\* nothing that ktctl created is left in the cluster.
ResourcesRemoved ==
  Calm /\ AllGone =>
     /\ sel = Original /\ ann = None
     /\ stuntman = None /\ routerState # "alive"
     /\ \A m \in Users : shadowSvc[m] = NoUser /\ shadowPod[m].state # "alive"

\* A redeployment that the watcher of a running session gets to know of is
\* undone by it.
RedirectHeals ==
  \A u \in Users : (pc[u] = "running" /\ u \in notify /\ sel # Target(u))
                     ~> (pc[u] # "running" \/ sel = Target(u))
===============================================================================
