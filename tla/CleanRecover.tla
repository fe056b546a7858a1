------------------------------- MODULE CleanRecover -------------------------------
(***************************************************************************)
(* ktctl clean and ktctl recover beside the mesh and exchange sessions of  *)
(* ServiceRedirect.  Clean (command/clean, command/clean/common.go) lists  *)
(* what has an old heart beat and Services nobody serves any more, and     *)
(* works its lists off; Recover (command/recover.go, command/recover)      *)
(* undoes what sessions did to the Service, whether they live or not.      *)
(*                                                                         *)
(* Abstractions: one such tool runs at a time, as the member NoUser of     *)
(* svcFresh; among pods NoUser stands for the router, among services for   *)
(* the stuntman; how old a heart beat is, is whether it is older than the  *)
(* threshold of ktctl clean.  Config maps go with their pods; calls that   *)
(* only read, one after the other, are one step.                           *)
(***************************************************************************)
EXTENDS ServiceRedirect

VARIABLES
  beats,     \* beats[u]: the resources whose heart beat the process of u renews
  oldPods,   \* pods whose heart beat is too old
  oldSvcs,   \* services whose heart beat is too old
  staleLock, \* the lock of a killed process is still in the Service, expired
  tool,      \* where the tool is
  toPods, toSvcs, toRecover, toUnlock,  \* its lists
  undone,    \* history: ktctl recover has undone a mesh, and nobody locked the Service
  robbed     \* history: a tool has dropped the lock of a living process

ages     == <<beats, oldPods, oldSvcs>>
lists    == <<toPods, toSvcs, toRecover, toUnlock>>
history  == <<undone, robbed>>
toolVars == <<ages, staleLock, tool, lists, history>>
allState == <<state, toolVars>>
allVars  == <<vars, toolVars>>

Names == Users \cup {NoUser}
Tool == NoUser

CleanSteps == {"services?", "pods", "services", "recover", "recoverPut", "unlock", "unlockPut"}
RecoverSteps == {"dropRouter", "meshPut", "dropStuntman", "shadows", "selectorPut", "unlockPut"}

ToolsInit ==
  /\ Init
  /\ beats = [u \in Users |-> {}]
  /\ oldPods = {} /\ oldSvcs = {}
  /\ staleLock = FALSE
  /\ tool = "idle"
  /\ toPods = {} /\ toSvcs = {} /\ toRecover = FALSE /\ toUnlock = FALSE
  /\ undone = FALSE /\ robbed = FALSE

-------------------------------------------------------------------------------
(* Heart beats: SetupHeartBeat is called where a resource is created, by its creator. *)

Attempts(u, at) == pc[u] = at /\ pc'[u] # at

Resources == {"stuntman", "service", "router", "pod"}

Creates(u) ==
  {r \in Resources :
     \/ r = "stuntman" /\ Attempts(u, "stuntman") /\ stuntman = None /\ Sane(u)
     \/ r = "service" /\ Attempts(u, "shadowSvc")
     \/ r = "router" /\ Attempts(u, "newRouter") /\ routerState' # routerState
     \/ r = "pod" /\ Attempts(u, "shadow") /\ shadowPod' # shadowPod}

\* Mutant: CreatePod forgets the heart beat of a shadow pod.
RenewedNoPod(u) == beats[u] \cup (Creates(u) \ {"pod"})

\* The heart beats of a process end with it.
Renewed(u) == IF pc'[u] \in Ended THEN {} ELSE beats[u] \cup Creates(u)

\* Who joins a router or a stuntman renews the heart beat once.
Joins(at, next) == \E u \in Users : pc[u] = at /\ pc'[u] = next

PodThere(n) == IF n = NoUser THEN routerState # "absent" ELSE shadowPod[n].state # "absent"
PodUp(n) == IF n = NoUser THEN routerState = "alive" ELSE shadowPod[n].state = "alive"
SvcThere(n) == IF n = NoUser THEN stuntman # None ELSE shadowSvc[n] # NoUser

\* What a step of a session, or of a tool, does to heart beats and the expired lock.
Age ==
  /\ beats' = [u \in Users |-> Renewed(u)]
  /\ oldPods' = {n \in oldPods : PodThere(n)' /\ ~(n = NoUser /\ Joins("router", "increase"))}
  /\ oldSvcs' = {n \in oldSvcs : SvcThere(n)' /\ ~(n = NoUser /\ Joins("stuntman", "shadowSvc"))}

PodBeaten(n) ==
  \E u \in Users : IF n = NoUser THEN "router" \in beats[u] ELSE Mark[u] = n /\ "pod" \in beats[u]
SvcBeaten(n) ==
  \E u \in Users : IF n = NoUser THEN "stuntman" \in beats[u]
                  ELSE Mark[u] = n /\ "service" \in beats[u]

Expire ==
  /\ tools # {}
  /\ \/ \E n \in Names \ oldPods :
          /\ PodThere(n) /\ ~PodBeaten(n)
          /\ oldPods' = oldPods \cup {n} /\ UNCHANGED oldSvcs
     \/ \E n \in Names \ oldSvcs :
          /\ SvcThere(n) /\ ~SvcBeaten(n)
          /\ oldSvcs' = oldSvcs \cup {n} /\ UNCHANGED oldPods
  /\ UNCHANGED <<state, beats, staleLock, tool, lists, history>>

-------------------------------------------------------------------------------
(* ktctl clean *)

Then(step) == tool' = step

\* The cluster but for one thing each; the heart beats follow.
ServiceOnly == UNCHANGED <<stuntman, shadows, router, redeploys, pc, process>>

\* GetKtResources; of an expired router or exchange shadow, terminating or not,
\* the annotation names a Service to recover.
CheckClusterResources ==
  /\ "clean" \in tools /\ tool = "idle"
  /\ toPods' = {n \in oldPods : PodUp(n)}
  /\ toSvcs' = oldSvcs
  /\ toRecover' = \E n \in oldPods : n = NoUser \/ Mode[shadowPod[n].owner] = "exchange"
  /\ Then("services?")
  /\ UNCHANGED <<state, ages, staleLock, toUnlock, history>>

\* Mutant: a Service whose router is gone is not looked for.
NoOrphan == FALSE

\* A Service with kt-selector that selects a router which is gone, or a shadow,
\* or something else, that is not the pod of an exchange.
Orphan ==
  /\ ann # None
  /\ CASE sel.role = "router"   -> routerState = "absent"
       [] sel.role = "exchange" -> shadowPod[Mark[sel.target]].state = "absent"
       [] OTHER                 -> TRUE

\* A pod that cannot be read counts as gone.
OrphanInError == Fails /\ ann # None

\* analysisLockAndOrphanServices; nothing is done when all lists are empty.  A
\* Service is unlocked when its lock is old, which only that of a killed process
\* becomes here: a living process that outlives its lock is the hazard "slowSetup".
AnalyseServices ==
  /\ tool = "services?"
  /\ toRecover' \in {toRecover \/ Orphan, toRecover \/ Orphan \/ OrphanInError}
  /\ toUnlock' = staleLock
  /\ Then(IF toPods = {} /\ toSvcs = {} /\ ~toRecover' /\ ~toUnlock' THEN "idle" ELSE "pods")
  /\ UNCHANGED <<state, ages, staleLock, toPods, toSvcs, history>>

\* RemovePod: by name, whoever has created the pod that has it now.
RemovePod(n) ==
  \/ /\ PodUp(n)
     /\ IF n = NoUser
          THEN routerState' = "terminating" /\ podFresh' = {} /\ UNCHANGED shadowPod
          ELSE /\ shadowPod' = [shadowPod EXCEPT ![n].state = "terminating"]
               /\ UNCHANGED <<routerState, podFresh>>
  \/ /\ ~PodUp(n) \/ Fails
     /\ UNCHANGED <<routerState, podFresh, shadowPod>>

RemovesPod(n) ==
  /\ RemovePod(n)
  /\ UNCHANGED <<service, stuntman, shadowSvc, routerTarget, refs, confHeader, routes, locked,
                 redeploys, pc, process, staleLock, history>>
  /\ Age

TidyPods ==
  /\ tool = "pods"
  /\ \/ \E n \in toPods :
          RemovesPod(n) /\ toPods' = toPods \ {n} /\ UNCHANGED tool
     \/ toPods = {} /\ Then("services") /\ UNCHANGED <<state, ages, staleLock, history, toPods>>
  /\ UNCHANGED <<toSvcs, toRecover, toUnlock>>

RemoveService(n) ==
  \/ IF n = NoUser THEN stuntman' = None /\ UNCHANGED shadowSvc
                   ELSE shadowSvc' = [shadowSvc EXCEPT ![n] = NoUser] /\ UNCHANGED stuntman
  \/ Fails /\ UNCHANGED <<stuntman, shadowSvc>>

RemovesService(n) ==
  /\ RemoveService(n)
  /\ UNCHANGED <<service, shadowPod, router, locked, redeploys, pc, process, staleLock, history>>
  /\ Age

TidyServices ==
  /\ tool = "services"
  /\ \/ \E n \in toSvcs :
          RemovesService(n) /\ toSvcs' = toSvcs \ {n} /\ UNCHANGED <<tool, toRecover>>
     \/ /\ toSvcs = {} /\ toRecover' = FALSE
        /\ Then(IF toRecover THEN "recover" ELSE IF toUnlock THEN "unlock" ELSE "idle")
        /\ UNCHANGED <<state, ages, staleLock, history, toSvcs>>
  /\ UNCHANGED <<toPods, toUnlock>>

\* GetService, for an update.
ToolReads ==
  /\ svcFresh' = svcFresh \cup {Tool}
  /\ UNCHANGED <<sel, ann, notify, stuntman, shadows, router, locked, redeploys, pc, process>>

AfterRecover == IF toUnlock THEN "unlock" ELSE "idle"

\* RecoverOriginalService ...
TidyRecover ==
  /\ tool = "recover"
  /\ \/ Recorded /\ ToolReads /\ Then("recoverPut")
     \/ (~Recorded \/ Fails) /\ Then(AfterRecover) /\ UNCHANGED state
  /\ UNCHANGED <<ages, staleLock, lists, history>>

\* ... and its update.
TidyRecoverPut ==
  /\ tool = "recoverPut"
  /\ \/ Tool \in svcFresh /\ Write(ann, None)
     \/ (Tool \notin svcFresh \/ Fails) /\ UNCHANGED service
  /\ Then(AfterRecover)
  /\ ServiceOnly /\ UNCHANGED <<locked, ages, staleLock, lists, history>>

\* The annotation kt-lock is removed, whose it is is not looked at.
DropLock == locked' = {} /\ staleLock' = FALSE /\ robbed' = (robbed \/ locked # {})

\* The lock was old when it was listed; it may be another's now.
TidyUnlock ==
  /\ tool = "unlock"
  /\ \/ ToolReads /\ Then("unlockPut")
     \/ Fails /\ Then("idle") /\ UNCHANGED state
  /\ toUnlock' = FALSE
  /\ UNCHANGED <<ages, staleLock, toPods, toSvcs, toRecover, history>>

UnlockPut ==
  /\ tool = "unlockPut"
  /\ \/ Tool \in svcFresh /\ Write(sel, ann) /\ DropLock
     \/ /\ Tool \notin svcFresh \/ Fails
        /\ UNCHANGED <<service, locked, staleLock, robbed>>
  /\ Then("idle")
  /\ ServiceOnly /\ UNCHANGED <<ages, lists, undone>>

-------------------------------------------------------------------------------
(* ktctl recover *)

\* Recover and fetchTargetRole: the Service is read, then the pods it selects.
Recover ==
  /\ "recover" \in tools /\ tool = "idle"
  /\ ToolReads
  /\ \/ /\ ann # None
        /\ Then(IF sel.role = "router" /\ TargetAlive(sel) THEN "dropRouter" ELSE "selectorPut")
        /\ toPods' = {m \in Users : /\ sel.role = "exchange"
                                    /\ shadowPod[m] = [state |-> "alive", owner |-> sel.target]}
     \/ /\ ann = None /\ (locked # {} \/ staleLock)
        /\ Then("unlockPut")
        /\ UNCHANGED toPods
  /\ UNCHANGED <<ages, staleLock, toSvcs, toRecover, toUnlock, history>>

\* Mutant: the router is left alone until the Service is updated.
KeepsRouter ==
  /\ tool = "dropRouter"
  /\ Then("meshPut")
  /\ UNCHANGED <<state, ages, staleLock, lists, history>>

\* HandleMeshedByAutoService removes the router first: its watchers leave the
\* Service alone then.
RecoverRouter ==
  /\ tool = "dropRouter"
  /\ RemovesPod(NoUser)
  /\ Then("meshPut")
  /\ UNCHANGED lists

\* Nobody is about to redirect the Service, and no watcher to put it back.
WatchersContent ==
  /\ Nobody(SetupStates)
  /\ \A u \in Users : watch[u] # "off" => watch[u] # "armed" /\ sel = Target(u)

\* The update of the copy that was read first; an error ends the recovery.  The
\* lock is dropped with it, whoever has it.
RecoverPut(meshed, next) ==
  \/ /\ Tool \in svcFresh
     /\ Write(ann, None) /\ DropLock
     /\ undone' = (meshed /\ WatchersContent)
     /\ Then(next) /\ UNCHANGED toPods
  \/ /\ Tool \notin svcFresh \/ Fails
     /\ Then("idle") /\ toPods' = {}
     /\ UNCHANGED <<service, locked, staleLock, history>>

RecoverMeshed ==
  /\ tool = "meshPut"
  /\ RecoverPut(TRUE, "dropStuntman")
  /\ ServiceOnly /\ UNCHANGED <<ages, toSvcs, toRecover, toUnlock>>

RecoverStuntman ==
  /\ tool = "dropStuntman"
  /\ RemovesService(NoUser)
  /\ Then("shadows")
  /\ UNCHANGED lists

\* The shadow pods of the mesh are removed, and the services of the same names.
RecoverShadows ==
  /\ tool = "shadows"
  /\ toPods' = {m \in Users : PodUp(m) /\ Mode[shadowPod[m].owner] = "mesh"}
  /\ toSvcs' = toPods'
  /\ Then("pods")
  /\ UNCHANGED <<state, ages, staleLock, toRecover, toUnlock, history>>

\* HandleServiceSelectorAndRemotePods: the pod after the Service.
RecoverExchanged ==
  /\ tool = "selectorPut"
  /\ RecoverPut(FALSE, "pods")
  /\ ServiceOnly /\ UNCHANGED <<ages, toSvcs, toRecover, toUnlock>>

-------------------------------------------------------------------------------

\* A step of a session: a killed process leaves its lock, the next user overwrites it.
Session ==
  /\ Next
  /\ Age
  /\ staleLock' = IF locked' = locked THEN staleLock
                  ELSE \E u \in locked \ locked' : pc'[u] = "dead"
  /\ undone' = (undone /\ locked' \subseteq locked)
  /\ UNCHANGED <<tool, lists, robbed>>

TidyClusterResources ==
  TidyPods \/ TidyServices \/ TidyRecover \/ TidyRecoverPut \/ TidyUnlock \/ UnlockPut
RecoverService ==
  RecoverRouter \/ RecoverMeshed \/ RecoverStuntman \/ RecoverShadows \/ RecoverExchanged
ToolStep ==
  \/ CheckClusterResources \/ AnalyseServices \/ TidyClusterResources
  \/ Recover \/ RecoverService

ToolsNext == Session \/ ((Expire \/ ToolStep) /\ UNCHANGED allowed)

ToolsSpec == ToolsInit /\ [][ToolsNext]_allVars

\* Sessions and pods as in ServiceRedirect; heart beats nobody renews grow old, and
\* ktctl clean is used again and again.
ToolsFairSpec == ToolsSpec /\ Fairness /\ WF_allState(Expire) /\ WF_allState(ToolStep)

-------------------------------------------------------------------------------
(* Properties *)

\* The variables have the shapes given where they are declared.
ToolsType ==
  /\ beats \in [Users -> SUBSET Resources]
  /\ oldPods \subseteq Names /\ oldSvcs \subseteq Names
  /\ toPods \subseteq Names /\ toSvcs \subseteq Names
  /\ {staleLock, toRecover, toUnlock, undone, robbed} \subseteq BOOLEAN
  /\ tool \in CleanSteps \cup RecoverSteps \cup {"idle"}

\* Wherever sessions are killed, ktctl clean used again and again brings the Service
\* back and leaves nothing of ktctl in the cluster, nor the lock of a killed process.
CleanUndoes ==
  tools = {"clean"} /\ AllGone
    ~> \/ ~AllGone
       \/ /\ sel = Original /\ ann = None /\ ~staleLock
          /\ stuntman = None /\ routerState = "absent"
          /\ \A m \in Users : shadowSvc[m] = NoUser /\ shadowPod[m].state = "absent"

\* What a living session has created for itself ktctl clean leaves alone, although it
\* removes by name, from lists made earlier, what killed sessions may have had before.
\* It takes that ktctl clean has not dropped a lock that was taken after it was listed:
\* then the same version may be set up twice at once, and a name on the lists, or the
\* pod that a refused session takes for its own, may come to be that of a third.
CleanSparesOwn ==
  allowed \subseteq {"clean", "crash"} /\ ~robbed =>
    \A u \in Users : pc[u] = "running" =>
      /\ shadowPod[Mark[u]] = [state |-> "alive", owner |-> u]
      /\ Mode[u] = "mesh" => shadowSvc[Mark[u]] = u

\* A meshed Service that ktctl recover has brought back stays so until somebody
\* redirects it anew, the watchers of living sessions notwithstanding: the router is
\* removed before the Service is updated.  It takes that the removal succeeds, that no
\* session is being set up and that no watcher is at its second look.
MeshRecoveryStays == ~Fails /\ undone => sel = Original
===============================================================================
