------------------------- MODULE ServiceRedirectProofs -------------------------
(***************************************************************************)
(* Type correctness of ServiceRedirect, and what holds of it under every   *)
(* hazard: the selector of the application is never lost, the stuntman     *)
(* service reaches the application, shadow services have one owner.        *)
(*                                                                         *)
(* Then, where the environment behaves (Calm: no hazard, and one process   *)
(* at a time is set up or torn down): for any number of sessions the       *)
(* reference counter is exact, the Service and the sessions are served,    *)
(* and the last one to leave leaves nothing behind.  These assume          *)
(* OneHeader, without which they are false: see the run header_leak.       *)
(*                                                                         *)
(* The last part is about CleanRecover where processes are killed and      *)
(* ktctl clean is used: there, too, set-ups and tear-downs take turns.     *)
(***************************************************************************)
EXTENDS CleanRecover, FiniteSetTheorems, TLAPS

\* The selector of the application is a selector, and the absent one is not.
LEMMA SelectorFacts ==
  /\ Original \in Selectors
  /\ None \notin Selectors
  /\ Original # None
  /\ Original.role = "app"
  /\ \A t \in Users \cup {NoUser} :
       [role |-> "router", target |-> t] \in Selectors /\ [role |-> "exchange", target |-> t] \in Selectors
BY DEF Selectors, Original, None

\* A session redirects the Service to kt pods.
LEMMA TargetFacts ==
  ASSUME TypeOK, NEW u \in Users
  PROVE  Target(u) \in Selectors /\ Target(u).role # "app"
<1>1. label[u] \in Users \cup {NoUser}
  BY DEF TypeOK
<1>2. CASE Mode[u] = "mesh"
  BY <1>1, <1>2 DEF Target, Selectors
<1>3. CASE Mode[u] # "mesh"
  BY <1>3 DEF Target, Selectors
<1>. QED
  BY <1>2, <1>3

\* A process that moves on to a state of the program stays typed ...
LEMMA GotoType ==
  \A u \in Users, s \in States : TypeOK /\ Goto(u, s) => pc' \in [Users -> States]
BY DEF TypeOK, Goto

Fields == {"service", "router", "origin", "shadow"}

\* ... and so does what it notes in opt.Store.
LEMMA StoreType ==
  \A u \in Users, f \in Fields : TypeOK /\ Store(u, f) => store' \in [Users -> SUBSET Fields]
BY DEF TypeOK, Store, Fields

\* Nothing of ktctl exists at first.
LEMMA TypeOKInit == Init => TypeOK
<1> SUFFICES ASSUME Init PROVE TypeOK
  OBVIOUS
<1>1. pc \in [Users -> States]
  <2>1. PICK s \in Scenarios : pc = [u \in Users |-> IF u \in s.users THEN "idle" ELSE "exited"]
    BY DEF Init
  <2>. QED
    BY <2>1 DEF States, Ended
<1>. QED
  BY <1>1, ConstantsAssumption DEF ConstantsAssumption, Init, TypeOK, Selectors, Original, None

\* The part of IInv that is about the original selector: every place that
\* remembers it (annotation, watcher, copy of the Service, stuntman) remembers
\* the same.
SelectorInv ==
  /\ SelectorRecoverable
  /\ StuntmanTargetsOriginal
  /\ RecoveryReady
  /\ WatchersKnowOriginal
  /\ AppIsOriginal

\* Types are kept, given that nobody writes an absent annotation back.
LEMMA TypeOKStep == TypeOK /\ SelectorInv /\ [Next]_vars => TypeOK'
<1> SUFFICES ASSUME TypeOK, SelectorInv, [Next]_vars PROVE TypeOK'
  OBVIOUS
<1>0. TypeOK /\ SelectorRecoverable /\ RecoveryReady /\ WatchersKnowOriginal
  BY DEF SelectorInv
<1>00. \A u \in Users : Mark[u] \in Users /\ Header[u] \in Users
  BY ConstantsAssumption DEF ConstantsAssumption
<1> USE <1>0

<1>1. ASSUME NEW u \in Users, LockService(u) PROVE TypeOK'
  <2>1. pc' \in [Users -> States]
    BY <1>1, GotoType DEF LockService, States, SetupStates, TeardownStates
  <2>2. seen' \in [Users -> [sel : Selectors, ann : Selectors \cup {None}]]
    BY <1>1 DEF LockService, TypeOK
  <2>. QED
    BY <1>1, <1>00, <2>1, <2>2 DEF LockService, Write, service, shadows, router, process, TypeOK, Fields

<1>2. ASSUME NEW u \in Users, LockFails(u) PROVE TypeOK'
  <2>1. pc' \in [Users -> States]
    BY <1>2, GotoType DEF LockFails, States, SetupStates, TeardownStates, Ended
  <2>. QED
    BY <1>2, <1>00, <2>1 DEF LockFails, service, shadows, router, process, TypeOK, Fields

<1>3. ASSUME NEW u \in Users, IsNameUsable(u) PROVE TypeOK'
  <2>1. pc' \in [Users -> States]
    BY <1>3, GotoType DEF IsNameUsable, States, SetupStates, TeardownStates
  <2>. QED
    BY <1>3, <1>00, <2>1 DEF IsNameUsable, service, shadows, router, process, TypeOK, Fields

<1>4. ASSUME NEW u \in Users, CreateStuntmanService(u) PROVE TypeOK'
  <2>1. pc' \in [Users -> States]
    BY <1>4, GotoType DEF CreateStuntmanService, States, SetupStates, TeardownStates
  <2>. QED
    BY <1>4, <1>00, <2>1 DEF CreateStuntmanService, service, shadows, router, process, TypeOK, Fields

<1>5. ASSUME NEW u \in Users, CreateShadowService(u) PROVE TypeOK'
  <2>1. pc' \in [Users -> States]
    BY <1>5, GotoType DEF CreateShadowService, States, SetupStates, TeardownStates
  <2>2. store' \in [Users -> SUBSET Fields]
    BY <1>5, StoreType DEF CreateShadowService, Fields, TypeOK
  <2>3. shadowSvc' \in [Users -> Users \cup {NoUser}]
    BY <1>5 DEF CreateShadowService, TypeOK
  <2>. QED
    BY <1>5, <1>00, <2>1, <2>2, <2>3 DEF CreateShadowService, Store, service, shadows, router, process, TypeOK, Fields

<1>6. ASSUME NEW u \in Users, GetRouter(u) PROVE TypeOK'
  <2>1. pc' \in [Users -> States]
    BY <1>6, GotoType DEF GetRouter, States, SetupStates, TeardownStates
  <2>2. label' \in [Users -> Users \cup {NoUser}]
    BY <1>6 DEF GetRouter, TypeOK
  <2>. QED
    BY <1>6, <1>00, <2>1, <2>2 DEF GetRouter, service, shadows, router, process, TypeOK, Fields

<1>7. ASSUME NEW u \in Users, CreateRouter(u) PROVE TypeOK'
  <2>1. pc' \in [Users -> States]
    BY <1>7, GotoType DEF CreateRouter, States, SetupStates, TeardownStates
  <2>2. label' \in [Users -> Users \cup {NoUser}]
    BY <1>7 DEF CreateRouter, TypeOK
  <2>3. routes' \in [Users -> Nat]
    BY <1>7 DEF CreateRouter, router, TypeOK
  <2>. QED
    BY <1>7, <1>00, <2>1, <2>2, <2>3 DEF CreateRouter, service, shadows, router, process, TypeOK, Fields

<1>8. ASSUME NEW u \in Users, SetupRouter(u) PROVE TypeOK'
  <2>1. pc' \in [Users -> States]
    BY <1>8, GotoType DEF SetupRouter, States, SetupStates, TeardownStates
  <2>2. store' \in [Users -> SUBSET Fields]
    BY <1>8, StoreType DEF SetupRouter, Fields, TypeOK
  <2>3. routes' \in [Users -> Nat]
    BY <1>8 DEF SetupRouter, TypeOK
  <2>. QED
    BY <1>8, <1>00, <2>1, <2>2, <2>3 DEF SetupRouter, Store, service, shadows, router, process, TypeOK, Fields

<1>9. ASSUME NEW u \in Users, IncreasePodRef(u) PROVE TypeOK'
  <2>1. pc' \in [Users -> States]
    BY <1>9, GotoType DEF IncreasePodRef, States, SetupStates, TeardownStates
  <2>. QED
    BY <1>9, <1>00, <2>1 DEF IncreasePodRef, service, shadows, router, process, TypeOK, Fields

<1>10. ASSUME NEW u \in Users, IncreasePodRefPut(u) PROVE TypeOK'
  <2>1. pc' \in [Users -> States]
    BY <1>10, GotoType DEF IncreasePodRefPut, States, SetupStates, TeardownStates
  <2>. QED
    BY <1>10, <1>00, <2>1 DEF IncreasePodRefPut, Increased, service, shadows, router, process, TypeOK, Fields

<1>11. ASSUME NEW u \in Users, AddRoute(u) PROVE TypeOK'
  <2>1. pc' \in [Users -> States]
    BY <1>11, GotoType DEF AddRoute, States, SetupStates, TeardownStates
  <2>2. store' \in [Users -> SUBSET Fields]
    BY <1>11, StoreType DEF AddRoute, Fields, TypeOK
  <2>3. routes' \in [Users -> Nat]
    BY <1>11 DEF AddRoute, TypeOK
  <2>. QED
    BY <1>11, <1>00, <2>1, <2>2, <2>3 DEF AddRoute, Store, service, shadows, router, process, TypeOK, Fields

<1>12. ASSUME NEW u \in Users, UpdateServiceSelector(u) PROVE TypeOK'
  <2>1. pc' \in [Users -> States]
    BY <1>12, GotoType DEF UpdateServiceSelector, Redirected, States, SetupStates, TeardownStates
  <2>2. store' \in [Users -> SUBSET Fields]
    BY <1>12, StoreType DEF UpdateServiceSelector, Redirected, Fields, TypeOK
  <2>3. recorded' \in [Users -> Selectors \cup {None}]
    BY <1>12 DEF UpdateServiceSelector, Redirected, Marshaled, TypeOK
  <2>4. watch' \in [Users -> {"off", "starting", "on", "armed"}]
    BY <1>12 DEF UpdateServiceSelector, Redirected, TypeOK
  <2>. QED
    BY <1>12, <1>00, <2>1, <2>2, <2>3, <2>4 DEF UpdateServiceSelector, Redirected, Marshaled, Store, service, shadows, router, process, TypeOK, Fields

<1>13. ASSUME NEW u \in Users, UpdateServiceSelectorPut(u) PROVE TypeOK'
  <2>1. pc' \in [Users -> States]
    BY <1>13, GotoType DEF UpdateServiceSelectorPut, Redirected, States, SetupStates, TeardownStates
  <2>2. store' \in [Users -> SUBSET Fields]
    BY <1>13, StoreType DEF UpdateServiceSelectorPut, Redirected, Fields, TypeOK
  <2>3. recorded' \in [Users -> Selectors \cup {None}]
    BY <1>13 DEF UpdateServiceSelectorPut, Redirected, Marshaled, TypeOK
  <2>4. watch' \in [Users -> {"off", "starting", "on", "armed"}]
    BY <1>13 DEF UpdateServiceSelectorPut, Redirected, TypeOK
  <2>5. sel' \in Selectors /\ ann' \in Selectors \cup {None}
    BY <1>13, TargetFacts, SelectorFacts DEF UpdateServiceSelectorPut, Redirected, Write, TypeOK, service, SelectorRecoverable, Marshaled
  <2>. QED
    BY <1>13, <1>00, <2>1, <2>2, <2>3, <2>4, <2>5 DEF UpdateServiceSelectorPut, Write, Redirected, Marshaled, Store, service, shadows, router, process, TypeOK, Fields

<1>14. ASSUME NEW u \in Users, CreateShadow(u) PROVE TypeOK'
  <2>1. pc' \in [Users -> States]
    BY <1>14, GotoType DEF CreateShadow, States, SetupStates, TeardownStates
  <2>2. store' \in [Users -> SUBSET Fields]
    <3>1. PICK S \in SUBSET Fields : store' = [store EXCEPT ![u] = @ \cup S]
      BY <1>14 DEF CreateShadow, Store, Fields
    <3>. QED
      BY <3>1 DEF TypeOK, Fields
  <2>3. shadowPod' \in [Users -> [state : {"absent", "alive", "terminating"}, owner : Users \cup {NoUser}]]
    BY <1>14, <1>00 DEF CreateShadow, TypeOK
  <2>. QED
    BY <1>14, <1>00, <2>1, <2>2, <2>3 DEF CreateShadow, Store, service, shadows, router, process, TypeOK, Fields

<1>15. ASSUME NEW u \in Users, UnlockService(u) PROVE TypeOK'
  <2>1. pc' \in [Users -> States]
    BY <1>15, GotoType DEF UnlockService, States, SetupStates, TeardownStates
  <2>. QED
    BY <1>15, <1>00, <2>1 DEF UnlockService, Write, service, shadows, router, process, TypeOK, Fields

<1>16. ASSUME NEW u \in Users, Quit(u) PROVE TypeOK'
  <2>1. pc' \in [Users -> States]
    BY <1>16, GotoType DEF Quit, States, SetupStates, TeardownStates
  <2>. QED
    BY <1>16, <1>00, <2>1 DEF Quit, service, shadows, router, process, TypeOK, Fields

<1>17. ASSUME NEW u \in Users, RecoverRoute(u) PROVE TypeOK'
  <2>1. pc' \in [Users -> States]
    BY <1>17, GotoType DEF RecoverRoute, States, SetupStates, TeardownStates
  <2>. QED
    BY <1>17, <1>00, <2>1 DEF RecoverRoute, service, shadows, router, process, TypeOK, Fields

<1>18. ASSUME NEW u \in Users, DecreasePodRef(u) PROVE TypeOK'
  <2>1. pc' \in [Users -> States]
    BY <1>18, GotoType DEF DecreasePodRef, States, SetupStates, TeardownStates
  <2>. QED
    BY <1>18, <1>00, <2>1 DEF DecreasePodRef, service, shadows, router, process, TypeOK, Fields

<1>19. ASSUME NEW u \in Users, DecreasePodRefPut(u) PROVE TypeOK'
  <2>1. pc' \in [Users -> States]
    BY <1>19, GotoType DEF DecreasePodRefPut, States, SetupStates, TeardownStates
  <2>. QED
    BY <1>19, <1>00, <2>1 DEF DecreasePodRefPut, Decreased, service, shadows, router, process, TypeOK, Fields

<1>20. ASSUME NEW u \in Users, RemoveRoute(u) PROVE TypeOK'
  <2>1. pc' \in [Users -> States]
    BY <1>20, GotoType DEF RemoveRoute, States, SetupStates, TeardownStates
  <2>2. routes' \in [Users -> Nat]
    BY <1>20 DEF RemoveRoute, Unrouted, TypeOK
  <2>. QED
    BY <1>20, <1>00, <2>1, <2>2 DEF RemoveRoute, Unrouted, service, shadows, router, process, TypeOK, Fields

<1>21. ASSUME NEW u \in Users, RecoverOriginalService(u) PROVE TypeOK'
  <2>1. pc' \in [Users -> States]
    BY <1>21, GotoType DEF RecoverOriginalService, States, SetupStates, TeardownStates
  <2>. QED
    BY <1>21, <1>00, <2>1 DEF RecoverOriginalService, Recorded, service, shadows, router, process, TypeOK, Fields

<1>22. ASSUME NEW u \in Users, RecoverOriginalServicePut(u) PROVE TypeOK'
  <2>1. pc' \in [Users -> States]
    BY <1>22, GotoType DEF RecoverOriginalServicePut, States, SetupStates, TeardownStates
  <2>2. sel' \in Selectors /\ ann' \in Selectors \cup {None}
    BY <1>22, TargetFacts, SelectorFacts DEF RecoverOriginalServicePut, Write, TypeOK, service, SelectorRecoverable, RecoveryReady
  <2>. QED
    BY <1>22, <1>00, <2>1, <2>2 DEF RecoverOriginalServicePut, Write, service, shadows, router, process, TypeOK, Fields

<1>23. ASSUME NEW u \in Users, RemoveStuntman(u) PROVE TypeOK'
  <2>1. pc' \in [Users -> States]
    BY <1>23, GotoType DEF RemoveStuntman, States, SetupStates, TeardownStates
  <2>. QED
    BY <1>23, <1>00, <2>1 DEF RemoveStuntman, service, shadows, router, process, TypeOK, Fields

<1>24. ASSUME NEW u \in Users, RemoveRouter(u) PROVE TypeOK'
  <2>1. pc' \in [Users -> States]
    BY <1>24, GotoType DEF RemoveRouter, States, SetupStates, TeardownStates
  <2>. QED
    BY <1>24, <1>00, <2>1 DEF RemoveRouter, service, shadows, router, process, TypeOK, Fields

<1>25. ASSUME NEW u \in Users, CleanService(u) PROVE TypeOK'
  <2>1. pc' \in [Users -> States]
    BY <1>25, GotoType DEF CleanService, States, SetupStates, TeardownStates
  <2>. QED
    BY <1>25, <1>00, <2>1 DEF CleanService, service, shadows, router, process, TypeOK, Fields

<1>26. ASSUME NEW u \in Users, CleanShadow(u) PROVE TypeOK'
  <2>1. pc' \in [Users -> States]
    BY <1>26, GotoType DEF CleanShadow, States, SetupStates, TeardownStates, Ended
  <2>2. shadowPod' \in [Users -> [state : {"absent", "alive", "terminating"}, owner : Users \cup {NoUser}]]
    <3>1. CASE shadowPod' = [shadowPod EXCEPT ![Mark[u]] = [state |-> "terminating", owner |-> @.owner]]
      BY <3>1, <1>00 DEF TypeOK
    <3>2. CASE UNCHANGED shadowPod
      BY <3>2 DEF TypeOK
    <3>. QED
      BY <1>26, <3>1, <3>2 DEF CleanShadow
  <2>3. watch' \in [Users -> {"off", "starting", "on", "armed"}]
    BY <1>26 DEF CleanShadow, TypeOK
  <2>. QED
    BY <1>26, <1>00, <2>1, <2>2, <2>3 DEF CleanShadow, service, shadows, router, process, TypeOK, Fields

<1>27. ASSUME NEW u \in Users, StartWatch(u) PROVE TypeOK'
  BY <1>27 DEF StartWatch, service, shadows, router, process, TypeOK

<1>28. ASSUME NEW u \in Users, WatchService(u) PROVE TypeOK'
  BY <1>28 DEF WatchService, service, shadows, router, process, TypeOK

<1>29. ASSUME NEW u \in Users, FixService(u) PROVE TypeOK'
  <2>1. sel' \in Selectors /\ ann' \in Selectors \cup {None}
    BY <1>29, TargetFacts, SelectorFacts DEF FixService, Write, TypeOK, service, WatchersKnowOriginal
  <2>2. watch' \in [Users -> {"off", "starting", "on", "armed"}]
    BY <1>29 DEF FixService, TypeOK
  <2>. QED
    BY <1>29, <1>00, <2>1, <2>2 DEF FixService, Write, service, shadows, router, process, TypeOK, Fields

<1>30. ASSUME NEW u \in Users, Crash(u) PROVE TypeOK'
  <2>1. pc' \in [Users -> States]
    BY <1>30, GotoType DEF Crash, States, SetupStates, TeardownStates, Ended
  <2>. QED
    BY <1>30, <1>00, <2>1 DEF Crash, service, shadows, router, process, TypeOK, Fields

<1>31. ASSUME NEW u \in Users, ShadowGone(u) PROVE TypeOK'
  BY <1>31 DEF ShadowGone, service, shadows, router, process, TypeOK

<1>32. CASE RouterGone
  BY <1>32, <1>00, SelectorFacts DEF RouterGone, Write, service, shadows, router, process, TypeOK

<1>33. CASE HeartBeat
  BY <1>33, <1>00, SelectorFacts DEF HeartBeat, Write, service, shadows, router, process, TypeOK

<1>34. CASE Redeploy
  BY <1>34, <1>00, SelectorFacts DEF Redeploy, Write, service, shadows, router, process, TypeOK

<1>35. CASE UNCHANGED vars
  BY <1>35 DEF vars, state, service, shadows, router, process, TypeOK

<1>36. QED
  BY <1>1, <1>2, <1>3, <1>4, <1>5, <1>6, <1>7, <1>8, <1>9, <1>10, <1>11, <1>12, <1>13, <1>14, <1>15, <1>16, <1>17, <1>18, <1>19, <1>20, <1>21, <1>22, <1>23, <1>24, <1>25, <1>26, <1>27, <1>28, <1>29, <1>30, <1>31, <1>32, <1>33, <1>34, <1>35 DEF Next, User, Setup, AutoMesh, CleanupWorkspace, Watcher

\* Before the first user, only the application is selected.
LEMMA SelectorInvInit == Init => SelectorInv
BY SelectorFacts DEF Init, SelectorInv, SelectorRecoverable, StuntmanTargetsOriginal, RecoveryReady,
      WatchersKnowOriginal, AppIsOriginal, Original, None

\* Each writer of the Service writes the original selector into the annotation
\* or takes the annotation away together with the redirection.
LEMMA SelectorInvStep == TypeOK /\ SelectorInv /\ [Next]_vars => SelectorInv'
<1> SUFFICES ASSUME TypeOK, SelectorInv, [Next]_vars PROVE SelectorInv'
  OBVIOUS
<1>0. pc \in [Users -> States] /\ watch \in [Users -> {"off", "starting", "on", "armed"}]
      /\ recorded \in [Users -> Selectors \cup {None}]
      /\ seen \in [Users -> [sel : Selectors, ann : Selectors \cup {None}]]
  BY DEF TypeOK
<1> USE <1>0, SelectorFacts DEF SelectorInv, SelectorRecoverable, StuntmanTargetsOriginal, RecoveryReady,
      WatchersKnowOriginal, AppIsOriginal

<1>1. ASSUME NEW u \in Users, LockService(u) PROVE SelectorInv'
  BY <1>1 DEF LockService, Goto, Write, service, process
<1>2. ASSUME NEW u \in Users, LockFails(u) PROVE SelectorInv'
  BY <1>2 DEF LockFails, Goto, service, process
<1>3. ASSUME NEW u \in Users, IsNameUsable(u) PROVE SelectorInv'
  BY <1>3 DEF IsNameUsable, Goto, service, process
<1>4. ASSUME NEW u \in Users, CreateStuntmanService(u) PROVE SelectorInv'
  BY <1>4 DEF CreateStuntmanService, Goto, Sane, service, process
<1>5. ASSUME NEW u \in Users, CreateShadowService(u) PROVE SelectorInv'
  BY <1>5 DEF CreateShadowService, Goto, service, process
<1>6. ASSUME NEW u \in Users, GetRouter(u) PROVE SelectorInv'
  BY <1>6 DEF GetRouter, Goto, service, process
<1>7. ASSUME NEW u \in Users, CreateRouter(u) PROVE SelectorInv'
  BY <1>7 DEF CreateRouter, Goto, service, process
<1>8. ASSUME NEW u \in Users, SetupRouter(u) PROVE SelectorInv'
  BY <1>8 DEF SetupRouter, Goto, service, process
<1>9. ASSUME NEW u \in Users, IncreasePodRef(u) PROVE SelectorInv'
  BY <1>9 DEF IncreasePodRef, Goto, service, process
<1>10. ASSUME NEW u \in Users, IncreasePodRefPut(u) PROVE SelectorInv'
  BY <1>10 DEF IncreasePodRefPut, Goto, service, process
<1>11. ASSUME NEW u \in Users, AddRoute(u) PROVE SelectorInv'
  BY <1>11 DEF AddRoute, Goto, service, process
<1>12. ASSUME NEW u \in Users, UpdateServiceSelector(u) PROVE SelectorInv'
  BY <1>12 DEF UpdateServiceSelector, Goto, Redirected, Marshaled, service, process
<1>13. ASSUME NEW u \in Users, UpdateServiceSelectorPut(u) PROVE SelectorInv'
  BY <1>13, TargetFacts DEF UpdateServiceSelectorPut, Goto, Redirected, Marshaled, Write, service, process
<1>14. ASSUME NEW u \in Users, CreateShadow(u) PROVE SelectorInv'
  BY <1>14 DEF CreateShadow, Goto, service, process
<1>15. ASSUME NEW u \in Users, UnlockService(u) PROVE SelectorInv'
  BY <1>15 DEF UnlockService, Goto, Write, service, process
<1>16. ASSUME NEW u \in Users, Quit(u) PROVE SelectorInv'
  BY <1>16 DEF Quit, Goto, service, process
<1>17. ASSUME NEW u \in Users, RecoverRoute(u) PROVE SelectorInv'
  BY <1>17 DEF RecoverRoute, Goto, service, process
<1>18. ASSUME NEW u \in Users, DecreasePodRef(u) PROVE SelectorInv'
  BY <1>18 DEF DecreasePodRef, Goto, service, process
<1>19. ASSUME NEW u \in Users, DecreasePodRefPut(u) PROVE SelectorInv'
  BY <1>19 DEF DecreasePodRefPut, Goto, service, process
<1>20. ASSUME NEW u \in Users, RemoveRoute(u) PROVE SelectorInv'
  BY <1>20 DEF RemoveRoute, Goto, service, process
<1>21. ASSUME NEW u \in Users, RecoverOriginalService(u) PROVE SelectorInv'
  BY <1>21 DEF RecoverOriginalService, Goto, Recorded, service, process
<1>22. ASSUME NEW u \in Users, RecoverOriginalServicePut(u) PROVE SelectorInv'
  BY <1>22 DEF RecoverOriginalServicePut, Goto, Write, service, process
<1>23. ASSUME NEW u \in Users, RemoveStuntman(u) PROVE SelectorInv'
  BY <1>23 DEF RemoveStuntman, Goto, service, process
<1>24. ASSUME NEW u \in Users, RemoveRouter(u) PROVE SelectorInv'
  BY <1>24 DEF RemoveRouter, Goto, service, process
<1>25. ASSUME NEW u \in Users, CleanService(u) PROVE SelectorInv'
  BY <1>25 DEF CleanService, Goto, service, process
<1>26. ASSUME NEW u \in Users, CleanShadow(u) PROVE SelectorInv'
  BY <1>26 DEF CleanShadow, Goto, service, process
<1>27. ASSUME NEW u \in Users, StartWatch(u) PROVE SelectorInv'
  BY <1>27 DEF StartWatch, Goto, service, process
<1>28. ASSUME NEW u \in Users, WatchService(u) PROVE SelectorInv'
  BY <1>28 DEF WatchService, Goto, service, process
<1>29. ASSUME NEW u \in Users, FixService(u) PROVE SelectorInv'
  BY <1>29, TargetFacts DEF FixService, Goto, Write, service, process
<1>30. ASSUME NEW u \in Users, Crash(u) PROVE SelectorInv'
  BY <1>30 DEF Crash, Goto, service, process
<1>31. ASSUME NEW u \in Users, ShadowGone(u) PROVE SelectorInv'
  BY <1>31 DEF ShadowGone, service, process

<1>32. CASE RouterGone
  BY <1>32 DEF RouterGone, Write, service, process

<1>33. CASE HeartBeat
  BY <1>33 DEF HeartBeat, Write, service, process

<1>34. CASE Redeploy
  BY <1>34 DEF Redeploy, Write, service, process

<1>35. CASE UNCHANGED vars
  BY <1>35 DEF vars, state, service, process

<1>36. QED
  BY <1>1, <1>2, <1>3, <1>4, <1>5, <1>6, <1>7, <1>8, <1>9, <1>10, <1>11, <1>12, <1>13, <1>14, <1>15, <1>16, <1>17, <1>18, <1>19, <1>20, <1>21, <1>22, <1>23, <1>24, <1>25, <1>26, <1>27, <1>28, <1>29, <1>30, <1>31, <1>32, <1>33, <1>34, <1>35 DEF Next, User, Setup, AutoMesh, CleanupWorkspace, Watcher

\* The part of IInv that is about shadow services, and the step it allows.
OwnerInv == \A u \in Users : OwnsShadowService(u)

\* No session has a shadow service at first.
LEMMA OwnerInvInit == Init => OwnerInv
BY DEF Init, OwnerInv, OwnsShadowService, Stored

\* Creating fails where a shadow service exists, so two sessions of one version
\* never both take it for theirs, and cleanService removes the own one.
LEMMA OwnerInvStep == TypeOK /\ OwnerInv /\ [Next]_vars => OwnerInv' /\ ShadowServiceStep
<1> SUFFICES ASSUME TypeOK, OwnerInv, [Next]_vars PROVE OwnerInv' /\ ShadowServiceStep
  OBVIOUS
<1>0. /\ pc \in [Users -> States] /\ store \in [Users -> SUBSET Fields]
      /\ shadowSvc \in [Users -> Users \cup {NoUser}]
      /\ NoUser \notin Users
      /\ \A u \in Users : Mark[u] \in Users
  BY ConstantsAssumption DEF ConstantsAssumption, TypeOK, Fields
<1> USE <1>0 DEF OwnerInv, OwnsShadowService, Stored, ShadowServiceStep, Ended

<1>1. ASSUME NEW u \in Users, LockService(u) PROVE OwnerInv' /\ ShadowServiceStep
  BY <1>1 DEF LockService, Goto, shadows, process
<1>2. ASSUME NEW u \in Users, LockFails(u) PROVE OwnerInv' /\ ShadowServiceStep
  BY <1>2 DEF LockFails, Goto, shadows, process
<1>3. ASSUME NEW u \in Users, IsNameUsable(u) PROVE OwnerInv' /\ ShadowServiceStep
  BY <1>3 DEF IsNameUsable, Goto, shadows, process
<1>4. ASSUME NEW u \in Users, CreateStuntmanService(u) PROVE OwnerInv' /\ ShadowServiceStep
  BY <1>4 DEF CreateStuntmanService, Goto, shadows, process
<1>5. ASSUME NEW u \in Users, CreateShadowService(u) PROVE OwnerInv' /\ ShadowServiceStep
  BY <1>5 DEF CreateShadowService, Goto, Store, Fields, shadows, process
<1>6. ASSUME NEW u \in Users, GetRouter(u) PROVE OwnerInv' /\ ShadowServiceStep
  BY <1>6 DEF GetRouter, Goto, shadows, process
<1>7. ASSUME NEW u \in Users, CreateRouter(u) PROVE OwnerInv' /\ ShadowServiceStep
  BY <1>7 DEF CreateRouter, Goto, shadows, process
<1>8. ASSUME NEW u \in Users, SetupRouter(u) PROVE OwnerInv' /\ ShadowServiceStep
  BY <1>8 DEF SetupRouter, Goto, Store, Fields, shadows, process
<1>9. ASSUME NEW u \in Users, IncreasePodRef(u) PROVE OwnerInv' /\ ShadowServiceStep
  BY <1>9 DEF IncreasePodRef, Goto, shadows, process
<1>10. ASSUME NEW u \in Users, IncreasePodRefPut(u) PROVE OwnerInv' /\ ShadowServiceStep
  BY <1>10 DEF IncreasePodRefPut, Goto, shadows, process
<1>11. ASSUME NEW u \in Users, AddRoute(u) PROVE OwnerInv' /\ ShadowServiceStep
  BY <1>11 DEF AddRoute, Goto, Store, Fields, shadows, process
<1>12. ASSUME NEW u \in Users, UpdateServiceSelector(u) PROVE OwnerInv' /\ ShadowServiceStep
  BY <1>12 DEF UpdateServiceSelector, Goto, Redirected, Store, Fields, shadows, process
<1>13. ASSUME NEW u \in Users, UpdateServiceSelectorPut(u) PROVE OwnerInv' /\ ShadowServiceStep
  BY <1>13 DEF UpdateServiceSelectorPut, Goto, Redirected, Store, Fields, shadows, process
<1>14. ASSUME NEW u \in Users, CreateShadow(u) PROVE OwnerInv' /\ ShadowServiceStep
  BY <1>14 DEF CreateShadow, Goto, Store, Fields, shadows, process
<1>15. ASSUME NEW u \in Users, UnlockService(u) PROVE OwnerInv' /\ ShadowServiceStep
  BY <1>15 DEF UnlockService, Goto, shadows, process
<1>16. ASSUME NEW u \in Users, Quit(u) PROVE OwnerInv' /\ ShadowServiceStep
  BY <1>16 DEF Quit, Goto, shadows, process
<1>17. ASSUME NEW u \in Users, RecoverRoute(u) PROVE OwnerInv' /\ ShadowServiceStep
  BY <1>17 DEF RecoverRoute, Goto, shadows, process
<1>18. ASSUME NEW u \in Users, DecreasePodRef(u) PROVE OwnerInv' /\ ShadowServiceStep
  BY <1>18 DEF DecreasePodRef, Goto, shadows, process
<1>19. ASSUME NEW u \in Users, DecreasePodRefPut(u) PROVE OwnerInv' /\ ShadowServiceStep
  BY <1>19 DEF DecreasePodRefPut, Goto, shadows, process
<1>20. ASSUME NEW u \in Users, RemoveRoute(u) PROVE OwnerInv' /\ ShadowServiceStep
  BY <1>20 DEF RemoveRoute, Goto, shadows, process
<1>21. ASSUME NEW u \in Users, RecoverOriginalService(u) PROVE OwnerInv' /\ ShadowServiceStep
  BY <1>21 DEF RecoverOriginalService, Goto, shadows, process
<1>22. ASSUME NEW u \in Users, RecoverOriginalServicePut(u) PROVE OwnerInv' /\ ShadowServiceStep
  BY <1>22 DEF RecoverOriginalServicePut, Goto, shadows, process
<1>23. ASSUME NEW u \in Users, RemoveStuntman(u) PROVE OwnerInv' /\ ShadowServiceStep
  BY <1>23 DEF RemoveStuntman, Goto, shadows, process
<1>24. ASSUME NEW u \in Users, RemoveRouter(u) PROVE OwnerInv' /\ ShadowServiceStep
  BY <1>24 DEF RemoveRouter, Goto, shadows, process
<1>25. ASSUME NEW u \in Users, CleanService(u) PROVE OwnerInv' /\ ShadowServiceStep
  BY <1>25 DEF CleanService, Goto, shadows, process
<1>26. ASSUME NEW u \in Users, CleanShadow(u) PROVE OwnerInv' /\ ShadowServiceStep
  BY <1>26 DEF CleanShadow, Goto, shadows, process
<1>27. ASSUME NEW u \in Users, StartWatch(u) PROVE OwnerInv' /\ ShadowServiceStep
  BY <1>27 DEF StartWatch, Goto, shadows, process
<1>28. ASSUME NEW u \in Users, WatchService(u) PROVE OwnerInv' /\ ShadowServiceStep
  BY <1>28 DEF WatchService, Goto, shadows, process
<1>29. ASSUME NEW u \in Users, FixService(u) PROVE OwnerInv' /\ ShadowServiceStep
  BY <1>29 DEF FixService, Goto, shadows, process
<1>30. ASSUME NEW u \in Users, Crash(u) PROVE OwnerInv' /\ ShadowServiceStep
  BY <1>30 DEF Crash, Goto, shadows, process
<1>31. ASSUME NEW u \in Users, ShadowGone(u) PROVE OwnerInv' /\ ShadowServiceStep
  BY <1>31 DEF ShadowGone, process

<1>32. CASE RouterGone
  BY <1>32 DEF RouterGone, shadows, process

<1>33. CASE HeartBeat
  BY <1>33 DEF HeartBeat, shadows, process

<1>34. CASE Redeploy
  BY <1>34 DEF Redeploy, shadows, process

<1>35. CASE UNCHANGED vars
  BY <1>35 DEF vars, state, shadows, process

<1>36. QED
  BY <1>1, <1>2, <1>3, <1>4, <1>5, <1>6, <1>7, <1>8, <1>9, <1>10, <1>11, <1>12, <1>13, <1>14, <1>15, <1>16, <1>17, <1>18, <1>19, <1>20, <1>21, <1>22, <1>23, <1>24, <1>25, <1>26, <1>27, <1>28, <1>29, <1>30, <1>31, <1>32, <1>33, <1>34, <1>35 DEF Next, User, Setup, AutoMesh, CleanupWorkspace, Watcher

-------------------------------------------------------------------------------
(* The theorems *)

\* The inductive invariant: the types need it because tear-down writes back what
\* it finds in the annotation.
THEOREM IInvCorrect == Spec => []IInv
<1>1. Init => IInv
  BY TypeOKInit, SelectorInvInit, OwnerInvInit DEF IInv, SelectorInv, OwnerInv
<1>2. IInv /\ [Next]_vars => IInv'
  <2> SUFFICES ASSUME IInv, [Next]_vars PROVE IInv'
    OBVIOUS
  <2>1. TypeOK'
    BY TypeOKStep DEF IInv, SelectorInv
  <2>2. SelectorInv'
    BY SelectorInvStep DEF IInv, SelectorInv
  <2>3. OwnerInv'
    BY OwnerInvStep DEF IInv, OwnerInv
  <2>. QED
    BY <2>1, <2>2, <2>3 DEF IInv, SelectorInv, OwnerInv
<1>. QED
  BY <1>1, <1>2, PTL DEF Spec

\* Every variable keeps its type, for any users, marks, headers and hazards.
THEOREM TypeCorrect == Spec => []TypeOK
BY IInvCorrect, PTL DEF IInv

\* For any number of users and under every hazard the model knows, a Service
\* that selects kt pods carries the selector of its application.
THEOREM SelectorRecoverableCorrect == Spec => []SelectorRecoverable
BY IInvCorrect, PTL DEF IInv

\* Likewise the stuntman service never selects the router.
THEOREM StuntmanTargetsOriginalCorrect == Spec => []StuntmanTargetsOriginal
BY IInvCorrect, PTL DEF IInv

-------------------------------------------------------------------------------
(* ktctl clean and ktctl recover beside the sessions: they too put back what the
   annotation says and drop it with the redirection.  Shadow services may have two
   owners then, so that IInv is not kept; types and SelectorInv are. *)

USE DEF history, DropLock

\* The copy of the Service that a tool is about to write back still has the annotation.
ToolReady ==
  tool \in {"recoverPut", "dropRouter", "meshPut", "selectorPut"} /\ Tool \in svcFresh => ann # None

ToolsInv == TypeOK /\ SelectorInv /\ ToolReady

\* A session that changes the Service makes the copy of the tool stale.
LEMMA SessionsOutdateTools ==
  [Next]_vars => Tool \notin svcFresh' \/ (UNCHANGED <<sel, ann>> /\ Tool \in svcFresh)
<1> SUFFICES ASSUME [Next]_vars PROVE Tool \notin svcFresh' \/ (UNCHANGED <<sel, ann>> /\ Tool \in svcFresh)
  OBVIOUS
<1>0. NoUser \notin Users
  BY ConstantsAssumption DEF ConstantsAssumption
<1> USE <1>0 DEF Tool, Write, service
<1>1. ASSUME NEW u \in Users, LockService(u) \/ LockFails(u) \/ Setup(u) \/ Quit(u)
      PROVE  Tool \notin svcFresh' \/ (UNCHANGED <<sel, ann>> /\ Tool \in svcFresh)
  BY <1>1 DEF LockService, LockFails, Setup, AutoMesh, IsNameUsable, CreateStuntmanService,
     CreateShadowService, GetRouter, CreateRouter, SetupRouter, IncreasePodRef, IncreasePodRefPut,
     AddRoute, UpdateServiceSelector, UpdateServiceSelectorPut, CreateShadow, UnlockService, Quit
<1>2. ASSUME NEW u \in Users, CleanupWorkspace(u) \/ Watcher(u) \/ Crash(u) \/ ShadowGone(u)
      PROVE  Tool \notin svcFresh' \/ (UNCHANGED <<sel, ann>> /\ Tool \in svcFresh)
  BY <1>2 DEF CleanupWorkspace, RecoverRoute, DecreasePodRef, DecreasePodRefPut, RemoveRoute,
     RecoverOriginalService, RecoverOriginalServicePut, RemoveStuntman, RemoveRouter, CleanService,
     CleanShadow, Watcher, StartWatch, WatchService, FixService, Crash, ShadowGone
<1>3. CASE RouterGone \/ HeartBeat \/ Redeploy
  BY <1>3 DEF RouterGone, HeartBeat, Redeploy
<1>4. CASE UNCHANGED vars
  BY <1>4 DEF vars, state
<1>. QED
  BY <1>1, <1>2, <1>3, <1>4 DEF Next, User

\* Where only pods and services of ktctl are removed, the records of the original
\* selector stay, and types do.
LEMMA RemovalKeeps ==
  ASSUME TypeOK, SelectorInv, NEW n,
         UNCHANGED <<service, locked, redeploys, pc, process>>,
         \/ /\ RemovePod(n) \/ UNCHANGED <<routerState, podFresh, shadowPod>>
            /\ UNCHANGED <<stuntman, shadowSvc, routerTarget, refs, confHeader, routes>>
         \/ /\ RemoveService(n)
            /\ UNCHANGED <<shadowPod, router>>
  PROVE  TypeOK' /\ SelectorInv'
<1>1. TypeOK'
  <2>1. /\ shadowPod' \in [Users -> [state : {"absent", "alive", "terminating"},
                                   owner : Users \cup {NoUser}]]
        /\ routerState' \in {"absent", "alive", "terminating"} /\ podFresh' \subseteq Users
    <3>1. CASE RemovePod(n) /\ n # NoUser
      BY <3>1 DEF RemovePod, TypeOK
    <3>2. CASE RemovePod(n) /\ n = NoUser
      BY <3>2 DEF RemovePod, TypeOK
    <3>3. CASE UNCHANGED <<shadowPod, routerState, podFresh>>
      BY <3>3 DEF TypeOK
    <3>. QED
      BY <3>1, <3>2, <3>3 DEF router
  <2>2. shadowSvc' \in [Users -> Users \cup {NoUser}] /\ stuntman' \in Selectors \cup {None}
    BY DEF RemoveService, TypeOK
  <2>3. UNCHANGED <<routerTarget, refs, confHeader, routes>>
    BY DEF router
  <2>. QED
    BY <2>1, <2>2, <2>3 DEF TypeOK, service, process
<1>2. stuntman' \in {stuntman, None}
  BY DEF RemovePod, RemoveService
<1>3. SelectorInv'
  BY <1>2 DEF SelectorInv, SelectorRecoverable, StuntmanTargetsOriginal, RecoveryReady,
     WatchersKnowOriginal, AppIsOriginal, service, process
<1>. QED
  BY <1>1, <1>3

\* The Service gets the selector that its annotation tells, and loses the annotation; or
\* it is only read.
LEMMA RecoveryKeeps ==
  ASSUME TypeOK, SelectorInv,
         locked' \subseteq locked,
         UNCHANGED <<stuntman, shadows, router, redeploys, pc, process>>,
         \/ ann # None /\ Write(ann, None)
         \/ Write(sel, ann)
         \/ svcFresh' = svcFresh \cup {Tool} /\ UNCHANGED <<sel, ann, notify>>
         \/ UNCHANGED service
  PROVE  TypeOK' /\ SelectorInv'
<1> USE SelectorFacts
<1>1. TypeOK'
  BY DEF TypeOK, SelectorInv, SelectorRecoverable, Write, Tool, service, shadows, router, process
<1>2. SelectorInv'
  <2>0. NoUser \notin Users
    BY ConstantsAssumption DEF ConstantsAssumption
  <2>. QED
    BY <2>0 DEF SelectorInv, SelectorRecoverable, StuntmanTargetsOriginal, RecoveryReady,
       WatchersKnowOriginal, AppIsOriginal, Write, Tool, service, process
<1>. QED
  BY <1>1, <1>2

\* What a tool does is typed and keeps every record of the original selector.
LEMMA ToolStepKeeps == ToolsInv /\ ToolStep => ToolsInv'
<1> SUFFICES ASSUME TypeOK, SelectorInv, ToolReady, ToolStep PROVE ToolsInv'
  BY DEF ToolsInv
<1>1. CASE CheckClusterResources \/ AnalyseServices \/ RecoverShadows
  <2>1. UNCHANGED state /\ ToolReady'
    BY <1>1 DEF CheckClusterResources, AnalyseServices, RecoverShadows, Then, ToolReady
  <2>. QED
    BY <2>1, RecoveryKeeps DEF ToolsInv, state
<1>2. CASE TidyPods \/ RecoverRouter
  <2>1. /\ UNCHANGED <<service, locked, redeploys, pc, process>>
        /\ UNCHANGED <<stuntman, shadowSvc, routerTarget, refs, confHeader, routes>>
        /\ \E n : RemovePod(n) \/ UNCHANGED <<routerState, podFresh, shadowPod>>
    BY <1>2 DEF TidyPods, RecoverRouter, RemovesPod, state, shadows, router
  <2>2. ToolReady'
    BY <1>2, <2>1 DEF TidyPods, RecoverRouter, Then, ToolReady, service
  <2>. QED
    BY <2>1, <2>2, RemovalKeeps DEF ToolsInv
<1>3. CASE TidyServices \/ RecoverStuntman
  <2>1. ToolReady'
    BY <1>3 DEF TidyServices, RecoverStuntman, Then, ToolReady
  <2>2. CASE UNCHANGED state
    BY <2>1, <2>2, RecoveryKeeps DEF ToolsInv, state
  <2>3. CASE \E n : RemovesService(n)
    BY <2>1, <2>3, RemovalKeeps DEF ToolsInv, RemovesService
  <2>. QED
    BY <1>3, <2>2, <2>3 DEF TidyServices, RecoverStuntman
<1>4. CASE TidyRecover \/ TidyUnlock \/ Recover
  <2>1. /\ UNCHANGED <<locked, stuntman, shadows, router, redeploys, pc, process, ann>>
        /\ \/ svcFresh' = svcFresh \cup {Tool} /\ UNCHANGED <<sel, ann, notify>>
           \/ UNCHANGED service
    BY <1>4 DEF TidyRecover, TidyUnlock, Recover, ToolReads, state, service
  <2>2. ToolReady'
    BY <1>4, <2>1 DEF TidyRecover, TidyUnlock, Recover, AfterRecover, Recorded, Then, ToolReady
  <2>. QED
    BY <2>1, <2>2, RecoveryKeeps DEF ToolsInv
<1>5. CASE TidyRecoverPut \/ UnlockPut \/ RecoverMeshed \/ RecoverExchanged
  <2>1. /\ UNCHANGED <<stuntman, shadows, router, redeploys, pc, process>>
        /\ locked' \subseteq locked
        /\ \/ ann # None /\ Write(ann, None)
           \/ Write(sel, ann)
           \/ UNCHANGED service
    BY <1>5 DEF TidyRecoverPut, UnlockPut, RecoverMeshed, RecoverExchanged, RecoverPut, ServiceOnly,
       ToolReady
  <2>2. ToolReady'
    BY <1>5 DEF TidyRecoverPut, UnlockPut, RecoverMeshed, RecoverExchanged, RecoverPut, AfterRecover,
       Then, ToolReady
  <2>. QED
    BY <2>1, <2>2, RecoveryKeeps DEF ToolsInv
<1>. QED
  BY <1>1, <1>2, <1>3, <1>4, <1>5 DEF ToolStep, TidyClusterResources, RecoverService

\* The variables of the tools keep their shapes.
LEMMA ToolsTypeStep == ToolsType /\ [ToolsNext]_allVars => ToolsType'
<1> SUFFICES ASSUME ToolsType, [ToolsNext]_allVars PROVE ToolsType'
  OBVIOUS
<1> USE DEF ToolsType, CleanSteps, RecoverSteps
<1>1. Age => /\ beats' \in [Users -> SUBSET Resources]
             /\ oldPods' \subseteq oldPods /\ oldSvcs' \subseteq oldSvcs
  BY DEF Age, Renewed, Creates
<1>2. CASE Session
  <2>1. staleLock' \in BOOLEAN /\ undone' \in BOOLEAN /\ robbed' \in BOOLEAN
    BY <1>2 DEF Session
  <2>. QED
    BY <1>1, <1>2, <2>1 DEF Session, lists
<1>3. CASE Expire
  BY <1>3 DEF Expire, lists
<1>4. CASE CheckClusterResources \/ AnalyseServices \/ RecoverShadows
  BY <1>4 DEF CheckClusterResources, AnalyseServices, RecoverShadows, Then, ages, Names
<1>5. CASE TidyPods \/ TidyServices \/ RecoverRouter \/ RecoverStuntman
  BY <1>1, <1>5 DEF TidyPods, TidyServices, RecoverRouter, RecoverStuntman, RemovesPod,
     RemovesService, Then, ages, lists
<1>6. CASE TidyRecover \/ TidyRecoverPut \/ TidyUnlock \/ UnlockPut
  BY <1>6 DEF TidyRecover, TidyRecoverPut, TidyUnlock, UnlockPut, AfterRecover, Then, ages, lists
<1>7. CASE Recover
  BY <1>7 DEF Recover, Then, ages, Names
<1>8. CASE RecoverMeshed
  BY <1>8 DEF RecoverMeshed, RecoverPut, Then, ages
<1>9. CASE RecoverExchanged
  BY <1>9 DEF RecoverExchanged, RecoverPut, Then, ages
<1>10. CASE UNCHANGED allVars
  BY <1>10 DEF allVars, toolVars, ages, lists
<1>. QED
  BY <1>2, <1>3, <1>4, <1>5, <1>6, <1>7, <1>8, <1>9, <1>10 DEF ToolsNext, ToolStep, TidyClusterResources,
     RecoverService

\* Sessions and tools together keep the records of the original selector.
LEMMA ToolsInvCorrect == ToolsSpec => []ToolsInv
<1>1. ToolsInit => ToolsInv
  BY TypeOKInit, SelectorInvInit DEF ToolsInit, ToolsInv, ToolReady
<1>2. ToolsInv /\ [ToolsNext]_allVars => ToolsInv'
  <2> SUFFICES ASSUME ToolsInv, [ToolsNext]_allVars PROVE ToolsInv'
    OBVIOUS
  <2>1. CASE Session
    <3>1. [Next]_vars /\ UNCHANGED tool
      BY <2>1 DEF Session
    <3>2. ToolReady'
      BY <3>1, SessionsOutdateTools DEF ToolsInv, ToolReady
    <3>. QED
      BY <3>1, <3>2, TypeOKStep, SelectorInvStep DEF ToolsInv
  <2>2. CASE Expire
    BY <2>2, RecoveryKeeps DEF ToolsInv, Expire, ToolReady, state, service
  <2>3. CASE ToolStep
    BY <2>3, ToolStepKeeps
  <2>4. CASE UNCHANGED allVars
    BY <2>4, RecoveryKeeps DEF ToolsInv, ToolReady, allVars, toolVars, vars, state, service
  <2>. QED
    BY <2>1, <2>2, <2>3, <2>4 DEF ToolsNext
<1>. QED
  BY <1>1, <1>2, PTL DEF ToolsSpec

\* Also where ktctl clean and ktctl recover are used at any time, beside living sessions
\* or after killed ones, a Service that selects kt pods carries the selector of its
\* application, and what they write back is that.
THEOREM ToolsKeepSelector == ToolsSpec => []SelectorRecoverable
BY ToolsInvCorrect, PTL DEF ToolsInv, SelectorInv

\* The lists, ages and steps of the tools keep their types, whatever the sessions do.
THEOREM ToolsTypeCorrect == ToolsSpec => []ToolsType
<1>1. ToolsInit => ToolsType
  BY DEF ToolsInit, ToolsType, Resources
<1>. QED
  BY <1>1, ToolsTypeStep, PTL DEF ToolsSpec

\* As long as nobody uses ktctl clean or ktctl recover, only its creator ever removes
\* the shadow service of a version.
THEOREM OwnShadowServiceOnlyCorrect == ToolsSpec => OwnShadowServiceOnly
<1> DEFINE Unused == tools = {} => OwnerInv /\ tool = "idle"
<1>1. ToolsInit => Unused
  BY OwnerInvInit DEF ToolsInit
<1>2. ASSUME TypeOK, Unused, [ToolsNext]_allVars
      PROVE  Unused' /\ (tools = {} => ShadowServiceStep)
  <2>1. tools' = tools
    BY <1>2 DEF ToolsNext, Session, Next, allVars, vars, tools
  <2>2. SUFFICES ASSUME tools = {} PROVE OwnerInv' /\ tool' = "idle" /\ ShadowServiceStep
    BY <2>1
  <2>3. [Next]_vars /\ UNCHANGED tool
    BY <1>2, <2>2 DEF ToolsNext, Session, Expire, ToolStep, CheckClusterResources, AnalyseServices,
       TidyClusterResources, TidyPods, TidyServices, TidyRecover, TidyRecoverPut, TidyUnlock,
       UnlockPut, Recover, RecoverService, RecoverRouter, RecoverMeshed, RecoverStuntman,
       RecoverShadows, RecoverExchanged, allVars, toolVars
  <2>. QED
    BY <1>2, <2>2, <2>3, OwnerInvStep
<1>3. ToolsSpec => []TypeOK
  BY ToolsInvCorrect, PTL DEF ToolsInv
<1>4. ToolsSpec => [][tools = {} => ShadowServiceStep]_allVars
  BY <1>1, <1>2, <1>3, PTL DEF ToolsSpec
<1>5. [tools = {} => ShadowServiceStep]_allVars => [tools = {} => ShadowServiceStep]_vars
  BY DEF allVars, ShadowServiceStep, vars, state, shadows
<1>. QED
  BY <1>4, <1>5, PTL DEF OwnShadowServiceOnly


-------------------------------------------------------------------------------
(* A mesh that ktctl recover has undone stays undone *)

\* What the proof of MeshRecoveryStays needs besides: who has the lock has asked for it, ...
LockAsked == \A u \in Users : pc[u] = "idle" => u \notin locked

\* ... nobody knows the label of a router that is still to be created, so that a router
\* which is gone never comes back under its label, ...
BeforeRouter == {"idle", "name", "stuntman", "shadowSvc", "router", "newRouter"}
LabelsDrawn ==
  \A u \in Users : pc[u] \in BeforeRouter =>
    /\ routerTarget # u
    /\ sel # [role |-> "router", target |-> u]
    /\ \A v \in Users : label[v] # u

\* ... when the Service is about to be updated, the router it selects is gone, ...
RouterFirst ==
  Tool \in svcFresh =>
    /\ tool \in {"dropRouter", "meshPut"} => sel.role = "router"
    /\ tool = "meshPut" /\ ~Fails => ~TargetAlive(sel)

\* ... and after that no watcher has a living target or is about to write.
RecoveryKept ==
  ~Fails /\ undone =>
    /\ sel = Original
    /\ Nobody(SetupStates)
    /\ \A u \in Users : watch[u] # "off" =>
         watch[u] # "armed" /\ Mode[u] = "mesh" /\ ~TargetAlive(Target(u))

UndoneInv == LockAsked /\ LabelsDrawn /\ RouterFirst /\ RecoveryKept

\* A session is set up once, under a lock it has asked for.
LEMMA SetupOnce ==
  ASSUME TypeOK, [Next]_vars, NEW v \in Users
  PROVE  /\ pc'[v] \in BeforeRouter => pc[v] \in BeforeRouter
         /\ pc'[v] = "idle" => pc[v] = "idle"
         /\ pc'[v] \in SetupStates => pc[v] \in SetupStates \/ (pc[v] = "idle" /\ v \in locked')
         /\ v \in locked' => v \in locked \/ pc'[v] # "idle"
<1> DEFINE Goal == /\ pc'[v] \in BeforeRouter => pc[v] \in BeforeRouter
                   /\ pc'[v] = "idle" => pc[v] = "idle"
                   /\ pc'[v] \in SetupStates => pc[v] \in SetupStates \/ (pc[v] = "idle" /\ v \in locked')
                   /\ v \in locked' => v \in locked \/ pc'[v] # "idle"
<1> USE DEF BeforeRouter, SetupStates, TeardownStates, Ended, Goto, TypeOK
<1>1. ASSUME NEW u \in Users, LockService(u) \/ LockFails(u) PROVE Goal
  BY <1>1 DEF LockService, LockFails
<1>2. ASSUME NEW u \in Users, AutoMesh(u) PROVE Goal
  BY <1>2 DEF AutoMesh, IsNameUsable, CreateStuntmanService, CreateShadowService, GetRouter,
     CreateRouter, SetupRouter, IncreasePodRef, IncreasePodRefPut, AddRoute
<1>3. ASSUME NEW u \in Users,
             \/ UpdateServiceSelector(u) \/ UpdateServiceSelectorPut(u)
             \/ CreateShadow(u) \/ UnlockService(u) \/ Quit(u) \/ Crash(u)
      PROVE  Goal
  BY <1>3 DEF UpdateServiceSelector, UpdateServiceSelectorPut, Redirected, CreateShadow,
     UnlockService, Quit, Crash
<1>4. ASSUME NEW u \in Users, CleanupWorkspace(u) PROVE Goal
  BY <1>4 DEF CleanupWorkspace, RecoverRoute, DecreasePodRef, DecreasePodRefPut, RemoveRoute,
     RecoverOriginalService, RecoverOriginalServicePut, RemoveStuntman, RemoveRouter, CleanService,
     CleanShadow
<1>5. ASSUME NEW u \in Users, Watcher(u) \/ ShadowGone(u) PROVE Goal
  BY <1>5 DEF Watcher, StartWatch, WatchService, FixService, ShadowGone
<1>6. CASE RouterGone \/ HeartBeat \/ Redeploy
  BY <1>6 DEF RouterGone, HeartBeat, Redeploy
<1>7. CASE UNCHANGED vars
  BY <1>7 DEF vars, state
<1>. QED
  BY <1>1, <1>2, <1>3, <1>4, <1>5, <1>6, <1>7 DEF Next, User, Setup

\* Only a session in set-up, or a watcher at its second look, redirects the Service.
LEMMA WhoRedirects ==
  ASSUME TypeOK, SelectorInv, [Next]_vars
  PROVE  \/ sel' \in {sel, Original}
         \/ \E u \in Users : sel' = Target(u) /\ (watch[u] = "armed" \/ pc[u] \in SetupStates)
<1> DEFINE Goal == \/ sel' \in {sel, Original}
                   \/ \E u \in Users : sel' = Target(u) /\ (watch[u] = "armed" \/ pc[u] \in SetupStates)
<1> USE DEF Write, service
<1>1. ASSUME NEW u \in Users, LockService(u) \/ LockFails(u) \/ AutoMesh(u) PROVE sel' = sel
  BY <1>1 DEF LockService, LockFails, AutoMesh, IsNameUsable, CreateStuntmanService,
     CreateShadowService, GetRouter, CreateRouter, SetupRouter, IncreasePodRef, IncreasePodRefPut,
     AddRoute
<1>2. ASSUME NEW u \in Users, UpdateServiceSelectorPut(u) PROVE Goal
  BY <1>2 DEF UpdateServiceSelectorPut, SetupStates
<1>3. ASSUME NEW u \in Users,
             \/ UpdateServiceSelector(u) \/ CreateShadow(u) \/ UnlockService(u) \/ Quit(u)
             \/ Crash(u) \/ StartWatch(u) \/ WatchService(u) \/ ShadowGone(u)
      PROVE  sel' = sel
  BY <1>3 DEF UpdateServiceSelector, CreateShadow, UnlockService, Quit, Crash, StartWatch,
     WatchService, ShadowGone
<1>4. ASSUME NEW u \in Users, RecoverOriginalServicePut(u) PROVE Goal
  BY <1>4 DEF RecoverOriginalServicePut, SelectorInv, SelectorRecoverable, RecoveryReady
<1>5. ASSUME NEW u \in Users, CleanupWorkspace(u), ~RecoverOriginalServicePut(u) PROVE sel' = sel
  BY <1>5 DEF CleanupWorkspace, RecoverRoute, DecreasePodRef, DecreasePodRefPut, RemoveRoute,
     RecoverOriginalService, RemoveStuntman, RemoveRouter, CleanService, CleanShadow
<1>6. ASSUME NEW u \in Users, FixService(u) PROVE Goal
  BY <1>6 DEF FixService
<1>7. CASE RouterGone \/ HeartBeat \/ Redeploy
  BY <1>7 DEF RouterGone, HeartBeat, Redeploy
<1>8. CASE UNCHANGED vars
  BY <1>8 DEF vars, state
<1>. QED
  BY <1>1, <1>2, <1>3, <1>4, <1>5, <1>6, <1>7, <1>8 DEF Next, User, Setup, Watcher

\* A router comes up where it is created, with its creator's label; a session learns the
\* label before it redirects.
LEMMA WhoDraws ==
  ASSUME TypeOK, [Next]_vars
  PROVE  /\ \/ routerTarget' \in {routerTarget, NoUser} /\ (routerState' = "alive" => routerState = "alive" /\ routerTarget' = routerTarget)
            \/ \E u \in Users : pc[u] = "newRouter" /\ pc'[u] \notin BeforeRouter /\ routerTarget' = u
         /\ \A v \in Users :
              \/ label'[v] = label[v]
              \/ pc[v] \in SetupStates /\ label'[v] \in {routerTarget, routerTarget'}
<1> DEFINE Goal == /\ \/ routerTarget' \in {routerTarget, NoUser} /\ (routerState' = "alive" => routerState = "alive" /\ routerTarget' = routerTarget)
                      \/ \E u \in Users : pc[u] = "newRouter" /\ pc'[u] \notin BeforeRouter /\ routerTarget' = u
                   /\ \A v \in Users :
                        \/ label'[v] = label[v]
                        \/ pc[v] \in SetupStates /\ label'[v] \in {routerTarget, routerTarget'}
<1> USE DEF router, process
<1>1. ASSUME NEW u \in Users, GetRouter(u) PROVE Goal
  BY <1>1 DEF GetRouter, SetupStates, TypeOK
<1>2. ASSUME NEW u \in Users, CreateRouter(u) PROVE Goal
  <2>1. CASE UNCHANGED <<router, label>>
    BY <2>1
  <2>2. CASE ~UNCHANGED <<router, label>>
    <3>1. pc[u] = "newRouter" /\ routerTarget' = u /\ label' = [label EXCEPT ![u] = u]
      BY <1>2, <2>2 DEF CreateRouter
    <3>2. pc'[u] \in {"setup", "abort"}
      BY <1>2, <2>2 DEF CreateRouter, Goto, TypeOK
    <3>. QED
      BY <3>1, <3>2 DEF SetupStates, BeforeRouter, TypeOK
  <2>. QED
    BY <2>1, <2>2
<1>3. ASSUME NEW u \in Users,
             \/ LockService(u) \/ LockFails(u) \/ IsNameUsable(u) \/ CreateStuntmanService(u)
             \/ CreateShadowService(u) \/ SetupRouter(u) \/ IncreasePodRef(u)
             \/ IncreasePodRefPut(u) \/ AddRoute(u) \/ UpdateServiceSelector(u)
             \/ UpdateServiceSelectorPut(u) \/ CreateShadow(u) \/ UnlockService(u) \/ Quit(u)
      PROVE  Goal
  BY <1>3 DEF LockService, LockFails, IsNameUsable, CreateStuntmanService, CreateShadowService,
     SetupRouter, IncreasePodRef, IncreasePodRefPut, AddRoute, UpdateServiceSelector,
     UpdateServiceSelectorPut, Redirected, CreateShadow, UnlockService, Quit
<1>4. ASSUME NEW u \in Users, CleanupWorkspace(u) PROVE Goal
  BY <1>4 DEF CleanupWorkspace, RecoverRoute, DecreasePodRef, DecreasePodRefPut, RemoveRoute,
     RecoverOriginalService, RecoverOriginalServicePut, RemoveStuntman, RemoveRouter, CleanService,
     CleanShadow
<1>5. ASSUME NEW u \in Users, Watcher(u) \/ Crash(u) \/ ShadowGone(u) PROVE Goal
  BY <1>5 DEF Watcher, StartWatch, WatchService, FixService, Crash, ShadowGone
<1>6. CASE RouterGone \/ HeartBeat \/ Redeploy
  BY <1>6 DEF RouterGone, HeartBeat, Redeploy
<1>7. CASE UNCHANGED vars
  BY <1>7 DEF vars, state
<1>. QED
  BY <1>1, <1>2, <1>3, <1>4, <1>5, <1>6, <1>7 DEF Next, User, Setup, AutoMesh

\* A watcher is started by set-up, and armed while its target lives.
LEMMA WhoWatches ==
  ASSUME TypeOK, [Next]_vars, NEW v \in Users
  PROVE  /\ watch'[v] # "off" => watch[v] # "off" \/ pc[v] \in SetupStates
         /\ watch'[v] = "armed" => watch[v] = "armed" \/ (watch[v] # "off" /\ TargetAlive(Target(v)))
<1> DEFINE Goal == /\ watch'[v] # "off" => watch[v] # "off" \/ pc[v] \in SetupStates
                   /\ watch'[v] = "armed" => watch[v] = "armed" \/ (watch[v] # "off" /\ TargetAlive(Target(v)))
<1> USE DEF process, TypeOK
<1>1. ASSUME NEW u \in Users, UpdateServiceSelector(u) \/ UpdateServiceSelectorPut(u) PROVE Goal
  BY <1>1 DEF UpdateServiceSelector, UpdateServiceSelectorPut, Redirected, SetupStates
<1>2. ASSUME NEW u \in Users, Watcher(u) PROVE Goal
  BY <1>2 DEF Watcher, StartWatch, WatchService, FixService
<1>3. ASSUME NEW u \in Users,
             \/ LockService(u) \/ LockFails(u) \/ AutoMesh(u) \/ CreateShadow(u)
             \/ UnlockService(u) \/ Quit(u) \/ Crash(u) \/ ShadowGone(u)
      PROVE  Goal
  BY <1>3 DEF LockService, LockFails, AutoMesh, IsNameUsable, CreateStuntmanService,
     CreateShadowService, GetRouter, CreateRouter, SetupRouter, IncreasePodRef, IncreasePodRefPut,
     AddRoute, CreateShadow, UnlockService, Quit, Crash, ShadowGone
<1>4. ASSUME NEW u \in Users, CleanupWorkspace(u) PROVE Goal
  BY <1>4 DEF CleanupWorkspace, RecoverRoute, DecreasePodRef, DecreasePodRefPut, RemoveRoute,
     RecoverOriginalService, RecoverOriginalServicePut, RemoveStuntman, RemoveRouter, CleanService,
     CleanShadow
<1>5. CASE RouterGone \/ HeartBeat \/ Redeploy
  BY <1>5 DEF RouterGone, HeartBeat, Redeploy
<1>6. CASE UNCHANGED vars
  BY <1>6 DEF vars, state
<1>. QED
  BY <1>1, <1>2, <1>3, <1>4, <1>5, <1>6 DEF Next, User, Setup

\* Sessions neither disturb a recovery that is under way nor one that is done.
LEMMA SessionsKeepUndone == ToolsInv /\ UndoneInv /\ Session => UndoneInv'
<1> SUFFICES ASSUME TypeOK, SelectorInv, ToolReady, UndoneInv, Session PROVE UndoneInv'
  BY DEF ToolsInv
<1>0. [Next]_vars /\ UNCHANGED <<tool, allowed>>
  BY DEF Session, Next
<1> USE <1>0
<1>1. NoUser \notin Users
  BY ConstantsAssumption DEF ConstantsAssumption
<1>2. LockAsked'
  <2> SUFFICES ASSUME NEW u \in Users, pc'[u] = "idle" PROVE u \notin locked'
    BY DEF LockAsked
  <2>. QED
    BY SetupOnce DEF UndoneInv, LockAsked
<1>3. LabelsDrawn'
  <2> SUFFICES ASSUME NEW u \in Users, pc'[u] \in BeforeRouter
               PROVE  /\ routerTarget' # u
                      /\ sel' # [role |-> "router", target |-> u]
                      /\ \A v \in Users : label'[v] # u
    BY DEF LabelsDrawn
  <2>1. /\ routerTarget # u
        /\ sel # [role |-> "router", target |-> u]
        /\ \A v \in Users : label[v] # u
    BY SetupOnce DEF UndoneInv, LabelsDrawn
  <2>2. routerTarget' # u
    BY <1>1, <2>1, WhoDraws
  <2>3. \A v \in Users : label'[v] # u
    BY <2>1, <2>2, WhoDraws
  <2>4. sel' # [role |-> "router", target |-> u]
    <3>1. Original # [role |-> "router", target |-> u]
      BY DEF Original
    <3>2. \A v \in Users : Target(v) # [role |-> "router", target |-> u]
      BY <2>1 DEF Target
    <3>. QED
      BY <2>1, <3>1, <3>2, WhoRedirects
  <2>. QED
    BY <2>2, <2>3, <2>4
<1>4. RouterFirst'
  <2> SUFFICES ASSUME Tool \in svcFresh'
               PROVE  /\ tool \in {"dropRouter", "meshPut"} => sel'.role = "router"
                      /\ tool = "meshPut" /\ ~Fails => ~TargetAlive(sel)'
    BY DEF RouterFirst, Fails
  <2>1. UNCHANGED <<sel, ann>> /\ Tool \in svcFresh
    BY SessionsOutdateTools
  <2>2. CASE tool = "meshPut" /\ ~Fails
    <3>1. sel.role = "router" /\ ~TargetAlive(sel)
      BY <2>1, <2>2 DEF UndoneInv, RouterFirst
    <3>2. ~(routerState' = "alive" /\ routerTarget' = sel.target)
      <4>1. CASE routerState' = "alive" => routerState = "alive" /\ routerTarget' = routerTarget
        BY <3>1, <4>1 DEF TargetAlive
      <4>2. ASSUME NEW u \in Users, pc[u] = "newRouter", routerTarget' = u PROVE sel.target # u
        <5>1. sel # [role |-> "router", target |-> u]
          BY <4>2 DEF UndoneInv, LabelsDrawn, BeforeRouter
        <5>. QED
          BY <3>1, <5>1 DEF TypeOK, Selectors
      <4>. QED
        BY <4>1, <4>2, WhoDraws
    <3>. QED
      BY <2>1, <3>1, <3>2 DEF TargetAlive
  <2>. QED
    BY <2>1, <2>2 DEF UndoneInv, RouterFirst
<1>5. RecoveryKept'
  <2> SUFFICES ASSUME ~Fails, undone' = TRUE
               PROVE  /\ sel' = Original
                      /\ \A u \in Users : pc'[u] \notin SetupStates
                      /\ \A u \in Users : watch'[u] # "off" =>
                           watch'[u] # "armed" /\ Mode[u] = "mesh" /\ ~TargetAlive(Target(u))'
    BY DEF RecoveryKept, Fails, Nobody, Session
  <2>1. undone /\ locked' \subseteq locked
    BY DEF Session
  <2>2. /\ sel = Original
        /\ \A u \in Users : pc[u] \notin SetupStates
        /\ \A u \in Users : watch[u] # "off" =>
             watch[u] # "armed" /\ Mode[u] = "mesh" /\ ~TargetAlive(Target(u))
    BY <2>1 DEF UndoneInv, RecoveryKept, Nobody
  <2>3. \A u \in Users : pc'[u] \notin SetupStates
    BY <2>1, <2>2, SetupOnce DEF UndoneInv, LockAsked
  <2>4. sel' = Original
    <3>1. ASSUME NEW u \in Users PROVE watch[u] # "armed" /\ pc[u] \notin SetupStates
      BY <2>2
    <3>. QED
      BY <2>2, <3>1, WhoRedirects
  <2>5. ASSUME NEW u \in Users, watch'[u] # "off"
        PROVE  watch'[u] # "armed" /\ Mode[u] = "mesh" /\ ~TargetAlive(Target(u))'
    <3>1. watch[u] # "off"
      BY <2>2, <2>5, WhoWatches
    <3>2. watch'[u] # "armed"
      BY <2>2, <3>1, WhoWatches
    <3>3. label'[u] = label[u]
      BY <2>2, WhoDraws
    <3>4. routerState' = "alive" => routerState = "alive" /\ routerTarget' = routerTarget
      BY <2>2, WhoDraws DEF SetupStates
    <3>. QED
      BY <2>2, <3>1, <3>2, <3>3, <3>4 DEF TargetAlive, Target
  <2>. QED
    BY <2>3, <2>4, <2>5
<1>. QED
  BY <1>2, <1>3, <1>4, <1>5 DEF UndoneInv

\* A tool that leaves sessions, watchers and labels alone, and no more of the router alive
\* than there was, only has to see to its own steps and to what it writes.
LEMMA ToolsOnlyUndo ==
  ASSUME TypeOK, UndoneInv, UNCHANGED <<allowed, pc, label, watch>>,
         locked' \subseteq locked, sel' \in {sel, Original}, routerTarget' = routerTarget,
         routerState' = "alive" => routerState = "alive",
         RouterFirst',
         undone' => undone
  PROVE  UndoneInv'
<1>1. LockAsked'
  BY DEF UndoneInv, LockAsked
<1>2. LabelsDrawn'
  <2>1. \A u \in Users : Original # [role |-> "router", target |-> u]
    BY DEF Original
  <2>. QED
    BY <2>1 DEF UndoneInv, LabelsDrawn
<1>3. RecoveryKept'
  <2> SUFFICES ASSUME ~Fails, undone
               PROVE  /\ sel' = Original
                      /\ Nobody(SetupStates)'
                      /\ \A u \in Users : watch'[u] # "off" =>
                           watch'[u] # "armed" /\ Mode[u] = "mesh" /\ ~TargetAlive(Target(u))'
    BY DEF RecoveryKept, Fails
  <2>1. /\ sel = Original
        /\ Nobody(SetupStates)
        /\ \A u \in Users : watch[u] # "off" =>
             watch[u] # "armed" /\ Mode[u] = "mesh" /\ ~TargetAlive(Target(u))
    BY DEF UndoneInv, RecoveryKept
  <2>2. \A u \in Users : Mode[u] = "mesh" /\ ~TargetAlive(Target(u)) => ~TargetAlive(Target(u))'
    BY DEF TargetAlive, Target
  <2>. QED
    BY <2>1, <2>2 DEF Nobody
<1>. QED
  BY <1>1, <1>2, <1>3 DEF UndoneInv

\* Nor does a tool, except where ktctl recover updates a meshed Service: then the router
\* that the Service selected, and with it the target of every watcher, is gone.
LEMMA ToolsKeepUndone == ToolsInv /\ UndoneInv /\ ToolStep /\ UNCHANGED allowed => UndoneInv'
<1> SUFFICES ASSUME TypeOK, SelectorInv, ToolReady, UndoneInv, ToolStep, UNCHANGED allowed
             PROVE  UndoneInv'
  BY DEF ToolsInv
<1>0. Fails' = Fails /\ RouterFirst
  BY DEF Fails, UndoneInv
<1>1. CASE CheckClusterResources \/ AnalyseServices \/ RecoverShadows
  <2>1. UNCHANGED state /\ UNCHANGED undone /\ tool' \notin {"dropRouter", "meshPut"}
    BY <1>1 DEF CheckClusterResources, AnalyseServices, RecoverShadows, Then
  <2>. QED
    BY <2>1, ToolsOnlyUndo DEF RouterFirst, state, service, router, process
<1>2. CASE TidyPods \/ TidyServices \/ RecoverStuntman
  <2>1. /\ UNCHANGED <<service, locked, pc, process, routerTarget>>
        /\ routerState' = "alive" => routerState = "alive"
        /\ UNCHANGED undone
    BY <1>2 DEF TidyPods, TidyServices, RecoverStuntman, RemovesPod, RemovePod, RemovesService,
       state, router
  <2>2. tool' \notin {"dropRouter", "meshPut"}
    BY <1>2 DEF TidyPods, TidyServices, RecoverStuntman, Then
  <2>. QED
    BY <2>1, <2>2, ToolsOnlyUndo DEF RouterFirst, service, process
<1>3. CASE RecoverRouter
  <2>1. /\ UNCHANGED <<service, locked, pc, process, routerTarget>>
        /\ routerState' = "alive" => routerState = "alive" /\ Fails
        /\ UNCHANGED undone
        /\ tool = "dropRouter" /\ tool' = "meshPut"
    BY <1>3 DEF RecoverRouter, RemovesPod, RemovePod, PodUp, Then
  <2>2. RouterFirst'
    BY <1>0, <2>1 DEF RouterFirst, TargetAlive, service
  <2>. QED
    BY <2>1, <2>2, ToolsOnlyUndo DEF service, process
<1>4. CASE TidyRecover \/ TidyUnlock \/ Recover
  <2>1. UNCHANGED <<sel, locked, pc, process, router>> /\ UNCHANGED undone
    BY <1>4 DEF TidyRecover, TidyUnlock, Recover, ToolReads, state, service
  <2>2. RouterFirst'
    BY <1>4, <2>1 DEF TidyRecover, TidyUnlock, Recover, AfterRecover, Then, RouterFirst
  <2>. QED
    BY <2>1, <2>2, ToolsOnlyUndo DEF router, process
<1>5. CASE TidyRecoverPut \/ UnlockPut \/ RecoverExchanged
  <2>1. /\ UNCHANGED <<pc, process, router>>
        /\ locked' \subseteq locked
        /\ tool' \notin {"dropRouter", "meshPut"}
    <3>1. UNCHANGED <<pc, process, router>>
      BY <1>5 DEF TidyRecoverPut, UnlockPut, RecoverExchanged, ServiceOnly
    <3>2. locked' \subseteq locked
      BY <1>5 DEF TidyRecoverPut, UnlockPut, RecoverExchanged, RecoverPut
    <3>3. tool' \notin {"dropRouter", "meshPut"}
      BY <1>5 DEF TidyRecoverPut, UnlockPut, RecoverExchanged, RecoverPut, AfterRecover, Then
    <3>. QED
      BY <3>1, <3>2, <3>3
  <2>3. undone' => undone
    <3>1. CASE TidyRecoverPut \/ UnlockPut
      BY <3>1 DEF TidyRecoverPut, UnlockPut
    <3>2. CASE RecoverExchanged
      <4>1. (undone' = (FALSE /\ WatchersContent)) \/ UNCHANGED undone
        BY <3>2 DEF RecoverExchanged, RecoverPut
      <4>. QED
        BY <4>1
    <3>. QED
      BY <1>5, <3>1, <3>2
  <2>2. sel' \in {sel, Original}
    BY <1>5 DEF TidyRecoverPut, UnlockPut, RecoverExchanged, RecoverPut, Write, service, ToolReady,
       SelectorInv, SelectorRecoverable
  <2>. QED
    BY <2>1, <2>2, <2>3, ToolsOnlyUndo DEF RouterFirst, router, process
<1>6. CASE RecoverMeshed
  <2>1. /\ tool = "meshPut" /\ tool' \notin {"dropRouter", "meshPut"}
        /\ UNCHANGED <<pc, process, router>> /\ locked' \subseteq locked
    BY <1>6 DEF RecoverMeshed, RecoverPut, ServiceOnly, Then
  <2>2. sel' \in {sel, Original}
    BY <1>6 DEF RecoverMeshed, RecoverPut, Write, service, ToolReady, SelectorInv, SelectorRecoverable
  <2>3. CASE undone' => undone
    BY <2>1, <2>2, <2>3, ToolsOnlyUndo DEF RouterFirst, router, process
  <2>4. CASE undone' /\ ~undone
    <3>1. Tool \in svcFresh /\ sel' = ann /\ WatchersContent
      BY <1>6, <2>4 DEF RecoverMeshed, RecoverPut, Write
    <3>2. sel' = Original
      BY <2>1, <3>1 DEF ToolReady, SelectorInv, SelectorRecoverable
    <3>3. sel.role = "router" /\ (~Fails => ~TargetAlive(sel))
      BY <1>0, <2>1, <3>1 DEF RouterFirst
    <3>4. ASSUME ~Fails, NEW u \in Users, watch[u] # "off"
          PROVE  watch[u] # "armed" /\ Mode[u] = "mesh" /\ ~TargetAlive(Target(u))'
      <4>1. watch[u] # "armed" /\ sel = Target(u)
        BY <3>1, <3>4 DEF WatchersContent
      <4>2. Mode[u] = "mesh"
        BY <3>3, <4>1 DEF Target
      <4>3. ~(routerState = "alive" /\ routerTarget = label[u])
        BY <3>3, <3>4, <4>1, <4>2 DEF TargetAlive, Target
      <4>. QED
        BY <2>1, <4>1, <4>2, <4>3 DEF TargetAlive, Target, router, process
    <3>5. RecoveryKept'
      BY <1>0, <2>1, <3>1, <3>2, <3>4 DEF RecoveryKept, WatchersContent, Nobody, process
    <3>6. LockAsked' /\ LabelsDrawn' /\ RouterFirst'
      <4>1. \A u \in Users : Original # [role |-> "router", target |-> u]
        BY DEF Original
      <4>. QED
        BY <2>1, <2>2, <4>1 DEF UndoneInv, LockAsked, LabelsDrawn, RouterFirst, router, process
    <3>. QED
      BY <3>5, <3>6 DEF UndoneInv
  <2>. QED
    BY <2>3, <2>4
<1>. QED
  BY <1>1, <1>2, <1>3, <1>4, <1>5, <1>6 DEF ToolStep, TidyClusterResources, RecoverService

\* A meshed Service that ktctl recover has brought back stays so until somebody locks it
\* anew: no watcher of a living session has a target, and none was about to write.
THEOREM MeshRecoveryStaysCorrect == ToolsSpec => []MeshRecoveryStays
<1>1. ToolsInit => UndoneInv
  <2> SUFFICES ASSUME ToolsInit PROVE UndoneInv
    OBVIOUS
  <2>1. NoUser \notin Users
    BY ConstantsAssumption DEF ConstantsAssumption
  <2>. QED
    BY <2>1 DEF ToolsInit, Init, UndoneInv, LockAsked, LabelsDrawn, RouterFirst, RecoveryKept, Original
<1>2. ToolsInv /\ UndoneInv /\ [ToolsNext]_allVars => UndoneInv'
  <2> SUFFICES ASSUME ToolsInv, UndoneInv, [ToolsNext]_allVars PROVE UndoneInv'
    OBVIOUS
  <2>1. CASE Session
    BY <2>1, SessionsKeepUndone
  <2>2. CASE ToolStep /\ UNCHANGED allowed
    BY <2>2, ToolsKeepUndone
  <2>3. CASE UNCHANGED <<state, allowed, tool, undone>>
    <3>1. RouterFirst'
      BY <2>3 DEF UndoneInv, RouterFirst, TargetAlive, Fails, state, service, shadows, router
    <3>. QED
      BY <2>3, <3>1, ToolsOnlyUndo DEF ToolsInv, state, service, router, process
  <2>. QED
    BY <2>1, <2>2, <2>3 DEF ToolsNext, Expire, allVars, vars, toolVars
<1>3. UndoneInv => MeshRecoveryStays
  BY DEF UndoneInv, RecoveryKept, MeshRecoveryStays
<1>. QED
  BY <1>1, <1>2, <1>3, ToolsInvCorrect, PTL DEF ToolsSpec

-------------------------------------------------------------------------------
(* Calm sessions: the invariant *)

\* Sessions that may meet without any hazard agree on the header: `router add' refuses
\* another one, and then the reference counter is wrong.
OneHeader ==
  \A s \in Scenarios : s.allowed = {} =>
    \A u, v \in s.users : Mode[u] = "mesh" /\ Mode[v] = "mesh" => Header[u] = Header[v]

Busy == SetupStates \cup TeardownStates

\* At most one process is set up or torn down, and it is set up under the lock.
Turns ==
  /\ \A u, v \in Users : pc[u] \in Busy /\ pc[v] \in Busy => u = v
  /\ \A u \in Users : u \in locked <=> pc[u] \in SetupStates

\* The sessions of this run agree on the header, and the router has no other.
AgreedHeader ==
  \A u \in Users : Mode[u] = "mesh" /\ pc[u] \notin Ended =>
    /\ \A v \in Users : Mode[v] = "mesh" /\ pc[v] \notin Ended => Header[v] = Header[u]
    /\ confHeader \in {NoUser, Header[u]}

BeforeStored == {"router", "newRouter", "setup", "increase", "increasePut", "add"}

\* What a process notes in opt.Store, by where it is.
StorePhase(u) ==
  /\ pc[u] \in {"idle", "name", "stuntman", "shadowSvc"} => store[u] = {}
  /\ pc[u] \in {"name", "stuntman", "shadowSvc", "decrease", "decreasePut", "removeRoute", "dropStuntman",
                "dropRouter", "dropSvc"} \cup BeforeStored => Mode[u] = "mesh"
  /\ pc[u] \in BeforeStored => store[u] = {"service"}
  /\ Mode[u] = "mesh" =>
       /\ pc[u] \in {"select", "selectPut"} => store[u] = {"service", "router"}
       /\ pc[u] = "shadow" => store[u] = {"service", "router", "origin"}
       /\ pc[u] \in {"unlock", "running"} => store[u] = Fields
       /\ pc[u] \in {"abort"} \cup TeardownStates => store[u] \in {{}, {"service", "router"}, Fields}
       /\ pc[u] \in {"decrease", "decreasePut", "removeRoute", "recover", "recoverPut", "dropStuntman",
                     "dropRouter"} => Stored(u, "router")
  /\ Mode[u] = "exchange" =>
       /\ pc[u] = "shadow" => store[u] = {}
       /\ pc[u] \in {"select", "selectPut", "unlock", "running", "recover", "recoverPut"} => store[u] = {"shadow", "origin"}
       /\ pc[u] \in {"abort"} \cup TeardownStates => store[u] \in {{}, {"shadow", "origin"}}

StorePhases == \A u \in Users : StorePhase(u)

\* A shadow pod belongs to the session that created it as long as that has not ended.
PodsOwned ==
  /\ \A u \in Users : Stored(u, "shadow") /\ pc[u] \notin Ended => shadowPod[Mark[u]] = [state |-> "alive", owner |-> u]
  /\ \A m \in Users : shadowPod[m].state # "absent" =>
       /\ shadowPod[m].owner \in Users /\ Mark[shadowPod[m].owner] = m
       /\ shadowPod[m].state = "alive" <=> pc[shadowPod[m].owner] \notin Ended
       /\ Stored(shadowPod[m].owner, "shadow")
  /\ \A u \in Users : Mode[u] = "mesh"
        /\ pc[u] \in {"stuntman", "shadowSvc", "select", "selectPut", "shadow"} \cup BeforeStored
          => shadowPod[Mark[u]].state = "absent"

\* So does the shadow service of a version.
SvcsOwned ==
  \A m \in Users : shadowSvc[m] # NoUser =>
    /\ Mark[shadowSvc[m]] = m /\ Stored(shadowSvc[m], "service")
    /\ pc[shadowSvc[m]] \notin {"dropShadow"} \cup Ended

CountedUsers == {u \in Users : Counted(u)}

\* What a session finds of the router.
RouterServes(u) ==
  /\ Counted(u) \/ pc[u] \in {"increase", "increasePut"} => routerState = "alive" /\ label[u] = routerTarget
  /\ pc[u] = "newRouter" => routerState = "absent"
  /\ pc[u] \in {"increasePut", "decreasePut"} => u \in podFresh
  /\ Counted(u) /\ Stored(u, "router") => confHeader # NoUser /\ routes[Mark[u]] > 0
  /\ pc[u] \in {"increase", "increasePut", "add"} => confHeader # NoUser
  /\ pc[u] = "setup" => confHeader = NoUser
  /\ pc[u] = "decreasePut" => ~LastRef

\* The router is there for the sessions that are counted, and has their versions.
RouterShared ==
  /\ IsFiniteSet(CountedUsers)
  /\ routerState = "alive" => CountedUsers # {} /\ refs = Cardinality(CountedUsers)
  /\ \A u \in Users : RouterServes(u)

\* An exchange that is noted.
Exchanges(u) == Mode[u] = "exchange" /\ Stored(u, "origin") /\ pc[u] \notin {"dropShadow"} \cup Ended

Holds(u) == Counted(u) \/ Exchanges(u)

\* An exchange excludes every other session, and who removes the redirection is the
\* last to have one.
Exclusive ==
  \A u \in Users :
    /\ Exchanges(u) \/ pc[u] \in {"recover", "recoverPut", "dropStuntman", "dropRouter"} =>
         \A v \in Users \ {u} : ~Holds(v)
    /\ Mode[u] = "mesh" /\ pc[u] \in {"shadowSvc"} \cup BeforeStored => \A v \in Users : ~Exchanges(v)

\* A session that needs the stuntman service.
Meshes(u) ==
  \/ Mode[u] = "mesh" /\ pc[u] \in {"shadowSvc"} \cup BeforeStored
  \/ Counted(u) /\ pc[u] # "dropRouter"

\* The stuntman is there from the first mesh to the last.
StuntmanShared ==
  /\ \A u \in Users : Meshes(u) => stuntman = Original
  /\ stuntman # None => \E u \in Users : Meshes(u)

\* The Service is redirected from the first session to the last, and to one of them.
Redirection ==
  /\ ann # None => \E u \in Users : Holds(u) /\ pc[u] \notin {"dropStuntman", "dropRouter"}
  /\ \A u \in Users :
       /\ pc[u] \in {"unlock", "running"} \/ (Mode[u] = "mesh" /\ pc[u] = "shadow") => ann = Original
       /\ Mode[u] = "exchange" /\ pc[u] \in {"shadow", "select", "selectPut"} => ann = None
       /\ pc[u] \in {"name", "stuntman"} => seen[u].ann = ann
       /\ pc[u] \in {"dropStuntman", "dropRouter"} => ann = None
       /\ pc[u] = "recoverPut" => u \in svcFresh
       /\ watch[u] # "off" => Stored(u, "origin") /\ pc[u] \in {"shadow", "unlock", "running"} \cup TeardownStates
  /\ sel.role = "router" => sel.target = routerTarget /\ \E u \in Users : Counted(u) /\ Stored(u, "router")
  /\ sel.role = "exchange" => sel.target \in Users /\ Exchanges(sel.target)

CalmInv ==
  /\ Turns /\ AgreedHeader /\ StorePhases /\ routerLost = {}
  /\ PodsOwned /\ SvcsOwned
  /\ RouterShared /\ Exclusive /\ StuntmanShared /\ Redirection

\* What holds of a state of calm sessions.
CalmState == IInv /\ Calm /\ CalmInv

-------------------------------------------------------------------------------
(* The steps *)

CalmStep ==
  \/ \E u \in Users : \/ LockService(u) \/ LockFails(u) \/ Setup(u) \/ Quit(u)
                      \/ CleanupWorkspace(u) \/ Watcher(u) \/ ShadowGone(u)
  \/ RouterGone \/ Redeploy

LEMMA CalmSteps ==
  ASSUME Calm, Next
  PROVE  ~Fails /\ CalmStep /\ Calm'
  BY DEF Calm, Next, Fails, User, Crash, HeartBeat, CalmStep

LEMMA BusyStates ==
  /\ Busy = {"name", "stuntman", "shadowSvc", "router", "newRouter", "setup", "increase", "increasePut", "add",
             "select", "selectPut", "shadow", "unlock", "abort", "down", "decrease", "decreasePut", "removeRoute",
             "recover", "recoverPut", "dropStuntman", "dropRouter", "dropSvc", "dropShadow"}
  /\ Ended \cap Busy = {} /\ SetupStates \cap TeardownStates = {}
  /\ \A s \in States \ Busy : s \in {"idle", "running"} \cup Ended
  BY DEF Busy, SetupStates, TeardownStates, Ended, States

\* What a step of a process leaves alone of the others.
LEMMA OthersKept ==
  ASSUME TypeOK, NEW u \in Users,
         LockService(u) \/ LockFails(u) \/ Setup(u) \/ Quit(u) \/ CleanupWorkspace(u),
         NEW v \in Users \ {u}
  PROVE  /\ pc'[v] = pc[v] /\ store'[v] = store[v] /\ label'[v] = label[v] /\ seen'[v] = seen[v]
         /\ watch'[v] = watch[v] /\ recorded'[v] = recorded[v]
         /\ Counted(v)' = Counted(v) /\ Exchanges(v)' = Exchanges(v)
<1> DEFINE Goal == /\ pc'[v] = pc[v] /\ store'[v] = store[v] /\ label'[v] = label[v] /\ seen'[v] = seen[v]
                   /\ watch'[v] = watch[v] /\ recorded'[v] = recorded[v]
<1>0. Goal => Counted(v)' = Counted(v) /\ Exchanges(v)' = Exchanges(v)
  BY DEF Counted, Exchanges, Stored
<1>a. Goal
  <2> USE DEF TypeOK, Goto, Store, Redirected, process, service, shadows, router
  <2>1. CASE LockService(u) \/ LockFails(u) \/ Quit(u) \/ UnlockService(u)
    BY <2>1 DEF LockService, LockFails, Quit, UnlockService
  <2>2. CASE AutoMesh(u)
    BY <2>2 DEF AutoMesh, IsNameUsable, CreateStuntmanService, CreateShadowService, GetRouter, CreateRouter,
                SetupRouter, IncreasePodRef, IncreasePodRefPut, AddRoute
  <2>3. CASE UpdateServiceSelector(u) \/ UpdateServiceSelectorPut(u) \/ CreateShadow(u)
    BY <2>3 DEF UpdateServiceSelector, UpdateServiceSelectorPut, CreateShadow
  <2>4. CASE CleanupWorkspace(u)
    BY <2>4 DEF CleanupWorkspace, RecoverRoute, DecreasePodRef, DecreasePodRefPut, RemoveRoute,
                RecoverOriginalService, RecoverOriginalServicePut, RemoveStuntman, RemoveRouter, CleanService,
                CleanShadow
  <2>. QED
    BY <2>1, <2>2, <2>3, <2>4 DEF Setup
<1>. QED
  BY <1>0, <1>a

\* The phases of a session.
LEMMA Phases ==
  ASSUME TypeOK, NEW u \in Users
  PROVE  /\ AutoMesh(u) \/ UpdateServiceSelector(u) \/ UpdateServiceSelectorPut(u) \/ CreateShadow(u) =>
              pc[u] \in SetupStates /\ pc'[u] \in SetupStates /\ UNCHANGED locked
         /\ UnlockService(u) => pc[u] \in SetupStates /\ pc'[u] \in {"running", "down"} /\ locked' = locked \ {u}
         /\ CleanupWorkspace(u) =>
              pc[u] \in TeardownStates /\ pc'[u] \in TeardownStates \cup {"exited"} /\ UNCHANGED locked
<1> USE DEF TypeOK, Goto, Redirected, SetupStates, TeardownStates
<1>1. ASSUME AutoMesh(u) PROVE pc[u] \in SetupStates /\ pc'[u] \in SetupStates /\ UNCHANGED locked
  BY <1>1 DEF AutoMesh, IsNameUsable, CreateStuntmanService, CreateShadowService, GetRouter, CreateRouter,
              SetupRouter, IncreasePodRef, IncreasePodRefPut, AddRoute
<1>2. ASSUME UpdateServiceSelector(u) \/ UpdateServiceSelectorPut(u) \/ CreateShadow(u)
      PROVE  pc[u] \in SetupStates /\ pc'[u] \in SetupStates /\ UNCHANGED locked
  BY <1>2 DEF UpdateServiceSelector, UpdateServiceSelectorPut, CreateShadow
<1>3. ASSUME UnlockService(u)
      PROVE  pc[u] \in SetupStates /\ pc'[u] \in {"running", "down"} /\ locked' = locked \ {u}
  BY <1>3 DEF UnlockService
<1>4. ASSUME CleanupWorkspace(u)
      PROVE  pc[u] \in TeardownStates /\ pc'[u] \in TeardownStates \cup {"exited"} /\ UNCHANGED locked
  BY <1>4 DEF CleanupWorkspace, RecoverRoute, DecreasePodRef, DecreasePodRefPut, RemoveRoute,
              RecoverOriginalService, RecoverOriginalServicePut, RemoveStuntman, RemoveRouter, CleanService,
              CleanShadow
<1>. QED
  BY <1>1, <1>2, <1>3, <1>4

\* Set-ups and tear-downs do not overlap.
InTurns == {"slowSetup", "joins", "quits"} \cap allowed = {}

\* A process that begins is the only one.
LEMMA BeginsAlone ==
  ASSUME TypeOK, InTurns, Turns, NEW u \in Users, LockService(u) \/ Quit(u)
  PROVE  \A v \in Users : pc[v] \notin Busy
<1>1. CASE LockService(u)
  BY <1>1 DEF LockService, InTurns, Nobody, Turns, Busy
<1>2. CASE Quit(u)
  BY <1>2 DEF Quit, InTurns, Nobody, Busy
<1>. QED
  BY <1>1, <1>2

LEMMA CalmInTurns == Calm => InTurns
  BY DEF Calm, InTurns

\* Where a process is on its way, the others are at rest.
LEMMA OthersRest ==
  ASSUME TypeOK, Turns, NEW u \in Users, pc[u] \in Busy, NEW v \in Users \ {u}
  PROVE  pc[v] \notin Busy /\ pc[v] \in {"idle", "running"} \cup Ended
<1>1. pc[v] \notin Busy /\ pc[v] \in States
  BY DEF Turns, TypeOK
<1>. QED
  BY <1>1, BusyStates

\* Steps that no process takes in its main line.
Beside == (\E u \in Users : Watcher(u) \/ ShadowGone(u)) \/ RouterGone \/ Redeploy

LEMMA Background ==
  ASSUME Beside
  PROVE  /\ UNCHANGED <<pc, locked, store, label, seen, recorded, routerLost, stuntman, shadowSvc>>
         /\ \A v \in Users : Counted(v)' = Counted(v) /\ Exchanges(v)' = Exchanges(v)
<1>1. UNCHANGED <<pc, locked, store, label, seen, recorded, routerLost, stuntman, shadowSvc>>
  BY DEF Beside, Watcher, StartWatch, WatchService, FixService, ShadowGone, RouterGone, Redeploy, process, shadows
<1>. QED
  BY <1>1 DEF Counted, Exchanges, Stored

\* Where set-ups and tear-downs do not overlap, they go on taking turns.
LEMMA TurnsStep ==
  ASSUME TypeOK, InTurns, Turns, CalmStep
  PROVE  Turns'
<1>0. TypeOK /\ Turns
  OBVIOUS
<1>1. ASSUME NEW u \in Users, LockService(u) PROVE Turns'
  <2>1. pc'[u] \in SetupStates /\ locked' = locked \cup {u}
    BY <1>0, <1>1 DEF LockService, Goto, TypeOK, SetupStates
  <2>2. /\ \A v \in Users \ {u} : pc'[v] = pc[v]
        /\ \A v \in Users : pc[v] \notin Busy
    BY <1>0, <1>1, BeginsAlone, OthersKept
  <2>. QED
    BY <1>0, <2>1, <2>2 DEF Turns, Busy
<1>2. ASSUME NEW u \in Users, LockFails(u) PROVE Turns'
  <2>1. pc'[u] = "exited" /\ pc[u] = "idle" /\ UNCHANGED locked
    BY <1>0, <1>2 DEF LockFails, Goto, TypeOK
  <2>2. {"idle", "exited"} \cap Busy = {} /\ SetupStates \subseteq Busy
    BY BusyStates DEF Busy
  <2>3. \A v \in Users \ {u} : pc'[v] = pc[v]
    BY <1>0, <1>2, OthersKept
  <2>. QED
    BY <1>0, <2>1, <2>2, <2>3 DEF Turns
<1>3. ASSUME NEW u \in Users, Quit(u) PROVE Turns'
  <2>1. pc'[u] = "down" /\ UNCHANGED locked
    BY <1>0, <1>3 DEF Quit, Goto, TypeOK
  <2>2. "down" \in Busy /\ "down" \notin SetupStates
    BY DEF Busy, SetupStates, TeardownStates
  <2>3. /\ \A v \in Users \ {u} : pc'[v] = pc[v]
        /\ \A v \in Users : pc[v] \notin Busy
    BY <1>0, <1>3, BeginsAlone, OthersKept
  <2>. QED
    BY <1>0, <2>1, <2>2, <2>3 DEF Turns, Busy
<1>4. ASSUME NEW u \in Users, Setup(u) \/ CleanupWorkspace(u) PROVE Turns'
  <2>1. /\ pc[u] \in Busy /\ locked' \subseteq locked
        /\ locked' \in {locked, locked \ {u}} /\ (u \in locked' <=> pc'[u] \in SetupStates)
    <3>1. {"running", "down", "exited"} \cap SetupStates = {}
      BY DEF SetupStates
    <3>. QED
      BY <1>0, <1>4, <3>1, Phases, BusyStates DEF Setup, Turns, Busy, TypeOK
  <2>2. \A v \in Users \ {u} : pc'[v] = pc[v]
    BY <1>0, <1>4, OthersKept
  <2>. QED
    BY <1>0, <2>1, <2>2 DEF Turns
<1>5. CASE Beside
  BY <1>0, <1>5, Background DEF Turns
<1>. QED
  BY <1>1, <1>2, <1>3, <1>4, <1>5 DEF CalmStep, Beside

LEMMA TurnsKept ==
  ASSUME CalmState, Next
  PROVE  Turns'
<1>1. TypeOK /\ Turns /\ InTurns /\ CalmStep
  BY CalmSteps, CalmInTurns DEF CalmState, CalmInv, IInv
<1>. QED
  BY <1>1, TurnsStep

\* A process that has ended does not come back.
LEMMA EndedStays ==
  ASSUME TypeOK, CalmStep, NEW v \in Users, pc'[v] \notin Ended
  PROVE  pc[v] \notin Ended
<1>1. ASSUME NEW u \in Users, LockService(u) \/ LockFails(u) \/ Setup(u) \/ Quit(u) \/ CleanupWorkspace(u)
      PROVE  pc[v] \notin Ended
  <2>1. CASE v = u
    <3>1. pc[u] \in {"idle", "running"} \cup Busy
      BY <1>1, Phases DEF LockService, LockFails, Setup, Quit, Busy
    <3>. QED
      BY <2>1, <3>1, BusyStates DEF Ended
  <2>. QED
    BY <1>1, <2>1, OthersKept
<1>2. CASE Beside
  BY <1>2, Background
<1>. QED
  BY <1>1, <1>2 DEF CalmStep, Beside

\* The header of the router is set by `router setup', and forgotten with the router.
LEMMA HeaderSet ==
  ASSUME TypeOK, CalmStep
  PROVE  \/ confHeader' \in {confHeader, NoUser}
         \/ \E u \in Users : pc[u] = "setup" /\ SetupRouter(u) /\ confHeader' = Header[u]
<1> DEFINE Goal == \/ confHeader' \in {confHeader, NoUser}
                   \/ \E u \in Users : pc[u] = "setup" /\ SetupRouter(u) /\ confHeader' = Header[u]
<1> USE DEF router
<1>1. ASSUME NEW u \in Users, LockService(u) \/ LockFails(u) \/ Quit(u) \/ ShadowGone(u) \/ Watcher(u) PROVE Goal
  BY <1>1 DEF LockService, LockFails, Quit, ShadowGone, Watcher, StartWatch, WatchService, FixService
<1>2. ASSUME NEW u \in Users, AutoMesh(u) PROVE Goal
  <2>1. CASE SetupRouter(u)
    BY <2>1 DEF SetupRouter
  <2>. QED
    BY <1>2, <2>1 DEF AutoMesh, IsNameUsable, CreateStuntmanService, CreateShadowService, GetRouter, CreateRouter,
                IncreasePodRef, IncreasePodRefPut, AddRoute
<1>3. ASSUME NEW u \in Users, UpdateServiceSelector(u) \/ UpdateServiceSelectorPut(u) \/ CreateShadow(u) \/ UnlockService(u)
      PROVE  Goal
  BY <1>3 DEF UpdateServiceSelector, UpdateServiceSelectorPut, CreateShadow, UnlockService
<1>4. ASSUME NEW u \in Users, CleanupWorkspace(u) PROVE Goal
  BY <1>4 DEF CleanupWorkspace, RecoverRoute, DecreasePodRef, DecreasePodRefPut, RemoveRoute,
                RecoverOriginalService, RecoverOriginalServicePut, RemoveStuntman, RemoveRouter, CleanService,
                CleanShadow
<1>5. CASE RouterGone \/ Redeploy
  BY <1>5 DEF RouterGone, Redeploy
<1>. QED
  BY <1>1, <1>2, <1>3, <1>4, <1>5 DEF CalmStep, Beside, Setup

LEMMA AgreedHeaderKept ==
  ASSUME CalmState, Next
  PROVE  AgreedHeader'
<1>0. TypeOK /\ Turns /\ AgreedHeader /\ StorePhases /\ CalmStep
  BY CalmSteps DEF CalmState, CalmInv, IInv
<1> SUFFICES ASSUME NEW u \in Users, Mode[u] = "mesh", pc'[u] \notin Ended
             PROVE  /\ \A v \in Users : Mode[v] = "mesh" /\ pc'[v] \notin Ended => Header[v] = Header[u]
                    /\ confHeader' \in {NoUser, Header[u]}
  BY DEF AgreedHeader
<1>1. \A v \in Users : pc'[v] \notin Ended => pc[v] \notin Ended
  BY <1>0, EndedStays
<1>2. \A v \in Users : pc[v] = "setup" => Mode[v] = "mesh" /\ pc[v] \notin Ended
  BY <1>0 DEF StorePhases, StorePhase, BeforeStored, Ended
<1>. QED
  BY <1>0, <1>1, <1>2, HeaderSet DEF AgreedHeader

\* What a step finds: where the environment behaves, set-up fails for a reason of the
\* sessions only.
LEMMA Finds ==
  ASSUME CalmState, NEW u \in Users
  PROVE  /\ pc[u] = "shadowSvc" => shadowSvc[Mark[u]] = NoUser
         /\ pc[u] = "newRouter" => routerState = "absent"
         /\ pc[u] \in {"setup", "increase", "increasePut", "add"} => routerState = "alive"
         /\ pc[u] = "add" => confHeader = Header[u]
         /\ pc[u] = "shadow" => shadowPod[Mark[u]].state = "absent"
         /\ pc[u] \in {"down", "decrease", "decreasePut", "dropRouter"} /\ Mode[u] = "mesh" /\ Stored(u, "router") =>
              routerState = "alive"
         /\ pc[u] \in {"increasePut", "decreasePut"} => u \in podFresh
         /\ Redirectable
<1>0. /\ TypeOK /\ Turns /\ AgreedHeader /\ StorePhases /\ PodsOwned /\ SvcsOwned /\ RouterShared /\ SelectorRecoverable
      /\ NoUser \notin Users /\ \A v \in Users : Mark[v] \in Users
  BY ConstantsAssumption DEF CalmState, CalmInv, IInv, ConstantsAssumption
<1>1. ASSUME pc[u] = "shadowSvc" PROVE shadowSvc[Mark[u]] = NoUser
  <2> SUFFICES ASSUME shadowSvc[Mark[u]] # NoUser PROVE FALSE
    OBVIOUS
  <2> DEFINE o == shadowSvc[Mark[u]]
  <2>1. o \in Users /\ Mark[o] = Mark[u] /\ Stored(o, "service") /\ pc[o] \notin {"dropShadow"} \cup Ended
    BY <1>0 DEF TypeOK, SvcsOwned
  <2>2. o # u
    BY <1>0, <1>1, <2>1 DEF StorePhases, StorePhase, Stored
  <2>3. pc[o] \in {"idle", "running"}
    BY <1>0, <1>1, <2>1, <2>2, OthersRest, BusyStates
  <2>4. Mode[o] = "mesh" /\ pc[o] = "running"
    BY <1>0, <2>1, <2>3, ConstantsAssumption DEF StorePhases, StorePhase, Stored, ConstantsAssumption
  <2>5. Stored(o, "shadow") /\ pc[o] \notin Ended
    BY <1>0, <2>1, <2>4 DEF StorePhases, StorePhase, Stored, Fields
  <2>6. shadowPod[Mark[o]] = [state |-> "alive", owner |-> o]
    BY <1>0, <2>1, <2>5 DEF PodsOwned
  <2>7. Mode[u] = "mesh"
    BY <1>0, <1>1 DEF StorePhases, StorePhase
  <2>. QED
    BY <1>0, <1>1, <2>1, <2>6, <2>7 DEF PodsOwned
<1>2. ASSUME pc[u] = "shadow" PROVE shadowPod[Mark[u]].state = "absent"
  <2>1. CASE Mode[u] = "mesh"
    BY <1>0, <1>2, <2>1 DEF PodsOwned
  <2>2. CASE Mode[u] = "exchange"
    <3> SUFFICES ASSUME shadowPod[Mark[u]].state # "absent" PROVE FALSE
      OBVIOUS
    <3> DEFINE o == shadowPod[Mark[u]].owner
    <3>1. o \in Users /\ Mark[o] = Mark[u] /\ Stored(o, "shadow")
      BY <1>0 DEF PodsOwned
    <3>2. o = u
      BY <2>2, <3>1, MarkAssumption
    <3>. QED
      BY <1>0, <1>2, <2>2, <3>1, <3>2 DEF StorePhases, StorePhase, Stored
  <2>. QED
    BY <2>1, <2>2, ConstantsAssumption DEF ConstantsAssumption
<1>3. ASSUME pc[u] \in {"setup", "increase", "increasePut", "add"}
      PROVE  routerState = "alive" /\ (pc[u] = "add" => confHeader = Header[u])
  <2>1. Mode[u] = "mesh" /\ pc[u] \notin Ended
    BY <1>0, <1>3 DEF StorePhases, StorePhase, BeforeStored, Ended
  <2>. QED
    BY <1>0, <1>3, <2>1 DEF RouterShared, RouterServes, Counted, AgreedHeader
<1>4. ASSUME pc[u] \in {"down", "decrease", "decreasePut", "dropRouter"}, Mode[u] = "mesh", Stored(u, "router")
      PROVE  routerState = "alive"
  BY <1>0, <1>4 DEF RouterShared, RouterServes, Counted, Ended
<1>5. Redirectable
  BY <1>0, SelectorFacts DEF Redirectable, SelectorRecoverable
<1>6. /\ pc[u] = "newRouter" => routerState = "absent"
      /\ pc[u] \in {"increasePut", "decreasePut"} => u \in podFresh
  BY <1>0 DEF RouterShared, RouterServes
<1>. QED
  BY <1>1, <1>2, <1>3, <1>4, <1>5, <1>6

\* The router of a session is always found.
LEMMA RouterFound ==
  ASSUME CalmState, Next
  PROVE  routerLost' = {}
<1>0. TypeOK /\ ~Fails /\ CalmStep /\ routerLost = {}
  BY CalmSteps DEF CalmState, CalmInv, IInv
<1> USE DEF process
<1>1. ASSUME NEW u \in Users, RecoverRoute(u) PROVE routerLost' = {}
  BY <1>0, <1>1, Finds DEF RecoverRoute
<1>2. ASSUME NEW u \in Users, LockService(u) \/ LockFails(u) \/ Quit(u) \/ AutoMesh(u) PROVE routerLost' = {}
  BY <1>0, <1>2 DEF LockService, LockFails, Quit, AutoMesh, IsNameUsable, CreateStuntmanService,
     CreateShadowService, GetRouter, CreateRouter, SetupRouter, IncreasePodRef, IncreasePodRefPut, AddRoute
<1>3. ASSUME NEW u \in Users,
             UpdateServiceSelector(u) \/ UpdateServiceSelectorPut(u) \/ CreateShadow(u) \/ UnlockService(u)
      PROVE  routerLost' = {}
  BY <1>0, <1>3 DEF UpdateServiceSelector, UpdateServiceSelectorPut, CreateShadow, UnlockService
<1>4. ASSUME NEW u \in Users, CleanupWorkspace(u), ~RecoverRoute(u) PROVE routerLost' = {}
  BY <1>0, <1>4 DEF CleanupWorkspace, DecreasePodRef, DecreasePodRefPut, RemoveRoute,
     RecoverOriginalService, RecoverOriginalServicePut, RemoveStuntman, RemoveRouter, CleanService, CleanShadow
<1>5. CASE Beside
  BY <1>0, <1>5, Background
<1>. QED
  BY <1>0, <1>1, <1>2, <1>3, <1>4, <1>5 DEF CalmStep, Beside, Setup

LEMMA StorePhasesKept ==
  ASSUME CalmState, Next
  PROVE  StorePhases'
<1>0. /\ TypeOK /\ ~Fails /\ CalmStep /\ StorePhases /\ routerLost = {}
      /\ \A u \in Users : Mode[u] \in {"mesh", "exchange"}
  BY CalmSteps, ConstantsAssumption DEF CalmState, CalmInv, IInv, ConstantsAssumption
<1>a. ASSUME NEW u \in Users,
             LockService(u) \/ LockFails(u) \/ Setup(u) \/ Quit(u) \/ CleanupWorkspace(u),
             StorePhase(u)'
      PROVE  StorePhases'
  BY <1>0, <1>a, OthersKept DEF StorePhases, StorePhase, Stored
<1> USE DEF Goto, Store, process, service, shadows, router, TypeOK, Stored
<1>1. ASSUME NEW u \in Users, LockService(u) \/ LockFails(u) \/ Quit(u) PROVE StorePhase(u)'
  BY <1>0, <1>1 DEF LockService, LockFails, Quit, StorePhases, StorePhase, BeforeStored, TeardownStates
<1>2. ASSUME NEW u \in Users, IsNameUsable(u) \/ CreateStuntmanService(u)
      PROVE  StorePhase(u)'
  BY <1>0, <1>2 DEF IsNameUsable, CreateStuntmanService, StorePhases, StorePhase, BeforeStored, TeardownStates
<1>10. ASSUME NEW u \in Users, GetRouter(u) \/ CreateRouter(u) PROVE StorePhase(u)'
  <2>1. "slowPods" \notin allowed
    BY DEF CalmState, Calm
  <2>. QED
    BY <1>0, <1>10, <2>1, Finds DEF GetRouter, CreateRouter, StorePhases, StorePhase, BeforeStored, TeardownStates
<1>11. ASSUME NEW u \in Users, IncreasePodRef(u) \/ IncreasePodRefPut(u) PROVE StorePhase(u)'
  BY <1>0, <1>11, Finds DEF IncreasePodRef, IncreasePodRefPut, StorePhases, StorePhase, BeforeStored, TeardownStates
<1>3. ASSUME NEW u \in Users, CreateShadowService(u) \/ SetupRouter(u) \/ AddRoute(u)
      PROVE  StorePhase(u)'
  BY <1>0, <1>3, Finds DEF CreateShadowService, SetupRouter, AddRoute, ExecFails, ExecInRouter, StorePhases, StorePhase,
     BeforeStored, TeardownStates
<1>4. ASSUME NEW u \in Users, UpdateServiceSelector(u) \/ UpdateServiceSelectorPut(u)
      PROVE  StorePhase(u)'
  BY <1>0, <1>4, Finds DEF UpdateServiceSelector, UpdateServiceSelectorPut, Redirected, StorePhases, StorePhase,
     BeforeStored, TeardownStates, Fields
<1>5. ASSUME NEW u \in Users, CreateShadow(u)
      PROVE  StorePhase(u)'
  BY <1>0, <1>5, Finds DEF CreateShadow, StorePhases, StorePhase, BeforeStored, TeardownStates, Fields
<1>6. ASSUME NEW u \in Users, UnlockService(u)
      PROVE  StorePhase(u)'
  BY <1>0, <1>6 DEF UnlockService, StorePhases, StorePhase, BeforeStored, TeardownStates
<1>7. ASSUME NEW u \in Users, RecoverRoute(u) \/ DecreasePodRef(u) \/ DecreasePodRefPut(u) \/ RemoveRoute(u)
      PROVE  StorePhase(u)'
  BY <1>0, <1>7, Finds DEF RecoverRoute, DecreasePodRef, DecreasePodRefPut, RemoveRoute, StorePhases, StorePhase,
     BeforeStored, TeardownStates
<1>8. ASSUME NEW u \in Users, RecoverOriginalService(u) \/ RecoverOriginalServicePut(u) \/ RemoveStuntman(u)
                               \/ RemoveRouter(u) \/ CleanService(u) \/ CleanShadow(u)
      PROVE  StorePhase(u)'
  BY <1>0, <1>8 DEF RecoverOriginalService, RecoverOriginalServicePut, RemoveStuntman, RemoveRouter, CleanService,
     CleanShadow, StorePhases, StorePhase, BeforeStored, TeardownStates
<1>9. CASE Beside
  BY <1>0, <1>9, Background DEF StorePhases, StorePhase
<1>. QED
  BY <1>0, <1>a, <1>1, <1>2, <1>3, <1>4, <1>5, <1>6, <1>7, <1>8, <1>9, <1>10, <1>11 DEF CalmStep, Beside, Setup, AutoMesh, CleanupWorkspace

\* What a session notes about its shadow pod, and how the pods change.
LEMMA PodSteps ==
  ASSUME CalmState, Next
  PROVE  \/ /\ shadowPod' = shadowPod
            /\ \A v \in Users : Stored(v, "shadow")' <=> Stored(v, "shadow")
            /\ \A v \in Users : pc'[v] \in Ended => pc[v] \in Ended \/ ~Stored(v, "shadow")
         \/ \E u \in Users :
              /\ pc[u] = "shadow" /\ pc'[u] \in {"unlock", "select"} /\ shadowPod[Mark[u]].state = "absent"
              /\ Mode[u] = "mesh" => pc'[u] = "unlock"
              /\ shadowPod' = [shadowPod EXCEPT ![Mark[u]] = [state |-> "alive", owner |-> u]]
              /\ Stored(u, "shadow")' /\ \A v \in Users \ {u} : Stored(v, "shadow")' <=> Stored(v, "shadow")
              /\ \A v \in Users \ {u} : pc'[v] = pc[v]
         \/ \E u \in Users :
              /\ pc[u] = "dropShadow" /\ pc'[u] = "exited" /\ Stored(u, "shadow")
              /\ shadowPod' = [shadowPod EXCEPT ![Mark[u]] = [state |-> "terminating", owner |-> u]]
              /\ \A v \in Users : Stored(v, "shadow")' <=> Stored(v, "shadow")
              /\ \A v \in Users \ {u} : pc'[v] = pc[v]
         \/ \E m \in Users :
              /\ shadowPod[m].state = "terminating" /\ shadowPod'[m].state = "absent"
              /\ shadowPod' = [shadowPod EXCEPT ![m] = shadowPod'[m]]
              /\ UNCHANGED <<pc, store>>
<1> DEFINE Same == /\ shadowPod' = shadowPod
                   /\ \A v \in Users : Stored(v, "shadow")' <=> Stored(v, "shadow")
                   /\ \A v \in Users : pc'[v] \in Ended => pc[v] \in Ended \/ ~Stored(v, "shadow")
<1>0. /\ TypeOK /\ ~Fails /\ CalmStep /\ StorePhases /\ PodsOwned
      /\ \A u \in Users : Mode[u] \in {"mesh", "exchange"} /\ Mark[u] \in Users
  BY CalmSteps, ConstantsAssumption DEF CalmState, CalmInv, IInv, ConstantsAssumption
<1>a. ASSUME NEW u \in Users,
             LockService(u) \/ LockFails(u) \/ Setup(u) \/ Quit(u) \/ CleanupWorkspace(u),
             shadowPod' = shadowPod, Stored(u, "shadow")' <=> Stored(u, "shadow"),
             pc'[u] \in Ended => ~Stored(u, "shadow")
      PROVE  Same
  BY <1>0, <1>a, OthersKept DEF Stored
<1>1. ASSUME NEW u \in Users, LockService(u) \/ LockFails(u) \/ Quit(u) \/ UnlockService(u) PROVE Same
  <2>1. shadowPod' = shadowPod /\ store' = store
    BY <1>1 DEF LockService, LockFails, Quit, UnlockService, shadows, process
  <2>2. pc'[u] \in Ended => pc[u] = "idle"
    BY <1>0, <1>1 DEF LockService, LockFails, Quit, UnlockService, Goto, TypeOK, Ended
  <2>3. pc[u] = "idle" => ~Stored(u, "shadow")
    BY <1>0 DEF StorePhases, StorePhase, Stored
  <2>. QED
    BY <1>1, <1>a, <2>1, <2>2, <2>3 DEF Setup, Stored
<1>2. ASSUME NEW u \in Users, AutoMesh(u) \/ UpdateServiceSelector(u) \/ UpdateServiceSelectorPut(u) PROVE Same
  <2>1. shadowPod' = shadowPod
    BY <1>2 DEF AutoMesh, IsNameUsable, CreateStuntmanService, CreateShadowService, GetRouter, CreateRouter,
       SetupRouter, IncreasePodRef, IncreasePodRefPut, AddRoute, UpdateServiceSelector, UpdateServiceSelectorPut, shadows
  <2>2. store'[u] \in {store[u], store[u] \cup {"service"}, store[u] \cup {"router"}, store[u] \cup {"origin"}}
    BY <1>0, <1>2 DEF AutoMesh, IsNameUsable, CreateStuntmanService, CreateShadowService, GetRouter, CreateRouter,
       SetupRouter, IncreasePodRef, IncreasePodRefPut, AddRoute, UpdateServiceSelector, UpdateServiceSelectorPut,
       Redirected, Store, process, TypeOK
  <2>3. pc'[u] \notin Ended
    BY <1>0, <1>2, Phases, BusyStates DEF Busy
  <2>. QED
    BY <1>2, <1>a, <2>1, <2>2, <2>3 DEF Setup, Stored
<1>3. ASSUME NEW u \in Users, CleanupWorkspace(u), ~CleanShadow(u) PROVE Same
  <2>1. shadowPod' = shadowPod /\ store' = store
    BY <1>3 DEF CleanupWorkspace, RecoverRoute, DecreasePodRef, DecreasePodRefPut, RemoveRoute,
       RecoverOriginalService, RecoverOriginalServicePut, RemoveStuntman, RemoveRouter, CleanService, shadows, process
  <2>2. pc'[u] \notin Ended
    BY <1>0, <1>3 DEF CleanupWorkspace, RecoverRoute, DecreasePodRef, DecreasePodRefPut, RemoveRoute,
       RecoverOriginalService, RecoverOriginalServicePut, RemoveStuntman, RemoveRouter, CleanService, Goto, TypeOK, Ended
  <2>. QED
    BY <1>3, <1>a, <2>1, <2>2 DEF Stored
<1>4. CASE (\E u \in Users : Watcher(u)) \/ RouterGone \/ Redeploy
  <2>1. shadowPod' = shadowPod
    BY <1>4 DEF Watcher, StartWatch, WatchService, FixService, RouterGone, Redeploy, shadows
  <2>2. UNCHANGED <<pc, store>>
    BY <1>4, Background DEF Beside
  <2>. QED
    BY <2>1, <2>2 DEF Stored
<1>5. ASSUME NEW u \in Users, CreateShadow(u)
      PROVE  /\ pc[u] = "shadow" /\ pc'[u] \in {"unlock", "select"} /\ shadowPod[Mark[u]].state = "absent"
             /\ Mode[u] = "mesh" => pc'[u] = "unlock"
             /\ shadowPod' = [shadowPod EXCEPT ![Mark[u]] = [state |-> "alive", owner |-> u]]
             /\ Stored(u, "shadow")' /\ \A v \in Users \ {u} : Stored(v, "shadow")' <=> Stored(v, "shadow")
             /\ \A v \in Users \ {u} : pc'[v] = pc[v]
  <2>1. pc[u] = "shadow" /\ shadowPod[Mark[u]].state = "absent"
    BY <1>5, Finds DEF CreateShadow
  <2>2. /\ pc'[u] \in {"unlock", "select"} /\ (Mode[u] = "mesh" => pc'[u] = "unlock")
        /\ shadowPod' = [shadowPod EXCEPT ![Mark[u]] = [state |-> "alive", owner |-> u]]
        /\ Stored(u, "shadow")'
    BY <1>0, <1>5, <2>1 DEF CreateShadow, Goto, TypeOK, Stored
  <2>. QED
    BY <1>0, <1>5, <2>1, <2>2, OthersKept DEF Setup, Stored
<1>6. ASSUME NEW u \in Users, CleanShadow(u)
      PROVE  \/ Same
             \/ /\ pc[u] = "dropShadow" /\ pc'[u] = "exited" /\ Stored(u, "shadow")
                /\ shadowPod' = [shadowPod EXCEPT ![Mark[u]] = [state |-> "terminating", owner |-> u]]
                /\ \A v \in Users : Stored(v, "shadow")' <=> Stored(v, "shadow")
                /\ \A v \in Users \ {u} : pc'[v] = pc[v]
  <2>1. pc[u] = "dropShadow" /\ pc'[u] = "exited" /\ store' = store
    BY <1>0, <1>6 DEF CleanShadow, Goto, TypeOK
  <2>2. \A v \in Users \ {u} : pc'[v] = pc[v]
    BY <1>0, <1>6, OthersKept DEF CleanupWorkspace
  <2>3. CASE Stored(u, "shadow")
    <3>1. shadowPod[Mark[u]] = [state |-> "alive", owner |-> u]
      BY <1>0, <2>1, <2>3 DEF PodsOwned, Ended
    <3>2. shadowPod' = [shadowPod EXCEPT ![Mark[u]] = [state |-> "terminating", owner |-> shadowPod[Mark[u]].owner]]
      BY <1>0, <1>6, <2>3, <3>1 DEF CleanShadow, TypeOK
    <3>. QED
      BY <2>1, <2>2, <2>3, <3>1, <3>2 DEF Stored
  <2>4. CASE ~Stored(u, "shadow")
    <3>1. shadowPod' = shadowPod
      BY <1>6, <2>4 DEF CleanShadow, shadows
    <3>. QED
      BY <2>1, <2>2, <2>4, <3>1 DEF Stored
  <2>. QED
    BY <2>3, <2>4
<1>7. ASSUME NEW m \in Users, ShadowGone(m)
      PROVE  /\ shadowPod[m].state = "terminating" /\ shadowPod'[m].state = "absent"
             /\ shadowPod' = [shadowPod EXCEPT ![m] = shadowPod'[m]]
             /\ UNCHANGED <<pc, store>>
  BY <1>0, <1>7 DEF ShadowGone, TypeOK, process
<1>. QED
  BY <1>0, <1>1, <1>2, <1>3, <1>4, <1>5, <1>6, <1>7 DEF CalmStep, Setup

\* A mesh whose version is taken from the stuntman service to the shadow pod got there
\* when the last pod of that version was gone.
LEMMA VersionFree ==
  ASSUME CalmState, Next, NEW u \in Users, Mode[u] = "mesh",
         pc'[u] \in {"stuntman", "shadowSvc", "select", "selectPut", "shadow"} \cup BeforeStored
  PROVE  \/ pc[u] \in {"stuntman", "shadowSvc", "select", "selectPut", "shadow"} \cup BeforeStored
         \/ pc[u] = "name" /\ shadowPod[Mark[u]].state = "absent"
<1>0. TypeOK /\ Turns /\ CalmStep /\ ~Fails /\ "slowPods" \notin allowed
  BY CalmSteps DEF CalmState, CalmInv, IInv, Calm
<1> USE DEF BeforeStored, Goto, TypeOK
<1>1. ASSUME NEW v \in Users, v # u,
             LockService(v) \/ LockFails(v) \/ Setup(v) \/ Quit(v) \/ CleanupWorkspace(v)
      PROVE  pc'[u] = pc[u]
  BY <1>0, <1>1, OthersKept
<1>2. CASE LockService(u) \/ LockFails(u) \/ Quit(u) \/ UnlockService(u)
  BY <1>0, <1>2 DEF LockService, LockFails, Quit, UnlockService
<1>3. CASE IsNameUsable(u)
  BY <1>0, <1>3 DEF IsNameUsable
<1>4. CASE AutoMesh(u) /\ ~IsNameUsable(u)
  BY <1>4 DEF AutoMesh, CreateStuntmanService, CreateShadowService, GetRouter, CreateRouter, SetupRouter,
     IncreasePodRef, IncreasePodRefPut, AddRoute
<1>5. CASE UpdateServiceSelector(u) \/ UpdateServiceSelectorPut(u) \/ CreateShadow(u)
  BY <1>5 DEF UpdateServiceSelector, UpdateServiceSelectorPut, CreateShadow
<1>6. CASE CleanupWorkspace(u)
  <2>1. pc'[u] \in TeardownStates \cup {"exited"}
    BY <1>0, <1>6, Phases
  <2>. QED
    BY <2>1 DEF TeardownStates
<1>7. CASE Beside
  BY <1>7, Background
<1>. QED
  BY <1>0, <1>1, <1>2, <1>3, <1>4, <1>5, <1>6, <1>7 DEF CalmStep, Setup, Beside

LEMMA PodsOwnedKept ==
  ASSUME CalmState, Next
  PROVE  PodsOwned'
<1>0. /\ TypeOK /\ Turns /\ CalmStep /\ StorePhases /\ PodsOwned
      /\ \A u \in Users : Mark[u] \in Users
  BY CalmSteps, ConstantsAssumption DEF CalmState, CalmInv, IInv, ConstantsAssumption
<1>e. \A v \in Users : pc'[v] \notin Ended => pc[v] \notin Ended
  BY <1>0, EndedStays
<1>v. \A u \in Users : Mode[u] = "mesh"
        /\ pc'[u] \in {"stuntman", "shadowSvc", "select", "selectPut", "shadow"} \cup BeforeStored
          => shadowPod[Mark[u]].state = "absent"
  BY <1>0, VersionFree DEF PodsOwned
<1>1. CASE /\ shadowPod' = shadowPod
           /\ \A v \in Users : Stored(v, "shadow")' <=> Stored(v, "shadow")
           /\ \A v \in Users : pc'[v] \in Ended => pc[v] \in Ended \/ ~Stored(v, "shadow")
  BY <1>0, <1>e, <1>v, <1>1 DEF PodsOwned
<1>2. ASSUME NEW u \in Users,
             /\ pc[u] = "shadow" /\ pc'[u] \in {"unlock", "select"} /\ shadowPod[Mark[u]].state = "absent"
             /\ Mode[u] = "mesh" => pc'[u] = "unlock"
             /\ shadowPod' = [shadowPod EXCEPT ![Mark[u]] = [state |-> "alive", owner |-> u]]
             /\ Stored(u, "shadow")' /\ \A v \in Users \ {u} : Stored(v, "shadow")' <=> Stored(v, "shadow")
             /\ \A v \in Users \ {u} : pc'[v] = pc[v]
      PROVE  PodsOwned'
  <2>0. /\ shadowPod'[Mark[u]] = [state |-> "alive", owner |-> u]
        /\ \A m \in Users \ {Mark[u]} : shadowPod'[m] = shadowPod[m]
        /\ pc'[u] \notin Ended /\ pc[u] \in Busy /\ pc'[u] \in Busy
    BY <1>0, <1>2 DEF TypeOK, Ended, Busy, SetupStates
  <2>1. ASSUME NEW v \in Users, Stored(v, "shadow")', pc'[v] \notin Ended
        PROVE  shadowPod'[Mark[v]] = [state |-> "alive", owner |-> v]
    <3>1. CASE v # u
      <4>1. shadowPod[Mark[v]] = [state |-> "alive", owner |-> v]
        BY <1>0, <1>2, <2>1, <3>1 DEF PodsOwned
      <4>2. Mark[v] # Mark[u]
        BY <1>2, <4>1
      <4>. QED
        BY <1>0, <2>0, <4>1, <4>2
    <3>. QED
      BY <2>0, <3>1
  <2>2. ASSUME NEW m \in Users, shadowPod'[m].state # "absent"
        PROVE  /\ shadowPod'[m].owner \in Users /\ Mark[shadowPod'[m].owner] = m
               /\ shadowPod'[m].state = "alive" <=> pc'[shadowPod'[m].owner] \notin Ended
               /\ Stored(shadowPod[m].owner, "shadow")'
    <3>1. CASE m = Mark[u]
      BY <1>2, <2>0, <3>1 DEF Stored
    <3>2. CASE m # Mark[u]
      <4>1. shadowPod'[m] = shadowPod[m]
        BY <2>0, <3>2
      <4>2. /\ shadowPod[m].owner \in Users /\ Mark[shadowPod[m].owner] = m
            /\ shadowPod[m].state = "alive" <=> pc[shadowPod[m].owner] \notin Ended
            /\ Stored(shadowPod[m].owner, "shadow")
        BY <1>0, <2>2, <4>1 DEF PodsOwned
      <4>3. shadowPod[m].owner # u
        BY <3>2, <4>2
      <4>. QED
        BY <1>2, <4>1, <4>2, <4>3 DEF Stored
    <3>. QED
      BY <3>1, <3>2
  <2>3. ASSUME NEW v \in Users, Mode[v] = "mesh",
               pc'[v] \in {"stuntman", "shadowSvc", "select", "selectPut", "shadow"} \cup BeforeStored
        PROVE  shadowPod'[Mark[v]].state = "absent"
    <3>1. pc'[v] \in Busy
      BY <2>3 DEF Busy, SetupStates, BeforeStored
    <3>2. v = u
      BY <1>0, <1>2, <2>0, <3>1 DEF Turns
    <3>. QED
      BY <1>2, <2>3, <3>2 DEF BeforeStored
  <2>. QED
    BY <2>1, <2>2, <2>3 DEF PodsOwned
<1>3. ASSUME NEW u \in Users,
             /\ pc[u] = "dropShadow" /\ pc'[u] = "exited" /\ Stored(u, "shadow")
             /\ shadowPod' = [shadowPod EXCEPT ![Mark[u]] = [state |-> "terminating", owner |-> u]]
             /\ \A v \in Users : Stored(v, "shadow")' <=> Stored(v, "shadow")
             /\ \A v \in Users \ {u} : pc'[v] = pc[v]
      PROVE  PodsOwned'
  <2>0. /\ shadowPod'[Mark[u]] = [state |-> "terminating", owner |-> u]
        /\ \A m \in Users \ {Mark[u]} : shadowPod'[m] = shadowPod[m]
        /\ pc'[u] \in Ended /\ pc[u] \in Busy /\ pc[u] \notin Ended
    BY <1>0, <1>3 DEF TypeOK, Ended, Busy, TeardownStates
  <2>1. ASSUME NEW v \in Users, Stored(v, "shadow")', pc'[v] \notin Ended
        PROVE  shadowPod'[Mark[v]] = [state |-> "alive", owner |-> v]
    <3>1. v # u
      BY <2>0, <2>1
    <3>2. shadowPod[Mark[v]] = [state |-> "alive", owner |-> v]
      BY <1>0, <1>3, <2>1, <3>1 DEF PodsOwned
    <3>3. shadowPod[Mark[u]] = [state |-> "alive", owner |-> u]
      BY <1>0, <1>3, <2>0 DEF PodsOwned
    <3>4. Mark[v] # Mark[u]
      BY <3>1, <3>2, <3>3
    <3>. QED
      BY <1>0, <2>0, <3>2, <3>4
  <2>2. ASSUME NEW m \in Users, shadowPod'[m].state # "absent"
        PROVE  /\ shadowPod'[m].owner \in Users /\ Mark[shadowPod'[m].owner] = m
               /\ shadowPod'[m].state = "alive" <=> pc'[shadowPod'[m].owner] \notin Ended
               /\ Stored(shadowPod[m].owner, "shadow")'
    <3>1. CASE m = Mark[u]
      BY <1>3, <2>0, <3>1 DEF Stored
    <3>2. CASE m # Mark[u]
      <4>1. shadowPod'[m] = shadowPod[m]
        BY <2>0, <3>2
      <4>2. /\ shadowPod[m].owner \in Users /\ Mark[shadowPod[m].owner] = m
            /\ shadowPod[m].state = "alive" <=> pc[shadowPod[m].owner] \notin Ended
            /\ Stored(shadowPod[m].owner, "shadow")
        BY <1>0, <2>2, <4>1 DEF PodsOwned
      <4>3. shadowPod[m].owner # u
        BY <3>2, <4>2
      <4>. QED
        BY <1>3, <4>1, <4>2, <4>3 DEF Stored
    <3>. QED
      BY <3>1, <3>2
  <2>3. ASSUME NEW v \in Users, Mode[v] = "mesh",
               pc'[v] \in {"stuntman", "shadowSvc", "select", "selectPut", "shadow"} \cup BeforeStored
        PROVE  shadowPod'[Mark[v]].state = "absent"
    <3>1. pc'[v] \in Busy
      BY <2>3 DEF Busy, SetupStates, BeforeStored
    <3>2. v # u /\ v \in Users \ {u}
      BY <2>0, <3>1, BusyStates
    <3>. QED
      BY <1>0, <1>3, <2>0, <3>1, <3>2 DEF Turns
  <2>. QED
    BY <2>1, <2>2, <2>3 DEF PodsOwned
<1>4. ASSUME NEW m \in Users,
             /\ shadowPod[m].state = "terminating" /\ shadowPod'[m].state = "absent"
             /\ shadowPod' = [shadowPod EXCEPT ![m] = shadowPod'[m]]
             /\ UNCHANGED <<pc, store>>
      PROVE  PodsOwned'
  <2>0. \A n \in Users \ {m} : shadowPod'[n] = shadowPod[n]
    BY <1>0, <1>4 DEF TypeOK
  <2>1. ASSUME NEW v \in Users, Stored(v, "shadow")', pc'[v] \notin Ended
        PROVE  shadowPod'[Mark[v]] = [state |-> "alive", owner |-> v]
    <3>1. shadowPod[Mark[v]] = [state |-> "alive", owner |-> v]
      BY <1>0, <1>4, <2>1 DEF PodsOwned, Stored
    <3>2. Mark[v] # m
      BY <1>4, <3>1
    <3>. QED
      BY <1>0, <2>0, <3>1, <3>2
  <2>2. ASSUME NEW n \in Users, shadowPod'[n].state # "absent"
        PROVE  /\ shadowPod'[n].owner \in Users /\ Mark[shadowPod'[n].owner] = n
               /\ shadowPod'[n].state = "alive" <=> pc'[shadowPod'[n].owner] \notin Ended
               /\ Stored(shadowPod[n].owner, "shadow")'
    BY <1>0, <1>4, <2>0, <2>2 DEF PodsOwned, Stored
  <2>3. ASSUME NEW v \in Users, Mode[v] = "mesh",
               pc'[v] \in {"stuntman", "shadowSvc", "select", "selectPut", "shadow"} \cup BeforeStored
        PROVE  shadowPod'[Mark[v]].state = "absent"
    BY <1>0, <1>4, <1>v, <2>0, <2>3
  <2>. QED
    BY <2>1, <2>2, <2>3 DEF PodsOwned
<1>. QED
  BY <1>1, <1>2, <1>3, <1>4, PodSteps

\* How the shadow services change, and who stops to own one.
LEMMA SvcSteps ==
  ASSUME CalmState, Next
  PROVE  \/ /\ shadowSvc' = shadowSvc
            /\ \A v \in Users : Stored(v, "service") => Stored(v, "service")'
            /\ \A v \in Users : pc'[v] \in {"dropShadow"} \cup Ended =>
                 pc[v] \in {"dropShadow"} \cup Ended \/ ~Stored(v, "service")
         \/ \E u \in Users :
              /\ shadowSvc' = [shadowSvc EXCEPT ![Mark[u]] = u] /\ Stored(u, "service")' /\ pc'[u] = "router"
              /\ \A v \in Users \ {u} : pc'[v] = pc[v] /\ store'[v] = store[v]
         \/ \E u \in Users :
              /\ shadowSvc' = [shadowSvc EXCEPT ![Mark[u]] = NoUser] /\ UNCHANGED store
              /\ \A v \in Users \ {u} : pc'[v] = pc[v]
<1> DEFINE Same == /\ shadowSvc' = shadowSvc
                   /\ \A v \in Users : Stored(v, "service") => Stored(v, "service")'
                   /\ \A v \in Users : pc'[v] \in {"dropShadow"} \cup Ended =>
                        pc[v] \in {"dropShadow"} \cup Ended \/ ~Stored(v, "service")
<1>0. /\ TypeOK /\ ~Fails /\ CalmStep /\ StorePhases
      /\ \A u \in Users : Mode[u] \in {"mesh", "exchange"} /\ Mark[u] \in Users
  BY CalmSteps, ConstantsAssumption DEF CalmState, CalmInv, IInv, ConstantsAssumption
<1>a. ASSUME NEW u \in Users,
             LockService(u) \/ LockFails(u) \/ Setup(u) \/ Quit(u) \/ CleanupWorkspace(u),
             shadowSvc' = shadowSvc, Stored(u, "service") => Stored(u, "service")',
             pc'[u] \in {"dropShadow"} \cup Ended => pc[u] \in {"dropShadow"} \cup Ended \/ ~Stored(u, "service")
      PROVE  Same
  BY <1>0, <1>a, OthersKept DEF Stored
<1>1. ASSUME NEW u \in Users, LockService(u) \/ LockFails(u) \/ Quit(u) \/ UnlockService(u) PROVE Same
  <2>1. shadowSvc' = shadowSvc /\ store' = store
    BY <1>1 DEF LockService, LockFails, Quit, UnlockService, shadows, process
  <2>2. pc'[u] \in {"dropShadow"} \cup Ended => pc[u] = "idle"
    BY <1>0, <1>1 DEF LockService, LockFails, Quit, UnlockService, Goto, TypeOK, Ended
  <2>3. pc[u] = "idle" => ~Stored(u, "service")
    BY <1>0 DEF StorePhases, StorePhase, Stored
  <2>. QED
    BY <1>1, <1>a, <2>1, <2>2, <2>3 DEF Setup, Stored
<1>2. ASSUME NEW u \in Users, ~CreateShadowService(u),
             AutoMesh(u) \/ UpdateServiceSelector(u) \/ UpdateServiceSelectorPut(u) \/ CreateShadow(u)
      PROVE Same
  <2>1. shadowSvc' = shadowSvc
    BY <1>2 DEF AutoMesh, IsNameUsable, CreateStuntmanService, GetRouter, CreateRouter,
       SetupRouter, IncreasePodRef, IncreasePodRefPut, AddRoute, UpdateServiceSelector, UpdateServiceSelectorPut,
       CreateShadow, shadows
  <2>2. store[u] \subseteq store'[u]
    BY <1>0, <1>2 DEF AutoMesh, IsNameUsable, CreateStuntmanService, GetRouter, CreateRouter,
       SetupRouter, IncreasePodRef, IncreasePodRefPut, AddRoute, UpdateServiceSelector, UpdateServiceSelectorPut,
       CreateShadow, Redirected, Store, process, TypeOK
  <2>3. pc'[u] \in SetupStates
    BY <1>0, <1>2, Phases
  <2>4. pc'[u] \notin {"dropShadow"} \cup Ended
    BY <2>3 DEF SetupStates, Ended
  <2>. QED
    BY <1>2, <1>a, <2>1, <2>2, <2>4 DEF Setup, Stored
<1>3. ASSUME NEW u \in Users, CleanupWorkspace(u), ~CleanService(u) PROVE Same
  <2>1. shadowSvc' = shadowSvc /\ store' = store
    BY <1>3 DEF CleanupWorkspace, RecoverRoute, DecreasePodRef, DecreasePodRefPut, RemoveRoute,
       RecoverOriginalService, RecoverOriginalServicePut, RemoveStuntman, RemoveRouter, CleanShadow, shadows, process
  <2>2. pc'[u] \in {"dropShadow"} \cup Ended => pc[u] = "dropShadow" \/ Mode[u] = "exchange"
    BY <1>0, <1>3 DEF CleanupWorkspace, RecoverRoute, DecreasePodRef, DecreasePodRefPut, RemoveRoute,
       RecoverOriginalService, RecoverOriginalServicePut, RemoveStuntman, RemoveRouter, CleanShadow, Goto, TypeOK, Ended
  <2>3. pc[u] \in TeardownStates
    BY <1>0, <1>3, Phases
  <2>4. Mode[u] = "exchange" => ~Stored(u, "service")
    BY <1>0, <2>3 DEF StorePhases, StorePhase, Stored
  <2>. QED
    BY <1>3, <1>a, <2>1, <2>2, <2>4 DEF Stored
<1>4. CASE Beside
  BY <1>4, Background DEF Stored
<1>5. ASSUME NEW u \in Users, CreateShadowService(u)
      PROVE  /\ shadowSvc' = [shadowSvc EXCEPT ![Mark[u]] = u] /\ Stored(u, "service")' /\ pc'[u] = "router"
             /\ \A v \in Users \ {u} : pc'[v] = pc[v] /\ store'[v] = store[v]
  <2>1. shadowSvc[Mark[u]] = NoUser
    BY <1>5, Finds DEF CreateShadowService
  <2>2. shadowSvc' = [shadowSvc EXCEPT ![Mark[u]] = u] /\ Stored(u, "service")' /\ pc'[u] = "router"
    BY <1>0, <1>5, <2>1 DEF CreateShadowService, Store, Stored, Goto, TypeOK
  <2>. QED
    BY <1>0, <1>5, <2>2, OthersKept DEF Setup, AutoMesh
<1>6. ASSUME NEW u \in Users, CleanService(u)
      PROVE  \/ Same
             \/ /\ shadowSvc' = [shadowSvc EXCEPT ![Mark[u]] = NoUser] /\ UNCHANGED store
                /\ \A v \in Users \ {u} : pc'[v] = pc[v]
  <2>1. UNCHANGED store /\ \A v \in Users \ {u} : pc'[v] = pc[v]
    BY <1>0, <1>6, OthersKept DEF CleanupWorkspace, CleanService, process
  <2>2. CASE ~Stored(u, "service")
    BY <1>0, <1>6, <1>a, <2>1, <2>2 DEF CleanService, CleanupWorkspace, Stored
  <2>3. CASE Stored(u, "service")
    BY <1>0, <1>6, <2>1, <2>3 DEF CleanService
  <2>. QED
    BY <2>2, <2>3
<1>. QED
  BY <1>0, <1>1, <1>2, <1>3, <1>4, <1>5, <1>6 DEF CalmStep, Setup, AutoMesh, CleanupWorkspace, Beside

LEMMA SvcsOwnedKept ==
  ASSUME CalmState, Next
  PROVE  SvcsOwned'
<1>0. /\ TypeOK /\ SvcsOwned /\ CalmStep
      /\ NoUser \notin Users /\ \A u \in Users : Mark[u] \in Users
  BY CalmSteps, ConstantsAssumption DEF CalmState, CalmInv, IInv, ConstantsAssumption
<1>e. \A v \in Users : pc'[v] \notin Ended => pc[v] \notin Ended
  BY <1>0, EndedStays
<1> SUFFICES ASSUME NEW m \in Users, shadowSvc'[m] # NoUser
             PROVE  /\ Mark[shadowSvc'[m]] = m /\ Stored(shadowSvc[m], "service")'
                    /\ pc'[shadowSvc'[m]] \notin {"dropShadow"} \cup Ended
  BY DEF SvcsOwned
<1>1. CASE /\ shadowSvc' = shadowSvc
           /\ \A v \in Users : Stored(v, "service") => Stored(v, "service")'
           /\ \A v \in Users : pc'[v] \in {"dropShadow"} \cup Ended =>
                pc[v] \in {"dropShadow"} \cup Ended \/ ~Stored(v, "service")
  <2>1. shadowSvc[m] \in Users /\ Mark[shadowSvc[m]] = m /\ Stored(shadowSvc[m], "service")
        /\ pc[shadowSvc[m]] \notin {"dropShadow"} \cup Ended
    BY <1>0, <1>1 DEF SvcsOwned, TypeOK
  <2>. QED
    BY <1>1, <2>1 DEF Stored
<1>2. ASSUME NEW u \in Users,
             /\ shadowSvc' = [shadowSvc EXCEPT ![Mark[u]] = u] /\ Stored(u, "service")' /\ pc'[u] = "router"
             /\ \A v \in Users \ {u} : pc'[v] = pc[v] /\ store'[v] = store[v]
      PROVE  /\ Mark[shadowSvc'[m]] = m /\ Stored(shadowSvc[m], "service")'
             /\ pc'[shadowSvc'[m]] \notin {"dropShadow"} \cup Ended
  <2>1. CASE m = Mark[u]
    <3>1. shadowSvc'[m] = u
      BY <1>0, <1>2, <2>1 DEF TypeOK
    <3>. QED
      BY <1>2, <2>1, <3>1 DEF Stored, Ended
  <2>2. CASE m # Mark[u]
    <3>1. shadowSvc'[m] = shadowSvc[m]
      BY <1>0, <1>2, <2>2 DEF TypeOK
    <3>2. /\ shadowSvc[m] \in Users /\ Mark[shadowSvc[m]] = m /\ Stored(shadowSvc[m], "service")
          /\ pc[shadowSvc[m]] \notin {"dropShadow"} \cup Ended
      BY <1>0, <3>1 DEF SvcsOwned, TypeOK
    <3>. QED
      BY <1>2, <2>2, <3>1, <3>2 DEF Stored
  <2>. QED
    BY <2>1, <2>2
<1>3. ASSUME NEW u \in Users,
             /\ shadowSvc' = [shadowSvc EXCEPT ![Mark[u]] = NoUser] /\ UNCHANGED store
             /\ \A v \in Users \ {u} : pc'[v] = pc[v]
      PROVE  /\ Mark[shadowSvc'[m]] = m /\ Stored(shadowSvc[m], "service")'
             /\ pc'[shadowSvc'[m]] \notin {"dropShadow"} \cup Ended
  <2>1. m # Mark[u] /\ shadowSvc'[m] = shadowSvc[m]
    BY <1>0, <1>3 DEF TypeOK
  <2>2. /\ shadowSvc[m] \in Users /\ Mark[shadowSvc[m]] = m /\ Stored(shadowSvc[m], "service")
        /\ pc[shadowSvc[m]] \notin {"dropShadow"} \cup Ended
    BY <1>0, <2>1 DEF SvcsOwned, TypeOK
  <2>. QED
    BY <1>3, <2>1, <2>2 DEF Stored
<1>. QED
  BY <1>1, <1>2, <1>3, SvcSteps

\* A session that holds something while no process is on its way is told to be ready.
LEMMA HoldersRun ==
  ASSUME CalmState, NEW v \in Users
  PROVE  /\ Holds(v) /\ pc[v] \notin Busy => pc[v] = "running" /\ ann = Original
         /\ pc[v] \in {"unlock", "running"} \/ (Mode[v] = "mesh" /\ pc[v] = "shadow") => Holds(v)
         /\ Counted(v) /\ pc[v] \notin {"setup", "add"} => Stored(v, "router")
         /\ Exchanges(v) => Stored(v, "shadow")
<1>0. /\ TypeOK /\ StorePhases /\ Redirection
      /\ Mode[v] \in {"mesh", "exchange"}
  BY ConstantsAssumption DEF CalmState, CalmInv, IInv, ConstantsAssumption
<1>1. ASSUME Holds(v), pc[v] \notin Busy PROVE pc[v] = "running" /\ ann = Original
  <2>1. pc[v] \in {"idle", "running"} \cup Ended
    BY <1>0, <1>1, BusyStates DEF TypeOK
  <2>2. store[v] # {} /\ pc[v] \notin Ended
    <3>1. "setup" \in Busy /\ "add" \in Busy
      BY BusyStates
    <3>. QED
      BY <1>1, <3>1 DEF Holds, Counted, Exchanges, Stored
  <2>3. pc[v] = "running"
    BY <1>0, <2>1, <2>2 DEF StorePhases, StorePhase
  <2>. QED
    BY <1>0, <2>3 DEF Redirection
<1>2. ASSUME pc[v] \in {"unlock", "running"} \/ (Mode[v] = "mesh" /\ pc[v] = "shadow") PROVE Holds(v)
  BY <1>0, <1>2 DEF StorePhases, StorePhase, Stored, Holds, Counted, Exchanges, Ended, Fields
<1>3. Counted(v) /\ pc[v] \notin {"setup", "add"} => Stored(v, "router")
  BY DEF Counted
<1>4. ASSUME Exchanges(v) PROVE Stored(v, "shadow")
  <2>1. pc[v] \in States \ ({"dropShadow"} \cup Ended)
    BY <1>0, <1>4 DEF Exchanges, TypeOK
  <2>. QED
    BY <1>0, <1>4, <2>1 DEF StorePhases, StorePhase, Stored, Exchanges, States, SetupStates, TeardownStates, BeforeStored
<1>. QED
  BY <1>1, <1>2, <1>3, <1>4

\* A watcher acts for a session that has its redirection, and its fix keeps the annotation.
LEMMA WatcherActs ==
  ASSUME CalmState, ~Fails, NEW v \in Users, FixService(v)
  PROVE  /\ pc[v] \in {"shadow", "unlock", "running"}
         /\ Holds(v) /\ ann = Original /\ ann' = ann
         /\ (sel' = sel /\ svcFresh' = svcFresh) \/ sel' = Target(v)
         /\ Mode[v] = "mesh" => Counted(v) /\ Stored(v, "router")
         /\ Mode[v] = "exchange" => Exchanges(v)
<1>0. /\ TypeOK /\ StorePhases /\ Redirection /\ WatchersKnowOriginal /\ Calm
      /\ Mode[v] \in {"mesh", "exchange"}
  BY ConstantsAssumption DEF CalmState, CalmInv, IInv, ConstantsAssumption
<1>1. pc[v] \in {"shadow", "unlock", "running"} /\ Stored(v, "origin") /\ recorded[v] = Original
  BY <1>0 DEF FixService, Calm, Redirection, WatchersKnowOriginal
<1>2. Mode[v] = "mesh" \/ pc[v] # "shadow"
  BY <1>0, <1>1 DEF StorePhases, StorePhase, Stored
<1>3. Holds(v) /\ ann = Original
  BY <1>0, <1>1, <1>2, HoldersRun DEF Redirection
<1>4. /\ Mode[v] = "mesh" => Counted(v) /\ Stored(v, "router")
      /\ Mode[v] = "exchange" => Exchanges(v)
  BY <1>1, <1>3, HoldersRun DEF Holds, Counted, Exchanges
<1>5. ann' = ann /\ ((sel' = sel /\ svcFresh' = svcFresh) \/ sel' = Target(v))
  BY <1>1, <1>3 DEF FixService, Write, service
<1>. QED
  BY <1>1, <1>3, <1>4, <1>5

\* The steps that leave the router as it is, ...
Apart(u) ==
  \/ LockService(u) \/ LockFails(u) \/ Quit(u) \/ UnlockService(u) \/ IsNameUsable(u) \/ CreateStuntmanService(u)
  \/ CreateShadowService(u) \/ GetRouter(u) \/ UpdateServiceSelector(u) \/ UpdateServiceSelectorPut(u) \/ CreateShadow(u)
  \/ RecoverRoute(u) \/ RecoverOriginalService(u) \/ RecoverOriginalServicePut(u) \/ RemoveStuntman(u)
  \/ CleanService(u) \/ CleanShadow(u)

\* ... also leave as it is who is counted.
LEMMA ApartCounts ==
  ASSUME CalmState, Next, NEW u \in Users, Apart(u) \/ IncreasePodRef(u) \/ DecreasePodRef(u)
  PROVE  Counted(u)' = Counted(u)
<1>0. /\ TypeOK /\ ~Fails /\ StorePhases /\ routerLost = {} /\ "slowPods" \notin allowed
      /\ Mode[u] \in {"mesh", "exchange"}
  BY CalmSteps, ConstantsAssumption DEF CalmState, CalmInv, IInv, Calm, ConstantsAssumption
<1>1. CASE Mode[u] = "exchange"
  BY <1>1 DEF Counted
<1>2. CASE Mode[u] = "mesh"
  <2> USE DEF Goto, Store, TypeOK, Counted, Stored, process
  <2>1. CASE LockService(u) \/ LockFails(u) \/ Quit(u) \/ UnlockService(u)
    BY <1>0, <1>2, <2>1 DEF LockService, LockFails, Quit, UnlockService, Ended, StorePhases, StorePhase
  <2>2. CASE IsNameUsable(u) \/ CreateStuntmanService(u) \/ CreateShadowService(u)
    BY <1>0, <1>2, <2>2 DEF IsNameUsable, CreateStuntmanService, CreateShadowService, Ended, StorePhases, StorePhase
  <2>3. CASE GetRouter(u) \/ IncreasePodRef(u)
    BY <1>0, <1>2, <2>3 DEF GetRouter, IncreasePodRef, Ended, StorePhases, StorePhase, BeforeStored
  <2>4. CASE UpdateServiceSelector(u) \/ UpdateServiceSelectorPut(u) \/ CreateShadow(u)
    BY <1>0, <1>2, <2>4 DEF UpdateServiceSelector, UpdateServiceSelectorPut, CreateShadow, Redirected, Ended
  <2>5. CASE RecoverRoute(u)
    BY <1>0, <1>2, <2>5, Finds DEF RecoverRoute, Ended
  <2>6. CASE DecreasePodRef(u)
    BY <1>0, <1>2, <2>6, Finds DEF DecreasePodRef, Ended, StorePhases, StorePhase
  <2>7. CASE RecoverOriginalService(u) \/ RecoverOriginalServicePut(u) \/ RemoveStuntman(u)
    BY <1>0, <1>2, <2>7 DEF RecoverOriginalService, RecoverOriginalServicePut, RemoveStuntman, Ended
  <2>8. CASE CleanService(u) \/ CleanShadow(u)
    BY <1>0, <1>2, <2>8 DEF CleanService, CleanShadow, Ended
  <2>. QED
    BY <2>1, <2>2, <2>3, <2>4, <2>5, <2>6, <2>7, <2>8 DEF Apart
<1>. QED
  BY <1>0, <1>1, <1>2

\* A living router has a session that is at rest, unless it belongs to the one on its way.
LEMMA RouterKnown ==
  ASSUME CalmState, NEW u \in Users, pc[u] \in Busy, ~Counted(u), routerState = "alive"
  PROVE  confHeader # NoUser /\ \E v \in Users \ {u} : Counted(v) /\ Stored(v, "router") /\ pc[v] = "running"
<1>0. TypeOK /\ Turns /\ RouterShared
  BY DEF CalmState, CalmInv, IInv
<1>1. PICK v \in Users : Counted(v)
  BY <1>0 DEF RouterShared, CountedUsers
<1>2. v # u /\ pc[v] \notin Busy
  BY <1>0, <1>1 DEF Turns
<1>3. pc[v] = "running" /\ Stored(v, "router")
  BY <1>1, <1>2, HoldersRun, BusyStates DEF Holds
<1>. QED
  BY <1>0, <1>1, <1>2, <1>3 DEF RouterShared, RouterServes

LEMMA ApartRouter ==
  ASSUME CalmState, Next, NEW u \in Users, Apart(u)
  PROVE  RouterShared'
<1>0. /\ TypeOK /\ ~Fails /\ RouterShared /\ StorePhases /\ CalmStep /\ "slowPods" \notin allowed
      /\ Mode[u] \in {"mesh", "exchange"}
  BY CalmSteps, ConstantsAssumption DEF CalmState, CalmInv, IInv, Calm, ConstantsAssumption
<1>1. UNCHANGED router
  BY DEF Apart, LockService, LockFails, Quit, UnlockService, IsNameUsable, CreateStuntmanService, CreateShadowService,
     GetRouter, UpdateServiceSelector, UpdateServiceSelectorPut, CreateShadow, RecoverRoute, RecoverOriginalService,
     RecoverOriginalServicePut, RemoveStuntman, CleanService, CleanShadow
<1>2. LockService(u) \/ LockFails(u) \/ Setup(u) \/ Quit(u) \/ CleanupWorkspace(u)
  BY DEF Apart, Setup, AutoMesh, CleanupWorkspace
<1>3. \A v \in Users : Counted(v)' = Counted(v)
  BY <1>0, <1>2, ApartCounts, OthersKept
<1>4. CountedUsers' = CountedUsers
  BY <1>3 DEF CountedUsers
<1>5. ASSUME NEW v \in Users \ {u} PROVE RouterServes(v)'
  <2>1. RouterServes(v) /\ pc'[v] = pc[v] /\ store'[v] = store[v] /\ label'[v] = label[v]
    BY <1>0, <1>2, OthersKept DEF RouterShared
  <2>. QED
    BY <1>1, <1>3, <2>1 DEF RouterServes, LastRef, router, Stored
<1>6. RouterServes(u)'
  <2>0. RouterServes(u)
    BY <1>0 DEF RouterShared
  <2>1. CASE GetRouter(u)
    <3>1. pc[u] = "router" /\ ~Counted(u)
      <4>1. pc[u] = "router" /\ ~Stored(u, "router")
        BY <1>0, <2>1 DEF GetRouter, StorePhases, StorePhase, BeforeStored, Stored
      <4>. QED
        BY <4>1 DEF Counted
    <3>2. routerState = "alive" => confHeader # NoUser
      BY <3>1, RouterKnown, BusyStates
    <3>3. \/ routerState = "absent" /\ pc'[u] = "newRouter"
          \/ routerState = "alive" /\ pc'[u] = "increase" /\ label'[u] = routerTarget
      BY <1>0, <2>1 DEF GetRouter, Goto, TypeOK
    <3>. QED
      BY <1>1, <1>3, <3>1, <3>2, <3>3 DEF RouterServes, router
  <2>2. CASE ~GetRouter(u)
    <3>1. label' = label
      BY <2>2 DEF Apart, LockService, LockFails, Quit, UnlockService, IsNameUsable, CreateStuntmanService, CreateShadowService,
         UpdateServiceSelector, UpdateServiceSelectorPut, CreateShadow, RecoverRoute, RecoverOriginalService,
         RecoverOriginalServicePut, RemoveStuntman, CleanService, CleanShadow, process
    <3>2. pc'[u] \notin {"increase", "increasePut", "newRouter", "decreasePut", "add", "setup"}
      BY <1>0, <2>2 DEF Apart, LockService, LockFails, Quit, UnlockService, IsNameUsable, CreateStuntmanService, CreateShadowService,
         UpdateServiceSelector, UpdateServiceSelectorPut, CreateShadow, RecoverRoute, RecoverOriginalService,
         RecoverOriginalServicePut, RemoveStuntman, CleanService, CleanShadow, Goto, Redirected, TypeOK
    <3>3. Counted(u)' => Stored(u, "router")
      <4>1. CASE pc[u] \in {"setup", "add"}
        BY <4>1 DEF Apart, LockService, LockFails, Quit, UnlockService, IsNameUsable, CreateStuntmanService, CreateShadowService,
         GetRouter, UpdateServiceSelector, UpdateServiceSelectorPut, CreateShadow, RecoverRoute, RecoverOriginalService,
         RecoverOriginalServicePut, RemoveStuntman, CleanService, CleanShadow
      <4>. QED
        BY <1>3, <4>1, HoldersRun
    <3>. QED
      BY <1>1, <1>3, <2>0, <3>1, <3>2, <3>3 DEF RouterServes, router
  <2>. QED
    BY <2>1, <2>2
<1>. QED
  BY <1>0, <1>1, <1>4, <1>5, <1>6 DEF RouterShared, router

\* What the others find stays, where a step keeps the router's life and their versions.
LEMMA OthersServed ==
  ASSUME TypeOK, RouterShared, NEW u \in Users,
         LockService(u) \/ LockFails(u) \/ Setup(u) \/ Quit(u) \/ CleanupWorkspace(u),
         NEW v \in Users \ {u}, pc[v] \notin Busy,
         Counted(v) => routerState' = "alive" /\ UNCHANGED <<routerTarget, confHeader>>
                       /\ routes'[Mark[v]] > 0
  PROVE  RouterServes(v)'
<1>1. RouterServes(v) /\ pc'[v] = pc[v] /\ store'[v] = store[v] /\ label'[v] = label[v] /\ Counted(v)' = Counted(v)
  BY OthersKept DEF RouterShared
<1>2. pc[v] \notin {"increase", "increasePut", "newRouter", "decreasePut", "add", "setup"}
  BY BusyStates
<1>. QED
  BY <1>1, <1>2 DEF RouterServes, Stored

\* Two counted sessions have different versions.
LEMMA VersionsDiffer ==
  ASSUME CalmState, NEW u \in Users, NEW v \in Users,
         Mark[u] = Mark[v],
         \A w \in {u, v} : Stored(w, "service") /\ pc[w] \notin {"dropShadow"} \cup Ended
  PROVE  u = v
BY DEF CalmState, IInv, OwnsShadowService

\* A counted session has noted its shadow service.
LEMMA CountedService ==
  ASSUME CalmState, NEW v \in Users, Counted(v)
  PROVE  Stored(v, "service") /\ pc[v] \notin {"dropShadow"} \cup Ended
<1>0. TypeOK /\ StorePhases
  BY DEF CalmState, CalmInv, IInv
<1>1. pc[v] \notin {"dropShadow"} \cup Ended /\ Mode[v] = "mesh"
  BY DEF Counted, Ended
<1>2. CASE pc[v] \in {"setup", "add"}
  BY <1>0, <1>1, <1>2 DEF StorePhases, StorePhase, BeforeStored, Stored
<1>3. CASE Stored(v, "router")
  <2>1. pc[v] \in States
    BY <1>0 DEF TypeOK
  <2>. QED
    BY <1>0, <1>1, <1>3, <2>1 DEF StorePhases, StorePhase, Stored, States, SetupStates, TeardownStates, BeforeStored, Fields
<1>. QED
  BY <1>1, <1>2, <1>3 DEF Counted

LEMMA RefRouter ==
  ASSUME CalmState, Next, NEW u \in Users, IncreasePodRef(u) \/ DecreasePodRef(u)
  PROVE  RouterShared'
<1>0. /\ TypeOK /\ ~Fails /\ RouterShared /\ Turns /\ StorePhases
  BY CalmSteps DEF CalmState, CalmInv, IInv
<1>1. /\ UNCHANGED <<routerState, routerTarget, refs, confHeader, routes, label, store>>
      /\ podFresh \subseteq podFresh'
  BY DEF IncreasePodRef, DecreasePodRef, process
<1>2. Setup(u) \/ CleanupWorkspace(u)
  BY DEF Setup, AutoMesh, CleanupWorkspace
<1>3. \A v \in Users : Counted(v)' = Counted(v)
  BY <1>0, <1>2, ApartCounts, OthersKept
<1>4. CountedUsers' = CountedUsers
  BY <1>3 DEF CountedUsers
<1>5. ASSUME NEW v \in Users \ {u} PROVE RouterServes(v)'
  <2>1. RouterServes(v) /\ pc'[v] = pc[v]
    BY <1>0, <1>2, OthersKept DEF RouterShared
  <2>. QED
    BY <1>1, <1>3, <2>1 DEF RouterServes, LastRef, Stored
<1>6. RouterServes(u)'
  <2>1. RouterServes(u)
    BY <1>0 DEF RouterShared
  <2>2. CASE IncreasePodRef(u)
    BY <1>0, <1>1, <1>3, <2>1, <2>2, Finds DEF IncreasePodRef, RouterServes, Goto, Stored, TypeOK
  <2>3. CASE DecreasePodRef(u)
    BY <1>0, <1>1, <1>3, <2>1, <2>3, Finds DEF DecreasePodRef, RouterServes, LastRef, Goto, Stored, TypeOK
  <2>. QED
    BY <2>2, <2>3
<1>. QED
  BY <1>0, <1>1, <1>4, <1>5, <1>6 DEF RouterShared

\* The first session creates the router, with one reference.
LEMMA NewRouter ==
  ASSUME CalmState, Next, NEW u \in Users, CreateRouter(u)
  PROVE  RouterShared'
<1>0. /\ TypeOK /\ ~Fails /\ RouterShared /\ Turns /\ StorePhases
  BY CalmSteps DEF CalmState, CalmInv, IInv
<1>1. pc[u] = "newRouter" /\ routerState = "absent"
  BY Finds DEF CreateRouter
<1>2. /\ routerState' = "alive" /\ routerTarget' = u /\ refs' = 1 /\ confHeader' = NoUser
      /\ label'[u] = u /\ pc'[u] = "setup" /\ UNCHANGED store
  BY <1>0, <1>1 DEF CreateRouter, Goto, TypeOK
<1>3. pc[u] \in Busy /\ Mode[u] = "mesh" /\ store[u] = {"service"}
  BY <1>0, <1>1, BusyStates DEF StorePhases, StorePhase, BeforeStored
<1>4. \A v \in Users : ~Counted(v)
  BY <1>0, <1>1 DEF RouterShared, RouterServes
<1>5. Counted(u)' /\ \A v \in Users \ {u} : ~Counted(v)'
  BY <1>0, <1>2, <1>3, <1>4, OthersKept DEF Counted, Setup, AutoMesh
<1>6. CountedUsers' = {u}
  BY <1>5 DEF CountedUsers
<1>7. IsFiniteSet(CountedUsers)' /\ Cardinality(CountedUsers') = 1
  BY <1>6, FS_Singleton
<1>8. ASSUME NEW v \in Users \ {u} PROVE RouterServes(v)'
  <2>1. pc[v] \notin Busy
    BY <1>0, <1>3, OthersRest
  <2>. QED
    BY <1>0, <1>4, <2>1, OthersServed DEF Setup, AutoMesh
<1>9. RouterServes(u)'
  BY <1>2, <1>3 DEF RouterServes, Stored
<1>. QED
  BY <1>2, <1>6, <1>7, <1>8, <1>9 DEF RouterShared

LEMMA RouterSetUp ==
  ASSUME CalmState, Next, NEW u \in Users, SetupRouter(u)
  PROVE  RouterShared'
<1>0. /\ TypeOK /\ ~Fails /\ RouterShared /\ Turns /\ StorePhases
      /\ NoUser \notin Users /\ Mark[u] \in Users /\ Header[u] \in Users
  BY CalmSteps, ConstantsAssumption DEF CalmState, CalmInv, IInv, ConstantsAssumption
<1>1. pc[u] = "setup" /\ routerState = "alive"
  BY Finds DEF SetupRouter
<1>2. /\ UNCHANGED <<routerState, routerTarget, refs, label>>
      /\ confHeader' = Header[u] /\ routes'[Mark[u]] = 1 /\ pc'[u] = "select" /\ store'[u] = store[u] \cup {"router"}
  BY <1>0, <1>1 DEF SetupRouter, ExecFails, ExecInRouter, Goto, Store, TypeOK
<1>3. pc[u] \in Busy /\ Mode[u] = "mesh" /\ Counted(u)
  BY <1>0, <1>1, BusyStates DEF StorePhases, StorePhase, BeforeStored, Counted
<1>4. \A v \in Users \ {u} : ~Counted(v)
  <2> SUFFICES ASSUME NEW v \in Users \ {u}, Counted(v) PROVE FALSE
    OBVIOUS
  <2>1. Stored(v, "router")
    BY <1>0, <1>3, OthersRest, HoldersRun, BusyStates
  <2>. QED
    BY <1>0, <1>1, <2>1 DEF RouterShared, RouterServes
<1>5. Counted(u)'
  BY <1>2, <1>3 DEF Counted, Stored, Ended
<1>6. CountedUsers' = CountedUsers
  BY <1>0, <1>3, <1>4, <1>5, OthersKept DEF CountedUsers, Setup, AutoMesh
<1>8. ASSUME NEW v \in Users \ {u} PROVE RouterServes(v)'
  <2>1. pc[v] \notin Busy
    BY <1>0, <1>3, OthersRest
  <2>. QED
    BY <1>0, <1>4, <2>1, OthersServed DEF Setup, AutoMesh
<1>9. RouterServes(u)'
  <2>1. label[u] = routerTarget
    BY <1>0, <1>3 DEF RouterShared, RouterServes
  <2>. QED
    BY <1>0, <1>1, <1>2, <1>3, <2>1 DEF RouterServes
<1>. QED
  BY <1>0, <1>2, <1>6, <1>8, <1>9 DEF RouterShared

\* A later session takes a reference.
LEMMA RefIncreased ==
  ASSUME CalmState, Next, NEW u \in Users, IncreasePodRefPut(u)
  PROVE  RouterShared'
<1>0. /\ TypeOK /\ ~Fails /\ RouterShared /\ Turns /\ StorePhases
  BY CalmSteps DEF CalmState, CalmInv, IInv
<1>1. pc[u] = "increasePut" /\ routerState = "alive" /\ u \in podFresh
  BY Finds DEF IncreasePodRefPut
<1>2. /\ UNCHANGED <<routerState, routerTarget, confHeader, routes, label, store>>
      /\ refs' = refs + 1 /\ pc'[u] = "add"
  BY <1>0, <1>1 DEF IncreasePodRefPut, Increased, Goto, TypeOK, process
<1>3. pc[u] \in Busy /\ Mode[u] = "mesh" /\ store[u] = {"service"}
  BY <1>0, <1>1, BusyStates DEF StorePhases, StorePhase, BeforeStored
<1>4. ~Counted(u) /\ Counted(u)'
  BY <1>1, <1>2, <1>3 DEF Counted, Stored
<1>5. u \notin CountedUsers
  BY <1>4 DEF CountedUsers
<1>6. CountedUsers' = CountedUsers \cup {u}
  BY <1>0, <1>3, <1>4, OthersKept DEF CountedUsers, Setup, AutoMesh
<1>7. IsFiniteSet(CountedUsers)' /\ Cardinality(CountedUsers') = Cardinality(CountedUsers) + 1
  <2>1. IsFiniteSet(CountedUsers)
    BY <1>0 DEF RouterShared
  <2>. QED
    BY <1>5, <1>6, <2>1, FS_AddElement
<1>8. ASSUME NEW v \in Users \ {u} PROVE RouterServes(v)'
  <2>1. pc[v] \notin Busy
    BY <1>0, <1>3, OthersRest
  <2>2. Counted(v) => routes[Mark[v]] > 0
    BY <1>0, <2>1, HoldersRun, BusyStates DEF RouterShared, RouterServes
  <2>. QED
    BY <1>0, <1>1, <1>2, <2>1, <2>2, OthersServed DEF Setup, AutoMesh
<1>9. RouterServes(u)'
  <2>1. RouterServes(u)
    BY <1>0 DEF RouterShared
  <2>. QED
    BY <1>1, <1>2, <1>3, <2>1 DEF RouterServes, Stored
<1>10. refs = Cardinality(CountedUsers)
  BY <1>0, <1>1 DEF RouterShared
<1>. QED
  BY <1>2, <1>6, <1>7, <1>8, <1>9, <1>10 DEF RouterShared

LEMMA RouteAdded ==
  ASSUME CalmState, Next, NEW u \in Users, AddRoute(u)
  PROVE  RouterShared'
<1>0. /\ TypeOK /\ ~Fails /\ RouterShared /\ Turns /\ StorePhases
      /\ NoUser \notin Users /\ \A v \in Users : Mark[v] \in Users /\ Header[v] \in Users
  BY CalmSteps, ConstantsAssumption DEF CalmState, CalmInv, IInv, ConstantsAssumption
<1>1. pc[u] = "add" /\ routerState = "alive" /\ confHeader = Header[u]
  BY Finds DEF AddRoute
<1>2. /\ UNCHANGED <<routerState, routerTarget, confHeader, refs, label>>
      /\ routes' = [routes EXCEPT ![Mark[u]] = @ + 1]
      /\ pc'[u] = "select" /\ store'[u] = store[u] \cup {"router"}
  BY <1>0, <1>1 DEF AddRoute, ExecFails, ExecInRouter, Goto, Store, TypeOK, process
<1>3. pc[u] \in Busy /\ Mode[u] = "mesh" /\ Counted(u)
  BY <1>0, <1>1, BusyStates DEF StorePhases, StorePhase, BeforeStored, Counted
<1>4. Counted(u)'
  BY <1>2, <1>3 DEF Counted, Stored, Ended
<1>5. routes'[Mark[u]] > 0 /\ \A m \in Users : routes[m] > 0 => routes'[m] > 0
  BY <1>0, <1>2 DEF TypeOK
<1>6. CountedUsers' = CountedUsers
  BY <1>0, <1>3, <1>4, OthersKept DEF CountedUsers, Setup, AutoMesh
<1>8. ASSUME NEW v \in Users \ {u} PROVE RouterServes(v)'
  <2>1. pc[v] \notin Busy
    BY <1>0, <1>3, OthersRest
  <2>2. Counted(v) => routes[Mark[v]] > 0
    BY <1>0, <2>1, HoldersRun, BusyStates DEF RouterShared, RouterServes
  <2>3. Counted(v) => routes'[Mark[v]] > 0
    BY <1>0, <1>5, <2>2
  <2>. QED
    BY <1>0, <1>1, <1>2, <2>1, <2>3, OthersServed DEF Setup, AutoMesh
<1>9. RouterServes(u)'
  <2>1. label[u] = routerTarget
    BY <1>0, <1>3 DEF RouterShared, RouterServes
  <2>. QED
    BY <1>0, <1>1, <1>2, <1>3, <1>5, <2>1 DEF RouterServes
<1>. QED
  BY <1>0, <1>2, <1>6, <1>8, <1>9 DEF RouterShared

\* A session that is not the last gives its reference back.
LEMMA RefDecreased ==
  ASSUME CalmState, Next, NEW u \in Users, DecreasePodRefPut(u)
  PROVE  RouterShared' /\ \E v \in Users \ {u} : Counted(v) /\ Stored(v, "router")
<1>0. /\ TypeOK /\ ~Fails /\ RouterShared /\ Turns /\ StorePhases
  BY CalmSteps DEF CalmState, CalmInv, IInv
<1>1. pc[u] = "decreasePut" /\ u \in podFresh /\ Mode[u] = "mesh" /\ Stored(u, "router")
  BY <1>0, Finds DEF DecreasePodRefPut, StorePhases, StorePhase
<1>2. /\ UNCHANGED <<routerState, routerTarget, confHeader, routes, label, store>>
      /\ refs' = refs - 1 /\ pc'[u] = "removeRoute"
  BY <1>0, <1>1 DEF DecreasePodRefPut, Decreased, Goto, TypeOK, process
<1>3. pc[u] \in Busy /\ Counted(u) /\ ~Counted(u)'
  BY <1>1, <1>2, BusyStates DEF Counted, Ended
<1>4. routerState = "alive" /\ refs = Cardinality(CountedUsers) /\ IsFiniteSet(CountedUsers) /\ u \in CountedUsers
  BY <1>0, <1>3 DEF RouterShared, RouterServes, CountedUsers
<1>5. CountedUsers' = CountedUsers \ {u}
  BY <1>0, <1>3, OthersKept DEF CountedUsers, CleanupWorkspace
<1>6. IsFiniteSet(CountedUsers)' /\ Cardinality(CountedUsers') = Cardinality(CountedUsers) - 1
  BY <1>4, <1>5, FS_RemoveElement
<1>7. PICK v \in Users \ {u} : Counted(v)
  <2>1. ~LastRef
    BY <1>0, <1>1 DEF RouterShared, RouterServes
  <2>2. SUFFICES ASSUME CountedUsers \subseteq {u} PROVE FALSE
    BY DEF CountedUsers
  <2>3. CountedUsers = {u}
    BY <1>4, <2>2
  <2>. QED
    BY <1>4, <2>1, <2>3, FS_Singleton DEF LastRef
<1>8. Stored(v, "router") /\ CountedUsers' # {}
  <2>1. Stored(v, "router")
    BY <1>0, <1>3, <1>7, OthersRest, HoldersRun, BusyStates
  <2>. QED
    BY <1>5, <1>7, <2>1 DEF CountedUsers
<1>9. ASSUME NEW w \in Users \ {u} PROVE RouterServes(w)'
  <2>1. pc[w] \notin Busy
    BY <1>0, <1>3, OthersRest
  <2>2. Counted(w) => routes[Mark[w]] > 0
    BY <1>0, <2>1, HoldersRun, BusyStates DEF RouterShared, RouterServes
  <2>. QED
    BY <1>0, <1>2, <1>4, <2>1, <2>2, OthersServed DEF CleanupWorkspace
<1>10. RouterServes(u)'
  BY <1>2, <1>3 DEF RouterServes
<1>. QED
  BY <1>2, <1>4, <1>6, <1>7, <1>8, <1>9, <1>10 DEF RouterShared

LEMMA RouteRemoved ==
  ASSUME CalmState, Next, NEW u \in Users, RemoveRoute(u)
  PROVE  RouterShared'
<1>0. /\ TypeOK /\ ~Fails /\ RouterShared /\ Turns /\ StorePhases
      /\ \A v \in Users : Mark[v] \in Users
  BY CalmSteps, ConstantsAssumption DEF CalmState, CalmInv, IInv, ConstantsAssumption
<1>1. pc[u] = "removeRoute" /\ Mode[u] = "mesh" /\ Stored(u, "router")
  BY <1>0 DEF RemoveRoute, StorePhases, StorePhase
<1>2. /\ UNCHANGED <<routerState, routerTarget, confHeader, refs, label, store>> /\ pc'[u] = "dropSvc"
      /\ routes' = routes \/ routes' = [routes EXCEPT ![Mark[u]] = @ - 1]
  BY <1>0, <1>1 DEF RemoveRoute, Unrouted, Goto, TypeOK, process
<1>3. pc[u] \in Busy /\ ~Counted(u) /\ ~Counted(u)'
  BY <1>1, <1>2, BusyStates DEF Counted
<1>4. CountedUsers' = CountedUsers
  BY <1>0, <1>3, OthersKept DEF CountedUsers, CleanupWorkspace
<1>5. Stored(u, "service")
  BY <1>0, <1>1 DEF StorePhases, StorePhase, Stored, TeardownStates, Fields
<1>6. ASSUME NEW v \in Users \ {u} PROVE RouterServes(v)'
  <2>1. pc[v] \notin Busy
    BY <1>0, <1>3, OthersRest
  <2>2. Counted(v) => routerState = "alive" /\ routes[Mark[v]] > 0
    BY <1>0, <2>1, HoldersRun, BusyStates DEF RouterShared, RouterServes
  <2>3. Counted(v) => Mark[v] # Mark[u]
    BY <1>1, <1>5, CountedService, VersionsDiffer DEF Ended
  <2>4. Counted(v) => routes'[Mark[v]] > 0
    BY <1>0, <1>2, <2>2, <2>3 DEF TypeOK
  <2>. QED
    BY <1>0, <1>2, <2>1, <2>2, <2>4, OthersServed DEF CleanupWorkspace
<1>7. RouterServes(u)'
  BY <1>2, <1>3 DEF RouterServes
<1>. QED
  BY <1>0, <1>2, <1>4, <1>6, <1>7 DEF RouterShared

\* The last session removes the router.
LEMMA RouterRemoved ==
  ASSUME CalmState, Next, NEW u \in Users, RemoveRouter(u)
  PROVE  RouterShared' /\ routerState' = "terminating"
<1>0. /\ TypeOK /\ ~Fails /\ RouterShared /\ Turns /\ StorePhases /\ Exclusive
  BY CalmSteps DEF CalmState, CalmInv, IInv
<1>1. pc[u] = "dropRouter" /\ Mode[u] = "mesh" /\ Stored(u, "router") /\ routerState = "alive"
  BY <1>0, Finds DEF RemoveRouter, StorePhases, StorePhase
<1>2. UNCHANGED <<label, store>> /\ routerState' = "terminating" /\ pc'[u] = "dropSvc"
  BY <1>0, <1>1 DEF RemoveRouter, Goto, TypeOK, process
<1>3. pc[u] \in Busy /\ ~Counted(u)'
  BY <1>1, <1>2, BusyStates DEF Counted
<1>4. \A v \in Users \ {u} : ~Counted(v)
  BY <1>0, <1>1 DEF Exclusive, Holds
<1>5. CountedUsers' = {}
  BY <1>0, <1>3, <1>4, OthersKept DEF CountedUsers, CleanupWorkspace
<1>6. ASSUME NEW v \in Users \ {u} PROVE RouterServes(v)'
  <2>1. pc[v] \notin Busy
    BY <1>0, <1>3, OthersRest
  <2>. QED
    BY <1>0, <1>4, <2>1, OthersServed DEF CleanupWorkspace
<1>7. RouterServes(u)'
  BY <1>2, <1>3 DEF RouterServes
<1>. QED
  BY <1>2, <1>5, <1>6, <1>7, FS_EmptySet DEF RouterShared

\* A router that is gone was nobody's.
LEMMA RouterForgotten ==
  ASSUME CalmState, RouterGone
  PROVE  RouterShared'
<1>0. RouterShared
  BY DEF CalmState, CalmInv
<1>1. routerState = "terminating" /\ routerState' = "absent" /\ UNCHANGED <<pc, store, label>>
  BY DEF RouterGone, process
<1>2. \A v \in Users : /\ ~Counted(v) /\ ~Counted(v)'
                       /\ pc[v] \notin {"increase", "increasePut", "decreasePut", "add", "setup"}
  <2> TAKE v \in Users
  <2>1. ~Counted(v) /\ pc[v] \notin {"increase", "increasePut"}
    BY <1>0, <1>1 DEF RouterShared, RouterServes
  <2>2. pc[v] \notin {"decreasePut", "add", "setup"}
    BY <1>1, <2>1, Finds DEF CalmState, CalmInv, StorePhases, StorePhase, Counted
  <2>. QED
    BY <1>1, <2>1, <2>2 DEF Counted, Stored
<1>3. CountedUsers' = {}
  BY <1>2 DEF CountedUsers
<1>. QED
  BY <1>1, <1>2, <1>3, FS_EmptySet DEF RouterShared, RouterServes

LEMMA RouterSharedKept ==
  ASSUME CalmState, Next
  PROVE  RouterShared'
<1>0. TypeOK /\ CalmStep /\ RouterShared
  BY CalmSteps DEF CalmState, CalmInv, IInv
<1>1. ASSUME NEW u \in Users, LockService(u) \/ LockFails(u) \/ Setup(u) \/ Quit(u) \/ CleanupWorkspace(u)
      PROVE  RouterShared'
  <2>1. \/ Apart(u) \/ IncreasePodRef(u) \/ DecreasePodRef(u) \/ CreateRouter(u) \/ SetupRouter(u)
        \/ IncreasePodRefPut(u) \/ AddRoute(u) \/ DecreasePodRefPut(u) \/ RemoveRoute(u) \/ RemoveRouter(u)
    BY <1>1 DEF Apart, Setup, AutoMesh, CleanupWorkspace
  <2>. QED
    BY <2>1, ApartRouter, RefRouter, NewRouter, RouterSetUp, RefIncreased, RouteAdded, RefDecreased, RouteRemoved,
       RouterRemoved
<1>2. CASE (\E u \in Users : Watcher(u) \/ ShadowGone(u)) \/ Redeploy
  <2>1. UNCHANGED router
    BY <1>2 DEF Watcher, StartWatch, WatchService, FixService, ShadowGone, Redeploy
  <2>2. UNCHANGED <<pc, store, label>> /\ \A v \in Users : Counted(v)' = Counted(v)
    BY <1>2, Background DEF Beside
  <2>3. CountedUsers' = CountedUsers
    BY <2>2 DEF CountedUsers
  <2>. QED
    BY <1>0, <2>1, <2>2, <2>3 DEF RouterShared, RouterServes, LastRef, router, Stored
<1>3. CASE RouterGone
  BY <1>3, RouterForgotten
<1>. QED
  BY <1>0, <1>1, <1>2, <1>3 DEF CalmStep

\* Who comes to hold something.
LEMMA HoldsArise ==
  ASSUME CalmState, Next, NEW v \in Users
  PROVE  /\ Counted(v)' => Counted(v) \/ (Mode[v] = "mesh" /\ pc[v] \in {"newRouter", "increasePut"})
         /\ Exchanges(v)' => Exchanges(v) \/ (Mode[v] = "exchange" /\ pc[v] = "shadow")
<1> DEFINE Goal == /\ Counted(v)' => Counted(v) \/ (Mode[v] = "mesh" /\ pc[v] \in {"newRouter", "increasePut"})
                   /\ Exchanges(v)' => Exchanges(v) \/ (Mode[v] = "exchange" /\ pc[v] = "shadow")
<1>0. /\ TypeOK /\ ~Fails /\ CalmStep /\ StorePhases
      /\ Mode[v] \in {"mesh", "exchange"}
  BY CalmSteps, ConstantsAssumption DEF CalmState, CalmInv, IInv, ConstantsAssumption
<1>1. ASSUME NEW u \in Users, u # v, LockService(u) \/ LockFails(u) \/ Setup(u) \/ Quit(u) \/ CleanupWorkspace(u)
      PROVE  Goal
  BY <1>0, <1>1, OthersKept
<1>2. CASE Beside
  BY <1>2, Background
<1>3. ASSUME Mode[v] = "exchange",
             LockService(v) \/ LockFails(v) \/ Setup(v) \/ Quit(v) \/ CleanupWorkspace(v)
      PROVE  Goal
  <2>1. ~Counted(v)'
    BY <1>3 DEF Counted
  <2> USE DEF Goto, Store, TypeOK, Exchanges, Stored, process
  <2>2. CASE LockService(v) \/ LockFails(v) \/ Quit(v) \/ UnlockService(v)
    BY <1>0, <1>3, <2>1, <2>2 DEF LockService, LockFails, Quit, UnlockService, Ended
  <2>3. CASE AutoMesh(v)
    <3>1. pc[v] \in {"name", "stuntman", "shadowSvc"} \cup BeforeStored
      BY <2>3 DEF AutoMesh, IsNameUsable, CreateStuntmanService, CreateShadowService, GetRouter, CreateRouter,
         SetupRouter, IncreasePodRef, IncreasePodRefPut, AddRoute, BeforeStored
    <3>. QED
      BY <1>0, <1>3, <3>1 DEF StorePhases, StorePhase
  <2>4. CASE UpdateServiceSelector(v) \/ UpdateServiceSelectorPut(v)
    <3>1. Stored(v, "origin") /\ pc[v] \in {"select", "selectPut"}
      BY <1>0, <1>3, <2>4 DEF UpdateServiceSelector, UpdateServiceSelectorPut, StorePhases, StorePhase
    <3>. QED
      BY <1>3, <2>1, <3>1 DEF Ended
  <2>5. CASE CreateShadow(v)
    BY <1>3, <2>1, <2>5 DEF CreateShadow
  <2>6. CASE CleanupWorkspace(v)
    <3>1. store' = store /\ pc[v] \notin Ended
      BY <1>0, <2>6 DEF CleanupWorkspace, RecoverRoute, DecreasePodRef, DecreasePodRefPut, RemoveRoute,
       RecoverOriginalService, RecoverOriginalServicePut, RemoveStuntman, RemoveRouter, CleanService, CleanShadow, Ended
    <3>2. pc[v] = "dropShadow" => pc'[v] \in Ended
      BY <1>0, <2>6 DEF CleanupWorkspace, RecoverRoute, DecreasePodRef, DecreasePodRefPut, RemoveRoute,
       RecoverOriginalService, RecoverOriginalServicePut, RemoveStuntman, RemoveRouter, CleanService, CleanShadow, Ended
    <3>. QED
      BY <1>0, <1>3, <2>1, <3>1, <3>2
  <2>. QED
    BY <1>3, <2>2, <2>3, <2>4, <2>5, <2>6 DEF Setup
<1>4. ASSUME Mode[v] = "mesh",
             LockService(v) \/ LockFails(v) \/ Setup(v) \/ Quit(v) \/ CleanupWorkspace(v)
      PROVE  Goal
  <2>1. ~Exchanges(v)'
    BY <1>4 DEF Exchanges
  <2>2. CASE Apart(v) \/ IncreasePodRef(v) \/ DecreasePodRef(v)
    BY <2>1, <2>2, ApartCounts
  <2>3. CASE CreateRouter(v) \/ IncreasePodRefPut(v)
    BY <1>4, <2>1, <2>3 DEF CreateRouter, IncreasePodRefPut
  <2>4. CASE SetupRouter(v) \/ AddRoute(v)
    BY <1>4, <2>1, <2>4 DEF SetupRouter, AddRoute, Counted
  <2>5. CASE DecreasePodRefPut(v) \/ RemoveRoute(v) \/ RemoveRouter(v)
    <3>1. pc'[v] \in {"removeRoute", "dropSvc"}
      BY <1>0, <2>5 DEF DecreasePodRefPut, RemoveRoute, RemoveRouter, Goto, TypeOK
    <3>. QED
      BY <2>1, <3>1 DEF Counted
  <2>. QED
    BY <1>4, <2>2, <2>3, <2>4, <2>5 DEF Apart, Setup, AutoMesh, CleanupWorkspace
<1>. QED
  BY <1>0, <1>1, <1>2, <1>3, <1>4 DEF CalmStep, Beside

Recovering == {"recover", "recoverPut", "dropStuntman", "dropRouter"}

\* Who comes to recover the Service.
LEMMA RecoveryArises ==
  ASSUME CalmState, Next, NEW u \in Users, pc'[u] \in Recovering
  PROVE  \/ pc[u] \in Recovering
         \/ pc[u] = "decrease" /\ Counted(u) /\ LastRef
         \/ pc[u] = "down" /\ Exchanges(u)
<1>0. /\ TypeOK /\ ~Fails /\ CalmStep /\ StorePhases
      /\ Mode[u] \in {"mesh", "exchange"}
  BY CalmSteps, ConstantsAssumption DEF CalmState, CalmInv, IInv, ConstantsAssumption
<1>1. ASSUME NEW v \in Users, u # v, LockService(v) \/ LockFails(v) \/ Setup(v) \/ Quit(v) \/ CleanupWorkspace(v)
      PROVE  pc'[u] = pc[u]
  BY <1>0, <1>1, OthersKept
<1>2. CASE Beside
  BY <1>2, Background
<1>3. CASE LockService(u) \/ LockFails(u) \/ Setup(u) \/ Quit(u)
  <2>1. pc'[u] \in SetupStates \cup {"running", "down", "exited"}
    BY <1>0, <1>3, Phases DEF Setup, LockService, LockFails, Quit, Goto, TypeOK, SetupStates
  <2>. QED
    BY <2>1 DEF SetupStates, Recovering
<1>4. CASE RecoverRoute(u)
  BY <1>0, <1>4, Finds DEF RecoverRoute, Goto, TypeOK, Exchanges, Ended, Recovering
<1>5. CASE DecreasePodRef(u)
  <2>1. pc[u] = "decrease" /\ Counted(u)
    BY <1>0, <1>5 DEF DecreasePodRef, StorePhases, StorePhase, Counted, Ended
  <2>. QED
    BY <1>0, <1>5, <2>1 DEF DecreasePodRef, Goto, TypeOK, Recovering
<1>6. CASE CleanupWorkspace(u) /\ ~RecoverRoute(u) /\ ~DecreasePodRef(u)
  BY <1>0, <1>6 DEF CleanupWorkspace, DecreasePodRefPut, RemoveRoute, RecoverOriginalService,
     RecoverOriginalServicePut, RemoveStuntman, RemoveRouter, CleanService, CleanShadow, Goto, TypeOK, Recovering
<1>. QED
  BY <1>0, <1>1, <1>2, <1>3, <1>4, <1>5, <1>6 DEF CalmStep, Beside

\* A mesh session gets past the stuntman service only if nobody exchanges the Service.
LEMMA MeshJoins ==
  ASSUME CalmState, Next, NEW u \in Users, Mode[u] = "mesh", pc'[u] \in {"shadowSvc"} \cup BeforeStored
  PROVE  \/ pc[u] \in {"shadowSvc"} \cup BeforeStored
         \/ pc[u] = "stuntman" /\ (stuntman # None \/ ann = None)
<1>0. TypeOK /\ ~Fails /\ CalmStep /\ Redirection
  BY CalmSteps DEF CalmState, CalmInv, IInv
<1>1. ASSUME NEW v \in Users, u # v, LockService(v) \/ LockFails(v) \/ Setup(v) \/ Quit(v) \/ CleanupWorkspace(v)
      PROVE  pc'[u] = pc[u]
  BY <1>0, <1>1, OthersKept
<1>2. CASE Beside
  BY <1>2, Background
<1> USE DEF Goto, TypeOK, BeforeStored
<1>3. CASE LockService(u) \/ LockFails(u) \/ Quit(u) \/ UnlockService(u)
  BY <1>0, <1>3 DEF LockService, LockFails, Quit, UnlockService
<1>4. CASE IsNameUsable(u) \/ UpdateServiceSelector(u) \/ UpdateServiceSelectorPut(u) \/ CreateShadow(u)
  BY <1>0, <1>4 DEF IsNameUsable, UpdateServiceSelector, UpdateServiceSelectorPut, CreateShadow, Redirected
<1>5. CASE CreateStuntmanService(u)
  BY <1>0, <1>5 DEF CreateStuntmanService, Sane, Redirection
<1>6. CASE AutoMesh(u) /\ ~IsNameUsable(u) /\ ~CreateStuntmanService(u)
  BY <1>6 DEF AutoMesh, CreateShadowService, GetRouter, CreateRouter, SetupRouter, IncreasePodRef, IncreasePodRefPut,
     AddRoute
<1>7. CASE CleanupWorkspace(u)
  <2>1. pc'[u] \in TeardownStates \cup {"exited"}
    BY <1>0, <1>7, Phases
  <2>. QED
    BY <2>1 DEF TeardownStates
<1>. QED
  BY <1>0, <1>1, <1>2, <1>3, <1>4, <1>5, <1>6, <1>7 DEF CalmStep, Beside, Setup

LEMMA ExclusiveKept ==
  ASSUME CalmState, Next
  PROVE  Exclusive'
<1>0. /\ TypeOK /\ CalmStep /\ Turns /\ Exclusive /\ Redirection /\ RouterShared /\ StuntmanShared
  BY CalmSteps DEF CalmState, CalmInv, IInv
<1>b. "shadow" \in Busy /\ "down" \in Busy /\ "decrease" \in Busy /\ {"newRouter", "increasePut", "stuntman"} \subseteq Busy
      /\ Recovering \subseteq Busy /\ {"shadowSvc"} \cup BeforeStored \subseteq Busy
  BY BusyStates DEF Recovering, BeforeStored
<1>n. Original # None
  BY SelectorFacts
<1>1. ASSUME NEW u \in Users, NEW v \in Users \ {u}, Exchanges(u)', Holds(v)'
      PROVE  FALSE
  <2>1. CASE ~Exchanges(u)
    <3>1. Mode[u] = "exchange" /\ pc[u] = "shadow"
      BY <1>1, <2>1, HoldsArise
    <3>2. pc[v] \notin Busy /\ ann = None
      BY <1>0, <1>b, <3>1 DEF Turns, Redirection
    <3>3. Holds(v)
      BY <1>1, <1>b, <3>2, HoldsArise DEF Holds
    <3>. QED
      BY <1>n, <3>2, <3>3, HoldersRun
  <2>2. CASE Exchanges(u)
    <3>1. ~Holds(v)
      BY <1>0, <2>2 DEF Exclusive
    <3>2. \/ Mode[v] = "mesh" /\ pc[v] \in {"newRouter", "increasePut"}
          \/ Mode[v] = "exchange" /\ pc[v] = "shadow"
      BY <1>1, <3>1, HoldsArise DEF Holds
    <3>3. CASE Mode[v] = "mesh" /\ pc[v] \in {"newRouter", "increasePut"}
      BY <1>0, <2>2, <3>3 DEF Exclusive, BeforeStored
    <3>4. CASE Mode[v] = "exchange" /\ pc[v] = "shadow"
      <4>1. pc[u] \notin Busy /\ ann = None
        BY <1>0, <1>b, <3>4 DEF Turns, Redirection
      <4>. QED
        BY <1>n, <2>2, <4>1, HoldersRun DEF Holds
    <3>. QED
      BY <3>2, <3>3, <3>4
  <2>. QED
    BY <2>1, <2>2
<1>2. ASSUME NEW u \in Users, NEW v \in Users \ {u}, pc'[u] \in Recovering, Holds(v)'
      PROVE  FALSE
  <2>1. \/ pc[u] \in Recovering
        \/ pc[u] = "decrease" /\ Counted(u) /\ LastRef
        \/ pc[u] = "down" /\ Exchanges(u)
    BY <1>2, RecoveryArises
  <2>2. pc[v] \notin Busy
    BY <1>0, <1>b, <2>1 DEF Turns
  <2>3. Holds(v)
    BY <1>2, <1>b, <2>2, HoldsArise DEF Holds
  <2>4. CASE pc[u] \in Recovering \/ Exchanges(u)
    BY <1>0, <2>3, <2>4 DEF Exclusive, Recovering
  <2>5. CASE Counted(u) /\ LastRef
    <3>1. routerState = "alive"
      BY <1>0, <2>5 DEF RouterShared, RouterServes
    <3>2. IsFiniteSet(CountedUsers) /\ Cardinality(CountedUsers) = 1
      BY <1>0, <2>5, <3>1 DEF RouterShared, LastRef
    <3>3. PICK x : CountedUsers = {x}
      BY <3>2, FS_Singleton
    <3>4. ~Counted(v)
      BY <2>5, <3>3 DEF CountedUsers
    <3>5. Exchanges(v)
      BY <2>3, <3>4 DEF Holds
    <3>. QED
      BY <1>0, <2>5, <3>5 DEF Exclusive, Holds
  <2>. QED
    BY <2>1, <2>4, <2>5
<1>3. ASSUME NEW u \in Users, Mode[u] = "mesh", pc'[u] \in {"shadowSvc"} \cup BeforeStored, NEW v \in Users, Exchanges(v)'
      PROVE  FALSE
  <2>1. \/ pc[u] \in {"shadowSvc"} \cup BeforeStored
        \/ pc[u] = "stuntman" /\ (stuntman # None \/ ann = None)
    BY <1>3, MeshJoins
  <2>2. v # u /\ pc[v] \notin Busy
    BY <1>0, <1>b, <1>3, <2>1 DEF Turns, Exchanges
  <2>3. Exchanges(v)
    BY <1>3, <1>b, <2>2, HoldsArise
  <2>4. ann # None
    BY <1>n, <2>2, <2>3, HoldersRun DEF Holds
  <2>5. CASE pc[u] = "stuntman" /\ stuntman # None
    <3>1. PICK w \in Users : Meshes(w)
      BY <1>0, <2>5 DEF StuntmanShared
    <3>2. Counted(w)
      <4>1. CASE w = u
        BY <2>5, <3>1, <4>1 DEF Meshes, BeforeStored
      <4>2. CASE w # u
        BY <1>0, <1>b, <2>5, <3>1, <4>2 DEF Meshes, Turns
      <4>. QED
        BY <4>1, <4>2
    <3>3. w # v
      BY <2>3, <3>2 DEF Counted, Exchanges
    <3>. QED
      BY <1>0, <2>3, <3>2, <3>3 DEF Exclusive, Holds
  <2>. QED
    BY <1>0, <1>3, <2>1, <2>3, <2>4, <2>5 DEF Exclusive
<1>. QED
  BY <1>1, <1>2, <1>3 DEF Exclusive, Recovering

\* The stuntman service changes only when the first mesh session comes and the last goes.
LEMMA StuntmanSteps ==
  ASSUME CalmState, Next, NEW u \in Users,
         LockService(u) \/ LockFails(u) \/ Setup(u) \/ Quit(u) \/ CleanupWorkspace(u),
         ~CreateStuntmanService(u), ~RemoveStuntman(u), ~DecreasePodRefPut(u)
  PROVE  UNCHANGED stuntman /\ Meshes(u)' = Meshes(u)
<1>0. /\ TypeOK /\ ~Fails /\ StorePhases /\ routerLost = {} /\ "slowPods" \notin allowed
      /\ Mode[u] \in {"mesh", "exchange"}
  BY CalmSteps, ConstantsAssumption DEF CalmState, CalmInv, IInv, Calm, ConstantsAssumption
<1>1. UNCHANGED stuntman
  BY DEF LockService, LockFails, Setup, Quit, CleanupWorkspace, AutoMesh, IsNameUsable, CreateShadowService, GetRouter,
     CreateRouter, SetupRouter, IncreasePodRef, IncreasePodRefPut, AddRoute, UpdateServiceSelector,
     UpdateServiceSelectorPut, CreateShadow, UnlockService, RecoverRoute, DecreasePodRef, RemoveRoute,
     RecoverOriginalService, RecoverOriginalServicePut, RemoveRouter, CleanService, CleanShadow
<1> USE DEF Goto, Store, TypeOK, Meshes, BeforeStored
<1>2. CASE LockService(u) \/ LockFails(u) \/ Quit(u) \/ UnlockService(u)
  <2>1. Counted(u)' = Counted(u)
    BY <1>2, ApartCounts DEF Apart
  <2>. QED
    BY <1>0, <1>1, <1>2, <2>1 DEF LockService, LockFails, Quit, UnlockService
<1>3. CASE IsNameUsable(u) \/ CreateShadowService(u) \/ GetRouter(u)
  <2>1. Counted(u)' = Counted(u)
    BY <1>3, ApartCounts DEF Apart
  <2>2. Mode[u] = "mesh"
    BY <1>0, <1>3 DEF IsNameUsable, CreateShadowService, GetRouter, StorePhases, StorePhase
  <2>. QED
    BY <1>0, <1>1, <1>3, <2>1, <2>2, Finds DEF IsNameUsable, CreateShadowService, GetRouter
<1>4. CASE IncreasePodRef(u)
  <2>1. Counted(u)' = Counted(u)
    BY <1>4, ApartCounts
  <2>2. Mode[u] = "mesh"
    BY <1>0, <1>4 DEF IncreasePodRef, StorePhases, StorePhase
  <2>. QED
    BY <1>0, <1>1, <1>4, <2>1, <2>2, Finds DEF IncreasePodRef
<1>5. CASE CreateRouter(u) \/ IncreasePodRefPut(u)
  <2>1. Mode[u] = "mesh" /\ pc[u] \in {"newRouter", "increasePut"}
    BY <1>0, <1>5 DEF CreateRouter, IncreasePodRefPut, StorePhases, StorePhase
  <2>2. pc'[u] \in {"setup", "add"}
    BY <1>0, <1>5, Finds DEF CreateRouter, IncreasePodRefPut
  <2>. QED
    BY <1>1, <2>1, <2>2
<1>6. CASE SetupRouter(u) \/ AddRoute(u)
  <2>1. Mode[u] = "mesh" /\ pc[u] \in {"setup", "add"}
    BY <1>0, <1>6 DEF SetupRouter, AddRoute, StorePhases, StorePhase
  <2>2. pc'[u] = "select" /\ Stored(u, "router")'
    BY <1>0, <1>6, Finds DEF SetupRouter, AddRoute, ExecFails, ExecInRouter, Stored
  <2>. QED
    BY <1>1, <2>1, <2>2 DEF Counted, Ended
<1>7. CASE UpdateServiceSelector(u) \/ UpdateServiceSelectorPut(u) \/ CreateShadow(u)
  <2>1. Counted(u)' = Counted(u)
    BY <1>7, ApartCounts DEF Apart
  <2>. QED
    BY <1>0, <1>1, <1>7, <2>1 DEF UpdateServiceSelector, UpdateServiceSelectorPut, CreateShadow, Redirected
<1>8. CASE RecoverRoute(u) \/ RecoverOriginalService(u) \/ RecoverOriginalServicePut(u) \/ CleanService(u) \/ CleanShadow(u)
  <2>1. Counted(u)' = Counted(u)
    BY <1>8, ApartCounts DEF Apart
  <2>. QED
    BY <1>0, <1>1, <1>8, <2>1, Finds DEF RecoverRoute, RecoverOriginalService, RecoverOriginalServicePut, CleanService, CleanShadow
<1>9. CASE DecreasePodRef(u)
  <2>1. Counted(u)' = Counted(u)
    BY <1>9, ApartCounts
  <2>. QED
    BY <1>0, <1>1, <1>9, <2>1 DEF DecreasePodRef
<1>10. CASE RemoveRoute(u) \/ RemoveRouter(u)
  <2>1. pc[u] \in {"removeRoute", "dropRouter"} /\ pc'[u] = "dropSvc"
    BY <1>0, <1>10 DEF RemoveRoute, RemoveRouter
  <2>. QED
    BY <1>1, <2>1 DEF Counted
<1>. QED
  BY <1>2, <1>3, <1>4, <1>5, <1>6, <1>7, <1>8, <1>9, <1>10 DEF Setup, AutoMesh, CleanupWorkspace

LEMMA StuntmanSharedKept ==
  ASSUME CalmState, Next
  PROVE  StuntmanShared'
<1>0. /\ TypeOK /\ ~Fails /\ CalmStep /\ Turns /\ Exclusive /\ StuntmanShared /\ StorePhases /\ routerLost = {}
      /\ StuntmanTargetsOriginal /\ AppIsOriginal
      /\ \A u \in Users : Mode[u] \in {"mesh", "exchange"}
  BY CalmSteps, ConstantsAssumption DEF CalmState, CalmInv, IInv, ConstantsAssumption
<1>n. Original # None
  BY SelectorFacts
<1>a. ASSUME NEW u \in Users, LockService(u) \/ LockFails(u) \/ Setup(u) \/ Quit(u) \/ CleanupWorkspace(u),
             NEW v \in Users \ {u}
      PROVE  Meshes(v)' = Meshes(v)
  BY <1>0, <1>a, OthersKept DEF Meshes
<1>1. ASSUME NEW u \in Users, LockService(u) \/ LockFails(u) \/ Setup(u) \/ Quit(u) \/ CleanupWorkspace(u),
             ~CreateStuntmanService(u), ~RemoveStuntman(u), ~DecreasePodRefPut(u)
      PROVE  StuntmanShared'
  <2>1. UNCHANGED stuntman /\ Meshes(u)' = Meshes(u)
    BY <1>1, StuntmanSteps
  <2>. QED
    BY <1>0, <1>1, <1>a, <2>1 DEF StuntmanShared
<1>2. ASSUME NEW u \in Users, CreateStuntmanService(u) PROVE StuntmanShared'
  <2>1. pc[u] = "stuntman" /\ Mode[u] = "mesh" /\ store[u] = {} /\ UNCHANGED store
    BY <1>0, <1>2 DEF CreateStuntmanService, StorePhases, StorePhase, process
  <2>2. ~Meshes(u)
    BY <2>1 DEF Meshes, Counted, Stored, BeforeStored
  <2>3. \/ pc'[u] = "abort" /\ stuntman' = stuntman
        \/ pc'[u] = "shadowSvc" /\ stuntman' = Original
    BY <1>0, <1>2 DEF CreateStuntmanService, Sane, AppIsOriginal, StuntmanTargetsOriginal, Goto, TypeOK
  <2>4. pc'[u] = "abort" => ~Meshes(u)'
    BY <2>1 DEF Meshes, Counted, Stored, BeforeStored
  <2>5. pc'[u] = "shadowSvc" => Meshes(u)'
    BY <2>1 DEF Meshes
  <2>6. \A v \in Users \ {u} : Meshes(v)' = Meshes(v)
    BY <1>2, <1>a DEF Setup, AutoMesh
  <2>7. CASE pc'[u] = "abort" /\ stuntman' = stuntman
    BY <1>0, <2>2, <2>4, <2>6, <2>7 DEF StuntmanShared
  <2>8. CASE pc'[u] = "shadowSvc" /\ stuntman' = Original
    BY <2>5, <2>8 DEF StuntmanShared
  <2>. QED
    BY <2>3, <2>7, <2>8
<1>3. ASSUME NEW u \in Users, RemoveStuntman(u) PROVE StuntmanShared'
  <2>1. pc[u] = "dropStuntman" /\ pc'[u] = "dropRouter" /\ stuntman' = None
    BY <1>0, <1>3 DEF RemoveStuntman, Goto, TypeOK
  <2>2. ~Meshes(u)'
    BY <2>1 DEF Meshes, BeforeStored
  <2>3. ASSUME NEW v \in Users \ {u} PROVE ~Meshes(v)'
    <3>1. ~Counted(v) /\ pc[v] \notin Busy
      BY <1>0, <2>1, BusyStates DEF Exclusive, Holds, Turns
    <3>2. ~Meshes(v)
      BY <3>1, BusyStates DEF Meshes, BeforeStored
    <3>. QED
      BY <1>3, <1>a, <3>2 DEF CleanupWorkspace
  <2>. QED
    BY <2>1, <2>2, <2>3 DEF StuntmanShared
<1>4. ASSUME NEW u \in Users, DecreasePodRefPut(u) PROVE StuntmanShared'
  <2>1. pc[u] = "decreasePut" /\ pc'[u] = "removeRoute" /\ UNCHANGED stuntman
    BY <1>0, <1>4 DEF DecreasePodRefPut, Goto, TypeOK
  <2>2. ~Meshes(u)'
    BY <2>1 DEF Meshes, BeforeStored, Counted
  <2>3. PICK w \in Users \ {u} : Counted(w)
    BY <1>4, RefDecreased
  <2>4. Meshes(w)
    <3>1. pc[w] # "dropRouter"
      BY <1>0, <2>1, <2>3, BusyStates DEF Turns
    <3>. QED
      BY <2>3, <3>1 DEF Meshes
  <2>5. \A v \in Users \ {u} : Meshes(v)' = Meshes(v)
    BY <1>4, <1>a DEF CleanupWorkspace
  <2>. QED
    BY <1>0, <2>1, <2>2, <2>4, <2>5 DEF StuntmanShared
<1>5. CASE Beside
  BY <1>0, <1>5, Background DEF StuntmanShared, Meshes
<1>. QED
  BY <1>0, <1>1, <1>2, <1>3, <1>4, <1>5 DEF CalmStep, Beside

\* Where the Service is written, and what is written.
LEMMA ServiceSteps ==
  ASSUME CalmState, Next
  PROVE  \/ ann' = ann /\ sel' \in {sel, Original}
         \/ \E v \in Users : FixService(v) /\ ann' = ann /\ sel' = Target(v)
         \/ \E u \in Users : /\ pc[u] = "selectPut" /\ pc'[u] = (IF Mode[u] = "mesh" THEN "shadow" ELSE "unlock")
                             /\ UpdateServiceSelectorPut(u) /\ ann' = Original /\ sel' = Target(u)
         \/ \E u \in Users : RecoverOriginalServicePut(u) /\ ann' = None /\ sel' = Original
<1>0. /\ TypeOK /\ ~Fails /\ CalmStep /\ "replace" \notin allowed
      /\ Redirection /\ SelectorRecoverable /\ RecoveryReady
  BY CalmSteps DEF CalmState, CalmInv, IInv, Calm
<1> USE DEF Write, service
<1>1. ASSUME NEW u \in Users, LockService(u) \/ LockFails(u) \/ Quit(u) \/ UnlockService(u)
      PROVE  ann' = ann /\ sel' = sel
  BY <1>1 DEF LockService, LockFails, Quit, UnlockService
<1>2. ASSUME NEW u \in Users, AutoMesh(u) \/ UpdateServiceSelector(u) \/ CreateShadow(u) PROVE ann' = ann /\ sel' = sel
  BY <1>2 DEF AutoMesh, IsNameUsable, CreateStuntmanService, CreateShadowService, GetRouter, CreateRouter,
     SetupRouter, IncreasePodRef, IncreasePodRefPut, AddRoute, UpdateServiceSelector, CreateShadow
<1>3. ASSUME NEW u \in Users, UpdateServiceSelectorPut(u)
      PROVE  \/ ann' = ann /\ sel' = sel
             \/ /\ pc[u] = "selectPut" /\ pc'[u] = (IF Mode[u] = "mesh" THEN "shadow" ELSE "unlock")
                /\ ann' = Original /\ sel' = Target(u)
  <2>1. Marshaled = Original
    <3>1. Redirectable
      BY Finds, <1>3
    <3>2. sel.role = "app" => sel = Original
      BY DEF CalmState, IInv, AppIsOriginal
    <3>. QED
      BY <1>0, <3>1, <3>2 DEF Redirectable, Marshaled, SelectorRecoverable
  <2>. QED
    BY <1>0, <1>3, <2>1 DEF UpdateServiceSelectorPut, Redirected, Goto, TypeOK
<1>4. ASSUME NEW u \in Users, CleanupWorkspace(u), ~RecoverOriginalServicePut(u) PROVE ann' = ann /\ sel' = sel
  BY <1>4 DEF CleanupWorkspace, RecoverRoute, DecreasePodRef, DecreasePodRefPut, RemoveRoute,
     RecoverOriginalService, RemoveStuntman, RemoveRouter, CleanService, CleanShadow
<1>5. ASSUME NEW u \in Users, RecoverOriginalServicePut(u) PROVE ann' = None /\ sel' = Original
  <2>1. u \in svcFresh
    BY <1>0, <1>5 DEF RecoverOriginalServicePut, Redirection
  <2>2. ann = Original
    BY <1>0, <1>5, <2>1 DEF RecoverOriginalServicePut, SelectorRecoverable, RecoveryReady
  <2>. QED
    BY <1>0, <1>5, <2>1, <2>2 DEF RecoverOriginalServicePut
<1>6. ASSUME NEW v \in Users, Watcher(v)
      PROVE  \/ ann' = ann /\ sel' = sel
             \/ FixService(v) /\ ann' = ann /\ sel' = Target(v)
  <2>1. CASE FixService(v)
    BY <1>0, <2>1, WatcherActs
  <2>. QED
    BY <1>6, <2>1 DEF Watcher, StartWatch, WatchService
<1>7. ASSUME NEW v \in Users, ShadowGone(v) \/ RouterGone PROVE ann' = ann /\ sel' = sel
  BY <1>7 DEF ShadowGone, RouterGone
<1>8. CASE Redeploy
  BY <1>0, <1>8 DEF Redeploy
<1>9. CASE RouterGone
  BY <1>9 DEF RouterGone
<1>. QED
  BY <1>0, <1>1, <1>2, <1>3, <1>4, <1>5, <1>6, <1>7, <1>8, <1>9 DEF CalmStep, Setup

\* Who has the redirection, and keeps it or hands it on until the annotation is gone.
Keeps(u) == Holds(u) /\ pc[u] \notin {"dropStuntman", "dropRouter"}

LEMMA KeepsEnds ==
  ASSUME CalmState, Next, NEW u \in Users, Keeps(u), ~Keeps(u)'
  PROVE  \/ DecreasePodRefPut(u)
         \/ (RecoverOriginalService(u) \/ RecoverOriginalServicePut(u)) /\ ann' = None
<1>0. /\ TypeOK /\ ~Fails /\ CalmStep /\ StorePhases /\ Redirection
      /\ Mode[u] \in {"mesh", "exchange"}
  BY CalmSteps, ConstantsAssumption DEF CalmState, CalmInv, IInv, ConstantsAssumption
<1>1. ASSUME NEW v \in Users, u # v, LockService(v) \/ LockFails(v) \/ Setup(v) \/ Quit(v) \/ CleanupWorkspace(v)
      PROVE  FALSE
  BY <1>0, <1>1, OthersKept DEF Keeps, Holds
<1>2. ASSUME Beside PROVE FALSE
  BY <1>2, Background DEF Keeps, Holds
<1>3. ASSUME RecoverOriginalServicePut(u) PROVE ann' = None
  <2>1. u \in svcFresh
    BY <1>0, <1>3 DEF RecoverOriginalServicePut, Redirection
  <2>. QED
    BY <1>0, <1>3, <2>1 DEF RecoverOriginalServicePut, Write
<1>4. ASSUME RecoverOriginalService(u), ann # None PROVE FALSE
  <2>1. pc[u] = "recover" /\ pc'[u] = "recoverPut" /\ UNCHANGED store
    BY <1>0, <1>4 DEF RecoverOriginalService, Recorded, Goto, TypeOK, process
  <2>2. Counted(u)' = Counted(u) /\ Exchanges(u)' = Exchanges(u)
    BY <2>1 DEF Counted, Exchanges, Stored, Ended
  <2>. QED
    BY <2>1, <2>2 DEF Keeps, Holds
<1>5. ASSUME RecoverOriginalService(u), ann = None PROVE ann' = None
  BY <1>5 DEF RecoverOriginalService
<1>6. ASSUME Mode[u] = "mesh", ~DecreasePodRefPut(u), ~RecoverOriginalService(u), ~RecoverOriginalServicePut(u),
             LockService(u) \/ LockFails(u) \/ Setup(u) \/ Quit(u) \/ CleanupWorkspace(u)
      PROVE  FALSE
  <2>1. Counted(u) /\ pc[u] \notin {"dropStuntman", "dropRouter"} /\ pc[u] \notin {"removeRoute", "newRouter", "increasePut"}
    BY <1>0, <1>6 DEF Keeps, Holds, Exchanges, Counted, StorePhases, StorePhase, BeforeStored, Stored
  <2>2. CASE Apart(u) \/ IncreasePodRef(u) \/ DecreasePodRef(u)
    <3>1. Counted(u)'
      BY <2>1, <2>2, ApartCounts
    <3>2. pc'[u] \notin {"dropStuntman", "dropRouter"}
      BY <1>0, <1>6, <2>1, <2>2 DEF Apart, LockService, LockFails, Quit, UnlockService, IsNameUsable, CreateStuntmanService,
         CreateShadowService, GetRouter, UpdateServiceSelector, UpdateServiceSelectorPut, CreateShadow, RecoverRoute,
         RemoveStuntman, CleanService, CleanShadow, IncreasePodRef, DecreasePodRef, Redirected, Goto, TypeOK
    <3>. QED
      BY <3>1, <3>2 DEF Keeps, Holds
  <2>3. CASE SetupRouter(u) \/ AddRoute(u)
    <3>1. pc'[u] = "select" /\ Stored(u, "router")'
      BY <1>0, <2>3, Finds DEF SetupRouter, AddRoute, ExecFails, ExecInRouter, Stored, Goto, Store, TypeOK
    <3>. QED
      BY <1>6, <3>1 DEF Keeps, Holds, Counted, Ended
  <2>4. CASE CreateRouter(u) \/ IncreasePodRefPut(u) \/ RemoveRoute(u) \/ RemoveRouter(u)
    BY <2>1, <2>4 DEF CreateRouter, IncreasePodRefPut, RemoveRoute, RemoveRouter
  <2>. QED
    BY <1>6, <2>2, <2>3, <2>4 DEF Apart, Setup, AutoMesh, CleanupWorkspace
<1>7. ASSUME Mode[u] = "exchange", ~RecoverOriginalService(u), ~RecoverOriginalServicePut(u),
             LockService(u) \/ LockFails(u) \/ Setup(u) \/ Quit(u) \/ CleanupWorkspace(u)
      PROVE  FALSE
  <2>1. Stored(u, "origin") /\ pc[u] \notin {"dropShadow"} \cup Ended
    BY <1>7 DEF Keeps, Holds, Exchanges, Counted
  <2>2. pc[u] \in {"select", "selectPut", "unlock", "running", "abort"} \cup TeardownStates
    BY <1>0, <1>7, <2>1 DEF StorePhases, StorePhase, Stored, BeforeStored, TypeOK, States, SetupStates
  <2>3. pc[u] \notin {"decrease", "decreasePut", "removeRoute", "dropStuntman", "dropRouter", "dropSvc"}
    BY <1>0, <1>7 DEF StorePhases, StorePhase
  <2>4. Stored(u, "origin")' /\ pc'[u] \notin {"dropShadow", "dropStuntman", "dropRouter"} \cup Ended
    <3> USE DEF Goto, Store, TypeOK, Stored, Ended, process
    <3>1. CASE LockService(u) \/ LockFails(u) \/ Quit(u) \/ UnlockService(u)
      BY <1>0, <2>1, <2>2, <3>1 DEF LockService, LockFails, Quit, UnlockService, TeardownStates
    <3>2. CASE AutoMesh(u)
      BY <2>2, <3>2 DEF AutoMesh, IsNameUsable, CreateStuntmanService, CreateShadowService, GetRouter, CreateRouter,
         SetupRouter, IncreasePodRef, IncreasePodRefPut, AddRoute, TeardownStates
    <3>3. CASE UpdateServiceSelector(u) \/ UpdateServiceSelectorPut(u) \/ CreateShadow(u)
      BY <1>0, <2>1, <3>3 DEF UpdateServiceSelector, UpdateServiceSelectorPut, CreateShadow, Redirected
    <3>4. CASE CleanupWorkspace(u)
      BY <1>0, <1>7, <2>1, <2>3, <3>4 DEF CleanupWorkspace, RecoverRoute, DecreasePodRef, DecreasePodRefPut, RemoveRoute,
         RemoveStuntman, RemoveRouter, CleanService, CleanShadow
    <3>. QED
      BY <1>7, <3>1, <3>2, <3>3, <3>4 DEF Setup
  <2>. QED
    BY <1>7, <2>4 DEF Keeps, Holds, Exchanges
<1>. QED
  BY <1>0, <1>1, <1>2, <1>3, <1>4, <1>5, <1>6, <1>7 DEF CalmStep, Beside

\* The Service is redirected as long as somebody has the redirection.
LEMMA RedirectionHeld ==
  ASSUME CalmState, Next, ann' # None
  PROVE  \E u \in Users : Keeps(u)'
<1>0. /\ TypeOK /\ CalmStep /\ Turns /\ Redirection /\ StorePhases
      /\ \A u \in Users : Mode[u] \in {"mesh", "exchange"}
  BY CalmSteps, ConstantsAssumption DEF CalmState, CalmInv, IInv, ConstantsAssumption
<1>1. CASE ann # None
  <2>1. PICK w \in Users : Keeps(w)
    BY <1>0, <1>1 DEF Redirection, Keeps
  <2>2. CASE ~Keeps(w)'
    <3>1. DecreasePodRefPut(w)
      BY <2>1, <2>2, KeepsEnds
    <3>2. PICK v \in Users \ {w} : Counted(v)
      BY <3>1, RefDecreased
    <3>3. pc[w] \in Busy
      BY <3>1, BusyStates DEF DecreasePodRefPut
    <3>4. pc[v] \notin Busy /\ pc'[v] = pc[v] /\ Counted(v)'
      BY <1>0, <3>1, <3>2, <3>3, OthersKept DEF Turns, CleanupWorkspace
    <3>. QED
      BY <3>4, BusyStates DEF Keeps, Holds
  <2>. QED
    BY <2>2
<1>2. CASE ann = None
  <2>1. PICK u \in Users : /\ pc[u] = "selectPut" /\ pc'[u] = (IF Mode[u] = "mesh" THEN "shadow" ELSE "unlock")
                           /\ UpdateServiceSelectorPut(u)
    BY <1>2, ServiceSteps
  <2>2. store'[u] = store[u] \cup {"origin"}
    BY <1>0, <2>1 DEF UpdateServiceSelectorPut, Redirected, Store, Goto, TypeOK
  <2>. QED
    BY <1>0, <2>1, <2>2 DEF Keeps, Holds, Counted, Exchanges, Stored, StorePhases, StorePhase, Ended
<1>. QED
  BY <1>1, <1>2

\* Who is told to be ready, or about to be.
Ready(v) == pc[v] \in {"unlock", "running"} \/ (Mode[v] = "mesh" /\ pc[v] = "shadow")

\* Where a session was before.
LEMMA SessionCourse ==
  ASSUME CalmState, Next, NEW v \in Users
  PROVE  /\ Ready(v)' => Ready(v) \/ ann' = Original
         /\ Mode[v] = "exchange" /\ pc'[v] \in {"shadow", "select", "selectPut"} =>
              \/ pc[v] \in {"shadow", "select", "selectPut"}
              \/ pc[v] = "idle" /\ ann = None /\ ann' = ann
         /\ pc'[v] \in {"name", "stuntman"} =>
              \/ pc[v] \in {"name", "stuntman"} /\ seen'[v] = seen[v]
              \/ pc[v] = "idle" /\ seen'[v].ann = ann /\ ann' = ann
         /\ pc'[v] \in {"dropStuntman", "dropRouter"} => pc[v] \in {"dropStuntman", "dropRouter"} \/ ann' = None
         /\ pc'[v] = "recoverPut" => pc[v] = "recoverPut" \/ v \in svcFresh'
         /\ watch'[v] # "off" => \/ watch[v] # "off" /\ store[v] \subseteq store'[v]
                                 \/ Stored(v, "origin")' /\ pc'[v] = (IF Mode[v] = "mesh" THEN "shadow" ELSE "unlock")
<1> DEFINE Goal == /\ Ready(v)' => Ready(v) \/ ann' = Original
                   /\ Mode[v] = "exchange" /\ pc'[v] \in {"shadow", "select", "selectPut"} =>
                        \/ pc[v] \in {"shadow", "select", "selectPut"}
                        \/ pc[v] = "idle" /\ ann = None /\ ann' = ann
                   /\ pc'[v] \in {"name", "stuntman"} =>
                        \/ pc[v] \in {"name", "stuntman"} /\ seen'[v] = seen[v]
                        \/ pc[v] = "idle" /\ seen'[v].ann = ann /\ ann' = ann
                   /\ pc'[v] \in {"dropStuntman", "dropRouter"} => pc[v] \in {"dropStuntman", "dropRouter"} \/ ann' = None
                   /\ pc'[v] = "recoverPut" => pc[v] = "recoverPut" \/ v \in svcFresh'
                   /\ watch'[v] # "off" => \/ watch[v] # "off" /\ store[v] \subseteq store'[v]
                                           \/ Stored(v, "origin")' /\ pc'[v] = (IF Mode[v] = "mesh" THEN "shadow" ELSE "unlock")
<1>0. /\ TypeOK /\ ~Fails /\ CalmStep /\ StorePhases /\ Redirection /\ SelectorRecoverable
      /\ Mode[v] \in {"mesh", "exchange"}
  BY CalmSteps, ConstantsAssumption DEF CalmState, CalmInv, IInv, ConstantsAssumption
<1> USE DEF Goto, TypeOK, Ready
<1>1. ASSUME NEW u \in Users, u # v, LockService(u) \/ LockFails(u) \/ Setup(u) \/ Quit(u) \/ CleanupWorkspace(u)
      PROVE  Goal
  BY <1>0, <1>1, OthersKept
<1>2. CASE (\E u \in Users : ShadowGone(u)) \/ RouterGone \/ Redeploy
  <2>1. UNCHANGED <<pc, store, seen, watch>>
    BY <1>2 DEF ShadowGone, RouterGone, Redeploy, process
  <2>. QED
    BY <2>1
<1>3. ASSUME NEW u \in Users, Watcher(u) PROVE Goal
  <2>1. UNCHANGED <<pc, store, seen>> /\ (watch'[v] # "off" => watch[v] # "off")
    BY <1>0, <1>3 DEF Watcher, StartWatch, WatchService, FixService, process
  <2>. QED
    BY <2>1
<1>4. CASE LockService(v)
  <2>1. /\ pc[v] = "idle" /\ seen'[v].ann = ann /\ ann' = ann /\ watch' = watch /\ store' = store
        /\ pc'[v] \in {"abort", "name", "shadow"} /\ (pc'[v] = "shadow" => Mode[v] = "exchange" /\ ann = None)
    BY <1>0, <1>4 DEF LockService, Refused, Write
  <2>. QED
    BY <1>0, <2>1
<1>5. CASE LockFails(v) \/ Quit(v)
  BY <1>0, <1>5 DEF LockFails, Quit, process
<1>6. CASE AutoMesh(v)
  <2>1. /\ pc'[v] \notin {"shadow", "unlock", "running", "selectPut", "dropStuntman", "dropRouter", "recoverPut", "name"}
        /\ watch' = watch /\ seen' = seen /\ store[v] \subseteq store'[v]
        /\ pc'[v] = "stuntman" => pc[v] = "name"
        /\ Mode[v] = "mesh"
    <3>1. Mode[v] = "mesh"
      BY <1>0, <1>6 DEF AutoMesh, IsNameUsable, CreateStuntmanService, CreateShadowService, GetRouter, CreateRouter,
       SetupRouter, IncreasePodRef, IncreasePodRefPut, AddRoute, StorePhases, StorePhase, BeforeStored
    <3>. QED
      BY <1>0, <1>6, <3>1 DEF AutoMesh, IsNameUsable, CreateStuntmanService, CreateShadowService, GetRouter, CreateRouter,
       SetupRouter, IncreasePodRef, IncreasePodRefPut, AddRoute, Store, process
  <2>. QED
    BY <1>0, <2>1
<1>7. CASE UpdateServiceSelector(v) \/ UpdateServiceSelectorPut(v)
  <2>1. pc[v] \in {"select", "selectPut"} /\ seen' = seen
    BY <1>7 DEF UpdateServiceSelector, UpdateServiceSelectorPut, process
  <2>2. \/ pc'[v] \in {"abort", "selectPut"} /\ watch' = watch /\ store' = store
        \/ /\ pc'[v] = (IF Mode[v] = "mesh" THEN "shadow" ELSE "unlock") /\ ann' = Original
           /\ Stored(v, "origin")'
    <3>1. CASE UpdateServiceSelector(v)
      BY <1>0, <3>1 DEF UpdateServiceSelector, Redirected, Store, Stored, service, SelectorRecoverable
    <3>2. CASE UpdateServiceSelectorPut(v) /\ v \in svcFresh
      <4>1. sel.role = "app" => sel = Original
        BY DEF CalmState, IInv, AppIsOriginal
      <4>2. Marshaled = Original
        BY <1>0, <4>1, Finds DEF Redirectable, Marshaled, SelectorRecoverable
      <4>. QED
        BY <1>0, <3>2, <4>2 DEF UpdateServiceSelectorPut, Redirected, Store, Stored, Write
    <3>3. CASE UpdateServiceSelectorPut(v) /\ v \notin svcFresh
      BY <1>0, <3>3 DEF UpdateServiceSelectorPut
    <3>. QED
      BY <1>7, <3>1, <3>2, <3>3
  <2>. QED
    BY <1>0, <2>1, <2>2
<1>8. CASE CreateShadow(v)
  <2>1. /\ pc[v] = "shadow" /\ seen' = seen /\ watch' = watch /\ store[v] \subseteq store'[v]
        /\ pc'[v] = (IF Mode[v] = "mesh" THEN "unlock" ELSE "select")
    BY <1>0, <1>8, Finds DEF CreateShadow, Store
  <2>. QED
    BY <1>0, <2>1
<1>9. CASE UnlockService(v)
  <2>1. /\ pc[v] \in {"unlock", "abort"} /\ seen' = seen /\ watch' = watch /\ store' = store
        /\ pc'[v] = (IF pc[v] = "unlock" THEN "running" ELSE "down")
    BY <1>0, <1>9 DEF UnlockService, process
  <2>. QED
    BY <1>0, <2>1
<1>10. CASE CleanupWorkspace(v)
  <2>1. /\ seen' = seen /\ store' = store /\ (watch'[v] # "off" => watch[v] # "off")
        /\ pc'[v] \in TeardownStates \cup {"exited"}
    BY <1>0, <1>10, Phases DEF CleanupWorkspace, RecoverRoute, DecreasePodRef, DecreasePodRefPut, RemoveRoute,
       RecoverOriginalService, RecoverOriginalServicePut, RemoveStuntman, RemoveRouter, CleanService, CleanShadow, process
  <2>2. /\ pc'[v] \in {"dropStuntman", "dropRouter"} => pc[v] \in {"dropStuntman", "dropRouter"} \/ ann' = None
        /\ pc'[v] = "recoverPut" => pc[v] = "recoverPut" \/ v \in svcFresh'
    BY <1>0, <1>10 DEF CleanupWorkspace, RecoverRoute, DecreasePodRef, DecreasePodRefPut, RemoveRoute, Recorded, Write,
       RecoverOriginalService, RecoverOriginalServicePut, RemoveStuntman, RemoveRouter, CleanService, CleanShadow, Redirection
  <2>3. pc'[v] \notin {"shadow", "select", "selectPut", "name", "stuntman", "unlock", "running"}
    BY <2>1 DEF TeardownStates
  <2>. QED
    BY <2>1, <2>2, <2>3
<1>. QED
  BY <1>0, <1>1, <1>2, <1>3, <1>4, <1>5, <1>6, <1>7, <1>8, <1>9, <1>10 DEF CalmStep, Setup

\* A watcher lives from the redirection to the end of its process.
LEMMA WatchPhase ==
  ASSUME CalmState, Next, NEW v \in Users,
         watch[v] # "off", watch'[v] # "off"
  PROVE  pc'[v] \in {"shadow", "unlock", "running"} \cup TeardownStates
<1>0. /\ TypeOK /\ ~Fails /\ CalmStep /\ StorePhases /\ Redirection
      /\ Mode[v] \in {"mesh", "exchange"}
  BY CalmSteps, ConstantsAssumption DEF CalmState, CalmInv, IInv, ConstantsAssumption
<1>1. pc[v] \in {"shadow", "unlock", "running"} \cup TeardownStates /\ Stored(v, "origin")
  BY <1>0 DEF Redirection
<1>2. pc[v] = "shadow" => Mode[v] = "mesh"
  BY <1>0, <1>1 DEF StorePhases, StorePhase, Stored
<1> USE DEF Goto, TypeOK
<1>3. ASSUME NEW u \in Users, u # v, LockService(u) \/ LockFails(u) \/ Setup(u) \/ Quit(u) \/ CleanupWorkspace(u)
      PROVE  pc'[v] = pc[v]
  BY <1>0, <1>3, OthersKept
<1>4. CASE Beside
  BY <1>1, <1>4, Background
<1>5. CASE LockService(v) \/ LockFails(v) \/ Quit(v) \/ UnlockService(v)
  <2>1. pc'[v] \in {"running", "down"} \/ pc[v] = "idle"
    BY <1>0, <1>5 DEF LockService, LockFails, Quit, UnlockService
  <2>. QED
    BY <1>1, <2>1 DEF TeardownStates
<1>6. ASSUME AutoMesh(v) \/ UpdateServiceSelector(v) \/ UpdateServiceSelectorPut(v) PROVE FALSE
  <2>1. pc[v] \in {"name", "stuntman", "shadowSvc", "select", "selectPut"} \cup BeforeStored
    BY <1>6 DEF AutoMesh, IsNameUsable, CreateStuntmanService, CreateShadowService, GetRouter, CreateRouter,
       SetupRouter, IncreasePodRef, IncreasePodRefPut, AddRoute, UpdateServiceSelector, UpdateServiceSelectorPut, BeforeStored
  <2>. QED
    BY <1>1, <2>1 DEF TeardownStates, BeforeStored
<1>7. CASE CreateShadow(v)
  BY <1>0, <1>2, <1>7, Finds DEF CreateShadow
<1>8. CASE CleanupWorkspace(v)
  <2>1. ~CleanShadow(v)
    BY <1>0 DEF CleanShadow
  <2>2. pc'[v] # "exited"
    BY <1>0, <1>8, <2>1 DEF CleanupWorkspace, RecoverRoute, DecreasePodRef, DecreasePodRefPut, RemoveRoute,
       RecoverOriginalService, RecoverOriginalServicePut, RemoveStuntman, RemoveRouter, CleanService
  <2>. QED
    BY <1>0, <1>8, <2>2, Phases
<1>. QED
  BY <1>0, <1>1, <1>3, <1>4, <1>5, <1>6, <1>7, <1>8 DEF CalmStep, Beside, Setup

\* What recovers the Service finds it as it was read.
LEMMA RecoveryFresh ==
  ASSUME CalmState, Next, NEW u \in Users, pc[u] = "recoverPut", pc'[u] = "recoverPut"
  PROVE  u \in svcFresh'
<1>0. /\ TypeOK /\ ~Fails /\ CalmStep /\ Turns /\ Exclusive /\ Redirection /\ Calm
  BY CalmSteps DEF CalmState, CalmInv, IInv
<1>b. "recoverPut" \in Busy /\ "recoverPut" \in TeardownStates
  BY BusyStates DEF TeardownStates
<1>1. u \in svcFresh
  BY <1>0 DEF Redirection
<1>2. ASSUME NEW v \in Users, LockService(v) PROVE FALSE
  BY <1>0, <1>b, <1>2 DEF LockService, Calm, Nobody
<1>3. ASSUME NEW v \in Users, LockFails(v) \/ Quit(v) PROVE svcFresh' = svcFresh
  BY <1>3 DEF LockFails, Quit, service
<1>4. ASSUME NEW v \in Users, Setup(v) \/ CleanupWorkspace(v) PROVE FALSE
  <2>1. pc[v] \in Busy
    BY <1>0, <1>4, Phases, BusyStates DEF Setup, Busy
  <2>2. v = u
    BY <1>0, <1>b, <2>1 DEF Turns
  <2>3. ~Setup(u)
    BY <1>0, <1>b, Phases, BusyStates DEF Setup
  <2>4. CleanupWorkspace(u) => pc'[u] # "recoverPut"
    BY <1>0 DEF CleanupWorkspace, RecoverRoute, DecreasePodRef, DecreasePodRefPut, RemoveRoute, Goto, TypeOK,
       RecoverOriginalService, RecoverOriginalServicePut, RemoveStuntman, RemoveRouter, CleanService, CleanShadow
  <2>. QED
    BY <1>4, <2>2, <2>3, <2>4
<1>5. ASSUME NEW v \in Users, FixService(v) PROVE FALSE
  <2>1. Holds(v) /\ pc[v] \in {"shadow", "unlock", "running"}
    BY <1>0, <1>5, WatcherActs
  <2>. QED
    BY <1>0, <2>1 DEF Exclusive
<1>6. ASSUME NEW v \in Users, Watcher(v) PROVE svcFresh' = svcFresh
  BY <1>5, <1>6 DEF Watcher, StartWatch, WatchService, service
<1>7. ASSUME Redeploy PROVE FALSE
  BY <1>0, <1>b, <1>7 DEF Redeploy, Calm, Nobody
<1>8. CASE RouterGone \/ \E m \in Users : ShadowGone(m)
  BY <1>1, <1>8 DEF RouterGone, ShadowGone, service
<1>. QED
  BY <1>0, <1>1, <1>2, <1>3, <1>4, <1>6, <1>7, <1>8 DEF CalmStep

\* The annotation, seen by a session that relies on it.
LEMMA AnnotationKept ==
  ASSUME CalmState, Next, NEW v \in Users
  PROVE  /\ pc[v] \in Busy => \/ ann' = ann
                              \/ UpdateServiceSelectorPut(v) /\ ann' = Original
                              \/ RecoverOriginalServicePut(v) /\ ann' = None
         /\ Holds(v) => \/ ann' = ann
                        \/ ann' = Original
                        \/ RecoverOriginalServicePut(v) /\ ann' = None
<1>0. /\ TypeOK /\ Turns /\ Exclusive
  BY DEF CalmState, CalmInv, IInv
<1>1. \A u \in Users : UpdateServiceSelectorPut(u) => pc[u] \in Busy
  BY BusyStates DEF UpdateServiceSelectorPut
<1>2. \A u \in Users : RecoverOriginalServicePut(u) => pc[u] \in Busy /\ pc[u] = "recoverPut"
  BY BusyStates DEF RecoverOriginalServicePut
<1>. QED
  BY <1>0, <1>1, <1>2, ServiceSteps DEF Turns, Exclusive

\* The conjuncts of Redirection about each session.
LEMMA SessionsKnow ==
  ASSUME CalmState, Next, NEW u \in Users
  PROVE  /\ Ready(u)' => ann' = Original
         /\ Mode[u] = "exchange" /\ pc'[u] \in {"shadow", "select", "selectPut"} => ann' = None
         /\ pc'[u] \in {"name", "stuntman"} => seen'[u].ann = ann'
         /\ pc'[u] \in {"dropStuntman", "dropRouter"} => ann' = None
         /\ pc'[u] = "recoverPut" => u \in svcFresh'
         /\ watch'[u] # "off" => Stored(u, "origin")' /\ pc'[u] \in {"shadow", "unlock", "running"} \cup TeardownStates
<1>0. /\ TypeOK /\ CalmStep /\ ~Fails /\ Turns /\ Redirection
      /\ Mode[u] \in {"mesh", "exchange"}
  BY CalmSteps, ConstantsAssumption DEF CalmState, CalmInv, IInv, ConstantsAssumption
<1>b. {"shadow", "select", "selectPut", "name", "stuntman", "dropStuntman", "dropRouter"} \subseteq Busy
  BY BusyStates
<1>s. UpdateServiceSelectorPut(u) => \/ ann' = ann
                                     \/ pc'[u] \in {"shadow", "unlock"} /\ (Mode[u] = "exchange" => pc'[u] = "unlock")
  BY <1>0 DEF UpdateServiceSelectorPut, Redirected, Goto, TypeOK, service
<1>r. RecoverOriginalServicePut(u) => pc[u] = "recoverPut" /\ pc'[u] \in {"dropStuntman", "dropShadow"}
  BY <1>0 DEF RecoverOriginalServicePut, Goto, TypeOK
<1>p. UpdateServiceSelectorPut(u) => pc[u] = "selectPut"
  BY DEF UpdateServiceSelectorPut
<1>1. Ready(u)' => ann' = Original
  <2>1. Ready(u) => Holds(u) /\ ann = Original
    BY <1>0, HoldersRun DEF Redirection, Ready
  <2>2. RecoverOriginalServicePut(u) => ~Ready(u)
    BY <1>r DEF Ready
  <2>. QED
    BY <2>1, <2>2, SessionCourse, AnnotationKept
<1>2. Mode[u] = "exchange" /\ pc'[u] \in {"shadow", "select", "selectPut"} => ann' = None
  <2>1. Mode[u] = "exchange" /\ pc[u] \in {"shadow", "select", "selectPut"} => ann = None
    BY <1>0 DEF Redirection
  <2>. QED
    BY <2>1, <1>b, <1>s, <1>r, SessionCourse, AnnotationKept
<1>3. pc'[u] \in {"name", "stuntman"} => seen'[u].ann = ann'
  <2>1. pc[u] \in {"name", "stuntman"} => seen[u].ann = ann
    BY <1>0 DEF Redirection
  <2>. QED
    BY <2>1, <1>b, <1>p, <1>r, SessionCourse, AnnotationKept
<1>4. pc'[u] \in {"dropStuntman", "dropRouter"} => ann' = None
  <2>1. pc[u] \in {"dropStuntman", "dropRouter"} => ann = None
    BY <1>0 DEF Redirection
  <2>. QED
    BY <2>1, <1>b, <1>p, <1>r, SessionCourse, AnnotationKept
<1>5. pc'[u] = "recoverPut" => u \in svcFresh'
  BY RecoveryFresh, SessionCourse
<1>6. watch'[u] # "off" => Stored(u, "origin")' /\ pc'[u] \in {"shadow", "unlock", "running"} \cup TeardownStates
  <2>1. watch[u] # "off" => Stored(u, "origin")
    BY <1>0 DEF Redirection
  <2>. QED
    BY <2>1, WatchPhase, SessionCourse DEF Stored
<1>. QED
  BY <1>1, <1>2, <1>3, <1>4, <1>5, <1>6

\* A session with a reference of the router and its version in it.
Shares(w) == Counted(w) /\ Stored(w, "router")

LEMMA SharesEnds ==
  ASSUME CalmState, Next, NEW w \in Users, Shares(w)
  PROVE  Shares(w)' \/ DecreasePodRefPut(w) \/ RemoveRouter(w)
<1> DEFINE Goal == Shares(w)' \/ DecreasePodRefPut(w) \/ RemoveRouter(w)
<1>0. TypeOK /\ CalmStep /\ ~Fails /\ StorePhases
  BY CalmSteps DEF CalmState, CalmInv, IInv
<1>1. ASSUME NEW u \in Users, u # w, LockService(u) \/ LockFails(u) \/ Setup(u) \/ Quit(u) \/ CleanupWorkspace(u)
      PROVE  Goal
  BY <1>0, <1>1, OthersKept DEF Shares, Stored
<1>2. CASE Beside
  BY <1>2, Background DEF Shares, Stored
<1>3. store[w] \subseteq store'[w]
  <2> USE DEF TypeOK, Store, Redirected, process
  <2>1. CASE LockService(w) \/ LockFails(w) \/ Quit(w) \/ UnlockService(w)
    BY <2>1 DEF LockService, LockFails, Quit, UnlockService
  <2>2. CASE AutoMesh(w)
    BY <1>0, <2>2 DEF AutoMesh, IsNameUsable, CreateStuntmanService, CreateShadowService, GetRouter, CreateRouter,
       SetupRouter, IncreasePodRef, IncreasePodRefPut, AddRoute
  <2>3. CASE UpdateServiceSelector(w) \/ UpdateServiceSelectorPut(w) \/ CreateShadow(w)
    BY <1>0, <2>3 DEF UpdateServiceSelector, UpdateServiceSelectorPut, CreateShadow
  <2>4. CASE CleanupWorkspace(w)
    BY <2>4 DEF CleanupWorkspace, RecoverRoute, DecreasePodRef, DecreasePodRefPut, RemoveRoute,
       RecoverOriginalService, RecoverOriginalServicePut, RemoveStuntman, RemoveRouter, CleanService, CleanShadow
  <2>5. CASE Beside
    BY <2>5, Background
  <2>6. ASSUME NEW u \in Users, u # w, LockService(u) \/ LockFails(u) \/ Setup(u) \/ Quit(u) \/ CleanupWorkspace(u)
        PROVE  store[w] \subseteq store'[w]
    BY <1>0, <2>6, OthersKept
  <2>. QED
    BY <1>0, <2>1, <2>2, <2>3, <2>4, <2>5, <2>6 DEF CalmStep, Setup, Beside
<1>4. Stored(w, "router")'
  BY <1>3 DEF Shares, Stored
<1>5. CASE Apart(w) \/ IncreasePodRef(w) \/ DecreasePodRef(w)
  BY <1>4, <1>5, ApartCounts DEF Shares
<1>6. ASSUME CreateRouter(w) \/ IncreasePodRefPut(w) \/ SetupRouter(w) \/ AddRoute(w) PROVE FALSE
  BY <1>0, <1>6 DEF CreateRouter, IncreasePodRefPut, SetupRouter, AddRoute, StorePhases, StorePhase, BeforeStored,
     Shares, Stored
<1>7. ASSUME RemoveRoute(w) PROVE FALSE
  BY <1>7 DEF RemoveRoute, Shares, Counted
<1>. QED
  BY <1>0, <1>1, <1>2, <1>5, <1>6, <1>7 DEF CalmStep, Beside, Apart, Setup, AutoMesh, CleanupWorkspace

\* The router is not replaced while it is shared.
LEMMA RouterStays ==
  ASSUME CalmState, Next, routerState = "alive"
  PROVE  routerTarget' = routerTarget
<1>0. TypeOK /\ CalmStep
  BY CalmSteps DEF CalmState, CalmInv, IInv
<1> USE DEF router
<1>1. ASSUME NEW u \in Users, LockService(u) \/ LockFails(u) \/ Quit(u) \/ Watcher(u) \/ ShadowGone(u)
      PROVE  routerTarget' = routerTarget
  BY <1>1 DEF LockService, LockFails, Quit, Watcher, StartWatch, WatchService, FixService, ShadowGone
<1>2. ASSUME NEW u \in Users, CreateRouter(u) PROVE routerTarget' = routerTarget
  BY <1>2 DEF CreateRouter
<1>3. ASSUME NEW u \in Users, AutoMesh(u), ~CreateRouter(u) PROVE routerTarget' = routerTarget
  BY <1>3 DEF AutoMesh, IsNameUsable, CreateStuntmanService, CreateShadowService, GetRouter, SetupRouter,
     IncreasePodRef, IncreasePodRefPut, AddRoute
<1>4. ASSUME NEW u \in Users,
             UpdateServiceSelector(u) \/ UpdateServiceSelectorPut(u) \/ CreateShadow(u) \/ UnlockService(u)
      PROVE  routerTarget' = routerTarget
  BY <1>4 DEF UpdateServiceSelector, UpdateServiceSelectorPut, CreateShadow, UnlockService
<1>5. ASSUME NEW u \in Users, CleanupWorkspace(u) PROVE routerTarget' = routerTarget
  BY <1>5 DEF CleanupWorkspace, RecoverRoute, DecreasePodRef, DecreasePodRefPut, RemoveRoute,
     RecoverOriginalService, RecoverOriginalServicePut, RemoveStuntman, RemoveRouter, CleanService, CleanShadow
<1>6. CASE RouterGone \/ Redeploy
  BY <1>6 DEF RouterGone, Redeploy
<1>. QED
  BY <1>0, <1>1, <1>2, <1>3, <1>4, <1>5, <1>6 DEF CalmStep, Setup

\* The selector before the step, or the target of a session that has the redirection.
LEMMA SelectorSteps ==
  ASSUME CalmState, Next
  PROVE  \/ sel' = sel
         \/ sel' = Original
         \/ \E u \in Users : /\ sel' = Target(u)
                             /\ Mode[u] = "mesh" => Shares(u) /\ Shares(u)'
                             /\ Mode[u] = "exchange" => Exchanges(u) /\ Exchanges(u)'
<1>0. /\ TypeOK /\ CalmStep /\ ~Fails /\ StorePhases
      /\ \A u \in Users : Mode[u] \in {"mesh", "exchange"}
  BY CalmSteps, ConstantsAssumption DEF CalmState, CalmInv, IInv, ConstantsAssumption
<1>1. ASSUME NEW v \in Users, FixService(v)
      PROVE  /\ Mode[v] = "mesh" => Shares(v) /\ Shares(v)'
             /\ Mode[v] = "exchange" => Exchanges(v) /\ Exchanges(v)'
  <2>1. Beside
    BY <1>1 DEF Beside, Watcher
  <2>2. /\ Mode[v] = "mesh" => Counted(v) /\ Stored(v, "router")
        /\ Mode[v] = "exchange" => Exchanges(v)
    BY <1>0, <1>1, WatcherActs
  <2>. QED
    BY <2>1, <2>2, Background DEF Shares, Stored
<1>2. ASSUME NEW u \in Users, pc[u] = "selectPut", pc'[u] = (IF Mode[u] = "mesh" THEN "shadow" ELSE "unlock"),
             UpdateServiceSelectorPut(u)
      PROVE  /\ Mode[u] = "mesh" => Shares(u) /\ Shares(u)'
             /\ Mode[u] = "exchange" => Exchanges(u) /\ Exchanges(u)'
  <2>1. store'[u] = store[u] \cup {"origin"}
    BY <1>0, <1>2 DEF UpdateServiceSelectorPut, Redirected, Store, Goto, TypeOK
  <2>. QED
    BY <1>0, <1>2, <2>1 DEF Shares, Stored, Counted, Exchanges, Ended, StorePhases, StorePhase
<1>. QED
  BY <1>1, <1>2, ServiceSteps

LEMMA RouterSelected ==
  ASSUME CalmState, Next, sel'.role = "router", SelectorRecoverable'
  PROVE  sel'.target = routerTarget' /\ \E u \in Users : Shares(u)'
<1>0. /\ TypeOK /\ CalmStep /\ ~Fails /\ Redirection /\ RouterShared /\ Turns
      /\ \A u \in Users : Mode[u] \in {"mesh", "exchange"}
  BY CalmSteps, ConstantsAssumption DEF CalmState, CalmInv, IInv, ConstantsAssumption
<1>n. Original.role = "app" /\ Original # None
  BY SelectorFacts
<1>k. \A w \in Users : Shares(w) => routerState = "alive" /\ label[w] = routerTarget /\ routerTarget' = routerTarget
  BY <1>0, RouterStays DEF Shares, RouterShared, RouterServes
<1>1. CASE sel' = sel
  <2>1. PICK w \in Users : Shares(w)
    BY <1>0, <1>1 DEF Redirection, Shares
  <2>2. sel'.target = routerTarget'
    BY <1>0, <1>1, <1>k, <2>1 DEF Redirection
  <2>3. CASE DecreasePodRefPut(w)
    <3>1. PICK v \in Users \ {w} : Counted(v) /\ Stored(v, "router")
      BY <2>3, RefDecreased
    <3>2. ~DecreasePodRefPut(v) /\ ~RemoveRouter(v)
      BY <1>0, <2>3, <3>1, BusyStates DEF DecreasePodRefPut, RemoveRouter, Turns
    <3>. QED
      BY <2>2, <3>1, <3>2, SharesEnds DEF Shares
  <2>4. ASSUME RemoveRouter(w) PROVE FALSE
    <3>1. ann = None
      BY <1>0, <2>4 DEF RemoveRouter, Redirection
    <3>. QED
      BY <1>1, <1>n, <3>1 DEF CalmState, IInv, SelectorRecoverable
  <2>. QED
    BY <2>1, <2>2, <2>3, <2>4, SharesEnds
<1>2. ASSUME NEW u \in Users, sel' = Target(u), Mode[u] = "mesh", Shares(u), Shares(u)'
      PROVE  sel'.target = routerTarget' /\ Shares(u)'
  BY <1>k, <1>2 DEF Target
<1>3. ASSUME NEW u \in Users, sel' = Target(u), Mode[u] = "exchange" PROVE FALSE
  BY <1>3 DEF Target
<1>. QED
  BY <1>0, <1>n, <1>1, <1>2, <1>3, SelectorSteps

LEMMA ExchangeSelected ==
  ASSUME CalmState, Next, sel'.role = "exchange", SelectorRecoverable'
  PROVE  sel'.target \in Users /\ Exchanges(sel.target)'
<1>0. /\ TypeOK /\ CalmStep /\ ~Fails /\ Redirection
      /\ \A u \in Users : Mode[u] \in {"mesh", "exchange"}
  BY CalmSteps, ConstantsAssumption DEF CalmState, CalmInv, IInv, ConstantsAssumption
<1>n. Original.role = "app" /\ Original # None
  BY SelectorFacts
<1>a. ann' # None
  BY <1>n DEF SelectorRecoverable
<1>1. CASE sel' = sel
  <2>1. PICK t \in Users : sel.target = t /\ Exchanges(t)
    BY <1>0, <1>1 DEF Redirection
  <2>2. Keeps(t)
    BY <1>0, <2>1 DEF Keeps, Holds, Exchanges, CalmState, CalmInv, StorePhases, StorePhase
  <2>3. ~DecreasePodRefPut(t)
    BY <1>0, <2>1 DEF DecreasePodRefPut, Exchanges, CalmState, CalmInv, StorePhases, StorePhase
  <2>4. Keeps(t)'
    BY <1>a, <2>1, <2>2, <2>3, KeepsEnds
  <2>5. Exchanges(t)'
    BY <2>1, <2>4 DEF Keeps, Holds, Exchanges, Counted
  <2>. QED
    BY <1>1, <2>1, <2>5
<1>2. ASSUME NEW u \in Users, sel' = Target(u), Mode[u] = "exchange", Exchanges(u)'
      PROVE  sel'.target = u
  BY <1>2 DEF Target
<1>3. ASSUME NEW u \in Users, sel' = Target(u), Mode[u] = "mesh" PROVE FALSE
  BY <1>3 DEF Target
<1>. QED
  BY <1>0, <1>n, <1>1, <1>2, <1>3, SelectorSteps

LEMMA RedirectionKept ==
  ASSUME CalmState, Next, SelectorRecoverable'
  PROVE  Redirection'
BY RedirectionHeld, SessionsKnow, RouterSelected, ExchangeSelected DEF Redirection, Keeps, Ready, Shares

-------------------------------------------------------------------------------
(* The theorems *)

LEMMA CalmInit ==
  ASSUME OneHeader, ToolsInit, Calm
  PROVE  CalmState
<1>0. Init /\ IInv
  BY TypeOKInit, SelectorInvInit, OwnerInvInit DEF ToolsInit, IInv, SelectorInv, OwnerInv
<1>1. PICK s \in Scenarios : s.allowed = allowed /\ pc = [u \in Users |-> IF u \in s.users THEN "idle" ELSE "exited"]
  BY <1>0 DEF Init
<1>2. \A u \in Users : /\ pc[u] \in {"idle", "exited"}
                       /\ store[u] = {} /\ watch[u] = "off"
                       /\ shadowPod[u].state = "absent" /\ shadowSvc[u] = NoUser
  BY <1>0, <1>1 DEF Init
<1>3. sel = Original /\ ann = None /\ locked = {} /\ confHeader = NoUser /\ stuntman = None /\ routerState = "absent"
      /\ routerLost = {}
  BY <1>0 DEF Init
<1>4. \A u \in Users : Mark[u] \in Users
  BY ConstantsAssumption DEF ConstantsAssumption
<1>5. Turns
  BY <1>2, <1>3, BusyStates DEF Turns, Busy
<1>6. AgreedHeader
  <2>1. s.allowed = {} /\ \A u \in Users : pc[u] \notin Ended => u \in s.users
    BY <1>1 DEF Calm, Ended
  <2>. QED
    BY <1>3, <2>1 DEF OneHeader, AgreedHeader
<1>7. StorePhases
  BY <1>2 DEF StorePhases, StorePhase, BeforeStored, TeardownStates
<1>8. \A u \in Users : ~Counted(u) /\ ~Exchanges(u) /\ ~Meshes(u)
  BY <1>2 DEF Counted, Exchanges, Meshes, Stored, BeforeStored
<1>9. PodsOwned /\ SvcsOwned
  BY <1>2, <1>4 DEF PodsOwned, SvcsOwned, Stored
<1>10. RouterShared
  <2>1. CountedUsers = {}
    BY <1>8 DEF CountedUsers
  <2>2. \A u \in Users : RouterServes(u)
    BY <1>2, <1>8 DEF RouterServes
  <2>. QED
    BY <1>3, <2>1, <2>2, FS_EmptySet DEF RouterShared
<1>11. Exclusive
  BY <1>2, <1>8 DEF Exclusive, Holds, BeforeStored
<1>12. StuntmanShared
  BY <1>3, <1>8 DEF StuntmanShared
<1>13. Redirection
  BY <1>2, <1>3, SelectorFacts DEF Redirection
<1>. QED
  BY <1>0, <1>3, <1>5, <1>6, <1>7, <1>9, <1>10, <1>11, <1>12, <1>13 DEF CalmState, CalmInv

LEMMA IInvKept ==
  ASSUME IInv, [Next]_vars
  PROVE  IInv'
<1>1. TypeOK'
  BY TypeOKStep DEF IInv, SelectorInv
<1>2. SelectorInv'
  BY SelectorInvStep DEF IInv, SelectorInv
<1>3. OwnerInv'
  BY OwnerInvStep DEF IInv, OwnerInv
<1>. QED
  BY <1>1, <1>2, <1>3 DEF IInv, SelectorInv, OwnerInv

LEMMA CalmKept ==
  ASSUME CalmState, [Next]_vars
  PROVE  CalmState'
<1>1. CASE Next
  <2>1. IInv' /\ Calm' /\ SelectorRecoverable'
    BY <1>1, IInvKept, CalmSteps DEF CalmState, IInv
  <2>. QED
    BY <1>1, <2>1, TurnsKept, AgreedHeaderKept, StorePhasesKept, RouterFound, PodsOwnedKept, SvcsOwnedKept,
       RouterSharedKept, ExclusiveKept, StuntmanSharedKept, RedirectionKept DEF CalmState, CalmInv
<1>2. CASE UNCHANGED vars
  <2>1. IInv'
    BY IInvKept DEF CalmState
  <2>2. UNCHANGED CalmInv /\ UNCHANGED Calm
    <3>1. UNCHANGED <<allowed, sel, ann, svcFresh, stuntman, shadowSvc, shadowPod, routerState, routerTarget, refs,
                      podFresh, confHeader, routes, locked, pc, seen, label, watch, store, routerLost>>
      BY <1>2 DEF vars, state, service, shadows, router, process
    <3>. QED
      BY <3>1 DEF CalmInv, Calm, Turns, AgreedHeader, StorePhases, StorePhase, PodsOwned, SvcsOwned, RouterShared,
         RouterServes, LastRef, CountedUsers, Counted, Exclusive, Holds, Exchanges, StuntmanShared, Meshes,
         Redirection, Stored
  <2>. QED
    BY <2>1, <2>2 DEF CalmState
<1>. QED
  BY <1>1, <1>2

\* Where the environment behaves, what is written above holds of the sessions, and the
\* other commands do not interfere.
LEMMA CalmCorrect ==
  ASSUME OneHeader
  PROVE  ToolsSpec => [](Calm => CalmState)
<1> DEFINE Undisturbed == Calm => CalmState /\ tool = "idle"
<1>1. ToolsInit => Undisturbed
  BY CalmInit DEF ToolsInit
<1>2. ASSUME Undisturbed, [ToolsNext]_allVars PROVE Undisturbed'
  <2>1. UNCHANGED allowed
    BY <1>2 DEF ToolsNext, Session, Next, allVars, vars
  <2>2. SUFFICES ASSUME Calm PROVE CalmState' /\ tool' = "idle"
    BY <2>1 DEF Calm
  <2>3. tools = {}
    BY <2>2 DEF Calm, tools
  <2>4. [Next]_vars /\ UNCHANGED tool
    BY <1>2, <2>2, <2>3 DEF ToolsNext, Session, Expire, ToolStep, CheckClusterResources, AnalyseServices,
       TidyClusterResources, TidyPods, TidyServices, TidyRecover, TidyRecoverPut, TidyUnlock,
       UnlockPut, Recover, RecoverService, RecoverRouter, RecoverMeshed, RecoverStuntman,
       RecoverShadows, RecoverExchanged, allVars, toolVars
  <2>. QED
    BY <1>2, <2>2, <2>4, CalmKept
<1>. QED
  BY <1>1, <1>2, PTL DEF ToolsSpec

\* For any number of sessions whose tear-downs do not overlap, the annotation
\* kt-ref-count of a living router is the number of sessions that use it, so that the
\* last one to leave, and only the last, removes it.
THEOREM RefsExactCorrect ==
  ASSUME OneHeader
  PROVE  ToolsSpec => []RefsExact
<1>1. CalmState => RefsExact
  BY DEF CalmState, CalmInv, RouterShared, CountedUsers, RefsExact
<1>2. ~Calm => RefsExact
  BY DEF RefsExact
<1>. QED
  BY <1>1, <1>2, CalmCorrect, PTL

\* Likewise the Service never selects a pod that is gone or about to go, and a router it
\* selects is configured and has the application behind it.
THEOREM ServiceServedCorrect ==
  ASSUME OneHeader
  PROVE  ToolsSpec => []ServiceServed
<1>1. CalmState => ServiceServed
  <2> SUFFICES ASSUME CalmState
               PROVE  SelectsLivingPods /\ (sel.role = "router" => confHeader # NoUser /\ stuntman = Original)
    BY DEF ServiceServed
  <2>0. TypeOK /\ SelectorRecoverable /\ PodsOwned /\ RouterShared /\ StuntmanShared /\ Redirection
    BY DEF CalmState, CalmInv, IInv
  <2>1. ASSUME sel.role = "router" PROVE TargetAlive(sel) /\ confHeader # NoUser /\ stuntman = Original
    <3>1. PICK u \in Users : Counted(u) /\ Stored(u, "router")
      BY <2>0, <2>1 DEF Redirection
    <3>2. ann # None
      BY <2>0, <2>1, SelectorFacts DEF SelectorRecoverable
    <3>3. Meshes(u)
      BY <2>0, <3>1, <3>2 DEF Redirection, Meshes
    <3>4. routerState = "alive" /\ confHeader # NoUser /\ sel.target = routerTarget
      BY <2>0, <2>1, <3>1 DEF RouterShared, RouterServes, Redirection
    <3>. QED
      BY <2>0, <2>1, <3>3, <3>4 DEF StuntmanShared, TargetAlive
  <2>2. ASSUME sel.role = "exchange" PROVE TargetAlive(sel)
    <3>1. sel.target \in Users /\ Exchanges(sel.target)
      BY <2>0, <2>2 DEF Redirection
    <3>2. Stored(sel.target, "shadow") /\ pc[sel.target] \notin Ended
      BY <3>1, HoldersRun DEF Exchanges
    <3>. QED
      BY <2>0, <2>2, <3>1, <3>2 DEF PodsOwned, TargetAlive
  <2>. QED
    BY <2>1, <2>2 DEF SelectsLivingPods
<1>2. ~Calm => ServiceServed
  BY DEF ServiceServed
<1>. QED
  BY <1>1, <1>2, CalmCorrect, PTL

\* While a session is told to be ready its version is reachable end to end, whoever
\* comes and goes beside it.
THEOREM SessionServedCorrect ==
  ASSUME OneHeader
  PROVE  ToolsSpec => []SessionServed
<1>1. CalmState => SessionServed
  <2> SUFFICES ASSUME CalmState, NEW u \in Users, pc[u] = "running"
               PROVE  /\ shadowPod[Mark[u]] = [state |-> "alive", owner |-> u]
                      /\ Mode[u] = "mesh" =>
                           routerState = "alive" /\ routes[Mark[u]] > 0 /\ shadowSvc[Mark[u]] = u
    BY DEF SessionServed
  <2>0. /\ TypeOK /\ StorePhases /\ PodsOwned /\ RouterShared /\ OwnsShadowService(u)
        /\ Mode[u] \in {"mesh", "exchange"} /\ pc[u] \notin Ended
    BY ConstantsAssumption DEF CalmState, CalmInv, IInv, ConstantsAssumption, Ended
  <2>1. Stored(u, "shadow")
    BY <2>0 DEF StorePhases, StorePhase, Stored, Fields
  <2>2. shadowPod[Mark[u]] = [state |-> "alive", owner |-> u]
    BY <2>0, <2>1 DEF PodsOwned
  <2>3. ASSUME Mode[u] = "mesh"
        PROVE  routerState = "alive" /\ routes[Mark[u]] > 0 /\ shadowSvc[Mark[u]] = u
    <3>1. Stored(u, "router") /\ Stored(u, "service") /\ Counted(u)
      BY <2>0, <2>3 DEF StorePhases, StorePhase, Stored, Fields, Counted
    <3>. QED
      BY <2>0, <3>1 DEF RouterShared, RouterServes, OwnsShadowService
  <2>. QED
    BY <2>2, <2>3
<1>2. ~Calm => SessionServed
  BY DEF SessionServed
<1>. QED
  BY <1>1, <1>2, CalmCorrect, PTL

\* When the last session has exited, the Service is as it was before the first, and
\* nothing that ktctl created is left.
THEOREM ResourcesRemovedCorrect ==
  ASSUME OneHeader
  PROVE  ToolsSpec => []ResourcesRemoved
<1>1. CalmState => ResourcesRemoved
  <2> SUFFICES ASSUME CalmState, AllGone
               PROVE  /\ sel = Original /\ ann = None
                      /\ stuntman = None /\ routerState # "alive"
                      /\ \A m \in Users : shadowSvc[m] = NoUser /\ shadowPod[m].state # "alive"
    BY DEF ResourcesRemoved
  <2>0. TypeOK /\ StorePhases /\ SelectorRecoverable /\ PodsOwned /\ SvcsOwned /\ RouterShared /\ StuntmanShared
        /\ Redirection
    BY DEF CalmState, CalmInv, IInv
  <2>1. \A u \in Users : pc[u] \in Ended \cup {"idle"} /\ (pc[u] = "idle" => store[u] = {})
    BY <2>0 DEF AllGone, StorePhases, StorePhase
  <2>2. \A u \in Users : ~Counted(u) /\ ~Exchanges(u) /\ ~Meshes(u)
    BY <2>1 DEF Counted, Exchanges, Meshes, Stored, BeforeStored, Ended
  <2>3. ann = None /\ sel = Original
    BY <2>0, <2>2, SelectorFacts DEF Redirection, Holds, SelectorRecoverable
  <2>4. stuntman = None
    BY <2>0, <2>2 DEF StuntmanShared
  <2>5. routerState # "alive"
    BY <2>0, <2>2 DEF RouterShared, CountedUsers
  <2>6. ASSUME NEW m \in Users PROVE shadowSvc[m] = NoUser
    BY <2>0, <2>1 DEF SvcsOwned, Stored, TypeOK
  <2>7. ASSUME NEW m \in Users PROVE shadowPod[m].state # "alive"
    BY <2>0, <2>1 DEF PodsOwned, Stored
  <2>. QED
    BY <2>3, <2>4, <2>5, <2>6, <2>7
<1>2. ~Calm => ResourcesRemoved
  BY DEF ResourcesRemoved
<1>. QED
  BY <1>1, <1>2, CalmCorrect, PTL

-------------------------------------------------------------------------------
(* What ktctl clean leaves alone: the invariant *)

\* Processes are killed and ktctl clean is used, but it drops no lock in use.
Sparing == allowed \subseteq {"clean", "crash"} /\ ~robbed

Living(u) == pc[u] \notin Ended

\* A mesh that has found its name usable and has no pod yet.
WithoutPod == {"stuntman", "shadowSvc", "select", "selectPut", "shadow"} \cup BeforeStored

\* What a process has created, by where it is: the lock and isNameUsable keep others of
\* its version away until it has its pod.
SparePhase(u) ==
  /\ Stored(u, "shadow") /\ Mode[u] = "mesh" => Stored(u, "service")
  /\ pc[u] \in {"unlock", "running"} => Stored(u, "shadow")
  /\ Mode[u] = "mesh" =>
       /\ pc[u] \in {"idle", "name", "stuntman", "shadowSvc"} => ~Stored(u, "service") /\ ~Stored(u, "shadow")
       /\ pc[u] \in BeforeStored \cup {"select", "selectPut", "shadow"} => Stored(u, "service") /\ ~Stored(u, "shadow")
       /\ pc[u] \in WithoutPod => shadowPod[Mark[u]].state = "absent"
  /\ Mode[u] = "exchange" =>
       /\ ~Stored(u, "service")
       /\ pc[u] \notin {"name", "stuntman", "shadowSvc"} \cup BeforeStored
       /\ pc[u] \in {"idle", "shadow"} => ~Stored(u, "shadow")
       /\ pc[u] \in {"select", "selectPut"} => Stored(u, "shadow")

SparePhases == \A u \in Users : SparePhase(u)

\* A shadow pod belongs to the living process that has noted it, ...
PodCreators ==
  /\ \A u \in Users : Living(u) /\ Stored(u, "shadow") => shadowPod[Mark[u]] = [state |-> "alive", owner |-> u]
  /\ \A m \in Users : shadowPod[m].state # "absent" =>
       /\ shadowPod[m].owner \in Users /\ Mark[shadowPod[m].owner] = m /\ Stored(shadowPod[m].owner, "shadow")
       /\ shadowPod[m].state = "terminating" => ~Living(shadowPod[m].owner)

\* ... and so does a shadow service, ...
SvcCreators ==
  /\ \A u \in Users : OwnsShadowService(u)
  /\ \A m \in Users : shadowSvc[m] # NoUser => Mark[shadowSvc[m]] = m /\ Stored(shadowSvc[m], "service")

\* ... which renews the heart beats, ...
Beaten ==
  \A u \in Users : Living(u) =>
    /\ Stored(u, "service") => "service" \in beats[u]
    /\ Stored(u, "shadow") => "pod" \in beats[u]

\* ... so that what is old, or on the lists of ktctl clean, is a dead process' still.
OldAreDead ==
  /\ \A m \in Users \cap oldPods : shadowPod[m].state # "absent" /\ ~Living(shadowPod[m].owner)
  /\ \A m \in Users \cap toPods : shadowPod[m].state = "alive" /\ ~Living(shadowPod[m].owner)
  /\ \A m \in Users \cap (oldSvcs \cup toSvcs) : shadowSvc[m] # NoUser /\ ~Living(shadowSvc[m])

SpareInv ==
  /\ tool \in CleanSteps \cup {"idle"}
  /\ Turns /\ SparePhases /\ PodCreators /\ SvcCreators /\ Beaten /\ OldAreDead

-------------------------------------------------------------------------------
(* The steps of a session, as far as shadow pods and services go *)

\* A step of the main line of a process, or its end.
MainStep(u) == LockService(u) \/ LockFails(u) \/ Setup(u) \/ Quit(u) \/ CleanupWorkspace(u) \/ Crash(u)

Alone(u) == \A v \in Users \ {u} : pc'[v] = pc[v] /\ store'[v] = store[v]

\* Of opt.Store.Service and opt.Store.Shadow it sets those.
Notes(u, fields) == \A f \in {"service", "shadow"} : Stored(u, f)' <=> f \in fields \/ Stored(u, f)

\* It creates and removes nothing, or one thing, ...
Moved(u) == UNCHANGED shadows /\ Notes(u, {}) /\ SparePhase(u)'

NewService(u) ==
  /\ pc[u] = "shadowSvc" /\ shadowSvc[Mark[u]] = NoUser /\ pc'[u] = "router"
  /\ shadowSvc' = [shadowSvc EXCEPT ![Mark[u]] = u]
  /\ UNCHANGED shadowPod /\ Notes(u, {"service"})

NewPod(u) ==
  /\ pc[u] = "shadow" /\ shadowPod[Mark[u]].state = "absent"
  /\ pc'[u] = IF Mode[u] = "mesh" THEN "unlock" ELSE "select"
  /\ shadowPod' = [shadowPod EXCEPT ![Mark[u]] = [state |-> "alive", owner |-> u]]
  /\ UNCHANGED shadowSvc /\ Notes(u, {"shadow"})

ServiceDropped(u) ==
  /\ pc[u] = "dropSvc" /\ Stored(u, "service") /\ pc'[u] = "dropShadow"
  /\ shadowSvc' = [shadowSvc EXCEPT ![Mark[u]] = NoUser]
  /\ UNCHANGED shadowPod /\ Notes(u, {})

PodDropped(u) ==
  /\ pc[u] = "dropShadow" /\ Stored(u, "shadow") /\ pc'[u] = "exited"
  /\ shadowPod' = [shadowPod EXCEPT ![Mark[u]] = [state |-> "terminating", owner |-> shadowPod[Mark[u]].owner]]
  /\ UNCHANGED shadowSvc /\ Notes(u, {})

\* ... or the kubelet has stopped a pod.
PodGone(m) ==
  /\ shadowPod[m].state = "terminating"
  /\ shadowPod' = [shadowPod EXCEPT ![m] = [state |-> "absent", owner |-> NoUser]]
  /\ UNCHANGED <<shadowSvc, pc, store>>

Effects ==
  \/ UNCHANGED <<shadows, pc, store>>
  \/ \E u \in Users : Alone(u) /\ (Moved(u) \/ NewService(u) \/ NewPod(u) \/ ServiceDropped(u) \/ PodDropped(u))
  \/ \E m \in Users : PodGone(m)

\* A process that gets to create its shadow pod finds none of its version.
LEMMA MainSteps ==
  ASSUME TypeOK, Sparing, SpareInv, NEW u \in Users, MainStep(u)
  PROVE  Alone(u) /\ (Moved(u) \/ NewService(u) \/ NewPod(u) \/ ServiceDropped(u) \/ PodDropped(u))
<1>0. /\ SparePhase(u) /\ ~Fails /\ "slowPods" \notin allowed
      /\ Mode[u] \in {"mesh", "exchange"} /\ Mark[u] \in Users
  BY ConstantsAssumption DEF Sparing, Fails, SpareInv, SparePhases, ConstantsAssumption
<1>a. Alone(u)
  <2>1. CASE Crash(u)
    BY <2>1 DEF Crash, Goto, TypeOK, Alone
  <2>2. CASE ~Crash(u)
    BY <2>2, OthersKept DEF MainStep, Alone
  <2>. QED
    BY <2>1, <2>2
<1> USE DEF Goto, Store, process, service, shadows, router, TypeOK, Stored
<1>m. ASSUME UNCHANGED shadows, UNCHANGED store, SparePhase(u)' PROVE Moved(u)
  BY <1>m DEF Moved, Notes
<1>1. ASSUME LockService(u) \/ LockFails(u) \/ Quit(u) \/ UnlockService(u) PROVE Moved(u)
  <2>1. UNCHANGED shadows /\ UNCHANGED store
    BY <1>1 DEF LockService, LockFails, Quit, UnlockService
  <2>2. SparePhase(u)'
    BY <1>0, <1>1, <2>1 DEF LockService, LockFails, Quit, UnlockService, SparePhase, BeforeStored, WithoutPod
  <2>. QED
    BY <1>m, <2>1, <2>2
<1>2. ASSUME Crash(u) PROVE Moved(u)
  <2>1. UNCHANGED shadows /\ UNCHANGED store
    BY <1>2 DEF Crash
  <2>2. SparePhase(u)'
    BY <1>0, <1>2, <2>1 DEF Crash, SparePhase, BeforeStored, WithoutPod
  <2>. QED
    BY <1>m, <2>1, <2>2
<1>3. ASSUME IsNameUsable(u) \/ CreateStuntmanService(u) \/ GetRouter(u) \/ CreateRouter(u)
             \/ IncreasePodRef(u) \/ IncreasePodRefPut(u)
      PROVE  Moved(u)
  <2>1. UNCHANGED shadows /\ UNCHANGED store
    BY <1>3 DEF IsNameUsable, CreateStuntmanService, GetRouter, CreateRouter, IncreasePodRef, IncreasePodRefPut
  <2>2. SparePhase(u)'
    <3>1. CASE IsNameUsable(u)
      BY <1>0, <2>1, <3>1 DEF IsNameUsable, SparePhase, BeforeStored, WithoutPod
    <3>2. CASE CreateStuntmanService(u) \/ GetRouter(u) \/ CreateRouter(u)
      BY <1>0, <2>1, <3>2 DEF CreateStuntmanService, GetRouter, CreateRouter, SparePhase, BeforeStored, WithoutPod
    <3>3. CASE IncreasePodRef(u) \/ IncreasePodRefPut(u)
      BY <1>0, <2>1, <3>3 DEF IncreasePodRef, IncreasePodRefPut, SparePhase, BeforeStored, WithoutPod
    <3>. QED
      BY <1>3, <3>1, <3>2, <3>3
  <2>. QED
    BY <1>m, <2>1, <2>2
<1>4. ASSUME CreateShadowService(u) PROVE Moved(u) \/ NewService(u)
  <2>1. CASE shadowSvc[Mark[u]] = NoUser
    BY <1>0, <1>4, <2>1 DEF CreateShadowService, NewService, Notes
  <2>2. CASE shadowSvc[Mark[u]] # NoUser
    <3>1. UNCHANGED shadows /\ UNCHANGED store
      BY <1>4, <2>2 DEF CreateShadowService
    <3>2. SparePhase(u)'
      BY <1>0, <1>4, <2>2, <3>1 DEF CreateShadowService, SparePhase, BeforeStored, WithoutPod
    <3>. QED
      BY <1>m, <3>1, <3>2
  <2>. QED
    BY <2>1, <2>2
<1>5. ASSUME SetupRouter(u) \/ AddRoute(u) \/ UpdateServiceSelector(u) \/ UpdateServiceSelectorPut(u)
      PROVE  Moved(u)
  <2>1. UNCHANGED shadows /\ Notes(u, {})
    BY <1>5 DEF SetupRouter, AddRoute, UpdateServiceSelector, UpdateServiceSelectorPut, Redirected, Notes
  <2>2. SparePhase(u)'
    <3>1. CASE SetupRouter(u) \/ AddRoute(u)
      BY <1>0, <2>1, <3>1 DEF SetupRouter, AddRoute, SparePhase, BeforeStored, WithoutPod
    <3>2. CASE UpdateServiceSelector(u) \/ UpdateServiceSelectorPut(u)
      BY <1>0, <2>1, <3>2 DEF UpdateServiceSelector, UpdateServiceSelectorPut, Redirected, SparePhase, BeforeStored,
         WithoutPod
    <3>. QED
      BY <1>5, <3>1, <3>2
  <2>. QED
    BY <2>1, <2>2 DEF Moved
<1>6. ASSUME CreateShadow(u) PROVE NewPod(u)
  <2>1. pc[u] = "shadow"
    BY <1>6 DEF CreateShadow
  <2>2. shadowPod[Mark[u]].state = "absent"
    <3>1. CASE Mode[u] = "mesh"
      BY <1>0, <2>1, <3>1 DEF SparePhase, WithoutPod
    <3>2. CASE Mode[u] = "exchange"
      <4> SUFFICES ASSUME shadowPod[Mark[u]].state # "absent" PROVE FALSE
        OBVIOUS
      <4>1. /\ shadowPod[Mark[u]].owner \in Users /\ Mark[shadowPod[Mark[u]].owner] = Mark[u]
            /\ Stored(shadowPod[Mark[u]].owner, "shadow")
        BY <1>0 DEF SpareInv, PodCreators
      <4>2. shadowPod[Mark[u]].owner = u
        BY <3>2, <4>1, MarkAssumption
      <4>. QED
        BY <1>0, <2>1, <3>2, <4>1, <4>2 DEF SparePhase
    <3>. QED
      BY <1>0, <3>1, <3>2
  <2>. QED
    BY <1>0, <1>6, <2>1, <2>2 DEF CreateShadow, NewPod, Notes
<1>7. ASSUME RecoverRoute(u) \/ DecreasePodRef(u) \/ DecreasePodRefPut(u) \/ RemoveRoute(u)
             \/ RecoverOriginalService(u) \/ RecoverOriginalServicePut(u) \/ RemoveStuntman(u) \/ RemoveRouter(u)
      PROVE  Moved(u)
  <2>1. UNCHANGED shadows /\ UNCHANGED store
    BY <1>7 DEF RecoverRoute, DecreasePodRef, DecreasePodRefPut, RemoveRoute, RecoverOriginalService,
       RecoverOriginalServicePut, RemoveStuntman, RemoveRouter
  <2>2. pc'[u] \in TeardownStates
    BY <1>7 DEF RecoverRoute, DecreasePodRef, DecreasePodRefPut, RemoveRoute, RecoverOriginalService,
       RecoverOriginalServicePut, RemoveStuntman, RemoveRouter, TeardownStates
  <2>3. SparePhase(u)'
    BY <1>0, <2>1, <2>2 DEF SparePhase, BeforeStored, WithoutPod, TeardownStates
  <2>. QED
    BY <1>m, <2>1, <2>3
<1>8. ASSUME CleanService(u) PROVE Moved(u) \/ ServiceDropped(u)
  <2>1. pc[u] = "dropSvc" /\ pc'[u] = "dropShadow" /\ UNCHANGED <<store, shadowPod>>
    BY <1>8 DEF CleanService
  <2>2. CASE Stored(u, "service")
    BY <1>0, <1>8, <2>1, <2>2 DEF CleanService, ServiceDropped, Notes
  <2>3. CASE ~Stored(u, "service")
    <3>1. UNCHANGED shadows
      BY <1>0, <1>8, <2>3 DEF CleanService
    <3>2. SparePhase(u)'
      BY <1>0, <2>1, <3>1 DEF SparePhase, BeforeStored, WithoutPod
    <3>. QED
      BY <1>m, <2>1, <3>1, <3>2
  <2>. QED
    BY <2>2, <2>3
<1>9. ASSUME CleanShadow(u) PROVE Moved(u) \/ PodDropped(u)
  <2>1. pc[u] = "dropShadow" /\ pc'[u] = "exited" /\ UNCHANGED <<store, shadowSvc>>
    BY <1>9 DEF CleanShadow
  <2>2. CASE UNCHANGED shadowPod
    <3>1. SparePhase(u)'
      BY <1>0, <2>1, <2>2 DEF SparePhase, BeforeStored, WithoutPod
    <3>. QED
      BY <1>m, <2>1, <2>2, <3>1
  <2>3. CASE ~UNCHANGED shadowPod
    BY <1>0, <1>9, <2>1, <2>3 DEF CleanShadow, PodDropped, Notes
  <2>. QED
    BY <2>2, <2>3
<1>. QED
  BY <1>a, <1>1, <1>2, <1>3, <1>4, <1>5, <1>6, <1>7, <1>8, <1>9 DEF MainStep, Setup, AutoMesh, CleanupWorkspace

\* What a step of the sessions does to shadow pods and services.
LEMMA SessionEffects ==
  ASSUME TypeOK, Sparing, SpareInv, Next
  PROVE  Effects
<1>0. "heartbeat" \notin allowed
  BY DEF Sparing
<1>1. ASSUME NEW u \in Users, MainStep(u) PROVE Effects
  BY <1>1, MainSteps DEF Effects
<1>2. ASSUME NEW m \in Users, ShadowGone(m) PROVE Effects
  BY <1>2 DEF ShadowGone, PodGone, Effects, process
<1>3. CASE (\E u \in Users : Watcher(u)) \/ RouterGone \/ Redeploy
  BY <1>3 DEF Watcher, StartWatch, WatchService, FixService, RouterGone, Redeploy, Effects, process, shadows
<1>. QED
  BY <1>0, <1>1, <1>2, <1>3 DEF Next, User, MainStep, HeartBeat

\* The last step of a tear-down ends the process.
LEMMA LastStep ==
  ASSUME TypeOK, NEW u \in Users, MainStep(u), pc[u] = "dropShadow"
  PROVE  pc'[u] \in Ended
<1>1. CASE LockService(u) \/ LockFails(u) \/ Quit(u)
  BY <1>1 DEF LockService, LockFails, Quit
<1>2. CASE Setup(u)
  BY <1>2, Phases, BusyStates DEF Setup, SetupStates
<1>3. CASE CleanupWorkspace(u)
  BY <1>3 DEF CleanupWorkspace, RecoverRoute, DecreasePodRef, DecreasePodRefPut, RemoveRoute,
     RecoverOriginalService, RecoverOriginalServicePut, RemoveStuntman, RemoveRouter, CleanService, CleanShadow,
     Goto, TypeOK, Ended
<1>4. CASE Crash(u)
  BY <1>4 DEF Crash, Goto, TypeOK, Ended
<1>. QED
  BY <1>1, <1>2, <1>3, <1>4 DEF MainStep

\* A process that has ended does not come back, and in its last state no other.
Onward ==
  /\ \A u \in Users : Living(u)' => Living(u)
  /\ \A u \in Users : pc[u] = "dropShadow" => pc'[u] \in {"dropShadow"} \cup Ended

LEMMA SessionOnward ==
  ASSUME TypeOK, Sparing, Next
  PROVE  Onward
<1>0. "heartbeat" \notin allowed
  BY DEF Sparing
<1>1. ASSUME NEW u \in Users, MainStep(u) PROVE Onward
  <2>1. \A v \in Users \ {u} : pc'[v] = pc[v]
    <3>1. CASE Crash(u)
      BY <3>1 DEF Crash, Goto, TypeOK
    <3>2. CASE ~Crash(u)
      BY <1>1, <3>2, OthersKept DEF MainStep
    <3>. QED
      BY <3>1, <3>2
  <2>2. Living(u)' => Living(u)
    <3>1. CASE Crash(u)
      BY <3>1 DEF Crash, Goto, TypeOK, Living, Ended
    <3>2. CASE ~Crash(u)
      BY <1>1, <3>2, EndedStays DEF MainStep, CalmStep, Living
    <3>. QED
      BY <3>1, <3>2
  <2>. QED
    BY <1>1, <2>1, <2>2, LastStep DEF Onward, Living
<1>2. CASE Beside
  BY <1>2, Background DEF Onward, Living
<1>. QED
  BY <1>0, <1>1, <1>2 DEF Next, User, MainStep, HeartBeat, Beside

LEMMA SessionTurns ==
  ASSUME TypeOK, Sparing, Turns, Next
  PROVE  Turns'
<1>0. "heartbeat" \notin allowed /\ InTurns
  BY DEF Sparing, InTurns
<1>1. ASSUME NEW u \in Users, Crash(u) PROVE Turns'
  <2>1. /\ locked' = locked \ {u} /\ pc'[u] = "dead"
        /\ \A v \in Users \ {u} : pc'[v] = pc[v]
    BY <1>1 DEF Crash, Goto, TypeOK
  <2>2. "dead" \notin Busy /\ "dead" \notin SetupStates
    BY BusyStates DEF SetupStates
  <2>. QED
    BY <2>1, <2>2 DEF Turns
<1>2. CASE CalmStep
  BY <1>0, <1>2, TurnsStep
<1>. QED
  BY <1>0, <1>1, <1>2 DEF Next, User, HeartBeat, CalmStep

-------------------------------------------------------------------------------
(* What such steps keep *)

LEMMA SparePhasesKept ==
  ASSUME TypeOK, SpareInv, Effects
  PROVE  SparePhases'
<1>0. /\ Turns /\ SparePhases /\ PodCreators
      /\ \A u \in Users : Mode[u] \in {"mesh", "exchange"} /\ Mark[u] \in Users
  BY ConstantsAssumption DEF SpareInv, ConstantsAssumption
<1>1. CASE UNCHANGED <<shadows, pc, store>>
  BY <1>0, <1>1 DEF SparePhases, SparePhase, Stored, shadows
<1>2. ASSUME NEW u \in Users, Alone(u), SparePhase(u)',
             \A v \in Users \ {u} : Mode[v] = "mesh" /\ pc[v] \in WithoutPod => shadowPod'[Mark[v]] = shadowPod[Mark[v]]
      PROVE  SparePhases'
  BY <1>0, <1>2 DEF SparePhases, SparePhase, Stored, Alone
<1>3. ASSUME NEW u \in Users, Alone(u), Moved(u) PROVE SparePhases'
  BY <1>2, <1>3 DEF Moved, shadows
<1>4. ASSUME NEW u \in Users, Alone(u), NewService(u) PROVE SparePhases'
  <2>1. SparePhase(u)'
    BY <1>0, <1>4 DEF NewService, SparePhases, SparePhase, Notes, BeforeStored, WithoutPod
  <2>. QED
    BY <1>2, <1>4, <2>1 DEF NewService
<1>5. ASSUME NEW u \in Users, Alone(u), NewPod(u) PROVE SparePhases'
  <2>1. SparePhase(u)'
    BY <1>0, <1>5 DEF NewPod, SparePhases, SparePhase, Notes, BeforeStored, WithoutPod
  <2>2. \A v \in Users \ {u} : pc[v] \notin WithoutPod
    BY <1>0, <1>5, BusyStates DEF NewPod, Turns, WithoutPod, BeforeStored
  <2>. QED
    BY <1>2, <1>5, <2>1, <2>2
<1>6. ASSUME NEW u \in Users, Alone(u), ServiceDropped(u) PROVE SparePhases'
  <2>1. SparePhase(u)'
    BY <1>0, <1>6 DEF ServiceDropped, SparePhases, SparePhase, Notes, BeforeStored, WithoutPod
  <2>. QED
    BY <1>2, <1>6, <2>1 DEF ServiceDropped
<1>7. ASSUME NEW u \in Users, Alone(u), PodDropped(u) PROVE SparePhases'
  <2>1. SparePhase(u)'
    BY <1>0, <1>7 DEF PodDropped, SparePhases, SparePhase, Notes, BeforeStored, WithoutPod
  <2>2. \A v \in Users \ {u} : pc[v] \notin WithoutPod
    BY <1>0, <1>7, BusyStates DEF PodDropped, Turns, WithoutPod, BeforeStored
  <2>. QED
    BY <1>2, <1>7, <2>1, <2>2
<1>8. ASSUME NEW m \in Users, PodGone(m) PROVE SparePhases'
  BY <1>0, <1>8 DEF PodGone, SparePhases, SparePhase, Stored, TypeOK
<1>. QED
  BY <1>1, <1>3, <1>4, <1>5, <1>6, <1>7, <1>8 DEF Effects

LEMMA PodOf ==
  ASSUME PodCreators
  PROVE  \A u \in Users : Living(u) /\ Stored(u, "shadow") =>
           shadowPod[Mark[u]].state = "alive" /\ shadowPod[Mark[u]].owner = u
<1>1. ASSUME NEW u \in Users, Living(u), Stored(u, "shadow")
      PROVE  shadowPod[Mark[u]].state = "alive" /\ shadowPod[Mark[u]].owner = u
  <2>1. shadowPod[Mark[u]] = [state |-> "alive", owner |-> u]
    BY <1>1 DEF PodCreators
  <2>. QED
    BY <2>1
<1>. QED
  BY <1>1

LEMMA PodCreatorsKept ==
  ASSUME TypeOK, SpareInv, Effects, Onward
  PROVE  PodCreators'
<1>0. /\ PodCreators /\ \A u \in Users : Mark[u] \in Users
      /\ \A u \in Users : Living(u)' => Living(u)
  BY ConstantsAssumption DEF SpareInv, ConstantsAssumption, Onward
<1>1. CASE UNCHANGED <<shadows, pc, store>>
  BY <1>0, <1>1 DEF PodCreators, Living, Stored, shadows
<1>2. ASSUME NEW u \in Users, Alone(u), Notes(u, {}) \/ Notes(u, {"service"}), UNCHANGED shadowPod
      PROVE  PodCreators'
  <2>1. \A v \in Users : Stored(v, "shadow")' <=> Stored(v, "shadow")
    BY <1>2 DEF Alone, Notes, Stored
  <2>. QED
    BY <1>0, <1>2, <2>1 DEF PodCreators
<1>3. ASSUME NEW u \in Users, Alone(u), NewPod(u) PROVE PodCreators'
  <2>1. /\ Stored(u, "shadow")' /\ \A v \in Users \ {u} : Stored(v, "shadow")' <=> Stored(v, "shadow")
        /\ shadowPod'[Mark[u]] = [state |-> "alive", owner |-> u]
        /\ \A m \in Users \ {Mark[u]} : shadowPod'[m] = shadowPod[m]
    BY <1>0, <1>3 DEF Alone, NewPod, Notes, Stored, TypeOK
  <2>2. \A v \in Users \ {u} : Living(v) /\ Stored(v, "shadow") => Mark[v] # Mark[u]
    BY <1>0, <1>3, PodOf DEF NewPod
  <2>. QED
    BY <1>0, <2>1, <2>2 DEF PodCreators
<1>4. ASSUME NEW u \in Users, Alone(u), PodDropped(u) PROVE PodCreators'
  <2>1. /\ \A v \in Users : Stored(v, "shadow")' <=> Stored(v, "shadow")
        /\ shadowPod'[Mark[u]] = [state |-> "terminating", owner |-> shadowPod[Mark[u]].owner]
        /\ \A m \in Users \ {Mark[u]} : shadowPod'[m] = shadowPod[m]
    BY <1>0, <1>4 DEF Alone, PodDropped, Notes, Stored, TypeOK
  <2>2. shadowPod[Mark[u]] = [state |-> "alive", owner |-> u] /\ ~Living(u)'
    BY <1>0, <1>4 DEF PodCreators, PodDropped, Living, Ended
  <2>3. \A v \in Users \ {u} : Living(v) /\ Stored(v, "shadow") => Mark[v] # Mark[u]
    BY <1>0, <2>2, PodOf
  <2>. QED
    BY <1>0, <2>1, <2>2, <2>3 DEF PodCreators
<1>5. ASSUME NEW m \in Users, PodGone(m) PROVE PodCreators'
  <2>1. /\ shadowPod'[m].state = "absent" /\ shadowPod[m].state = "terminating"
        /\ \A n \in Users \ {m} : shadowPod'[n] = shadowPod[n]
        /\ UNCHANGED <<pc, store>>
    BY <1>5 DEF PodGone, TypeOK
  <2>. QED
    BY <1>0, <2>1 DEF PodCreators, Stored, Living
<1>. QED
  BY <1>1, <1>2, <1>3, <1>4, <1>5 DEF Effects, Moved, NewService, ServiceDropped, shadows

LEMMA SvcCreatorsKept ==
  ASSUME TypeOK, SpareInv, Effects, Onward
  PROVE  SvcCreators'
<1>0. /\ SvcCreators /\ \A u \in Users : Mark[u] \in Users
      /\ Onward /\ NoUser \notin Users
      /\ \A m \in Users : shadowSvc[m] \in Users \cup {NoUser}
  BY ConstantsAssumption DEF SpareInv, ConstantsAssumption, TypeOK
<1> USE DEF Living
<1>1. CASE UNCHANGED <<shadows, pc, store>>
  BY <1>0, <1>1 DEF SvcCreators, OwnsShadowService, Stored, shadows
<1>2. ASSUME NEW u \in Users, Alone(u), Notes(u, {}) \/ Notes(u, {"shadow"}), UNCHANGED shadowSvc
      PROVE  SvcCreators'
  <2>1. \A v \in Users : Stored(v, "service")' <=> Stored(v, "service")
    BY <1>2 DEF Alone, Notes, Stored
  <2>. QED
    BY <1>0, <1>2, <2>1 DEF SvcCreators, OwnsShadowService, Onward
<1>3. ASSUME NEW u \in Users, Alone(u), NewService(u) PROVE SvcCreators'
  <2>1. /\ Stored(u, "service")' /\ \A v \in Users \ {u} : Stored(v, "service")' <=> Stored(v, "service")
        /\ shadowSvc'[Mark[u]] = u /\ \A m \in Users \ {Mark[u]} : shadowSvc'[m] = shadowSvc[m]
    BY <1>0, <1>3 DEF Alone, NewService, Notes, Stored, TypeOK
  <2>2. \A v \in Users \ {u} :
          Stored(v, "service") /\ pc[v] \notin {"dropShadow"} \cup Ended => Mark[v] # Mark[u]
    <3>1. shadowSvc[Mark[u]] = NoUser
      BY <1>3 DEF NewService
    <3>2. ASSUME NEW v \in Users, Stored(v, "service"), pc[v] \notin {"dropShadow"} \cup Ended
          PROVE  shadowSvc[Mark[v]] = v /\ v # NoUser
      BY <1>0, <3>2 DEF SvcCreators, OwnsShadowService
    <3>. QED
      BY <3>1, <3>2
  <2>3. \A v \in Users \ {u} : pc'[v] = pc[v]
    BY <1>3 DEF Alone
  <2>4. \A v \in Users : OwnsShadowService(v)'
    BY <1>0, <2>1, <2>2, <2>3 DEF SvcCreators, OwnsShadowService
  <2>5. \A m \in Users : shadowSvc'[m] # NoUser => Mark[shadowSvc'[m]] = m /\ Stored(shadowSvc[m], "service")'
    BY <1>0, <2>1 DEF SvcCreators
  <2>. QED
    BY <2>4, <2>5 DEF SvcCreators
<1>4. ASSUME NEW u \in Users, Alone(u), ServiceDropped(u) PROVE SvcCreators'
  <2>1. /\ \A v \in Users : Stored(v, "service")' <=> Stored(v, "service")
        /\ shadowSvc'[Mark[u]] = NoUser /\ \A m \in Users \ {Mark[u]} : shadowSvc'[m] = shadowSvc[m]
    BY <1>0, <1>4 DEF Alone, ServiceDropped, Notes, Stored, TypeOK
  <2>2. shadowSvc[Mark[u]] = u /\ pc'[u] = "dropShadow"
    BY <1>0, <1>4 DEF SvcCreators, OwnsShadowService, ServiceDropped, Ended
  <2>3. \A v \in Users \ {u} :
          Stored(v, "service") /\ pc[v] \notin {"dropShadow"} \cup Ended => Mark[v] # Mark[u]
    <3>1. ASSUME NEW v \in Users, Stored(v, "service"), pc[v] \notin {"dropShadow"} \cup Ended
          PROVE  shadowSvc[Mark[v]] = v
      BY <1>0, <3>1 DEF SvcCreators, OwnsShadowService
    <3>. QED
      BY <2>2, <3>1
  <2>4. \A v \in Users \ {u} : pc'[v] = pc[v]
    BY <1>4 DEF Alone
  <2>5. \A v \in Users : OwnsShadowService(v)'
    BY <1>0, <2>1, <2>2, <2>3, <2>4 DEF SvcCreators, OwnsShadowService
  <2>6. \A m \in Users : shadowSvc'[m] # NoUser => Mark[shadowSvc'[m]] = m /\ Stored(shadowSvc[m], "service")'
    BY <1>0, <2>1 DEF SvcCreators
  <2>. QED
    BY <2>5, <2>6 DEF SvcCreators
<1>5. ASSUME NEW m \in Users, PodGone(m) PROVE SvcCreators'
  BY <1>0, <1>5 DEF PodGone, SvcCreators, OwnsShadowService, Stored
<1>. QED
  BY <1>1, <1>2, <1>3, <1>4, <1>5 DEF Effects, Moved, NewPod, PodDropped, shadows

\* Who creates something renews its heart beat from then on.
LEMMA BeatenKept ==
  ASSUME TypeOK, SpareInv, Effects, Onward, Age
  PROVE  Beaten'
<1> SUFFICES ASSUME NEW v \in Users, Living(v)'
             PROVE  /\ Stored(v, "service")' => "service" \in beats'[v]
                    /\ Stored(v, "shadow")' => "pod" \in beats'[v]
  BY DEF Beaten
<1>0. /\ Living(v) /\ Beaten /\ Mark[v] \in Users
      /\ beats'[v] = beats[v] \cup Creates(v)
  BY ConstantsAssumption DEF SpareInv, ConstantsAssumption, Onward, Age, Renewed, Living
<1>1. CASE Stored(v, "service")' => Stored(v, "service")
  <2>1. CASE Stored(v, "shadow")' => Stored(v, "shadow")
    BY <1>0, <1>1, <2>1 DEF Beaten
  <2>2. CASE Stored(v, "shadow")' /\ ~Stored(v, "shadow")
    <3>1. NewPod(v)
      BY <2>2 DEF Effects, Alone, Moved, NewService, ServiceDropped, PodDropped, PodGone, Notes, Stored
    <3>2. "pod" \in Creates(v)
      BY <1>0, <3>1 DEF NewPod, Creates, Attempts, Resources, TypeOK
    <3>. QED
      BY <1>0, <1>1, <3>2 DEF Beaten
  <2>. QED
    BY <2>1, <2>2
<1>2. CASE Stored(v, "service")' /\ ~Stored(v, "service")
  <2>1. NewService(v)
    BY <1>2 DEF Effects, Alone, Moved, NewPod, ServiceDropped, PodDropped, PodGone, Notes, Stored
  <2>2. "service" \in Creates(v)
    BY <2>1 DEF NewService, Creates, Attempts, Resources
  <2>3. Stored(v, "shadow")' => Stored(v, "shadow")
    BY <2>1 DEF NewService, Notes
  <2>. QED
    BY <1>0, <2>2, <2>3 DEF Beaten
<1>. QED
  BY <1>1, <1>2

\* What a dead process has left only the kubelet changes.
LEMMA DeadKept ==
  ASSUME TypeOK, SpareInv, Effects, Onward, NEW m \in Users
  PROVE  /\ shadowPod[m].state # "absent" /\ ~Living(shadowPod[m].owner) =>
              /\ pc'[shadowPod[m].owner] \in Ended
              /\ \/ shadowPod'[m] = shadowPod[m]
                 \/ shadowPod'[m].state = "absent" /\ shadowPod[m].state = "terminating"
         /\ shadowSvc[m] # NoUser /\ ~Living(shadowSvc[m]) =>
              shadowSvc'[m] = shadowSvc[m] /\ pc'[shadowSvc[m]] \in Ended

<1>0. /\ PodCreators /\ SvcCreators /\ Onward /\ \A u \in Users : Mark[u] \in Users
      /\ NoUser \notin Users /\ shadowSvc[m] \in Users \cup {NoUser}
  BY ConstantsAssumption DEF SpareInv, ConstantsAssumption, TypeOK
<1>1. ASSUME shadowPod[m].state # "absent", ~Living(shadowPod[m].owner)
      PROVE  /\ pc'[shadowPod[m].owner] \in Ended
             /\ \/ shadowPod'[m] = shadowPod[m]
                \/ shadowPod'[m].state = "absent" /\ shadowPod[m].state = "terminating"
  <2>1. shadowPod[m].owner \in Users
    BY <1>0, <1>1 DEF PodCreators
  <2>2. pc'[shadowPod[m].owner] \in Ended
    BY <1>0, <1>1, <2>1 DEF Onward, Living
  <2>3. ASSUME NEW u \in Users, NewPod(u) PROVE shadowPod'[m] = shadowPod[m]
    BY <1>0, <1>1, <2>3 DEF NewPod, TypeOK
  <2>4. ASSUME NEW u \in Users, PodDropped(u) PROVE shadowPod'[m] = shadowPod[m]
    <3>1. Stored(u, "shadow") /\ Living(u)
      BY <2>4 DEF PodDropped, Living, Ended
    <3>2. shadowPod[Mark[u]] = [state |-> "alive", owner |-> u]
      BY <1>0, <3>1 DEF PodCreators
    <3>. QED
      BY <1>0, <1>1, <2>4, <3>1, <3>2 DEF PodDropped, TypeOK
  <2>5. ASSUME NEW n \in Users, PodGone(n)
        PROVE  \/ shadowPod'[m] = shadowPod[m]
               \/ shadowPod'[m].state = "absent" /\ shadowPod[m].state = "terminating"
    BY <2>5 DEF PodGone, TypeOK
  <2>. QED
    BY <2>2, <2>3, <2>4, <2>5 DEF Effects, Moved, NewService, ServiceDropped, shadows
<1>2. ASSUME shadowSvc[m] # NoUser, ~Living(shadowSvc[m])
      PROVE  shadowSvc'[m] = shadowSvc[m] /\ pc'[shadowSvc[m]] \in Ended
  <2>1. shadowSvc[m] \in Users
    BY <1>0, <1>2
  <2>2. pc'[shadowSvc[m]] \in Ended
    BY <1>0, <1>2, <2>1 DEF Onward, Living
  <2>3. ASSUME NEW u \in Users, NewService(u) PROVE shadowSvc'[m] = shadowSvc[m]
    BY <1>0, <1>2, <2>3 DEF NewService, TypeOK
  <2>4. ASSUME NEW u \in Users, ServiceDropped(u) PROVE shadowSvc'[m] = shadowSvc[m]
    <3>1. shadowSvc[Mark[u]] = u /\ Living(u)
      BY <1>0, <2>4 DEF ServiceDropped, SvcCreators, OwnsShadowService, Living, Ended
    <3>. QED
      BY <1>0, <1>2, <2>4, <3>1 DEF ServiceDropped, TypeOK
  <2>. QED
    BY <2>2, <2>3, <2>4 DEF Effects, Moved, NewPod, PodDropped, PodGone, shadows
<1>. QED
  BY <1>1, <1>2

LEMMA OldAreDeadKept ==
  ASSUME TypeOK, SpareInv, Effects, Onward, Age, UNCHANGED lists
  PROVE  OldAreDead'
<1>0. OldAreDead /\ NoUser \notin Users /\ toPods' = toPods /\ toSvcs' = toSvcs
  BY ConstantsAssumption DEF SpareInv, ConstantsAssumption, lists
<1>1. \A m \in Users : m \in oldPods' => m \in oldPods /\ shadowPod'[m].state # "absent"
  BY <1>0 DEF Age, PodThere
<1>2. \A m \in Users : m \in oldSvcs' => m \in oldSvcs
  BY DEF Age
<1>3. ASSUME NEW m \in Users, m \in oldPods' PROVE shadowPod'[m].state # "absent" /\ pc'[shadowPod'[m].owner] \in Ended
  BY <1>0, <1>1, <1>3, DeadKept DEF OldAreDead
<1>4. ASSUME NEW m \in Users, m \in toPods PROVE shadowPod'[m].state = "alive" /\ pc'[shadowPod'[m].owner] \in Ended
  BY <1>0, <1>4, DeadKept DEF OldAreDead
<1>5. ASSUME NEW m \in Users, m \in oldSvcs' \cup toSvcs PROVE shadowSvc'[m] # NoUser /\ pc'[shadowSvc'[m]] \in Ended
  BY <1>0, <1>2, <1>5, DeadKept DEF OldAreDead
<1>. QED
  BY <1>0, <1>3, <1>4, <1>5 DEF OldAreDead, Living

LEMMA SessionSpares ==
  ASSUME TypeOK, Sparing, SpareInv, Session
  PROVE  SpareInv'
<1>1. Next /\ Age /\ UNCHANGED <<tool, lists>>
  BY DEF Session
<1>2. Effects /\ Onward
  BY <1>1, SessionEffects, SessionOnward
<1>3. Turns'
  BY <1>1, SessionTurns DEF SpareInv
<1>. QED
  BY <1>1, <1>2, <1>3, SparePhasesKept, PodCreatorsKept, SvcCreatorsKept, BeatenKept, OldAreDeadKept DEF SpareInv

-------------------------------------------------------------------------------
(* The steps of ktctl clean *)

\* The sessions stay where they are.
Still == UNCHANGED <<pc, store, locked>>

\* A step of the tool that removes nothing.
LEMMA NothingRemoved ==
  ASSUME SpareInv, Still, UNCHANGED shadows, Beaten', OldAreDead', tool' \in CleanSteps \cup {"idle"}
  PROVE  SpareInv'
<1> USE DEF Still, SpareInv, shadows
<1>1. Turns'
  BY DEF Turns
<1>2. SparePhases'
  BY DEF SparePhases, SparePhase, Stored
<1>3. PodCreators' /\ SvcCreators'
  BY DEF PodCreators, SvcCreators, OwnsShadowService, Living, Stored
<1>. QED
  BY <1>1, <1>2, <1>3

LEMMA SameBeats ==
  ASSUME SpareInv, Still, UNCHANGED beats
  PROVE  Beaten'
  BY DEF SpareInv, Still, Beaten, Living, Stored

LEMMA SameLists ==
  ASSUME OldAreDead, Still, UNCHANGED <<shadows, oldPods, oldSvcs>>,
         toPods' \subseteq toPods, toSvcs' \subseteq toSvcs
  PROVE  OldAreDead'
  BY DEF OldAreDead, Still, shadows, Living

\* The beats of living processes go on while the tool works.
LEMMA ToolAge ==
  ASSUME SpareInv, Still, Age
  PROVE  Beaten'
<1> SUFFICES ASSUME NEW v \in Users, Living(v)'
             PROVE  /\ Stored(v, "service")' => "service" \in beats'[v]
                    /\ Stored(v, "shadow")' => "pod" \in beats'[v]
  BY DEF Beaten
<1>. QED
  BY DEF SpareInv, Beaten, Still, Age, Renewed, Living, Stored


\* A pod on the list is a dead process', ...
LEMMA PodSwept ==
  ASSUME TypeOK, Sparing, SpareInv, NEW n \in toPods, RemovesPod(n), toPods' = toPods \ {n},
         UNCHANGED <<tool, toSvcs>>
  PROVE  SpareInv'
<1>0. /\ Turns /\ SparePhases /\ PodCreators /\ SvcCreators /\ OldAreDead /\ ~Fails
      /\ NoUser \notin Users /\ \A u \in Users : Mark[u] \in Users
  BY ConstantsAssumption DEF SpareInv, ConstantsAssumption, Sparing, Fails
<1>1. Still /\ UNCHANGED shadowSvc /\ Age
  BY DEF RemovesPod, Still, process
<1>2. ASSUME NEW m \in Users
      PROVE  \/ shadowPod'[m] = shadowPod[m] /\ (m = n => shadowPod[m].state # "alive")
             \/ /\ m = n /\ shadowPod[m].state = "alive" /\ ~Living(shadowPod[m].owner)
                /\ shadowPod'[m].state = "terminating" /\ shadowPod'[m].owner = shadowPod[m].owner
  <2>1. CASE n = NoUser
    BY <1>0, <2>1 DEF RemovesPod, RemovePod
  <2>2. CASE n # NoUser /\ ~PodUp(n)
    BY <1>0, <2>2 DEF RemovesPod, RemovePod, PodUp
  <2>3. CASE n # NoUser /\ PodUp(n)
    <3>1. shadowPod' = [shadowPod EXCEPT ![n].state = "terminating"]
      BY <1>0, <2>3 DEF RemovesPod, RemovePod
    <3>. QED
      BY <1>0, <2>3, <3>1 DEF OldAreDead, TypeOK
  <2>. QED
    BY <2>1, <2>2, <2>3
<1>3. Turns' /\ SvcCreators'
  BY <1>0, <1>1 DEF Turns, Still, SvcCreators, OwnsShadowService, Stored
<1>4. SparePhases'
  BY <1>0, <1>1, <1>2 DEF SparePhases, SparePhase, Still, Stored
<1>5. PodCreators'
  <2>1. ASSUME NEW u \in Users, Living(u)', Stored(u, "shadow")'
        PROVE  shadowPod'[Mark[u]] = [state |-> "alive", owner |-> u]
    <3>1. Living(u) /\ Stored(u, "shadow")
      BY <1>1, <2>1 DEF Still, Living, Stored
    <3>2. shadowPod[Mark[u]] = [state |-> "alive", owner |-> u]
      BY <1>0, <3>1 DEF PodCreators
    <3>. QED
      BY <1>0, <1>2, <3>1, <3>2
  <2>2. ASSUME NEW m \in Users, shadowPod'[m].state # "absent"
        PROVE  /\ shadowPod'[m].owner \in Users /\ Mark[shadowPod'[m].owner] = m /\ Stored(shadowPod[m].owner, "shadow")'
               /\ shadowPod'[m].state = "terminating" => ~Living(shadowPod[m].owner)'
    BY <1>0, <1>1, <1>2, <2>2 DEF PodCreators, Still, Living, Stored
  <2>. QED
    BY <2>1, <2>2 DEF PodCreators
<1>6. OldAreDead'
  <2>1. \A m \in Users : m \in oldPods' => m \in oldPods
    BY <1>1 DEF Age
  <2>2. \A m \in Users : m \in oldSvcs' => m \in oldSvcs
    BY <1>1 DEF Age
  <2>3. ASSUME NEW m \in Users, m \in oldPods PROVE shadowPod'[m].state # "absent" /\ ~Living(shadowPod[m].owner)'
    BY <1>0, <1>1, <1>2, <2>3 DEF OldAreDead, Still, Living
  <2>4. ASSUME NEW m \in Users, m \in toPods' PROVE shadowPod'[m].state = "alive" /\ ~Living(shadowPod[m].owner)'
    BY <1>0, <1>1, <1>2, <2>4 DEF OldAreDead, Still, Living
  <2>5. ASSUME NEW m \in Users, m \in oldSvcs' \cup toSvcs' PROVE shadowSvc'[m] # NoUser /\ ~Living(shadowSvc[m])'
    BY <1>0, <1>1, <2>2, <2>5 DEF OldAreDead, Still, Living
  <2>. QED
    BY <2>1, <2>3, <2>4, <2>5 DEF OldAreDead
<1>. QED
  BY <1>1, <1>3, <1>4, <1>5, <1>6, ToolAge DEF SpareInv

\* ... and so is a service.
LEMMA ServiceSwept ==
  ASSUME TypeOK, Sparing, SpareInv, NEW n \in toSvcs, RemovesService(n), toSvcs' = toSvcs \ {n},
         UNCHANGED <<tool, toPods>>
  PROVE  SpareInv'
<1>0. /\ Turns /\ SparePhases /\ PodCreators /\ SvcCreators /\ OldAreDead /\ ~Fails
      /\ NoUser \notin Users /\ \A u \in Users : Mark[u] \in Users
  BY ConstantsAssumption DEF SpareInv, ConstantsAssumption, Sparing, Fails
<1>1. Still /\ UNCHANGED shadowPod /\ Age
  BY DEF RemovesService, Still, process
<1>2. ASSUME NEW m \in Users
      PROVE  \/ shadowSvc'[m] = shadowSvc[m] /\ m # n
             \/ m = n /\ shadowSvc[m] # NoUser /\ ~Living(shadowSvc[m]) /\ shadowSvc'[m] = NoUser
  <2>1. CASE n = NoUser
    BY <1>0, <2>1 DEF RemovesService, RemoveService
  <2>2. CASE n # NoUser
    <3>1. shadowSvc' = [shadowSvc EXCEPT ![n] = NoUser]
      BY <1>0, <2>2 DEF RemovesService, RemoveService
    <3>. QED
      BY <1>0, <2>2, <3>1 DEF OldAreDead, TypeOK
  <2>. QED
    BY <2>1, <2>2
<1>3. Turns' /\ SparePhases' /\ PodCreators'
  BY <1>0, <1>1 DEF Turns, Still, SparePhases, SparePhase, PodCreators, Living, Stored
<1>4. SvcCreators'
  <2>1. ASSUME NEW u \in Users PROVE OwnsShadowService(u)'
    <3>1. OwnsShadowService(u) /\ Mark[u] \in Users
      BY <1>0 DEF SvcCreators
    <3>2. shadowSvc[Mark[u]] = u /\ pc[u] \notin Ended => shadowSvc'[Mark[u]] = u
      BY <1>2, <3>1 DEF Living
    <3>. QED
      BY <1>1, <3>1, <3>2 DEF OwnsShadowService, Still, Stored
  <2>2. ASSUME NEW m \in Users, shadowSvc'[m] # NoUser
        PROVE  Mark[shadowSvc'[m]] = m /\ Stored(shadowSvc[m], "service")'
    BY <1>0, <1>1, <1>2, <2>2 DEF SvcCreators, Still, Stored
  <2>. QED
    BY <2>1, <2>2 DEF SvcCreators
<1>5. OldAreDead'
  <2>1. \A m \in Users : m \in oldPods' => m \in oldPods
    BY <1>1 DEF Age
  <2>2. \A m \in Users : m \in oldSvcs' => m \in oldSvcs /\ shadowSvc'[m] # NoUser
    BY <1>0, <1>1 DEF Age, SvcThere
  <2>3. ASSUME NEW m \in Users, m \in oldSvcs' \cup toSvcs' PROVE shadowSvc'[m] # NoUser /\ ~Living(shadowSvc[m])'
    BY <1>0, <1>1, <1>2, <2>2, <2>3 DEF OldAreDead, Still, Living
  <2>. QED
    BY <1>0, <1>1, <2>1, <2>3 DEF OldAreDead, Still, Living
<1>. QED
  BY <1>1, <1>3, <1>4, <1>5, ToolAge DEF SpareInv

\* Only what no living process has created grows old.
LEMMA ExpireSpares ==
  ASSUME TypeOK, SpareInv, Expire
  PROVE  SpareInv'
<1>0. /\ PodCreators /\ SvcCreators /\ OldAreDead /\ Beaten /\ NoUser \notin Users
      /\ \A m \in Users : shadowSvc[m] \in Users \cup {NoUser}
  BY ConstantsAssumption DEF SpareInv, ConstantsAssumption, TypeOK
<1>1. Still /\ UNCHANGED <<shadows, beats, tool, toPods, toSvcs>>
  BY DEF Expire, Still, state, shadows, process, lists
<1>2. ASSUME NEW m \in Users, PodThere(m), ~PodBeaten(m) PROVE shadowPod[m].state # "absent" /\ ~Living(shadowPod[m].owner)
  BY <1>0, <1>2 DEF PodThere, PodBeaten, PodCreators, Beaten
<1>3. ASSUME NEW m \in Users, SvcThere(m), ~SvcBeaten(m) PROVE shadowSvc[m] # NoUser /\ ~Living(shadowSvc[m])
  BY <1>0, <1>3 DEF SvcThere, SvcBeaten, SvcCreators, Beaten
<1>4. \A m \in Users : m \in oldPods' => m \in oldPods \/ (PodThere(m) /\ ~PodBeaten(m))
  BY DEF Expire
<1>5. \A m \in Users : m \in oldSvcs' => m \in oldSvcs \/ (SvcThere(m) /\ ~SvcBeaten(m))
  BY DEF Expire
<1>6. OldAreDead'
  <2>1. \A m \in Users : m \in oldPods' => shadowPod[m].state # "absent" /\ ~Living(shadowPod[m].owner)
    BY <1>0, <1>2, <1>4 DEF OldAreDead
  <2>2. \A m \in Users : m \in oldSvcs' => shadowSvc[m] # NoUser /\ ~Living(shadowSvc[m])
    BY <1>0, <1>3, <1>5 DEF OldAreDead
  <2>. QED
    BY <1>0, <1>1, <2>1, <2>2 DEF OldAreDead, Still, shadows, Living
<1>. QED
  BY <1>1, <1>6, NothingRemoved, SameBeats DEF SpareInv


\* What the other steps of ktctl clean leave as it is.
LEMMA QuietStep ==
  ASSUME SpareInv, Still, UNCHANGED <<shadows, ages>>, toPods' \subseteq toPods, toSvcs' \subseteq toSvcs,
         tool' \in CleanSteps \cup {"idle"}
  PROVE  SpareInv'
<1>1. UNCHANGED <<beats, oldPods, oldSvcs>>
  BY DEF ages
<1>. QED
  BY <1>1, NothingRemoved, SameLists, SameBeats DEF SpareInv

LEMMA ToolSpares ==
  ASSUME TypeOK, Sparing, SpareInv, ToolStep, ~robbed'
  PROVE  SpareInv'
<1>0. "recover" \notin tools /\ tool \in CleanSteps \cup {"idle"}
  BY DEF Sparing, SpareInv, tools
<1> USE DEF Then, Still, CleanSteps
<1>1. CASE CheckClusterResources
  <2>1. Still /\ UNCHANGED <<shadows, beats, oldPods, oldSvcs>> /\ tool' \in CleanSteps \cup {"idle"}
    BY <1>1 DEF CheckClusterResources, state, ages, process
  <2>2. \A m \in Users : m \in toPods' => m \in oldPods /\ shadowPod[m].state = "alive"
    BY <1>1, ConstantsAssumption DEF CheckClusterResources, PodUp, ConstantsAssumption
  <2>3. toSvcs' = oldSvcs
    BY <1>1 DEF CheckClusterResources
  <2>4. OldAreDead'
    BY <2>1, <2>2, <2>3 DEF SpareInv, OldAreDead, shadows, Living
  <2>. QED
    BY <2>1, <2>4, NothingRemoved, SameBeats
<1>2. CASE AnalyseServices
  <2>1. Still /\ UNCHANGED <<shadows, ages, toPods, toSvcs>> /\ tool' \in CleanSteps \cup {"idle"}
    BY <1>2 DEF AnalyseServices, state, process
  <2>. QED
    BY <2>1, QuietStep
<1>3. CASE TidyPods
  <2>1. ASSUME NEW n \in toPods, RemovesPod(n), toPods' = toPods \ {n}, UNCHANGED tool
        PROVE  SpareInv'
    BY <1>3, <2>1, PodSwept DEF TidyPods
  <2>2. CASE toPods = {} /\ Then("services") /\ UNCHANGED <<state, ages, staleLock, history, toPods>>
    <3>1. Still /\ UNCHANGED <<shadows, ages, toPods, toSvcs>> /\ tool' \in CleanSteps \cup {"idle"}
      BY <1>3, <2>2 DEF TidyPods, state, process
    <3>. QED
      BY <3>1, QuietStep
  <2>. QED
    BY <1>3, <2>1, <2>2 DEF TidyPods
<1>4. CASE TidyServices
  <2>1. ASSUME NEW n \in toSvcs, RemovesService(n), toSvcs' = toSvcs \ {n}, UNCHANGED tool
        PROVE  SpareInv'
    BY <1>4, <2>1, ServiceSwept DEF TidyServices
  <2>2. CASE UNCHANGED <<state, ages, toSvcs>> /\ tool' \in CleanSteps \cup {"idle"}
    <3>1. Still /\ UNCHANGED <<shadows, ages, toPods, toSvcs>>
      BY <1>4, <2>2 DEF TidyServices, state, process
    <3>. QED
      BY <2>2, <3>1, QuietStep
  <2>. QED
    BY <1>4, <2>1, <2>2 DEF TidyServices
<1>5. CASE TidyRecover \/ TidyUnlock
  <2>1. Still /\ UNCHANGED <<shadows, ages, toPods, toSvcs>> /\ tool' \in CleanSteps \cup {"idle"}
    BY <1>5 DEF TidyRecover, TidyUnlock, ToolReads, AfterRecover, state, process, lists
  <2>. QED
    BY <2>1, QuietStep
<1>6. CASE TidyRecoverPut
  <2>1. Still /\ UNCHANGED <<shadows, ages, toPods, toSvcs>> /\ tool' \in CleanSteps \cup {"idle"}
    BY <1>6 DEF TidyRecoverPut, ServiceOnly, AfterRecover, process, lists
  <2>. QED
    BY <2>1, QuietStep
<1>7. CASE UnlockPut
  <2>1. UNCHANGED locked
    BY <1>7 DEF UnlockPut, DropLock
  <2>2. Still /\ UNCHANGED <<shadows, ages, toPods, toSvcs>> /\ tool' \in CleanSteps \cup {"idle"}
    BY <1>7, <2>1 DEF UnlockPut, ServiceOnly, process, lists
  <2>. QED
    BY <2>2, QuietStep
<1>8. ~Recover /\ ~RecoverService
  BY <1>0 DEF Recover, RecoverService, RecoverRouter, RecoverMeshed, RecoverStuntman, RecoverShadows, RecoverExchanged
<1>. QED
  BY <1>1, <1>2, <1>3, <1>4, <1>5, <1>6, <1>7, <1>8 DEF ToolStep, TidyClusterResources

\* What has been so far is not forgotten.
LEMMA SparingSince ==
  ASSUME [ToolsNext]_allVars, Sparing'
  PROVE  Sparing
<1> USE DEF history
<1>1. allowed' = allowed
  BY DEF ToolsNext, Session, Next, allVars, vars
<1>2. ASSUME robbed' = robbed PROVE Sparing
  BY <1>1, <1>2 DEF Sparing
<1>3. CASE Session \/ Expire \/ UNCHANGED allVars
  BY <1>2, <1>3 DEF Session, Expire, allVars, toolVars
<1>4. CASE CheckClusterResources \/ AnalyseServices \/ TidyRecover \/ TidyRecoverPut \/ TidyUnlock \/ Recover
           \/ RecoverShadows
  BY <1>2, <1>4 DEF CheckClusterResources, AnalyseServices, TidyRecover, TidyRecoverPut, TidyUnlock, Recover,
     RecoverShadows
<1>5. CASE TidyPods \/ TidyServices \/ RecoverRouter \/ RecoverStuntman
  BY <1>2, <1>5 DEF TidyPods, TidyServices, RecoverRouter, RecoverStuntman, RemovesPod, RemovesService
<1>6. CASE UnlockPut \/ RecoverMeshed \/ RecoverExchanged
  <2>1. CASE robbed' = robbed
    BY <1>2, <2>1
  <2>2. CASE robbed' = (robbed \/ locked # {})
    <3>1. ~robbed' /\ allowed' \subseteq {"clean", "crash"}
      BY DEF Sparing
    <3>2. ~robbed
      BY <2>2, <3>1, Zenon
    <3>. QED
      BY <1>1, <3>1, <3>2 DEF Sparing
  <2>. QED
    BY <1>6, <2>1, <2>2 DEF UnlockPut, RecoverMeshed, RecoverExchanged, RecoverPut, DropLock
<1>. QED
  BY <1>3, <1>4, <1>5, <1>6 DEF ToolsNext, ToolStep, TidyClusterResources, RecoverService

LEMMA SpareInit ==
  ASSUME ToolsInit
  PROVE  SpareInv
<1>0. NoUser \notin Users /\ \A u \in Users : Mode[u] \in {"mesh", "exchange"} /\ Mark[u] \in Users
  BY ConstantsAssumption DEF ConstantsAssumption
<1>1. \A u \in Users : pc[u] \in {"idle", "exited"} /\ ~Stored(u, "service") /\ ~Stored(u, "shadow")
  BY DEF ToolsInit, Init, Stored
<1>2. locked = {} /\ \A m \in Users : shadowSvc[m] = NoUser /\ shadowPod[m].state = "absent"
  BY DEF ToolsInit, Init
<1>3. Turns
  BY <1>1, <1>2, BusyStates DEF Turns, Ended, Busy
<1>4. SparePhases
  BY <1>0, <1>1, <1>2 DEF SparePhases, SparePhase, BeforeStored, WithoutPod
<1>5. PodCreators /\ SvcCreators /\ Beaten
  BY <1>0, <1>1, <1>2 DEF PodCreators, SvcCreators, OwnsShadowService, Beaten
<1>6. OldAreDead /\ tool = "idle"
  BY DEF ToolsInit, OldAreDead
<1>. QED
  BY <1>3, <1>4, <1>5, <1>6 DEF SpareInv

LEMMA SpareCorrect ==
  ToolsSpec => [](Sparing => SpareInv)
<1>1. ToolsInit => (Sparing => SpareInv)
  BY SpareInit
<1>2. ToolsInv /\ (Sparing => SpareInv) /\ [ToolsNext]_allVars => (Sparing => SpareInv)'
  <2> SUFFICES ASSUME ToolsInv, Sparing => SpareInv, [ToolsNext]_allVars, Sparing'
               PROVE  SpareInv'
    OBVIOUS
  <2>1. TypeOK /\ Sparing /\ SpareInv
    BY SparingSince DEF ToolsInv
  <2>2. ~robbed'
    BY DEF Sparing
  <2>3. CASE UNCHANGED allVars
    <3>1. Still /\ UNCHANGED <<shadows, ages, toPods, toSvcs, tool>>
      BY <2>3 DEF allVars, vars, state, toolVars, lists, process, Still
    <3>. QED
      BY <2>1, <3>1, QuietStep DEF SpareInv
  <2>. QED
    BY <2>1, <2>2, <2>3, SessionSpares, ExpireSpares, ToolSpares DEF ToolsNext
<1>. QED
  BY <1>1, <1>2, ToolsInvCorrect, PTL DEF ToolsSpec

\* While processes are killed and ktctl clean is used at any time, for any number of
\* users, a running session keeps the shadow pod and the shadow service it has created:
\* ktctl clean works from lists that may be old, and removes by name, yet it never takes
\* what has come to be another's, unless it has dropped a lock that somebody held.
THEOREM CleanSparesOwnCorrect == ToolsSpec => []CleanSparesOwn
<1>1. (Sparing => SpareInv) => CleanSparesOwn
  <2> SUFFICES ASSUME SpareInv, NEW u \in Users, pc[u] = "running"
               PROVE  /\ shadowPod[Mark[u]] = [state |-> "alive", owner |-> u]
                      /\ Mode[u] = "mesh" => shadowSvc[Mark[u]] = u
    BY DEF CleanSparesOwn, Sparing
  <2>1. Stored(u, "shadow") /\ Living(u) /\ (Mode[u] = "mesh" => Stored(u, "service"))
    BY DEF SpareInv, SparePhases, SparePhase, Living, Ended
  <2>2. shadowPod[Mark[u]] = [state |-> "alive", owner |-> u]
    BY <2>1 DEF SpareInv, PodCreators
  <2>3. Mode[u] = "mesh" => shadowSvc[Mark[u]] = u
    BY <2>1 DEF SpareInv, SvcCreators, OwnsShadowService, Ended
  <2>. QED
    BY <2>2, <2>3
<1>. QED
  BY <1>1, SpareCorrect, PTL
===============================================================================
