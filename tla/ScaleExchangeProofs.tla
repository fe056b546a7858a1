-------------------------- MODULE ScaleExchangeProofs --------------------------
(***************************************************************************)
(* Theorems about ScaleExchange, for any number of sessions, any number of *)
(* replicas and any scenarios: the replicas are recorded while the         *)
(* deployment is scaled down, they come back, and the service is served    *)
(* meanwhile.  Each part of the invariant has a lemma with one step per    *)
(* group of actions.                                                       *)
(***************************************************************************)
EXTENDS ScaleExchange, TLAPS

\* At first there is no session and the deployment has its replicas.
LEMMA InitIInv == Init => IInv
<1> SUFFICES ASSUME Init PROVE IInv
  OBVIOUS
<1> USE ConstantsAssumption DEF ConstantsAssumption
<1>1. allowed \subseteq Hazards /\ pc \in [Users -> {"idle", "exited"}]
  BY DEF Init
<1>2. TypeOK
  BY <1>1 DEF Init, TypeOK, States, Ended, Values
<1>3. ReplicasRead
  BY <1>1 DEF Init, ReplicasRead, Active, Ended
<1>4. Kept /\ WillRestore
  BY <1>1 DEF Init, Kept, WillRestore, SetupStates
<1>5. ShadowKept
  BY <1>1 DEF Init, ShadowKept
<1>6. NothingElse /\ ExchangeIntact
  BY <1>1 DEF Init, NothingElse, ExchangeIntact, Active, Ended
<1> QED
  BY <1>2, <1>3, <1>4, <1>5, <1>6 DEF IInv

\* Every step keeps the types: what is scaled back has been read.
LEMMA NextType == TypeOK /\ ReplicasRead /\ [Next]_vars => TypeOK'
<1> SUFFICES ASSUME TypeOK, ReplicasRead, [Next]_vars PROVE TypeOK'
  OBVIOUS
<1>0. beside' \subseteq Users
  BY DEF TypeOK, Next, vars
<1> USE <1>0, ConstantsAssumption DEF ConstantsAssumption, TypeOK, ReplicasRead, Active, States, SetupStates, TeardownStates, Ended, Values
<1>1. ASSUME NEW u \in Users, ByScale(u), UNCHANGED allowed PROVE TypeOK'
  BY <1>1 DEF ByScale, Goto, Alone, cluster, session, cleaning, recovery
<1>2. ASSUME NEW u \in Users, Exchange(u), UNCHANGED allowed PROVE TypeOK'
  BY <1>2 DEF Exchange, CreateConfigMap, CreateShadow, WaitReady, ScaleDown, Abort, Goto, cluster, session, cleaning, recovery
<1>3. ASSUME NEW u \in Users, Quit(u) \/ Crash(u), UNCHANGED allowed PROVE TypeOK'
  BY <1>3 DEF Quit, Crash, Goto, cluster, session, cleaning, recovery
<1>4. ASSUME NEW u \in Users, CleanupWorkspace(u), UNCHANGED allowed PROVE TypeOK'
  BY <1>4 DEF CleanupWorkspace, ScaleBack, WaitOver, WaitRecovered, RemoveConfigMap, RemoveShadow, PodRemoved, Goto, cluster, session, cleaning, recovery
<1>5. ASSUME NEW u \in Users, Expire(u) \/ HeartBeat(u), UNCHANGED allowed PROVE TypeOK'
  BY <1>5 DEF Expire, HeartBeat, cluster, session, cleaning, recovery
<1>6. ASSUME NEW u \in Users, PodStarts(u) \/ PodGone(u), UNCHANGED allowed PROVE TypeOK'
  BY <1>6 DEF PodStarts, PodGone, cluster, session, cleaning, recovery
<1>7. ASSUME Controller, UNCHANGED allowed PROVE TypeOK'
  BY <1>7 DEF Controller, cluster, session, cleaning, recovery
<1>8. ASSUME CheckClusterResources, UNCHANGED allowed PROVE TypeOK'
  BY <1>8 DEF CheckClusterResources, Recorded, Analysed, Expired, cluster, session, cleaning, recovery
<1>9. ASSUME TidyClusterResources, UNCHANGED allowed PROVE TypeOK'
  BY <1>9 DEF TidyClusterResources, TidyPods, PodRemoved, TidyConfigMaps, TidyScale, Rescaled, cluster, session, cleaning, recovery
<1>10. ASSUME Recover \/ RecoverRemovePod \/ RecoverScale, UNCHANGED allowed PROVE TypeOK'
  BY <1>10 DEF Recover, RecoverRemovePod, RecoverScale, PodRemoved, cluster, session, cleaning, recovery
<1>11. ASSUME CleanKilled \/ RecoverKilled, UNCHANGED allowed PROVE TypeOK'
  BY <1>11 DEF CleanKilled, RecoverKilled, cluster, session, cleaning, recovery
<1>12. CASE UNCHANGED vars
  BY <1>12 DEF vars, state, cluster, session, cleaning, recovery
<1> QED
  BY <1>1, <1>2, <1>3, <1>4, <1>5, <1>6, <1>7, <1>8, <1>9, <1>10, <1>11, <1>12 DEF Next, User, Tools

\* Who has read the replicas keeps them; they are zero only for a session that
\* starts while the deployment is scaled down.
LEMMA NextReplicasRead == TypeOK /\ ReplicasRead /\ [Next]_vars => ReplicasRead'
<1> SUFFICES ASSUME TypeOK, ReplicasRead, [Next]_vars PROVE ReplicasRead'
  OBVIOUS
<1> USE ConstantsAssumption DEF ConstantsAssumption, TypeOK, ReplicasRead, Active, Up, States, SetupStates, TeardownStates, Ended, Values
<1>1. ASSUME NEW u \in Users, ByScale(u), UNCHANGED allowed PROVE ReplicasRead'
  BY <1>1 DEF ByScale, Goto, Alone, cluster, session, cleaning, recovery
<1>2. ASSUME NEW u \in Users, Exchange(u), UNCHANGED allowed PROVE ReplicasRead'
  BY <1>2 DEF Exchange, CreateConfigMap, CreateShadow, WaitReady, ScaleDown, Abort, Goto, cluster, session, cleaning, recovery
<1>3. ASSUME NEW u \in Users, Quit(u) \/ Crash(u), UNCHANGED allowed PROVE ReplicasRead'
  BY <1>3 DEF Quit, Crash, Goto, cluster, session, cleaning, recovery
<1>4. ASSUME NEW u \in Users, CleanupWorkspace(u), UNCHANGED allowed PROVE ReplicasRead'
  BY <1>4 DEF CleanupWorkspace, ScaleBack, WaitOver, WaitRecovered, RemoveConfigMap, RemoveShadow, PodRemoved, Goto, cluster, session, cleaning, recovery
<1>5. ASSUME NEW u \in Users, Expire(u) \/ HeartBeat(u), UNCHANGED allowed PROVE ReplicasRead'
  BY <1>5 DEF Expire, HeartBeat, cluster, session, cleaning, recovery
<1>6. ASSUME NEW u \in Users, PodStarts(u) \/ PodGone(u), UNCHANGED allowed PROVE ReplicasRead'
  BY <1>6 DEF PodStarts, PodGone, cluster, session, cleaning, recovery
<1>7. ASSUME Controller, UNCHANGED allowed PROVE ReplicasRead'
  BY <1>7 DEF Controller, cluster, session, cleaning, recovery
<1>8. ASSUME CheckClusterResources, UNCHANGED allowed PROVE ReplicasRead'
  BY <1>8 DEF CheckClusterResources, Recorded, Analysed, Expired, cluster, session, cleaning, recovery
<1>9. ASSUME TidyClusterResources, UNCHANGED allowed PROVE ReplicasRead'
  BY <1>9 DEF TidyClusterResources, TidyPods, PodRemoved, TidyConfigMaps, TidyScale, Rescaled, cluster, session, cleaning, recovery
<1>10. ASSUME Recover \/ RecoverRemovePod \/ RecoverScale, UNCHANGED allowed PROVE ReplicasRead'
  BY <1>10 DEF Recover, RecoverRemovePod, RecoverScale, PodRemoved, cluster, session, cleaning, recovery
<1>11. ASSUME CleanKilled \/ RecoverKilled, UNCHANGED allowed PROVE ReplicasRead'
  BY <1>11 DEF CleanKilled, RecoverKilled, cluster, session, cleaning, recovery
<1>12. CASE UNCHANGED vars
  BY <1>12 DEF vars, state, cluster, session, cleaning, recovery
<1> QED
  BY <1>1, <1>2, <1>3, <1>4, <1>5, <1>6, <1>7, <1>8, <1>9, <1>10, <1>11, <1>12 DEF Next, User, Tools

\* The shadow of the session that scaled down last stays until it has scaled back,
\* or ktctl clean, which removes it, has noted the replicas.
LEMMA NextKept == TypeOK /\ TypeOK' /\ ReplicasRead /\ Kept /\ [Next]_vars => Kept'
<1> SUFFICES ASSUME TypeOK, TypeOK', ReplicasRead, Kept, [Next]_vars PROVE Kept'
  OBVIOUS
<1> USE ConstantsAssumption DEF ConstantsAssumption, TypeOK, ReplicasRead, Active, Kept, Keeps, Up, Only, KillHazards, Fails, Slow, States, SetupStates, TeardownStates, Ended, Values
<1>1. ASSUME NEW u \in Users, ByScale(u), UNCHANGED allowed PROVE Kept'
  BY <1>1 DEF ByScale, Goto, Alone, cluster, session, cleaning, recovery
<1>2. ASSUME NEW u \in Users, Exchange(u), UNCHANGED allowed PROVE Kept'
  BY <1>2 DEF Exchange, CreateConfigMap, CreateShadow, WaitReady, ScaleDown, Abort, Goto, cluster, session, cleaning, recovery
<1>3. ASSUME NEW u \in Users, Quit(u) \/ Crash(u), UNCHANGED allowed PROVE Kept'
  BY <1>3 DEF Quit, Crash, Goto, cluster, session, cleaning, recovery
<1>4. ASSUME NEW u \in Users, CleanupWorkspace(u), UNCHANGED allowed PROVE Kept'
  BY <1>4 DEF CleanupWorkspace, ScaleBack, WaitOver, WaitRecovered, RemoveConfigMap, RemoveShadow, PodRemoved, Goto, cluster, session, cleaning, recovery
<1>5. ASSUME NEW u \in Users, Expire(u) \/ HeartBeat(u), UNCHANGED allowed PROVE Kept'
  BY <1>5 DEF Expire, HeartBeat, cluster, session, cleaning, recovery
<1>6. ASSUME NEW u \in Users, PodStarts(u) \/ PodGone(u), UNCHANGED allowed PROVE Kept'
  BY <1>6 DEF PodStarts, PodGone, cluster, session, cleaning, recovery
<1>7. ASSUME Controller, UNCHANGED allowed PROVE Kept'
  BY <1>7 DEF Controller, cluster, session, cleaning, recovery
<1>8. ASSUME CheckClusterResources, UNCHANGED allowed PROVE Kept'
  BY <1>8 DEF CheckClusterResources, Recorded, Analysed, Expired, cluster, session, cleaning, recovery
<1>9. ASSUME TidyClusterResources, UNCHANGED allowed PROVE Kept'
  BY <1>9 DEF TidyClusterResources, TidyPods, PodRemoved, TidyConfigMaps, TidyScale, Rescaled, cluster, session, cleaning, recovery
<1>10. ASSUME Recover \/ RecoverRemovePod \/ RecoverScale, UNCHANGED allowed PROVE Kept'
  BY <1>10 DEF Recover, RecoverRemovePod, RecoverScale, PodRemoved, cluster, session, cleaning, recovery
<1>11. ASSUME CleanKilled \/ RecoverKilled, UNCHANGED allowed PROVE Kept'
  BY <1>11 DEF CleanKilled, RecoverKilled, cluster, session, cleaning, recovery
<1>12. CASE UNCHANGED vars
  BY <1>12 DEF vars, state, cluster, session, cleaning, recovery
<1> QED
  BY <1>1, <1>2, <1>3, <1>4, <1>5, <1>6, <1>7, <1>8, <1>9, <1>10, <1>11, <1>12 DEF Next, User, Tools

\* Only a running session scales down, and no living one ends before it has scaled
\* back; the tools only scale back.
LEMMA NextWillRestore == TypeOK /\ ReplicasRead /\ WillRestore /\ [Next]_vars => WillRestore'
<1> SUFFICES ASSUME TypeOK, ReplicasRead, WillRestore, [Next]_vars PROVE WillRestore'
  OBVIOUS
<1> USE ConstantsAssumption DEF ConstantsAssumption, TypeOK, ReplicasRead, Active, WillRestore, Only, EndHazards, Fails, Slow, States, SetupStates, TeardownStates, Ended, Values
<1>1. ASSUME NEW u \in Users, ByScale(u), UNCHANGED allowed PROVE WillRestore'
  BY <1>1 DEF ByScale, Goto, Alone, cluster, session, cleaning, recovery
<1>2. ASSUME NEW u \in Users, Exchange(u), UNCHANGED allowed PROVE WillRestore'
  BY <1>2 DEF Exchange, CreateConfigMap, CreateShadow, WaitReady, ScaleDown, Abort, Goto, cluster, session, cleaning, recovery
<1>3. ASSUME NEW u \in Users, Quit(u) \/ Crash(u), UNCHANGED allowed PROVE WillRestore'
  BY <1>3 DEF Quit, Crash, Goto, cluster, session, cleaning, recovery
<1>4. ASSUME NEW u \in Users, CleanupWorkspace(u), UNCHANGED allowed PROVE WillRestore'
  BY <1>4 DEF CleanupWorkspace, ScaleBack, WaitOver, WaitRecovered, RemoveConfigMap, RemoveShadow, PodRemoved, Goto, cluster, session, cleaning, recovery
<1>5. ASSUME NEW u \in Users, Expire(u) \/ HeartBeat(u), UNCHANGED allowed PROVE WillRestore'
  BY <1>5 DEF Expire, HeartBeat, cluster, session, cleaning, recovery
<1>6. ASSUME NEW u \in Users, PodStarts(u) \/ PodGone(u), UNCHANGED allowed PROVE WillRestore'
  BY <1>6 DEF PodStarts, PodGone, cluster, session, cleaning, recovery
<1>7. ASSUME Controller, UNCHANGED allowed PROVE WillRestore'
  BY <1>7 DEF Controller, cluster, session, cleaning, recovery
<1>8. ASSUME CheckClusterResources, UNCHANGED allowed PROVE WillRestore'
  BY <1>8 DEF CheckClusterResources, Recorded, Analysed, Expired, cluster, session, cleaning, recovery
<1>9. ASSUME TidyClusterResources, UNCHANGED allowed PROVE WillRestore'
  BY <1>9 DEF TidyClusterResources, TidyPods, PodRemoved, TidyConfigMaps, TidyScale, Rescaled, cluster, session, cleaning, recovery
<1>10. ASSUME Recover \/ RecoverRemovePod \/ RecoverScale, UNCHANGED allowed PROVE WillRestore'
  BY <1>10 DEF Recover, RecoverRemovePod, RecoverScale, PodRemoved, cluster, session, cleaning, recovery
<1>11. ASSUME CleanKilled \/ RecoverKilled, UNCHANGED allowed PROVE WillRestore'
  BY <1>11 DEF CleanKilled, RecoverKilled, cluster, session, cleaning, recovery
<1>12. CASE UNCHANGED vars
  BY <1>12 DEF vars, state, cluster, session, cleaning, recovery
<1> QED
  BY <1>1, <1>2, <1>3, <1>4, <1>5, <1>6, <1>7, <1>8, <1>9, <1>10, <1>11, <1>12 DEF Next, User, Tools

\* A session that leaves before the pods are there again leaves them to the session
\* that has scaled them down since.
LEMMA NextShadowKept == TypeOK /\ TypeOK' /\ ReplicasRead /\ ShadowKept /\ [Next]_vars => ShadowKept'
<1> SUFFICES ASSUME TypeOK, TypeOK', ReplicasRead, ShadowKept, [Next]_vars PROVE ShadowKept'
  OBVIOUS
<1> USE ConstantsAssumption DEF ConstantsAssumption, TypeOK, ReplicasRead, Active, ShadowKept, Serving, Up, Only, Fails, Slow, States, SetupStates, TeardownStates, Ended, Values
<1>1. ASSUME NEW u \in Users, ByScale(u), UNCHANGED allowed PROVE ShadowKept'
  BY <1>1 DEF ByScale, Goto, Alone, cluster, session, cleaning, recovery
<1>2. ASSUME NEW u \in Users, Exchange(u), UNCHANGED allowed PROVE ShadowKept'
  BY <1>2 DEF Exchange, CreateConfigMap, CreateShadow, WaitReady, ScaleDown, Abort, Goto, cluster, session, cleaning, recovery
<1>3. ASSUME NEW u \in Users, Quit(u) \/ Crash(u), UNCHANGED allowed PROVE ShadowKept'
  BY <1>3 DEF Quit, Crash, Goto, cluster, session, cleaning, recovery
<1>4. ASSUME NEW u \in Users, CleanupWorkspace(u), UNCHANGED allowed PROVE ShadowKept'
  BY <1>4 DEF CleanupWorkspace, ScaleBack, WaitOver, WaitRecovered, RemoveConfigMap, RemoveShadow, PodRemoved, Goto, cluster, session, cleaning, recovery
<1>5. ASSUME NEW u \in Users, Expire(u) \/ HeartBeat(u), UNCHANGED allowed PROVE ShadowKept'
  BY <1>5 DEF Expire, HeartBeat, cluster, session, cleaning, recovery
<1>6. ASSUME NEW u \in Users, PodStarts(u) \/ PodGone(u), UNCHANGED allowed PROVE ShadowKept'
  BY <1>6 DEF PodStarts, PodGone, cluster, session, cleaning, recovery
<1>7. ASSUME Controller, UNCHANGED allowed PROVE ShadowKept'
  BY <1>7 DEF Controller, cluster, session, cleaning, recovery
<1>8. ASSUME CheckClusterResources, UNCHANGED allowed PROVE ShadowKept'
  BY <1>8 DEF CheckClusterResources, Recorded, Analysed, Expired, cluster, session, cleaning, recovery
<1>9. ASSUME TidyClusterResources, UNCHANGED allowed PROVE ShadowKept'
  BY <1>9 DEF TidyClusterResources, TidyPods, PodRemoved, TidyConfigMaps, TidyScale, Rescaled, cluster, session, cleaning, recovery
<1>10. ASSUME Recover \/ RecoverRemovePod \/ RecoverScale, UNCHANGED allowed PROVE ShadowKept'
  BY <1>10 DEF Recover, RecoverRemovePod, RecoverScale, PodRemoved, cluster, session, cleaning, recovery
<1>11. ASSUME CleanKilled \/ RecoverKilled, UNCHANGED allowed PROVE ShadowKept'
  BY <1>11 DEF CleanKilled, RecoverKilled, cluster, session, cleaning, recovery
<1>12. CASE UNCHANGED vars
  BY <1>12 DEF vars, state, cluster, session, cleaning, recovery
<1> QED
  BY <1>1, <1>2, <1>3, <1>4, <1>5, <1>6, <1>7, <1>8, <1>9, <1>10, <1>11, <1>12 DEF Next, User, Tools

\* What ktctl clean takes into its lists is of sessions that are gone; who starts
\* before it is through is noted.
LEMMA NextNothingElse == TypeOK /\ TypeOK' /\ NothingElse /\ ExchangeIntact /\ [Next]_vars => (NothingElse /\ ExchangeIntact)'
<1> SUFFICES ASSUME TypeOK, TypeOK', NothingElse, ExchangeIntact, [Next]_vars PROVE (NothingElse /\ ExchangeIntact)'
  OBVIOUS
<1>0. beside \subseteq beside' /\ \A u \in Users : Starts(u) /\ cleaner # "idle" => u \in beside'
  BY DEF Next, vars, state, session, Starts
<1> USE <1>0, ConstantsAssumption DEF ConstantsAssumption, Starts, TypeOK, NothingElse, ExchangeIntact, Active, Up, Only, OneHazards, States, SetupStates, TeardownStates, Ended, Values
<1>1. ASSUME NEW u \in Users, ByScale(u), UNCHANGED allowed PROVE (NothingElse /\ ExchangeIntact)'
  BY <1>1 DEF ByScale, Goto, Alone, cluster, session, cleaning, recovery
<1>2. ASSUME NEW u \in Users, Exchange(u), UNCHANGED allowed PROVE (NothingElse /\ ExchangeIntact)'
  BY <1>2 DEF Exchange, CreateConfigMap, CreateShadow, WaitReady, ScaleDown, Abort, Goto, cluster, session, cleaning, recovery
<1>3. ASSUME NEW u \in Users, Quit(u) \/ Crash(u), UNCHANGED allowed PROVE (NothingElse /\ ExchangeIntact)'
  BY <1>3 DEF Quit, Crash, Goto, cluster, session, cleaning, recovery
<1>4. ASSUME NEW u \in Users, CleanupWorkspace(u), UNCHANGED allowed PROVE (NothingElse /\ ExchangeIntact)'
  BY <1>4 DEF CleanupWorkspace, ScaleBack, WaitOver, WaitRecovered, RemoveConfigMap, RemoveShadow, PodRemoved, Goto, cluster, session, cleaning, recovery
<1>5. ASSUME NEW u \in Users, Expire(u) \/ HeartBeat(u), UNCHANGED allowed PROVE (NothingElse /\ ExchangeIntact)'
  BY <1>5 DEF Expire, HeartBeat, cluster, session, cleaning, recovery
<1>6. ASSUME NEW u \in Users, PodStarts(u) \/ PodGone(u), UNCHANGED allowed PROVE (NothingElse /\ ExchangeIntact)'
  BY <1>6 DEF PodStarts, PodGone, cluster, session, cleaning, recovery
<1>7. ASSUME Controller, UNCHANGED allowed PROVE (NothingElse /\ ExchangeIntact)'
  BY <1>7 DEF Controller, cluster, session, cleaning, recovery
<1>8. ASSUME CheckClusterResources, UNCHANGED allowed PROVE (NothingElse /\ ExchangeIntact)'
  BY <1>8 DEF CheckClusterResources, Recorded, Analysed, Expired, cluster, session, cleaning, recovery
<1>9. ASSUME TidyClusterResources, UNCHANGED allowed PROVE (NothingElse /\ ExchangeIntact)'
  BY <1>9 DEF TidyClusterResources, TidyPods, PodRemoved, TidyConfigMaps, TidyScale, Rescaled, cluster, session, cleaning, recovery
<1>10. ASSUME Recover \/ RecoverRemovePod \/ RecoverScale, UNCHANGED allowed PROVE (NothingElse /\ ExchangeIntact)'
  BY <1>10 DEF Recover, RecoverRemovePod, RecoverScale, PodRemoved, cluster, session, cleaning, recovery
<1>11. ASSUME CleanKilled \/ RecoverKilled, UNCHANGED allowed PROVE (NothingElse /\ ExchangeIntact)'
  BY <1>11 DEF CleanKilled, RecoverKilled, cluster, session, cleaning, recovery
<1>12. CASE UNCHANGED vars
  BY <1>12 DEF vars, state, cluster, session, cleaning, recovery
<1> QED
  BY <1>1, <1>2, <1>3, <1>4, <1>5, <1>6, <1>7, <1>8, <1>9, <1>10, <1>11, <1>12 DEF Next, User, Tools

\* Every step keeps the invariant.
LEMMA NextIInv == IInv /\ [Next]_vars => IInv'
<1> SUFFICES ASSUME IInv, [Next]_vars PROVE IInv'
  OBVIOUS
<1>1. TypeOK'
  BY NextType DEF IInv
<1> QED
  BY <1>1, NextReplicasRead, NextKept, NextWillRestore, NextShadowKept, NextNothingElse
  DEF IInv

\* The inductive invariant holds under every hazard: each part names the hazards
\* under which the code keeps it.
THEOREM IInvCorrect == Spec => []IInv
  BY InitIInv, NextIInv, PTL DEF Spec

\* A session that is killed at any moment loses no replicas: they are in an annotation
\* of a shadow that stays, or in the list of ktctl clean as long as that is not killed
\* itself (getExchangeAnnotation, analysisConfigAnnotation).
THEOREM DownIsRecordedCorrect == Spec => []DownIsRecorded
<1>1. IInv => DownIsRecorded
  BY DEF IInv, Kept, Keeps, DownIsRecorded, Recordings
<1> QED
  BY <1>1, IInvCorrect, PTL

\* Sessions that end in any order leave the deployment with its replicas, unless one
\* has started while it was scaled down (recoverExchangedTarget).
THEOREM RestoredCorrect == Spec => []Restored
<1>1. IInv => Restored
  BY DEF IInv, WillRestore, Restored, Over
<1> QED
  BY <1>1, IInvCorrect, PTL

\* The deployment or the shadow of a living session answers while sessions overlap,
\* when pods start in time and nobody cuts the wait for them short (ByScale,
\* waitDeploymentRecoverComplete).
THEOREM ServiceServedCorrect == Spec => []ServiceServed
<1>1. IInv => ServiceServed
  BY ConstantsAssumption DEF ConstantsAssumption, IInv, TypeOK, ShadowKept, ServiceServed
<1> QED
  BY <1>1, IInvCorrect, PTL

\* ktctl clean does not undo the exchange of a session that was there when it made its
\* lists, and takes no shadow from any (CheckClusterResources, isExpired).
THEOREM ExchangeIntactCorrect == Spec => []ExchangeIntact
<1>1. IInv => ExchangeIntact
  BY DEF IInv
<1> QED
  BY <1>1, IInvCorrect, PTL
================================================================================
