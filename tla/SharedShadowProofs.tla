--------------------------- MODULE SharedShadowProofs ---------------------------
(***************************************************************************)
(* Theorems about SharedShadow, for any number of users: its counter stays *)
(* positive under every hazard; users who come and go one at a time never  *)
(* lose the shadow, and leave nothing behind if none of them is killed.    *)
(***************************************************************************)
EXTENDS SharedShadow, FiniteSetTheorems, TLAPS

\* The names of the states of a process.
LEMMA StateNames ==
  /\ {"readMap", "await", "increase", "increasePut", "createMap", "createShadow",
      "waitReady", "connect", "decrease", "decreasePut", "dropMap", "dropShadow",
      "exited", "dead", "idle", "running"} \subseteq States
  BY DEF States, SetupStates, TeardownStates, Ended

\* The heart beats and expired resources of an exited process are none.
LEMMA ExitType ==
  ASSUME TypeOK, NEW u \in Users, NEW how \in States, Exit(u, how)
  PROVE  /\ pc' \in [Users -> States]
         /\ beats' \in [Users -> SUBSET {"shadow", "map"}]
         /\ expired' \in [Users -> SUBSET {"shadow", "map"}]
         /\ UNCHANGED <<key, dying, checked>>
         /\ pc'[u] = how /\ \A v \in Users \ {u} : pc'[v] = pc[v]
  BY DEF TypeOK, Exit, Goto

\* A step of one process to another state.
LEMMA GotoType ==
  ASSUME TypeOK, NEW u \in Users, NEW s \in States, Goto(u, s)
  PROVE  /\ pc' \in [Users -> States]
         /\ pc'[u] = s /\ \A v \in Users \ {u} : pc'[v] = pc[v]
  BY DEF TypeOK, Goto

\* The removal of the shadow keeps the invariant: whether it is gone or
\* terminates, no copy is current any more.
LEMMA RemovalKeeps ==
  ASSUME IInv, Removal
  PROVE  /\ shadow' \in {"absent", "pending", "alive", "terminating"}
         /\ shadowKey' \in Users \cup {NoUser} /\ refs' \in Nat
         /\ fresh' = {} /\ holders' \subseteq Users
         /\ CounterPositive'
  BY DEF IInv, TypeOK, Removal, CounterPositive

\* Nothing exists at first.
LEMMA InitIInv == Init => IInv
<1> SUFFICES ASSUME Init PROVE IInv
  OBVIOUS
<1>1. /\ kind \in Kinds /\ allowed \subseteq Hazards /\ pc \in [Users -> States]
  <2>1. PICK s \in Scenarios :
          /\ kind = s.kind /\ allowed = s.allowed
          /\ pc = [u \in Users |-> IF u \in s.users THEN "idle" ELSE "exited"]
    BY DEF Init
  <2>2. s.kind \in Kinds /\ s.allowed \subseteq Hazards
    BY ConstantsAssumption DEF ConstantsAssumption
  <2> QED
    BY <2>1, <2>2, StateNames
<1> QED
  BY <1>1 DEF Init, IInv, TypeOK, CounterPositive, CurrentCopies

\* A process that moves on, but not to a decrement, disturbs neither the counter
\* nor what is known of current copies.
LEMMA MovesOn ==
  ASSUME IInv, NEW u \in Users, NEW s \in States, s # "decreasePut",
         pc' = [pc EXCEPT ![u] = s],
         UNCHANGED <<kind, allowed, shadow, refs>>, fresh' \subseteq fresh
  PROVE  CounterPositive' /\ CurrentCopies' /\ pc' \in [Users -> States]
  BY DEF IInv, TypeOK, CounterPositive, CurrentCopies

\* Once every copy is stale, it is only the counter that matters.
LEMMA AllStale == fresh' = {} => CurrentCopies'
  BY DEF CurrentCopies

\* Every step of a process, of silenceCleanup and of the cluster keeps it.
LEMMA NextIInv == IInv /\ [Next]_vars => IInv'
<1> SUFFICES ASSUME IInv, [Next]_vars PROVE IInv'
  OBVIOUS
<1>0. TypeOK
  BY DEF IInv
<1> USE <1>0
<1>a. ASSUME Next PROVE UNCHANGED <<kind, allowed>>
  BY <1>a DEF Next
<1>1. ASSUME NEW u \in Users, GetOrCreateShadow(u), UNCHANGED <<kind, allowed>> PROVE IInv'
  <2>1. PICK s \in States : s # "decreasePut" /\ pc' = [pc EXCEPT ![u] = s]
    BY <1>1, StateNames DEF GetOrCreateShadow, Goto
  <2>2. CounterPositive' /\ CurrentCopies' /\ pc' \in [Users -> States]
    BY <1>1, <2>1, MovesOn DEF GetOrCreateShadow, cluster
  <2> QED
    BY <1>1, <2>2 DEF GetOrCreateShadow, IInv, TypeOK, cluster, process
<1>2. ASSUME NEW u \in Users, GetConfigMap(u), UNCHANGED <<kind, allowed>> PROVE IInv'
  <2>1. PICK s \in States : s # "decreasePut" /\ pc' = [pc EXCEPT ![u] = s]
    BY <1>2, StateNames DEF GetConfigMap, Goto, Abort
  <2>2. CounterPositive' /\ CurrentCopies' /\ pc' \in [Users -> States]
    BY <1>2, <2>1, MovesOn DEF GetConfigMap, cluster
  <2> QED
    BY <1>2, <2>2 DEF GetConfigMap, IInv, TypeOK, cluster, process
<1>3. ASSUME NEW u \in Users, WaitPodTerminate(u), UNCHANGED <<kind, allowed>> PROVE IInv'
  <2>1. PICK s \in States : s # "decreasePut" /\ pc' = [pc EXCEPT ![u] = s]
    BY <1>3, StateNames DEF WaitPodTerminate, Goto, Abort
  <2>2. CounterPositive' /\ CurrentCopies' /\ pc' \in [Users -> States]
    BY <1>3, <2>1, MovesOn DEF WaitPodTerminate, cluster
  <2> QED
    BY <1>3, <2>2 DEF WaitPodTerminate, IInv, TypeOK, cluster, process
<1>4. ASSUME NEW u \in Users, CreateConfigMap(u), UNCHANGED <<kind, allowed>> PROVE IInv'
  <2>1. PICK s \in States : s # "decreasePut" /\ pc' = [pc EXCEPT ![u] = s]
    BY <1>4, StateNames DEF CreateConfigMap, Goto, Abort
  <2>2. CounterPositive' /\ CurrentCopies' /\ pc' \in [Users -> States]
    BY <1>4, <2>1, MovesOn DEF CreateConfigMap, cluster
  <2> QED
    BY <1>4, <2>2 DEF CreateConfigMap, IInv, TypeOK, cluster, process
<1>5. ASSUME NEW u \in Users, WaitReady(u), UNCHANGED <<kind, allowed>> PROVE IInv'
  <2>1. PICK s \in States : s # "decreasePut" /\ pc' = [pc EXCEPT ![u] = s]
    BY <1>5, StateNames DEF WaitReady, Goto, Abort
  <2>2. CounterPositive' /\ CurrentCopies' /\ pc' \in [Users -> States]
    BY <1>5, <2>1, MovesOn DEF WaitReady, cluster
  <2> QED
    BY <1>5, <2>2 DEF WaitReady, IInv, TypeOK, cluster, process
<1>6. ASSUME NEW u \in Users, Connect(u), UNCHANGED <<kind, allowed>> PROVE IInv'
  <2>1. PICK s \in States : s # "decreasePut" /\ pc' = [pc EXCEPT ![u] = s]
    BY <1>6, StateNames DEF Connect, Goto, Abort
  <2>2. CounterPositive' /\ CurrentCopies' /\ pc' \in [Users -> States]
    BY <1>6, <2>1, MovesOn DEF Connect, cluster
  <2> QED
    BY <1>6, <2>2 DEF Connect, IInv, TypeOK, cluster, process
<1>7. ASSUME NEW u \in Users, Quit(u), UNCHANGED <<kind, allowed>> PROVE IInv'
  <2>1. PICK s \in States : s # "decreasePut" /\ pc' = [pc EXCEPT ![u] = s]
    BY <1>7, StateNames DEF Quit, Goto
  <2>2. CounterPositive' /\ CurrentCopies' /\ pc' \in [Users -> States]
    BY <1>7, <2>1, MovesOn DEF Quit, cluster
  <2> QED
    BY <1>7, <2>2 DEF Quit, IInv, TypeOK, cluster, process
<1>8. ASSUME NEW u \in Users, RemoveConfigMap(u), UNCHANGED <<kind, allowed>> PROVE IInv'
  <2>1. PICK s \in States : s # "decreasePut" /\ pc' = [pc EXCEPT ![u] = s]
    BY <1>8, StateNames DEF RemoveConfigMap, Goto
  <2>2. CounterPositive' /\ CurrentCopies' /\ pc' \in [Users -> States]
    BY <1>8, <2>1, MovesOn DEF RemoveConfigMap, cluster
  <2> QED
    BY <1>8, <2>2 DEF RemoveConfigMap, IInv, TypeOK, cluster, process, RemovedMap
\* The copy that is read is of a shadow that is there.
<1>9. ASSUME NEW u \in Users, IncreaseRef(u), UNCHANGED <<kind, allowed>> PROVE IInv'
  <2>1. pc' \in [Users -> States]
    BY <1>9, GotoType, StateNames DEF IncreaseRef, Abort
  <2>2. CurrentCopies'
    BY <1>9 DEF IncreaseRef, Abort, Goto, IInv, CurrentCopies, TypeOK
  <2> QED
    BY <1>9, <2>1, <2>2 DEF IncreaseRef, IInv, TypeOK, CounterPositive, process
<1>10. ASSUME NEW u \in Users, IncreaseRefPut(u), UNCHANGED <<kind, allowed>> PROVE IInv'
  <2>1. pc' \in [Users -> States]
    BY <1>10, GotoType, StateNames DEF IncreaseRefPut, Abort
  <2>2. CASE fresh' = {} /\ refs' = Increased
    BY <1>10, <2>1, <2>2, AllStale DEF IncreaseRefPut, Increased, IInv, TypeOK, CounterPositive, process
  <2>3. CASE UNCHANGED <<refs, fresh>>
    BY <1>10, <2>1, <2>3, MovesOn, StateNames
    DEF IncreaseRefPut, Abort, Goto, IInv, TypeOK, process
  <2> QED
    BY <1>10, <2>2, <2>3 DEF IncreaseRefPut
<1>11. ASSUME NEW u \in Users, CreateShadow(u), UNCHANGED <<kind, allowed>> PROVE IInv'
  <2>1. pc' \in [Users -> States]
    BY <1>11, GotoType, StateNames DEF CreateShadow, Abort
  <2>2. CASE fresh' = {} /\ refs' = InitialRefs
    BY <1>11, <2>1, <2>2, AllStale DEF CreateShadow, InitialRefs, IInv, TypeOK, CounterPositive
  <2>3. CASE UNCHANGED <<shadow, refs, fresh>>
    BY <1>11, <2>1, <2>3, MovesOn, StateNames
    DEF CreateShadow, Abort, Goto, IInv, TypeOK
  <2> QED
    BY <1>11, <2>2, <2>3 DEF CreateShadow
\* A current counter that is about to be decreased is not one.
<1>12. ASSUME NEW u \in Users, DecreaseRef(u), UNCHANGED <<kind, allowed>> PROVE IInv'
  <2>1. CASE Exit(u, "exited") /\ UNCHANGED fresh
    BY <1>12, <2>1, ExitType, MovesOn, StateNames DEF DecreaseRef, Exit, Goto, IInv, TypeOK
  <2>2. CASE Goto(u, "dropMap") /\ UNCHANGED <<fresh, process>>
    BY <1>12, <2>2, MovesOn, StateNames DEF DecreaseRef, Goto, IInv, TypeOK, process
  <2>3. CASE shadow # "absent" /\ ~LastRef /\ fresh' = fresh \cup {u} /\ Goto(u, "decreasePut")
             /\ UNCHANGED process
    <3>1. pc' \in [Users -> States]
      BY <2>3, GotoType, StateNames
    <3>2. CurrentCopies'
      BY <1>12, <2>3 DEF DecreaseRef, LastRef, Goto, IInv, CurrentCopies, TypeOK
    <3> QED
      BY <1>12, <2>3, <3>1, <3>2 DEF DecreaseRef, IInv, TypeOK, CounterPositive, process
  <2> QED
    BY <1>12, <2>1, <2>2, <2>3 DEF DecreaseRef
\* An accepted decrement leaves at least one.
<1>13. ASSUME NEW u \in Users, DecreaseRefPut(u), UNCHANGED <<kind, allowed>> PROVE IInv'
  <2>1. pc' \in [Users -> States]
    BY <1>13, ExitType, StateNames DEF DecreaseRefPut
  <2>2. CASE u \in fresh /\ refs' = refs - 1 /\ fresh' = {}
    <3>1. refs > 1
      BY <1>13, <2>2 DEF DecreaseRefPut, IInv, TypeOK, CounterPositive, CurrentCopies
    <3>2. refs' \in Nat /\ refs' > 0
      BY <2>2, <3>1 DEF TypeOK
    <3> QED
      BY <1>13, <2>1, <2>2, <3>2, AllStale, ExitType, StateNames
      DEF DecreaseRefPut, IInv, TypeOK, CounterPositive
  <2>3. CASE UNCHANGED <<refs, fresh>>
    BY <1>13, <2>1, <2>3, ExitType, MovesOn, StateNames
    DEF DecreaseRefPut, Exit, Goto, IInv, TypeOK
  <2> QED
    BY <1>13, <2>2, <2>3 DEF DecreaseRefPut
<1>14. ASSUME NEW u \in Users, RemoveShadow(u), UNCHANGED <<kind, allowed>> PROVE IInv'
  <2>1. CASE Removal
    BY <1>14, <2>1, RemovalKeeps, AllStale, ExitType, StateNames DEF RemoveShadow, IInv, TypeOK
  <2>2. CASE UNCHANGED <<shadow, shadowKey, refs, fresh, holders>>
    BY <1>14, <2>2, ExitType, MovesOn, StateNames DEF RemoveShadow, Exit, Goto, IInv, TypeOK
  <2> QED
    BY <1>14, <2>1, <2>2 DEF RemoveShadow
<1>15. ASSUME NEW u \in Users, SilenceCheck(u), UNCHANGED <<kind, allowed>> PROVE IInv'
  <2>1. expired' \in [Users -> SUBSET {"shadow", "map"}]
    BY <1>15 DEF SilenceCheck, Expired, TypeOK
  <2> QED
    BY <1>15, <2>1 DEF SilenceCheck, IInv, TypeOK, CounterPositive, CurrentCopies, cluster
<1>16. ASSUME NEW u \in Users, SilenceShadow(u), UNCHANGED <<kind, allowed>> PROVE IInv'
  <2>1. expired' \in [Users -> SUBSET {"shadow", "map"}]
    BY <1>16 DEF SilenceShadow, TypeOK
  <2> QED
    BY <1>16, <2>1, RemovalKeeps, AllStale DEF SilenceShadow, IInv, TypeOK
<1>17. ASSUME NEW u \in Users, SilenceMap(u), UNCHANGED <<kind, allowed>> PROVE IInv'
  <2>1. expired' \in [Users -> SUBSET {"shadow", "map"}]
    BY <1>17 DEF SilenceMap, TypeOK
  <2> QED
    BY <1>17, <2>1 DEF SilenceMap, IInv, TypeOK, CounterPositive, CurrentCopies
<1>18. ASSUME NEW u \in Users, Crash(u), UNCHANGED <<kind, allowed>> PROVE IInv'
  BY <1>18, ExitType, MovesOn, StateNames DEF Crash, Exit, Goto, IInv, TypeOK, cluster
<1>19. ASSUME ShadowStarts, UNCHANGED <<kind, allowed>> PROVE IInv'
  BY <1>19, AllStale DEF ShadowStarts, IInv, TypeOK, CounterPositive, process
<1>20. ASSUME ShadowGone, UNCHANGED <<kind, allowed>> PROVE IInv'
  BY <1>20, AllStale DEF ShadowGone, IInv, TypeOK, CounterPositive, process
<1>21. ASSUME HeartBeat, UNCHANGED <<kind, allowed>> PROVE IInv'
  BY <1>21, AllStale DEF HeartBeat, IInv, TypeOK, CounterPositive, process
<1>22. CASE UNCHANGED vars
  BY <1>22 DEF vars, state, cluster, process, IInv, TypeOK, CounterPositive, CurrentCopies
<1> QED
  BY <1>a, <1>1, <1>2, <1>3, <1>4, <1>5, <1>6, <1>7, <1>8, <1>9, <1>10, <1>11, <1>12, <1>13, <1>14, <1>15, <1>16, <1>17, <1>18, <1>19, <1>20, <1>21, <1>22
  DEF Next, User, Setup, CleanupWorkspace, SilenceCleanup

\* The inductive invariant holds under every hazard and for any number of users.
THEOREM IInvCorrect == Spec => []IInv
  BY InitIInv, NextIInv, PTL DEF Spec

\* The counter of a shared shadow is never brought down to zero or below: every
\* decrement that is accepted leaves a user to remove the shadow.
THEOREM CounterPositiveCorrect == Spec => []CounterPositive
<1>1. IInv => CounterPositive
  BY DEF IInv
<1> QED
  BY <1>1, IInvCorrect, PTL

-------------------------------------------------------------------------------
(* One user at a time *)

Busy == SetupStates \cup TeardownStates

\* At most one process joins or leaves, and nobody removes what has no heart beat.
Turns ==
  /\ \A u, v \in Users : pc[u] \in Busy /\ pc[v] \in Busy => u = v
  /\ \A u \in Users : expired[u] = {}

\* The config map goes first: nobody gets at a key, or keeps one, of a shadow that
\* terminates, ...
MapGoesFirst ==
  /\ \A u \in Users : pc[u] = "dropShadow" => map = NoUser
  /\ shadow = "terminating" =>
       /\ map = NoUser
       /\ \A u \in Users : pc[u] \notin {"increase", "increasePut", "createMap", "createShadow",
                                       "waitReady", "connect", "running"}

\* ... and whoever has a key has the one of the shadow.
OneKey ==
  /\ shadow = "alive" /\ map # NoUser => shadowKey = map
  /\ \A u \in Users :
       /\ pc[u] = "createMap" /\ shadow = "alive" => map # NoUser
       /\ pc[u] \in {"increase", "increasePut", "createShadow", "waitReady", "connect", "running"}
            => map # NoUser /\ key[u] = map

\* A shadow that was found terminating does not come back while it is waited for.
DyingStays ==
  \A u \in Users :
    /\ pc[u] = "idle" => u \notin dying
    /\ pc[u] = "readMap" /\ u \in dying => shadow \in {"terminating", "absent"}
    /\ pc[u] = "await" => shadow \in {"terminating", "absent"}

Running == {u \in Users : pc[u] = "running"}

\* While somebody is connected the shadow lives, and who joins or leaves is
\* counted before it can come to a decrement.
RunningServed ==
  Running # {} =>
    /\ shadow = "alive"
    /\ \A u \in Users :
         /\ pc[u] \in Busy =>
              pc[u] \in {"readMap", "increase", "increasePut", "connect", "decrease", "decreasePut"}
         /\ pc[u] = "increasePut" => u \in fresh
         /\ pc[u] \in {"decrease", "decreasePut"} => u \in holders

\* Who has not joined yet is not counted.
Newcomers ==
  \A u \in Users :
    pc[u] \in {"idle", "readMap", "await", "increase", "increasePut", "createMap", "createShadow"}
      => u \notin holders

\* The counted users who are still there.
Counted == {u \in holders : pc[u] \in {"waitReady", "connect", "running", "decrease", "decreasePut"}}

\* The counter counts everybody who is connected: the last reference is never read
\* by one of two.
EnoughRefs ==
  /\ \A u \in Users : pc[u] \in {"waitReady", "connect", "running"} /\ shadow # "absent" => u \in holders
  /\ IsFiniteSet(holders)
  /\ shadow # "absent" => Cardinality(Counted) <= refs

OneAtATimeInv ==
  Turns /\ MapGoesFirst /\ OneKey /\ DyingStays /\ RunningServed /\ Newcomers /\ EnoughRefs

\* Where no process is killed the counter is exact, and the config map is there as
\* long as the shadow.
Sharing == {"waitReady", "connect", "running", "decrease", "decreasePut", "dropMap", "dropShadow"}

Sharers == {u \in Users : pc[u] \in Sharing}

ExactRefs ==
  Up => /\ holders = Sharers
        /\ holders # {} /\ refs = Cardinality(holders)
        /\ \A u \in Users :
             /\ pc[u] \in {"dropMap", "dropShadow"} => refs = 1
             /\ pc[u] = "decreasePut" => u \in fresh

MapOfShadow ==
  /\ Up /\ (\A u \in Users : pc[u] # "dropShadow") => map # NoUser
  /\ map # NoUser => Up \/ \E u \in Users : pc[u] = "createShadow"

\* Who joins finds a shadow that serves others, or none.
JoinsUp ==
  \A u \in Users :
    /\ pc[u] = "readMap" => (u \in dying <=> ~Up)
    /\ pc[u] \in {"createMap", "createShadow"} => shadow = "absent"
    /\ pc[u] = "await" => ~Up
    /\ pc[u] \in {"increase", "increasePut", "connect"} => shadow = "alive"
    /\ pc[u] = "waitReady" => Up

\* A shadow starts while its creator waits for it.
CreatorWaits ==
  shadow = "pending" => \E u \in Users : pc[u] \in {"waitReady", "decrease", "dropMap", "dropShadow"}

OrderlyInv == ExactRefs /\ MapOfShadow /\ JoinsUp /\ CreatorWaits

\* The steps that are left when users come and go one at a time.
OneByOne ==
  \/ \E u \in Users : GetOrCreateShadow(u) \/ Setup(u) \/ Quit(u) \/ CleanupWorkspace(u) \/ Crash(u)
  \/ ShadowStarts \/ ShadowGone

LEMMA StepsOneByOne ==
  ASSUME OneAtATime, Turns, Next
  PROVE  ~Fails /\ OneByOne /\ UNCHANGED <<kind, allowed>>
<1>1. /\ "clean" \notin allowed /\ "heartbeat" \notin allowed /\ ~Fails
  BY DEF OneAtATime, Fails
<1>2. ~HeartBeat /\ \A u \in Users : ~SilenceCleanup(u)
  BY <1>1 DEF HeartBeat, SilenceCleanup, SilenceCheck, SilenceShadow, SilenceMap, Turns
<1>. QED
  BY <1>1, <1>2 DEF Next, User, OneByOne

\* A process that joins or leaves moves alone.
LEMMA BusyMoves ==
  ASSUME TypeOK, NEW u \in Users, Setup(u) \/ CleanupWorkspace(u)
  PROVE  /\ pc[u] \in Busy
         /\ \A v \in Users \ {u} : pc'[v] = pc[v]
         /\ expired' \in {expired, [expired EXCEPT ![u] = {}]}
<1> USE DEF TypeOK, Busy, SetupStates, TeardownStates, Goto, Abort, Exit, process, cluster
<1>1. CASE GetConfigMap(u) \/ WaitPodTerminate(u) \/ IncreaseRef(u) \/ IncreaseRefPut(u)
  BY <1>1 DEF GetConfigMap, WaitPodTerminate, IncreaseRef, IncreaseRefPut
<1>2. CASE CreateConfigMap(u) \/ CreateShadow(u) \/ WaitReady(u) \/ Connect(u)
  BY <1>2 DEF CreateConfigMap, CreateShadow, WaitReady, Connect
<1>3. CASE DecreaseRef(u) \/ DecreaseRefPut(u) \/ RemoveConfigMap(u) \/ RemoveShadow(u)
  BY <1>3 DEF DecreaseRef, DecreaseRefPut, RemoveConfigMap, RemoveShadow
<1>. QED
  BY <1>1, <1>2, <1>3 DEF Setup, CleanupWorkspace

\* A process that begins to join or to leave is the only one.
LEMMA BusyAlone ==
  ASSUME TypeOK, OneAtATime, NEW u \in Users, GetOrCreateShadow(u) \/ Quit(u)
  PROVE  /\ \A v \in Users : pc[v] \notin Busy
         /\ \A v \in Users \ {u} : pc'[v] = pc[v]
         /\ UNCHANGED expired
<1>1. "joins" \notin allowed /\ "leaves" \notin allowed
  BY DEF OneAtATime
<1>. QED
  BY <1>1 DEF GetOrCreateShadow, Quit, Nobody, Busy, Goto, TypeOK, process, cluster

\* Every step keeps the turns.
LEMMA TurnsKept ==
  ASSUME TypeOK, OneAtATime, Turns, Next
  PROVE  Turns'
<1>1. ASSUME NEW u \in Users, Setup(u) \/ CleanupWorkspace(u) PROVE Turns'
  BY <1>1, BusyMoves DEF Turns, TypeOK
<1>2. ASSUME NEW u \in Users, GetOrCreateShadow(u) \/ Quit(u) PROVE Turns'
  BY <1>2, BusyAlone DEF Turns
<1>3. ASSUME NEW u \in Users, Crash(u) PROVE Turns'
  BY <1>3 DEF Crash, Exit, Goto, Turns, TypeOK, Busy, SetupStates, TeardownStates
<1>4. CASE ShadowStarts \/ ShadowGone
  BY <1>4 DEF ShadowStarts, ShadowGone, process, Turns
<1>. QED
  BY <1>1, <1>2, <1>3, <1>4, StepsOneByOne DEF OneByOne

\* Where a process is that has been about to join or to leave.
LEMMA OthersRest ==
  ASSUME Turns, NEW u \in Users, pc[u] \in Busy, NEW v \in Users \ {u}
  PROVE  pc[v] \notin Busy
  BY DEF Turns

\* Every step keeps the order in which a shadow and its config map are removed.
LEMMA MapGoesFirstKept ==
  ASSUME IInv, OneAtATime, OneAtATimeInv, Next
  PROVE  MapGoesFirst'
<1>0. /\ TypeOK /\ Turns /\ MapGoesFirst /\ RunningServed /\ ~Fails
      /\ Ended \cap Busy = {} /\ OneByOne
  BY StepsOneByOne DEF IInv, OneAtATimeInv, Ended, Busy, SetupStates, TeardownStates
<1> USE DEF Goto, Abort, Exit, cluster, process
<1>1. ASSUME NEW u \in Users, GetOrCreateShadow(u) PROVE MapGoesFirst'
  <2>1. shadow = "terminating" => Found /\ ~NoPodYet
    BY DEF Found, NoPodYet
  <2>. QED
    BY <1>0, <1>1, <2>1 DEF GetOrCreateShadow, MapGoesFirst, TypeOK
<1>2. ASSUME NEW u \in Users, GetConfigMap(u) \/ WaitPodTerminate(u) \/ IncreaseRef(u) \/ IncreaseRefPut(u)
                               \/ WaitReady(u) \/ Connect(u)
      PROVE  MapGoesFirst'
  <2>1. UNCHANGED <<shadow, map>>
    BY <1>2 DEF GetConfigMap, WaitPodTerminate, IncreaseRef, IncreaseRefPut, WaitReady, Connect
  <2>2. /\ pc'[u] \notin {"dropShadow", "createShadow", "waitReady"}
        /\ pc'[u] \in {"increase", "increasePut", "createMap", "connect", "running"} =>
             shadow # "terminating"
    BY <1>0, <1>2 DEF GetConfigMap, WaitPodTerminate, IncreaseRef, IncreaseRefPut, WaitReady, Connect,
                      MapGoesFirst, TypeOK
  <2>3. \A v \in Users \ {u} : pc'[v] = pc[v]
    BY <1>0, <1>2, BusyMoves DEF Setup
  <2>. QED
    BY <1>0, <2>1, <2>2, <2>3 DEF MapGoesFirst
<1>3. ASSUME NEW u \in Users, CreateConfigMap(u) \/ CreateShadow(u)
      PROVE  MapGoesFirst'
  <2>1. pc[u] \in {"createMap", "createShadow"} /\ pc'[u] \in {"createShadow", "waitReady", "decrease"}
        /\ shadow # "terminating" /\ shadow' # "terminating"
    BY <1>0, <1>3 DEF CreateConfigMap, CreateShadow, MapGoesFirst, TypeOK
  <2>2. \A v \in Users \ {u} : pc'[v] = pc[v] /\ pc[v] \notin Busy
    BY <1>0, <1>3, BusyMoves, OthersRest DEF Setup
  <2>. QED
    BY <1>0, <2>1, <2>2 DEF MapGoesFirst, Busy, TeardownStates
<1>4. ASSUME NEW u \in Users, Quit(u) \/ Crash(u)
      PROVE  MapGoesFirst'
  BY <1>0, <1>4 DEF Quit, Crash, MapGoesFirst, TypeOK
<1>5. ASSUME NEW u \in Users, DecreaseRef(u) \/ DecreaseRefPut(u)
      PROVE  MapGoesFirst'
  BY <1>0, <1>5 DEF DecreaseRef, DecreaseRefPut, MapGoesFirst, TypeOK
<1>6. ASSUME NEW u \in Users, RemoveConfigMap(u)
      PROVE  MapGoesFirst'
  BY <1>0, <1>6 DEF RemoveConfigMap, RemovedMap, MapGoesFirst, TypeOK
<1>7. ASSUME NEW u \in Users, RemoveShadow(u)
      PROVE  MapGoesFirst'
  <2>1. pc[u] = "dropShadow" /\ pc'[u] = "exited" /\ map = NoUser /\ map' = map
    BY <1>0, <1>7 DEF RemoveShadow, MapGoesFirst, TypeOK
  <2>2. \A v \in Users \ {u} : pc'[v] = pc[v] /\ pc[v] \notin Busy
    BY <1>0, <1>7, BusyMoves, OthersRest DEF CleanupWorkspace
  <2>3. \A v \in Users : pc[v] # "running"
    BY <1>0, <2>1 DEF RunningServed, Running, Busy, TeardownStates
  <2>. QED
    BY <1>0, <2>1, <2>2, <2>3 DEF MapGoesFirst, Busy, SetupStates, TeardownStates
<1>8. CASE ShadowStarts \/ ShadowGone
  BY <1>0, <1>8 DEF ShadowStarts, ShadowGone, MapGoesFirst
<1>. QED
  BY <1>0, <1>1, <1>2, <1>3, <1>4, <1>5, <1>6, <1>7, <1>8 DEF OneByOne, Setup, CleanupWorkspace

\* Every step keeps the one key: it changes with the config map only, and that only
\* while no shadow lives or nobody uses its key.
LEMMA OneKeyKept ==
  ASSUME IInv, OneAtATime, OneAtATimeInv, Next
  PROVE  OneKey'
<1>0. /\ TypeOK /\ Turns /\ MapGoesFirst /\ OneKey /\ DyingStays /\ RunningServed /\ ~Fails /\ OneByOne
      /\ NoUser \notin Users
  BY StepsOneByOne, ConstantsAssumption DEF IInv, OneAtATimeInv
<1> USE DEF Goto, Abort, Exit, cluster, process
<1>1. ASSUME NEW u \in Users, GetOrCreateShadow(u) PROVE OneKey'
  <2>1. shadow = "alive" => Found /\ ~NoPodYet
    BY DEF Found, NoPodYet
  <2>. QED
    BY <1>0, <1>1, <2>1 DEF GetOrCreateShadow, OneKey, TypeOK
<1>2. ASSUME NEW u \in Users, GetConfigMap(u) \/ WaitPodTerminate(u) \/ IncreaseRef(u) \/ IncreaseRefPut(u)
                               \/ WaitReady(u) \/ Connect(u)
      PROVE  OneKey'
  <2>1. /\ UNCHANGED <<shadow, shadowKey, map>>
        /\ \A v \in Users \ {u} : key'[v] = key[v]
    BY <1>0, <1>2 DEF GetConfigMap, WaitPodTerminate, IncreaseRef, IncreaseRefPut, WaitReady, Connect, TypeOK
  <2>2. /\ pc'[u] = "createMap" /\ shadow = "alive" => map # NoUser
        /\ pc'[u] \in {"increase", "increasePut", "createShadow", "waitReady", "connect", "running"} =>
             map # NoUser /\ key'[u] = map
    <3>1. CASE GetConfigMap(u)
      BY <1>0, <3>1 DEF GetConfigMap, TypeOK
    <3>2. CASE WaitPodTerminate(u)
      BY <1>0, <3>2 DEF WaitPodTerminate, DyingStays, TypeOK
    <3>3. CASE IncreaseRef(u) \/ IncreaseRefPut(u) \/ WaitReady(u) \/ Connect(u)
      BY <1>0, <3>3 DEF IncreaseRef, IncreaseRefPut, WaitReady, Connect, OneKey, TypeOK
    <3>. QED
      BY <1>2, <3>1, <3>2, <3>3
  <2>3. \A v \in Users \ {u} : pc'[v] = pc[v]
    BY <1>0, <1>2, BusyMoves DEF Setup
  <2>. QED
    BY <1>0, <2>1, <2>2, <2>3 DEF OneKey
<1>3. ASSUME NEW u \in Users, CreateConfigMap(u)
      PROVE  OneKey'
  <2>1. \A v \in Users \ {u} : pc'[v] = pc[v] /\ pc[v] \notin Busy
    BY <1>0, <1>3, BusyMoves, OthersRest DEF Setup
  <2>2. \A v \in Users : pc[v] # "running"
    BY <1>0, <1>3 DEF CreateConfigMap, RunningServed, Running, Busy, SetupStates
  <2>. QED
    BY <1>0, <1>3, <2>1, <2>2 DEF CreateConfigMap, OneKey, TypeOK, Busy, SetupStates
<1>4. ASSUME NEW u \in Users, CreateShadow(u)
      PROVE  OneKey'
  BY <1>0, <1>4 DEF CreateShadow, OneKey, TypeOK
<1>5. ASSUME NEW u \in Users, Quit(u) \/ Crash(u) \/ DecreaseRef(u) \/ DecreaseRefPut(u)
      PROVE  OneKey'
  BY <1>0, <1>5 DEF Quit, Crash, DecreaseRef, DecreaseRefPut, OneKey, TypeOK
<1>6. ASSUME NEW u \in Users, RemoveConfigMap(u) \/ RemoveShadow(u)
      PROVE  OneKey'
  <2>1. pc[u] \in {"dropMap", "dropShadow"} /\ pc'[u] \in {"dropShadow", "exited"} /\ map' = NoUser
    BY <1>0, <1>6 DEF RemoveConfigMap, RemoveShadow, RemovedMap, MapGoesFirst, TypeOK
  <2>2. \A v \in Users \ {u} : pc'[v] = pc[v] /\ pc[v] \notin Busy
    BY <1>0, <1>6, BusyMoves, OthersRest DEF CleanupWorkspace
  <2>3. \A v \in Users : pc[v] # "running"
    BY <1>0, <2>1 DEF RunningServed, Running, Busy, TeardownStates
  <2>. QED
    BY <1>0, <2>1, <2>2, <2>3 DEF OneKey, Busy, SetupStates, TeardownStates
<1>7. CASE ShadowStarts \/ ShadowGone
  BY <1>0, <1>7 DEF ShadowStarts, ShadowGone, OneKey
<1>. QED
  BY <1>0, <1>1, <1>2, <1>3, <1>4, <1>5, <1>6, <1>7 DEF OneByOne, Setup, CleanupWorkspace

\* Every step keeps what is known of a shadow that was found terminating.
LEMMA DyingStaysKept ==
  ASSUME IInv, OneAtATime, OneAtATimeInv, Next
  PROVE  DyingStays'
<1>0. /\ TypeOK /\ Turns /\ DyingStays /\ ~Fails /\ OneByOne
  BY StepsOneByOne DEF IInv, OneAtATimeInv
<1> USE DEF Goto, Abort, Exit, cluster, process
<1>1. ASSUME NEW u \in Users, GetOrCreateShadow(u) PROVE DyingStays'
  BY <1>0, <1>1 DEF GetOrCreateShadow, DyingStays, TypeOK
<1>2. ASSUME NEW u \in Users, GetConfigMap(u) \/ WaitPodTerminate(u) \/ IncreaseRef(u) \/ IncreaseRefPut(u)
      PROVE  DyingStays'
  BY <1>0, <1>2 DEF GetConfigMap, WaitPodTerminate, IncreaseRef, IncreaseRefPut, FoundDying, DyingStays, TypeOK
<1>3. ASSUME NEW u \in Users, CreateConfigMap(u) \/ WaitReady(u) \/ Connect(u)
      PROVE  DyingStays'
  BY <1>0, <1>3 DEF CreateConfigMap, WaitReady, Connect, DyingStays, TypeOK
<1>4. ASSUME NEW u \in Users, CreateShadow(u)
      PROVE  DyingStays'
  <2>1. \A v \in Users \ {u} : pc'[v] = pc[v] /\ pc[v] \notin Busy
    BY <1>0, <1>4, BusyMoves, OthersRest DEF Setup
  <2>. QED
    BY <1>0, <1>4, <2>1 DEF CreateShadow, DyingStays, Busy, SetupStates, TypeOK
<1>5. ASSUME NEW u \in Users, Quit(u) \/ Crash(u) \/ DecreaseRef(u) \/ DecreaseRefPut(u) \/ RemoveConfigMap(u)
      PROVE  DyingStays'
  BY <1>0, <1>5 DEF Quit, Crash, DecreaseRef, DecreaseRefPut, RemoveConfigMap, DyingStays, TypeOK
<1>6. ASSUME NEW u \in Users, RemoveShadow(u)
      PROVE  DyingStays'
  BY <1>0, <1>6 DEF RemoveShadow, Removal, DyingStays, TypeOK
<1>7. CASE ShadowStarts \/ ShadowGone
  BY <1>0, <1>7 DEF ShadowStarts, ShadowGone, DyingStays
<1>. QED
  BY <1>0, <1>1, <1>2, <1>3, <1>4, <1>5, <1>6, <1>7 DEF OneByOne, Setup, CleanupWorkspace

\* Two different members of a finite set make it two at least.
LEMMA TwoMembers ==
  ASSUME NEW S, IsFiniteSet(S), NEW x \in S, NEW y \in S, x # y
  PROVE  Cardinality(S) >= 2
<1>1. IsFiniteSet(S \ {x}) /\ Cardinality(S \ {x}) = Cardinality(S) - 1
  BY FS_RemoveElement
<1>2. Cardinality(S \ {x}) # 0
  BY <1>1, FS_EmptySet
<1>. QED
  BY <1>1, <1>2, FS_CardinalityType

\* While somebody is connected, no process that leaves reads the last reference.
LEMMA NotLast ==
  ASSUME IInv, OneAtATimeInv, NEW u \in Users, pc[u] = "decrease", Running # {}
  PROVE  refs # 1
<1>1. PICK v \in Running : TRUE
  OBVIOUS
<1>2. shadow = "alive" /\ u \in holders /\ v \in holders
  BY <1>1 DEF OneAtATimeInv, RunningServed, EnoughRefs, Running
<1>3. u \in Counted /\ v \in Counted /\ u # v
  BY <1>1, <1>2 DEF Counted, Running
<1>4. IsFiniteSet(Counted)
  BY FS_Subset DEF OneAtATimeInv, EnoughRefs, Counted
<1>5. Cardinality(Counted) <= refs
  BY <1>2 DEF OneAtATimeInv, EnoughRefs
<1>. QED
  BY <1>3, <1>4, <1>5, TwoMembers, FS_CardinalityType DEF IInv, TypeOK

\* A step of one process, not to the running state, connects nobody.
LEMMA RunningShrinks ==
  ASSUME NEW u \in Users, \A v \in Users \ {u} : pc'[v] = pc[v], pc'[u] # "running"
  PROVE  Running' \subseteq Running
  BY DEF Running

\* Every step keeps what connected users rely on.
LEMMA RunningServedKept ==
  ASSUME IInv, OneAtATime, OneAtATimeInv, Next
  PROVE  RunningServed'
<1>0. /\ TypeOK /\ Turns /\ MapGoesFirst /\ OneKey /\ RunningServed /\ EnoughRefs /\ ~Fails /\ OneByOne
  BY StepsOneByOne DEF IInv, OneAtATimeInv
<1>a. /\ Ended \cap Busy = {} /\ "running" \notin Busy
      /\ {"increasePut", "decrease", "decreasePut"} \subseteq Busy
  BY DEF Ended, Busy, SetupStates, TeardownStates
<1>b. ASSUME NEW u \in Users, Setup(u) \/ CleanupWorkspace(u)
      PROVE  /\ pc[u] \in Busy
             /\ \A v \in Users \ {u} : pc'[v] = pc[v] /\ pc[v] \notin Busy
  BY <1>0, <1>b, BusyMoves, OthersRest
<1> USE DEF Goto, Abort, Exit, cluster, process
<1>1. ASSUME NEW u \in Users, GetOrCreateShadow(u) PROVE RunningServed'
  <2>1. shadow = "alive" => Found /\ ~NoPodYet
    BY DEF Found, NoPodYet
  <2>2. \A v \in Users \ {u} : pc'[v] = pc[v] /\ pc'[v] \notin Busy
    BY <1>0, <1>1, BusyAlone
  <2>3. pc'[u] \in {"readMap", "createMap"} /\ UNCHANGED shadow
    BY <1>0, <1>1 DEF GetOrCreateShadow, TypeOK
  <2>4. Running' \subseteq Running
    BY <2>2, <2>3, RunningShrinks
  <2>5. Running # {} => pc'[u] = "readMap"
    BY <1>0, <1>1, <2>1 DEF GetOrCreateShadow, TypeOK, RunningServed
  <2>. QED
    BY <1>0, <1>a, <2>2, <2>3, <2>4, <2>5 DEF RunningServed
<1>2. ASSUME NEW u \in Users, GetConfigMap(u) \/ IncreaseRef(u) \/ IncreaseRefPut(u)
      PROVE  RunningServed'
  <2>1. \A v \in Users \ {u} : pc'[v] = pc[v] /\ pc'[v] \notin Busy
    BY <1>2, <1>b DEF Setup
  <2>2. pc'[u] # "running" /\ UNCHANGED shadow
    BY <1>0, <1>2 DEF GetConfigMap, IncreaseRef, IncreaseRefPut, TypeOK
  <2>3. Running' \subseteq Running
    BY <2>1, <2>2, RunningShrinks
  <2>4. ASSUME NEW v \in Users, pc[v] = "running" PROVE map # NoUser
    BY <1>0, <2>4 DEF OneKey
  <2>5. ASSUME Running # {}
        PROVE  pc'[u] \in {"increase", "increasePut", "connect"} /\ (pc'[u] = "increasePut" => u \in fresh')
    <3>1. shadow = "alive" /\ map # NoUser /\ (pc[u] = "increasePut" => u \in fresh)
      BY <1>0, <2>4, <2>5 DEF Running, RunningServed
    <3>. QED
      BY <1>0, <1>2, <3>1 DEF GetConfigMap, IncreaseRef, IncreaseRefPut, TypeOK
  <2>. QED
    BY <1>0, <1>a, <2>1, <2>2, <2>3, <2>5 DEF RunningServed
<1>3. ASSUME NEW u \in Users, WaitPodTerminate(u) \/ CreateConfigMap(u) \/ CreateShadow(u) \/ WaitReady(u)
                               \/ RemoveConfigMap(u) \/ RemoveShadow(u)
      PROVE  RunningServed'
  <2>1. \A v \in Users \ {u} : pc'[v] = pc[v] /\ pc'[v] \notin Busy
    BY <1>3, <1>b DEF Setup, CleanupWorkspace
  <2>2. /\ pc[u] \in {"await", "createMap", "createShadow", "waitReady", "dropMap", "dropShadow"}
        /\ pc[u] \in Busy
    BY <1>3, <1>b DEF WaitPodTerminate, CreateConfigMap, CreateShadow, WaitReady, RemoveConfigMap,
                      RemoveShadow, Setup, CleanupWorkspace
  <2>3. Running = {}
    BY <1>0, <2>2 DEF RunningServed
  <2>4. pc'[u] # "running"
    BY <1>0, <1>3 DEF WaitPodTerminate, CreateConfigMap, CreateShadow, WaitReady, RemoveConfigMap,
                      RemoveShadow, TypeOK
  <2>. QED
    BY <2>1, <2>3, <2>4, RunningShrinks DEF RunningServed
<1>4. ASSUME NEW u \in Users, Connect(u)
      PROVE  RunningServed'
  <2>1. \A v \in Users \ {u} : pc'[v] = pc[v] /\ pc'[v] \notin Busy
    BY <1>4, <1>b DEF Setup
  <2>2. pc[u] = "connect" /\ pc'[u] \in {"running", "decrease"} /\ UNCHANGED <<shadow, holders>>
    BY <1>0, <1>4 DEF Connect, TypeOK
  <2>3. pc'[u] = "running" => shadow = "alive"
    BY <1>0, <1>4, <2>2 DEF Connect, TypeOK, MapGoesFirst
  <2>4. pc'[u] = "decrease" => Running' \subseteq Running
    BY <2>1, RunningShrinks
  <2>5. shadow = "alive" => u \in holders
    BY <1>0, <2>2 DEF EnoughRefs
  <2>. QED
    BY <1>0, <1>a, <2>1, <2>2, <2>3, <2>4, <2>5 DEF RunningServed
<1>5. ASSUME NEW u \in Users, Quit(u)
      PROVE  RunningServed'
  <2>1. \A v \in Users \ {u} : pc'[v] = pc[v] /\ pc'[v] \notin Busy
    BY <1>0, <1>5, BusyAlone
  <2>2. pc[u] = "running" /\ pc'[u] = "decrease" /\ UNCHANGED <<shadow, holders>>
    BY <1>0, <1>5 DEF Quit, TypeOK
  <2>3. shadow = "alive" /\ u \in holders
    BY <1>0, <2>2 DEF EnoughRefs, RunningServed, Running
  <2>. QED
    BY <1>a, <2>1, <2>2, <2>3 DEF RunningServed
<1>6. ASSUME NEW u \in Users, Crash(u)
      PROVE  RunningServed'
  <2>1. (\A v \in Users \ {u} : pc'[v] = pc[v]) /\ pc'[u] = "dead" /\ UNCHANGED <<shadow, fresh, holders>>
    BY <1>0, <1>6 DEF Crash, TypeOK
  <2>2. Running' \subseteq Running
    BY <2>1, RunningShrinks
  <2>. QED
    BY <1>0, <1>a, <2>1, <2>2 DEF RunningServed, Ended
<1>7. ASSUME NEW u \in Users, DecreaseRef(u) \/ DecreaseRefPut(u)
      PROVE  RunningServed'
  <2>1. \A v \in Users \ {u} : pc'[v] = pc[v] /\ pc'[v] \notin Busy
    BY <1>7, <1>b DEF CleanupWorkspace
  <2>2. pc'[u] # "running" /\ UNCHANGED shadow
    BY <1>0, <1>7 DEF DecreaseRef, DecreaseRefPut, TypeOK
  <2>3. Running' \subseteq Running
    BY <2>1, <2>2, RunningShrinks
  <2>4. CASE DecreaseRef(u)
    <3>1. pc[u] = "decrease" /\ (pc'[u] \in Busy /\ refs # 1 => pc'[u] = "decreasePut") /\ UNCHANGED holders
      BY <1>0, <1>a, <2>4 DEF DecreaseRef, LastRef, TypeOK, Ended
    <3>2. Running # {} => refs # 1 /\ u \in holders
      BY <1>0, <3>1, NotLast DEF RunningServed
    <3>. QED
      BY <1>0, <1>a, <2>1, <2>2, <2>3, <3>1, <3>2 DEF RunningServed
  <2>5. CASE DecreaseRefPut(u)
    <3>1. pc'[u] = "exited"
      BY <1>0, <2>5 DEF DecreaseRefPut, TypeOK
    <3>. QED
      BY <1>0, <1>a, <2>1, <2>2, <2>3, <3>1 DEF RunningServed, Ended
  <2>. QED
    BY <1>7, <2>4, <2>5
<1>8. CASE ShadowStarts \/ ShadowGone
  <2>1. shadow # "alive" /\ Running' = Running
    BY <1>8 DEF ShadowStarts, ShadowGone, Running
  <2>. QED
    BY <1>0, <2>1 DEF RunningServed
<1>. QED
  BY <1>0, <1>1, <1>2, <1>3, <1>4, <1>5, <1>6, <1>7, <1>8 DEF OneByOne, Setup, CleanupWorkspace

\* Every step keeps it that who has not joined is not counted.
LEMMA NewcomersKept ==
  ASSUME IInv, OneAtATime, OneAtATimeInv, Next
  PROVE  Newcomers'
<1>0. TypeOK /\ Newcomers /\ OneByOne
  BY StepsOneByOne DEF IInv, OneAtATimeInv
<1> USE DEF Goto, Abort, Exit, cluster, process
<1>1. ASSUME NEW u \in Users, GetOrCreateShadow(u) \/ GetConfigMap(u) \/ WaitPodTerminate(u)
                               \/ IncreaseRef(u) \/ IncreaseRefPut(u)
      PROVE  Newcomers'
  BY <1>0, <1>1 DEF GetOrCreateShadow, GetConfigMap, WaitPodTerminate, IncreaseRef, IncreaseRefPut,
                    Newcomers, TypeOK
<1>2. ASSUME NEW u \in Users, CreateConfigMap(u) \/ CreateShadow(u) \/ WaitReady(u) \/ Connect(u)
                               \/ Quit(u) \/ Crash(u)
      PROVE  Newcomers'
  BY <1>0, <1>2 DEF CreateConfigMap, CreateShadow, WaitReady, Connect, Quit, Crash, Ended,
                    Newcomers, TypeOK
<1>3. ASSUME NEW u \in Users, DecreaseRef(u) \/ DecreaseRefPut(u) \/ RemoveConfigMap(u) \/ RemoveShadow(u)
      PROVE  Newcomers'
  BY <1>0, <1>3 DEF DecreaseRef, DecreaseRefPut, RemoveConfigMap, RemoveShadow, Removal, Newcomers, TypeOK
<1>4. CASE ShadowStarts \/ ShadowGone
  BY <1>0, <1>4 DEF ShadowStarts, ShadowGone, Newcomers
<1>. QED
  BY <1>0, <1>1, <1>2, <1>3, <1>4 DEF OneByOne, Setup, CleanupWorkspace

\* The counter is enough as long as nobody new is counted.
LEMMA CountedShrinks ==
  ASSUME TypeOK, EnoughRefs, UNCHANGED <<refs, holders>>, shadow' # "absent" => shadow # "absent",
         Counted' \subseteq Counted
  PROVE  IsFiniteSet(holders') /\ (shadow' # "absent" => Cardinality(Counted') <= refs')
<1>1. IsFiniteSet(Counted)
  BY FS_Subset DEF EnoughRefs, Counted
<1>2. IsFiniteSet(Counted') /\ Cardinality(Counted') <= Cardinality(Counted)
  BY <1>1, FS_Subset
<1>. QED
  BY <1>1, <1>2, FS_CardinalityType DEF EnoughRefs, TypeOK

\* Every step keeps the counter large enough.
LEMMA EnoughRefsKept ==
  ASSUME IInv, OneAtATime, OneAtATimeInv, Next
  PROVE  EnoughRefs'
<1>0. /\ TypeOK /\ Turns /\ MapGoesFirst /\ RunningServed /\ Newcomers /\ EnoughRefs /\ ~Fails /\ OneByOne
  BY StepsOneByOne DEF IInv, OneAtATimeInv
<1>a. IsFiniteSet(Counted) /\ IsFiniteSet(holders) /\ Counted \subseteq holders
  BY <1>0, FS_Subset DEF EnoughRefs, Counted
<1>b. ASSUME NEW u \in Users, Setup(u) \/ CleanupWorkspace(u)
      PROVE  /\ pc[u] \in Busy
             /\ \A v \in Users \ {u} : pc'[v] = pc[v] /\ pc[v] \notin Busy
  BY <1>0, <1>b, BusyMoves, OthersRest
<1> USE DEF Goto, Abort, Exit, cluster, process
<1>1. ASSUME NEW u \in Users,
             GetOrCreateShadow(u) \/ GetConfigMap(u) \/ WaitPodTerminate(u) \/ IncreaseRef(u)
             \/ CreateConfigMap(u) \/ WaitReady(u) \/ Connect(u)
      PROVE  EnoughRefs'
  <2>1. /\ UNCHANGED <<shadow, refs, holders>>
        /\ \A v \in Users \ {u} : pc'[v] = pc[v]
        /\ pc'[u] \in {"waitReady", "connect", "running"} => pc[u] \in {"waitReady", "connect"}
    BY <1>0, <1>1 DEF GetOrCreateShadow, GetConfigMap, WaitPodTerminate, IncreaseRef, CreateConfigMap,
                      WaitReady, Connect, TypeOK
  <2>2. pc[u] \notin {"waitReady", "connect"} => u \notin holders
    BY <1>0, <1>1 DEF GetOrCreateShadow, GetConfigMap, WaitPodTerminate, IncreaseRef, CreateConfigMap,
                      WaitReady, Connect, Newcomers
  <2>3. Counted' \subseteq Counted
    BY <1>0, <2>1, <2>2 DEF Counted, TypeOK
  <2>. QED
    BY <1>0, <2>1, <2>3, CountedShrinks DEF EnoughRefs
<1>2. ASSUME NEW u \in Users, Quit(u) \/ Crash(u) \/ DecreaseRef(u) \/ RemoveConfigMap(u)
      PROVE  EnoughRefs'
  <2>1. /\ UNCHANGED <<shadow, refs, holders>>
        /\ \A v \in Users \ {u} : pc'[v] = pc[v]
        /\ pc'[u] \notin {"waitReady", "connect", "running"}
        /\ pc'[u] \in {"decrease", "decreasePut"} => pc[u] \in {"running", "decrease"}
    BY <1>0, <1>2 DEF Quit, Crash, DecreaseRef, RemoveConfigMap, TypeOK
  <2>2. Counted' \subseteq Counted
    BY <1>0, <2>1 DEF Counted, TypeOK
  <2>. QED
    BY <1>0, <2>1, <2>2, CountedShrinks DEF EnoughRefs
<1>3. ASSUME NEW u \in Users, IncreaseRefPut(u)
      PROVE  EnoughRefs'
  <2>1. UNCHANGED shadow /\ u \notin holders /\ \A v \in Users \ {u} : pc'[v] = pc[v]
    BY <1>0, <1>3 DEF IncreaseRefPut, Newcomers, TypeOK
  <2>2. CASE refs' = refs + 1 /\ holders' = holders \cup {u}
    <3>1. Counted' \subseteq Counted \cup {u} /\ u \notin Counted
      BY <1>0, <2>1, <2>2 DEF Counted, TypeOK
    <3>2. IsFiniteSet(Counted \cup {u}) /\ Cardinality(Counted \cup {u}) = Cardinality(Counted) + 1
      BY <1>a, <3>1, FS_AddElement
    <3>3. IsFiniteSet(Counted') /\ Cardinality(Counted') <= Cardinality(Counted) + 1
      BY <3>1, <3>2, FS_Subset
    <3>4. shadow' # "absent" => Cardinality(Counted') <= refs'
      BY <1>0, <1>a, <2>1, <2>2, <3>3, FS_CardinalityType DEF EnoughRefs, TypeOK
    <3>5. IsFiniteSet(holders')
      BY <1>a, <2>2, FS_AddElement
    <3>. QED
      BY <1>0, <2>1, <2>2, <3>4, <3>5 DEF EnoughRefs
  <2>3. CASE UNCHANGED <<refs, holders>> /\ pc'[u] = "decrease"
    <3>1. Counted' \subseteq Counted
      BY <1>0, <2>1, <2>3 DEF Counted, TypeOK
    <3>. QED
      BY <1>0, <2>1, <2>3, <3>1, CountedShrinks DEF EnoughRefs
  <2>. QED
    BY <1>0, <1>3, <2>2, <2>3 DEF IncreaseRefPut, Increased, TypeOK
<1>4. ASSUME NEW u \in Users, CreateShadow(u)
      PROVE  EnoughRefs'
  <2>1. /\ pc[u] = "createShadow" /\ u \notin holders /\ Running = {}
        /\ \A v \in Users \ {u} : pc'[v] = pc[v] /\ pc[v] \notin Busy
    BY <1>0, <1>4, <1>b DEF CreateShadow, Setup, Newcomers, RunningServed
  <2>2. CASE refs' = 1 /\ holders' = {u}
    <3>1. IsFiniteSet({u}) /\ Cardinality({u}) = 1
      BY FS_Singleton
    <3>2. Counted' \subseteq {u}
      BY <2>2 DEF Counted
    <3>3. IsFiniteSet(Counted') /\ Cardinality(Counted') <= 1
      BY <3>1, <3>2, FS_Subset
    <3>4. \A v \in Users \ {u} : pc'[v] \notin {"waitReady", "connect", "running"}
      BY <2>1 DEF Running, Busy, SetupStates
    <3>. QED
      BY <2>2, <3>1, <3>3, <3>4 DEF EnoughRefs
  <2>3. CASE UNCHANGED <<shadow, refs, holders>> /\ pc'[u] = "decrease"
    <3>1. Counted' \subseteq Counted
      BY <1>0, <2>1, <2>3 DEF Counted, TypeOK
    <3>. QED
      BY <1>0, <2>1, <2>3, <3>1, CountedShrinks DEF EnoughRefs
  <2>. QED
    BY <1>0, <1>4, <2>2, <2>3 DEF CreateShadow, InitialRefs, TypeOK
\* An uncounted process decreases the counter where nobody is connected only.
<1>5. ASSUME NEW u \in Users, DecreaseRefPut(u)
      PROVE  EnoughRefs'
  <2>1. /\ pc[u] = "decreasePut" /\ pc'[u] = "exited" /\ holders' = holders \ {u} /\ UNCHANGED shadow
        /\ \A v \in Users \ {u} : pc'[v] = pc[v] /\ pc[v] \notin Busy
    BY <1>0, <1>5, <1>b DEF DecreaseRefPut, CleanupWorkspace, TypeOK
  <2>2. Counted' = Counted \ {u}
    BY <1>0, <2>1 DEF Counted, TypeOK
  <2>3. IsFiniteSet(holders') /\ IsFiniteSet(Counted')
    BY <1>a, <2>1, <2>2, FS_RemoveElement
  <2>4. CASE u \in holders
    <3>0. u \in Counted
      BY <2>1, <2>4 DEF Counted
    <3>1. Cardinality(Counted') = Cardinality(Counted) - 1
      BY <1>a, <2>2, <3>0, FS_RemoveElement
    <3>2. refs' \in {refs, refs - 1}
      BY <1>5 DEF DecreaseRefPut
    <3>. QED
      BY <1>0, <1>a, <2>1, <2>3, <3>1, <3>2, FS_CardinalityType DEF EnoughRefs, TypeOK
  <2>5. CASE u \notin holders
    <3>1. Running = {}
      BY <1>0, <2>1, <2>5 DEF RunningServed
    <3>2. \A v \in Users : pc'[v] \notin {"waitReady", "connect", "running", "decrease", "decreasePut"}
      BY <2>1, <3>1 DEF Running, Busy, SetupStates, TeardownStates
    <3>3. Counted' = {} /\ Cardinality(Counted') = 0
      BY <1>0, <2>1, <3>2, FS_EmptySet DEF Counted, TypeOK
    <3>4. refs' \in Nat
      BY NextIInv DEF IInv, TypeOK
    <3>. QED
      BY <2>3, <3>2, <3>3, <3>4 DEF EnoughRefs
  <2>. QED
    BY <2>4, <2>5
<1>6. ASSUME NEW u \in Users, RemoveShadow(u)
      PROVE  EnoughRefs'
  <2>1. /\ pc'[u] = "exited" /\ \A v \in Users \ {u} : pc'[v] = pc[v]
    BY <1>0, <1>6 DEF RemoveShadow, TypeOK
  <2>2. CASE UNCHANGED <<refs, holders>> /\ shadow # "absent"
    <3>1. Counted' \subseteq Counted
      BY <1>0, <2>1, <2>2 DEF Counted, TypeOK
    <3>. QED
      BY <1>0, <2>1, <2>2, <3>1, CountedShrinks DEF EnoughRefs
  <2>3. CASE shadow' = "absent" /\ holders' = {}
    BY <2>3, FS_EmptySet DEF EnoughRefs
  <2>. QED
    BY <1>0, <1>6, <2>2, <2>3 DEF RemoveShadow, Removal
<1>7. CASE ShadowStarts
  <2>1. Counted' \subseteq Counted /\ UNCHANGED <<refs, holders, pc>> /\ shadow # "absent"
    BY <1>7 DEF ShadowStarts, Counted
  <2>. QED
    BY <1>0, <2>1, CountedShrinks DEF EnoughRefs
<1>8. CASE ShadowGone
  BY <1>8, FS_EmptySet DEF ShadowGone, EnoughRefs
<1>. QED
  BY <1>0, <1>1, <1>2, <1>3, <1>4, <1>5, <1>6, <1>7, <1>8 DEF OneByOne, Setup, CleanupWorkspace

\* At first nobody is there.
LEMMA InitOneAtATime == Init => OneAtATimeInv
<1> SUFFICES ASSUME Init PROVE OneAtATimeInv
  OBVIOUS
<1>1. \A u \in Users : pc[u] \in {"idle", "exited"}
  <2>1. PICK s \in Scenarios : pc = [u \in Users |-> IF u \in s.users THEN "idle" ELSE "exited"]
    BY DEF Init
  <2>. QED
    BY <2>1
<1>2. Turns
  BY <1>1 DEF Init, Turns, Busy, SetupStates, TeardownStates
<1>3. MapGoesFirst /\ OneKey /\ DyingStays /\ Newcomers
  BY <1>1 DEF Init, MapGoesFirst, OneKey, DyingStays, Newcomers
<1>4. RunningServed
  BY <1>1 DEF Running, RunningServed
<1>5. EnoughRefs
  BY FS_EmptySet, <1>1 DEF Init, EnoughRefs
<1>. QED
  BY <1>2, <1>3, <1>4, <1>5 DEF OneAtATimeInv

\* The invariant of orderly users is inductive where they come and go one at a time.
LEMMA NextOneAtATime ==
  ASSUME IInv, OneAtATime => OneAtATimeInv, [Next]_vars
  PROVE  (OneAtATime => OneAtATimeInv)'
<1>1. CASE UNCHANGED vars
  BY <1>1 DEF vars, state, cluster, process, OneAtATime, OneAtATimeInv, Turns, MapGoesFirst, OneKey,
              DyingStays, RunningServed, Running, Newcomers, EnoughRefs, Counted
<1>2. CASE Next
  <2>1. OneAtATime' => OneAtATime
    BY <1>2 DEF Next, OneAtATime
  <2>. QED
    BY <1>2, <2>1, TurnsKept, MapGoesFirstKept, OneKeyKept, DyingStaysKept, RunningServedKept,
       NewcomersKept, EnoughRefsKept DEF OneAtATimeInv, IInv
<1>. QED
  BY <1>1, <1>2

THEOREM OneAtATimeCorrect == Spec => [](OneAtATime => OneAtATimeInv)
<1>1. Init => (OneAtATime => OneAtATimeInv)
  BY InitOneAtATime
<1>2. IInv /\ (OneAtATime => OneAtATimeInv) /\ [Next]_vars => (OneAtATime => OneAtATimeInv)'
  BY NextOneAtATime
<1>. QED
  BY <1>1, <1>2, IInvCorrect, PTL DEF Spec

\* Nobody loses the shadow because another user is refused, fails, dies or leaves,
\* for any number of users: while one is connected, the counter covers it.
THEOREM ShadowServesUsersCorrect == Spec => []ShadowServesUsers
<1>1. (OneAtATime => OneAtATimeInv) => ShadowServesUsers
  <2> SUFFICES ASSUME OneAtATimeInv, NEW u \in Users, pc[u] = "running"
               PROVE  shadow = "alive" /\ shadowKey = key[u]
    BY DEF ShadowServesUsers, SharedByAll
  <2>1. shadow = "alive"
    BY DEF OneAtATimeInv, RunningServed, Running
  <2>. QED
    BY <2>1 DEF OneAtATimeInv, OneKey
<1>. QED
  BY <1>1, OneAtATimeCorrect, PTL

-------------------------------------------------------------------------------
(* Nothing is left *)

LEMMA BusyStates ==
  /\ Busy = {"readMap", "await", "increase", "increasePut", "createMap", "createShadow", "waitReady",
             "connect", "decrease", "decreasePut", "dropMap", "dropShadow"}
  /\ Sharing \subseteq Busy \cup {"running"}
  BY DEF Busy, SetupStates, TeardownStates, Sharing

\* A step of one process that leaves the shadow, the counter and the config map
\* alone, by what it has to respect.
LEMMA OrderlyStep ==
  ASSUME OrderlyInv, NEW u \in Users,
         \A v \in Users \ {u} : pc'[v] = pc[v] /\ pc[v] \notin Busy,
         UNCHANGED <<shadow, refs, holders, map, dying>>,
         Up => (pc'[u] \in Sharing <=> pc[u] \in Sharing),
         Up /\ pc'[u] \in {"dropMap", "dropShadow"} => refs = 1,
         Up /\ pc'[u] = "decreasePut" => u \in fresh',
         Up /\ pc[u] = "dropShadow" => pc'[u] = "dropShadow",
         pc[u] # "createShadow" \/ map = NoUser,
         pc'[u] = "readMap" => (u \in dying <=> ~Up),
         pc'[u] \in {"createMap", "createShadow"} => shadow = "absent",
         pc'[u] = "await" => ~Up,
         pc'[u] \in {"increase", "increasePut", "connect"} => shadow = "alive",
         pc'[u] = "waitReady" => Up,
         shadow = "pending" => pc'[u] \in {"waitReady", "decrease", "dropMap", "dropShadow"}
  PROVE  OrderlyInv'
<1>1. Up' = Up
  BY DEF Up
<1>2. Up => Sharers' = Sharers
  BY DEF Sharers
<1>3. ExactRefs'
  BY <1>1, <1>2, BusyStates DEF OrderlyInv, ExactRefs
<1>4. MapOfShadow'
  BY <1>1 DEF OrderlyInv, MapOfShadow
<1>5. JoinsUp'
  BY <1>1, BusyStates DEF OrderlyInv, JoinsUp
<1>6. CreatorWaits'
  BY DEF OrderlyInv, CreatorWaits
<1>. QED
  BY <1>3, <1>4, <1>5, <1>6 DEF OrderlyInv

\* Once the shadow is not up any more and its config map is gone, a process that
\* does not join leaves nothing to respect.
LEMMA OrderlyDown ==
  ASSUME ~Up', map' = NoUser,
         \A v \in Users : pc'[v] \notin SetupStates
  PROVE  OrderlyInv'
<1>1. \A v \in Users : pc'[v] \notin {"readMap", "await", "increase", "increasePut", "createMap",
                                    "createShadow", "waitReady", "connect"}
  BY DEF SetupStates
<1>. QED
  BY <1>1 DEF OrderlyInv, ExactRefs, MapOfShadow, JoinsUp, CreatorWaits, Up

\* What an orderly process finds while it joins or leaves alone.
LEMMA Alone ==
  ASSUME IInv, OneAtATimeInv, OrderlyInv, NEW u \in Users, pc[u] \in Busy
  PROVE  /\ \A v \in Users \ {u} : pc[v] \notin Busy
         /\ Up /\ pc[u] # "dropShadow" => map # NoUser
         /\ map # NoUser => Up \/ pc[u] = "createShadow"
         /\ shadow = "pending" => pc[u] \in {"waitReady", "decrease", "dropMap", "dropShadow"}
         /\ Up /\ pc[u] \notin Sharing => Running # {}
         /\ shadow = "pending" => refs = 1
<1>1. \A v \in Users \ {u} : pc[v] \notin Busy
  BY OthersRest DEF OneAtATimeInv
<1>2. Up /\ pc[u] # "dropShadow" => map # NoUser
  BY <1>1, BusyStates DEF OrderlyInv, MapOfShadow
<1>3. map # NoUser => Up \/ pc[u] = "createShadow"
  BY <1>1, BusyStates DEF OrderlyInv, MapOfShadow
<1>4. shadow = "pending" => pc[u] \in {"waitReady", "decrease", "dropMap", "dropShadow"}
  BY <1>1, BusyStates DEF OrderlyInv, CreatorWaits
<1>5. Up /\ pc[u] \notin Sharing => Running # {}
  BY <1>1, BusyStates DEF OrderlyInv, ExactRefs, Sharers, Running
<1>6. ASSUME shadow = "pending" PROVE refs = 1
  <2>1. Running = {}
    BY <1>6 DEF OneAtATimeInv, RunningServed
  <2>2. Sharers = {u}
    BY <1>1, <1>4, <1>6, <2>1, BusyStates DEF Sharers, Sharing, Running
  <2>3. Up /\ refs = Cardinality(Sharers)
    BY <1>6 DEF OrderlyInv, ExactRefs, Up
  <2>. QED
    BY <2>2, <2>3, FS_Singleton
<1>. QED
  BY <1>1, <1>2, <1>3, <1>4, <1>5, <1>6

\* Every step of orderly users keeps the invariant.
LEMMA OrderlyKept ==
  ASSUME IInv, Orderly, OneAtATimeInv, OrderlyInv, Next
  PROVE  OrderlyInv'
<1>0. /\ TypeOK /\ Turns /\ MapGoesFirst /\ OneKey /\ DyingStays /\ RunningServed /\ Newcomers /\ EnoughRefs
      /\ ExactRefs /\ MapOfShadow /\ JoinsUp /\ CreatorWaits
      /\ ~Fails /\ OneByOne /\ NoUser \notin Users
  BY StepsOneByOne, ConstantsAssumption DEF IInv, OneAtATimeInv, OrderlyInv, Orderly, OneAtATime
<1>a. OneAtATime /\ "crash" \notin allowed
  BY DEF Orderly, OneAtATime
<1>b. ASSUME NEW u \in Users, Setup(u) \/ CleanupWorkspace(u)
      PROVE  /\ pc[u] \in Busy
             /\ \A v \in Users \ {u} : pc'[v] = pc[v] /\ pc[v] \notin Busy
  BY <1>0, <1>b, BusyMoves, OthersRest
<1> USE DEF Goto, Abort, Exit, cluster, process
<1>1. ASSUME NEW u \in Users, GetOrCreateShadow(u) PROVE OrderlyInv'
  <2>1. (\A v \in Users : pc[v] \notin Busy) /\ (\A v \in Users \ {u} : pc'[v] = pc[v])
    BY <1>0, <1>1, <1>a, BusyAlone
  <2>2. shadow # "pending"
    BY <1>0, <2>1, BusyStates DEF CreatorWaits
  <2>3. pc[u] = "idle" /\ u \notin dying /\ UNCHANGED <<shadow, refs, holders, map>>
    BY <1>0, <1>1 DEF GetOrCreateShadow, DyingStays
  <2>4. \/ pc'[u] = "readMap" /\ shadow # "absent" /\ (u \in dying' <=> shadow = "terminating")
        \/ pc'[u] = "createMap" /\ shadow = "absent"
    BY <1>0, <1>1, <2>2, <2>3 DEF GetOrCreateShadow, Found, NoPodYet, TypeOK
  <2>5. Sharers' = Sharers /\ Up' = Up
    BY <2>1, <2>3, <2>4, BusyStates DEF Sharers, Sharing, Up
  <2>6. ExactRefs'
    BY <1>0, <2>1, <2>3, <2>4, <2>5, BusyStates DEF ExactRefs
  <2>7. MapOfShadow'
    BY <1>0, <2>1, <2>3, <2>4, <2>5, BusyStates DEF MapOfShadow
  <2>8. JoinsUp'
    BY <1>0, <2>1, <2>2, <2>3, <2>4, <2>5, BusyStates DEF JoinsUp, Up, TypeOK
  <2>. QED
    BY <2>2, <2>3, <2>6, <2>7, <2>8 DEF OrderlyInv, CreatorWaits
<1>2. ASSUME NEW u \in Users, GetConfigMap(u) PROVE OrderlyInv'
  <2>1. pc[u] = "readMap" /\ UNCHANGED <<shadow, refs, holders, map, dying>>
    BY <1>2 DEF GetConfigMap
  <2>2. (u \in dying <=> ~Up) /\ (Up => map # NoUser) /\ (map # NoUser => Up) /\ shadow # "pending"
    BY <1>0, <2>1, Alone, BusyStates DEF JoinsUp
  <2>3. (pc'[u] = "increase" /\ Up) \/ (pc'[u] = "await" /\ ~Up)
    BY <1>0, <1>2, <2>2 DEF GetConfigMap, FoundDying, TypeOK
  <2>. QED
    BY <1>2, <1>b, <2>1, <2>2, <2>3, OrderlyStep DEF Setup, Sharing, Up
<1>3. ASSUME NEW u \in Users, WaitPodTerminate(u) PROVE OrderlyInv'
  <2>1. pc[u] = "await" /\ UNCHANGED <<shadow, refs, holders, map, dying>> /\ ~Up
    BY <1>0, <1>3 DEF WaitPodTerminate, JoinsUp
  <2>2. (pc'[u] = "createMap" /\ shadow = "absent") \/ pc'[u] = "decrease"
    BY <1>0, <1>3, <2>1 DEF WaitPodTerminate, Up, TypeOK
  <2>. QED
    BY <1>3, <1>b, <2>1, <2>2, OrderlyStep DEF Setup, Up
<1>4. ASSUME NEW u \in Users, IncreaseRef(u) PROVE OrderlyInv'
  <2>1. pc[u] = "increase" /\ UNCHANGED <<shadow, refs, holders, map, dying>> /\ shadow = "alive"
    BY <1>0, <1>4 DEF IncreaseRef, JoinsUp
  <2>2. pc'[u] = "increasePut"
    BY <1>0, <1>4, <2>1 DEF IncreaseRef, TypeOK
  <2>. QED
    BY <1>4, <1>b, <2>1, <2>2, OrderlyStep DEF Setup, Sharing, Up
\* Somebody is connected, so that the copy is current.
<1>5. ASSUME NEW u \in Users, IncreaseRefPut(u) PROVE OrderlyInv'
  <2>1. pc[u] = "increasePut" /\ shadow = "alive" /\ UNCHANGED <<shadow, map>> /\ u \notin holders
    BY <1>0, <1>5 DEF IncreaseRefPut, JoinsUp, Newcomers
  <2>2. Up /\ Up' /\ Running # {}
    BY <1>0, <2>1, Alone, BusyStates DEF Up, Sharing
  <2>3. u \in fresh
    BY <1>0, <2>1, <2>2 DEF RunningServed
  <2>4. pc'[u] = "connect" /\ refs' = refs + 1 /\ holders' = holders \cup {u}
    BY <1>0, <1>5, <2>3 DEF IncreaseRefPut, Increased, TypeOK
  <2>5. \A v \in Users \ {u} : pc'[v] = pc[v] /\ pc[v] \notin Busy
    BY <1>5, <1>b DEF Setup
  <2>6. Sharers' = Sharers \cup {u}
    BY <2>4, <2>5 DEF Sharers, Sharing
  <2>7. Cardinality(holders') = Cardinality(holders) + 1
    BY <1>0, <2>1, <2>4, FS_AddElement DEF EnoughRefs
  <2>8. ExactRefs'
    BY <1>0, <2>2, <2>4, <2>5, <2>6, <2>7, BusyStates DEF ExactRefs
  <2>9. MapOfShadow' /\ JoinsUp' /\ CreatorWaits'
    BY <1>0, <2>1, <2>2, <2>4, <2>5, BusyStates DEF MapOfShadow, JoinsUp, CreatorWaits
  <2>. QED
    BY <2>8, <2>9 DEF OrderlyInv
<1>6. ASSUME NEW u \in Users, CreateConfigMap(u) PROVE OrderlyInv'
  <2>1. pc[u] = "createMap" /\ shadow = "absent" /\ UNCHANGED shadow /\ ~Up /\ ~Up'
    BY <1>0, <1>6 DEF CreateConfigMap, JoinsUp, Up
  <2>2. map = NoUser
    BY <1>0, <2>1, Alone, BusyStates
  <2>3. pc'[u] = "createShadow"
    BY <1>0, <1>6, <2>2 DEF CreateConfigMap, TypeOK
  <2>4. \A v \in Users \ {u} : pc'[v] = pc[v] /\ pc[v] \notin Busy
    BY <1>6, <1>b DEF Setup
  <2>5. ExactRefs' /\ MapOfShadow' /\ CreatorWaits'
    BY <2>1, <2>3 DEF ExactRefs, MapOfShadow, CreatorWaits
  <2>6. JoinsUp'
    BY <2>1, <2>3, <2>4, BusyStates DEF JoinsUp
  <2>. QED
    BY <2>5, <2>6 DEF OrderlyInv
<1>7. ASSUME NEW u \in Users, CreateShadow(u) PROVE OrderlyInv'
  <2>1. pc[u] = "createShadow" /\ shadow = "absent" /\ map # NoUser /\ UNCHANGED map
    BY <1>0, <1>7 DEF CreateShadow, JoinsUp, OneKey
  <2>2. /\ shadow' = "pending" /\ refs' = 1 /\ holders' = {u} /\ pc'[u] = "waitReady"
    BY <1>0, <1>7, <2>1 DEF CreateShadow, InitialRefs, TypeOK
  <2>3. \A v \in Users \ {u} : pc'[v] = pc[v] /\ pc[v] \notin Busy
    BY <1>7, <1>b DEF Setup
  <2>4. Running = {}
    BY <1>0, <2>1 DEF RunningServed
  <2>5. Sharers' = {u} /\ Up'
    BY <2>2, <2>3, <2>4, BusyStates DEF Sharers, Sharing, Running, Up
  <2>6. Cardinality({u}) = 1
    BY FS_Singleton
  <2>7. ExactRefs'
    BY <2>2, <2>3, <2>5, <2>6, BusyStates DEF ExactRefs
  <2>8. MapOfShadow' /\ JoinsUp' /\ CreatorWaits'
    BY <2>1, <2>2, <2>3, <2>5, BusyStates DEF MapOfShadow, JoinsUp, CreatorWaits
  <2>. QED
    BY <2>7, <2>8 DEF OrderlyInv
<1>8. ASSUME NEW u \in Users, WaitReady(u) PROVE OrderlyInv'
  <2>1. pc[u] = "waitReady" /\ UNCHANGED <<shadow, refs, holders, map, dying>> /\ Up
    BY <1>0, <1>8 DEF WaitReady, JoinsUp
  <2>2. (pc'[u] = "connect" /\ shadow = "alive") \/ pc'[u] = "decrease"
    BY <1>0, <1>8, <2>1 DEF WaitReady, Up, TypeOK
  <2>. QED
    BY <1>8, <1>b, <2>1, <2>2, OrderlyStep DEF Setup, Sharing, Up
<1>9. ASSUME NEW u \in Users, Connect(u) PROVE OrderlyInv'
  <2>1. pc[u] = "connect" /\ UNCHANGED <<shadow, refs, holders, map, dying>> /\ shadow = "alive"
    BY <1>0, <1>9 DEF Connect, JoinsUp
  <2>2. pc'[u] \in {"running", "decrease"}
    BY <1>0, <1>9 DEF Connect, TypeOK
  <2>. QED
    BY <1>9, <1>b, <2>1, <2>2, OrderlyStep DEF Setup, Sharing, Up
<1>10. ASSUME NEW u \in Users, Quit(u) PROVE OrderlyInv'
  <2>1. (\A v \in Users : pc[v] \notin Busy) /\ (\A v \in Users \ {u} : pc'[v] = pc[v])
    BY <1>0, <1>10, <1>a, BusyAlone
  <2>2. /\ pc[u] = "running" /\ pc'[u] = "decrease" /\ UNCHANGED <<shadow, refs, holders, map, dying>>
    BY <1>0, <1>10 DEF Quit, TypeOK
  <2>3. shadow = "alive"
    BY <1>0, <2>2 DEF RunningServed, Running
  <2>. QED
    BY <2>1, <2>2, <2>3, OrderlyStep DEF Sharing, Up
<1>11. ASSUME NEW u \in Users, DecreaseRef(u) PROVE OrderlyInv'
  <2>1. pc[u] = "decrease" /\ UNCHANGED <<shadow, refs, holders, map, dying>>
    BY <1>11 DEF DecreaseRef
  <2>2. \/ pc'[u] = "exited" /\ shadow = "absent"
        \/ pc'[u] = "dropMap" /\ refs = 1
        \/ pc'[u] = "decreasePut" /\ u \in fresh' /\ refs # 1
    BY <1>0, <1>11 DEF DecreaseRef, LastRef, TypeOK
  <2>3. shadow = "pending" => refs = 1
    BY <1>0, <2>1, Alone, BusyStates
  <2>. QED
    BY <1>11, <1>b, <2>1, <2>2, <2>3, OrderlyStep DEF CleanupWorkspace, Sharing, Up
\* More than one were counted, somebody is left.
<1>12. ASSUME NEW u \in Users, DecreaseRefPut(u) PROVE OrderlyInv'
  <2>1. pc[u] = "decreasePut" /\ pc'[u] = "exited" /\ holders' = holders \ {u} /\ UNCHANGED <<shadow, map, dying>>
    BY <1>0, <1>12 DEF DecreaseRefPut, TypeOK
  <2>2. \A v \in Users \ {u} : pc'[v] = pc[v] /\ pc[v] \notin Busy
    BY <1>12, <1>b DEF CleanupWorkspace
  <2>3. shadow # "pending" /\ Up' = Up
    BY <1>0, <2>1, Alone, BusyStates DEF Up
  <2>4. ASSUME Up PROVE u \in fresh /\ refs # 1 /\ refs' = refs - 1 /\ u \in holders
    BY <1>0, <1>12, <2>1, <2>4 DEF DecreaseRefPut, ExactRefs, Sharers, Sharing, IInv, CurrentCopies
  <2>5. Sharers' = Sharers \ {u}
    BY <2>1, <2>2 DEF Sharers, Sharing
  <2>6. Up => Cardinality(holders') = Cardinality(holders) - 1
    BY <1>0, <2>1, <2>4, FS_RemoveElement DEF EnoughRefs
  <2>7. Up => holders' # {}
    <3>1. Up => Cardinality(holders') # 0
      BY <1>0, <2>4, <2>6 DEF ExactRefs, TypeOK
    <3>. QED
      BY <3>1, FS_EmptySet
  <2>8. ExactRefs'
    BY <1>0, <2>1, <2>2, <2>3, <2>4, <2>5, <2>6, <2>7, BusyStates DEF ExactRefs
  <2>9. MapOfShadow' /\ JoinsUp' /\ CreatorWaits'
    BY <1>0, <2>1, <2>2, <2>3, BusyStates DEF MapOfShadow, JoinsUp, CreatorWaits
  <2>. QED
    BY <2>8, <2>9 DEF OrderlyInv
<1>13. ASSUME NEW u \in Users, RemoveConfigMap(u) PROVE OrderlyInv'
  <2>1. /\ pc[u] = "dropMap" /\ pc'[u] = "dropShadow" /\ map' = NoUser
        /\ UNCHANGED <<shadow, refs, holders, dying>>
    BY <1>0, <1>13 DEF RemoveConfigMap, RemovedMap, TypeOK
  <2>2. \A v \in Users \ {u} : pc'[v] = pc[v] /\ pc[v] \notin Busy
    BY <1>13, <1>b DEF CleanupWorkspace
  <2>3. Sharers' = Sharers /\ Up' = Up
    BY <2>1, <2>2 DEF Sharers, Sharing, Up
  <2>4. ExactRefs'
    BY <1>0, <2>1, <2>2, <2>3, BusyStates DEF ExactRefs
  <2>5. MapOfShadow' /\ JoinsUp' /\ CreatorWaits'
    BY <1>0, <2>1, <2>2, <2>3, BusyStates DEF MapOfShadow, JoinsUp, CreatorWaits
  <2>. QED
    BY <2>4, <2>5 DEF OrderlyInv
<1>14. ASSUME NEW u \in Users, RemoveShadow(u) PROVE OrderlyInv'
  <2>1. pc[u] = "dropShadow" /\ pc'[u] = "exited" /\ map' = NoUser /\ ~Up'
    BY <1>0, <1>14 DEF RemoveShadow, Removal, MapGoesFirst, Up, TypeOK
  <2>2. \A v \in Users : pc'[v] \notin SetupStates
    BY <1>14, <1>b, <2>1 DEF CleanupWorkspace, Busy, SetupStates
  <2>. QED
    BY <2>1, <2>2, OrderlyDown
<1>15. CASE ShadowStarts
  <2>1. /\ shadow = "pending" /\ shadow' = "alive" /\ Up /\ Up' /\ UNCHANGED <<refs, holders, map, pc, dying>>
        /\ Sharers' = Sharers
    BY <1>15 DEF ShadowStarts, Up, Sharers
  <2>2. \A v \in Users : pc[v] # "decreasePut"
    BY <1>0, <2>1, Alone, BusyStates
  <2>3. ExactRefs'
    BY <1>0, <2>1, <2>2 DEF ExactRefs
  <2>4. MapOfShadow' /\ JoinsUp' /\ CreatorWaits'
    BY <1>0, <2>1 DEF MapOfShadow, JoinsUp, CreatorWaits
  <2>. QED
    BY <2>3, <2>4 DEF OrderlyInv
<1>16. CASE ShadowGone
  <2>1. shadow = "terminating" /\ shadow' = "absent" /\ ~Up /\ ~Up' /\ UNCHANGED <<map, pc, dying>> /\ map = NoUser
    BY <1>0, <1>16 DEF ShadowGone, Up, MapGoesFirst
  <2>. QED
    BY <1>0, <2>1 DEF OrderlyInv, ExactRefs, MapOfShadow, JoinsUp, CreatorWaits
<1>17. \A u \in Users : ~Crash(u)
  BY <1>a DEF Crash
<1>. QED
  BY <1>0, <1>1, <1>2, <1>3, <1>4, <1>5, <1>6, <1>7, <1>8, <1>9, <1>10, <1>11, <1>12, <1>13, <1>14, <1>15, <1>16, <1>17
  DEF OneByOne, Setup, CleanupWorkspace

THEOREM OrderlyCorrect == Spec => [](Orderly => OrderlyInv)
<1>1. Init => (Orderly => OrderlyInv)
  <2> SUFFICES ASSUME Init PROVE OrderlyInv
    OBVIOUS
  <2>1. \A u \in Users : pc[u] \in {"idle", "exited"}
    <3>1. PICK s \in Scenarios : pc = [u \in Users |-> IF u \in s.users THEN "idle" ELSE "exited"]
      BY DEF Init
    <3>. QED
      BY <3>1
  <2>. QED
    BY <2>1 DEF Init, OrderlyInv, ExactRefs, MapOfShadow, JoinsUp, CreatorWaits, Up
<1>2. IInv /\ (OneAtATime => OneAtATimeInv) /\ (Orderly => OrderlyInv) /\ [Next]_vars
        => (Orderly => OrderlyInv)'
  <2> SUFFICES ASSUME IInv, OneAtATime => OneAtATimeInv, Orderly => OrderlyInv, [Next]_vars, Orderly'
               PROVE  OrderlyInv'
    OBVIOUS
  <2>1. CASE UNCHANGED vars
    BY <2>1 DEF vars, state, cluster, process, Orderly, OrderlyInv, ExactRefs, Sharers, MapOfShadow, JoinsUp,
                CreatorWaits, Up
  <2>2. CASE Next
    <3>1. Orderly /\ OneAtATime
      BY <2>2 DEF Next, Orderly, OneAtATime
    <3>. QED
      BY <2>2, <3>1, OrderlyKept
  <2>. QED
    BY <2>1, <2>2
<1>. QED
  BY <1>1, <1>2, IInvCorrect, OneAtATimeCorrect, PTL DEF Spec

\* When all clients have exited nothing is left, for any number of users: the counter
\* of a shadow that is up is the number of those who share it.
THEOREM ResourcesRemovedCorrect == Spec => []ResourcesRemoved
<1>1. (Orderly => OrderlyInv) => ResourcesRemoved
  <2> SUFFICES ASSUME OrderlyInv, \A u \in Users : pc[u] \in {"idle", "exited"}
               PROVE  ~Up /\ map = NoUser
    BY DEF ResourcesRemoved
  <2>1. ~Up
    BY DEF OrderlyInv, ExactRefs, Sharers, Sharing
  <2>. QED
    BY <2>1 DEF OrderlyInv, MapOfShadow
<1>. QED
  BY <1>1, OrderlyCorrect, PTL
===============================================================================
