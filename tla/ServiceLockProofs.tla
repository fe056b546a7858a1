--------------------------- MODULE ServiceLockProofs ---------------------------
(***************************************************************************)
(* Proofs about ServiceLock, for every set of users, every clock skew and   *)
(* every value of the time-outs.                                           *)
(*                                                                         *)
(* What needs no assumption on time (type correctness, a live lock is not  *)
(* replaced) comes first.  Mutual exclusion, and the refinement of         *)
(* ServiceMutex, hold when unlocks are timely.                             *)
(***************************************************************************)
EXTENDS ServiceLock, TLAPS

\* Every step of LockService, UnlockService and the environment keeps the
\* variables in their types.
LEMMA TypeStep == TypeOK /\ [Next]_vars => TypeOK'
<1> SUFFICES ASSUME TypeOK, [Next]_vars PROVE TypeOK'
  OBVIOUS
<1> USE ConstantsAssumption DEF ConstantsAssumption, TypeOK, States
<1>1. ASSUME NEW u \in Users, CallLock(u) \/ Crash(u) \/ Restart(u)
      PROVE  TypeOK'
  <2>1. CASE CallLock(u)
    BY <2>1 DEF CallLock, Goto
  <2>2. CASE Crash(u)
    BY <2>2 DEF Crash, Goto
  <2>3. CASE Restart(u)
    BY <2>3 DEF Restart, Goto
  <2>4. QED
    BY <1>1, <2>1, <2>2, <2>3
<1>2. ASSUME NEW u \in Users, LockService(u)
      PROVE  TypeOK'
  <2>1. CASE GiveUp(u) \/ GetToLock(u) \/ GetToLockFails(u)
    BY <2>1 DEF GiveUp, GetToLock, GetToLockFails, Goto
  <2>2. CASE Occupied(u)
    BY <2>2 DEF Occupied, Goto
  <2>3. CASE StampLock(u)
    BY <2>3 DEF StampLock, Goto, Clock
  <2>4. CASE UpdateToLock(u)
    BY <2>4 DEF UpdateToLock, Goto, Write
  <2>5. CASE UpdateToLockFails(u)
    <3>1. lock' \in SUBSET Int /\ fresh' \in SUBSET Users
      BY <2>5 DEF UpdateToLockFails, Write
    <3>2. times' \in [Users -> Nat] /\ pc' \in [Users -> States]
      BY <2>5 DEF UpdateToLockFails, Goto, RetryTimes
    <3>3. QED
      BY <2>5, <3>1, <3>2 DEF UpdateToLockFails
  <2>6. QED
    BY <1>2, <2>1, <2>2, <2>3, <2>4, <2>5 DEF LockService
<1>3. ASSUME NEW u \in Users, UnlockService(u)
      PROVE  TypeOK'
  BY <1>3 DEF UnlockService, GetToUnlock, GetToUnlockFails,
              UpdateToUnlock, UpdateToUnlockFails, Goto, Write
<1>4. CASE OtherWrite
  BY <1>4 DEF OtherWrite, Write
<1>5. CASE Tick
  BY <1>5 DEF Tick
<1>6. CASE UNCHANGED vars
  BY <1>6 DEF vars
<1>7. QED
  BY <1>1, <1>2, <1>3, <1>4, <1>5, <1>6 DEF Next

\* TypeOK is an invariant of the lock.
THEOREM TypeCorrect == Spec => []TypeOK
<1>1. Init => TypeOK
  BY ConstantsAssumption DEF Init, TypeOK, States
<1>2. QED
  BY <1>1, TypeStep, PTL DEF Spec

-------------------------------------------------------------------------------
(* What is decided on a copy is still right when the copy is written.      *)

CopyInv == TypeOK /\ FreshCopies /\ OldEnough

LEMMA CopyInvStep == CopyInv /\ [Next]_vars => CopyInv'
<1> SUFFICES ASSUME CopyInv, [Next]_vars PROVE CopyInv'
  OBVIOUS
<1>t. TypeOK /\ TypeOK'
  BY TypeStep DEF CopyInv
<1> USE ConstantsAssumption, <1>t
<1> SUFFICES FreshCopies' /\ OldEnough'
  BY DEF CopyInv
<1> USE DEF CopyInv, TypeOK, FreshCopies, OldEnough, Live, Clock
<1>1. ASSUME NEW u \in Users, CallLock(u) \/ Crash(u) \/ Restart(u)
      PROVE  FreshCopies' /\ OldEnough'
  BY <1>1 DEF CallLock, Crash, Restart, Goto
<1>2. ASSUME NEW u \in Users, LockService(u)
      PROVE  FreshCopies' /\ OldEnough'
  <2>1. CASE GiveUp(u) \/ GetToLock(u) \/ GetToLockFails(u)
    BY <2>1 DEF GiveUp, GetToLock, GetToLockFails, Goto
  <2>2. CASE Occupied(u) \/ StampLock(u)
    BY <2>2 DEF Occupied, StampLock, Goto
  <2>3. CASE UpdateToLock(u) \/ UpdateToLockFails(u)
    BY <2>3 DEF UpdateToLock, UpdateToLockFails, Goto, Write
  <2>4. QED
    BY <1>2, <2>1, <2>2, <2>3 DEF LockService
<1>3. ASSUME NEW u \in Users, UnlockService(u)
      PROVE  FreshCopies' /\ OldEnough'
  BY <1>3 DEF UnlockService, GetToUnlock, GetToUnlockFails,
              UpdateToUnlock, UpdateToUnlockFails, Goto, Write
<1>4. CASE OtherWrite
  BY <1>4 DEF OtherWrite, Write
<1>5. CASE Tick
  <2>1. FreshCopies'
    BY <1>5 DEF Tick
  <2>2. OldEnough'
    <3> SUFFICES ASSUME NEW u \in Users, pc[u] = "update",
                        NEW t \in copy[u]
                 PROVE  ~(now + 1 + Skew[u] - t < LockTimeout)
      BY <1>5 DEF Tick
    <3>1. ~(now + Skew[u] - t < LockTimeout)
      OBVIOUS
    <3>2. now \in Int /\ Skew[u] \in Int /\ t \in Int /\ LockTimeout \in Int
      OBVIOUS
    <3>3. QED
      BY <3>1, <3>2
  <2>3. QED
    BY <2>1, <2>2
<1>6. CASE UNCHANGED vars
  BY <1>6 DEF vars
<1>7. QED
  BY <1>1, <1>2, <1>3, <1>4, <1>5, <1>6 DEF Next

LEMMA CopyInvariant == Spec => []CopyInv
<1>1. Init => CopyInv
  BY ConstantsAssumption DEF Init, CopyInv, TypeOK, States, FreshCopies, OldEnough
<1>2. QED
  BY <1>1, CopyInvStep, PTL DEF Spec

\* However late its update arrives, a user who enters the critical section
\* replaced nothing but a missing or an expired lock.
THEOREM LockNotStolenCorrect == Spec => LockNotStolen
<1>1. CopyInv /\ [Next]_vars =>
        [\A u \in Users : pc[u] # "hold" /\ pc'[u] = "hold" => ~Live(u, lock)]_vars
  <2> SUFFICES ASSUME CopyInv, Next, NEW u \in Users,
                      pc[u] # "hold", pc'[u] = "hold"
               PROVE  ~Live(u, lock)
    BY DEF vars
  <2> USE DEF CopyInv, TypeOK
  <2>1. UpdateToLock(u)
    <3>1. PICK w \in Users : CallLock(w) \/ LockService(w) \/ UnlockService(w)
                               \/ Crash(w) \/ Restart(w)
      BY DEF Next, OtherWrite, Tick
    <3>2. UpdateToLock(w)
      BY <3>1 DEF CallLock, LockService, UnlockService, Crash, Restart, GiveUp,
           GetToLock, GetToLockFails, Occupied, StampLock, UpdateToLockFails,
           GetToUnlock, GetToUnlockFails, UpdateToUnlock, UpdateToUnlockFails, Goto
    <3>3. w = u
      BY <3>2 DEF UpdateToLock, Goto
    <3>4. QED
      BY <3>2, <3>3
  <2>2. QED
    BY <2>1 DEF UpdateToLock, Accepted, FreshCopies, OldEnough
<1>2. QED
  BY <1>1, CopyInvariant, PTL DEF Spec, LockNotStolen

-------------------------------------------------------------------------------
(* Mutual exclusion, when every critical section reads the Service for its  *)
(* unlock before its lock looks expired on anybody's clock.                *)

\* A time stamp just taken looks live to everybody.
LEMMA NewStampLive ==
  ASSUME TypeOK, NEW u \in Users
  PROVE  LiveForAll(Clock(u), now)
  BY ConstantsAssumption, SkewAssumption
     DEF ConstantsAssumption, SkewAssumption, TypeOK, LiveForAll, Clock

\* Nobody enters while a lock in use is live: its own check would have
\* found the lock.
LEMMA EntersAlone ==
  ASSUME IInv, NEW u \in Users, pc[u] = "update", Accepted(u)
  PROVE  \A v \in Users : pc[v] # "hold"
<1> SUFFICES ASSUME NEW v \in Users, pc[v] = "hold" PROVE FALSE
  OBVIOUS
<1> USE ConstantsAssumption DEF ConstantsAssumption, IInv, TypeOK
<1>1. lock = {stamp[v]} /\ copy[u] = lock
  BY DEF HolderOwnsLock, FreshCopies, Accepted
<1>2. now + Skew[u] - stamp[v] < LockTimeout
  BY DEF InTime, InSection, LiveForAll
<1>3. ~(now + Skew[u] - stamp[v] < LockTimeout)
  BY <1>1 DEF OldEnough, Live, Clock
<1>4. QED
  BY <1>2, <1>3

LEMMA IInvStep ==
  ASSUME TimelyUnlock = TRUE
  PROVE  IInv /\ [Next]_vars => IInv'
<1> SUFFICES ASSUME IInv, [Next]_vars PROVE IInv'
  OBVIOUS
<1>t. TypeOK /\ TypeOK' /\ CopyInv'
  BY TypeStep, CopyInvStep DEF IInv, CopyInv
<1> SUFFICES InTime' /\ HolderOwnsLock' /\ UnlocksOwn' /\ MutualExclusion'
  BY <1>t DEF IInv, CopyInv
<1> USE <1>t DEF IInv, TypeOK
<1>1. ASSUME NEW u \in Users, CallLock(u) \/ Crash(u) \/ Restart(u)
      PROVE  InTime' /\ HolderOwnsLock' /\ UnlocksOwn' /\ MutualExclusion'
  BY <1>1 DEF CallLock, Crash, Restart, Goto, InTime, InSection, LiveForAll,
              HolderOwnsLock, UnlocksOwn, MutualExclusion
<1>2. ASSUME NEW u \in Users, LockService(u)
      PROVE  InTime' /\ HolderOwnsLock' /\ UnlocksOwn' /\ MutualExclusion'
  <2>1. CASE GiveUp(u) \/ GetToLock(u) \/ GetToLockFails(u) \/ Occupied(u)
    BY <2>1 DEF GiveUp, GetToLock, GetToLockFails, Occupied, Goto, InTime, InSection,
                LiveForAll, HolderOwnsLock, UnlocksOwn, MutualExclusion
  <2>2. CASE StampLock(u)
    <3>1. InTime'
      BY <2>2, NewStampLive DEF StampLock, Goto, InTime, InSection, LiveForAll
    <3>2. HolderOwnsLock' /\ UnlocksOwn' /\ MutualExclusion'
      BY <2>2 DEF StampLock, Goto, HolderOwnsLock, UnlocksOwn, MutualExclusion
    <3>3. QED
      BY <3>1, <3>2
  <2>3. CASE UpdateToLock(u)
    <3>1. \A v \in Users : pc[v] # "hold"
      BY <2>3, EntersAlone DEF UpdateToLock
    <3>2. InTime'
      BY <2>3 DEF UpdateToLock, Goto, InTime, InSection, LiveForAll
    <3>3. HolderOwnsLock' /\ UnlocksOwn' /\ MutualExclusion'
      BY <2>3, <3>1 DEF UpdateToLock, Goto, Write, HolderOwnsLock, UnlocksOwn,
                        MutualExclusion
    <3>4. QED
      BY <3>2, <3>3
  <2>4. CASE UpdateToLockFails(u)
    <3>1. CASE UNCHANGED <<lock, fresh>>
      BY <2>4, <3>1 DEF UpdateToLockFails, Goto, InTime, InSection, LiveForAll,
                        HolderOwnsLock, UnlocksOwn, MutualExclusion
    <3>2. CASE Accepted(u) /\ Write({stamp[u]})
      <4>1. \A v \in Users : pc[v] # "hold"
        BY <2>4, <3>2, EntersAlone DEF UpdateToLockFails
      <4>2. InTime'
        BY <2>4 DEF UpdateToLockFails, Goto, InTime, InSection, LiveForAll
      <4>3. HolderOwnsLock' /\ MutualExclusion'
        BY <2>4, <4>1 DEF UpdateToLockFails, Goto, HolderOwnsLock, MutualExclusion
      <4>4. UnlocksOwn'
        BY <3>2 DEF Write, UnlocksOwn
      <4>5. QED
        BY <4>2, <4>3, <4>4
    <3>3. QED
      BY <2>4, <3>1, <3>2 DEF UpdateToLockFails
  <2>5. QED
    BY <1>2, <2>1, <2>2, <2>3, <2>4 DEF LockService
<1>3. ASSUME NEW u \in Users, UnlockService(u)
      PROVE  InTime' /\ HolderOwnsLock' /\ UnlocksOwn' /\ MutualExclusion'
  <2>1. CASE GetToUnlock(u) \/ GetToUnlockFails(u) \/ UpdateToUnlockFails(u)
    BY <2>1 DEF GetToUnlock, GetToUnlockFails, UpdateToUnlockFails, Goto, InTime,
                InSection, LiveForAll, HolderOwnsLock, UnlocksOwn, MutualExclusion
  <2>2. CASE UpdateToUnlock(u)
    BY <2>2 DEF UpdateToUnlock, Accepted, Goto, Write, InTime, InSection, LiveForAll,
                HolderOwnsLock, UnlocksOwn, MutualExclusion
  <2>3. QED
    BY <1>3, <2>1, <2>2 DEF UnlockService
<1>4. CASE OtherWrite
  BY <1>4 DEF OtherWrite, Write, InTime, InSection, LiveForAll, HolderOwnsLock,
              UnlocksOwn, MutualExclusion
<1>5. CASE Tick
  BY <1>5 DEF Tick, InTime, InSection, LiveForAll, HolderOwnsLock, UnlocksOwn,
              MutualExclusion
<1>6. CASE UNCHANGED vars
  BY <1>6 DEF vars, InTime, InSection, LiveForAll, HolderOwnsLock, UnlocksOwn,
              MutualExclusion
<1>7. QED
  BY <1>1, <1>2, <1>3, <1>4, <1>5, <1>6 DEF Next

LEMMA IInvInvariant ==
  ASSUME TimelyUnlock = TRUE
  PROVE  Spec => []IInv
<1>1. Init => IInv
  BY ConstantsAssumption
     DEF ConstantsAssumption, Init, IInv, TypeOK, States, FreshCopies, OldEnough, InTime,
         InSection, HolderOwnsLock, UnlocksOwn, MutualExclusion
<1>2. QED
  BY <1>1, IInvStep, PTL DEF Spec

\* Two users are never both in the work between LockService and
\* UnlockService.
THEOREM MutualExclusionCorrect ==
  ASSUME TimelyUnlock = TRUE
  PROVE  Spec => []MutualExclusion
<1>1. IInv => MutualExclusion
  BY DEF IInv
<1>2. QED
  BY <1>1, IInvInvariant, PTL

\* The annotation stays the holder's own for as long as the holder works.
THEOREM HolderOwnsLockCorrect ==
  ASSUME TimelyUnlock = TRUE
  PROVE  Spec => []HolderOwnsLock
<1>1. IInv => HolderOwnsLock
  BY DEF IInv
<1>2. QED
  BY <1>1, IInvInvariant, PTL

-------------------------------------------------------------------------------
(* Every step of the lock is a step of the mutex, or none of its business. *)

Holders == {u \in Users : pc[u] = "hold"}

LEMMA MutexStep ==
  ASSUME IInv, [Next]_vars
  PROVE  [Mutex!Next]_Holders
<1> USE DEF IInv, TypeOK, Holders
<1>1. ASSUME NEW u \in Users, UpdateToLock(u)
      PROVE  Mutex!Enter(u)
  <2>1. Holders = {}
    BY <1>1, EntersAlone DEF UpdateToLock
  <2>2. Holders' = {u}
    BY <1>1, <2>1 DEF UpdateToLock, Goto
  <2>3. QED
    BY <2>1, <2>2 DEF Mutex!Enter
<1>2. ASSUME NEW u \in Users, pc[u] = "hold", pc' = [pc EXCEPT ![u] = pc'[u]],
             pc'[u] # "hold"
      PROVE  Mutex!Leave(u)
  BY <1>2 DEF Mutex!Leave
<1>3. ASSUME NEW u \in Users, CallLock(u) \/ Crash(u) \/ Restart(u)
      PROVE  Mutex!Leave(u) \/ UNCHANGED Holders
  BY <1>2, <1>3 DEF CallLock, Crash, Restart, Goto
<1>4. ASSUME NEW u \in Users, LockService(u)
      PROVE  Mutex!Enter(u) \/ UNCHANGED Holders
  BY <1>1, <1>4 DEF LockService, GiveUp, GetToLock, GetToLockFails, Occupied,
                    StampLock, UpdateToLockFails, Goto
<1>5. ASSUME NEW u \in Users, UnlockService(u)
      PROVE  Mutex!Leave(u) \/ UNCHANGED Holders
  BY <1>2, <1>5 DEF UnlockService, GetToUnlock, GetToUnlockFails, UpdateToUnlock,
                    UpdateToUnlockFails, Goto
<1>6. CASE OtherWrite \/ Tick \/ UNCHANGED vars
  BY <1>6 DEF OtherWrite, Tick, vars
<1>7. QED
  BY <1>3, <1>4, <1>5, <1>6 DEF Next, Mutex!Next

\* The annotation protocol implements ServiceMutex.
THEOREM ImplementsMutexCorrect ==
  ASSUME TimelyUnlock = TRUE
  PROVE  Spec => ImplementsMutex
<1>1. Init => Mutex!Init
  BY DEF Init, Mutex!Init
<1>2. IInv /\ [Next]_vars => [Mutex!Next]_Holders
  BY MutexStep
<1>3. QED
  BY <1>1, <1>2, IInvInvariant, PTL DEF Spec, ImplementsMutex, Mutex!Spec, Holders
===============================================================================
