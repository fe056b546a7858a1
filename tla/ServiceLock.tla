------------------------------ MODULE ServiceLock ------------------------------
(***************************************************************************)
(* pkg/kt/command/general/lock.go: the lock that ktctl exchange (selector)  *)
(* and ktctl mesh (auto) take on the target Service.                       *)
(*                                                                         *)
(* The lock is the annotation kt-lock of the Service.  Its value is a time *)
(* stamp and nothing else: it does not say who took it.  LockService and   *)
(* UnlockService are read-modify-write calls on the whole Service object;  *)
(* the API server refuses an update whose resourceVersion is not the       *)
(* current one, and any writer of the Service changes the resourceVersion. *)
(*                                                                         *)
(* Abstractions.                                                           *)
(*   - An annotation is the set of its values: {} when absent, {t} when it *)
(*     holds t.                                                            *)
(*   - resourceVersion is not a number: `fresh' is the set of the users    *)
(*     whose copy of the Service is still the current revision.            *)
(*   - The work under the lock is the state "hold"; what it writes to the  *)
(*     Service is OtherWrite.                                              *)
(***************************************************************************)
EXTENDS Integers

CONSTANTS
  Users,         \* the ktctl processes
  LockTimeout,   \* seconds after which a lock is ignored (3 * 60 in the code)
  MaxTries,      \* LockService gives up when times > MaxTries (10 in the code)
  Skew,          \* Skew[u]: clock of u minus the clock of the cluster, in
                 \* seconds; what TimeDifference leaves of it
  MaxTime,       \* bound on the clock
  TimelyUnlock   \* TRUE: every critical section reads the Service for its
                 \* unlock before the lock looks expired on anybody's clock

ASSUME ConstantsAssumption ==
  /\ LockTimeout \in Nat \ {0}
  /\ MaxTries \in Nat
  /\ MaxTime \in Nat
  /\ Skew \in [Users -> Int]
  /\ TimelyUnlock \in BOOLEAN

\* A lock taken by the slowest clock is not born expired for the fastest one.
ASSUME SkewAssumption == \A u, v \in Users : Skew[v] - Skew[u] < LockTimeout

VARIABLES
  now,     \* the clock of the cluster
  lock,    \* annotation kt-lock of the Service
  fresh,   \* users whose copy of the Service is the current revision
  copy,    \* copy[u]: annotation kt-lock in u's copy of the Service
  stamp,   \* stamp[u]: the time stamp u wrote, or is about to write
  times,   \* times[u]: the argument `times' of LockService
  pc       \* where u is

vars == <<now, lock, fresh, copy, stamp, times, pc>>

States == {"idle", "get", "check", "update", "hold", "unlock", "failed"}

Clock(u) == now + Skew[u]                               \* util.GetTime

\* Mutant of Live: a lock that is not looked at.
LiveIgnored(u, l) == FALSE

\* The condition that makes u wait: the lock exists and is not old enough.
Live(u, l) == \E t \in l : Clock(u) - t < LockTimeout

Init ==
  /\ now = 0
  /\ lock = {}
  /\ fresh = {}
  /\ copy = [u \in Users |-> {}]
  /\ stamp = [u \in Users |-> 0]
  /\ times = [u \in Users |-> 0]
  /\ pc = [u \in Users |-> "idle"]

Goto(u, s) == pc' = [pc EXCEPT ![u] = s]

\* Any write to the Service makes every copy of it stale.
Write(l) == lock' = l /\ fresh' = {}

-------------------------------------------------------------------------------
(* LockService *)

CallLock(u) ==
  /\ pc[u] = "idle"
  /\ times' = [times EXCEPT ![u] = 0]
  /\ Goto(u, "get")
  /\ UNCHANGED <<now, lock, fresh, copy, stamp>>

\* times > 10: "failed to obtain kt lock of service"
GiveUp(u) ==
  /\ pc[u] = "get"
  /\ times[u] > MaxTries
  /\ Goto(u, "failed")
  /\ UNCHANGED <<now, lock, fresh, copy, stamp, times>>

\* GetService: the copy that the rest of this attempt works on.
GetToLock(u) ==
  /\ pc[u] = "get"
  /\ times[u] <= MaxTries
  /\ copy' = [copy EXCEPT ![u] = lock]
  /\ fresh' = fresh \cup {u}
  /\ Goto(u, "check")
  /\ UNCHANGED <<now, lock, stamp, times>>

\* GetService failed: LockService returns the error, it does not retry.
GetToLockFails(u) ==
  /\ pc[u] = "get"
  /\ times[u] <= MaxTries
  /\ Goto(u, "failed")
  /\ UNCHANGED <<now, lock, fresh, copy, stamp, times>>

\* "Another user is occupying service": sleep, then the next attempt.
Occupied(u) ==
  /\ pc[u] = "check"
  /\ Live(u, copy[u])
  /\ times' = [times EXCEPT ![u] = @ + 1]
  /\ Goto(u, "get")
  /\ UNCHANGED <<now, lock, fresh, copy, stamp>>

StampLock(u) ==
  /\ pc[u] = "check"
  /\ ~Live(u, copy[u])
  /\ stamp' = [stamp EXCEPT ![u] = Clock(u)]
  /\ Goto(u, "update")
  /\ UNCHANGED <<now, lock, fresh, copy, times>>

\* Mutant of Accepted: the update carries no resourceVersion (a patch).
AcceptedAlways(u) == pc[u] \in States

\* UpdateService is accepted only for the current resourceVersion.
Accepted(u) == u \in fresh

UpdateToLock(u) ==
  /\ pc[u] = "update"
  /\ Accepted(u)
  /\ Write({stamp[u]})
  /\ Goto(u, "hold")
  /\ UNCHANGED <<now, copy, stamp, times>>

\* Mutant of RetryTimes: the retry forgets to count.
RetryTimesForgotten(u) == times[u]

RetryTimes(u) == times[u] + 1

\* UpdateService failed, by a conflict or any other error: next attempt at once.
\* The answer may also be lost after the update was applied.
UpdateToLockFails(u) ==
  /\ pc[u] = "update"
  /\ \/ UNCHANGED <<lock, fresh>>
     \/ Accepted(u) /\ Write({stamp[u]})
  /\ times' = [times EXCEPT ![u] = RetryTimes(u)]
  /\ Goto(u, "get")
  /\ UNCHANGED <<now, copy, stamp>>

-------------------------------------------------------------------------------
(* UnlockService *)

\* GetService; without the annotation there is nothing to do.
GetToUnlock(u) ==
  /\ pc[u] = "hold"
  /\ copy' = [copy EXCEPT ![u] = lock]
  /\ fresh' = fresh \cup {u}
  /\ Goto(u, IF lock = {} THEN "idle" ELSE "unlock")
  /\ UNCHANGED <<now, lock, stamp, times>>

\* GetService failed: a warning, and the annotation stays.
GetToUnlockFails(u) ==
  /\ pc[u] = "hold"
  /\ Goto(u, "idle")
  /\ UNCHANGED <<now, lock, fresh, copy, stamp, times>>

\* The annotation is deleted whatever time stamp it holds.
UpdateToUnlock(u) ==
  /\ pc[u] = "unlock"
  /\ Accepted(u)
  /\ Write({})
  /\ Goto(u, "idle")
  /\ UNCHANGED <<now, copy, stamp, times>>

\* UpdateService failed: a warning, no retry.
UpdateToUnlockFails(u) ==
  /\ pc[u] = "unlock"
  /\ Goto(u, "idle")
  /\ UNCHANGED <<now, lock, fresh, copy, stamp, times>>

-------------------------------------------------------------------------------
(* The environment *)

\* The process of u is killed, anywhere.  The annotation stays.
Crash(u) ==
  /\ pc[u] \notin {"idle", "failed"}
  /\ Goto(u, "failed")
  /\ UNCHANGED <<now, lock, fresh, copy, stamp, times>>

\* The user starts the command again.
Restart(u) ==
  /\ pc[u] = "failed"
  /\ Goto(u, "idle")
  /\ UNCHANGED <<now, lock, fresh, copy, stamp, times>>

\* Somebody writes another field of the Service: the holder's
\* UpdateServiceSelector, a watcher, a controller.
OtherWrite ==
  /\ fresh # {}
  /\ Write(lock)
  /\ UNCHANGED <<now, copy, stamp, times, pc>>

\* A time stamp that looks live at time t on every user's clock.
LiveForAll(s, t) == \A v \in Users : t + Skew[v] - s < LockTimeout

InSection(u) == pc[u] \in {"update", "hold"}

Tick ==
  /\ now < MaxTime
  /\ TimelyUnlock => \A u \in Users : InSection(u) => LiveForAll(stamp[u], now + 1)
  /\ now' = now + 1
  /\ UNCHANGED <<lock, fresh, copy, stamp, times, pc>>

-------------------------------------------------------------------------------

LockService(u) ==
  \/ GiveUp(u) \/ GetToLock(u) \/ GetToLockFails(u) \/ Occupied(u)
  \/ StampLock(u) \/ UpdateToLock(u) \/ UpdateToLockFails(u)

UnlockService(u) ==
  \/ GetToUnlock(u) \/ GetToUnlockFails(u)
  \/ UpdateToUnlock(u) \/ UpdateToUnlockFails(u)

Next ==
  \/ \E u \in Users :
       CallLock(u) \/ LockService(u) \/ UnlockService(u) \/ Crash(u) \/ Restart(u)
  \/ OtherWrite
  \/ Tick

Spec == Init /\ [][Next]_vars

\* A process that is inside LockService keeps running: it is sequential code
\* whose only waits are a 3 second sleep and calls that return.
FairSpec == Spec /\ \A u \in Users : WF_vars(LockService(u))

-------------------------------------------------------------------------------
(* Properties *)

TypeOK ==
  /\ now \in Int
  /\ lock \in SUBSET Int
  /\ fresh \in SUBSET Users
  /\ copy \in [Users -> SUBSET Int]
  /\ stamp \in [Users -> Int]
  /\ times \in [Users -> Nat]
  /\ pc \in [Users -> States]

\* The reason LockService must be the first step of AutoMesh and BySelector:
\* two users are never both in the work that the lock protects.
MutualExclusion ==
  \A u, v \in Users : pc[u] = "hold" /\ pc[v] = "hold" => u = v

\* While a user works under the lock, the annotation is the one that user
\* wrote: nobody's late UnlockService deletes it, nobody's LockService
\* replaces it.
HolderOwnsLock == \A u \in Users : pc[u] = "hold" => lock = {stamp[u]}

\* LockService never replaces a lock that its own clock still calls live,
\* however long ago it read the Service.
LockNotStolen ==
  [][\A u \in Users : pc[u] # "hold" /\ pc'[u] = "hold" => ~Live(u, lock)]_vars

\* Every call of LockService ends, with the lock or with an error: neither a
\* lock that is never released nor endless update conflicts keep it going.
LockServiceEnds ==
  \A u \in Users : pc[u] = "get" ~> pc[u] \in {"hold", "failed"}

Mutex == INSTANCE ServiceMutex WITH inside <- {u \in Users : pc[u] = "hold"}

\* With timely unlocks the annotation protocol implements the plain mutex.
ImplementsMutex == Mutex!Spec

-------------------------------------------------------------------------------
(* The inductive invariant behind MutualExclusion *)

\* A copy that is still fresh is the Service.
FreshCopies ==
  \A u \in fresh : pc[u] \in {"check", "update", "unlock"} => copy[u] = lock

\* What StampLock decided stays decided: time only makes a lock older.
OldEnough == \A u \in Users : pc[u] = "update" => ~Live(u, copy[u])

\* A lock in use looks live to everybody.
InTime == \A u \in Users : InSection(u) => LiveForAll(stamp[u], now)

\* Whoever is about to delete the annotation either has lost the race or
\* deletes its own.
UnlocksOwn ==
  \A u \in fresh : pc[u] = "unlock" => \A v \in Users : pc[v] # "hold"

IInv ==
  /\ TypeOK
  /\ FreshCopies
  /\ OldEnough
  /\ InTime
  /\ HolderOwnsLock
  /\ UnlocksOwn
  /\ MutualExclusion
===============================================================================
