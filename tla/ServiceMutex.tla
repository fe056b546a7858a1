----------------------------- MODULE ServiceMutex -----------------------------
(***************************************************************************)
(* What the kt-lock of a Service promises the commands that take it        *)
(* (general.LockService / general.UnlockService): between the two calls a  *)
(* command is alone in its critical section.  How the lock is kept, who    *)
(* waits and who gives up is not visible here.                             *)
(***************************************************************************)
CONSTANT Users      \* the ktctl processes that lock one Service

VARIABLE inside     \* those between LockService and the end of UnlockService

Init == inside = {}

\* LockService returned without an error.
Enter(u) == /\ inside = {}
            /\ inside' = {u}

\* The critical section of u ends: unlocked, or the process died.
Leave(u) == /\ u \in inside
            /\ inside' = inside \ {u}

Next == \E u \in Users : Enter(u) \/ Leave(u)

Spec == Init /\ [][Next]_inside
===============================================================================
