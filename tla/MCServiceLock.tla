---------------------------- MODULE MCServiceLock ----------------------------
(* Values for the constants of ServiceLock. *)
EXTENDS ServiceLock

CONSTANTS u1, u2

TwoUsers   == {u1, u2}

\* u2's clock is one second ahead of u1's.
SomeSkew == [u \in Users |-> IF u = u2 THEN 1 ELSE 0]

==============================================================================
