---------------------------- MODULE MCSharedShadow ----------------------------
(* Values for the constants of SharedShadow. *)
EXTENDS SharedShadow

CONSTANTS u1, u2, u3
ThreeUsers == {u1, u2, u3}
TwoUsers == {u1, u2}

Scenario(users, kd, hazards) == [users |-> users, kind |-> kd, allowed |-> hazards]

\* Three users one at a time, two at will.
MCScenarios ==
  UNION { { Scenario(ThreeUsers, kd, {"slowPods"}),
            Scenario(ThreeUsers, kd, {"slowPods", "crash"}),
            Scenario(TwoUsers, kd, Hazards \ {"apiFailure"}),
            Scenario(TwoUsers, kd, Hazards) } : kd \in Kinds }

JoinScenarios == {Scenario(TwoUsers, "pod", {"joins"})}
================================================================================
