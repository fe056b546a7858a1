---------------------------- MODULE MCScaleExchange ----------------------------
(* Values for the constants of ScaleExchange. *)
EXTENDS ScaleExchange

CONSTANTS u1, u2
TwoUsers == {u1, u2}

Scenario(hazards) == [users |-> TwoUsers, allowed |-> hazards]

MCScenarios ==
  { Scenario({"overlap"}),
    Scenario(KillHazards),
    Scenario(OneHazards),
    Scenario(EndHazards),
    Scenario({"overlap", "down"}) }
================================================================================
