---------------------------- MODULE MCCleanRecover ----------------------------
(* Values for the constants of ServiceRedirect and CleanRecover. *)
EXTENDS CleanRecover

CONSTANTS a, b, c, d, e

\* a and b mesh two versions; c exchanges; d and e ask for the version of a, e
\* with another header.
FiveUsers == {a, b, c, d, e}
MCMode == [u \in Users |-> IF u = c THEN "exchange" ELSE "mesh"]
MCMark == [u \in Users |-> IF u \in {d, e} THEN a ELSE u]
MCHeader == [u \in Users |-> IF u = e THEN e ELSE a]

Scenario(users, hazards, n) == [users |-> users, allowed |-> hazards, redeploys |-> n]

SessionHazards == Hazards \ {"clean", "recover"}
SafetyScenarios ==
  { Scenario({a, b, c, d}, {}, 1),
    Scenario({a, e}, SessionHazards, 1),
    Scenario({a, c}, SessionHazards \ {"slowSetup", "replace"}, 1),
    Scenario({a, d}, {"clean", "crash"}, 0),
    Scenario({b, c}, {"recover"}, 0),
    Scenario({a}, {"clean", "recover", "crash", "apiFailure"}, 0) }

\* Redeployments beside living sessions, and sessions that are killed.
FairScenarios ==
  { Scenario({a, b, c}, {}, 2),
    Scenario({a}, {"clean", "crash"}, 1),
    Scenario({c}, {"clean", "crash"}, 1) }

\* Two versions with headers of their own.
HeaderUsers == {a, b}
OwnHeaders == [u \in Users |-> u]
HeaderScenarios == {Scenario(Users, {}, 0)}
================================================================================
