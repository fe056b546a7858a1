------------------------------ MODULE MCRouterConf ------------------------------
(* Values for the constants of RouterConf. *)
EXTENDS RouterConf

CONSTANTS s1, s2, s3
ThreeSessions == {s1, s2, s3}
TwoHeaders == {"version", "user"}

MCScenarios == {{"joins"}, {"slowReload"}, {"joins", "slowReload"},
                {"slowReload", "kill"},
                {"headers", "kill"}}
================================================================================
