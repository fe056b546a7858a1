------------------------------ MODULE MCConnectSession ------------------------------
(* Values for the constants of ConnectSession: a session with a lane, whose two
   forwards may be lost; one without that users and the PID file may end; one
   whose informer and main write the hosts file. *)
EXTENDS ConnectSession

TwoWriters == {"main", "services"}

MCScenarios ==
  { [lane |-> TRUE, watchers |-> {}, events |-> {}],
    [lane |-> FALSE, watchers |-> {}, events |-> {"user", "hangup", "pidfile"}],
    [lane |-> FALSE, watchers |-> {"services"}, events |-> {}] }
=====================================================================================
