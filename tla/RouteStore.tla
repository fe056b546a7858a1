-------------------------------- MODULE RouteStore --------------------------------
(***************************************************************************)
(* What the router program promises to the sessions of a mesh: a list of   *)
(* versions that is changed by one whole update at a time.  ServiceRedirect *)
(* uses the router in this form.                                           *)
(***************************************************************************)
EXTENDS Integers, Sequences

CONSTANT Versions
VARIABLE routes  \* the versions the router has been told to route

Init == routes = <<>>

\* setup starts the list, add extends it.
Setup(v) == routes' = <<v>>
Add(v)   == routes' = Append(routes, v)

\* remove drops the first occurrence.
Remove(v) ==
  \E i \in DOMAIN routes :
    /\ routes[i] = v /\ \A j \in 1 .. i - 1 : routes[j] # v
    /\ routes' = SubSeq(routes, 1, i - 1) \o SubSeq(routes, i + 1, Len(routes))

Next == \E v \in Versions : (routes = <<>> /\ Setup(v)) \/ Add(v) \/ Remove(v)

Spec == Init /\ [][Next]_routes
===============================================================================
