------------------------------ MODULE MCLocalNetwork ------------------------------
(* Values for the constants of LocalNetwork: addresses of three numbers below four. *)
EXTENDS LocalNetwork

CONSTANTS svcName, shortDomain, rawDomain, address, foreign, q1, q2

Pair(n) == <<n \div 2, n % 2>>
Address(a, b, c) == Pair(a) \o Pair(b) \o Pair(c)
Slash(a) == [bits |-> a, slash |-> TRUE]
NoSlash(a) == [bits |-> a, slash |-> FALSE]

\* Two neighbours, one in the next segment, two nearby, one far away, a node of the cluster.
S1 == Address(1, 0, 1)
S2 == Address(1, 0, 2)
S3 == Address(1, 3, 1)
S4 == Address(1, 1, 2)
P1 == Address(2, 1, 0)
Node == Address(2, 1, 3)

\* Lists of at most two different addresses, one of three, and one that
\* is longer than what is asked for.
ListsOf(ips) == {<<>>} \cup {<<i>> : i \in ips}
                \cup {p \in ips \X ips : p[1] # p[2]} \cup {<<S1, P1, S3>>, <<S1, P1, S3, S2>>}

Base == [mode |-> "tun2socks", svcs |-> <<S1, S3>>, pods |-> <<P1, Node>>,
         own |-> {S1, P1}, api |-> <<>>, include |-> <<>>, exclude |-> <<>>,
         disablePodIp |-> FALSE, lookups |-> FALSE, proxyEnds |-> FALSE]

\* Every list, with the API server outside, a node that runs a pod, or beside a service.
Clusters ==
  {[Base EXCEPT !.svcs = s, !.pods = p, !.api = api, !.disablePodIp = no] :
     s \in ListsOf({S1, S2, S3, Node}), p \in ListsOf({P1, S2, Node}), no \in BOOLEAN,
     api \in {<<>>, <<Node>>, <<Address(1, 0, 0), Node>>}}

\* Ranges of the options: one address, within a cluster range, wider, apart, equal.
OptionRanges == {Slash(S3), NoSlash(S3), Slash(SubSeq(S1, 1, 4)), Slash(<<0>>), Slash(<<1, 1>>),
                 Slash(SubSeq(S1, 1, 2))}
Options ==
  {[Base EXCEPT !.mode = m, !.api = api, !.include = inc, !.exclude = exc] :
     m \in {"tun2socks", "sshuttle"}, api \in {<<>>, <<Node>>},
     inc \in {<<>>} \cup {<<r>> : r \in OptionRanges},
     exc \in {<<>>} \cup {<<r>> : r \in OptionRanges} \cup
             {<<Slash(S3), Slash(<<1, 1>>)>>, <<Slash(SubSeq(S1, 1, 4)), Slash(Node)>>}}

MCScenes == Clusters \cup Options
            \cup {[Base EXCEPT !.proxyEnds = TRUE], 
                  [Base EXCEPT !.lookups = TRUE, !.svcs = <<S1, S4>>, !.exclude = <<Slash(S1)>>]}

MCPossible == svcName :> <<shortDomain, rawDomain>>
MCIp == address :> S4
MCFirstRecords == {[d \in Domains |-> NxDomain],
                   shortDomain :> NxDomain @@ rawDomain :> address}
MCExtras == {{}, {svcName}}
MCOrders == {<<"shadow", "upstream">>, <<"upstream", "shadow">>}
================================================================================
