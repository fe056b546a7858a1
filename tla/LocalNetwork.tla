-------------------------------- MODULE LocalNetwork --------------------------------
(***************************************************************************)
(* What a program beside ktctl connect finds: which addresses go to the    *)
(* cluster, through a proxy that is there or not, and which address a name *)
(* has.  ByTun2Socks and BySshuttle of pkg/kt/command/connect put the      *)
(* parts together: the proxy, the routes, the local server.                *)
(*                                                                         *)
(* ConnectSession has the failures of the other steps, the signals and the *)
(* tear-down.                                                              *)
(***************************************************************************)
EXTENDS ClusterRoutes, DomainLookup, SocksProxy

CONSTANT Ip   \* Ip[a]: the bits of an address of DomainLookup

ASSUME NetworkAssumption == Ip \in [Addresses -> [1..Bits -> {0, 1}]]

VARIABLE session   \* "start", "proxy", "routes", "ready" or "failed"

vars == <<session, routeVars, lookupVars, socksVars>>

Init ==
  /\ session = "start"
  /\ RoutesInit /\ LookupInit /\ SocksInit
  /\ ~scene.lookups => /\ order = (CHOOSE o \in Orders : TRUE) /\ extraDomains = {}
                       /\ records = CHOOSE r \in FirstRecords : TRUE
                       /\ upstream = [n \in Names |-> Empty]
                       /\ \A q \in Queries : query[q].name = CHOOSE n \in Names : TRUE

-------------------------------------------------------------------------------

\* sshuttle needs no proxy.
Start ==
  /\ session = "start"
  /\ \/ scene.mode = "tun2socks" /\ FirstConnection /\ session' = "proxy"
     \/ scene.mode = "sshuttle" /\ session' = "routes" /\ UNCHANGED socksVars
  /\ UNCHANGED <<routeVars, lookupVars>>

\* The first call returns to ByTun2Socks, the later ones to nobody.
Proxy ==
  /\ session # "failed"
  /\ SocksNext
  /\ proxy' = "ended" => scene.proxyEnds
  /\ session' = IF session # "proxy" THEN session
                ELSE CASE caller' = "established" -> "routes"
                       [] caller' = "error"       -> "failed"
                       [] OTHER                   -> session
  /\ UNCHANGED <<routeVars, lookupVars>>

Routes ==
  /\ session = "routes"
  /\ ClusterCidr \/ SetRoute \/ StartSshuttle
  /\ session' = CASE routing' = "set"    -> "ready"
                  [] routing' = "failed" -> "failed"
                  [] OTHER               -> session
  /\ UNCHANGED <<lookupVars, socksVars>>

Sshuttle ==
  /\ session = "ready"
  /\ SshuttleEnds \/ RestartSshuttle
  /\ UNCHANGED <<session, lookupVars, socksVars>>

Lookup ==
  /\ session = "ready" /\ scene.lookups
  /\ LookupNext
  /\ UNCHANGED <<session, routeVars, socksVars>>

Next == Start \/ Proxy \/ Routes \/ Sshuttle \/ Lookup

\* Timers fire, goroutines run; nothing is assumed of the world outside.
FairSpec ==
  /\ Init /\ [][Next]_vars
  /\ WF_vars(Proxy /\ ReadGone) /\ WF_vars(Proxy /\ Receive)
  /\ WF_vars(Proxy /\ StopTicker) /\ WF_vars(Proxy /\ Reconnect)
  /\ WF_vars(Proxy /\ SetupSocks5HeartBeat) /\ WF_vars(Proxy /\ MarkGone)

-------------------------------------------------------------------------------

TypeOK ==
  /\ session \in {"start", "proxy", "routes", "ready", "failed"}
  /\ RoutesType /\ LookupType /\ SocksType

Seen == ToSet(scene.svcs) \cup IF scene.disablePodIp THEN {} ELSE ToSet(scene.pods)
AllAddresses == [1..Bits -> {0, 1}]
Covered(ranges) == {ip \in AllAddresses : \E r \in ranges : IsPrefix(r.bits, ip)}

\* What the ranges should be: addresses that share their first Threshold bits are put
\* together, in as many whole segments as all of them share.
Group(ip) == {a \in Seen : SubSeq(a, 1, Threshold) = SubSeq(ip, 1, Threshold)}
ExpectedRanges == {RangeOf(Align(LongestCommonPrefix(Group(ip)))) : ip \in Seen}

\* The ranges computed one address at a time, in whatever order the cluster lists them,
\* services and pods apart and then together, cover exactly what grouping the addresses
\* gives, without the API server: cidr.go.
CidrExact ==
  (routing = "listed" /\ ~missed /\ scene.include = <<>> /\ scene.exclude = <<>>) =>
    Covered(ToSet(cidr)) = Covered(ExpectedRanges) \ {ApiServerIp}

\* The connection to the cluster never goes through itself: whatever is listed and
\* whichever routes fail, the API server is not routed unless the user includes it.
ApiServerDirect ==
  ApiServerIp # <<>> /\ Tunnelled(ApiServerIp) =>
    \E i \in DOMAIN scene.include : IsPrefix(scene.include[i].bits, ApiServerIp)

\* With sshuttle no address of an excluded range goes to the cluster, however the range
\* lies to those of the cluster and however often sshuttle is started again.
ExcludedBypassed ==
  scene.mode = "sshuttle" =>
    \A e \in {r \in ToSet(scene.exclude) : r.slash}, ip \in AllAddresses :
      IsPrefix(e.bits, ip) /\ Tunnelled(ip) =>
        \E i \in DOMAIN scene.include : IsPrefix(scene.include[i].bits, ip)

\* The addresses the user leaves out.
LeftOut == Covered(ToSet(scene.exclude))

\* A name that is looked up leads into the cluster when its address is one that was
\* listed and that the user does not leave out: dnsserver.go, cidr.go and SetRoute together.
NamesReachCluster ==
  (session = "ready" /\ ~missed /\ routed = ToSet(cidr)) =>
    \A q \in Queries :
      (At(q, "answered") /\ query[q].got \in Addresses) =>
        (Ip[query[q].got] \in Seen \ (LeftOut \cup {ApiServerIp}) =>
           Tunnelled(Ip[query[q].got]))

\* What a name stands for, by the servers in their order.
From(server, n) == IF server = "shadow" THEN Found(n, {}) ELSE upstream[n]
Right(n) ==
  LET known == {i \in DOMAIN order : From(order[i], n) # Empty}
  IN IF n \in extraDomains THEN Foreign
     ELSE IF known = {} THEN Empty ELSE From(order[Min(known)], n)

\* Once no record has changed and no lookup failed for SettleTime ticks, every answer is
\* the right one, whichever queries overlap and in whatever order both caches are written.
AnswersSettle ==
  [][\A q \in Queries :
       (At(q, "answered"))' /\ ~At(q, "answered") /\ settled = SettleTime =>
         query'[q].got = Right(NameOf(q))]_vars

\* A proxy that ends is started again, unless its end is noticed between the second that
\* startSocks5Connection waits and its assignment to gone: then the goroutine sends to
\* nobody for ever.
ProxyReconnects ==
  proxy = "ended" ~> proxy = "running" \/ session = "failed"
                        \/ (early /\ caller \in {"beat", "established"})
================================================================================
