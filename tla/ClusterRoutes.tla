------------------------------- MODULE ClusterRoutes -------------------------------
(***************************************************************************)
(* Which addresses ktctl connect sends into the cluster: the ranges it     *)
(* computes from the addresses of services and pods                        *)
(* (service/cluster/cidr.go), the routes to the tun device                 *)
(* (service/tun/tun_linux.go) and the process of sshuttle                  *)
(* (connect/sshuttle.go, service/sshuttle).                                *)
(*                                                                         *)
(* An address is a sequence of Bits bits; a range is the prefix its        *)
(* addresses have in common.  Not modelled: IPv6, text that is no address. *)
(***************************************************************************)
EXTENDS Integers, SequencesExt

CONSTANTS
  Segments,   \* the numbers an address is written with: 4 in the code
  SegBits,    \* and their bits: 8
  Threshold,  \* bits two addresses must share to be put in one range: 16
  ListLimit,  \* how much of a list is asked for: 1000
  Scenes,     \* the clusters and options
  MaxBroken   \* how many routes may fail while others succeed

Bits == Segments * SegBits

ASSUME RoutesAssumption ==
  /\ {Segments, SegBits, Threshold, ListLimit} \subseteq Nat \ {0}
  /\ Threshold <= Bits /\ Threshold % SegBits = 0
  /\ MaxBroken \in Nat

ASSUME ScenesAssumption ==
  LET ranges == [bits : UNION {[1..n -> {0, 1}] : n \in 0..Bits}, slash : BOOLEAN]
  IN \A s \in Scenes : /\ {s.svcs, s.pods, s.api} \subseteq Seq([1..Bits -> {0, 1}])
                       /\ {s.include, s.exclude} \subseteq Seq(ranges)

VARIABLES
  scene,        \* the cluster and the options
  routing,      \* "none", "listed", "set" or "failed"
  cidr,         \* the ranges to route, once they are listed
  excludeCidr,  \* those to leave out of them
  missed,       \* history: a list was refused, cut, or of the own namespace only
  routed,       \* the ranges that go to the cluster
  shuttle       \* sshuttle: "off", "running", "ended" or "lost"

routeVars == <<scene, routing, cidr, excludeCidr, missed, routed, shuttle>>

RoutesInit ==
  /\ scene \in Scenes
  /\ routing = "none" /\ shuttle = "off"
  /\ cidr = <<>> /\ excludeCidr = <<>>
  /\ missed = FALSE
  /\ routed = {}

-------------------------------------------------------------------------------
(* cidr.go.  A range of the options may be written without a slash. *)

RangeOf(bits) == [bits |-> bits, slash |-> TRUE]

\* Mutant: the first bit that differs is kept.
OneBitMore(s, t) ==
  LET common == LongestCommonPrefix({s, t})
  IN SubSeq(s, 1, Min({Len(common) + 1, Len(s)}))

Common(s, t) == LongestCommonPrefix({s, t})

\* Mutant: one bit more must agree.
NearAbove(r, ip) == Len(Common(r, ip)) > Threshold

Near(r, ip) == Len(Common(r, ip)) >= Threshold

\* The first range that is near becomes wide enough for the address.
Widen(ranges, ip) ==
  LET near == {i \in DOMAIN ranges : Near(ranges[i], ip)}
  IN IF near = {} THEN Append(ranges, ip)
     ELSE [ranges EXCEPT ![Min(near)] = Common(@, ip)]

\* Only whole segments are kept.
Align(r) == SubSeq(r, 1, Len(r) - (Len(r) % SegBits))

CalculateMinimalIpRange(ips) ==
  LET ranges == FoldLeft(Widen, <<>>, ips)
  IN [i \in DOMAIN ranges |-> Align(ranges[i])]

IsPartOfRange(r, sub) == r.slash /\ sub.slash /\ IsPrefix(r.bits, sub.bits)

\* The ranges beside the address: its first bits, and the next one the other way.
ExcludeIpFromRange(r, ip) ==
  [n \in 1..Bits - Len(r) |->
     LET i == Len(r) + n IN Append(SubSeq(ip, 1, i - 1), 1 - ip[i])]

\* Mutant: the API server stays in its range.
KeepsApiServer(r, api) == FALSE

HoldsApiServer(r, api) == api # <<>> /\ IsPrefix(r, api)

MergeIpRange(svcCidr, podCidr, api) ==
  LET ranges == CalculateMinimalIpRange(svcCidr \o podCidr)
      Without(i) == IF HoldsApiServer(ranges[i], api)
                    THEN ExcludeIpFromRange(ranges[i], api) ELSE <<ranges[i]>>
      bits == FlattenSeq([i \in DOMAIN ranges |-> Without(i)])
  IN [i \in DOMAIN bits |-> RangeOf(bits[i])]

\* ExtractHostIp: of the addresses the name of the API server has, the first.
ApiServerIp == IF scene.api = <<>> THEN <<>> ELSE scene.api[1]

IsSingleIp(r) == ~r.slash \/ Len(r.bits) = Bits

\* ArrayDelete: the elements of a list that are in a set, the others taken out.
Kept(list, set) ==
  FlattenSeq([i \in DOMAIN list |-> IF list[i] \in set THEN <<list[i]>> ELSE <<>>])

Included ==
  Kept(scene.include,
       {r \in ToSet(scene.include) : scene.mode = "sshuttle" \/ ~IsSingleIp(r)})

Excluded ==
  IF scene.exclude = <<>> THEN <<>>
  ELSE scene.exclude \o IF ApiServerIp = <<>> THEN <<>> ELSE <<RangeOf(ApiServerIp)>>

\* Mutant: a range within a cluster range is dropped, not bypassed.
NoBypass(e, r) == FALSE

IsBypassOf(e, r) == e # r /\ IsPartOfRange(r, e) /\ ~IsPartOfRange(e, r)

\* One turn of the loop over excludeIps: it stops at an equal or a wider range.
Exclude(acc, e) ==
  LET stops   == {i \in DOMAIN acc.cidr : acc.cidr[i] = e \/ IsBypassOf(e, acc.cidr[i])}
      scanned == IF stops = {} THEN DOMAIN acc.cidr ELSE 1..Min(stops)
      gone    == {acc.cidr[i] : i \in {j \in scanned : \/ acc.cidr[j] = e
                                                       \/ IsPartOfRange(e, acc.cidr[j])}}
      bypass  == stops # {} /\ IsBypassOf(e, acc.cidr[Min(stops)])
  IN [cidr |-> Kept(acc.cidr, ToSet(acc.cidr) \ gone),
      exclude |-> IF bypass THEN Append(acc.exclude, e) ELSE acc.exclude]

\* A list is cut at its limit, of which nobody is told.
Cut(ips) == IF Len(ips) <= ListLimit THEN ips ELSE SubSeq(ips, 1, ListLimit)

\* All namespaces, the own one when that is refused, nothing when that is, too.
Lists(ips) ==
  {[seen |-> Cut(ips), all |-> Len(ips) <= ListLimit],
   [seen |-> Cut(Kept(ips, scene.own)), all |-> FALSE],
   [seen |-> <<>>, all |-> FALSE]}

PodLists == IF scene.disablePodIp THEN {[seen |-> <<>>, all |-> TRUE]} ELSE Lists(scene.pods)

ClusterCidr ==
  /\ routing = "none"
  /\ \E svcs \in Lists(scene.svcs), pods \in PodLists :
       LET merged == MergeIpRange(CalculateMinimalIpRange(svcs.seen),
                                  CalculateMinimalIpRange(pods.seen), ApiServerIp)
           result == FoldLeft(Exclude, [cidr |-> merged \o Included, exclude |-> <<>>],
                              Excluded)
       IN /\ cidr' = result.cidr
          /\ excludeCidr' = result.exclude
          /\ missed' = ~(svcs.all /\ pods.all)
  /\ routing' = "listed"
  /\ UNCHANGED <<scene, routed, shuttle>>

-------------------------------------------------------------------------------
(* tun_linux.go and setupTunRoute.  excludeIpRange is an argument of SetRoute *)
(* that no platform uses; the checks of CheckRoute only log.                  *)

SetRoute ==
  /\ routing = "listed"
  /\ scene.mode = "tun2socks"
  /\ \E broken \in SUBSET ToSet(cidr) :
       /\ Cardinality(broken) <= MaxBroken \/ broken = ToSet(cidr)
       /\ routed' = ToSet(cidr) \ broken
       /\ routing' = IF routed' = {} THEN "failed" ELSE "set"
  /\ UNCHANGED <<scene, cidr, excludeCidr, missed, shuttle>>

-------------------------------------------------------------------------------
(* connect/sshuttle.go *)

RunShuttle == shuttle' = "running" /\ routed' = ToSet(cidr)

StartSshuttle ==
  /\ routing = "listed"
  /\ scene.mode = "sshuttle"
  /\ \/ RunShuttle /\ routing' = "set"
     \/ routing' = "failed" /\ UNCHANGED <<shuttle, routed>>
  /\ UNCHANGED <<scene, cidr, excludeCidr, missed>>

\* The process ends and takes its rules with it: BackgroundRun reports it.
SshuttleEnds ==
  /\ shuttle = "running"
  /\ shuttle' = "ended" /\ routed' = {}
  /\ UNCHANGED <<scene, routing, cidr, excludeCidr, missed>>

\* After ten seconds, with the ranges of the first start; a start that fails is
\* not tried again.
RestartSshuttle ==
  /\ shuttle = "ended"
  /\ \/ RunShuttle
     \/ shuttle' = "lost" /\ UNCHANGED routed
  /\ UNCHANGED <<scene, routing, cidr, excludeCidr, missed>>

-------------------------------------------------------------------------------
(* What the routes do to an address.  The longest range decides; only sshuttle is told *)
(* the ranges to leave out.                                                             *)

Bypassed == IF scene.mode = "sshuttle" THEN ToSet(excludeCidr) ELSE {}

Tunnelled(ip) ==
  \E r \in routed :
    /\ IsPrefix(r.bits, ip)
    /\ \A e \in Bypassed : IsPrefix(e.bits, ip) => Len(e.bits) < Len(r.bits)

RoutesType ==
  /\ routing \in {"none", "listed", "set", "failed"}
  /\ routed \subseteq ToSet(cidr)
  /\ missed \in BOOLEAN
  /\ shuttle \in {"off", "running", "ended", "lost"}
================================================================================
