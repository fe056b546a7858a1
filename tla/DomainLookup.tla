-------------------------------- MODULE DomainLookup --------------------------------
(***************************************************************************)
(* How a name is looked up while ktctl connect serves names locally: the   *)
(* local server (service/dns/dnsserver.go) asks the servers of its order,  *)
(* the shadow pod's (shadow/dnsserver) and the one the machine used        *)
(* before; both servers of this repository keep the answers in a cache     *)
(* (common/dns_util.go).                                                   *)
(*                                                                         *)
(* Abstractions: one type of record; an answer is one address; time passes *)
(* in ticks, and a lookup takes at most MaxWait of them: its client gives  *)
(* up.  A cache entry keeps the ticks it is still valid.                   *)
(***************************************************************************)
EXTENDS Integers, SequencesExt

CONSTANTS
  Names,       \* the names programs ask for
  Domains,     \* the names of the cluster's name server
  Possible,    \* Possible[n]: what the shadow pod makes of a name, in its order
  Addresses,   \* the addresses of records
  FirstRecords, \* what records may be at the start
  Foreign,     \* an answer of the server used before, and of --ingressIp
  Extras,      \* sets of names that may be those of ingresses
  Orders,      \* of the servers that may be asked: "shadow" and "upstream"
  Queries,     \* programs that ask
  TtlLocal,    \* opt.Connect.DnsCacheTtl
  TtlShadow,   \* 60 seconds in the code
  MaxWait,
  MaxChanges   \* how often a record changes, or a lookup fails

NoData == "no data"      \* the name exists without a record of the type
NxDomain == "nxdomain"
Empty == "empty"         \* an answer without records
None == "none"           \* no cache entry
Records == Addresses \cup {NoData, NxDomain}
Answers == Addresses \cup {Foreign, Empty}

ASSUME LookupAssumption ==
  /\ Possible \in [Names -> Seq(Domains)]
  /\ {MaxWait, MaxChanges} \subseteq Nat /\ {TtlLocal, TtlShadow} \subseteq Nat \ {0}
  /\ FirstRecords \subseteq [Domains -> Records]
  /\ Extras \subseteq SUBSET Names
  /\ Orders \subseteq {<<"shadow", "upstream">>, <<"upstream", "shadow">>, <<"shadow">>}

VARIABLES
  order,        \* the servers that are asked
  extraDomains, \* names of ingresses, answered with the address of --ingressIp
  records,      \* what the cluster's name server has
  upstream,     \* what the server used before has
  nsCache,      \* the cache of the local server
  shadowCache,  \* the cache of the shadow pod
  query,        \* query[q]: where it is, its name, what it has got, how long it takes
  changes,
  settled       \* ticks since a record changed or a lookup failed, up to SettleTime

setup == <<order, extraDomains>>
lookupVars == <<setup, records, upstream, nsCache, shadowCache, query, changes, settled>>

\* As long as an answer may be older than the record.
SettleTime == TtlLocal + TtlShadow + 2 * MaxWait - 1

NoEntry == [answer |-> None, left |-> 0]
Stages == {"out", "shadow", "shadowWrite", "reply", "upstream", "write", "answered"}

LookupInit ==
  /\ order \in Orders /\ extraDomains \in Extras
  /\ records \in FirstRecords
  /\ upstream \in [Names -> {Foreign, Empty}]
  /\ nsCache = [n \in Names |-> NoEntry]
  /\ shadowCache = [n \in Names |-> NoEntry]
  /\ query \in [Queries -> [at : {"out"}, name : Names, got : {Empty}, waited : {0}]]
  /\ changes = 0 /\ settled = 0

-------------------------------------------------------------------------------
(* common/dns_util.go *)

NotExpired(entry) == entry.left > 0

ReadCache(entry) == IF NotExpired(entry) THEN entry.answer ELSE None

Move(q, stage, answer) ==
  query' = [query EXCEPT ![q].at = stage, ![q].got = answer,
                         ![q].waited = IF stage = "answered" THEN 0 ELSE @]
At(q, stage) == query[q].at = stage
NameOf(q) == query[q].name

-------------------------------------------------------------------------------
(* The local server: query of dnsserver.go. *)

FirstServer == order[1]
After(server) ==
  LET i == CHOOSE i \in DOMAIN order : order[i] = server
  IN IF i = Len(order) THEN "write" ELSE order[i + 1]

Ask(q) ==
  /\ At(q, "out")
  /\ LET cached == ReadCache(nsCache[NameOf(q)])
     IN IF cached # None THEN Move(q, "answered", cached)
        ELSE IF NameOf(q) \in extraDomains THEN Move(q, "answered", Foreign)
        ELSE Move(q, FirstServer, Empty)
  /\ UNCHANGED <<setup, records, upstream, nsCache, shadowCache, changes, settled>>

\* The first server with an answer ends the search.
Answered(q, server, answer) ==
  Move(q, IF answer = Empty THEN After(server) ELSE "write", answer)

Replied(q) ==
  /\ At(q, "reply")
  /\ Answered(q, "shadow", query[q].got)
  /\ UNCHANGED <<setup, records, upstream, nsCache, shadowCache, changes, settled>>

AskUpstream(q) ==
  /\ At(q, "upstream")
  /\ Answered(q, "upstream", upstream[NameOf(q)])
  /\ UNCHANGED <<setup, records, upstream, nsCache, shadowCache, changes, settled>>

\* A lookup that takes too long, or that is refused, is as good as an empty one; what
\* the shadow pod may still write of it is left out.
LookupFails(q) ==
  /\ changes < MaxChanges
  /\ changes' = changes + 1 /\ settled' = 0
  /\ \/ (At(q, "shadow") \/ At(q, "reply")) /\ Answered(q, "shadow", Empty)
     \/ At(q, "upstream") /\ Answered(q, "upstream", Empty)
  /\ UNCHANGED <<setup, records, upstream, nsCache, shadowCache>>

\* Mutant: the half interval is added.
EmptyLonger(answer) ==
  IF answer = Empty THEN TtlLocal + (TtlLocal \div 2) ELSE TtlLocal

\* An empty answer is written with a time half the interval ago.
Valid(answer) == IF answer = Empty THEN TtlLocal - (TtlLocal \div 2) ELSE TtlLocal

WriteCache(q) ==
  /\ At(q, "write")
  /\ nsCache' = [nsCache EXCEPT ![NameOf(q)] = [answer |-> query[q].got,
                                                left |-> Valid(query[q].got)]]
  /\ Move(q, "answered", query[q].got)
  /\ UNCHANGED <<setup, records, upstream, shadowCache, changes, settled>>

\* The answer is used, and the program may ask again.
Use(q) ==
  /\ At(q, "answered")
  /\ \E n \in Names : query' = [query EXCEPT ![q] = [at |-> "out", name |-> n,
                                                      got |-> Empty, waited |-> 0]]
  /\ UNCHANGED <<setup, records, upstream, nsCache, shadowCache, changes, settled>>

-------------------------------------------------------------------------------
(* The shadow pod: query of dnsserver_unix.go. *)

\* Of the possible domains the first that exists and whose lookup is not lost.
Found(n, lost) ==
  LET exist == {i \in DOMAIN Possible[n] : /\ Possible[n][i] \notin lost
                                           /\ records[Possible[n][i]] # NxDomain}
      first == records[Possible[n][Min(exist)]]
  IN IF exist = {} \/ first = NoData THEN Empty ELSE first

ShadowQuery(q) ==
  /\ At(q, "shadow")
  /\ LET cached == ReadCache(shadowCache[NameOf(q)])
     IN IF cached # None
        THEN Move(q, "reply", cached) /\ UNCHANGED <<changes, settled>>
        ELSE \E lost \in SUBSET ToSet(Possible[NameOf(q)]) :
               /\ Move(q, "shadowWrite", Found(NameOf(q), lost))
               /\ lost # {} => changes < MaxChanges
               /\ changes' = IF lost = {} THEN changes ELSE changes + 1
               /\ settled' = IF lost = {} THEN settled ELSE 0
  /\ UNCHANGED <<setup, records, upstream, nsCache, shadowCache>>

\* Failures are cached like answers; what is written of a name without data is nil,
\* which the next query does not take for an entry.
ShadowWriteCache(q) ==
  /\ At(q, "shadowWrite")
  /\ \E entry \in {[answer |-> query[q].got, left |-> TtlShadow]}
                     \cup {e \in {NoEntry} : query[q].got = Empty} :
       shadowCache' = [shadowCache EXCEPT ![NameOf(q)] = entry]
  /\ Move(q, "reply", query[q].got)
  /\ UNCHANGED <<setup, records, upstream, nsCache, changes, settled>>

-------------------------------------------------------------------------------
(* The cluster, and time. *)

RecordChanges ==
  /\ changes < MaxChanges
  /\ \E d \in Domains, r \in Records :
       r # records[d] /\ records' = [records EXCEPT ![d] = r]
  /\ changes' = changes + 1 /\ settled' = 0
  /\ UNCHANGED <<setup, upstream, nsCache, shadowCache, query>>

Pending(q) == ~At(q, "out") /\ ~At(q, "answered")
Older(cache) == [n \in Names |-> IF cache[n].left = 0 THEN NoEntry
                                 ELSE [cache[n] EXCEPT !.left = @ - 1]]

Tick ==
  /\ \A q \in Queries : Pending(q) => query[q].waited < MaxWait
  /\ query' = [q \in Queries |-> IF Pending(q) THEN [query[q] EXCEPT !.waited = @ + 1]
                                 ELSE query[q]]
  /\ nsCache' = Older(nsCache) /\ shadowCache' = Older(shadowCache)
  /\ settled' = IF settled = SettleTime THEN settled ELSE settled + 1
  /\ UNCHANGED <<setup, records, upstream, changes>>

LookupNext ==
  \/ \E q \in Queries : \/ Ask(q) \/ Replied(q) \/ AskUpstream(q) \/ LookupFails(q)
                        \/ WriteCache(q) \/ Use(q)
                        \/ ShadowQuery(q) \/ ShadowWriteCache(q)
  \/ RecordChanges \/ Tick

LookupType ==
  /\ order \in Orders /\ extraDomains \in Extras
  /\ records \in [Domains -> Records] /\ upstream \in [Names -> {Foreign, Empty}]
  /\ nsCache \in [Names -> [answer : Answers \cup {None}, left : 0..TtlLocal]]
  /\ shadowCache \in [Names -> [answer : Answers \cup {None}, left : 0..TtlShadow]]
  /\ query \in [Queries -> [at : Stages, name : Names, got : Answers, waited : 0..MaxWait]]
  /\ changes \in 0..MaxChanges /\ settled \in 0..SettleTime
================================================================================
