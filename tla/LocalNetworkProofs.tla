------------------------- MODULE LocalNetworkProofs -------------------------
(***************************************************************************)
(* Theorems about LocalNetwork: which addresses of a cluster of any size,  *)
(* with any options, go to the cluster, and that the answers to names are  *)
(* right once the cluster is quiet.                                        *)
(*                                                                         *)
(* The ranges of cidr.go are computed by folds, so that these proofs are   *)
(* by induction: on a number, with lemma Induction, and on the steps of a  *)
(* fold, with lemma FoldExists.                                            *)
(***************************************************************************)
EXTENDS LocalNetwork, SequenceTheorems, FiniteSetTheorems, TLAPS

-------------------------------------------------------------------------------
(* Numbers *)

\* A set of numbers with 0 and each successor holds them all: a number left out would give a
\* set {1, ..., i} that is smallest among those of numbers left out.
LEMMA Induction ==
  ASSUME NEW T, 0 \in T, \A n \in Nat : n \in T => n + 1 \in T
  PROVE  Nat \subseteq T
<1> SUFFICES ASSUME NEW k \in Nat, k \notin T PROVE FALSE
  OBVIOUS
<1> DEFINE Out  == {i \in 0 .. k : i \notin T}
           Upto == {1 .. i : i \in Out}
<1>1. \A i \in 0 .. k : 1 .. i \in FiniteSubsetsOf(1 .. k)
  <2>1. ASSUME NEW i \in 0 .. k PROVE IsFiniteSet(1 .. i) /\ 1 .. i \subseteq 1 .. k
    BY FS_Interval
  <2>. QED
    BY <2>1 DEF FiniteSubsetsOf
<1>2. PICK P \in Upto : \A Q \in Upto : ~(<<Q, P>> \in StrictSubsetOrdering(1 .. k))
  <2>1. Upto # {}
    OBVIOUS
  <2>2. Upto \subseteq FiniteSubsetsOf(1 .. k)
    BY <1>1
  <2>. QED
    BY <2>1, <2>2, FS_StrictSubsetOrderingWellFounded, WFMin
<1>3. PICK i \in Out : P = 1 .. i
  OBVIOUS
<1>4. i - 1 \in Out
  <2>1. i # 0
    BY <1>3
  <2>2. i - 1 \in Nat /\ i - 1 + 1 = i
    BY <1>3, <2>1
  <2>. QED
    BY <1>3, <2>2
<1>5. 1 .. i - 1 \subseteq 1 .. i /\ 1 .. i - 1 # 1 .. i /\ 1 .. i \subseteq 1 .. k
  BY <1>3, <1>4
<1>. QED
  BY <1>2, <1>3, <1>4, <1>5 DEF StrictSubsetOrdering

\* A set of numbers that is not empty has a smallest one.
LEMMA MinIs ==
  ASSUME NEW S \in SUBSET Nat, S # {}
  PROVE  Min(S) \in S /\ \A n \in S : Min(S) <= n
<1> DEFINE T == {n \in Nat : \A m \in 0 .. n : m \notin S}
<1>1. \E x \in S : \A y \in S : x <= y
  <2>1. SUFFICES ASSUME ~\E x \in S : \A y \in S : x <= y PROVE FALSE
    OBVIOUS
  <2>2. 0 \in T
    BY <2>1
  <2>3. ASSUME NEW n \in Nat, n \in T PROVE n + 1 \in T
    <3>1. n + 1 \notin S
      BY <2>1, <2>3
    <3>. QED
      BY <2>3, <3>1
  <2>4. Nat \subseteq T
    <3> HIDE DEF T
    <3>. QED
      BY <2>2, <2>3, Induction
  <2>5. ASSUME NEW x \in S PROVE FALSE
    <3>1. x \in T /\ x \in 0 .. x
      BY <2>4
    <3>. QED
      BY <3>1
  <2>. QED
    BY <2>5
<1>. QED
  BY <1>1 DEF Min

-------------------------------------------------------------------------------
(* What a name stands for *)

\* The first server with an answer, one order at a time.
LEMMA RightIs ==
  ASSUME LookupType, NEW n \in Names, n \notin extraDomains
  PROVE  /\ order = <<"shadow">> => Right(n) = Found(n, {})
         /\ order = <<"shadow", "upstream">> =>
              Right(n) = IF Found(n, {}) # Empty THEN Found(n, {}) ELSE upstream[n]
         /\ order = <<"upstream", "shadow">> =>
              Right(n) = IF upstream[n] # Empty THEN upstream[n] ELSE Found(n, {})
<1> DEFINE known == {i \in DOMAIN order : From(order[i], n) # Empty}
<1>1. Right(n) = IF known = {} THEN Empty ELSE From(order[Min(known)], n)
  BY DEF Right
<1>2. CASE order = <<"shadow">>
  <2>1. DOMAIN order = {1} /\ order[1] = "shadow"
    BY <1>2
  <2>2. Found(n, {}) # Empty => known = {1} /\ Min(known) = 1
    BY <2>1 DEF From, Min
  <2>3. Found(n, {}) = Empty => known = {}
    BY <2>1 DEF From
  <2>. QED
    BY <1>1, <1>2, <2>1, <2>2, <2>3 DEF From
<1>3. CASE order = <<"shadow", "upstream">>
  <2>1. DOMAIN order = {1, 2} /\ order[1] = "shadow" /\ order[2] = "upstream"
    BY <1>3
  <2>2. Found(n, {}) # Empty => known # {} /\ Min(known) = 1
    <3>1. SUFFICES ASSUME Found(n, {}) # Empty PROVE known # {} /\ Min(known) = 1
      OBVIOUS
    <3>2. 1 \in known /\ known \subseteq {1, 2}
      BY <2>1, <3>1 DEF From
    <3>. QED
      BY <3>2 DEF Min
  <2>3. Found(n, {}) = Empty /\ upstream[n] # Empty => known = {2} /\ Min(known) = 2
    BY <2>1 DEF From, Min
  <2>4. Found(n, {}) = Empty /\ upstream[n] = Empty => known = {}
    BY <2>1 DEF From
  <2>. QED
    BY <1>1, <1>3, <2>1, <2>2, <2>3, <2>4 DEF From
<1>4. CASE order = <<"upstream", "shadow">>
  <2>1. DOMAIN order = {1, 2} /\ order[1] = "upstream" /\ order[2] = "shadow"
    BY <1>4
  <2>2. upstream[n] # Empty => known # {} /\ Min(known) = 1
    <3>1. SUFFICES ASSUME upstream[n] # Empty PROVE known # {} /\ Min(known) = 1
      OBVIOUS
    <3>2. 1 \in known /\ known \subseteq {1, 2}
      BY <2>1, <3>1 DEF From
    <3>. QED
      BY <3>2 DEF Min
  <2>3. upstream[n] = Empty /\ Found(n, {}) # Empty => known = {2} /\ Min(known) = 2
    BY <2>1 DEF From, Min
  <2>4. upstream[n] = Empty /\ Found(n, {}) = Empty => known = {}
    BY <2>1 DEF From
  <2>. QED
    BY <1>1, <1>4, <2>1, <2>2, <2>3, <2>4 DEF From
<1>. QED
  BY <1>2, <1>3, <1>4

\* The server that is asked next.
LEMMA AfterIs ==
  /\ order = <<"shadow">> => FirstServer = "shadow" /\ After("shadow") = "write"
  /\ order = <<"shadow", "upstream">> =>
       FirstServer = "shadow" /\ After("shadow") = "upstream" /\ After("upstream") = "write"
  /\ order = <<"upstream", "shadow">> =>
       FirstServer = "upstream" /\ After("upstream") = "shadow" /\ After("shadow") = "write"
<1>1. ASSUME order = <<"shadow">>
      PROVE  FirstServer = "shadow" /\ After("shadow") = "write"
  <2>1. DOMAIN order = {1} /\ order[1] = "shadow" /\ Len(order) = 1
    BY <1>1
  <2>2. (CHOOSE i \in DOMAIN order : order[i] = "shadow") = 1
    BY <2>1
  <2>. QED
    BY <2>1, <2>2 DEF FirstServer, After
<1>2. ASSUME order = <<"shadow", "upstream">>
      PROVE  FirstServer = "shadow" /\ After("shadow") = "upstream" /\ After("upstream") = "write"
  <2>1. DOMAIN order = {1, 2} /\ order[1] = "shadow" /\ order[2] = "upstream" /\ Len(order) = 2
    BY <1>2
  <2>2. (CHOOSE i \in DOMAIN order : order[i] = "shadow") = 1
    BY <2>1
  <2>3. (CHOOSE i \in DOMAIN order : order[i] = "upstream") = 2
    BY <2>1
  <2>. QED
    BY <2>1, <2>2, <2>3 DEF FirstServer, After
<1>3. ASSUME order = <<"upstream", "shadow">>
      PROVE  FirstServer = "upstream" /\ After("upstream") = "shadow" /\ After("shadow") = "write"
  <2>1. DOMAIN order = {1, 2} /\ order[2] = "shadow" /\ order[1] = "upstream" /\ Len(order) = 2
    BY <1>3
  <2>2. (CHOOSE i \in DOMAIN order : order[i] = "shadow") = 2
    BY <2>1
  <2>3. (CHOOSE i \in DOMAIN order : order[i] = "upstream") = 1
    BY <2>1
  <2>. QED
    BY <2>1, <2>2, <2>3 DEF FirstServer, After
<1>. QED
  BY <1>1, <1>2, <1>3

\* An answer is an address or empty.
LEMMA FoundType ==
  ASSUME LookupType, NEW n \in Names, NEW lost
  PROVE  Found(n, lost) \in Addresses \cup {Empty}
<1> DEFINE exist == {i \in DOMAIN Possible[n] : /\ Possible[n][i] \notin lost
                                                /\ records[Possible[n][i]] # NxDomain}
<1>1. Possible[n] \in Seq(Domains)
  BY LookupAssumption DEF LookupAssumption
<1>2. ASSUME exist # {} PROVE records[Possible[n][Min(exist)]] \in Addresses \cup {NoData}
  <2>1. exist \subseteq Nat
    BY <1>1
  <2>2. Min(exist) \in exist
    BY <2>1, <1>2, MinIs
  <2>3. Possible[n][Min(exist)] \in Domains
    <3>1. Min(exist) \in 1 .. Len(Possible[n])
      BY <1>1, <2>2, LenProperties
    <3>. QED
      BY <1>1, <3>1, ElementOfSeq
  <2>. QED
    BY <2>2, <2>3 DEF LookupType, Records
<1>. QED
  BY <1>2 DEF Found

\* A number below a bound, less one.
LEMMA OneLess ==
  ASSUME NEW k \in Nat, NEW i \in 0 .. k, i # 0
  PROVE  i - 1 \in 0 .. k
  OBVIOUS

\* What a step of a session is to the lookups.
LookupSteps == LookupNext \/ UNCHANGED lookupVars

\* The orders of the servers, and what can follow in them.
LEMMA OrderIs ==
  ASSUME LookupType
  PROVE  /\ order \in {<<"shadow", "upstream">>, <<"upstream", "shadow">>, <<"shadow">>}
         /\ FirstServer \in {"shadow", "upstream"}
         /\ After("shadow") \in {"upstream", "write"}
         /\ order # <<"shadow">> => After("upstream") \in {"shadow", "write"}
         /\ order = <<"shadow">> => FirstServer # "upstream" /\ After("shadow") # "upstream"
<1>1. order \in {<<"shadow", "upstream">>, <<"upstream", "shadow">>, <<"shadow">>}
  BY LookupAssumption DEF LookupAssumption, LookupType
<1>2. <<"shadow", "upstream">> # <<"shadow">> /\ <<"upstream", "shadow">> # <<"shadow">>
  OBVIOUS
<1>. QED
  BY <1>1, <1>2, AfterIs

\* The second server is asked when there is one.
AskedInOrder == \A q \in Queries : At(q, "upstream") => order # <<"shadow">>

\* Type correctness of the lookups.
TypeInv == LookupType /\ AskedInOrder

\* A query that moves on keeps its type.
LEMMA MoveType ==
  ASSUME TypeInv, NEW q \in Queries, NEW stage \in Stages, NEW answer \in Answers,
         stage = "upstream" => order # <<"shadow">>, order' = order,
         Move(q, stage, answer)
  PROVE  /\ query' \in [Queries -> [at : Stages, name : Names, got : Answers, waited : 0..MaxWait]]
         /\ AskedInOrder'
<1> USE DEF TypeInv, LookupType
<1>0. MaxWait \in Nat
  BY LookupAssumption DEF LookupAssumption
<1>1. query' \in [Queries -> [at : Stages, name : Names, got : Answers, waited : 0..MaxWait]]
  <2>1. [query[q] EXCEPT !.at = stage, !.got = answer,
                         !.waited = IF stage = "answered" THEN 0 ELSE @]
          \in [at : Stages, name : Names, got : Answers, waited : 0..MaxWait]
    <3>1. query[q] \in [at : Stages, name : Names, got : Answers, waited : 0..MaxWait]
      OBVIOUS
    <3>2. (IF stage = "answered" THEN 0 ELSE query[q].waited) \in 0 .. MaxWait
      BY <1>0, <3>1
    <3>. QED
      BY <3>1, <3>2
  <2>2. query' = [query EXCEPT ![q] = [query[q] EXCEPT !.at = stage, !.got = answer,
                                         !.waited = IF stage = "answered" THEN 0 ELSE @]]
    BY DEF Move
  <2>. QED
    BY <2>1, <2>2
<1>2. ASSUME NEW p \in Queries, At(p, "upstream")' PROVE order # <<"shadow">>
  BY <1>2 DEF Move, At, AskedInOrder
<1>. QED
  BY <1>1, <1>2 DEF AskedInOrder

\* So does one that a server has answered.
LEMMA AnsweredType ==
  ASSUME TypeInv, NEW q \in Queries, NEW server \in {"shadow", "upstream"}, NEW answer \in Answers,
         server = "upstream" => order # <<"shadow">>, order' = order,
         Answered(q, server, answer)
  PROVE  /\ query' \in [Queries -> [at : Stages, name : Names, got : Answers, waited : 0..MaxWait]]
         /\ AskedInOrder'
<1> DEFINE stage == IF answer = Empty THEN After(server) ELSE "write"
<1>1. Move(q, stage, answer)
  BY DEF Answered
<1>2. stage \in Stages /\ (stage = "upstream" => order # <<"shadow">>)
  BY OrderIs DEF TypeInv, Stages
<1>. QED
  <2> HIDE DEF stage
  <2>. QED
    BY <1>1, <1>2, MoveType

\* Every step of a lookup keeps the types.
LEMMA LookupTypeStep == TypeInv /\ LookupSteps => TypeInv'
<1> SUFFICES ASSUME TypeInv, LookupSteps PROVE TypeInv'
  OBVIOUS
<1>0. /\ MaxWait \in Nat /\ MaxChanges \in Nat /\ TtlLocal \in Nat \ {0}
      /\ TtlShadow \in Nat \ {0} /\ SettleTime \in Nat /\ 0 \in 0 .. SettleTime
      /\ 0 \in 0 .. MaxWait
  BY LookupAssumption DEF LookupAssumption, SettleTime
<1> USE DEF TypeInv, LookupType
<1>1. ASSUME NEW q \in Queries, Ask(q) PROVE TypeInv'
  <2> DEFINE cached == ReadCache(nsCache[NameOf(q)])
  <2>1. NameOf(q) \in Names /\ (cached # None => cached \in Answers)
    BY DEF NameOf, ReadCache
  <2>2. FirstServer \in Stages /\ "answered" \in Stages /\ Empty \in Answers /\ Foreign \in Answers
    BY OrderIs DEF Stages, Answers
  <2>3. \E stage \in Stages, answer \in Answers :
          Move(q, stage, answer) /\ (stage = "upstream" => order # <<"shadow">>)
    BY <1>1, <2>1, <2>2, OrderIs DEF Ask
  <2>4. order' = order
    BY <1>1 DEF Ask, setup
  <2>5. /\ query' \in [Queries -> [at : Stages, name : Names, got : Answers, waited : 0..MaxWait]]
        /\ AskedInOrder'
    BY <2>3, <2>4, MoveType
  <2>. QED
    BY <1>1, <2>5 DEF Ask, setup
<1>2. ASSUME NEW q \in Queries, Replied(q) PROVE TypeInv'
  <2>1. /\ query' \in [Queries -> [at : Stages, name : Names, got : Answers, waited : 0..MaxWait]]
        /\ AskedInOrder'
    BY <1>2, AnsweredType DEF Replied, setup
  <2>. QED
    BY <1>2, <2>1 DEF Replied, setup
<1>3. ASSUME NEW q \in Queries, AskUpstream(q) PROVE TypeInv'
  <2>1. upstream[NameOf(q)] \in Answers
    BY DEF NameOf, Answers
  <2>2. /\ query' \in [Queries -> [at : Stages, name : Names, got : Answers, waited : 0..MaxWait]]
        /\ AskedInOrder'
    BY <1>3, <2>1, AnsweredType DEF AskUpstream, setup, AskedInOrder
  <2>. QED
    BY <1>3, <2>2 DEF AskUpstream, setup
<1>4. ASSUME NEW q \in Queries, LookupFails(q) PROVE TypeInv'
  <2>1. Empty \in Answers
    BY DEF Answers
  <2>2. /\ query' \in [Queries -> [at : Stages, name : Names, got : Answers, waited : 0..MaxWait]]
        /\ AskedInOrder'
    BY <1>4, <2>1, AnsweredType DEF LookupFails, setup, AskedInOrder
  <2>. QED
    BY <1>0, <1>4, <2>2 DEF LookupFails, setup
<1>5. ASSUME NEW q \in Queries, WriteCache(q) PROVE TypeInv'
  <2>1. Valid(query[q].got) \in 0 .. TtlLocal
    BY <1>0 DEF Valid
  <2>2. /\ query' \in [Queries -> [at : Stages, name : Names, got : Answers, waited : 0..MaxWait]]
        /\ AskedInOrder'
    BY <1>5, MoveType DEF WriteCache, setup, Stages
  <2>3. nsCache' \in [Names -> [answer : Answers \cup {None}, left : 0..TtlLocal]]
    BY <1>5, <2>1 DEF WriteCache, NameOf
  <2>. QED
    BY <1>5, <2>2, <2>3 DEF WriteCache, setup
<1>6. ASSUME NEW q \in Queries, Use(q) PROVE TypeInv'
  <2>1. query' \in [Queries -> [at : Stages, name : Names, got : Answers, waited : 0..MaxWait]]
    BY <1>0, <1>6 DEF Use, Stages, Answers
  <2>2. AskedInOrder'
    BY <1>6 DEF Use, AskedInOrder, At, setup
  <2>. QED
    BY <1>6, <2>1, <2>2 DEF Use, setup
<1>7. ASSUME NEW q \in Queries, ShadowQuery(q) PROVE TypeInv'
  <2> DEFINE cached == ReadCache(shadowCache[NameOf(q)])
  <2>1. NameOf(q) \in Names /\ (cached # None => cached \in Answers)
    BY DEF NameOf, ReadCache
  <2>2. \A lost : Found(NameOf(q), lost) \in Answers
    BY <2>1, FoundType DEF Answers
  <2>3. \E stage \in Stages, answer \in Answers :
          Move(q, stage, answer) /\ stage # "upstream"
    BY <1>7, <2>1, <2>2 DEF ShadowQuery, Stages
  <2>4. /\ query' \in [Queries -> [at : Stages, name : Names, got : Answers, waited : 0..MaxWait]]
        /\ AskedInOrder'
    BY <1>7, <2>3, MoveType DEF ShadowQuery, setup
  <2>5. changes' \in 0 .. MaxChanges /\ settled' \in 0 .. SettleTime
    BY <1>0, <1>7 DEF ShadowQuery
  <2>. QED
    BY <1>7, <2>4, <2>5 DEF ShadowQuery, setup
<1>8. ASSUME NEW q \in Queries, ShadowWriteCache(q) PROVE TypeInv'
  <2>1. /\ query' \in [Queries -> [at : Stages, name : Names, got : Answers, waited : 0..MaxWait]]
        /\ AskedInOrder'
    BY <1>8, MoveType DEF ShadowWriteCache, setup, Stages
  <2>2. shadowCache' \in [Names -> [answer : Answers \cup {None}, left : 0..TtlShadow]]
    BY <1>0, <1>8 DEF ShadowWriteCache, NameOf, NoEntry
  <2>. QED
    BY <1>8, <2>1, <2>2 DEF ShadowWriteCache, setup
<1>9. CASE RecordChanges
  <2>1. records' \in [Domains -> Records]
    BY <1>9 DEF RecordChanges
  <2>. QED
    BY <1>0, <1>9, <2>1 DEF RecordChanges, setup, AskedInOrder, At
<1>10. CASE Tick
  <2>1. query' \in [Queries -> [at : Stages, name : Names, got : Answers, waited : 0..MaxWait]]
    <3>1. ASSUME NEW q \in Queries, Pending(q)
          PROVE  [query[q] EXCEPT !.waited = @ + 1] \in
                   [at : Stages, name : Names, got : Answers, waited : 0..MaxWait]
      <4>1. query[q].waited + 1 \in 0 .. MaxWait
        BY <1>0, <1>10, <3>1 DEF Tick
      <4>. QED
        BY <4>1
    <3>. QED
      BY <1>10, <3>1 DEF Tick
  <2>2. Older(nsCache) \in [Names -> [answer : Answers \cup {None}, left : 0..TtlLocal]]
    <3>1. ASSUME NEW n \in Names, nsCache[n].left # 0
          PROVE  [nsCache[n] EXCEPT !.left = @ - 1]
                   \in [answer : Answers \cup {None}, left : 0..TtlLocal]
      <4>1. nsCache[n].left \in 0 .. TtlLocal
        OBVIOUS
      <4>2. nsCache[n].left - 1 \in 0 .. TtlLocal
        BY <1>0, <3>1, <4>1, OneLess
      <4>. QED
        BY <4>2
    <3>2. NoEntry \in [answer : Answers \cup {None}, left : 0..TtlLocal]
      BY <1>0 DEF NoEntry
    <3>. QED
      BY <3>1, <3>2 DEF Older
  <2>3. Older(shadowCache) \in [Names -> [answer : Answers \cup {None}, left : 0..TtlShadow]]
    <3>1. ASSUME NEW n \in Names, shadowCache[n].left # 0
          PROVE  [shadowCache[n] EXCEPT !.left = @ - 1]
                   \in [answer : Answers \cup {None}, left : 0..TtlShadow]
      <4>1. shadowCache[n].left \in 0 .. TtlShadow
        OBVIOUS
      <4>2. shadowCache[n].left - 1 \in 0 .. TtlShadow
        BY <1>0, <3>1, <4>1, OneLess
      <4>. QED
        BY <4>2
    <3>2. NoEntry \in [answer : Answers \cup {None}, left : 0..TtlShadow]
      BY <1>0 DEF NoEntry
    <3>. QED
      BY <3>1, <3>2 DEF Older
  <2>4. settled' \in 0 .. SettleTime
    <3>1. settled' = IF settled = SettleTime THEN settled ELSE settled + 1
      BY <1>10 DEF Tick
    <3>. QED
      BY <1>0, <3>1
  <2>5. AskedInOrder'
    BY <1>10 DEF Tick, AskedInOrder, At, setup
  <2>. QED
    BY <1>10, <2>1, <2>2, <2>3, <2>4, <2>5 DEF Tick, setup
<1>11. CASE UNCHANGED lookupVars
  BY <1>11 DEF lookupVars, setup, AskedInOrder, At
<1>. QED
  BY <1>1, <1>2, <1>3, <1>4, <1>5, <1>6, <1>7, <1>8, <1>9, <1>10, <1>11
     DEF LookupSteps, LookupNext
-------------------------------------------------------------------------------
(* Every answer is right or young *)

\* The names of ingresses are answered at once, and never cached.
IngressesApart ==
  /\ \A q \in Queries : Pending(q) => NameOf(q) \notin extraDomains
  /\ \A n \in Names \cap extraDomains : nsCache[n].left = 0

\* What the shadow pod is about to cache is right, or was found before the last change
\* by a query that has waited since.
WritesInTime ==
  \A q \in Queries : At(q, "shadowWrite") =>
    query[q].got = Found(NameOf(q), {}) \/ settled <= query[q].waited

\* What it has cached is right, or was about to be.
ShadowEntries ==
  \A n \in Names : shadowCache[n].left > 0 =>
    \/ shadowCache[n].answer = Found(n, {})
    \/ shadowCache[n].left + settled <= TtlShadow + MaxWait

\* A query has been answered rightly so far, ...
WayRight(q) ==
  /\ At(q, "shadow") \/ At(q, "shadowWrite") \/ At(q, "reply") =>
       FirstServer = "shadow" \/ upstream[NameOf(q)] = Empty
  /\ At(q, "reply") => query[q].got = Found(NameOf(q), {})
  /\ At(q, "upstream") => FirstServer = "upstream" \/ Found(NameOf(q), {}) = Empty
  /\ At(q, "write") => query[q].got = Right(NameOf(q))

\* ... or from an entry of the shadow pod's cache that was written before the last change.
Ways ==
  \A q \in Queries : Pending(q) =>
    WayRight(q) \/ settled < query[q].waited + TtlShadow + MaxWait

\* What the local server has cached is right, or is the answer to such a query.
LocalEntries ==
  \A n \in Names : nsCache[n].left > 0 =>
    nsCache[n].answer = Right(n) \/ nsCache[n].left + settled <= SettleTime

\* The answers on their way and in the caches.
InTime == WritesInTime /\ ShadowEntries /\ Ways /\ LocalEntries

\* The inductive invariant of the lookups.
LookupInv == TypeInv /\ IngressesApart /\ InTime

\* The durations.
LEMMA Numbers ==
  /\ MaxWait \in Nat /\ TtlLocal \in Nat \ {0} /\ TtlShadow \in Nat \ {0}
  /\ SettleTime = TtlLocal + TtlShadow + 2 * MaxWait - 1
  BY LookupAssumption DEF LookupAssumption, SettleTime

\* Whatever has just changed, everything is in time.
LEMMA JustChanged == TypeInv' /\ settled' = 0 => InTime'
<1> SUFFICES ASSUME TypeInv', settled' = 0 PROVE InTime'
  OBVIOUS
<1> USE Numbers DEF TypeInv, LookupType
<1>1. WritesInTime'
  <2>1. ASSUME NEW q \in Queries PROVE settled' <= query'[q].waited
    <3>1. query'[q].waited \in 0 .. MaxWait
      OBVIOUS
    <3>. QED
      BY <3>1
  <2>. QED
    BY <2>1 DEF WritesInTime
<1>2. ShadowEntries'
  <2>1. ASSUME NEW n \in Names PROVE shadowCache'[n].left + settled' <= TtlShadow + MaxWait
    <3>1. shadowCache'[n].left \in 0 .. TtlShadow
      OBVIOUS
    <3>. QED
      BY <3>1
  <2>. QED
    BY <2>1 DEF ShadowEntries
<1>3. Ways'
  <2>1. ASSUME NEW q \in Queries PROVE settled' < query'[q].waited + TtlShadow + MaxWait
    <3>1. query'[q].waited \in 0 .. MaxWait
      OBVIOUS
    <3>. QED
      BY <3>1
  <2>. QED
    BY <2>1 DEF Ways
<1>4. LocalEntries'
  <2>1. ASSUME NEW n \in Names PROVE nsCache'[n].left + settled' <= SettleTime
    <3>1. nsCache'[n].left \in 0 .. TtlLocal
      OBVIOUS
    <3>. QED
      BY <3>1
  <2>. QED
    BY <2>1 DEF LocalEntries
<1>. QED
  BY <1>1, <1>2, <1>3, <1>4 DEF InTime

\* A query moves alone.
LEMMA MoveIs ==
  ASSUME TypeInv, NEW q \in Queries, NEW stage, NEW answer, Move(q, stage, answer)
  PROVE  /\ query'[q].at = stage /\ query'[q].got = answer
         /\ query'[q].name = query[q].name
         /\ stage # "answered" => query'[q].waited = query[q].waited
         /\ \A p \in Queries \ {q} : query'[p] = query[p]
  BY DEF Move, TypeInv, LookupType

\* Nothing but records says what a name stands for.
LEMMA SameMeaning ==
  ASSUME UNCHANGED setup, UNCHANGED records, UNCHANGED upstream
  PROVE  /\ \A n : Found(n, {})' = Found(n, {})
         /\ \A n : Right(n)' = Right(n)
         /\ FirstServer' = FirstServer
  BY DEF Found, Right, From, FirstServer, setup

\* A step of one query that leaves the caches and the time alone.
LEMMA QueryStep ==
  ASSUME LookupInv, NEW q \in Queries, NEW stage, NEW answer, Move(q, stage, answer),
         UNCHANGED <<setup, records, upstream, nsCache, shadowCache, settled>>,
         stage = "shadowWrite" => answer = Found(NameOf(q), {}),
         stage \notin {"out", "answered"} => NameOf(q) \notin extraDomains,
         stage \notin {"out", "answered"} =>
           WayRight(q)' \/ settled < query[q].waited + TtlShadow + MaxWait
  PROVE  IngressesApart' /\ InTime'
<1>1. /\ \A n : Found(n, {})' = Found(n, {})
      /\ \A n : Right(n)' = Right(n)
      /\ FirstServer' = FirstServer
  BY SameMeaning
<1>2. /\ query'[q].at = stage /\ query'[q].got = answer
      /\ query'[q].name = query[q].name
      /\ stage # "answered" => query'[q].waited = query[q].waited
      /\ \A p \in Queries \ {q} : query'[p] = query[p]
  BY MoveIs DEF LookupInv
<1>3. IngressesApart'
  BY <1>2 DEF LookupInv, IngressesApart, Pending, At, NameOf, setup
<1>4. WritesInTime'
  BY <1>1, <1>2 DEF LookupInv, InTime, WritesInTime, At, NameOf
<1>5. ShadowEntries'
  BY <1>1 DEF LookupInv, InTime, ShadowEntries
<1>6. LocalEntries'
  BY <1>1 DEF LookupInv, InTime, LocalEntries
<1>7. Ways'
  <2>1. ASSUME NEW p \in Queries, Pending(p)'
        PROVE  WayRight(p)' \/ settled < query'[p].waited + TtlShadow + MaxWait
    <3>1. CASE p = q
      BY <1>2, <2>1, <3>1 DEF Pending, At
    <3>2. CASE p # q
      BY <1>1, <1>2, <2>1, <3>2 DEF LookupInv, InTime, Ways, WayRight, Pending, At, NameOf
    <3>. QED
      BY <3>1, <3>2
  <2>. QED
    BY <2>1 DEF Ways
<1>. QED
  BY <1>3, <1>4, <1>5, <1>6, <1>7 DEF InTime

\* A right answer leads to the next server or to the cache.
LEMMA AnsweredWay ==
  ASSUME TypeInv, NEW q \in Queries, NEW server \in {"shadow", "upstream"}, NEW answer,
         Answered(q, server, answer), NameOf(q) \notin extraDomains,
         UNCHANGED <<setup, records, upstream>>,
         server = "shadow" => /\ answer = Found(NameOf(q), {})
                              /\ FirstServer = "shadow" \/ upstream[NameOf(q)] = Empty,
         server = "upstream" => /\ answer = upstream[NameOf(q)]
                                /\ FirstServer = "upstream" \/ Found(NameOf(q), {}) = Empty
                                /\ order # <<"shadow">>
  PROVE  WayRight(q)'
<1> DEFINE n == NameOf(q)
           stage == IF answer = Empty THEN After(server) ELSE "write"
<1>1. Move(q, stage, answer)
  BY DEF Answered
<1>2. query'[q].at = stage /\ query'[q].got = answer /\ NameOf(q)' = n
  BY <1>1, MoveIs DEF NameOf
<1>3. n \in Names
  BY DEF TypeInv, LookupType, NameOf
<1>4. /\ Found(n, {})' = Found(n, {}) /\ Right(n)' = Right(n)
      /\ FirstServer' = FirstServer /\ upstream' = upstream
  <2>1. /\ \A m : Found(m, {})' = Found(m, {})
        /\ \A m : Right(m)' = Right(m)
        /\ FirstServer' = FirstServer
    BY SameMeaning
  <2>. QED
    BY <1>2, <2>1
<1>5. order \in {<<"shadow", "upstream">>, <<"upstream", "shadow">>, <<"shadow">>}
  BY OrderIs DEF TypeInv
<1> HIDE DEF n
<1>6. CASE server = "shadow"
  <2>1. CASE order = <<"shadow">>
    BY <1>2, <1>3, <1>4, <1>6, <2>1, AfterIs, RightIs DEF WayRight, At, TypeInv, n
  <2>2. CASE order = <<"shadow", "upstream">>
    BY <1>2, <1>3, <1>4, <1>6, <2>2, AfterIs, RightIs DEF WayRight, At, TypeInv, n
  <2>3. CASE order = <<"upstream", "shadow">>
    BY <1>2, <1>3, <1>4, <1>6, <2>3, AfterIs, RightIs DEF WayRight, At, TypeInv, n
  <2>. QED
    BY <1>5, <2>1, <2>2, <2>3
<1>7. CASE server = "upstream"
  <2>2. CASE order = <<"shadow", "upstream">>
    BY <1>2, <1>3, <1>4, <1>7, <2>2, AfterIs, RightIs DEF WayRight, At, TypeInv, n
  <2>3. CASE order = <<"upstream", "shadow">>
    BY <1>2, <1>3, <1>4, <1>7, <2>3, AfterIs, RightIs DEF WayRight, At, TypeInv, n
  <2>. QED
    BY <1>5, <1>7, <2>2, <2>3
<1>. QED
  BY <1>6, <1>7

\* Every step of a lookup keeps the invariant.
LEMMA LookupInvStep == LookupInv /\ LookupSteps => LookupInv'
<1> SUFFICES ASSUME LookupInv, LookupSteps PROVE LookupInv'
  OBVIOUS
<1>t. TypeInv /\ TypeInv'
  BY LookupTypeStep DEF LookupInv
<1> SUFFICES IngressesApart' /\ InTime'
  BY <1>t DEF LookupInv
<1>o. ASSUME NEW q \in Queries, Pending(q) PROVE NameOf(q) \in Names \ extraDomains
  BY <1>o, <1>t DEF LookupInv, IngressesApart, TypeInv, LookupType, NameOf
<1>1. ASSUME NEW q \in Queries, Ask(q) PROVE IngressesApart' /\ InTime'
  <2> DEFINE cached == ReadCache(nsCache[NameOf(q)])
  <2>1. FirstServer \in {"shadow", "upstream"}
    BY <1>t, OrderIs DEF TypeInv
  <2>2. UNCHANGED <<setup, records, upstream, nsCache, shadowCache, settled>>
    BY <1>1 DEF Ask
  <2>3. CASE cached # None \/ NameOf(q) \in extraDomains
    <3>1. PICK answer : Move(q, "answered", answer)
      BY <1>1, <2>3 DEF Ask
    <3>. QED
      BY <2>2, <3>1, QueryStep
  <2>4. CASE cached = None /\ NameOf(q) \notin extraDomains
    <3>1. Move(q, FirstServer, Empty)
      BY <1>1, <2>4 DEF Ask
    <3>2. WayRight(q)'
      <4>1. query'[q].at = FirstServer /\ FirstServer' = FirstServer
        BY <1>t, <2>2, <3>1, MoveIs, SameMeaning
      <4>. QED
        BY <2>1, <4>1 DEF WayRight, At
    <3>. QED
      BY <2>1, <2>2, <2>4, <3>1, <3>2, QueryStep
  <2>. QED
    BY <2>3, <2>4
<1>2. ASSUME NEW q \in Queries, Replied(q) PROVE IngressesApart' /\ InTime'
  <2>1. /\ Answered(q, "shadow", query[q].got) /\ At(q, "reply") /\ Pending(q)
        /\ UNCHANGED <<setup, records, upstream, nsCache, shadowCache, settled>>
    BY <1>2 DEF Replied, Pending, At
  <2>2. WayRight(q) => WayRight(q)'
    BY <1>o, <1>t, <2>1, AnsweredWay DEF WayRight
  <2>3. WayRight(q) \/ settled < query[q].waited + TtlShadow + MaxWait
    BY <2>1 DEF LookupInv, InTime, Ways
  <2>4. PICK stage \in {"upstream", "write"} : Move(q, stage, query[q].got)
    BY <1>t, <2>1, OrderIs DEF Answered, TypeInv
  <2>. QED
    BY <1>o, <2>1, <2>2, <2>3, <2>4, QueryStep
<1>3. ASSUME NEW q \in Queries, AskUpstream(q) PROVE IngressesApart' /\ InTime'
  <2>1. /\ Answered(q, "upstream", upstream[NameOf(q)]) /\ At(q, "upstream") /\ Pending(q)
        /\ UNCHANGED <<setup, records, upstream, nsCache, shadowCache, settled>>
    BY <1>3 DEF AskUpstream, Pending, At
  <2>o. order # <<"shadow">>
    BY <1>t, <2>1 DEF TypeInv, AskedInOrder
  <2>2. WayRight(q) => WayRight(q)'
    BY <1>o, <1>t, <2>1, <2>o, AnsweredWay DEF WayRight
  <2>3. WayRight(q) \/ settled < query[q].waited + TtlShadow + MaxWait
    BY <2>1 DEF LookupInv, InTime, Ways
  <2>4. PICK stage \in {"shadow", "write"} : Move(q, stage, upstream[NameOf(q)])
    BY <1>t, <2>1, <2>o, OrderIs DEF Answered, TypeInv
  <2>. QED
    BY <1>o, <2>1, <2>2, <2>3, <2>4, QueryStep
<1>4. ASSUME NEW q \in Queries, LookupFails(q) PROVE IngressesApart' /\ InTime'
  <2>1. Pending(q) /\ UNCHANGED <<setup, nsCache>> /\ settled' = 0
    BY <1>4 DEF LookupFails, Pending, At
  <2>2. PICK stage : Move(q, stage, Empty)
    BY <1>4 DEF LookupFails, Answered
  <2>3. IngressesApart'
    BY <1>o, <1>t, <2>1, <2>2, MoveIs
       DEF LookupInv, IngressesApart, Pending, At, NameOf, setup
  <2>. QED
    BY <1>t, <2>1, <2>3, JustChanged
<1>5. ASSUME NEW q \in Queries, WriteCache(q) PROVE IngressesApart' /\ InTime'
  <2> DEFINE n == NameOf(q)
  <2>1. /\ At(q, "write") /\ Pending(q) /\ Move(q, "answered", query[q].got)
        /\ nsCache' = [nsCache EXCEPT ![n] = [answer |-> query[q].got,
                                              left |-> Valid(query[q].got)]]
        /\ UNCHANGED <<setup, records, upstream, shadowCache, settled>>
    BY <1>5 DEF WriteCache, Pending, At
  <2>2. n \in Names \ extraDomains
    BY <1>o, <2>1
  <2>3. /\ \A m : Found(m, {})' = Found(m, {})
        /\ \A m : Right(m)' = Right(m)
        /\ FirstServer' = FirstServer
    BY <2>1, SameMeaning
  <2>4. /\ query'[q].at = "answered" /\ query'[q].name = query[q].name
        /\ \A p \in Queries \ {q} : query'[p] = query[p]
    BY <1>t, <2>1, MoveIs
  <2>5. \A m \in Names \ {n} : nsCache'[m] = nsCache[m]
    BY <1>t, <2>1 DEF TypeInv, LookupType
  <2>6. nsCache'[n] = [answer |-> query[q].got, left |-> Valid(query[q].got)]
    BY <1>t, <2>1, <2>2 DEF TypeInv, LookupType
  <2>7. IngressesApart'
    <3>1. \A m \in Names \cap extraDomains : m # n
      BY <2>2
    <3>2. extraDomains' = extraDomains
      BY <2>1 DEF setup
    <3>. QED
      BY <2>4, <2>5, <3>1, <3>2 DEF LookupInv, IngressesApart, Pending, At, NameOf
  <2>8. WritesInTime' /\ ShadowEntries' /\ Ways'
    <3>1. WritesInTime'
      BY <2>1, <2>3, <2>4 DEF LookupInv, InTime, WritesInTime, At, NameOf
    <3>2. ShadowEntries'
      BY <2>1, <2>3 DEF LookupInv, InTime, ShadowEntries
    <3>3. ASSUME NEW p \in Queries, Pending(p)'
          PROVE  WayRight(p)' \/ settled < query'[p].waited + TtlShadow + MaxWait
      <4>1. p # q
        BY <2>4, <3>3 DEF Pending, At
      <4>2. query'[p] = query[p] /\ upstream' = upstream
        BY <2>1, <2>4, <4>1
      <4>. QED
        BY <2>3, <3>3, <4>2 DEF LookupInv, InTime, Ways, WayRight, Pending, At, NameOf
    <3>. QED
      BY <2>1, <3>1, <3>2, <3>3 DEF Ways
  <2>9. LocalEntries'
    <3>1. nsCache'[n].answer = Right(n) \/ nsCache'[n].left + settled <= SettleTime
      <4>1. CASE WayRight(q)
        BY <2>1, <2>6, <4>1 DEF WayRight
      <4>2. CASE settled < query[q].waited + TtlShadow + MaxWait
        <5>1. query[q].waited \in 0 .. MaxWait /\ settled \in Nat
          BY <1>t, Numbers DEF TypeInv, LookupType
        <5>2. Valid(query[q].got) \in 0 .. TtlLocal
          BY Numbers DEF Valid
        <5>. QED
          BY <2>6, <4>2, <5>1, <5>2, Numbers
      <4>. QED
        BY <2>1, <4>1, <4>2 DEF LookupInv, InTime, Ways
    <3>2. ASSUME NEW m \in Names, m # n, nsCache'[m].left > 0
          PROVE  nsCache'[m].answer = Right(m) \/ nsCache'[m].left + settled <= SettleTime
      BY <2>5, <3>2 DEF LookupInv, InTime, LocalEntries
    <3>. QED
      BY <2>1, <2>3, <3>1, <3>2 DEF LocalEntries
  <2>. QED
    BY <2>7, <2>8, <2>9 DEF InTime
<1>6. ASSUME NEW q \in Queries, Use(q) PROVE IngressesApart' /\ InTime'
  <2>1. PICK m \in Names : query' = [query EXCEPT ![q] = [at |-> "out", name |-> m,
                                                         got |-> Empty, waited |-> 0]]
    BY <1>6 DEF Use
  <2>2. query'[q].at = "out" /\ \A p \in Queries \ {q} : query'[p] = query[p]
    BY <1>t, <2>1 DEF TypeInv, LookupType
  <2>3. UNCHANGED <<setup, records, upstream, nsCache, shadowCache, settled>>
    BY <1>6 DEF Use
  <2>4. /\ \A k : Found(k, {})' = Found(k, {})
        /\ \A k : Right(k)' = Right(k)
        /\ FirstServer' = FirstServer
    BY <2>3, SameMeaning
  <2>5. IngressesApart'
    BY <2>2, <2>3 DEF LookupInv, IngressesApart, Pending, At, NameOf, setup
  <2>6. WritesInTime' /\ ShadowEntries' /\ LocalEntries'
    BY <2>2, <2>3, <2>4
       DEF LookupInv, InTime, WritesInTime, ShadowEntries, LocalEntries, At, NameOf
  <2>7. ASSUME NEW p \in Queries, Pending(p)'
        PROVE  WayRight(p)' \/ settled < query'[p].waited + TtlShadow + MaxWait
    <3>1. query'[p] = query[p] /\ upstream' = upstream
      BY <2>2, <2>3, <2>7 DEF Pending, At
    <3>. QED
      BY <2>4, <2>7, <3>1 DEF LookupInv, InTime, Ways, WayRight, Pending, At, NameOf
  <2>. QED
    BY <2>3, <2>5, <2>6, <2>7 DEF InTime, Ways
<1>7. ASSUME NEW q \in Queries, ShadowQuery(q) PROVE IngressesApart' /\ InTime'
  <2> DEFINE n      == NameOf(q)
             cached == ReadCache(shadowCache[n])
  <2>1. At(q, "shadow") /\ Pending(q) /\ UNCHANGED <<setup, records, upstream, nsCache, shadowCache>>
    BY <1>7 DEF ShadowQuery, Pending, At
  <2>2. n \in Names \ extraDomains
    BY <1>o, <2>1
  <2>3. WayRight(q) \/ settled < query[q].waited + TtlShadow + MaxWait
    BY <2>1 DEF LookupInv, InTime, Ways
  <2>4. CASE cached # None
    <3>1. Move(q, "reply", cached) /\ UNCHANGED settled
      BY <1>7, <2>4 DEF ShadowQuery
    <3>2. /\ query'[q].at = "reply" /\ query'[q].got = cached /\ NameOf(q)' = n
          /\ Found(n, {})' = Found(n, {}) /\ FirstServer' = FirstServer /\ upstream' = upstream
      <4>1. /\ \A m : Found(m, {})' = Found(m, {})
            /\ FirstServer' = FirstServer
        BY <2>1, SameMeaning
      <4>. QED
        BY <1>t, <2>1, <3>1, <4>1, MoveIs DEF NameOf
    <3>3. shadowCache[n].left > 0 /\ cached = shadowCache[n].answer
      BY <2>4 DEF ReadCache, NotExpired
    <3>4. cached = Found(n, {}) \/ settled < query[q].waited + TtlShadow + MaxWait
      <4>1. shadowCache[n].left \in Nat /\ query[q].waited \in Nat /\ settled \in Nat
        BY <1>t, <2>2 DEF TypeInv, LookupType
      <4>2. shadowCache[n].answer = Found(n, {}) \/ shadowCache[n].left + settled <= TtlShadow + MaxWait
        BY <2>2, <3>3 DEF LookupInv, InTime, ShadowEntries
      <4>. QED
        BY <3>3, <4>1, <4>2, Numbers
    <3>5. WayRight(q)' \/ settled < query[q].waited + TtlShadow + MaxWait
      BY <2>1, <2>3, <3>2, <3>4 DEF WayRight, At
    <3>. QED
      BY <2>1, <2>2, <3>1, <3>5, QueryStep
  <2>5. CASE cached = None
    <3>1. PICK lost \in SUBSET ToSet(Possible[n]) :
            /\ Move(q, "shadowWrite", Found(n, lost))
            /\ settled' = IF lost = {} THEN settled ELSE 0
      BY <1>7, <2>5 DEF ShadowQuery
    <3>2. CASE lost = {}
      <4>1. /\ query'[q].at = "shadowWrite" /\ NameOf(q)' = n
            /\ FirstServer' = FirstServer /\ upstream' = upstream
        BY <1>t, <2>1, <3>1, MoveIs, SameMeaning DEF NameOf
      <4>2. WayRight(q) => WayRight(q)'
        BY <2>1, <4>1 DEF WayRight, At
      <4>. QED
        BY <2>1, <2>2, <2>3, <3>1, <3>2, <4>2, QueryStep
    <3>3. CASE lost # {}
      <4>1. IngressesApart'
        BY <1>t, <2>1, <2>2, <3>1, MoveIs
           DEF LookupInv, IngressesApart, Pending, At, NameOf, setup
      <4>. QED
        BY <1>t, <3>1, <3>3, <4>1, JustChanged
    <3>. QED
      BY <3>2, <3>3
  <2>. QED
    BY <2>4, <2>5
<1>8. ASSUME NEW q \in Queries, ShadowWriteCache(q) PROVE IngressesApart' /\ InTime'
  <2> DEFINE n == NameOf(q)
  <2>1. /\ At(q, "shadowWrite") /\ Pending(q) /\ Move(q, "reply", query[q].got)
        /\ UNCHANGED <<setup, records, upstream, nsCache, settled>>
    BY <1>8 DEF ShadowWriteCache, Pending, At
  <2>e. PICK entry : /\ \/ entry = [answer |-> query[q].got, left |-> TtlShadow]
                        \/ entry.left = 0
                     /\ shadowCache' = [shadowCache EXCEPT ![n] = entry]
    BY <1>8 DEF ShadowWriteCache, NoEntry
  <2>2. n \in Names \ extraDomains
    BY <1>o, <2>1
  <2>3. /\ \A m : Found(m, {})' = Found(m, {})
        /\ \A m : Right(m)' = Right(m)
        /\ FirstServer' = FirstServer /\ upstream' = upstream
    BY <2>1, SameMeaning
  <2>4. /\ query'[q].at = "reply" /\ query'[q].name = query[q].name
        /\ query'[q].got = query[q].got /\ query'[q].waited = query[q].waited
        /\ \A p \in Queries \ {q} : query'[p] = query[p]
    BY <1>t, <2>1, MoveIs
  <2>5. \A m \in Names \ {n} : shadowCache'[m] = shadowCache[m]
    BY <1>t, <2>e DEF TypeInv, LookupType
  <2>6. shadowCache'[n] = [answer |-> query[q].got, left |-> TtlShadow] \/ shadowCache'[n].left = 0
    BY <1>t, <2>e, <2>2 DEF TypeInv, LookupType
  <2>7. IngressesApart'
    BY <2>1, <2>2, <2>4 DEF LookupInv, IngressesApart, Pending, At, NameOf, setup
  <2>8. WritesInTime' /\ LocalEntries'
    BY <2>1, <2>3, <2>4 DEF LookupInv, InTime, WritesInTime, LocalEntries, At, NameOf
  <2>9. query[q].waited \in 0 .. MaxWait /\ settled \in Nat
    BY <1>t, Numbers DEF TypeInv, LookupType
  <2>10. query[q].got = Found(n, {}) \/ settled <= query[q].waited
    BY <2>1 DEF LookupInv, InTime, WritesInTime
  <2>11. ShadowEntries'
    <3>1. \/ shadowCache'[n].left = 0
          \/ shadowCache'[n].answer = Found(n, {})
          \/ shadowCache'[n].left + settled <= TtlShadow + MaxWait
      BY <2>6, <2>9, <2>10, Numbers
    <3>2. ASSUME NEW m \in Names, m # n, shadowCache'[m].left > 0
          PROVE  \/ shadowCache'[m].answer = Found(m, {})
                 \/ shadowCache'[m].left + settled <= TtlShadow + MaxWait
      BY <2>5, <3>2 DEF LookupInv, InTime, ShadowEntries
    <3>. QED
      BY <2>1, <2>3, <3>1, <3>2 DEF ShadowEntries
  <2>12. ASSUME NEW p \in Queries, Pending(p)'
         PROVE  WayRight(p)' \/ settled < query'[p].waited + TtlShadow + MaxWait
    <3>1. CASE p # q
      <4>1. query'[p] = query[p]
        BY <2>4, <3>1
      <4>. QED
        BY <2>3, <2>12, <4>1 DEF LookupInv, InTime, Ways, WayRight, Pending, At, NameOf
    <3>2. CASE p = q
      <4>1. WayRight(q) \/ settled < query[q].waited + TtlShadow + MaxWait
        BY <2>1 DEF LookupInv, InTime, Ways
      <4>2. settled <= query[q].waited => settled < query[q].waited + TtlShadow + MaxWait
        BY <2>9, Numbers
      <4>3. NameOf(q)' = n
        BY <2>4 DEF NameOf
      <4>4. WayRight(q) /\ query[q].got = Found(n, {}) => WayRight(q)'
        BY <2>1, <2>3, <2>4, <4>3 DEF WayRight, At
      <4>. QED
        BY <2>4, <2>10, <3>2, <4>1, <4>2, <4>4
    <3>. QED
      BY <3>1, <3>2
  <2>. QED
    BY <2>1, <2>7, <2>8, <2>11, <2>12 DEF InTime, Ways
<1>9. CASE RecordChanges
  <2>1. IngressesApart'
    BY <1>9 DEF RecordChanges, LookupInv, IngressesApart, Pending, At, NameOf, setup
  <2>2. settled' = 0
    BY <1>9 DEF RecordChanges
  <2>. QED
    BY <1>t, <2>1, <2>2, JustChanged
<1>10. CASE Tick
  <2>1. /\ \A n : Found(n, {})' = Found(n, {})
        /\ \A n : Right(n)' = Right(n)
        /\ FirstServer' = FirstServer /\ upstream' = upstream /\ extraDomains' = extraDomains
    BY <1>10, SameMeaning DEF Tick, setup
  <2>2. settled' <= settled + 1 /\ settled \in Nat /\ settled' \in Nat
    <3>1. settled' = IF settled = SettleTime THEN settled ELSE settled + 1
      BY <1>10 DEF Tick
    <3>2. settled \in Nat
      BY <1>t, Numbers DEF TypeInv, LookupType
    <3>. QED
      BY <3>1, <3>2
  <2>3. ASSUME NEW q \in Queries
        PROVE  /\ query'[q].at = query[q].at /\ query'[q].got = query[q].got
               /\ query'[q].name = query[q].name
               /\ Pending(q) => query'[q].waited = query[q].waited + 1
    <3>1. query'[q] = IF Pending(q) THEN [query[q] EXCEPT !.waited = @ + 1] ELSE query[q]
      BY <1>10 DEF Tick
    <3>2. query[q] \in [at : Stages, name : Names, got : Answers, waited : 0..MaxWait]
      BY <1>t DEF TypeInv, LookupType
    <3>. QED
      BY <3>1, <3>2
  <2>4. ASSUME NEW n \in Names
        PROVE  /\ nsCache'[n].left > 0 => /\ nsCache'[n].answer = nsCache[n].answer
                                          /\ nsCache[n].left = nsCache'[n].left + 1
               /\ nsCache[n].left = 0 => nsCache'[n].left = 0
    <3>1. nsCache'[n] = IF nsCache[n].left = 0 THEN NoEntry ELSE [nsCache[n] EXCEPT !.left = @ - 1]
      BY <1>10 DEF Tick, Older
    <3>2. nsCache[n] \in [answer : Answers \cup {None}, left : 0..TtlLocal]
      BY <1>t DEF TypeInv, LookupType
    <3>. QED
      BY <3>1, <3>2 DEF NoEntry
  <2>5. ASSUME NEW n \in Names, shadowCache'[n].left > 0
        PROVE  /\ shadowCache'[n].answer = shadowCache[n].answer
               /\ shadowCache[n].left = shadowCache'[n].left + 1
    <3>1. shadowCache'[n] = IF shadowCache[n].left = 0 THEN NoEntry
                            ELSE [shadowCache[n] EXCEPT !.left = @ - 1]
      BY <1>10 DEF Tick, Older
    <3>2. shadowCache[n] \in [answer : Answers \cup {None}, left : 0..TtlShadow]
      BY <1>t DEF TypeInv, LookupType
    <3>. QED
      BY <2>5, <3>1, <3>2 DEF NoEntry
  <2>6. IngressesApart'
    BY <2>1, <2>3, <2>4 DEF LookupInv, IngressesApart, Pending, At, NameOf
  <2>7. WritesInTime'
    <3>1. ASSUME NEW q \in Queries, At(q, "shadowWrite")'
          PROVE  query'[q].got = Found(NameOf(q)', {}) \/ settled' <= query'[q].waited
      <4>1. At(q, "shadowWrite") /\ Pending(q) /\ NameOf(q)' = NameOf(q)
        BY <2>3, <3>1 DEF At, Pending, NameOf
      <4>2. query[q].got = Found(NameOf(q), {}) \/ settled <= query[q].waited
        BY <4>1 DEF LookupInv, InTime, WritesInTime
      <4>3. query'[q].waited = query[q].waited + 1 /\ query[q].waited \in Nat
        BY <1>t, <2>3, <4>1 DEF TypeInv, LookupType
      <4>. QED
        BY <2>1, <2>2, <2>3, <4>1, <4>2, <4>3
    <3>. QED
      BY <2>1, <3>1 DEF WritesInTime
  <2>8. ShadowEntries'
    <3>1. ASSUME NEW n \in Names, shadowCache'[n].left > 0
          PROVE  \/ shadowCache'[n].answer = Found(n, {})
                 \/ shadowCache'[n].left + settled' <= TtlShadow + MaxWait
      <4>1. shadowCache'[n].left \in Nat
        BY <1>t DEF TypeInv, LookupType
      <4>2. \/ shadowCache[n].answer = Found(n, {})
            \/ shadowCache[n].left + settled <= TtlShadow + MaxWait
        BY <2>5, <3>1, <4>1 DEF LookupInv, InTime, ShadowEntries
      <4>. QED
        BY <2>2, <2>5, <3>1, <4>1, <4>2, Numbers
    <3>. QED
      BY <2>1, <3>1 DEF ShadowEntries
  <2>9. LocalEntries'
    <3>1. ASSUME NEW n \in Names, nsCache'[n].left > 0
          PROVE  nsCache'[n].answer = Right(n) \/ nsCache'[n].left + settled' <= SettleTime
      <4>1. nsCache'[n].left \in Nat
        BY <1>t DEF TypeInv, LookupType
      <4>2. nsCache[n].answer = Right(n) \/ nsCache[n].left + settled <= SettleTime
        BY <2>4, <3>1, <4>1 DEF LookupInv, InTime, LocalEntries
      <4>. QED
        BY <2>2, <2>4, <3>1, <4>1, <4>2, Numbers
    <3>. QED
      BY <2>1, <3>1 DEF LocalEntries
  <2>10. Ways'
    <3>1. ASSUME NEW q \in Queries, Pending(q)'
          PROVE  WayRight(q)' \/ settled' < query'[q].waited + TtlShadow + MaxWait
      <4>1. Pending(q) /\ NameOf(q)' = NameOf(q)
        BY <2>3, <3>1 DEF At, Pending, NameOf
      <4>2. WayRight(q) \/ settled < query[q].waited + TtlShadow + MaxWait
        BY <4>1 DEF LookupInv, InTime, Ways
      <4>3. query'[q].waited = query[q].waited + 1 /\ query[q].waited \in Nat
        BY <1>t, <2>3, <4>1 DEF TypeInv, LookupType
      <4>4. WayRight(q) => WayRight(q)'
        BY <2>1, <2>3, <4>1 DEF WayRight, At
      <4>. QED
        BY <2>2, <4>2, <4>3, <4>4, Numbers
    <3>. QED
      BY <3>1 DEF Ways
  <2>. QED
    BY <2>6, <2>7, <2>8, <2>9, <2>10 DEF InTime
<1>11. CASE UNCHANGED lookupVars
  <2>1. UNCHANGED <<setup, records, upstream, nsCache, shadowCache, query, settled>>
    BY <1>11 DEF lookupVars
  <2>2. /\ \A n : Found(n, {})' = Found(n, {})
        /\ \A n : Right(n)' = Right(n)
        /\ FirstServer' = FirstServer
    BY <2>1, SameMeaning
  <2>3. IngressesApart'
    BY <2>1 DEF LookupInv, IngressesApart, Pending, At, NameOf, setup
  <2>4. WritesInTime' /\ ShadowEntries' /\ LocalEntries'
    BY <2>1, <2>2 DEF LookupInv, InTime, WritesInTime, ShadowEntries, LocalEntries, At, NameOf
  <2>5. Ways'
    BY <2>1, <2>2 DEF LookupInv, InTime, Ways, WayRight, Pending, At, NameOf
  <2>. QED
    BY <2>3, <2>4, <2>5 DEF InTime
<1>. QED
  BY <1>1, <1>2, <1>3, <1>4, <1>5, <1>6, <1>7, <1>8, <1>9, <1>10, <1>11
     DEF LookupSteps, LookupNext

\* Nothing has been looked up at the start.
LEMMA LookupInvInit == LookupInit => LookupInv
<1> SUFFICES ASSUME LookupInit PROVE LookupInv
  OBVIOUS
<1>1. LookupType
  <2>1. MaxChanges \in Nat /\ 0 \in 0 .. MaxChanges
    BY LookupAssumption DEF LookupAssumption
  <2>2. 0 \in 0 .. MaxWait /\ 0 \in 0 .. TtlLocal /\ 0 \in 0 .. TtlShadow /\ 0 \in 0 .. SettleTime
    BY Numbers
  <2>3. records \in [Domains -> Records]
    BY LookupAssumption DEF LookupAssumption, LookupInit
  <2>4. /\ nsCache \in [Names -> [answer : Answers \cup {None}, left : 0 .. TtlLocal]]
        /\ shadowCache \in [Names -> [answer : Answers \cup {None}, left : 0 .. TtlShadow]]
    BY <2>2 DEF LookupInit, NoEntry
  <2>5. query \in [Queries -> [at : Stages, name : Names, got : Answers, waited : 0 .. MaxWait]]
    <3>1. "out" \in Stages /\ Empty \in Answers
      BY DEF Stages, Answers
    <3>. QED
      BY <2>2, <3>1 DEF LookupInit
  <2>. QED
    BY <2>1, <2>2, <2>3, <2>4, <2>5 DEF LookupInit, LookupType
<1>2. \A q \in Queries : query[q].at = "out"
  BY DEF LookupInit
<1>3. \A n \in Names : nsCache[n].left = 0 /\ shadowCache[n].left = 0
  BY DEF LookupInit, NoEntry
<1>4. AskedInOrder /\ IngressesApart /\ InTime
  BY <1>2, <1>3
     DEF AskedInOrder, IngressesApart, InTime, WritesInTime, ShadowEntries, Ways, LocalEntries,
         Pending, At
<1>. QED
  BY <1>1, <1>4 DEF LookupInv, TypeInv

\* A lookup is part of a session, and nothing else touches its state.
LEMMA SessionSteps == [Next]_vars => LookupSteps
BY DEF Next, Start, Proxy, Routes, Sshuttle, Lookup, vars, LookupSteps

\* An answer on its way or in a cache is the right one, or is no older than the time since
\* the last change allows: query of dnsserver.go and dnsserver_unix.go with their caches.
THEOREM LookupCorrect == FairSpec => []LookupInv
<1>1. Init => LookupInv
  BY LookupInvInit DEF Init
<1>2. LookupInv /\ [Next]_vars => LookupInv'
  BY SessionSteps, LookupInvStep
<1>. QED
  BY <1>1, <1>2, PTL DEF FairSpec

\* Only the cache, the name of an ingress and the end of a search answer a query.
LEMMA AnswerIsRight ==
  ASSUME LookupInv, LookupSteps, NEW q \in Queries, query'[q].at = "answered",
         query[q].at # "answered", settled = SettleTime
  PROVE  query'[q].got = Right(NameOf(q))
<1>0. /\ TypeInv /\ LookupType /\ NameOf(q) \in Names
      /\ FirstServer # "answered"
  BY OrderIs DEF LookupInv, TypeInv, LookupType, NameOf
<1>1. ASSUME NEW p \in Queries, p # q, NEW stage, NEW answer, Move(p, stage, answer) PROVE FALSE
  BY <1>0, <1>1, MoveIs
<1>2. ASSUME NEW stage, NEW answer, Move(q, stage, answer)
      PROVE  stage = "answered" /\ query'[q].got = answer
  BY <1>0, <1>2, MoveIs
<1>3. ASSUME NEW p \in Queries, NEW server \in {"shadow", "upstream"}, NEW answer,
             Answered(p, server, answer), server = "upstream" => order # <<"shadow">>
      PROVE  FALSE
  <2>1. PICK stage \in {"shadow", "upstream", "write"} : Move(p, stage, answer)
    BY <1>0, <1>3, OrderIs DEF Answered
  <2>. QED
    BY <1>1, <1>2, <2>1
<1>4. ASSUME NEW p \in Queries, Ask(p) PROVE query'[q].got = Right(NameOf(q))
  <2> DEFINE cached == ReadCache(nsCache[NameOf(p)])
  <2>1. p = q
    BY <1>1, <1>4 DEF Ask
  <2>2. CASE cached # None
    <3>1. query'[q].got = cached
      BY <1>2, <1>4, <2>1, <2>2 DEF Ask
    <3>2. nsCache[NameOf(q)].left > 0 /\ cached = nsCache[NameOf(q)].answer
      BY <2>1, <2>2 DEF ReadCache, NotExpired
    <3>3. \/ nsCache[NameOf(q)].answer = Right(NameOf(q))
          \/ nsCache[NameOf(q)].left + settled <= SettleTime
      BY <1>0, <3>2 DEF LookupInv, InTime, LocalEntries
    <3>4. nsCache[NameOf(q)].left \in Nat /\ settled \in Nat
      BY <1>0, Numbers DEF LookupType
    <3>. QED
      BY <3>1, <3>2, <3>3, <3>4
  <2>3. CASE cached = None /\ NameOf(q) \in extraDomains
    <3>1. query'[q].got = Foreign
      BY <1>2, <1>4, <2>1, <2>3 DEF Ask
    <3>. QED
      BY <2>3, <3>1 DEF Right
  <2>4. CASE cached = None /\ NameOf(q) \notin extraDomains
    <3>1. Move(q, FirstServer, Empty)
      BY <1>4, <2>1, <2>4 DEF Ask
    <3>. QED
      BY <1>0, <1>2, <3>1
  <2>. QED
    BY <2>2, <2>3, <2>4
<1>5. ASSUME NEW p \in Queries, Replied(p) PROVE FALSE
  BY <1>3, <1>5 DEF Replied
<1>6. ASSUME NEW p \in Queries, At(p, "upstream") PROVE order # <<"shadow">>
  BY <1>0, <1>6 DEF TypeInv, AskedInOrder
<1>7. ASSUME NEW p \in Queries, AskUpstream(p) PROVE FALSE
  BY <1>3, <1>6, <1>7 DEF AskUpstream
<1>8. ASSUME NEW p \in Queries, LookupFails(p) PROVE FALSE
  BY <1>3, <1>6, <1>8 DEF LookupFails
<1>9. ASSUME NEW p \in Queries, WriteCache(p) PROVE query'[q].got = Right(NameOf(q))
  <2>1. p = q
    BY <1>1, <1>9 DEF WriteCache
  <2>2. At(q, "write") /\ Pending(q) /\ query'[q].got = query[q].got
    BY <1>2, <1>9, <2>1 DEF WriteCache, Pending, At
  <2>3. WayRight(q) \/ settled < query[q].waited + TtlShadow + MaxWait
    BY <2>2 DEF LookupInv, InTime, Ways
  <2>4. query[q].waited \in 0 .. MaxWait
    BY <1>0 DEF LookupType
  <2>5. WayRight(q)
    BY <2>3, <2>4, Numbers
  <2>. QED
    BY <2>2, <2>5 DEF WayRight
<1>10. ASSUME NEW p \in Queries, Use(p) PROVE FALSE
  <2>1. query'[q].at = query[q].at \/ query'[q].at = "out"
    BY <1>0, <1>10 DEF Use, LookupType
  <2>. QED
    BY <2>1
<1>11. ASSUME NEW p \in Queries, ShadowQuery(p) PROVE FALSE
  <2>1. \E stage, answer : stage \in {"reply", "shadowWrite"} /\ Move(p, stage, answer)
    BY <1>11 DEF ShadowQuery
  <2>. QED
    BY <1>1, <1>2, <2>1
<1>12. ASSUME NEW p \in Queries, ShadowWriteCache(p) PROVE FALSE
  BY <1>1, <1>2, <1>12 DEF ShadowWriteCache
<1>13. ASSUME RecordChanges \/ UNCHANGED lookupVars PROVE FALSE
  BY <1>13 DEF RecordChanges, lookupVars
<1>14. ASSUME Tick PROVE FALSE
  <2>1. query'[q] = IF Pending(q) THEN [query[q] EXCEPT !.waited = @ + 1] ELSE query[q]
    BY <1>14 DEF Tick
  <2>2. query[q] \in [at : Stages, name : Names, got : Answers, waited : 0..MaxWait]
    BY <1>0 DEF LookupType
  <2>. QED
    BY <2>1, <2>2
<1>. QED
  BY <1>4, <1>5, <1>7, <1>8, <1>9, <1>10, <1>11, <1>12, <1>13, <1>14 DEF LookupSteps, LookupNext

\* Once no record has changed and no lookup failed for SettleTime, every answer is the right
\* one, whichever queries overlap: both caches of dns_util.go under the local server.
THEOREM AnswersSettleCorrect == FairSpec => AnswersSettle
<1>1. LookupInv /\ [Next]_vars =>
        [\A q \in Queries :
           (At(q, "answered"))' /\ ~At(q, "answered") /\ settled = SettleTime =>
             query'[q].got = Right(NameOf(q))]_vars
  BY SessionSteps, AnswerIsRight DEF At
<1>. QED
  BY <1>1, LookupCorrect, PTL DEF FairSpec, AnswersSettle

-------------------------------------------------------------------------------
(* Prefixes *)

\* A set of numbers with a bound has a largest one.
LEMMA MaxIs ==
  ASSUME NEW S \in SUBSET Nat, S # {}, NEW k \in Nat, \A n \in S : n <= k
  PROVE  Max(S) \in S /\ \A n \in S : n <= Max(S)
<1> DEFINE Bounds == {m \in Nat : \A n \in S : n <= m}
<1>1. Bounds \in SUBSET Nat /\ Bounds # {}
  OBVIOUS
<1> DEFINE b == Min(Bounds)
<1>2. b \in Bounds /\ \A m \in Bounds : b <= m
  <2> HIDE DEF Bounds
  <2>. QED
    BY <1>1, MinIs
<1>3. b \in S
  <2>1. SUFFICES ASSUME b \notin S PROVE FALSE
    OBVIOUS
  <2>2. \A n \in S : n <= b - 1
    BY <1>2, <2>1
  <2>3. b \in Nat /\ b - 1 \in Nat
    <3>1. PICK n \in S : n <= b - 1
      BY <2>2
    <3>. QED
      BY <1>2, <3>1
  <2>4. b - 1 \in Bounds
    BY <2>2, <2>3
  <2>. QED
    BY <1>2, <2>3, <2>4
<1>4. \A n \in S : b >= n
  BY <1>2
<1> HIDE DEF b
<1>. QED
  BY <1>3, <1>4 DEF Max

\* The beginnings of addresses.
Words == Seq({0, 1})

\* A prefix, bit by bit.
LEMMA PrefixIs ==
  ASSUME NEW s \in Words, NEW t \in Words
  PROVE  IsPrefix(s, t) <=> Len(s) <= Len(t) /\ \A i \in 1 .. Len(s) : s[i] = t[i]
<1>0. Len(s) \in Nat /\ Len(t) \in Nat
  BY DEF Words
<1>1. Len(s) <= Len(t) =>
        SubSeq(s, 1, Len(s)) = SubSeq(t, 1, Len(s)) <=> \A i \in 1 .. Len(s) : s[i] = t[i]
  BY <1>0 DEF Words
<1>. QED
  BY <1>0, <1>1 DEF IsPrefix

\* Prefixes are ordered, those of one word totally.
LEMMA PrefixFacts ==
  /\ \A s \in Words : IsPrefix(s, s) /\ IsPrefix(<<>>, s)
  /\ \A s, t, u \in Words : IsPrefix(s, t) /\ IsPrefix(t, u) => IsPrefix(s, u)
  /\ \A s, t \in Words : IsPrefix(s, t) /\ IsPrefix(t, s) => s = t
  /\ \A s, t, u \in Words : IsPrefix(s, u) /\ IsPrefix(t, u) /\ Len(s) <= Len(t) => IsPrefix(s, t)
<1>0. \A s \in Words : Len(s) \in Nat
  BY DEF Words
<1>1. <<>> \in Words /\ Len(<<>>) = 0
  BY DEF Words
<1>2. ASSUME NEW s \in Words PROVE IsPrefix(s, s) /\ IsPrefix(<<>>, s)
  BY <1>0, <1>1, PrefixIs
<1>3. ASSUME NEW s \in Words, NEW t \in Words, NEW u \in Words, IsPrefix(s, t), IsPrefix(t, u)
      PROVE  IsPrefix(s, u)
  <2>1. Len(s) <= Len(t) /\ \A i \in 1 .. Len(s) : s[i] = t[i]
    BY <1>3, PrefixIs
  <2>2. Len(t) <= Len(u) /\ \A i \in 1 .. Len(t) : t[i] = u[i]
    BY <1>3, PrefixIs
  <2>3. Len(s) <= Len(u) /\ \A i \in 1 .. Len(s) : s[i] = u[i]
    BY <1>0, <2>1, <2>2
  <2>. QED
    BY <2>3, PrefixIs
<1>4. ASSUME NEW s \in Words, NEW t \in Words, IsPrefix(s, t), IsPrefix(t, s) PROVE s = t
  <2>1. Len(s) <= Len(t) /\ \A i \in 1 .. Len(s) : s[i] = t[i]
    BY <1>4, PrefixIs
  <2>2. Len(t) <= Len(s)
    BY <1>4, PrefixIs
  <2>3. Len(s) = Len(t)
    BY <1>0, <2>1, <2>2
  <2>. QED
    BY <2>1, <2>3, SeqEqual DEF Words
<1>5. ASSUME NEW s \in Words, NEW t \in Words, NEW u \in Words, IsPrefix(s, u), IsPrefix(t, u),
             Len(s) <= Len(t)
      PROVE  IsPrefix(s, t)
  <2>1. \A i \in 1 .. Len(s) : s[i] = u[i]
    BY <1>5, PrefixIs
  <2>2. \A i \in 1 .. Len(t) : t[i] = u[i]
    BY <1>5, PrefixIs
  <2>3. \A i \in 1 .. Len(s) : s[i] = t[i]
    BY <1>0, <1>5, <2>1, <2>2
  <2>. QED
    BY <1>5, <2>3, PrefixIs
<1>. QED
  BY <1>2, <1>3, <1>4, <1>5

\* The first bits of a word.
LEMMA CutIs ==
  ASSUME NEW s \in Words, NEW l \in 0 .. Len(s)
  PROVE  /\ SubSeq(s, 1, l) \in Words /\ Len(SubSeq(s, 1, l)) = l
         /\ \A i \in 1 .. l : SubSeq(s, 1, l)[i] = s[i]
         /\ IsPrefix(SubSeq(s, 1, l), s)
<1>0. Len(s) \in Nat
  BY DEF Words
<1>1. /\ SubSeq(s, 1, l) \in Words /\ Len(SubSeq(s, 1, l)) = l
      /\ \A i \in 1 .. l : SubSeq(s, 1, l)[i] = s[i]
  <2>1. 1 \in 1 .. Len(s) + 1 /\ l \in 1 - 1 .. Len(s) /\ l - 1 + 1 = l
    BY <1>0
  <2>2. /\ SubSeq(s, 1, l) \in Words /\ Len(SubSeq(s, 1, l)) = l - 1 + 1
        /\ \A i \in 1 .. l - 1 + 1 : SubSeq(s, 1, l)[i] = s[1 + i - 1]
    BY <2>1, SubSeqProperties DEF Words
  <2>3. \A i \in 1 .. l : 1 + i - 1 = i
    OBVIOUS
  <2>. QED
    BY <1>0, <2>1, <2>2, <2>3
<1>2. IsPrefix(SubSeq(s, 1, l), s)
  <2> DEFINE c == SubSeq(s, 1, l)
  <2>1. c \in Words /\ Len(c) = l /\ l <= Len(s) /\ \A i \in 1 .. l : c[i] = s[i]
    BY <1>0, <1>1
  <2> HIDE DEF c
  <2>2. IsPrefix(c, s)
    BY <2>1, PrefixIs
  <2>. QED
    BY <2>2 DEF c
<1>. QED
  BY <1>1, <1>2

\* A prefix is the first bits of the word.
LEMMA PrefixIsCut ==
  ASSUME NEW s \in Words, NEW t \in Words, IsPrefix(s, t)
  PROVE  Len(s) \in 0 .. Len(t) /\ s = SubSeq(t, 1, Len(s))
<1>0. Len(s) \in Nat /\ Len(t) \in Nat /\ Len(s) <= Len(t) /\ \A i \in 1 .. Len(s) : s[i] = t[i]
  BY PrefixIs DEF Words
<1>1. Len(s) \in 0 .. Len(t)
  BY <1>0
<1>2. /\ SubSeq(t, 1, Len(s)) \in Words /\ Len(SubSeq(t, 1, Len(s))) = Len(s)
      /\ \A i \in 1 .. Len(s) : SubSeq(t, 1, Len(s))[i] = t[i]
  BY <1>1, CutIs
<1>. QED
  BY <1>0, <1>1, <1>2, SeqEqual DEF Words

\* The prefixes of the longest common prefix are the prefixes all have in common.
LEMMA LongestIs ==
  ASSUME NEW S \in SUBSET Words, S # {}
  PROVE  /\ LongestCommonPrefix(S) \in Words
         /\ \A q \in Words : IsPrefix(q, LongestCommonPrefix(S)) <=> \A t \in S : IsPrefix(q, t)
<1> DEFINE C == CommonPrefixes(S)
           c == LongestCommonPrefix(S)
           P == UNION { Prefixes(seq) : seq \in S }
<1>0. \A s \in Words : Len(s) \in Nat
  BY DEF Words
<1>1. P \subseteq Words
  <2>1. ASSUME NEW w \in Words PROVE Prefixes(w) \subseteq Words
    <3>1. \A l \in 0 .. Len(w) : SubSeq(w, 1, l) \in Words
      BY CutIs
    <3>. QED
      BY <3>1 DEF Prefixes
  <2>. QED
    BY <2>1
<1>2. ASSUME NEW q \in Words PROVE q \in C <=> \A t \in S : IsPrefix(q, t)
  <2>1. C = {prefix \in P : \A t \in S : IsPrefix(prefix, t)}
    BY DEF CommonPrefixes
  <2>2. ASSUME \A t \in S : IsPrefix(q, t) PROVE q \in P
    <3>1. PICK t \in S : TRUE
      OBVIOUS
    <3>2. Len(q) \in 0 .. Len(t) /\ q = SubSeq(t, 1, Len(q))
      BY <2>2, <3>1, PrefixIsCut
    <3>3. q \in Prefixes(t)
      BY <3>2 DEF Prefixes
    <3>. QED
      BY <3>1, <3>3
  <2>. QED
    BY <2>1, <2>2
<1>3. C \subseteq Words
  BY <1>1 DEF CommonPrefixes
<1> DEFINE Lens == {Len(q) : q \in C}
<1>4. PICK t0 \in S : TRUE
  OBVIOUS
<1>5. /\ Lens \in SUBSET Nat /\ Lens # {} /\ Len(t0) \in Nat
      /\ \A n \in Lens : n <= Len(t0)
  <2>1. <<>> \in C
    <3>1. <<>> \in Words /\ \A t \in S : IsPrefix(<<>>, t)
      BY PrefixFacts DEF Words
    <3>. QED
      BY <1>2, <3>1
  <2>2. ASSUME NEW q \in C PROVE Len(q) <= Len(t0)
    <3>1. q \in Words /\ IsPrefix(q, t0)
      BY <1>2, <1>3, <1>4
    <3>. QED
      BY <3>1, PrefixIs
  <2> HIDE DEF C
  <2>. QED
    BY <1>0, <1>3, <2>1, <2>2
<1>6. PICK d \in C : \A q \in C : Len(q) <= Len(d)
  <2> HIDE DEF Lens
  <2>1. Max(Lens) \in Lens /\ \A n \in Lens : n <= Max(Lens)
    BY <1>5, MaxIs
  <2>. QED
    BY <2>1 DEF Lens
<1>7. c \in C /\ \A q \in C : Len(q) <= Len(c)
  <2>1. c = CHOOSE longest \in C : \A other \in C : Len(other) <= Len(longest)
    BY DEF LongestCommonPrefix
  <2> HIDE DEF C, c
  <2>. QED
    BY <1>6, <2>1
<1>8. c \in Words /\ \A t \in S : IsPrefix(c, t)
  BY <1>2, <1>3, <1>7
<1>9. ASSUME NEW q \in Words PROVE IsPrefix(q, c) <=> \A t \in S : IsPrefix(q, t)
  <2> HIDE DEF c, C
  <2>1. ASSUME IsPrefix(q, c), NEW t \in S PROVE IsPrefix(q, t)
    BY <1>8, <2>1, PrefixFacts
  <2>2. ASSUME \A t \in S : IsPrefix(q, t) PROVE IsPrefix(q, c)
    <3>1. Len(q) <= Len(c)
      BY <1>2, <1>7, <2>2
    <3>. QED
      BY <1>4, <1>8, <2>2, <3>1, PrefixFacts
  <2>. QED
    BY <2>1, <2>2
<1> HIDE DEF c
<1>10. QED
  BY <1>8, <1>9 DEF c

\* The prefixes of what two words have in common.
LEMMA CommonIs ==
  ASSUME NEW s \in Words, NEW t \in Words
  PROVE  /\ Common(s, t) \in Words
         /\ \A q \in Words : IsPrefix(q, Common(s, t)) <=> IsPrefix(q, s) /\ IsPrefix(q, t)
<1>1. {s, t} \in SUBSET Words /\ {s, t} # {}
  OBVIOUS
<1>2. /\ LongestCommonPrefix({s, t}) \in Words
      /\ \A q \in Words : IsPrefix(q, LongestCommonPrefix({s, t})) <=>
                            \A u \in {s, t} : IsPrefix(q, u)
  BY <1>1, LongestIs
<1>. QED
  BY <1>2 DEF Common
-------------------------------------------------------------------------------
(* Whole segments *)

\* Words of whole segments.
Whole(w) == Len(w) % SegBits = 0
WholeWords == {w \in Words : Whole(w)}

\* The numbers an address is made of.
LEMMA SegmentsIs ==
  /\ Segments \in Nat \ {0} /\ SegBits \in Nat \ {0} /\ Threshold \in Nat \ {0}
  /\ Bits \in Nat /\ Threshold <= Bits /\ Threshold % SegBits = 0
<1>1. /\ Segments \in Nat \ {0} /\ SegBits \in Nat \ {0} /\ Threshold \in Nat \ {0}
      /\ Threshold <= Bits /\ Threshold % SegBits = 0
  BY RoutesAssumption DEF RoutesAssumption
<1>. QED
  BY <1>1 DEF Bits

\* The largest multiple of SegBits up to a number.
LEMMA FloorIs ==
  ASSUME NEW n \in Nat
  PROVE  /\ n - (n % SegBits) \in 0 .. n /\ (n - (n % SegBits)) % SegBits = 0
         /\ \A m \in 0 .. n : m % SegBits = 0 => m <= n - (n % SegBits)
<1> DEFINE b == SegBits
<1>0. b \in Nat \ {0}
  BY SegmentsIs
<1> HIDE DEF b
<1>1. n % b \in 0 .. b - 1 /\ n \div b \in Nat /\ n = b * (n \div b) + (n % b)
  <2>1. n % b \in 0 .. b - 1
    BY <1>0
  <2>2. n \div b \in Int
    BY <1>0
  <2>3. n \div b >= 0
    BY <1>0
  <2>4. n = b * (n \div b) + (n % b)
    BY <1>0
  <2>. QED
    BY <2>1, <2>2, <2>3, <2>4
<1>2. n - (n % b) \in 0 .. n
  BY <1>0, <1>1
<1>3. n - (n % b) = b * (n \div b)
  BY <1>0, <1>1
<1>4. (b * (n \div b)) % b = 0
  BY <1>0, <1>1
<1>5. ASSUME NEW m \in 0 .. n, m % b = 0 PROVE m <= n - (n % b)
  <2>1. m \div b \in Nat /\ m = b * (m \div b)
    BY <1>0, <1>5
  <2>2. CASE m \div b <= n \div b
    BY <1>0, <1>1, <1>3, <2>1, <2>2
  <2>3. CASE m \div b > n \div b
    <3>1. m \div b >= n \div b + 1
      BY <1>1, <2>1, <2>3
    <3>2. b * (m \div b) >= b * (n \div b + 1)
      BY <1>0, <1>1, <2>1, <3>1
    <3>3. b * (n \div b + 1) = b * (n \div b) + b
      BY <1>0, <1>1
    <3>. QED
      BY <1>0, <1>1, <2>1, <3>2, <3>3
  <2>. QED
    BY <1>1, <2>1, <2>2, <2>3
<1>. QED
  BY <1>2, <1>3, <1>4, <1>5 DEF b

\* A word that is cut to whole segments keeps the prefixes of whole segments.
LEMMA AlignIs ==
  ASSUME NEW r \in Words
  PROVE  /\ Align(r) \in WholeWords
         /\ IsPrefix(Align(r), r)
         /\ Len(r) >= Threshold => Len(Align(r)) >= Threshold
         /\ \A q \in WholeWords : IsPrefix(q, Align(r)) <=> IsPrefix(q, r)
<1> DEFINE l == Len(r) - (Len(r) % SegBits)
<1>0. Len(r) \in Nat
  BY DEF Words
<1>1. l \in 0 .. Len(r) /\ l % SegBits = 0 /\ \A m \in 0 .. Len(r) : m % SegBits = 0 => m <= l
  BY <1>0, FloorIs
<1> HIDE DEF l
<1>2. Align(r) = SubSeq(r, 1, l)
  BY DEF Align, l
<1>3. Align(r) \in Words /\ Len(Align(r)) = l /\ IsPrefix(Align(r), r)
  BY <1>1, <1>2, CutIs
<1>4. Len(r) >= Threshold => l >= Threshold
  BY <1>0, <1>1, SegmentsIs
<1>5. ASSUME NEW q \in WholeWords PROVE IsPrefix(q, Align(r)) <=> IsPrefix(q, r)
  <2>1. q \in Words /\ Len(q) % SegBits = 0 /\ Len(q) \in Nat
    BY DEF WholeWords, Whole, Words
  <2>2. ASSUME IsPrefix(q, r) PROVE IsPrefix(q, Align(r))
    <3>1. Len(q) \in 0 .. Len(r)
      BY <2>1, <2>2, PrefixIsCut
    <3>. QED
      BY <1>1, <1>3, <2>1, <2>2, <3>1, PrefixFacts
  <2>3. ASSUME IsPrefix(q, Align(r)) PROVE IsPrefix(q, r)
    BY <1>3, <2>1, <2>3, PrefixFacts
  <2>. QED
    BY <2>2, <2>3
<1>6. Align(r) \in WholeWords
  BY <1>1, <1>3 DEF WholeWords, Whole
<1>. QED
  BY <1>3, <1>4, <1>5, <1>6

-------------------------------------------------------------------------------
(* Groups of addresses *)

\* Words that belong to a group, and those that belong to the same.
Wide == {w \in Words : Len(w) >= Threshold}
Alike(r, s) == \A i \in 1 .. Threshold : r[i] = s[i]

\* Near is to be in the same group, and what two words of a group have in common stays in it.
LEMMA NearIs ==
  ASSUME NEW r \in Wide, NEW s \in Wide
  PROVE  /\ Near(r, s) <=> Alike(r, s)
         /\ Alike(r, s) => Common(r, s) \in Wide /\ Alike(Common(r, s), r)
<1> DEFINE c == Common(r, s)
           w == SubSeq(r, 1, Threshold)
<1>0. /\ r \in Words /\ s \in Words /\ Len(r) \in Nat /\ Len(s) \in Nat
      /\ Len(r) >= Threshold /\ Len(s) >= Threshold /\ Threshold \in Nat
  BY SegmentsIs DEF Wide, Words
<1>1. /\ c \in Words /\ Len(c) \in Nat
      /\ \A q \in Words : IsPrefix(q, c) <=> IsPrefix(q, r) /\ IsPrefix(q, s)
  BY <1>0, CommonIs DEF Words
<1> HIDE DEF c
<1>2. IsPrefix(c, r) /\ IsPrefix(c, s)
  BY <1>1, PrefixFacts
<1>3. (\A i \in 1 .. Len(c) : c[i] = r[i]) /\ (\A i \in 1 .. Len(c) : c[i] = s[i])
  BY <1>0, <1>1, <1>2, PrefixIs
<1>4. ASSUME Len(c) >= Threshold PROVE Alike(r, s) /\ Alike(c, r)
  BY <1>0, <1>1, <1>3, <1>4 DEF Alike
<1>5. ASSUME Alike(r, s) PROVE Len(c) >= Threshold
  <2>1. Threshold \in 0 .. Len(r)
    BY <1>0
  <2>2. /\ w \in Words /\ Len(w) = Threshold /\ IsPrefix(w, r)
        /\ \A i \in 1 .. Threshold : w[i] = r[i]
    BY <1>0, <2>1, CutIs
  <2> HIDE DEF w
  <2>3. IsPrefix(w, s)
    BY <1>0, <1>5, <2>2, PrefixIs DEF Alike
  <2>4. IsPrefix(w, c)
    BY <1>1, <2>2, <2>3
  <2>. QED
    BY <1>1, <2>2, <2>4, PrefixIs
<1>. QED
  BY <1>1, <1>4, <1>5 DEF Near, Wide, c

\* The ranges rs stand for the groups of I: one for each, and no longer than what all of a
\* group have in common, as far as words of Q can tell.
Groups(rs, I, Q) ==
  /\ \A k, l \in DOMAIN rs : Alike(rs[k], rs[l]) => k = l
  /\ \A ip \in I : \E k \in DOMAIN rs : Alike(rs[k], ip)
  /\ \A k \in DOMAIN rs : \E ip \in I : Alike(rs[k], ip)
  /\ \A k \in DOMAIN rs, q \in Q :
       IsPrefix(q, rs[k]) <=> \A ip \in I : Alike(rs[k], ip) => IsPrefix(q, ip)

\* One more address: its range is as wide as it must be, the others stay.
LEMMA WidenStep ==
  ASSUME NEW rs \in Seq(Wide), NEW I \in SUBSET Wide, NEW x \in Wide, Groups(rs, I, Words)
  PROVE  Widen(rs, x) \in Seq(Wide) /\ Groups(Widen(rs, x), I \cup {x}, Words)
<1> DEFINE near == {i \in DOMAIN rs : Near(rs[i], x)}
           new  == Widen(rs, x)
<1>0. /\ Len(rs) \in Nat /\ DOMAIN rs = 1 .. Len(rs)
      /\ \A k \in DOMAIN rs : rs[k] \in Wide
  BY ElementOfSeq, LenProperties
<1>1. \A k \in DOMAIN rs : k \in near <=> Alike(rs[k], x)
  BY <1>0, NearIs
<1>2. \A r, s, t : /\ Alike(r, r)
                   /\ Alike(r, s) => Alike(s, r)
                   /\ Alike(r, s) /\ Alike(s, t) => Alike(r, t)
  BY DEF Alike
<1>3. CASE near = {}
  <2>1. new = Append(rs, x)
    BY <1>3 DEF Widen
  <2>2. /\ new \in Seq(Wide) /\ DOMAIN new = DOMAIN rs \cup {Len(rs) + 1}
        /\ \A k \in DOMAIN rs : new[k] = rs[k]
        /\ new[Len(rs) + 1] = x /\ Len(rs) + 1 \notin DOMAIN rs
    <3>1. /\ new \in Seq(Wide) /\ Len(new) = Len(rs) + 1
          /\ \A k \in 1 .. Len(rs) : new[k] = rs[k]
          /\ new[Len(rs) + 1] = x
      BY <2>1, AppendProperties
    <3>2. DOMAIN new = 1 .. Len(rs) + 1
      BY <3>1, LenProperties
    <3>. QED
      BY <1>0, <3>1, <3>2
  <2> HIDE DEF new
  <2>3. \A k \in DOMAIN rs : ~Alike(rs[k], x)
    BY <1>1, <1>3
  <2>4. \A ip \in I : ~Alike(x, ip)
    BY <1>2, <2>3 DEF Groups
  <2>5. \A k, l \in DOMAIN new : Alike(new[k], new[l]) => k = l
    BY <1>2, <2>2, <2>3 DEF Groups
  <2>6. \A ip \in I \cup {x} : \E k \in DOMAIN new : Alike(new[k], ip)
    BY <1>2, <2>2 DEF Groups
  <2>7. \A k \in DOMAIN new : \E ip \in I \cup {x} : Alike(new[k], ip)
    BY <1>2, <2>2 DEF Groups
  <2>8. ASSUME NEW k \in DOMAIN new, NEW q \in Words
        PROVE  IsPrefix(q, new[k]) <=>
                 \A ip \in I \cup {x} : Alike(new[k], ip) => IsPrefix(q, ip)
    <3>1. CASE k \in DOMAIN rs
      BY <2>2, <2>3, <3>1 DEF Groups
    <3>2. CASE k = Len(rs) + 1
      BY <1>2, <2>2, <2>4, <3>2
    <3>. QED
      BY <2>2, <3>1, <3>2
  <2>9. Groups(new, I \cup {x}, Words)
    BY <2>5, <2>6, <2>7, <2>8 DEF Groups
  <2>. QED
    BY <2>2, <2>9 DEF new
<1>4. CASE near # {}
  <2> DEFINE m == Min(near)
             c == Common(rs[m], x)
  <2>1. m \in near
    <3>1. near \in SUBSET Nat
      BY <1>0
    <3>. QED
      BY <1>4, <3>1, MinIs
  <2>2. new = [rs EXCEPT ![m] = c]
    BY <1>4 DEF Widen
  <2>3. m \in DOMAIN rs /\ rs[m] \in Wide /\ Alike(rs[m], x)
    BY <1>0, <1>1, <2>1
  <2> HIDE DEF m
  <2>4. /\ c \in Wide /\ Alike(c, rs[m])
        /\ \A q \in Words : IsPrefix(q, c) <=> IsPrefix(q, rs[m]) /\ IsPrefix(q, x)
    BY <2>3, NearIs, CommonIs DEF Wide
  <2>5. /\ new \in Seq(Wide) /\ DOMAIN new = DOMAIN rs
        /\ \A k \in DOMAIN rs : k # m => new[k] = rs[k]
        /\ new[m] = c
    BY <1>0, <2>2, <2>3, <2>4, ExceptSeq
  <2> HIDE DEF new, c
  <2>6. \A k \in DOMAIN rs : Alike(new[k], rs[k])
    BY <1>2, <2>4, <2>5
  <2>7. \A k \in DOMAIN rs : Alike(rs[k], x) => k = m
    BY <1>2, <2>3 DEF Groups
  <2>8. \A k, l \in DOMAIN new : Alike(new[k], new[l]) => k = l
    BY <1>2, <2>5, <2>6 DEF Groups
  <2>9. \A ip \in I \cup {x} : \E k \in DOMAIN new : Alike(new[k], ip)
    BY <1>2, <2>3, <2>5, <2>6 DEF Groups
  <2>10. \A k \in DOMAIN new : \E ip \in I \cup {x} : Alike(new[k], ip)
    BY <1>2, <2>5, <2>6 DEF Groups
  <2>11. ASSUME NEW k \in DOMAIN new, NEW q \in Words
         PROVE  IsPrefix(q, new[k]) <=>
                  \A ip \in I \cup {x} : Alike(new[k], ip) => IsPrefix(q, ip)
    <3>1. \A ip : Alike(new[k], ip) <=> Alike(rs[k], ip)
      BY <1>2, <2>5, <2>6
    <3>2. IsPrefix(q, rs[k]) <=> \A ip \in I : Alike(rs[k], ip) => IsPrefix(q, ip)
      BY <2>5 DEF Groups
    <3>3. CASE k = m
      BY <2>3, <2>4, <2>5, <3>1, <3>2, <3>3
    <3>4. CASE k # m
      BY <2>5, <2>7, <3>1, <3>2, <3>4
    <3>. QED
      BY <3>3, <3>4
  <2>12. Groups(new, I \cup {x}, Words)
    BY <2>8, <2>9, <2>10, <2>11 DEF Groups
  <2>. QED
    BY <2>5, <2>12 DEF new
<1>. QED
  BY <1>3, <1>4
-------------------------------------------------------------------------------
(* The folds *)

\* The largest element of a set of numbers.
LEMMA LargestIs ==
  ASSUME NEW k \in Nat, NEW s \in SUBSET (1 .. k), s # {}
  PROVE  /\ Max(s) \in s
         /\ \A n \in s : n <= Max(s)
         /\ k \in s => Max(s) = k
<1>1. s \in SUBSET Nat /\ \A n \in s : n <= k
  OBVIOUS
<1>2. Max(s) \in s /\ \A n \in s : n <= Max(s)
  BY <1>1, MaxIs
<1>3. k \in s => Max(s) = k
  <2> DEFINE m == Max(s)
  <2>1. m \in Nat /\ m <= k /\ (k \in s => k <= m)
    BY <1>1, <1>2
  <2> HIDE DEF m
  <2>2. k \in s => m = k
    BY <2>1
  <2>. QED
    BY <2>2 DEF m
<1>. QED
  BY <1>2, <1>3

\* The first k numbers, and the last of them.
LEMMA UptoIs ==
  ASSUME NEW n \in Nat, NEW k \in 1 .. n
  PROVE  1 .. k \in SUBSET (1 .. n) /\ 1 .. k # {} /\ Max(1 .. k) = k /\ (1 .. k) \ {k} = 1 .. k - 1
<1>1. 1 .. k \in SUBSET (1 .. k) /\ k \in 1 .. k /\ k \in Nat
  OBVIOUS
<1>2. 1 .. k \in SUBSET (1 .. n) /\ 1 .. k # {} /\ (1 .. k) \ {k} = 1 .. k - 1
  OBVIOUS
<1>3. Max(1 .. k) = k
  BY <1>1, <1>2, LargestIs
<1>. QED
  BY <1>2, <1>3

\* f[s] is what the steps for the elements of s make of the base, in their order.
IsFold(f, base, n, step) ==
  \A s \in SUBSET (1 .. n) : f[s] = IF s = {} THEN base ELSE step[<<f[s \ {Max(s)}], Max(s)>>]

\* The library's folds choose a function over the sets of indices: there is one.
LEMMA FoldExists ==
  ASSUME NEW A, NEW base \in A, NEW n \in Nat, NEW step \in [A \X (1 .. n) -> A]
  PROVE  \E f \in [SUBSET (1 .. n) -> A] : IsFold(f, base, n, step)
<1> DEFINE Folded(f, s) == IF s = {} THEN base ELSE step[<<f[s \ {Max(s)}], Max(s)>>]
           Exists(k) ==
             \E f \in [SUBSET (1 .. k) -> A] : \A s \in SUBSET (1 .. k) : f[s] = Folded(f, s)
           T == {k \in Nat : k <= n => Exists(k)}
<1>1. 0 \in T
  <2> DEFINE f == [s \in SUBSET (1 .. 0) |-> base]
  <2>1. f \in [SUBSET (1 .. 0) -> A] /\ \A s \in SUBSET (1 .. 0) : s = {} /\ f[s] = base
    OBVIOUS
  <2> HIDE DEF f
  <2>. QED
    BY <2>1
<1>2. ASSUME NEW k \in Nat, k \in T PROVE k + 1 \in T
  <2>1. SUFFICES ASSUME k + 1 <= n
                 PROVE  Exists(k + 1)
    <3> HIDE DEF Exists
    <3>. QED
      OBVIOUS
  <2>2. PICK f \in [SUBSET (1 .. k) -> A] : \A s \in SUBSET (1 .. k) : f[s] = Folded(f, s)
    <3>1. Exists(k)
      <4> HIDE DEF Exists
      <4>. QED
        BY <1>2, <2>1
    <3> HIDE DEF Folded
    <3>. QED
      BY <3>1
  <2> DEFINE g == [s \in SUBSET (1 .. k + 1) |-> Folded(f, s)]
  <2>3. ASSUME NEW s \in SUBSET (1 .. k + 1), s # {}
        PROVE  /\ s \ {Max(s)} \in SUBSET (1 .. k) /\ s \ {Max(s)} \in SUBSET (1 .. k + 1)
               /\ Max(s) \in 1 .. n
    <3> DEFINE m == Max(s)
    <3>1. m \in s /\ (k + 1 \in s => m = k + 1)
      BY <2>3, LargestIs
    <3> HIDE DEF m
    <3>2. ASSUME NEW j \in s \ {m} PROVE j \in 1 .. k
      BY <3>1
    <3>3. m \in 1 .. n
      BY <2>1, <3>1
    <3>4. s \ {m} \in SUBSET (1 .. k) /\ s \ {m} \in SUBSET (1 .. k + 1)
      BY <3>2
    <3>. QED
      BY <3>3, <3>4 DEF m
  <2>4. ASSUME NEW s \in SUBSET (1 .. k + 1) PROVE g[s] \in A /\ g[s] = Folded(g, s)
    <3>0. g[s] = Folded(f, s)
      OBVIOUS
    <3>1. CASE s = {}
      BY <3>0, <3>1
    <3>2. CASE s # {}
      <4> DEFINE r == s \ {Max(s)}
      <4>1. r \in SUBSET (1 .. k) /\ r \in SUBSET (1 .. k + 1) /\ Max(s) \in 1 .. n
        BY <2>3, <3>2
      <4>2. f[r] = Folded(f, r) /\ f[r] \in A
        BY <2>2, <4>1
      <4>3. g[r] = Folded(f, r)
        BY <4>1
      <4> HIDE DEF g
      <4>4. step[<<f[r], Max(s)>>] \in A
        BY <4>1, <4>2
      <4>5. g[r] = f[r]
        BY <4>2, <4>3
      <4>. QED
        BY <3>0, <3>2, <4>4, <4>5
    <3>. QED
      BY <3>1, <3>2
  <2>5. g \in [SUBSET (1 .. k + 1) -> A]
    <3> HIDE DEF Folded
    <3>1. \A s \in SUBSET (1 .. k + 1) : Folded(f, s) \in A
      BY <2>4
    <3>. QED
      BY <3>1
  <2> HIDE DEF g, Folded
  <2>. QED
    BY <2>4, <2>5
<1>3. n \in T
  <2> HIDE DEF T
  <2>. QED
    BY <1>1, <1>2, Induction
<1>4. Exists(n)
  <2> HIDE DEF Exists
  <2>. QED
    BY <1>3
<1>. QED
  BY <1>4 DEF IsFold

\* A list of ranges stays one.
LEMMA WidenType ==
  ASSUME NEW rs \in Seq(Wide), NEW x \in Wide
  PROVE  Widen(rs, x) \in Seq(Wide)
<1> DEFINE near == {i \in DOMAIN rs : Near(rs[i], x)}
<1>0. DOMAIN rs \in SUBSET Nat /\ \A k \in DOMAIN rs : rs[k] \in Wide
  BY ElementOfSeq, LenProperties
<1>1. CASE near = {}
  BY <1>1, AppendProperties DEF Widen
<1>2. CASE near # {}
  <2> DEFINE m == Min(near)
  <2>1. m \in near
    <3>1. near \in SUBSET Nat
      BY <1>0
    <3>. QED
      BY <1>2, <3>1, MinIs
  <2>2. m \in DOMAIN rs /\ Common(rs[m], x) \in Wide
    BY <1>0, <2>1, NearIs
  <2>3. Widen(rs, x) = [rs EXCEPT ![m] = Common(rs[m], x)]
    BY <1>2 DEF Widen
  <2> HIDE DEF m
  <2>. QED
    BY <2>2, <2>3, ExceptSeq
<1>. QED
  BY <1>1, <1>2

\* The ranges after each address of a list.
LEMMA WidenFold ==
  ASSUME NEW ips \in Seq(Wide)
  PROVE  \E after : /\ after[0] = <<>>
                    /\ \A k \in 1 .. Len(ips) : after[k] = Widen(after[k - 1], ips[k])
                    /\ FoldLeft(Widen, <<>>, ips) = after[Len(ips)]
<1> DEFINE n == Len(ips)
           A == Seq(Wide)
           Folded(f, s) == IF s = {} THEN <<>> ELSE Widen(f[s \ {Max(s)}], ips[Max(s)])
           it == CHOOSE f : f = [s \in SUBSET DOMAIN ips |-> Folded(f, s)]
<1>0. n \in Nat /\ DOMAIN ips = 1 .. n /\ \A k \in 1 .. n : ips[k] \in Wide
  BY LenProperties, ElementOfSeq
<1>1. PICK f \in [SUBSET (1 .. n) -> A] : \A s \in SUBSET (1 .. n) : f[s] = Folded(f, s)
  <2> DEFINE step == [p \in A \X (1 .. n) |-> Widen(p[1], ips[p[2]])]
  <2>1. step \in [A \X (1 .. n) -> A] /\ <<>> \in A
    <3>1. \A rs \in A, k \in 1 .. n : Widen(rs, ips[k]) \in A
      BY <1>0, WidenType
    <3>. QED
      BY <3>1
  <2>2. PICK f \in [SUBSET (1 .. n) -> A] :
          \A s \in SUBSET (1 .. n) :
            f[s] = IF s = {} THEN <<>> ELSE step[<<f[s \ {Max(s)}], Max(s)>>]
    <3> DEFINE none == <<>>
    <3>1. none \in A /\ n \in Nat /\ step \in [A \X (1 .. n) -> A]
      BY <1>0, <2>1
    <3> HIDE DEF step, A, n, it, Folded, none
    <3>2. \E g \in [SUBSET (1 .. n) -> A] : IsFold(g, none, n, step)
      BY <3>1, FoldExists
    <3>. QED
      BY <3>2 DEF IsFold, none
  <2>3. ASSUME NEW s \in SUBSET (1 .. n) PROVE f[s] = Folded(f, s)
    <3>1. CASE s # {}
      <4>1. Max(s) \in 1 .. n
        BY <1>0, <3>1, LargestIs
      <4>2. f[s \ {Max(s)}] \in A
        BY <2>2
      <4>3. step[<<f[s \ {Max(s)}], Max(s)>>] = Widen(f[s \ {Max(s)}], ips[Max(s)])
        BY <4>1, <4>2
      <4> HIDE DEF step
      <4>. QED
        BY <2>2, <3>1, <4>3
    <3>2. CASE s = {}
      BY <2>2, <3>2
    <3>. QED
      BY <3>1, <3>2
  <2> HIDE DEF Folded
  <2>. QED
    BY <2>2, <2>3
<1>2. it = [s \in SUBSET (1 .. n) |-> Folded(it, s)]
  <2> HIDE DEF Folded, n
  <2>1. f = [s \in SUBSET DOMAIN ips |-> Folded(f, s)]
    BY <1>0, <1>1
  <2>. QED
    BY <1>0, <2>1
<1>3. FoldLeft(Widen, <<>>, ips) = it[1 .. n]
  <2>1. FoldLeft(Widen, <<>>, ips) =
          (CHOOSE f1 : f1 = [s \in SUBSET DOMAIN ips |->
             IF s = {} THEN <<>> ELSE Widen(f1[s \ {Max(s)}], ips[Max(s)])])[DOMAIN ips]
    BY DEF FoldLeft, MapThenFoldSet
  <2>. QED
    BY <1>0, <2>1
<1> DEFINE after == [k \in 0 .. n |-> it[1 .. k]]
<1>4. after[0] = <<>> /\ after[n] = it[1 .. n]
  <2>1. 1 .. 0 = {} /\ {} \in SUBSET (1 .. n)
    OBVIOUS
  <2> HIDE DEF it, n
  <2>2. it[{}] = <<>>
    BY <1>2, <2>1
  <2>. QED
    BY <1>0, <2>1, <2>2
<1>5. ASSUME NEW k \in 1 .. n PROVE after[k] = Widen(after[k - 1], ips[k])
  <2>1. it[1 .. k] = Widen(it[1 .. k - 1], ips[k])
    <3>1. 1 .. k \in SUBSET (1 .. n) /\ 1 .. k # {} /\ Max(1 .. k) = k /\ (1 .. k) \ {k} = 1 .. k - 1
      BY <1>0, UptoIs
    <3> HIDE DEF it, n
    <3>. QED
      BY <1>2, <3>1
  <2>2. after[k] = it[1 .. k] /\ after[k - 1] = it[1 .. k - 1]
    <3>1. k \in 0 .. n /\ k - 1 \in 0 .. n
      BY <1>0
    <3> HIDE DEF it, n
    <3>. QED
      BY <3>1
  <2> HIDE DEF it, after
  <2>. QED
    BY <2>1, <2>2
<1> HIDE DEF it, after
<1>. QED
  BY <1>3, <1>4, <1>5

-------------------------------------------------------------------------------
(* Lists of lists *)

\* The elements of a list.
LEMMA ElementsAre ==
  ASSUME NEW S, NEW s \in Seq(S)
  PROVE  ToSet(s) \subseteq S
<1>1. \A i \in DOMAIN s : s[i] \in S
  BY LenProperties, ElementOfSeq
<1>. QED
  BY <1>1 DEF ToSet

\* The elements of two lists, one after the other.
LEMMA JoinIs ==
  ASSUME NEW S, NEW s \in Seq(S), NEW t \in Seq(S)
  PROVE  s \o t \in Seq(S) /\ ToSet(s \o t) = ToSet(s) \cup ToSet(t)
<1>1. /\ s \o t \in Seq(S) /\ Len(s \o t) = Len(s) + Len(t)
      /\ \A i \in 1 .. Len(s) + Len(t) :
           (s \o t)[i] = IF i <= Len(s) THEN s[i] ELSE t[i - Len(s)]
  BY ConcatProperties
<1>2. /\ DOMAIN s = 1 .. Len(s) /\ DOMAIN t = 1 .. Len(t)
      /\ DOMAIN (s \o t) = 1 .. Len(s) + Len(t)
      /\ Len(s) \in Nat /\ Len(t) \in Nat
  BY <1>1, LenProperties
<1>3. ASSUME NEW i \in DOMAIN (s \o t) PROVE (s \o t)[i] \in ToSet(s) \cup ToSet(t)
  BY <1>1, <1>2 DEF ToSet
<1>4. ASSUME NEW i \in DOMAIN s PROVE s[i] \in ToSet(s \o t)
  <2>1. i \in DOMAIN (s \o t) /\ (s \o t)[i] = s[i]
    BY <1>1, <1>2
  <2>. QED
    BY <2>1 DEF ToSet
<1>5. ASSUME NEW i \in DOMAIN t PROVE t[i] \in ToSet(s \o t)
  <2>1. Len(s) + i \in DOMAIN (s \o t) /\ (s \o t)[Len(s) + i] = t[i]
    BY <1>1, <1>2
  <2>. QED
    BY <2>1 DEF ToSet
<1>. QED
  BY <1>1, <1>3, <1>4, <1>5 DEF ToSet

\* Joining lists loses and adds nothing.
LEMMA FlattenIs ==
  ASSUME NEW S, NEW n \in Nat, NEW ss \in [1 .. n -> Seq(S)]
  PROVE  /\ FlattenSeq(ss) \in Seq(S)
         /\ \A x : x \in ToSet(FlattenSeq(ss)) <=> \E i \in 1 .. n : x \in ToSet(ss[i])
<1> DEFINE A == Seq(S)
           Joined(f, i) == IF i = 1 THEN ss[i] ELSE f[i - 1] \o ss[i]
           it == CHOOSE f : f = [i \in 1 .. n |-> Joined(f, i)]
<1>0. Len(ss) = n /\ ss \in Seq(A)
  BY IsASeq, LenProperties
<1>1. CASE n = 0
  <2>1. FlattenSeq(ss) = ss /\ ss = <<>>
    BY <1>0, <1>1 DEF FlattenSeq
  <2>2. ToSet(<<>>) = {} /\ <<>> \in Seq(S)
    BY DEF ToSet
  <2>. QED
    BY <1>1, <2>1, <2>2
<1>2. CASE n # 0
  <2>1. FlattenSeq(ss) = it[n]
    <3>1. Len(ss) # 0
      BY <1>0, <1>2
    <3>2. FlattenSeq(ss) = (CHOOSE f : f = [i \in 1 .. Len(ss) |->
                               IF i = 1 THEN ss[i] ELSE f[i - 1] \o ss[i]])[Len(ss)]
      BY <3>1 DEF FlattenSeq
    <3>. QED
      BY <1>0, <3>2
  <2>2. PICK f \in [SUBSET (1 .. n) -> A] :
          \A s \in SUBSET (1 .. n) :
            f[s] = IF s = {} THEN <<>> ELSE f[s \ {Max(s)}] \o ss[Max(s)]
    <3> DEFINE step == [p \in A \X (1 .. n) |-> p[1] \o ss[p[2]]]
               none == <<>>
    <3>1. none \in A /\ step \in [A \X (1 .. n) -> A]
      <4>1. \A s \in A, k \in 1 .. n : s \o ss[k] \in A
        BY ConcatProperties
      <4>. QED
        BY <4>1
    <3>2. PICK f \in [SUBSET (1 .. n) -> A] : IsFold(f, none, n, step)
      <4> HIDE DEF step, none, it, A
      <4>. QED
        BY <3>1, FoldExists
    <3>3. ASSUME NEW s \in SUBSET (1 .. n), s # {}
          PROVE  f[s] = f[s \ {Max(s)}] \o ss[Max(s)]
      <4>1. Max(s) \in 1 .. n /\ f[s \ {Max(s)}] \in A
        BY <3>2, <3>3, LargestIs
      <4>2. step[<<f[s \ {Max(s)}], Max(s)>>] = f[s \ {Max(s)}] \o ss[Max(s)]
        BY <4>1
      <4> HIDE DEF step
      <4>. QED
        BY <3>2, <3>3, <4>2 DEF IsFold
    <3>. QED
      BY <3>2, <3>3 DEF IsFold
  <2>3. it = [i \in 1 .. n |-> Joined(it, i)]
    <3> DEFINE g == [i \in 1 .. n |-> f[1 .. i]]
    <3>1. ASSUME NEW i \in 1 .. n PROVE g[i] = Joined(g, i)
      <4>1. /\ 1 .. i \in SUBSET (1 .. n) /\ 1 .. i # {} /\ Max(1 .. i) = i
            /\ (1 .. i) \ {i} = 1 .. i - 1
        BY UptoIs
      <4>2. f[1 .. i] = f[1 .. i - 1] \o ss[i]
        BY <2>2, <4>1
      <4>3. CASE i = 1
        <5>1. 1 .. i - 1 = {} /\ {} \in SUBSET (1 .. n)
          BY <4>3
        <5>2. f[1 .. i - 1] = <<>>
          BY <2>2, <5>1
        <5>3. ss[i] \in Seq(S)
          OBVIOUS
        <5>4. <<>> \o ss[i] = ss[i]
          BY <5>3, ConcatEmptySeq
        <5>. QED
          BY <4>2, <4>3, <5>2, <5>4
      <4>4. CASE i # 1
        <5>1. i - 1 \in 1 .. n
          BY <4>4
        <5>2. g[i] = f[1 .. i] /\ g[i - 1] = f[1 .. i - 1]
          BY <5>1
        <5> HIDE DEF g
        <5>. QED
          BY <4>2, <4>4, <5>2
      <4>. QED
        BY <4>3, <4>4
    <3> HIDE DEF g, Joined
    <3>2. g = [i \in 1 .. n |-> Joined(g, i)]
      <4>1. g = [i \in 1 .. n |-> g[i]]
        BY DEF g
      <4>. QED
        BY <3>1, <4>1
    <3>. QED
      BY <3>2
  <2> HIDE DEF it
  <2>4. \A i \in 1 .. n : it[i] = IF i = 1 THEN ss[i] ELSE it[i - 1] \o ss[i]
    BY <2>3
  <2> DEFINE Holds(s, k) == /\ s \in Seq(S)
                            /\ \A x : x \in ToSet(s) <=> \E i \in 1 .. k : x \in ToSet(ss[i])
             T == {k \in Nat : k \in 1 .. n => Holds(it[k], k)}
  <2>5. 0 \in T
    OBVIOUS
  <2>6. ASSUME NEW k \in Nat, k \in T, k + 1 \in 1 .. n PROVE Holds(it[k + 1], k + 1)
    <3>0. ss[k + 1] \in Seq(S)
      BY <2>6
    <3>1. CASE k = 0
      <4>1. it[k + 1] = ss[k + 1] /\ 1 .. k + 1 = {k + 1}
        BY <2>4, <2>6, <3>1
      <4>. QED
        BY <3>0, <4>1
    <3>2. CASE k # 0
      <4>1. Holds(it[k], k)
        <5> HIDE DEF Holds
        <5>. QED
          BY <2>6, <3>2
      <4>2. it[k + 1] = it[k] \o ss[k + 1]
        <5>1. k + 1 - 1 = k /\ k + 1 # 1
          BY <3>2
        <5>2. PICK j \in 1 .. n : j = k + 1
          BY <2>6
        <5>3. it[j] = IF j = 1 THEN ss[j] ELSE it[j - 1] \o ss[j]
          BY <2>4
        <5>4. j # 1 /\ j - 1 = k
          BY <5>1, <5>2
        <5>. QED
          BY <5>2, <5>3, <5>4
      <4>3. /\ it[k + 1] \in Seq(S)
            /\ \A x : x \in ToSet(it[k + 1]) <=> x \in ToSet(it[k]) \/ x \in ToSet(ss[k + 1])
        <5>1. /\ it[k] \o ss[k + 1] \in Seq(S)
              /\ ToSet(it[k] \o ss[k + 1]) = ToSet(it[k]) \cup ToSet(ss[k + 1])
          BY <3>0, <4>1, JoinIs
        <5>. QED
          BY <4>2, <5>1
      <4>4. \A i : i \in 1 .. k + 1 <=> i \in 1 .. k \/ i = k + 1
        OBVIOUS
      <4>. QED
        BY <4>1, <4>3, <4>4
    <3>. QED
      BY <3>1, <3>2
  <2>7. Holds(it[n], n)
    <3> HIDE DEF Holds
    <3>1. \A k \in Nat : k \in T => k + 1 \in T
      <4>1. ASSUME NEW k \in Nat, k \in T PROVE k + 1 \in T
        <5>1. CASE k + 1 \in 1 .. n
          BY <2>6, <4>1, <5>1
        <5>2. CASE k + 1 \notin 1 .. n
          BY <5>2
        <5>. QED
          BY <5>1, <5>2
      <4>. QED
        BY <4>1
    <3>2. Nat \subseteq T
      <4> HIDE DEF T
      <4>. QED
        BY <2>5, <3>1, Induction
    <3>. QED
      BY <1>2, <3>2
  <2>. QED
    BY <2>1, <2>7
<1>. QED
  BY <1>1, <1>2

\* What is kept of a list.
LEMMA KeptIs ==
  ASSUME NEW S, NEW s \in Seq(S), NEW K
  PROVE  Kept(s, K) \in Seq(S) /\ ToSet(Kept(s, K)) = ToSet(s) \cap K
<1> DEFINE parts == [i \in DOMAIN s |-> IF s[i] \in K THEN <<s[i]>> ELSE <<>>]
<1>0. Len(s) \in Nat /\ DOMAIN s = 1 .. Len(s) /\ \A i \in DOMAIN s : s[i] \in S
  BY LenProperties, ElementOfSeq
<1>1. parts \in [1 .. Len(s) -> Seq(S)]
  BY <1>0
<1>2. \A x : ToSet(<<x>>) = {x} /\ ToSet(<<>>) = {}
  BY DEF ToSet
<1>3. \A i \in DOMAIN s : \A x : x \in ToSet(parts[i]) <=> x = s[i] /\ s[i] \in K
  BY <1>2
<1>4. Kept(s, K) = FlattenSeq(parts)
  BY DEF Kept
<1> HIDE DEF parts
<1>5. /\ Kept(s, K) \in Seq(S)
      /\ \A x : x \in ToSet(Kept(s, K)) <=> \E i \in 1 .. Len(s) : x \in ToSet(parts[i])
  BY <1>0, <1>1, <1>4, FlattenIs
<1>6. \A x : x \in ToSet(s) <=> \E i \in DOMAIN s : x = s[i]
  BY DEF ToSet
<1>7. \A x : x \in ToSet(Kept(s, K)) <=> x \in ToSet(s) /\ x \in K
  <2>1. ASSUME NEW x, x \in ToSet(Kept(s, K)) PROVE x \in ToSet(s) /\ x \in K
    <3>1. PICK i \in DOMAIN s : x \in ToSet(parts[i])
      BY <1>0, <1>5, <2>1
    <3>. QED
      BY <1>3, <1>6, <3>1
  <2>2. ASSUME NEW x, x \in ToSet(s), x \in K PROVE x \in ToSet(Kept(s, K))
    <3>1. PICK i \in DOMAIN s : x = s[i]
      BY <1>6, <2>2
    <3>2. x \in ToSet(parts[i])
      BY <1>3, <2>2, <3>1
    <3>. QED
      BY <1>0, <1>5, <3>2
  <2>. QED
    BY <2>1, <2>2
<1>. QED
  BY <1>5, <1>7

-------------------------------------------------------------------------------
(* The ranges of the addresses of a cluster *)

\* Groups are classes.
LEMMA AlikeIs ==
  \A r, s, t : /\ Alike(r, r)
               /\ Alike(r, s) => Alike(s, r)
               /\ Alike(r, s) /\ Alike(s, t) => Alike(r, t)
BY DEF Alike

\* The words a range can be: as many whole segments as the threshold or more.
RangeWords == Wide \cap WholeWords

\* A range that is cut to whole segments stays in its group.
LEMMA AlignWide ==
  ASSUME NEW r \in Wide
  PROVE  Align(r) \in RangeWords /\ Alike(Align(r), r)
<1>1. r \in Words /\ Len(r) \in Nat /\ Len(r) >= Threshold
  BY DEF Wide, Words
<1>2. /\ Align(r) \in WholeWords /\ Align(r) \in Words /\ IsPrefix(Align(r), r)
      /\ Len(Align(r)) >= Threshold /\ Len(Align(r)) \in Nat
  BY <1>1, AlignIs DEF WholeWords, Words
<1>3. \A i \in 1 .. Len(Align(r)) : Align(r)[i] = r[i]
  BY <1>1, <1>2, PrefixIs
<1>4. Alike(Align(r), r)
  <2>1. \A i \in 1 .. Threshold : i \in 1 .. Len(Align(r))
    BY <1>2, SegmentsIs
  <2>. QED
    BY <1>3, <2>1 DEF Alike
<1>. QED
  BY <1>2, <1>4 DEF RangeWords, Wide

\* Ranges that stand for the groups still do when each is cut to whole segments.
LEMMA AlignGroups ==
  ASSUME NEW rs \in Seq(Wide), NEW I, Groups(rs, I, Words)
  PROVE  LET cut == [i \in DOMAIN rs |-> Align(rs[i])]
         IN cut \in Seq(RangeWords) /\ Groups(cut, I, WholeWords)
<1> DEFINE cut == [i \in DOMAIN rs |-> Align(rs[i])]
<1>1. Len(rs) \in Nat /\ DOMAIN rs = 1 .. Len(rs) /\ \A k \in DOMAIN rs : rs[k] \in Wide
  BY ElementOfSeq, LenProperties
<1>2. /\ DOMAIN cut = DOMAIN rs
      /\ \A k \in DOMAIN rs : cut[k] \in RangeWords /\ Alike(cut[k], rs[k])
  BY <1>1, AlignWide
<1>3. cut \in Seq(RangeWords)
  <2>1. cut \in [1 .. Len(rs) -> RangeWords]
    BY <1>1, <1>2
  <2> HIDE DEF cut
  <2>. QED
    BY <1>1, <2>1, IsASeq
<1>4. \A k \in DOMAIN rs, q \in WholeWords : IsPrefix(q, cut[k]) <=> IsPrefix(q, rs[k])
  BY <1>1, AlignIs DEF Wide
<1>5. \A k \in DOMAIN rs : \A x : Alike(cut[k], x) <=> Alike(rs[k], x)
  BY <1>2, AlikeIs
<1>6. \A k, l \in DOMAIN rs : Alike(cut[k], cut[l]) <=> Alike(rs[k], rs[l])
  BY <1>2, AlikeIs
<1>7. WholeWords \subseteq Words
  BY DEF WholeWords
<1> HIDE DEF cut
<1>8. Groups(cut, I, WholeWords)
  <2>1. \A k, l \in DOMAIN cut : Alike(cut[k], cut[l]) => k = l
    BY <1>2, <1>6 DEF Groups
  <2>2. \A ip \in I : \E k \in DOMAIN cut : Alike(cut[k], ip)
    BY <1>2, <1>5 DEF Groups
  <2>3. \A k \in DOMAIN cut : \E ip \in I : Alike(cut[k], ip)
    BY <1>2, <1>5 DEF Groups
  <2>4. \A k \in DOMAIN cut, q \in WholeWords :
          IsPrefix(q, cut[k]) <=> \A ip \in I : Alike(cut[k], ip) => IsPrefix(q, ip)
    BY <1>2, <1>4, <1>5, <1>7 DEF Groups
  <2>. QED
    BY <2>1, <2>2, <2>3, <2>4 DEF Groups
<1>. QED
  BY <1>3, <1>8 DEF cut

\* The ranges of a list of addresses, in whatever order it has them.
LEMMA RangesOfList ==
  ASSUME NEW ips \in Seq(Wide)
  PROVE  /\ CalculateMinimalIpRange(ips) \in Seq(RangeWords)
         /\ Groups(CalculateMinimalIpRange(ips), ToSet(ips), WholeWords)
<1> DEFINE n == Len(ips)
           I(k) == {ips[i] : i \in 1 .. k}
<1>0. n \in Nat /\ DOMAIN ips = 1 .. n /\ \A k \in 1 .. n : ips[k] \in Wide
  BY LenProperties, ElementOfSeq
<1>1. PICK after : /\ after[0] = <<>>
                   /\ \A k \in 1 .. n : after[k] = Widen(after[k - 1], ips[k])
                   /\ FoldLeft(Widen, <<>>, ips) = after[n]
  BY WidenFold
<1> DEFINE Holds(k) == after[k] \in Seq(Wide) /\ Groups(after[k], I(k), Words)
           T == {k \in Nat : k \in 0 .. n => Holds(k)}
<1> HIDE DEF n
<1>2. Holds(0)
  <2>1. I(0) = {} /\ <<>> \in Seq(Wide) /\ DOMAIN <<>> = {}
    OBVIOUS
  <2>2. Groups(<<>>, {}, Words)
    BY <2>1 DEF Groups
  <2> HIDE DEF I
  <2>. QED
    BY <1>1, <2>1, <2>2
<1>3. ASSUME NEW k \in Nat, k + 1 \in 0 .. n, Holds(k) PROVE Holds(k + 1)
  <2>1. PICK j \in 1 .. n : j = k + 1 /\ j - 1 = k
    BY <1>0, <1>3
  <2>2. after[j] = Widen(after[k], ips[j]) /\ ips[j] \in Wide
    BY <1>0, <1>1, <2>1
  <2>3. I(k) \in SUBSET Wide
    BY <1>0, <1>3
  <2>4. I(j) = I(k) \cup {ips[j]}
    <3>1. \A i : i \in 1 .. j <=> i \in 1 .. k \/ i = j
      BY <2>1
    <3>. QED
      BY <3>1
  <2>5. /\ Widen(after[k], ips[j]) \in Seq(Wide)
        /\ Groups(Widen(after[k], ips[j]), I(k) \cup {ips[j]}, Words)
    <3> HIDE DEF I
    <3>. QED
      BY <1>3, <2>2, <2>3, WidenStep
  <2> HIDE DEF I
  <2>. QED
    BY <2>1, <2>2, <2>4, <2>5
<1>4. Holds(n)
  <2> HIDE DEF Holds
  <2>1. 0 \in T
    BY <1>2
  <2>2. ASSUME NEW k \in Nat, k \in T PROVE k + 1 \in T
    <3>1. CASE k + 1 \in 0 .. n
      <4>1. k \in 0 .. n
        BY <1>0, <3>1
      <4>. QED
        BY <1>3, <2>2, <3>1, <4>1
    <3>2. CASE k + 1 \notin 0 .. n
      BY <3>2
    <3>. QED
      BY <3>1, <3>2
  <2>3. Nat \subseteq T
    <3> HIDE DEF T
    <3>. QED
      BY <2>1, <2>2, Induction
  <2>. QED
    BY <1>0, <2>3
<1>5. I(n) = ToSet(ips)
  BY <1>0 DEF ToSet
<1>6. CalculateMinimalIpRange(ips) = [i \in DOMAIN after[n] |-> Align(after[n][i])]
  BY <1>1 DEF CalculateMinimalIpRange
<1> HIDE DEF I
<1>. QED
  BY <1>4, <1>5, <1>6, AlignGroups

\* Ranges of ranges stand for the addresses.
LEMMA GroupsCompose ==
  ASSUME NEW rs, NEW ss, NEW all, NEW I, NEW J, NEW Q,
         Groups(rs, I, Q), Groups(ss, J, Q), Groups(all, ToSet(rs) \cup ToSet(ss), Q)
  PROVE  Groups(all, I \cup J, Q)
<1> DEFINE Both == ToSet(rs) \cup ToSet(ss)
<1>0. \A x : x \in Both <=> (\E k \in DOMAIN rs : x = rs[k]) \/ (\E k \in DOMAIN ss : x = ss[k])
  BY DEF ToSet
<1>1. ASSUME NEW ip \in I \cup J PROVE \E c \in Both : Alike(c, ip)
  BY <1>0 DEF Groups
<1>2. ASSUME NEW c \in Both PROVE \E ip \in I \cup J : Alike(c, ip)
  BY <1>0 DEF Groups
<1>3. ASSUME NEW c \in Both, NEW ip \in I \cup J, Alike(c, ip), NEW q \in Q, IsPrefix(q, c),
             \A d \in Both : Alike(d, c) => IsPrefix(q, d)
      PROVE  IsPrefix(q, ip)
  <2>1. CASE ip \in I
    <3>1. PICK k \in DOMAIN rs : Alike(rs[k], ip)
      BY <2>1 DEF Groups
    <3>2. IsPrefix(q, rs[k])
      <4>1. Alike(rs[k], c) /\ rs[k] \in Both
        BY <1>0, <1>3, <3>1, AlikeIs
      <4>. QED
        BY <1>3, <4>1
    <3>. QED
      BY <2>1, <3>1, <3>2 DEF Groups
  <2>2. CASE ip \in J
    <3>1. PICK k \in DOMAIN ss : Alike(ss[k], ip)
      BY <2>2 DEF Groups
    <3>2. IsPrefix(q, ss[k])
      <4>1. Alike(ss[k], c) /\ ss[k] \in Both
        BY <1>0, <1>3, <3>1, AlikeIs
      <4>. QED
        BY <1>3, <4>1
    <3>. QED
      BY <2>2, <3>1, <3>2 DEF Groups
  <2>. QED
    BY <2>1, <2>2
<1>4. ASSUME NEW c \in Both, NEW q \in Q,
             \A ip \in I \cup J : Alike(c, ip) => IsPrefix(q, ip)
      PROVE  IsPrefix(q, c)
  BY <1>0, <1>4 DEF Groups
<1>5. /\ \A k, l \in DOMAIN all : Alike(all[k], all[l]) => k = l
      /\ \A c \in Both : \E k \in DOMAIN all : Alike(all[k], c)
      /\ \A k \in DOMAIN all : \E c \in Both : Alike(all[k], c)
      /\ \A k \in DOMAIN all, q \in Q :
           IsPrefix(q, all[k]) <=> \A c \in Both : Alike(all[k], c) => IsPrefix(q, c)
  BY DEF Groups
<1> HIDE DEF Both
<1>6. \A ip \in I \cup J : \E k \in DOMAIN all : Alike(all[k], ip)
  BY <1>1, <1>5, AlikeIs
<1>7. \A k \in DOMAIN all : \E ip \in I \cup J : Alike(all[k], ip)
  BY <1>2, <1>5, AlikeIs
<1>8. ASSUME NEW k \in DOMAIN all, NEW q \in Q, IsPrefix(q, all[k]),
             NEW ip \in I \cup J, Alike(all[k], ip)
      PROVE  IsPrefix(q, ip)
  <2>1. PICK c \in Both : Alike(c, ip)
    BY <1>1
  <2>2. \A d \in Both : Alike(d, c) => IsPrefix(q, d)
    <3>1. \A d \in Both : Alike(all[k], d) => IsPrefix(q, d)
      BY <1>5, <1>8
    <3>. QED
      BY <1>8, <2>1, <3>1, AlikeIs
  <2>3. IsPrefix(q, c)
    BY <2>2, AlikeIs
  <2>. QED
    BY <1>3, <2>1, <2>2, <2>3
<1>9. ASSUME NEW k \in DOMAIN all, NEW q \in Q,
             \A ip \in I \cup J : Alike(all[k], ip) => IsPrefix(q, ip)
      PROVE  IsPrefix(q, all[k])
  <2>1. ASSUME NEW c \in Both, Alike(all[k], c) PROVE IsPrefix(q, c)
    <3>1. \A ip \in I \cup J : Alike(c, ip) => IsPrefix(q, ip)
      BY <1>9, <2>1, AlikeIs
    <3>. QED
      BY <1>4, <3>1
  <2>. QED
    BY <1>5, <2>1
<1>. QED
  BY <1>5, <1>6, <1>7, <1>8, <1>9 DEF Groups

\* Services and pods apart, and then their ranges together.
LEMMA RangesOfCluster ==
  ASSUME NEW svcs \in Seq(Wide), NEW pods \in Seq(Wide)
  PROVE  LET ranges == CalculateMinimalIpRange(
                         CalculateMinimalIpRange(svcs) \o CalculateMinimalIpRange(pods))
         IN ranges \in Seq(RangeWords) /\ Groups(ranges, ToSet(svcs) \cup ToSet(pods), WholeWords)
<1> DEFINE rs == CalculateMinimalIpRange(svcs)
           ss == CalculateMinimalIpRange(pods)
<1>1. /\ rs \in Seq(RangeWords) /\ Groups(rs, ToSet(svcs), WholeWords)
      /\ ss \in Seq(RangeWords) /\ Groups(ss, ToSet(pods), WholeWords)
  BY RangesOfList
<1> HIDE DEF rs, ss
<1>2. rs \o ss \in Seq(RangeWords) /\ ToSet(rs \o ss) = ToSet(rs) \cup ToSet(ss)
  BY <1>1, JoinIs
<1>3. rs \o ss \in Seq(Wide)
  <2>1. RangeWords \subseteq Wide
    BY DEF RangeWords
  <2>. QED
    BY <1>2, <2>1, SeqMonotonic
<1>4. /\ CalculateMinimalIpRange(rs \o ss) \in Seq(RangeWords)
      /\ Groups(CalculateMinimalIpRange(rs \o ss), ToSet(rs) \cup ToSet(ss), WholeWords)
  BY <1>2, <1>3, RangesOfList
<1>5. Groups(CalculateMinimalIpRange(rs \o ss), ToSet(svcs) \cup ToSet(pods), WholeWords)
  BY <1>1, <1>4, GroupsCompose
<1>. QED
  BY <1>4, <1>5 DEF rs, ss

-------------------------------------------------------------------------------
(* The API server is left out *)

\* An address is a word of full length.
LEMMA AddressIs ==
  \A ip \in AllAddresses :
    /\ ip \in Words /\ ip \in Wide /\ Len(ip) = Bits /\ DOMAIN ip = 1 .. Bits /\ ip # <<>>
    /\ \A i \in 1 .. Bits : ip[i] \in {0, 1}
<1> SUFFICES ASSUME NEW ip \in AllAddresses
             PROVE  /\ ip \in Words /\ ip \in Wide /\ Len(ip) = Bits /\ DOMAIN ip = 1 .. Bits
                    /\ ip # <<>> /\ \A i \in 1 .. Bits : ip[i] \in {0, 1}
  OBVIOUS
<1>1. Bits \in Nat /\ Threshold \in Nat \ {0} /\ Threshold <= Bits
  BY SegmentsIs
<1>2. ip \in [1 .. Bits -> {0, 1}]
  BY DEF AllAddresses
<1> HIDE DEF Bits
<1>3. ip \in Words /\ Len(ip) = Bits
  BY <1>1, <1>2, IsASeq, LenProperties DEF Words
<1>4. ip # <<>>
  BY <1>1, <1>3
<1>. QED
  BY <1>1, <1>2, <1>3, <1>4 DEF Wide

\* The ranges beside an address cover what the range does but the address, each part once.
LEMMA BesideIs ==
  ASSUME NEW r \in Words, NEW ip \in AllAddresses, IsPrefix(r, ip)
  PROVE  LET beside == ExcludeIpFromRange(r, ip)
         IN /\ beside \in Seq(Words)
            /\ \A a \in AllAddresses :
                 /\ (\E w \in ToSet(beside) : IsPrefix(w, a)) <=> IsPrefix(r, a) /\ a # ip
                 /\ \A v, w \in ToSet(beside) : IsPrefix(v, a) /\ IsPrefix(w, a) => v = w
<1> DEFINE l == Len(r)
           Beside(i) == Append(SubSeq(ip, 1, i - 1), 1 - ip[i])
           beside == ExcludeIpFromRange(r, ip)
           Over(i, a) == (\A j \in 1 .. i - 1 : ip[j] = a[j]) /\ a[i] = 1 - ip[i]
<1>0. /\ Bits \in Nat /\ ip \in Words /\ Len(ip) = Bits
      /\ \A i \in 1 .. Bits : ip[i] \in {0, 1}
  BY SegmentsIs, AddressIs
<1>1. l \in 0 .. Bits /\ \A i \in 1 .. l : r[i] = ip[i]
  BY <1>0, PrefixIs DEF Words
<1> HIDE DEF l
<1>2. ASSUME NEW i \in 1 .. Bits
      PROVE  /\ Beside(i) \in Words /\ Len(Beside(i)) = i
             /\ \A j \in 1 .. i - 1 : Beside(i)[j] = ip[j]
             /\ Beside(i)[i] = 1 - ip[i]
  <2>1. /\ SubSeq(ip, 1, i - 1) \in Words /\ Len(SubSeq(ip, 1, i - 1)) = i - 1
        /\ \A j \in 1 .. i - 1 : SubSeq(ip, 1, i - 1)[j] = ip[j]
    <3>1. i - 1 \in 0 .. Len(ip)
      BY <1>0
    <3>. QED
      BY <1>0, <3>1, CutIs
  <2>2. 1 - ip[i] \in {0, 1}
    BY <1>0
  <2>. QED
    BY <2>1, <2>2, AppendProperties DEF Words
<1>3. ASSUME NEW i \in 1 .. Bits, NEW a \in AllAddresses
      PROVE  IsPrefix(Beside(i), a) <=> Over(i, a)
  <2>1. a \in Words /\ Len(a) = Bits
    BY AddressIs
  <2>2. IsPrefix(Beside(i), a) <=> \A j \in 1 .. i : Beside(i)[j] = a[j]
    <3> DEFINE w == Beside(i)
    <3>1. w \in Words /\ Len(w) = i /\ i <= Len(a)
      BY <1>0, <1>2, <2>1
    <3> HIDE DEF w
    <3>2. IsPrefix(w, a) <=> \A j \in 1 .. i : w[j] = a[j]
      BY <2>1, <3>1, PrefixIs
    <3>. QED
      BY <3>2 DEF w
  <2>3. \A j : j \in 1 .. i <=> j \in 1 .. i - 1 \/ j = i
    OBVIOUS
  <2> HIDE DEF Beside
  <2>. QED
    BY <1>2, <2>2, <2>3
<1>4. ASSUME NEW i \in 1 .. Bits, NEW j \in 1 .. Bits, NEW a, Over(i, a), Over(j, a)
      PROVE  i = j
  <2>1. ip[i] # 1 - ip[i] /\ ip[j] # 1 - ip[j]
    BY <1>0
  <2>2. ~(i < j)
    <3>1. i < j => i \in 1 .. j - 1
      OBVIOUS
    <3>. QED
      BY <1>4, <2>1, <3>1
  <2>3. ~(j < i)
    <3>1. j < i => j \in 1 .. i - 1
      OBVIOUS
    <3>. QED
      BY <1>4, <2>1, <3>1
  <2>. QED
    BY <2>2, <2>3
<1>5. beside \in Seq(Words) /\ ToSet(beside) = {Beside(i) : i \in l + 1 .. Bits}
  <2>1. beside = [n \in 1 .. Bits - l |-> Beside(l + n)]
    BY DEF ExcludeIpFromRange, l
  <2>2. Bits - l \in Nat /\ \A n \in 1 .. Bits - l : l + n \in l + 1 .. Bits /\ l + n \in 1 .. Bits
    BY <1>0, <1>1
  <2>3. beside \in [1 .. Bits - l -> Words]
    <3> HIDE DEF Beside, beside
    <3>1. \A n \in 1 .. Bits - l : Beside(l + n) \in Words
      BY <1>2, <2>2
    <3>. QED
      BY <2>1, <3>1
  <2>4. \A i \in l + 1 .. Bits : i - l \in 1 .. Bits - l /\ l + (i - l) = i
    BY <1>0, <1>1
  <2>5. beside \in Seq(Words)
    <3> HIDE DEF beside
    <3>. QED
      BY <2>2, <2>3, IsASeq
  <2>6. DOMAIN beside = 1 .. Bits - l /\ \A n \in 1 .. Bits - l : beside[n] = Beside(l + n)
    <3> HIDE DEF Beside, beside
    <3>. QED
      BY <2>1
  <2> HIDE DEF Beside, beside
  <2>7. ASSUME NEW x PROVE x \in ToSet(beside) <=> \E i \in l + 1 .. Bits : x = Beside(i)
    <3>1. x \in ToSet(beside) <=> \E n \in 1 .. Bits - l : x = Beside(l + n)
      BY <2>6 DEF ToSet
    <3>2. ASSUME NEW n \in 1 .. Bits - l, x = Beside(l + n)
          PROVE  \E i \in l + 1 .. Bits : x = Beside(i)
      BY <2>2, <3>2
    <3>3. ASSUME NEW i \in l + 1 .. Bits, x = Beside(i)
          PROVE  \E n \in 1 .. Bits - l : x = Beside(l + n)
      BY <2>4, <3>3
    <3>. QED
      BY <3>1, <3>2, <3>3
  <2>. QED
    BY <2>5, <2>7
<1>6. l + 1 .. Bits \subseteq 1 .. Bits
  BY <1>0, <1>1
<1> HIDE DEF Beside, beside
<1>7. ASSUME NEW a \in AllAddresses, NEW i \in l + 1 .. Bits, Over(i, a)
      PROVE  IsPrefix(r, a) /\ a # ip
  <2>1. a \in Words /\ Len(a) = Bits
    BY AddressIs
  <2>2. \A j \in 1 .. l : r[j] = a[j]
    BY <1>0, <1>1, <1>7
  <2>3. IsPrefix(r, a)
    BY <1>0, <1>1, <2>1, <2>2, PrefixIs DEF l
  <2>4. a # ip
    BY <1>0, <1>6, <1>7
  <2>. QED
    BY <2>3, <2>4
<1>8. ASSUME NEW a \in AllAddresses, IsPrefix(r, a), a # ip
      PROVE  \E i \in l + 1 .. Bits : Over(i, a)
  <2> DEFINE D == {i \in 1 .. Bits : a[i] # ip[i]}
             m == Min(D)
  <2>1. a \in Words /\ Len(a) = Bits /\ \A i \in 1 .. Bits : a[i] \in {0, 1}
    BY AddressIs
  <2>2. \A i \in 1 .. l : r[i] = a[i]
    BY <1>8, <2>1, PrefixIs DEF l
  <2>3. D # {}
    <3>1. ASSUME D = {} PROVE a = ip
      <4>1. a \in [1 .. Bits -> {0, 1}] /\ ip \in [1 .. Bits -> {0, 1}]
        BY DEF AllAddresses
      <4>2. \A i \in 1 .. Bits : a[i] = ip[i]
        BY <3>1
      <4>3. a = [i \in 1 .. Bits |-> a[i]] /\ ip = [i \in 1 .. Bits |-> ip[i]]
        BY <4>1
      <4> HIDE DEF D
      <4>4. [i \in 1 .. Bits |-> a[i]] = [i \in 1 .. Bits |-> ip[i]]
        BY <4>2
      <4>. QED
        BY <4>3, <4>4, Zenon
    <3>. QED
      BY <1>8, <3>1
  <2>4. m \in D /\ \A i \in D : m <= i
    <3>1. D \in SUBSET Nat
      OBVIOUS
    <3>. QED
      BY <2>3, <3>1, MinIs
  <2> HIDE DEF m
  <2>5. m \notin 1 .. l
    BY <1>1, <2>2, <2>4
  <2>6. m \in l + 1 .. Bits
    BY <1>0, <1>1, <2>4, <2>5
  <2>7. ASSUME NEW j \in 1 .. m - 1 PROVE ip[j] = a[j]
    <3>1. m \in 1 .. Bits
      BY <2>4
    <3>2. j \in 1 .. Bits /\ ~(m <= j)
      BY <1>0, <3>1
    <3>. QED
      BY <2>4, <3>2
  <2>8. a[m] = 1 - ip[m]
    BY <1>0, <2>1, <2>4
  <2>. QED
    BY <2>6, <2>7, <2>8
<1> HIDE DEF Over
<1>9. ASSUME NEW a \in AllAddresses
      PROVE  /\ (\E w \in ToSet(beside) : IsPrefix(w, a)) <=> IsPrefix(r, a) /\ a # ip
             /\ \A v, w \in ToSet(beside) : IsPrefix(v, a) /\ IsPrefix(w, a) => v = w
  <2>1. \A w \in ToSet(beside) : \E i \in l + 1 .. Bits : w = Beside(i)
    BY <1>5
  <2>2. \A i \in l + 1 .. Bits : Beside(i) \in ToSet(beside) /\ (IsPrefix(Beside(i), a) <=> Over(i, a))
    BY <1>3, <1>5, <1>6
  <2>3. (\E w \in ToSet(beside) : IsPrefix(w, a)) <=> \E i \in l + 1 .. Bits : Over(i, a)
    BY <2>1, <2>2
  <2>4. ASSUME NEW v \in ToSet(beside), NEW w \in ToSet(beside), IsPrefix(v, a), IsPrefix(w, a)
        PROVE  v = w
    <3>1. PICK i \in l + 1 .. Bits : v = Beside(i)
      BY <2>1
    <3>2. PICK j \in l + 1 .. Bits : w = Beside(j)
      BY <2>1
    <3>3. i = j
      BY <1>4, <1>6, <2>2, <2>4, <3>1, <3>2
    <3>. QED
      BY <3>1, <3>2, <3>3
  <2>. QED
    BY <1>7, <1>8, <2>3, <2>4
<1>. QED
  BY <1>5, <1>9 DEF beside

\* What a range of the cluster becomes when the API server may be in it.
LEMMA WithoutIs ==
  ASSUME NEW r \in Words, NEW api \in AllAddresses \cup {<<>>}
  PROVE  LET parts == IF HoldsApiServer(r, api) THEN ExcludeIpFromRange(r, api) ELSE <<r>>
         IN /\ parts \in Seq(Words)
            /\ \A a \in AllAddresses :
                 /\ (\E w \in ToSet(parts) : IsPrefix(w, a)) <=> IsPrefix(r, a) /\ a # api
                 /\ \A v, w \in ToSet(parts) : IsPrefix(v, a) /\ IsPrefix(w, a) => v = w
<1>1. CASE HoldsApiServer(r, api)
  <2>1. api \in AllAddresses /\ IsPrefix(r, api)
    BY <1>1 DEF HoldsApiServer
  <2>. QED
    BY <1>1, <2>1, BesideIs
<1>2. CASE ~HoldsApiServer(r, api)
  <2>1. \A a \in AllAddresses : IsPrefix(r, a) => a # api
    BY <1>2, AddressIs DEF HoldsApiServer
  <2>2. <<r>> \in Seq(Words) /\ ToSet(<<r>>) = {r}
    BY DEF ToSet
  <2>. QED
    BY <1>2, <2>1, <2>2
<1>. QED
  BY <1>1, <1>2

\* The ranges of the cluster are apart, whatever the words they are compared by.
LEMMA RangesApart ==
  ASSUME NEW rs \in Seq(RangeWords), NEW I, NEW Q, Groups(rs, I, Q),
         NEW a \in AllAddresses, NEW k \in DOMAIN rs, NEW l \in DOMAIN rs,
         IsPrefix(rs[k], a), IsPrefix(rs[l], a)
  PROVE  k = l
<1>1. \A i \in DOMAIN rs : rs[i] \in Words /\ Len(rs[i]) \in Nat /\ Len(rs[i]) >= Threshold
  <2>1. \A i \in DOMAIN rs : rs[i] \in RangeWords
    BY ElementOfSeq, LenProperties
  <2>. QED
    BY <2>1 DEF RangeWords, Wide, Words
<1>2. a \in Words
  BY AddressIs
<1>3. ASSUME NEW i \in DOMAIN rs, IsPrefix(rs[i], a) PROVE Alike(rs[i], a)
  <2>1. \A j \in 1 .. Len(rs[i]) : rs[i][j] = a[j]
    BY <1>1, <1>2, <1>3, PrefixIs
  <2>2. \A j \in 1 .. Threshold : j \in 1 .. Len(rs[i])
    <3> DEFINE n == Len(rs[i])
    <3>1. n \in Nat /\ n >= Threshold
      BY <1>1
    <3> HIDE DEF n
    <3>2. \A j \in 1 .. Threshold : j \in 1 .. n
      BY <3>1, SegmentsIs
    <3>. QED
      BY <3>2 DEF n
  <2>. QED
    BY <2>1, <2>2 DEF Alike
<1>4. Alike(rs[k], rs[l])
  BY <1>3, AlikeIs
<1>. QED
  BY <1>4 DEF Groups

\* Ranges, those of the options included.
Ranges == [bits : Words, slash : BOOLEAN]

\* The ranges ktctl computes are apart, and cover what the ranges of the cluster do but the
\* API server.
LEMMA MergeIs ==
  ASSUME NEW svcs \in Seq(AllAddresses), NEW pods \in Seq(AllAddresses),
         NEW api \in AllAddresses \cup {<<>>}
  PROVE  LET merged == MergeIpRange(CalculateMinimalIpRange(svcs),
                                    CalculateMinimalIpRange(pods), api)
             ranges == CalculateMinimalIpRange(
                         CalculateMinimalIpRange(svcs) \o CalculateMinimalIpRange(pods))
         IN /\ merged \in Seq(Ranges)
            /\ \A r \in ToSet(merged) : r.slash
            /\ \A a \in AllAddresses :
                 /\ (\E r \in ToSet(merged) : IsPrefix(r.bits, a)) <=>
                      (\E k \in DOMAIN ranges : IsPrefix(ranges[k], a)) /\ a # api
                 /\ \A r, s \in ToSet(merged) :
                      IsPrefix(r.bits, a) /\ IsPrefix(s.bits, a) => r = s
<1> DEFINE ranges == CalculateMinimalIpRange(
                       CalculateMinimalIpRange(svcs) \o CalculateMinimalIpRange(pods))
           Without(i) == IF HoldsApiServer(ranges[i], api)
                         THEN ExcludeIpFromRange(ranges[i], api) ELSE <<ranges[i]>>
           parts == [i \in DOMAIN ranges |-> Without(i)]
           bits == FlattenSeq(parts)
           merged == MergeIpRange(CalculateMinimalIpRange(svcs),
                                  CalculateMinimalIpRange(pods), api)
<1>1. merged = [i \in DOMAIN bits |-> RangeOf(bits[i])]
  BY DEF MergeIpRange
<1>2. ranges \in Seq(RangeWords) /\ Groups(ranges, ToSet(svcs) \cup ToSet(pods), WholeWords)
  <2>1. svcs \in Seq(Wide) /\ pods \in Seq(Wide)
    <3>1. AllAddresses \subseteq Wide
      BY AddressIs
    <3>. QED
      BY <3>1, SeqMonotonic
  <2>. QED
    BY <2>1, RangesOfCluster
<1> HIDE DEF merged, ranges
<1>3. /\ Len(ranges) \in Nat /\ DOMAIN ranges = 1 .. Len(ranges)
      /\ \A i \in DOMAIN ranges : ranges[i] \in Words
  <2>1. \A i \in DOMAIN ranges : ranges[i] \in RangeWords
    BY <1>2, ElementOfSeq, LenProperties
  <2>. QED
    BY <1>2, <2>1, LenProperties DEF RangeWords, Wide
<1>4. ASSUME NEW i \in DOMAIN ranges
      PROVE  /\ parts[i] \in Seq(Words)
             /\ \A a \in AllAddresses :
                  /\ (\E w \in ToSet(parts[i]) : IsPrefix(w, a)) <=>
                       IsPrefix(ranges[i], a) /\ a # api
                  /\ \A v, w \in ToSet(parts[i]) : IsPrefix(v, a) /\ IsPrefix(w, a) => v = w
  <2>1. parts[i] = Without(i)
    OBVIOUS
  <2> HIDE DEF parts
  <2>2. ranges[i] \in Words
    BY <1>3
  <2>. QED
    BY <2>1, <2>2, WithoutIs
<1>5. parts \in [1 .. Len(ranges) -> Seq(Words)]
  <2>1. parts = [i \in 1 .. Len(ranges) |-> parts[i]]
    BY <1>3
  <2> HIDE DEF parts
  <2>. QED
    BY <1>3, <1>4, <2>1
<1> HIDE DEF parts
<1>6. /\ bits \in Seq(Words)
      /\ \A x : x \in ToSet(bits) <=> \E i \in DOMAIN ranges : x \in ToSet(parts[i])
  BY <1>3, <1>5, FlattenIs
<1> HIDE DEF bits
<1>7. /\ merged \in Seq(Ranges)
      /\ \A r : r \in ToSet(merged) <=> \E w \in ToSet(bits) : r = RangeOf(w)
  <2>1. /\ Len(bits) \in Nat /\ DOMAIN bits = 1 .. Len(bits)
        /\ \A i \in DOMAIN bits : bits[i] \in Words
    BY <1>6, ElementOfSeq, LenProperties
  <2>2. \A w \in Words : RangeOf(w) \in Ranges
    BY DEF RangeOf, Ranges
  <2>3. merged \in [1 .. Len(bits) -> Ranges]
    BY <1>1, <2>1, <2>2
  <2>4. merged \in Seq(Ranges)
    BY <2>1, <2>3, IsASeq
  <2>5. DOMAIN merged = DOMAIN bits /\ \A i \in DOMAIN bits : merged[i] = RangeOf(bits[i])
    BY <1>1
  <2>6. ASSUME NEW r PROVE r \in ToSet(merged) <=> \E w \in ToSet(bits) : r = RangeOf(w)
    BY <2>5 DEF ToSet
  <2>. QED
    BY <2>4, <2>6
<1>8. \A w : RangeOf(w).bits = w /\ RangeOf(w).slash
  BY DEF RangeOf
<1>9. ASSUME NEW a \in AllAddresses
      PROVE  (\E r \in ToSet(merged) : IsPrefix(r.bits, a)) <=>
               (\E k \in DOMAIN ranges : IsPrefix(ranges[k], a)) /\ a # api
  <2>1. (\E r \in ToSet(merged) : IsPrefix(r.bits, a)) <=> \E w \in ToSet(bits) : IsPrefix(w, a)
    BY <1>7, <1>8
  <2>2. (\E w \in ToSet(bits) : IsPrefix(w, a)) <=>
          \E k \in DOMAIN ranges : \E w \in ToSet(parts[k]) : IsPrefix(w, a)
    BY <1>6
  <2>3. \A k \in DOMAIN ranges :
          (\E w \in ToSet(parts[k]) : IsPrefix(w, a)) <=> IsPrefix(ranges[k], a) /\ a # api
    BY <1>4
  <2>. QED
    BY <2>1, <2>2, <2>3
<1>10. ASSUME NEW a \in AllAddresses, NEW r \in ToSet(merged), NEW s \in ToSet(merged),
              IsPrefix(r.bits, a), IsPrefix(s.bits, a)
       PROVE  r = s
  <2>1. PICK v \in ToSet(bits) : r = RangeOf(v)
    BY <1>7
  <2>2. PICK w \in ToSet(bits) : s = RangeOf(w)
    BY <1>7
  <2>3. IsPrefix(v, a) /\ IsPrefix(w, a)
    BY <1>8, <1>10, <2>1, <2>2
  <2>4. PICK k \in DOMAIN ranges : v \in ToSet(parts[k])
    BY <1>6
  <2>5. PICK l \in DOMAIN ranges : w \in ToSet(parts[l])
    BY <1>6
  <2>6. IsPrefix(ranges[k], a) /\ IsPrefix(ranges[l], a)
    BY <1>4, <2>3, <2>4, <2>5
  <2>7. k = l
    BY <1>2, <2>6, RangesApart
  <2>8. v = w
    BY <1>4, <2>3, <2>4, <2>5, <2>7
  <2>. QED
    BY <2>1, <2>2, <2>8
<1>11. \A r \in ToSet(merged) : r.slash
  BY <1>7, <1>8
<1>. QED
  BY <1>7, <1>9, <1>10, <1>11 DEF merged, ranges

-------------------------------------------------------------------------------
(* Ranges that are left out *)

\* What the loop over the excluded ranges works on.
Plans == [cidr : Seq(Ranges), exclude : Seq(Ranges)]

\* One excluded range: what is dropped is the range itself or lies within it.
LEMMA ExcludeType ==
  ASSUME NEW acc \in Plans, NEW e \in Ranges
  PROVE  LET new == Exclude(acc, e)
         IN /\ new \in Plans
            /\ ToSet(new.cidr) \subseteq ToSet(acc.cidr)
            /\ \A r \in ToSet(acc.cidr) : r # e /\ ~IsPartOfRange(e, r) => r \in ToSet(new.cidr)
            /\ ToSet(acc.exclude) \subseteq ToSet(new.exclude)
            /\ ToSet(new.exclude) \subseteq ToSet(acc.exclude) \cup {e}
<1> DEFINE stops   == {i \in DOMAIN acc.cidr : acc.cidr[i] = e \/ IsBypassOf(e, acc.cidr[i])}
           scanned == IF stops = {} THEN DOMAIN acc.cidr ELSE 1 .. Min(stops)
           dropped == {acc.cidr[i] : i \in {j \in scanned : \/ acc.cidr[j] = e
                                                            \/ IsPartOfRange(e, acc.cidr[j])}}
           bypass  == stops # {} /\ IsBypassOf(e, acc.cidr[Min(stops)])
           new == Exclude(acc, e)
<1>1. new = [cidr |-> Kept(acc.cidr, ToSet(acc.cidr) \ dropped),
             exclude |-> IF bypass THEN Append(acc.exclude, e) ELSE acc.exclude]
  BY DEF Exclude
<1>2. acc.cidr \in Seq(Ranges) /\ acc.exclude \in Seq(Ranges)
  BY DEF Plans
<1>3. \A r \in dropped : r = e \/ IsPartOfRange(e, r)
  OBVIOUS
<1> HIDE DEF new, dropped, bypass
<1>4. new.cidr \in Seq(Ranges) /\ ToSet(new.cidr) = ToSet(acc.cidr) \ dropped
  <2>1. /\ Kept(acc.cidr, ToSet(acc.cidr) \ dropped) \in Seq(Ranges)
        /\ ToSet(Kept(acc.cidr, ToSet(acc.cidr) \ dropped))
             = ToSet(acc.cidr) \cap (ToSet(acc.cidr) \ dropped)
    BY <1>2, KeptIs
  <2>. QED
    BY <1>1, <2>1
<1>5. /\ new.exclude \in Seq(Ranges)
      /\ ToSet(acc.exclude) \subseteq ToSet(new.exclude)
      /\ ToSet(new.exclude) \subseteq ToSet(acc.exclude) \cup {e}
  <2>1. Append(acc.exclude, e) = acc.exclude \o <<e>>
    BY <1>2, AppendIsConcat
  <2>2. <<e>> \in Seq(Ranges) /\ ToSet(<<e>>) = {e}
    BY DEF ToSet
  <2>3. /\ acc.exclude \o <<e>> \in Seq(Ranges)
        /\ ToSet(acc.exclude \o <<e>>) = ToSet(acc.exclude) \cup ToSet(<<e>>)
    BY <1>2, <2>2, JoinIs
  <2>4. new.exclude = IF bypass THEN Append(acc.exclude, e) ELSE acc.exclude
    BY <1>1
  <2>. QED
    BY <1>2, <2>1, <2>2, <2>3, <2>4
<1>6. new \in Plans
  <2>1. new = [cidr |-> new.cidr, exclude |-> new.exclude]
    BY <1>1
  <2>. QED
    BY <1>4, <1>5, <2>1 DEF Plans
<1>. QED
  BY <1>3, <1>4, <1>5, <1>6 DEF new

\* If one range alone is over an excluded address and still goes to the cluster, it holds the
\* excluded range, which is bypassed.
LEMMA ExcludeStep ==
  ASSUME NEW acc \in Plans, NEW e \in Ranges, e.slash, NEW a \in AllAddresses,
         IsPrefix(e.bits, a), NEW r \in ToSet(Exclude(acc, e).cidr), r.slash, IsPrefix(r.bits, a),
         \A c \in ToSet(acc.cidr) : IsPrefix(c.bits, a) => c = r
  PROVE  e \in ToSet(Exclude(acc, e).exclude) /\ Len(r.bits) <= Len(e.bits)
<1> DEFINE stops   == {i \in DOMAIN acc.cidr : acc.cidr[i] = e \/ IsBypassOf(e, acc.cidr[i])}
           scanned == IF stops = {} THEN DOMAIN acc.cidr ELSE 1 .. Min(stops)
           dropped == {acc.cidr[i] : i \in {j \in scanned : \/ acc.cidr[j] = e
                                                            \/ IsPartOfRange(e, acc.cidr[j])}}
           bypass  == stops # {} /\ IsBypassOf(e, acc.cidr[Min(stops)])
           new == Exclude(acc, e)
<1>1. new = [cidr |-> Kept(acc.cidr, ToSet(acc.cidr) \ dropped),
             exclude |-> IF bypass THEN Append(acc.exclude, e) ELSE acc.exclude]
  BY DEF Exclude
<1>2. /\ acc.cidr \in Seq(Ranges) /\ acc.exclude \in Seq(Ranges)
      /\ DOMAIN acc.cidr \in SUBSET Nat
      /\ \A i \in DOMAIN acc.cidr : acc.cidr[i] \in ToSet(acc.cidr) /\ acc.cidr[i] \in Ranges
  <2>1. acc.cidr \in Seq(Ranges) /\ acc.exclude \in Seq(Ranges)
    BY DEF Plans
  <2>. QED
    BY <2>1, ElementOfSeq, LenProperties DEF ToSet
<1>3. r \in ToSet(acc.cidr) /\ r \notin dropped
  <2> HIDE DEF dropped, bypass
  <2>1. ToSet(Kept(acc.cidr, ToSet(acc.cidr) \ dropped))
          = ToSet(acc.cidr) \cap (ToSet(acc.cidr) \ dropped)
    BY <1>2, KeptIs
  <2>2. new.cidr = Kept(acc.cidr, ToSet(acc.cidr) \ dropped)
    BY <1>1
  <2>. QED
    BY <2>1, <2>2
<1>4. PICK k \in DOMAIN acc.cidr : r = acc.cidr[k]
  BY <1>3 DEF ToSet
<1>5. /\ r \in Ranges /\ r.bits \in Words /\ e.bits \in Words /\ a \in Words
      /\ Len(r.bits) \in Nat /\ Len(e.bits) \in Nat
  BY <1>2, <1>4, AddressIs DEF Ranges, Words
<1>6. ASSUME NEW i \in stops PROVE acc.cidr[i] = r
  <2>1. i \in DOMAIN acc.cidr /\ (acc.cidr[i] = e \/ IsBypassOf(e, acc.cidr[i]))
    OBVIOUS
  <2>2. IsPrefix(acc.cidr[i].bits, a)
    <3>1. CASE acc.cidr[i] = e
      BY <3>1
    <3>2. CASE IsBypassOf(e, acc.cidr[i])
      <4>1. IsPrefix(acc.cidr[i].bits, e.bits) /\ acc.cidr[i].bits \in Words
        BY <1>2, <2>1, <3>2 DEF IsBypassOf, IsPartOfRange, Ranges
      <4>. QED
        BY <1>5, <4>1, PrefixFacts
    <3>. QED
      BY <2>1, <3>1, <3>2
  <2>. QED
    BY <1>2, <2>1, <2>2
<1>7. ASSUME stops = {} PROVE FALSE
  <2>1. r # e /\ ~IsBypassOf(e, r)
    BY <1>4, <1>7
  <2>2. ~(IsPartOfRange(r, e) /\ ~IsPartOfRange(e, r))
    BY <2>1 DEF IsBypassOf
  <2>3. ~IsPartOfRange(e, r)
    <3>1. k \in scanned
      BY <1>7
    <3>2. IsPartOfRange(e, r) => r \in dropped
      BY <1>4, <3>1
    <3>. QED
      BY <1>3, <3>2
  <2>4. ~IsPrefix(e.bits, r.bits) /\ ~IsPrefix(r.bits, e.bits)
    BY <2>2, <2>3 DEF IsPartOfRange
  <2>. QED
    BY <1>5, <2>4, PrefixFacts
<1>8. stops # {} /\ Min(stops) \in stops /\ acc.cidr[Min(stops)] = r
  <2>1. stops \in SUBSET Nat /\ stops # {}
    BY <1>2, <1>7
  <2>2. Min(stops) \in stops
    BY <2>1, MinIs
  <2>. QED
    BY <1>6, <2>1, <2>2
<1>9. r # e
  <2>1. Min(stops) \in scanned
    <3> DEFINE m == Min(stops)
    <3>1. m \in 1 .. m
      <4>1. DOMAIN acc.cidr = 1 .. Len(acc.cidr) /\ Len(acc.cidr) \in Nat
        BY <1>2, LenProperties
      <4>2. m \in DOMAIN acc.cidr
        BY <1>8
      <4> HIDE DEF m
      <4>. QED
        BY <4>1, <4>2
    <3>. QED
      BY <1>8, <3>1
  <2>2. r = e => r \in dropped
    BY <1>8, <2>1
  <2>. QED
    BY <1>3, <2>2
<1>10. IsBypassOf(e, r)
  BY <1>8, <1>9
<1>11. bypass
  BY <1>8, <1>10
<1>12. e \in ToSet(new.exclude)
  <2> HIDE DEF dropped, bypass
  <2>1. new.exclude = Append(acc.exclude, e)
    BY <1>1, <1>11
  <2>2. /\ DOMAIN new.exclude = 1 .. Len(acc.exclude) + 1 /\ Len(acc.exclude) \in Nat
        /\ new.exclude[Len(acc.exclude) + 1] = e
    BY <1>2, <2>1, AppendProperties, LenProperties
  <2>3. Len(acc.exclude) + 1 \in DOMAIN new.exclude
    BY <2>2
  <2>. QED
    BY <2>2, <2>3 DEF ToSet
<1>13. Len(r.bits) <= Len(e.bits)
  BY <1>5, <1>10, PrefixIs DEF IsBypassOf, IsPartOfRange
<1>. QED
  BY <1>12, <1>13

\* What is left after each excluded range of a list.
LEMMA ExcludeFold ==
  ASSUME NEW base \in Plans, NEW es \in Seq(Ranges)
  PROVE  \E after : /\ after[0] = base
                    /\ \A k \in 1 .. Len(es) : after[k] = Exclude(after[k - 1], es[k])
                    /\ FoldLeft(Exclude, base, es) = after[Len(es)]
<1> DEFINE n == Len(es)
           A == Plans
           Folded(f, s) == IF s = {} THEN base ELSE Exclude(f[s \ {Max(s)}], es[Max(s)])
           it == CHOOSE f : f = [s \in SUBSET DOMAIN es |-> Folded(f, s)]
<1>0. n \in Nat /\ DOMAIN es = 1 .. n /\ \A k \in 1 .. n : es[k] \in Ranges
  BY LenProperties, ElementOfSeq
<1>1. PICK f \in [SUBSET (1 .. n) -> A] : \A s \in SUBSET (1 .. n) : f[s] = Folded(f, s)
  <2> DEFINE step == [p \in A \X (1 .. n) |-> Exclude(p[1], es[p[2]])]
  <2>1. step \in [A \X (1 .. n) -> A] /\ base \in A
    <3>1. \A rs \in A, k \in 1 .. n : Exclude(rs, es[k]) \in A
      BY <1>0, ExcludeType
    <3>. QED
      BY <3>1
  <2>2. PICK f \in [SUBSET (1 .. n) -> A] :
          \A s \in SUBSET (1 .. n) :
            f[s] = IF s = {} THEN base ELSE step[<<f[s \ {Max(s)}], Max(s)>>]
    <3>1. base \in A /\ n \in Nat /\ step \in [A \X (1 .. n) -> A]
      BY <1>0, <2>1
    <3> HIDE DEF step, A, n, it, Folded
    <3>2. \E g \in [SUBSET (1 .. n) -> A] : IsFold(g, base, n, step)
      BY <3>1, FoldExists
    <3>. QED
      BY <3>2 DEF IsFold
  <2>3. ASSUME NEW s \in SUBSET (1 .. n) PROVE f[s] = Folded(f, s)
    <3>1. CASE s # {}
      <4>1. Max(s) \in 1 .. n
        BY <1>0, <3>1, LargestIs
      <4>2. f[s \ {Max(s)}] \in A
        BY <2>2
      <4>3. step[<<f[s \ {Max(s)}], Max(s)>>] = Exclude(f[s \ {Max(s)}], es[Max(s)])
        BY <4>1, <4>2
      <4> HIDE DEF step
      <4>. QED
        BY <2>2, <3>1, <4>3
    <3>2. CASE s = {}
      BY <2>2, <3>2
    <3>. QED
      BY <3>1, <3>2
  <2> HIDE DEF Folded
  <2>. QED
    BY <2>2, <2>3
<1>2. it = [s \in SUBSET (1 .. n) |-> Folded(it, s)]
  <2> HIDE DEF Folded, n
  <2>1. f = [s \in SUBSET DOMAIN es |-> Folded(f, s)]
    BY <1>0, <1>1
  <2>. QED
    BY <1>0, <2>1
<1>3. FoldLeft(Exclude, base, es) = it[1 .. n]
  <2>1. FoldLeft(Exclude, base, es) =
          (CHOOSE f1 : f1 = [s \in SUBSET DOMAIN es |->
             IF s = {} THEN base ELSE Exclude(f1[s \ {Max(s)}], es[Max(s)])])[DOMAIN es]
    BY DEF FoldLeft, MapThenFoldSet
  <2>. QED
    BY <1>0, <2>1
<1> DEFINE after == [k \in 0 .. n |-> it[1 .. k]]
<1>4. after[0] = base /\ after[n] = it[1 .. n]
  <2>1. 1 .. 0 = {} /\ {} \in SUBSET (1 .. n)
    OBVIOUS
  <2> HIDE DEF it, n
  <2>2. it[{}] = base
    BY <1>2, <2>1
  <2>. QED
    BY <1>0, <2>1, <2>2
<1>5. ASSUME NEW k \in 1 .. n PROVE after[k] = Exclude(after[k - 1], es[k])
  <2>1. it[1 .. k] = Exclude(it[1 .. k - 1], es[k])
    <3>1. 1 .. k \in SUBSET (1 .. n) /\ 1 .. k # {} /\ Max(1 .. k) = k /\ (1 .. k) \ {k} = 1 .. k - 1
      BY <1>0, UptoIs
    <3> HIDE DEF it, n
    <3>. QED
      BY <1>2, <3>1
  <2>2. after[k] = it[1 .. k] /\ after[k - 1] = it[1 .. k - 1]
    <3>1. k \in 0 .. n /\ k - 1 \in 0 .. n
      BY <1>0
    <3> HIDE DEF it, n
    <3>. QED
      BY <3>1
  <2> HIDE DEF it, after
  <2>. QED
    BY <2>1, <2>2
<1> HIDE DEF it, after
<1>. QED
  BY <1>3, <1>4, <1>5

\* What the ranges are once those to leave out have been taken one after the other.
LEMMA ExcludeIs ==
  ASSUME NEW cs \in Seq(Ranges), NEW es \in Seq(Ranges)
  PROVE  LET left == FoldLeft(Exclude, [cidr |-> cs, exclude |-> <<>>], es)
         IN /\ left \in Plans
            /\ ToSet(left.cidr) \subseteq ToSet(cs)
            /\ ToSet(left.exclude) \subseteq ToSet(es)
            /\ \A r \in ToSet(cs) :
                 (\A e \in ToSet(es) : r # e /\ ~IsPartOfRange(e, r)) => r \in ToSet(left.cidr)
            /\ \A e \in ToSet(es), r \in ToSet(left.cidr), a \in AllAddresses :
                 /\ e.slash /\ r.slash /\ IsPrefix(e.bits, a) /\ IsPrefix(r.bits, a)
                 /\ \A c \in ToSet(cs) : IsPrefix(c.bits, a) => c = r
                 => e \in ToSet(left.exclude) /\ Len(r.bits) <= Len(e.bits)
<1> DEFINE n == Len(es)
           base == [cidr |-> cs, exclude |-> <<>>]
           Bypasses(e, r, a) ==
             /\ e.slash /\ r.slash /\ IsPrefix(e.bits, a) /\ IsPrefix(r.bits, a)
             /\ \A c \in ToSet(cs) : IsPrefix(c.bits, a) => c = r
           Told(p, e, r) == e \in ToSet(p.exclude) /\ Len(r.bits) <= Len(e.bits)
           Holds(p, k) ==
             /\ p \in Plans
             /\ ToSet(p.cidr) \subseteq ToSet(cs)
             /\ \A e \in ToSet(p.exclude) : \E i \in 1 .. k : e = es[i]
             /\ \A r \in ToSet(cs) :
                  (\A i \in 1 .. k : r # es[i] /\ ~IsPartOfRange(es[i], r)) => r \in ToSet(p.cidr)
             /\ \A i \in 1 .. k, r \in ToSet(p.cidr), a \in AllAddresses :
                  Bypasses(es[i], r, a) => Told(p, es[i], r)
<1>0. n \in Nat /\ DOMAIN es = 1 .. n /\ \A k \in 1 .. n : es[k] \in Ranges
  BY LenProperties, ElementOfSeq
<1>1. base \in Plans /\ base.cidr = cs /\ base.exclude = <<>>
  BY DEF Plans
<1>2. PICK after : /\ after[0] = base
                   /\ \A k \in 1 .. n : after[k] = Exclude(after[k - 1], es[k])
                   /\ FoldLeft(Exclude, base, es) = after[n]
  <2> HIDE DEF base
  <2>. QED
    BY <1>1, ExcludeFold
<1>3. Holds(after[0], 0)
  <2>1. ToSet(<<>>) = {} /\ 1 .. 0 = {}
    BY DEF ToSet
  <2> HIDE DEF base, Bypasses, Told
  <2>. QED
    BY <1>1, <1>2, <2>1
<1> HIDE DEF base, n
<1>4. ASSUME NEW p, NEW k \in Nat, NEW j \in 1 .. n, j = k + 1, Holds(p, k)
      PROVE  Holds(Exclude(p, es[j]), j)
  <2> DEFINE q == Exclude(p, es[j])
  <2>0. \A i : i \in 1 .. j <=> i \in 1 .. k \/ i = j
    BY <1>4
  <2>1. /\ p \in Plans /\ es[j] \in Ranges
        /\ ToSet(p.cidr) \subseteq ToSet(cs)
        /\ \A e \in ToSet(p.exclude) : \E i \in 1 .. k : e = es[i]
        /\ \A r \in ToSet(cs) :
             (\A i \in 1 .. k : r # es[i] /\ ~IsPartOfRange(es[i], r)) => r \in ToSet(p.cidr)
        /\ \A i \in 1 .. k, r \in ToSet(p.cidr), a \in AllAddresses :
             Bypasses(es[i], r, a) => Told(p, es[i], r)
    <3> HIDE DEF Bypasses, Told
    <3>. QED
      BY <1>0, <1>4
  <2>2. /\ q \in Plans
        /\ ToSet(q.cidr) \subseteq ToSet(p.cidr)
        /\ \A r \in ToSet(p.cidr) : r # es[j] /\ ~IsPartOfRange(es[j], r) => r \in ToSet(q.cidr)
        /\ ToSet(p.exclude) \subseteq ToSet(q.exclude)
        /\ ToSet(q.exclude) \subseteq ToSet(p.exclude) \cup {es[j]}
    BY <2>1, ExcludeType
  <2>3. ASSUME NEW r \in ToSet(q.cidr), NEW a \in AllAddresses, Bypasses(es[j], r, a)
        PROVE  Told(q, es[j], r)
    BY <2>1, <2>2, <2>3, ExcludeStep
  <2>4. ASSUME NEW i \in 1 .. k, NEW r \in ToSet(q.cidr), NEW a \in AllAddresses,
               Bypasses(es[i], r, a)
        PROVE  Told(q, es[i], r)
    <3>1. Told(p, es[i], r)
      <4> HIDE DEF Bypasses, Told, q
      <4>. QED
        BY <2>1, <2>2, <2>4
    <3> HIDE DEF q
    <3>. QED
      BY <2>2, <3>1
  <2> HIDE DEF q
  <2>5. \A e \in ToSet(q.exclude) : \E i \in 1 .. j : e = es[i]
    BY <2>0, <2>1, <2>2
  <2>6. \A r \in ToSet(cs) :
          (\A i \in 1 .. j : r # es[i] /\ ~IsPartOfRange(es[i], r)) => r \in ToSet(q.cidr)
    BY <2>0, <2>1, <2>2
  <2>7. ToSet(q.cidr) \subseteq ToSet(cs)
    BY <2>1, <2>2
  <2>8. \A i \in 1 .. j, r \in ToSet(q.cidr), a \in AllAddresses :
          Bypasses(es[i], r, a) => Told(q, es[i], r)
    <3> HIDE DEF Bypasses, Told
    <3>. QED
      BY <2>0, <2>3, <2>4
  <2>9. Holds(q, j)
    <3> HIDE DEF Bypasses, Told
    <3>. QED
      BY <2>2, <2>5, <2>6, <2>7, <2>8
  <2>. QED
    BY <2>9 DEF q
<1> DEFINE T == {k \in Nat : k \in 0 .. n => Holds(after[k], k)}
<1>5. Holds(after[n], n)
  <2> HIDE DEF Holds
  <2>1. 0 \in T
    BY <1>3
  <2>2. ASSUME NEW k \in Nat, k \in T PROVE k + 1 \in T
    <3>1. CASE k + 1 \in 0 .. n
      <4>1. PICK j \in 1 .. n : j = k + 1 /\ j - 1 = k
        BY <1>0, <3>1
      <4>2. k \in 0 .. n
        BY <1>0, <3>1
      <4>3. Holds(after[k], k)
        BY <2>2, <4>2
      <4>4. after[j] = Exclude(after[k], es[j])
        BY <1>2, <4>1
      <4>5. Holds(Exclude(after[k], es[j]), j)
        BY <1>4, <4>1, <4>3
      <4>. QED
        BY <4>1, <4>4, <4>5
    <3>2. CASE k + 1 \notin 0 .. n
      BY <3>2
    <3>. QED
      BY <3>1, <3>2
  <2>3. Nat \subseteq T
    <3> HIDE DEF T
    <3>. QED
      BY <2>1, <2>2, Induction
  <2>. QED
    BY <1>0, <2>3
<1> DEFINE left == after[n]
<1>6. \A e : e \in ToSet(es) <=> \E i \in 1 .. n : e = es[i]
  BY <1>0 DEF ToSet
<1>7. /\ left \in Plans
      /\ ToSet(left.cidr) \subseteq ToSet(cs)
      /\ ToSet(left.exclude) \subseteq ToSet(es)
      /\ \A r \in ToSet(cs) :
           (\A e \in ToSet(es) : r # e /\ ~IsPartOfRange(e, r)) => r \in ToSet(left.cidr)
      /\ \A e \in ToSet(es), r \in ToSet(left.cidr), a \in AllAddresses :
           Bypasses(e, r, a) => Told(left, e, r)
  <2> HIDE DEF Bypasses, Told
  <2>1. Holds(left, n)
    BY <1>5
  <2> HIDE DEF left
  <2>. QED
    BY <1>6, <2>1
<1>8. FoldLeft(Exclude, [cidr |-> cs, exclude |-> <<>>], es) = left
  BY <1>2 DEF base
<1> HIDE DEF left
<1>. QED
  BY <1>7, <1>8

-------------------------------------------------------------------------------
(* The routes of a list of services and one of pods *)

\* The ranges before the API server is left out of them.
ClusterRanges(svcs, pods) ==
  CalculateMinimalIpRange(CalculateMinimalIpRange(svcs) \o CalculateMinimalIpRange(pods))

\* An address is in one of the ranges.
Holding(ranges, a) == \E k \in DOMAIN ranges : IsPrefix(ranges[k], a)

\* What ClusterCidr computes of its lists and options.
PlanFor(svcs, pods, api, include, exclude) ==
  FoldLeft(Exclude,
           [cidr |-> MergeIpRange(CalculateMinimalIpRange(svcs), CalculateMinimalIpRange(pods), api)
                       \o include,
            exclude |-> <<>>],
           exclude)

\* A range over an address that no option includes is one of the cluster's, not over the API
\* server, and whatever is excluded there is bypassed and at least as long.  An address of the
\* cluster over which nothing is excluded keeps a range.
Serves(ranges, bypassed, svcs, pods, api, include, exclude) ==
  /\ ToSet(bypassed) \subseteq ToSet(exclude)
  /\ \A a \in AllAddresses, r \in ToSet(ranges) :
       (\A c \in ToSet(include) : ~IsPrefix(c.bits, a)) /\ IsPrefix(r.bits, a) =>
         /\ Holding(ClusterRanges(svcs, pods), a) /\ a # api
         /\ \A e \in ToSet(exclude) :
              e.slash /\ IsPrefix(e.bits, a) =>
                e \in ToSet(bypassed) /\ Len(r.bits) <= Len(e.bits)
  /\ \A a \in AllAddresses :
       /\ Holding(ClusterRanges(svcs, pods), a) /\ a # api
       /\ \A e \in ToSet(exclude) : ~IsPrefix(e.bits, a)
       => \E r \in ToSet(ranges) : IsPrefix(r.bits, a)

\* What ClusterCidr computes serves the lists and options it was given.
LEMMA PlanIs ==
  ASSUME NEW svcs \in Seq(AllAddresses), NEW pods \in Seq(AllAddresses),
         NEW api \in AllAddresses \cup {<<>>},
         NEW include \in Seq(Ranges), NEW exclude \in Seq(Ranges)
  PROVE  LET plan == PlanFor(svcs, pods, api, include, exclude)
         IN /\ plan \in Plans
            /\ Serves(plan.cidr, plan.exclude, svcs, pods, api, include, exclude)
<1> DEFINE merged == MergeIpRange(CalculateMinimalIpRange(svcs), CalculateMinimalIpRange(pods), api)
           cs == merged \o include
           plan == PlanFor(svcs, pods, api, include, exclude)
           clear(a) == \A c \in ToSet(include) : ~IsPrefix(c.bits, a)
           held(a) == Holding(ClusterRanges(svcs, pods), a)
<1>1. /\ merged \in Seq(Ranges)
      /\ \A r \in ToSet(merged) : r.slash
      /\ \A a \in AllAddresses :
           /\ (\E r \in ToSet(merged) : IsPrefix(r.bits, a)) <=> held(a) /\ a # api
           /\ \A r, s \in ToSet(merged) : IsPrefix(r.bits, a) /\ IsPrefix(s.bits, a) => r = s
  BY MergeIs DEF ClusterRanges, Holding
<1>2. plan = FoldLeft(Exclude, [cidr |-> cs, exclude |-> <<>>], exclude)
  BY DEF PlanFor
<1> HIDE DEF merged, plan, held
<1>3. cs \in Seq(Ranges) /\ ToSet(cs) = ToSet(merged) \cup ToSet(include)
  BY <1>1, JoinIs
<1> HIDE DEF cs
<1>4. /\ plan \in Plans
      /\ ToSet(plan.cidr) \subseteq ToSet(cs)
      /\ ToSet(plan.exclude) \subseteq ToSet(exclude)
      /\ \A r \in ToSet(cs) :
           (\A e \in ToSet(exclude) : r # e /\ ~IsPartOfRange(e, r)) => r \in ToSet(plan.cidr)
      /\ \A e \in ToSet(exclude), r \in ToSet(plan.cidr), a \in AllAddresses :
           /\ e.slash /\ r.slash /\ IsPrefix(e.bits, a) /\ IsPrefix(r.bits, a)
           /\ \A c \in ToSet(cs) : IsPrefix(c.bits, a) => c = r
           => e \in ToSet(plan.exclude) /\ Len(r.bits) <= Len(e.bits)
  <2> DEFINE left == FoldLeft(Exclude, [cidr |-> cs, exclude |-> <<>>], exclude)
  <2>1. /\ left \in Plans
        /\ ToSet(left.cidr) \subseteq ToSet(cs)
        /\ ToSet(left.exclude) \subseteq ToSet(exclude)
        /\ \A r \in ToSet(cs) :
             (\A e \in ToSet(exclude) : r # e /\ ~IsPartOfRange(e, r)) => r \in ToSet(left.cidr)
        /\ \A e \in ToSet(exclude), r \in ToSet(left.cidr), a \in AllAddresses :
             /\ e.slash /\ r.slash /\ IsPrefix(e.bits, a) /\ IsPrefix(r.bits, a)
             /\ \A c \in ToSet(cs) : IsPrefix(c.bits, a) => c = r
             => e \in ToSet(left.exclude) /\ Len(r.bits) <= Len(e.bits)
    BY <1>3, ExcludeIs
  <2>2. plan = left
    BY <1>2
  <2> HIDE DEF left
  <2>. QED
    BY <2>1, <2>2
<1>5. ASSUME NEW a \in AllAddresses, NEW r \in ToSet(plan.cidr), clear(a), IsPrefix(r.bits, a)
      PROVE  /\ held(a) /\ a # api
             /\ \A e \in ToSet(exclude) :
                  e.slash /\ IsPrefix(e.bits, a) =>
                    e \in ToSet(plan.exclude) /\ Len(r.bits) <= Len(e.bits)
  <2>1. r \in ToSet(merged) /\ r.slash
    BY <1>1, <1>3, <1>4, <1>5
  <2>2. \A c \in ToSet(cs) : IsPrefix(c.bits, a) => c = r
    BY <1>1, <1>3, <1>5, <2>1
  <2>3. held(a) /\ a # api
    BY <1>1, <1>5, <2>1
  <2>4. ASSUME NEW e \in ToSet(exclude), e.slash, IsPrefix(e.bits, a)
        PROVE  e \in ToSet(plan.exclude) /\ Len(r.bits) <= Len(e.bits)
    BY <1>4, <1>5, <2>1, <2>2, <2>4
  <2>. QED
    BY <2>3, <2>4
<1>6. ASSUME NEW a \in AllAddresses, held(a), a # api,
             \A e \in ToSet(exclude) : ~IsPrefix(e.bits, a)
      PROVE  \E r \in ToSet(plan.cidr) : IsPrefix(r.bits, a)
  <2>1. PICK r \in ToSet(merged) : IsPrefix(r.bits, a)
    BY <1>1, <1>6
  <2>2. ASSUME NEW e \in ToSet(exclude) PROVE r # e /\ ~IsPartOfRange(e, r)
    <3>1. e \in Ranges /\ r \in Ranges
      <4>1. \A s \in Seq(Ranges) : \A x \in ToSet(s) : x \in Ranges
        BY ElementOfSeq, LenProperties DEF ToSet
      <4>. QED
        BY <1>1, <4>1
    <3>2. e.bits \in Words /\ r.bits \in Words /\ a \in Words
      BY <3>1, AddressIs DEF Ranges
    <3>3. ~IsPrefix(e.bits, r.bits)
      BY <1>6, <2>1, <3>2, PrefixFacts
    <3>. QED
      BY <1>6, <2>1, <3>3 DEF IsPartOfRange
  <2>3. r \in ToSet(plan.cidr)
    BY <1>3, <1>4, <2>2
  <2>. QED
    BY <2>1, <2>3
<1>. QED
  BY <1>4, <1>5, <1>6 DEF plan, held, Serves

\* Addresses are put together by their first bits.
LEMMA AlikeAddresses ==
  ASSUME NEW a \in AllAddresses, NEW b \in AllAddresses
  PROVE  Alike(a, b) <=> SubSeq(a, 1, Threshold) = SubSeq(b, 1, Threshold)
<1>1. a \in Words /\ b \in Words /\ Threshold \in 0 .. Len(a) /\ Threshold \in 0 .. Len(b)
  BY AddressIs, SegmentsIs
<1> DEFINE s == SubSeq(a, 1, Threshold)
           t == SubSeq(b, 1, Threshold)
<1>2. /\ s \in Words /\ t \in Words /\ Len(s) = Threshold /\ Len(t) = Threshold
      /\ \A i \in 1 .. Threshold : s[i] = a[i] /\ t[i] = b[i]
  BY <1>1, CutIs
<1> HIDE DEF s, t
<1>3. (\A i \in 1 .. Threshold : s[i] = t[i]) => s = t
  BY <1>2, SeqEqual DEF Words
<1>4. Alike(a, b) <=> s = t
  BY <1>2, <1>3 DEF Alike
<1>. QED
  BY <1>4 DEF s, t

\* An address is in a range of one of the groups.
GroupOf(seen, ip) == {a \in seen : SubSeq(a, 1, Threshold) = SubSeq(ip, 1, Threshold)}
Gathered(seen, a) ==
  \E ip \in seen : IsPrefix(Align(LongestCommonPrefix(GroupOf(seen, ip))), a)

\* The ranges of the cluster are those of its groups of addresses.
LEMMA HoldingIs ==
  ASSUME NEW svcs \in Seq(AllAddresses), NEW pods \in Seq(AllAddresses),
         NEW a \in AllAddresses
  PROVE  /\ Holding(ClusterRanges(svcs, pods), a) <=> Gathered(ToSet(svcs) \cup ToSet(pods), a)
         /\ a \in ToSet(svcs) \cup ToSet(pods) => Holding(ClusterRanges(svcs, pods), a)
<1> DEFINE seen == ToSet(svcs) \cup ToSet(pods)
           group(ip) == GroupOf(seen, ip)
           ranges == ClusterRanges(svcs, pods)
           together(ip) == Align(LongestCommonPrefix(group(ip)))
<1>1. ranges \in Seq(RangeWords) /\ Groups(ranges, seen, WholeWords)
  <2>1. svcs \in Seq(Wide) /\ pods \in Seq(Wide)
    <3>1. AllAddresses \subseteq Wide
      BY AddressIs
    <3>. QED
      BY <3>1, SeqMonotonic
  <2>. QED
    BY <2>1, RangesOfCluster DEF ClusterRanges
<1>2. seen \subseteq AllAddresses
  <2>1. \A s \in Seq(AllAddresses) : ToSet(s) \subseteq AllAddresses
    BY ElementOfSeq, LenProperties DEF ToSet
  <2>. QED
    BY <2>1
<1> HIDE DEF ranges, seen
<1>3. ASSUME NEW k \in DOMAIN ranges PROVE ranges[k] \in WholeWords /\ ranges[k] \in Words
  <2>1. ranges[k] \in RangeWords
    BY <1>1, ElementOfSeq, LenProperties
  <2>. QED
    BY <2>1 DEF RangeWords, WholeWords
<1>4. ASSUME NEW ip \in seen, NEW k \in DOMAIN ranges, Alike(ranges[k], ip)
      PROVE  ranges[k] = together(ip)
  <2>1. \A b \in seen : b \in group(ip) <=> Alike(ranges[k], b)
    <3>1. ASSUME NEW b \in seen PROVE Alike(b, ip) <=> b \in group(ip)
      BY <1>2, AlikeAddresses DEF GroupOf
    <3>. QED
      BY <1>4, <3>1, AlikeIs
  <2>2. group(ip) \in SUBSET Words /\ group(ip) # {}
    BY <1>2, AddressIs DEF GroupOf
  <2> HIDE DEF group
  <2> DEFINE longest == LongestCommonPrefix(group(ip))
  <2>3. /\ longest \in Words
        /\ \A q \in Words : IsPrefix(q, longest) <=> \A t \in group(ip) : IsPrefix(q, t)
    BY <2>2, LongestIs
  <2> HIDE DEF longest
  <2>4. /\ Align(longest) \in WholeWords
        /\ \A q \in WholeWords : IsPrefix(q, Align(longest)) <=> IsPrefix(q, longest)
    BY <2>3, AlignIs
  <2>5. ASSUME NEW q \in WholeWords PROVE IsPrefix(q, ranges[k]) <=> IsPrefix(q, Align(longest))
    <3>1. q \in Words
      BY DEF WholeWords
    <3>2. IsPrefix(q, ranges[k]) <=> \A b \in seen : Alike(ranges[k], b) => IsPrefix(q, b)
      BY <1>1 DEF Groups
    <3>3. group(ip) \subseteq seen
      BY DEF group, GroupOf
    <3>. QED
      BY <2>1, <2>3, <2>4, <3>1, <3>2, <3>3
  <2>6. Align(longest) \in Words /\ ranges[k] \in Words /\ ranges[k] \in WholeWords
    BY <1>3, <2>4 DEF WholeWords
  <2>7. IsPrefix(Align(longest), ranges[k]) /\ IsPrefix(ranges[k], Align(longest))
    BY <2>4, <2>5, <2>6, PrefixFacts
  <2>8. ranges[k] = Align(longest)
    BY <2>6, <2>7, PrefixFacts
  <2>. QED
    BY <2>8 DEF longest
<1> HIDE DEF group, together
<1>5. Holding(ranges, a) <=> \E ip \in seen : IsPrefix(together(ip), a)
  <2>1. \A k \in DOMAIN ranges : \E ip \in seen : Alike(ranges[k], ip)
    BY <1>1 DEF Groups
  <2>2. \A ip \in seen : \E k \in DOMAIN ranges : Alike(ranges[k], ip)
    BY <1>1 DEF Groups
  <2>. QED
    BY <1>4, <2>1, <2>2 DEF Holding
<1>6. ASSUME a \in seen PROVE Holding(ranges, a)
  <2>1. PICK k \in DOMAIN ranges : Alike(ranges[k], a)
    BY <1>1, <1>6 DEF Groups
  <2>2. ranges[k] \in WholeWords /\ IsPrefix(ranges[k], ranges[k])
    BY <1>3, PrefixFacts
  <2>3. IsPrefix(ranges[k], a)
    BY <1>1, <1>6, <2>1, <2>2 DEF Groups
  <2>. QED
    BY <2>3 DEF Holding
<1>. QED
  BY <1>5, <1>6 DEF ranges, seen, group, together, Gathered

-------------------------------------------------------------------------------
(* The routes of a session *)

\* The ranges are those of what was listed, with the options of the session.
Listed ==
  \E svcs \in Lists(scene.svcs), pods \in PodLists :
    LET plan == PlanFor(svcs.seen, pods.seen, ApiServerIp, Included, Excluded)
    IN cidr = plan.cidr /\ excludeCidr = plan.exclude /\ (~missed => svcs.all /\ pods.all)

\* The inductive invariant of the routes.
RoutesInv ==
  /\ scene \in Scenes
  /\ routed \subseteq ToSet(cidr)
  /\ routing = "none" => cidr = <<>> /\ session # "ready"
  /\ routing # "none" => Listed

\* The options stay what they are.
LEMMA SameScene ==
  ASSUME scene' = scene
  PROVE  /\ Lists(scene.svcs)' = Lists(scene.svcs) /\ PodLists' = PodLists
         /\ ApiServerIp' = ApiServerIp /\ Included' = Included /\ Excluded' = Excluded
<1>1. \A ips : Lists(ips)' = Lists(ips)
  BY DEF Lists
<1>2. ApiServerIp' = ApiServerIp /\ Included' = Included
  BY DEF ApiServerIp, Included
<1>3. Excluded' = Excluded
  BY <1>2 DEF Excluded
<1>4. Lists(scene.svcs)' = Lists(scene.svcs) /\ Lists(scene.pods)' = Lists(scene.pods)
  BY DEF Lists
<1>. QED
  BY <1>2, <1>3, <1>4 DEF PodLists

\* At the start nothing is listed.
LEMMA RoutesInvInit == Init => RoutesInv
<1>1. ToSet(<<>>) = {}
  BY DEF ToSet
<1>. QED
  BY <1>1 DEF Init, RoutesInit, RoutesInv

\* What is listed stays as it is.
LEMMA StillListed ==
  ASSUME RoutesInv, UNCHANGED <<scene, cidr, excludeCidr, missed>>, routing # "none",
         routing' # "none", routed' \subseteq ToSet(cidr)
  PROVE  RoutesInv'
<1>1. Listed'
  <2>1. PICK svcs \in Lists(scene.svcs), pods \in PodLists :
          LET plan == PlanFor(svcs.seen, pods.seen, ApiServerIp, Included, Excluded)
          IN cidr = plan.cidr /\ excludeCidr = plan.exclude /\ (~missed => svcs.all /\ pods.all)
    BY DEF RoutesInv, Listed
  <2>2. \E s \in Lists(scene.svcs)', p \in PodLists' :
          LET plan == PlanFor(s.seen, p.seen, ApiServerIp', Included', Excluded')
          IN cidr' = plan.cidr /\ excludeCidr' = plan.exclude /\ (~missed' => s.all /\ p.all)
    BY <2>1, SameScene
  <2>. QED
    BY <2>2 DEF Listed
<1>. QED
  BY <1>1 DEF RoutesInv

\* Every step of a session keeps the invariant.
LEMMA RoutesInvStep == RoutesInv /\ [Next]_vars => RoutesInv'
<1> SUFFICES ASSUME RoutesInv, [Next]_vars PROVE RoutesInv'
  OBVIOUS
<1>1. ASSUME UNCHANGED routeVars, session' = "ready" => session = "ready" PROVE RoutesInv'
  <2>1. UNCHANGED <<scene, routing, cidr, excludeCidr, missed, routed>>
    BY <1>1 DEF routeVars
  <2>2. CASE routing = "none"
    BY <1>1, <2>1, <2>2 DEF RoutesInv
  <2>3. CASE routing # "none"
    BY <2>1, <2>3, StillListed DEF RoutesInv
  <2>. QED
    BY <2>2, <2>3
<1>2. CASE Start
  BY <1>1, <1>2 DEF Start
<1>3. CASE Proxy
  BY <1>1, <1>3 DEF Proxy
<1>4. CASE Routes
  <2>1. CASE ClusterCidr
    <3>1. PICK svcs \in Lists(scene.svcs), pods \in PodLists :
            LET plan == PlanFor(svcs.seen, pods.seen, ApiServerIp, Included, Excluded)
            IN cidr' = plan.cidr /\ excludeCidr' = plan.exclude /\ missed' = ~(svcs.all /\ pods.all)
      BY <2>1 DEF ClusterCidr, PlanFor
    <3>2. UNCHANGED <<scene, routed>> /\ routing' = "listed" /\ routed = {}
      <4>1. ToSet(<<>>) = {}
        BY DEF ToSet
      <4>. QED
        BY <2>1, <4>1 DEF ClusterCidr, RoutesInv
    <3>3. \E s \in Lists(scene.svcs)', p \in PodLists' :
            LET plan == PlanFor(s.seen, p.seen, ApiServerIp', Included', Excluded')
            IN cidr' = plan.cidr /\ excludeCidr' = plan.exclude /\ (~missed' => s.all /\ p.all)
      BY <3>1, <3>2, SameScene
    <3>4. Listed'
      BY <3>3 DEF Listed
    <3>. QED
      BY <3>2, <3>4 DEF RoutesInv
  <2>2. CASE SetRoute
    BY <2>2, StillListed DEF SetRoute
  <2>3. CASE StartSshuttle
    BY <2>3, StillListed DEF StartSshuttle, RunShuttle, RoutesInv
  <2>. QED
    BY <1>4, <2>1, <2>2, <2>3 DEF Routes
<1>5. CASE Sshuttle
  <2>1. routing # "none" /\ UNCHANGED <<scene, routing, cidr, excludeCidr, missed>>
    BY <1>5 DEF Sshuttle, RoutesInv, SshuttleEnds, RestartSshuttle
  <2>2. routed' \subseteq ToSet(cidr)
    BY <1>5 DEF Sshuttle, RoutesInv, SshuttleEnds, RestartSshuttle, RunShuttle
  <2>. QED
    BY <2>1, <2>2, StillListed
<1>6. CASE Lookup
  BY <1>1, <1>6 DEF Lookup
<1>7. CASE UNCHANGED vars
  BY <1>1, <1>7 DEF vars
<1>. QED
  BY <1>2, <1>3, <1>4, <1>5, <1>6, <1>7 DEF Next

\* What a session routes is what ClusterCidr planned for what it listed, whichever lists were
\* refused, routes failed and processes ended: cidr.go, SetRoute and sshuttle.go.
THEOREM RoutesCorrect == FairSpec => []RoutesInv
<1>. QED
  BY RoutesInvInit, RoutesInvStep, PTL DEF FairSpec

-------------------------------------------------------------------------------
(* The options of a session *)

\* The lists and options of a session are addresses and ranges.
LEMMA SceneIs ==
  ASSUME scene \in Scenes
  PROVE  /\ scene.svcs \in Seq(AllAddresses) /\ scene.pods \in Seq(AllAddresses)
         /\ scene.api \in Seq(AllAddresses)
         /\ scene.include \in Seq(Ranges) /\ scene.exclude \in Seq(Ranges)
<1> DEFINE ranges == [bits : UNION {[1 .. n -> {0, 1}] : n \in 0 .. Bits}, slash : BOOLEAN]
<1>1. /\ {scene.svcs, scene.pods, scene.api} \subseteq Seq(AllAddresses)
      /\ {scene.include, scene.exclude} \subseteq Seq(ranges)
  BY ScenesAssumption DEF ScenesAssumption, AllAddresses
<1>2. ranges \subseteq Ranges
  <2>1. ASSUME NEW n \in 0 .. Bits, NEW w \in [1 .. n -> {0, 1}] PROVE w \in Words
    <3>1. n \in Nat
      BY SegmentsIs
    <3>. QED
      BY <3>1, IsASeq DEF Words
  <2>. QED
    BY <2>1 DEF Ranges
<1> HIDE DEF ranges
<1>3. \A s \in Seq(ranges) : s \in Seq(Ranges)
  BY <1>2, SeqMonotonic
<1>. QED
  BY <1>1, <1>3

\* The options as the code reads them.
LEMMA OptionsAre ==
  ASSUME scene \in Scenes
  PROVE  /\ ApiServerIp \in AllAddresses \cup {<<>>}
         /\ Included \in Seq(Ranges) /\ ToSet(Included) \subseteq ToSet(scene.include)
         /\ Excluded \in Seq(Ranges)
         /\ ToSet(scene.exclude) \subseteq ToSet(Excluded)
         /\ \A e \in ToSet(Excluded) :
              e \in ToSet(scene.exclude) \/ (ApiServerIp # <<>> /\ e = RangeOf(ApiServerIp))
<1>1. ApiServerIp \in AllAddresses \cup {<<>>}
  <2>1. scene.api # <<>> => 1 \in DOMAIN scene.api
    BY SceneIs, EmptySeq, LenProperties
  <2>. QED
    BY <2>1, SceneIs, ElementOfSeq, LenProperties DEF ApiServerIp
<1>2. Included \in Seq(Ranges) /\ ToSet(Included) \subseteq ToSet(scene.include)
  BY SceneIs, KeptIs DEF Included
<1>3. CASE scene.exclude = <<>>
  <2>1. Excluded = <<>> /\ <<>> \in Seq(Ranges) /\ ToSet(<<>>) = {}
    BY <1>3 DEF Excluded, ToSet
  <2>. QED
    BY <1>1, <1>2, <1>3, <2>1
<1>4. CASE scene.exclude # <<>>
  <2> DEFINE api == IF ApiServerIp = <<>> THEN <<>> ELSE <<RangeOf(ApiServerIp)>>
  <2>1. Excluded = scene.exclude \o api
    BY <1>4 DEF Excluded
  <2>2. api \in Seq(Ranges)
    <3>1. ApiServerIp # <<>> => RangeOf(ApiServerIp) \in Ranges
      BY <1>1, AddressIs DEF RangeOf, Ranges
    <3>. QED
      BY <3>1
  <2>3. \A e \in ToSet(api) : ApiServerIp # <<>> /\ e = RangeOf(ApiServerIp)
    BY DEF ToSet
  <2> HIDE DEF api
  <2>4. scene.exclude \in Seq(Ranges)
    BY SceneIs
  <2>5. Excluded \in Seq(Ranges) /\ ToSet(Excluded) = ToSet(scene.exclude) \cup ToSet(api)
    BY <2>1, <2>2, <2>4, JoinIs
  <2>. QED
    BY <1>1, <1>2, <2>3, <2>5
<1>. QED
  BY <1>1, <1>2, <1>3, <1>4

\* What a list is cut to is a list, and the whole of it below the limit.
LEMMA LimitedIs ==
  ASSUME NEW ips \in Seq(AllAddresses)
  PROVE  Cut(ips) \in Seq(AllAddresses) /\ (Len(ips) <= ListLimit => Cut(ips) = ips)
<1>1. ListLimit \in Nat /\ Len(ips) \in Nat
  BY RoutesAssumption
<1>2. CASE Len(ips) <= ListLimit
  BY <1>2 DEF Cut
<1>3. CASE ~(Len(ips) <= ListLimit)
  <2>1. Cut(ips) = SubSeq(ips, 1, ListLimit) /\ ListLimit \in Int
    BY <1>1, <1>3 DEF Cut
  <2>2. \A i \in 1 .. ListLimit : ips[i] \in AllAddresses
    BY <1>1, <1>3
  <2>3. SubSeq(ips, 1, ListLimit) \in Seq(AllAddresses)
    BY <2>1, <2>2, SubSeqProperties
  <2>. QED
    BY <1>3, <2>1, <2>3
<1>. QED
  BY <1>2, <1>3

\* The lists a session may have got.
LEMMA ListedIs ==
  ASSUME RoutesInv, routing # "none"
  PROVE  \E svcs \in Seq(AllAddresses), pods \in Seq(AllAddresses) :
           /\ cidr = PlanFor(svcs, pods, ApiServerIp, Included, Excluded).cidr
           /\ excludeCidr = PlanFor(svcs, pods, ApiServerIp, Included, Excluded).exclude
           /\ ~missed => ToSet(svcs) \cup ToSet(pods) = Seen
<1>1. PICK svcs \in Lists(scene.svcs), pods \in PodLists :
        /\ cidr = PlanFor(svcs.seen, pods.seen, ApiServerIp, Included, Excluded).cidr
        /\ excludeCidr = PlanFor(svcs.seen, pods.seen, ApiServerIp, Included, Excluded).exclude
        /\ ~missed => svcs.all /\ pods.all
  BY DEF RoutesInv, Listed
<1>2. ASSUME NEW ips \in Seq(AllAddresses), NEW l \in Lists(ips)
      PROVE  l.seen \in Seq(AllAddresses) /\ (l.all => l.seen = ips)
  <2>1. Cut(Kept(ips, scene.own)) \in Seq(AllAddresses)
    <3>1. ips \in Seq(AllAddresses)
      BY <1>2
    <3>2. Kept(ips, scene.own) \in Seq(AllAddresses)
      BY <3>1, KeptIs
    <3>. QED
      BY <3>2, LimitedIs
  <2>2. <<>> \in Seq(AllAddresses)
    OBVIOUS
  <2>3. \/ l = [seen |-> Cut(ips), all |-> Len(ips) <= ListLimit]
        \/ l = [seen |-> Cut(Kept(ips, scene.own)), all |-> FALSE]
        \/ l = [seen |-> <<>>, all |-> FALSE]
    BY <1>2 DEF Lists
  <2>4. \/ l.seen = Cut(ips) /\ l.all = (Len(ips) <= ListLimit)
        \/ l.seen = Cut(Kept(ips, scene.own)) /\ l.all = FALSE
        \/ l.seen = <<>> /\ l.all = FALSE
    BY <2>3
  <2>5. ips \in Seq(AllAddresses)
    BY <1>2
  <2>6. Cut(ips) \in Seq(AllAddresses) /\ (Len(ips) <= ListLimit => Cut(ips) = ips)
    BY <2>5, LimitedIs
  <2> HIDE <1>2
  <2>. QED
    BY <2>1, <2>2, <2>4, <2>6
<1>3. scene.svcs \in Seq(AllAddresses) /\ scene.pods \in Seq(AllAddresses)
  BY SceneIs DEF RoutesInv
<1>4. svcs.seen \in Seq(AllAddresses) /\ (svcs.all => svcs.seen = scene.svcs)
  BY <1>2, <1>3
<1>5. /\ pods.seen \in Seq(AllAddresses)
      /\ pods.all => ToSet(pods.seen) = IF scene.disablePodIp THEN {} ELSE ToSet(scene.pods)
  <2>1. CASE scene.disablePodIp
    <3>1. pods = [seen |-> <<>>, all |-> TRUE] /\ ToSet(<<>>) = {}
      BY <2>1 DEF PodLists, ToSet
    <3>. QED
      BY <2>1, <3>1
  <2>2. CASE ~scene.disablePodIp
    BY <1>2, <1>3, <2>2 DEF PodLists
  <2>. QED
    BY <2>1, <2>2
<1>6. ~missed => ToSet(svcs.seen) \cup ToSet(pods.seen) = Seen
  BY <1>1, <1>4, <1>5 DEF Seen
<1>. QED
  BY <1>1, <1>4, <1>5, <1>6

\* What the ranges of a session do to an address, in terms of what was listed.
LEMMA RoutesAre ==
  ASSUME RoutesInv, routing # "none"
  PROVE  /\ cidr \in Seq(Ranges)
         /\ \E svcs \in Seq(AllAddresses), pods \in Seq(AllAddresses) :
              /\ ~missed => ToSet(svcs) \cup ToSet(pods) = Seen
              /\ Serves(cidr, excludeCidr, svcs, pods, ApiServerIp, Included, Excluded)
<1>1. PICK svcs \in Seq(AllAddresses), pods \in Seq(AllAddresses) :
        /\ cidr = PlanFor(svcs, pods, ApiServerIp, Included, Excluded).cidr
        /\ excludeCidr = PlanFor(svcs, pods, ApiServerIp, Included, Excluded).exclude
        /\ ~missed => ToSet(svcs) \cup ToSet(pods) = Seen
  BY ListedIs
<1>2. /\ ApiServerIp \in AllAddresses \cup {<<>>}
      /\ Included \in Seq(Ranges) /\ Excluded \in Seq(Ranges)
  BY OptionsAre DEF RoutesInv
<1>3. /\ PlanFor(svcs, pods, ApiServerIp, Included, Excluded) \in Plans
      /\ Serves(cidr, excludeCidr, svcs, pods, ApiServerIp, Included, Excluded)
  BY <1>1, <1>2, PlanIs
<1>. QED
  BY <1>1, <1>3 DEF Plans

\* Nothing is routed before the ranges are listed.
LEMMA TunnelledIs ==
  ASSUME RoutesInv, NEW a, Tunnelled(a)
  PROVE  /\ routing # "none"
         /\ \E r \in ToSet(cidr) :
              /\ IsPrefix(r.bits, a)
              /\ \A e \in Bypassed : IsPrefix(e.bits, a) => Len(e.bits) < Len(r.bits)
<1>1. PICK r \in routed : /\ IsPrefix(r.bits, a)
                          /\ \A e \in Bypassed : IsPrefix(e.bits, a) => Len(e.bits) < Len(r.bits)
  BY DEF Tunnelled
<1>2. r \in ToSet(cidr)
  BY DEF RoutesInv
<1>3. routing # "none"
  <2>1. ToSet(<<>>) = {}
    BY DEF ToSet
  <2>. QED
    BY <1>2, <2>1 DEF RoutesInv
<1>. QED
  BY <1>1, <1>2, <1>3

\* No planned range holds the API server unless the user included one.
LEMMA RoutesInvDirect == RoutesInv => ApiServerDirect
<1> SUFFICES ASSUME RoutesInv, ApiServerIp # <<>>, Tunnelled(ApiServerIp),
                    \A i \in DOMAIN scene.include : ~IsPrefix(scene.include[i].bits, ApiServerIp)
             PROVE  FALSE
  BY DEF ApiServerDirect
<1>1. /\ ApiServerIp \in AllAddresses
      /\ \A c \in ToSet(Included) : ~IsPrefix(c.bits, ApiServerIp)
  <2>1. /\ ApiServerIp \in AllAddresses \cup {<<>>}
        /\ ToSet(Included) \subseteq ToSet(scene.include)
    BY OptionsAre DEF RoutesInv
  <2>2. \A c \in ToSet(scene.include) : ~IsPrefix(c.bits, ApiServerIp)
    BY DEF ToSet
  <2>. QED
    BY <2>1, <2>2
<1>2. routing # "none" /\ \E r \in ToSet(cidr) : IsPrefix(r.bits, ApiServerIp)
  BY TunnelledIs
<1>. QED
  BY <1>1, <1>2, RoutesAre DEF Serves

\* Over an excluded address a planned range gives way to one that is bypassed, unless it is
\* one of those the user includes.
LEMMA RoutesInvBypassed == RoutesInv => ExcludedBypassed
<1> SUFFICES ASSUME RoutesInv, scene.mode = "sshuttle",
                    NEW e \in ToSet(scene.exclude), e.slash, NEW a \in AllAddresses,
                    IsPrefix(e.bits, a), Tunnelled(a),
                    \A i \in DOMAIN scene.include : ~IsPrefix(scene.include[i].bits, a)
             PROVE  FALSE
  BY DEF ExcludedBypassed
<1>1. /\ e \in ToSet(Excluded) /\ Excluded \in Seq(Ranges)
      /\ \A c \in ToSet(Included) : ~IsPrefix(c.bits, a)
  <2>1. /\ ToSet(scene.exclude) \subseteq ToSet(Excluded) /\ Excluded \in Seq(Ranges)
        /\ ToSet(Included) \subseteq ToSet(scene.include)
    BY OptionsAre DEF RoutesInv
  <2>2. \A c \in ToSet(scene.include) : ~IsPrefix(c.bits, a)
    BY DEF ToSet
  <2>. QED
    BY <2>1, <2>2
<1>2. PICK r \in ToSet(cidr) :
        /\ IsPrefix(r.bits, a)
        /\ \A x \in ToSet(excludeCidr) : IsPrefix(x.bits, a) => Len(x.bits) < Len(r.bits)
  BY TunnelledIs DEF Bypassed
<1>3. e \in ToSet(excludeCidr) /\ Len(r.bits) <= Len(e.bits)
  <2>1. routing # "none"
    BY TunnelledIs
  <2>. QED
    BY <1>1, <1>2, <2>1, RoutesAre DEF Serves
<1>4. Len(e.bits) < Len(r.bits)
  BY <1>2, <1>3
<1>5. Len(e.bits) \in Nat /\ Len(r.bits) \in Nat
  <2>1. e.bits \in Words
    BY <1>1, ElementsAre DEF Ranges
  <2>2. r.bits \in Words
    <3>1. cidr \in Seq(Ranges)
      BY RoutesAre, TunnelledIs
    <3>. QED
      BY <3>1, ElementsAre DEF Ranges
  <2>. QED
    BY <2>1, <2>2 DEF Words
<1>. QED
  BY <1>3, <1>4, <1>5

\* Where every route is set, each address that was listed and not left out is in one.
LEMMA RoutesInvReached == RoutesInv => NamesReachCluster
<1> SUFFICES ASSUME RoutesInv, session = "ready", ~missed, routed = ToSet(cidr),
                    NEW q \in Queries, query[q].got \in Addresses,
                    Ip[query[q].got] \in Seen \ (LeftOut \cup {ApiServerIp})
             PROVE  Tunnelled(Ip[query[q].got])
  BY DEF NamesReachCluster
<1> DEFINE a == Ip[query[q].got]
<1>1. a \in AllAddresses /\ a \in Seen /\ a # ApiServerIp /\ a \notin LeftOut
  BY NetworkAssumption DEF NetworkAssumption, AllAddresses
<1> HIDE DEF a
<1>2. \A e \in ToSet(Excluded) : ~IsPrefix(e.bits, a)
  <2>1. \A e \in ToSet(scene.exclude) : ~IsPrefix(e.bits, a)
    BY <1>1 DEF LeftOut, Covered
  <2>2. /\ ApiServerIp \in AllAddresses \cup {<<>>}
        /\ \A e \in ToSet(Excluded) :
             e \in ToSet(scene.exclude) \/ (ApiServerIp # <<>> /\ e = RangeOf(ApiServerIp))
    BY OptionsAre DEF RoutesInv
  <2>3. ASSUME ApiServerIp # <<>> PROVE ~IsPrefix(RangeOf(ApiServerIp).bits, a)
    <3> DEFINE p == ApiServerIp
    <3>1. p \in Words /\ a \in Words /\ Len(p) = Len(a)
      BY <1>1, <2>2, <2>3, AddressIs
    <3>2. p # a /\ RangeOf(ApiServerIp).bits = p
      BY <1>1 DEF RangeOf
    <3> HIDE DEF p
    <3>3. IsPrefix(p, a) => IsPrefix(a, p)
      BY <3>1, PrefixIs
    <3>. QED
      BY <3>1, <3>2, <3>3, PrefixFacts
  <2>. QED
    BY <2>1, <2>2, <2>3
<1>3. routing # "none"
  BY DEF RoutesInv
<1>4. PICK svcs \in Seq(AllAddresses), pods \in Seq(AllAddresses) :
        /\ ToSet(svcs) \cup ToSet(pods) = Seen
        /\ ToSet(excludeCidr) \subseteq ToSet(Excluded)
        /\ Holding(ClusterRanges(svcs, pods), a) => \E r \in ToSet(cidr) : IsPrefix(r.bits, a)
  BY <1>1, <1>2, <1>3, RoutesAre DEF Serves
<1>5. Holding(ClusterRanges(svcs, pods), a)
  BY <1>1, <1>4, HoldingIs
<1>6. \A e \in Bypassed : ~IsPrefix(e.bits, a)
  BY <1>2, <1>4 DEF Bypassed
<1>7. Tunnelled(a)
  BY <1>4, <1>5, <1>6 DEF Tunnelled
<1>. QED
  BY <1>7 DEF a

\* The planned ranges are those of the groups.
LEMMA RoutesInvExact == RoutesInv => CidrExact
<1> SUFFICES ASSUME RoutesInv, routing = "listed", ~missed,
                    scene.include = <<>>, scene.exclude = <<>>
             PROVE  Covered(ToSet(cidr)) = Covered(ExpectedRanges) \ {ApiServerIp}
  BY DEF CidrExact
<1>1. ToSet(Included) = {} /\ ToSet(Excluded) = {}
  <2>1. ToSet(<<>>) = {}
    BY DEF ToSet
  <2>2. ToSet(Included) \subseteq ToSet(scene.include)
    BY OptionsAre DEF RoutesInv
  <2>. QED
    BY <2>1, <2>2 DEF Excluded
<1>2. PICK svcs \in Seq(AllAddresses), pods \in Seq(AllAddresses) :
        /\ ToSet(svcs) \cup ToSet(pods) = Seen
        /\ \A a \in AllAddresses :
             (\E r \in ToSet(cidr) : IsPrefix(r.bits, a)) <=>
               Holding(ClusterRanges(svcs, pods), a) /\ a # ApiServerIp
  BY <1>1, RoutesAre DEF Serves
<1>3. ASSUME NEW a \in AllAddresses
      PROVE  Holding(ClusterRanges(svcs, pods), a) <=>
               \E r \in ExpectedRanges : IsPrefix(r.bits, a)
  <2>1. Holding(ClusterRanges(svcs, pods), a) <=> Gathered(Seen, a)
    BY <1>2, HoldingIs
  <2>2. \A ip : GroupOf(Seen, ip) = Group(ip)
    BY DEF GroupOf, Group
  <2>3. \A w : RangeOf(w).bits = w
    BY DEF RangeOf
  <2>. QED
    BY <2>1, <2>2, <2>3 DEF Gathered, ExpectedRanges
<1>4. \A a \in AllAddresses :
        a \in Covered(ToSet(cidr)) <=> a \in Covered(ExpectedRanges) /\ a # ApiServerIp
  BY <1>2, <1>3 DEF Covered
<1>5. \A S : Covered(S) \subseteq AllAddresses
  BY DEF Covered
<1>. QED
  BY <1>4, <1>5

\* The ranges MergeIpRange computes one address at a time, in whatever order they were listed,
\* cover exactly what grouping the addresses gives, without the API server.
THEOREM CidrExactCorrect == FairSpec => []CidrExact
<1>. QED
  BY RoutesCorrect, RoutesInvExact, PTL

\* The connection to the cluster never goes through itself, whatever is listed and excluded,
\* unless the user includes the API server: ExcludeIpFromRange and SetRoute.
THEOREM ApiServerDirectCorrect == FairSpec => []ApiServerDirect
<1>. QED
  BY RoutesCorrect, RoutesInvDirect, PTL

\* With sshuttle no excluded address goes to the cluster unless the user includes it, however
\* the ranges lie to each other: the loop over excludeIps, and every start of sshuttle.
THEOREM ExcludedBypassedCorrect == FairSpec => []ExcludedBypassed
<1>. QED
  BY RoutesCorrect, RoutesInvBypassed, PTL

\* Where every route was set, a name that is looked up leads into the cluster when its address
\* was listed and not left out: dnsserver.go, cidr.go and SetRoute together.
THEOREM NamesReachClusterCorrect == FairSpec => []NamesReachCluster
<1>. QED
  BY RoutesCorrect, RoutesInvReached, PTL

-------------------------------------------------------------------------------
(* The SOCKS proxy *)

\* The goroutine of a proxy and the caller of startSocks5Connection: one that reads gone
\* in time has a caller that has returned or waits, and calls again when it has returned.
SocksInv ==
  /\ caller = "none" <=> proxy = "none"
  /\ gone <=> caller = "established"
  /\ proxy \in {"running", "ended"} => caller # "error"
  /\ proxy = "sending" => early /\ caller # "error"
  /\ proxy \in {"quiet", "waiting"} => caller \in {"established", "error"}

ProxyInv == TypeOK /\ AskedInOrder /\ SocksInv

\* At the start there is neither a route nor a query nor a proxy.
LEMMA ProxyInvInit == Init => ProxyInv
<1> SUFFICES ASSUME Init PROVE ProxyInv
  OBVIOUS
<1>1. LookupType /\ AskedInOrder
  BY LookupInvInit DEF Init, LookupInv, TypeInv
<1>2. RoutesType
  BY DEF Init, RoutesInit, RoutesType
<1>3. SocksType /\ SocksInv
  <2>1. SocksInit
    BY DEF Init
  <2>2. MaxFailures \in Nat
    BY SocksAssumption DEF SocksAssumption
  <2>3. failures \in 0 .. MaxFailures
    BY <2>1, <2>2 DEF SocksInit
  <2>4. SocksType
    BY <2>1, <2>3 DEF SocksInit, SocksType
  <2>5. SocksInv
    BY <2>1 DEF SocksInit, SocksInv
  <2>. QED
    BY <2>4, <2>5
<1>. QED
  BY <1>1, <1>2, <1>3 DEF Init, ProxyInv, TypeOK

\* A step of the goroutine or of its caller.
LEMMA SocksStep ==
  ASSUME SocksType, SocksInv, FirstConnection \/ SocksNext
  PROVE  SocksType' /\ SocksInv'
<1> USE DEF SocksType, SocksInv, StartSocks5Connection
<1>1. CASE FirstConnection
  BY <1>1 DEF FirstConnection
<1>2. CASE ProxyEnds
  BY <1>2, SocksAssumption DEF ProxyEnds, SocksAssumption
<1>3. CASE ReadGone
  BY <1>3 DEF ReadGone, Sends
<1>4. CASE Receive
  BY <1>4 DEF Receive
<1>5. CASE StopTicker
  BY <1>5 DEF StopTicker
<1>6. CASE Reconnect
  BY <1>6 DEF Reconnect
<1>7. CASE SetupSocks5HeartBeat
  BY <1>7 DEF SetupSocks5HeartBeat
<1>8. CASE MarkGone
  BY <1>8 DEF MarkGone
<1>. QED
  BY <1>1, <1>2, <1>3, <1>4, <1>5, <1>6, <1>7, <1>8 DEF SocksNext

\* A step of the routes or of sshuttle.
LEMMA RoutesStep ==
  ASSUME RoutesType, RoutesInv,
         ClusterCidr \/ SetRoute \/ StartSshuttle \/ SshuttleEnds \/ RestartSshuttle
  PROVE  RoutesType'
<1> USE DEF RoutesType
<1>1. CASE ClusterCidr
  <2>1. routed' = {}
    <3>1. routed = {} /\ routed' = routed
      BY <1>1 DEF ClusterCidr, RoutesInv, ToSet
    <3>. QED
      BY <3>1
  <2>2. routing' = "listed" /\ missed' \in BOOLEAN /\ shuttle' = shuttle
    BY <1>1 DEF ClusterCidr
  <2>. QED
    BY <2>1, <2>2
<1>2. CASE SetRoute
  BY <1>2 DEF SetRoute
<1>3. CASE StartSshuttle
  BY <1>3 DEF StartSshuttle, RunShuttle
<1>4. CASE SshuttleEnds
  BY <1>4 DEF SshuttleEnds
<1>5. CASE RestartSshuttle
  BY <1>5 DEF RestartSshuttle, RunShuttle
<1>. QED
  BY <1>1, <1>2, <1>3, <1>4, <1>5

\* Every step of a session keeps the types, and what the proxy and its caller know.
LEMMA ProxyInvStep == ProxyInv /\ RoutesInv /\ [Next]_vars => ProxyInv'
<1> SUFFICES ASSUME ProxyInv, RoutesInv, [Next]_vars PROVE ProxyInv'
  OBVIOUS
<1> DEFINE Sessions == {"start", "proxy", "routes", "ready", "failed"}
<1>1. /\ session \in Sessions /\ RoutesType /\ LookupType /\ SocksType
      /\ AskedInOrder /\ SocksInv
  BY DEF ProxyInv, TypeOK
<1>2. LookupType' /\ AskedInOrder'
  BY <1>1, SessionSteps, LookupTypeStep DEF TypeInv
<1>3. session' \in Sessions
  BY <1>1 DEF Next, Start, Proxy, Routes, Sshuttle, Lookup, vars
<1>4. RoutesType'
  <2>1. CASE UNCHANGED routeVars
    BY <1>1, <2>1 DEF routeVars, RoutesType
  <2>2. CASE Routes \/ Sshuttle
    BY <1>1, <2>2, RoutesStep DEF Routes, Sshuttle
  <2>. QED
    BY <2>1, <2>2 DEF Next, Start, Proxy, Lookup, vars
<1>5. SocksType' /\ SocksInv'
  <2>1. CASE UNCHANGED socksVars
    BY <1>1, <2>1 DEF socksVars, SocksType, SocksInv
  <2>2. CASE FirstConnection \/ SocksNext
    BY <1>1, <2>2, SocksStep
  <2>. QED
    BY <2>1, <2>2 DEF Next, Start, Proxy, Routes, Sshuttle, Lookup, vars
<1>. QED
  BY <1>2, <1>3, <1>4, <1>5 DEF ProxyInv, TypeOK

\* The variables of a session have their types, and the proxy goes on as its caller expects.
THEOREM ProxyInvCorrect == FairSpec => []ProxyInv
<1>. QED
  BY RoutesCorrect, ProxyInvInit, ProxyInvStep, PTL DEF FairSpec

\* What keeps a proxy that has ended from being started again: its goroutine sends to a
\* caller that has left select.
Stuck == proxy = "sending" /\ caller # "select"

\* Nobody but a goroutine that has read gone before it was set sends to a caller that has
\* left: startSocks5Connection of tun2socks.go.
THEOREM StuckWhenEarly == FairSpec => [](Stuck => early /\ caller \in {"beat", "established"})
<1>1. ProxyInv => (Stuck => early /\ caller \in {"beat", "established"})
  BY DEF ProxyInv, TypeOK, SocksType, SocksInv, Stuck
<1>. QED
  BY <1>1, ProxyInvCorrect, PTL

\* The goroutine makes the next call only when the one before has returned: no two
\* calls of startSocks5Connection overlap, and no two proxies run at a time.
THEOREM CallsApart == FairSpec => [][Reconnect => caller \in {"established", "error"}]_vars
<1>1. ProxyInv => (Reconnect => caller \in {"established", "error"})
  BY DEF ProxyInv, SocksInv, Reconnect
<1>. QED
  BY <1>1, ProxyInvCorrect, PTL

=============================================================================
