---------------------------- MODULE RouterConfProofs ----------------------------
(***************************************************************************)
(* Theorems about RouterConf, for any number of sessions, any headers and  *)
(* any scenarios: the router program implements RouteStore, and nginx      *)
(* comes to route what is written.                                         *)
(***************************************************************************)
EXTENDS RouterConf, SequenceTheorems, FiniteSetTheorems, TLAPS

-------------------------------------------------------------------------------
(* What the processes do to kt.conf *)

\* Who works on the files has the lock, ...
Ownership == \A s \in Sessions : pc[s] \in Inside <=> flock = s

\* ... the first session of a router writes kt.conf before any other can: what
\* is missing or broken refuses them, ...
SetupFirst ==
  /\ router = Nobody =>
       /\ \A s \in Sessions : pc[s] = "out"
       /\ ktConf.state = "missing" /\ ktConf.conf.versions = <<>>
  /\ \A s \in Sessions : pc[s] = "out" => job[s] = "add"
  /\ \A s \in Sessions : job[s] = "setup" => s = router /\ pc[s] # "read"
  /\ \A s \in Sessions : job[s] = "setup" /\ pc[s] \in {"wait", "truncate", "write"} =>
       /\ ktConf.state # "complete" /\ ktConf.conf.versions = <<>>
       /\ \A t \in Sessions \ {s} : pc[t] \notin {"truncate", "write"}

\* ... what a process is about to write is one update of what is there, ...
Update(s) ==
  CASE job[s] = "setup"  -> <<s>>
    [] job[s] = "add"    -> Append(ktConf.conf.versions, s)
    [] job[s] = "remove" -> Removed(ktConf.conf.versions, s)

CopyIsUpdate ==
  \A s \in Sessions : pc[s] \in {"truncate", "write"} => copy[s].versions = Update(s)

\* ... and what it writes to route.conf next is what it has written to kt.conf.
CopyIsWritten ==
  \A s \in Sessions : pc[s] \in {"drop", "create", "fill"} => copy[s] = ktConf.conf

ConfInv == TypeOK /\ Ownership /\ SetupFirst /\ CopyIsUpdate /\ CopyIsWritten

-------------------------------------------------------------------------------
(* What nginx gets to see *)

At(states) == \E s \in Sessions : pc[s] \in states

\* Where no process is killed route.conf agrees with kt.conf but for the time
\* between the two writes, and nginx with route.conf but for the time until the
\* signal; half a file is there only while somebody writes it, ...
RouteInv ==
  /\ route.state # "full" => route.versions = <<>>
  /\ "kill" \notin allowed =>
       /\ route.state \in {"empty", "partial"} => At({"fill"})
       /\ ~At({"drop", "create", "fill"}) => route.versions = ktConf.conf.versions
       /\ ~At({"create", "fill", "signal"}) => hup \/ loaded = Range(route.versions)

\* ... a signal is answered before the next process begins, ...
Prompt ==
  "slowReload" \notin allowed /\ hup =>
    \A s \in Sessions : pc[s] \in Inside => pc[s] = "unlock"

\* ... and what nginx routes, or reads next, is written until its own session removes it.
RoutedIsWritten ==
  \A s \in loaded \cup Range(route.versions) :
    "kill" \in allowed \/ s \in Range(ktConf.conf.versions) \/ job[s] = "remove"

IInv == ConfInv /\ RouteInv /\ Prompt /\ RoutedIsWritten

-------------------------------------------------------------------------------
(* Lists of versions *)

\* What occurs in a list has a first occurrence there.
LEMMA FirstOccurrence ==
  ASSUME NEW S, NEW vs \in Seq(S), NEW v \in Range(vs)
  PROVE  \E i \in DOMAIN vs : vs[i] = v /\ \A j \in 1 .. i - 1 : vs[j] # v
<1> DEFINE Found == {i \in 1 .. Len(vs) : vs[i] = v}
           Upto  == {1 .. i : i \in Found}
<1>0. Len(vs) \in Nat /\ DOMAIN vs = 1 .. Len(vs)
  BY LenProperties
<1>1. PICK k \in Found : TRUE
  BY <1>0 DEF Range
<1>2. ASSUME NEW i \in 1 .. Len(vs) PROVE 1 .. i \in FiniteSubsetsOf(1 .. Len(vs))
  <2>1. IsFiniteSet(1 .. i)
    BY <1>0, FS_Interval
  <2>. QED
    BY <1>0, <2>1 DEF FiniteSubsetsOf
<1>3. PICK P \in Upto : \A Q \in Upto : ~(<<Q, P>> \in StrictSubsetOrdering(1 .. Len(vs)))
  <2>1. Upto # {}
    BY <1>1
  <2>2. Upto \subseteq FiniteSubsetsOf(1 .. Len(vs))
    BY <1>2
  <2>. QED
    BY <2>1, <2>2, FS_StrictSubsetOrderingWellFounded, WFMin
<1>4. PICK i \in Found : P = 1 .. i
  BY DEF Upto
<1>5. ASSUME NEW j \in 1 .. i - 1 PROVE vs[j] # v
  <2>1. SUFFICES ASSUME vs[j] = v PROVE FALSE
    OBVIOUS
  <2>2. j \in Found /\ 1 .. j \in Upto
    BY <1>0, <2>1
  <2>3. 1 .. j \subseteq 1 .. i /\ 1 .. j # 1 .. i /\ 1 .. i \subseteq 1 .. Len(vs)
    BY <1>0
  <2>. QED
    BY <1>3, <1>4, <2>2, <2>3 DEF StrictSubsetOrdering
<1>. QED
  BY <1>0, <1>4, <1>5

\* A list without one of its elements has the others.
LEMMA WithoutOne ==
  ASSUME NEW S, NEW vs \in Seq(S), NEW i \in DOMAIN vs
  PROVE  /\ Without(vs, i) \in Seq(S)
         /\ Range(vs) \subseteq Range(Without(vs, i)) \cup {vs[i]}
<1> DEFINE a == SubSeq(vs, 1, i - 1)
           b == SubSeq(vs, i + 1, Len(vs))
<1>0. Len(vs) \in Nat /\ DOMAIN vs = 1 .. Len(vs) /\ \A k \in 1 .. Len(vs) : vs[k] \in S
  BY LenProperties, ElementOfSeq
<1>1. a \in Seq(S) /\ Len(a) = i - 1 /\ \A k \in 1 .. i - 1 : a[k] = vs[k]
  <2>1. i \in Int /\ 1 \in Int /\ i - 1 \in Int /\ 1 <= i /\ \A k \in 1 .. i - 1 : vs[k] \in S
    BY <1>0
  <2>2. /\ a \in Seq(S)
        /\ Len(a) = IF 1 <= i - 1 THEN (i - 1) - 1 + 1 ELSE 0
        /\ \A k \in 1 .. (i - 1) - 1 + 1 : a[k] = vs[1 + k - 1]
    BY <2>1, SubSeqProperties
  <2>. QED
    BY <2>1, <2>2
<1>2. /\ b \in Seq(S) /\ Len(b) = Len(vs) - i
      /\ \A k \in 1 .. Len(vs) - i : b[k] = vs[i + k]
  <2>1. i + 1 \in Int /\ Len(vs) \in Int /\ i <= Len(vs) /\ \A k \in i + 1 .. Len(vs) : vs[k] \in S
    BY <1>0
  <2>2. /\ b \in Seq(S)
        /\ Len(b) = IF i + 1 <= Len(vs) THEN Len(vs) - (i + 1) + 1 ELSE 0
        /\ \A k \in 1 .. Len(vs) - (i + 1) + 1 : b[k] = vs[(i + 1) + k - 1]
    BY <2>1, SubSeqProperties
  <2>. QED
    BY <1>0, <2>1, <2>2
<1>3. /\ a \o b \in Seq(S) /\ Len(a \o b) = Len(a) + Len(b)
      /\ \A k \in 1 .. Len(a) + Len(b) :
           (a \o b)[k] = IF k <= Len(a) THEN a[k] ELSE b[k - Len(a)]
  BY <1>1, <1>2, ConcatProperties
<1> HIDE DEF a, b
<1> DEFINE c == a \o b
<1>4. ASSUME NEW k \in 1 .. Len(vs), k # i
      PROVE  \E n \in 1 .. Len(c) : c[n] = vs[k]
  <2>1. CASE k < i
    <3>1. k \in 1 .. i - 1 /\ k \in 1 .. Len(a) + Len(b) /\ k <= Len(a)
      BY <1>0, <1>1, <1>2, <2>1
    <3>. QED
      BY <1>1, <1>3, <3>1
  <2>2. CASE k > i
    <3>1. k - 1 \in 1 .. Len(a) + Len(b) /\ ~(k - 1 <= Len(a)) /\ (k - 1) - Len(a) = k - i
      BY <1>0, <1>1, <1>2, <2>2
    <3>2. k - i \in 1 .. Len(vs) - i /\ i + (k - i) = k
      BY <1>0, <2>2
    <3>. QED
      BY <1>2, <1>3, <3>1, <3>2
  <2>3. k < i \/ k > i
    BY <1>0, <1>4
  <2>. QED
    BY <2>1, <2>2, <2>3
<1>5. DOMAIN (a \o b) = 1 .. Len(a \o b)
  BY <1>3, LenProperties
<1>6. Range(vs) \subseteq Range(a \o b) \cup {vs[i]}
  BY <1>0, <1>4, <1>5 DEF Range
<1>. QED
  BY <1>3, <1>6 DEF Without, a, b

\* Removed takes out the first occurrence of a version and nothing else.
LEMMA RemovedOne ==
  ASSUME NEW S, NEW vs \in Seq(S), NEW v
  PROVE  /\ Removed(vs, v) \in Seq(S)
         /\ Range(vs) \subseteq Range(Removed(vs, v)) \cup {v}
         /\ v \notin Range(vs) => Removed(vs, v) = vs
         /\ v \in Range(vs) =>
              \E i \in DOMAIN vs : /\ vs[i] = v /\ \A j \in 1 .. i - 1 : vs[j] # v
                                  /\ Removed(vs, v) = Without(vs, i)
<1>1. CASE v \notin Range(vs)
  BY <1>1 DEF Removed
<1>2. CASE v \in Range(vs)
  <2> DEFINE P(i) == vs[i] = v /\ \A j \in 1 .. i - 1 : vs[j] # v
             i0   == CHOOSE i \in DOMAIN vs : P(i)
  <2>1. \E i \in DOMAIN vs : P(i)
    BY <1>2, FirstOccurrence
  <2>2. i0 \in DOMAIN vs /\ P(i0)
    BY <2>1
  <2>3. Removed(vs, v) = Without(vs, i0)
    BY <1>2 DEF Removed
  <2>4. Without(vs, i0) \in Seq(S) /\ Range(vs) \subseteq Range(Without(vs, i0)) \cup {v}
    BY <2>2, WithoutOne
  <2>. QED
    BY <1>2, <2>2, <2>3, <2>4
<1>. QED
  BY <1>1, <1>2

\* Append adds a version and keeps the others.
LEMMA AppendedOne ==
  ASSUME NEW S, NEW vs \in Seq(S), NEW v \in S
  PROVE  /\ Append(vs, v) \in Seq(S)
         /\ Range(vs) \subseteq Range(Append(vs, v))
<1> DEFINE a == Append(vs, v)
<1>1. /\ a \in Seq(S) /\ Len(a) = Len(vs) + 1 /\ \A i \in 1 .. Len(vs) : a[i] = vs[i]
  BY AppendProperties
<1>2. Len(vs) \in Nat /\ DOMAIN vs = 1 .. Len(vs) /\ DOMAIN a = 1 .. Len(a)
  BY <1>1, LenProperties
<1>3. \A i \in DOMAIN vs : i \in DOMAIN a /\ a[i] = vs[i]
  BY <1>1, <1>2
<1>. QED
  BY <1>1, <1>3 DEF Range

-------------------------------------------------------------------------------
(* The invariant of kt.conf *)

\* The shapes are kept.
LEMMA TypeCorrect == TypeOK /\ [Next]_vars => TypeOK'
<1> SUFFICES ASSUME TypeOK, [Next]_vars PROVE TypeOK'
  OBVIOUS
<1>1. CASE UNCHANGED vars
  BY <1>1 DEF TypeOK, vars, state, files
<1>2. CASE Reload /\ UNCHANGED allowed
  <2>1. Range(route.versions) \subseteq Sessions
    BY RangeOfSeq DEF TypeOK
  <2>. QED
    BY <1>2, <2>1 DEF Reload, TypeOK
<1>3. ASSUME NEW s \in Sessions, UNCHANGED allowed,
             Join(s) \/ Leave(s) \/ Unlock(s) \/ Kill(s) \/ Signal(s)
      PROVE  TypeOK'
  BY <1>3 DEF Join, Leave, Unlock, Kill, Signal, Signalled, Done, Goto, files, TypeOK, Inside, Outside
<1>4. ASSUME NEW s \in Sessions, UNCHANGED allowed, Lock(s)
      PROVE  TypeOK'
  <2>1. Conf(header[s], <<s>>) \in Confs
    <3>1. <<s>> \in Seq(Sessions)
      OBVIOUS
    <3>. QED
      BY <3>1 DEF Conf, Confs, TypeOK
  <2>. QED
    BY <1>4, <2>1 DEF Lock, Goto, files, TypeOK, Inside, Outside
<1>5. ASSUME NEW s \in Sessions, UNCHANGED allowed, Read(s)
      PROVE  TypeOK'
  <2>1. ktConf.conf.versions \in Seq(Sessions)
    BY DEF TypeOK, Confs
  <2>2. /\ Append(ktConf.conf.versions, s) \in Seq(Sessions)
        /\ Removed(ktConf.conf.versions, s) \in Seq(Sessions)
    BY <2>1, AppendedOne, RemovedOne
  <2>3. \A vs \in Seq(Sessions) : Conf(header[s], vs) \in Confs
    BY DEF Conf, Confs, TypeOK
  <2>4. copy' \in [Sessions -> Confs]
    <3> DEFINE new == IF job[s] = "add" THEN Append(ktConf.conf.versions, s)
                                        ELSE Removed(ktConf.conf.versions, s)
    <3>1. Conf(header[s], new) \in Confs
      BY <2>2, <2>3
    <3>2. copy' = copy \/ copy' = [copy EXCEPT ![s] = Conf(header[s], new)]
      BY <1>5 DEF Read
    <3>3. copy \in [Sessions -> Confs]
      BY DEF TypeOK
    <3>. QED
      BY <3>1, <3>2, <3>3
  <2>. QED
    BY <1>5, <2>4 DEF Read, Goto, files, TypeOK, Inside
<1>6. ASSUME NEW s \in Sessions, UNCHANGED allowed,
             Truncate(s) \/ Write(s)
      PROVE  TypeOK'
  BY <1>6 DEF Truncate, Write, Goto, TypeOK, Inside
<1>7. ASSUME NEW s \in Sessions, UNCHANGED allowed,
             Drop(s) \/ Create(s) \/ Fill(s)
      PROVE  TypeOK'
  <2>1. <<>> \in Seq(Sessions) /\ copy[s].versions \in Seq(Sessions)
    BY EmptySeq DEF TypeOK, Confs
  <2>2. route' \in [state : {"none", "empty", "partial", "full"}, versions : Seq(Sessions)]
    <3>1. route' \in {[state |-> "none", versions |-> <<>>], [state |-> "empty", versions |-> <<>>],
                       [state |-> "partial", versions |-> <<>>],
                       [state |-> "full", versions |-> copy[s].versions]}
      BY <1>7 DEF Drop, Create, Fill
    <3>2. \A V, vs, st : vs \in V /\ st \in {"none", "empty", "partial", "full"} =>
            [state |-> st, versions |-> vs] \in
              [state : {"none", "empty", "partial", "full"}, versions : V]
      OBVIOUS
    <3>3. CASE route' = [state |-> "full", versions |-> copy[s].versions]
      BY <2>1, <3>2, <3>3, Zenon
    <3>4. ASSUME NEW st \in {"none", "empty", "partial"}, route' = [state |-> st, versions |-> <<>>]
          PROVE  route' \in [state : {"none", "empty", "partial", "full"}, versions : Seq(Sessions)]
      BY <2>1, <3>2, <3>4, Zenon
    <3>. QED
      BY <3>1, <3>3, <3>4
  <2>3. pc' \in [Sessions -> Inside \cup Outside \cup {"wait"}]
    BY <1>7 DEF Drop, Create, Fill, Goto, TypeOK, Inside
  <2>. QED
    BY <1>7, <2>2, <2>3 DEF Drop, Create, Fill, TypeOK
<1>. QED
  BY <1>1, <1>2, <1>3, <1>4, <1>5, <1>6, <1>7 DEF Next, Process

\* Initially there is no configuration, no router and no process.
LEMMA InitConf == Init => ConfInv
<1> SUFFICES ASSUME Init PROVE ConfInv
  OBVIOUS
<1>1. <<>> \in Seq(Sessions) /\ NoConf \in Confs
  BY EmptySeq DEF NoConf, Conf, Confs
<1>2. TypeOK
  BY <1>1, ConstantsAssumption DEF Init, TypeOK, Inside, Outside
<1>3. Ownership
  BY ConstantsAssumption DEF Init, Ownership, Inside
<1>. QED
  BY <1>2, <1>3 DEF Init, ConfInv, SetupFirst, CopyIsUpdate, CopyIsWritten, NoConf, Conf

\* While one process works on the files no other does.
LEMMA AloneInside ==
  ASSUME Ownership, NEW s \in Sessions, pc[s] \in Inside, NEW t \in Sessions \ {s}
  PROVE  pc[t] \notin Inside
  BY DEF Ownership

\* Every step keeps the lock with who works on the files.
LEMMA OwnershipKept == TypeOK /\ Ownership /\ [Next]_vars => Ownership'
<1> SUFFICES ASSUME TypeOK, Ownership, [Next]_vars PROVE Ownership'
  OBVIOUS
<1>0. Nobody \notin Sessions
  BY ConstantsAssumption
<1>1. CASE UNCHANGED vars \/ Reload
  BY <1>1 DEF vars, state, Reload, Ownership
<1>2. ASSUME NEW s \in Sessions, Join(s) \/ Leave(s)
      PROVE  Ownership'
  BY <1>2 DEF Join, Leave, Goto, Ownership, TypeOK, Inside
<1>3. ASSUME NEW s \in Sessions, Lock(s)
      PROVE  Ownership'
  BY <1>0, <1>3 DEF Lock, Lockable, Goto, Ownership, TypeOK, Inside
<1>4. ASSUME NEW s \in Sessions, Unlock(s) \/ Kill(s)
      PROVE  Ownership'
  BY <1>0, <1>4 DEF Unlock, Kill, Done, Goto, Ownership, TypeOK, Inside
<1>5. ASSUME NEW s \in Sessions,
             Read(s) \/ Truncate(s) \/ Write(s) \/ Drop(s) \/ Create(s) \/ Fill(s) \/ Signal(s)
      PROVE  Ownership'
  <2>1. pc[s] \in Inside /\ pc'[s] \in Inside /\ UNCHANGED flock
    BY <1>5 DEF Read, Truncate, Write, Drop, Create, Fill, Signal, Goto, TypeOK, Inside
  <2>2. \A t \in Sessions \ {s} : pc'[t] = pc[t]
    BY <1>5 DEF Read, Truncate, Write, Drop, Create, Fill, Signal, Goto, TypeOK
  <2>. QED
    BY <2>1, <2>2 DEF Ownership
<1>. QED
  BY <1>1, <1>2, <1>3, <1>4, <1>5 DEF Next, Process

\* Every step keeps the order of the first session and the others.
LEMMA SetupFirstKept == ConfInv /\ [Next]_vars => SetupFirst'
<1> SUFFICES ASSUME TypeOK, Ownership, SetupFirst, [Next]_vars PROVE SetupFirst'
  BY DEF ConfInv
<1>0. Nobody \notin Sessions
  BY ConstantsAssumption
<1>1. CASE UNCHANGED vars \/ Reload
  BY <1>1 DEF vars, state, files, Reload, SetupFirst
<1>2. ASSUME NEW s \in Sessions, Join(s)
      PROVE  SetupFirst'
  BY <1>0, <1>2 DEF Join, Goto, files, SetupFirst, TypeOK
<1>3. ASSUME NEW s \in Sessions, Leave(s)
      PROVE  SetupFirst'
  BY <1>3 DEF Leave, Goto, files, SetupFirst, TypeOK
<1>4. ASSUME NEW s \in Sessions, Lock(s)
      PROVE  SetupFirst'
  <2>1. \A t \in Sessions : pc[t] \notin {"truncate", "write"}
    BY <1>0, <1>4 DEF Lock, Lockable, Ownership, Inside
  <2>2. UNCHANGED <<job, ktConf, router>> /\ pc[s] = "wait"
    BY <1>4 DEF Lock, files
  <2>3. pc' = [pc EXCEPT ![s] = IF job[s] = "setup" THEN "truncate" ELSE "read"]
    BY <1>4 DEF Lock, Goto
  <2>. QED
    BY <2>1, <2>2, <2>3 DEF SetupFirst, TypeOK
<1>5. ASSUME NEW s \in Sessions, Read(s)
      PROVE  SetupFirst'
  <2>1. UNCHANGED <<job, ktConf, router>> /\ pc[s] = "read"
    BY <1>5 DEF Read, files
  <2>2. pc' = [pc EXCEPT ![s] = IF ktConf.state = "complete" /\ ktConf.conf.header = header[s]
                                  THEN "truncate" ELSE "unlock"]
    BY <1>5 DEF Read, Goto
  <2>. QED
    BY <2>1, <2>2 DEF SetupFirst, TypeOK
<1>6. ASSUME NEW s \in Sessions, Truncate(s)
      PROVE  SetupFirst'
  <2>1. /\ UNCHANGED <<job, router>> /\ pc[s] = "truncate" /\ pc' = [pc EXCEPT ![s] = "write"]
        /\ ktConf'.state = "broken" /\ ktConf'.conf = ktConf.conf
    BY <1>6 DEF Truncate, Goto, TypeOK
  <2>. QED
    BY <2>1 DEF SetupFirst, TypeOK
<1>7. ASSUME NEW s \in Sessions, Write(s)
      PROVE  SetupFirst'
  <2>1. /\ UNCHANGED <<job, router>> /\ pc[s] = "write" /\ pc' = [pc EXCEPT ![s] = "drop"]
    BY <1>7 DEF Write, Goto
  \* No setup process is left to write.
  <2>2. ASSUME NEW t \in Sessions, job[t] = "setup", pc[t] \in {"wait", "truncate", "write"}
        PROVE  t = s
    BY <2>1, <2>2 DEF SetupFirst
  <2>. QED
    BY <2>1, <2>2 DEF SetupFirst, TypeOK
<1>8. ASSUME NEW s \in Sessions,
             Drop(s) \/ Create(s) \/ Fill(s) \/ Signal(s) \/ Unlock(s) \/ Kill(s)
      PROVE  SetupFirst'
  <2>1. UNCHANGED <<job, router, ktConf>> /\ pc[s] \in Inside
    BY <1>8 DEF Drop, Create, Fill, Signal, Unlock, Kill, files, Inside
  <2>2. /\ pc'[s] \in {"create", "fill", "signal", "unlock", "in", "gone"}
        /\ \A t \in Sessions \ {s} : pc'[t] = pc[t]
    BY <1>8 DEF Drop, Create, Fill, Signal, Unlock, Kill, Done, Goto, TypeOK
  <2>. QED
    BY <2>1, <2>2 DEF SetupFirst, TypeOK, Inside
<1>. QED
  BY <1>1, <1>2, <1>3, <1>4, <1>5, <1>6, <1>7, <1>8 DEF Next, Process

\* Every step keeps what a process is about to write one update of what is there:
\* while it has the lock nobody else changes kt.conf.
LEMMA CopiesKept == ConfInv /\ [Next]_vars => CopyIsUpdate' /\ CopyIsWritten'
<1> SUFFICES ASSUME ConfInv, [Next]_vars PROVE CopyIsUpdate' /\ CopyIsWritten'
  OBVIOUS
<1>0. TypeOK /\ Ownership /\ SetupFirst /\ CopyIsUpdate /\ CopyIsWritten /\ Nobody \notin Sessions
  BY ConstantsAssumption DEF ConfInv
<1>1. CASE UNCHANGED vars \/ Reload
  <2>1. UNCHANGED <<pc, job, copy, ktConf>>
    BY <1>1 DEF vars, state, files, Reload
  <2>. QED
    BY <1>0, <2>1 DEF CopyIsUpdate, CopyIsWritten, Update
<1>2. ASSUME NEW s \in Sessions, Join(s) \/ Leave(s)
      PROVE  CopyIsUpdate' /\ CopyIsWritten'
  <2>1. /\ pc' = [pc EXCEPT ![s] = "wait"] /\ UNCHANGED <<copy, ktConf>>
        /\ \A t \in Sessions \ {s} : job'[t] = job[t]
    BY <1>0, <1>2 DEF Join, Leave, Goto, files, TypeOK
  <2>2. \A t \in Sessions \ {s} : Update(t)' = Update(t)
    BY <2>1 DEF Update
  <2>. QED
    BY <1>0, <2>1, <2>2 DEF CopyIsUpdate, CopyIsWritten, TypeOK
<1>3. ASSUME NEW s \in Sessions, Lock(s) \/ Read(s)
      PROVE  CopyIsUpdate' /\ CopyIsWritten'
  <2>1. /\ UNCHANGED <<job, ktConf>> /\ pc' \in {[pc EXCEPT ![s] = l] : l \in {"read", "truncate", "unlock"}}
        /\ \A t \in Sessions \ {s} : copy'[t] = copy[t]
    BY <1>0, <1>3 DEF Lock, Read, Goto, files, TypeOK
  <2>2. \A t \in Sessions : Update(t)' = Update(t)
    BY <2>1 DEF Update
  <2>3. pc'[s] = "truncate" => copy'[s].versions = Update(s)
    <3>1. CASE Lock(s)
      BY <1>0, <3>1 DEF Lock, Goto, Conf, Update, TypeOK
    <3>2. CASE Read(s)
      <4>1. job[s] \in {"add", "remove"}
        BY <1>0, <3>2 DEF Read, SetupFirst, TypeOK
      <4>2. pc'[s] = "truncate" => copy'[s].versions = IF job[s] = "add"
                                                         THEN Append(ktConf.conf.versions, s)
                                                         ELSE Removed(ktConf.conf.versions, s)
        <5>1. copy \in [Sessions -> Confs] /\ pc \in [Sessions -> Inside \cup Outside \cup {"wait"}]
          BY <1>0 DEF TypeOK
        <5> DEFINE new == IF job[s] = "add" THEN Append(ktConf.conf.versions, s)
                                            ELSE Removed(ktConf.conf.versions, s)
        <5> HIDE DEF new
        <5>2. \/ pc' = [pc EXCEPT ![s] = "unlock"]
              \/ copy' = [copy EXCEPT ![s] = [header |-> header[s], versions |-> new]]
          BY <3>2 DEF Read, Goto, Conf, new
        <5>3. pc'[s] = "truncate" => copy'[s].versions = new
          BY <5>1, <5>2
        <5>. QED
          BY <5>3 DEF new
      <4>. QED
        BY <4>1, <4>2 DEF Update
    <3>. QED
      BY <1>3, <3>1, <3>2
  <2>. QED
    BY <1>0, <2>1, <2>2, <2>3 DEF CopyIsUpdate, CopyIsWritten, TypeOK
<1>4. ASSUME NEW s \in Sessions, Truncate(s)
      PROVE  CopyIsUpdate' /\ CopyIsWritten'
  <2>1. /\ UNCHANGED <<job, copy>> /\ pc[s] = "truncate" /\ pc' = [pc EXCEPT ![s] = "write"]
        /\ ktConf'.conf = ktConf.conf
    BY <1>0, <1>4 DEF Truncate, Goto, TypeOK
  <2>2. \A t \in Sessions : Update(t)' = Update(t)
    BY <2>1 DEF Update
  <2>. QED
    BY <1>0, <2>1, <2>2 DEF CopyIsUpdate, CopyIsWritten, TypeOK
<1>5. ASSUME NEW s \in Sessions, Write(s)
      PROVE  CopyIsUpdate' /\ CopyIsWritten'
  <2>1. /\ UNCHANGED copy /\ pc[s] = "write" /\ pc' = [pc EXCEPT ![s] = "drop"]
        /\ ktConf'.conf = copy[s]
    BY <1>5 DEF Write, Goto
  <2>2. \A t \in Sessions \ {s} : pc[t] \notin Inside
    BY <1>0, <2>1 DEF Ownership, Inside
  <2>. QED
    BY <1>0, <2>1, <2>2 DEF CopyIsUpdate, CopyIsWritten, TypeOK, Inside
<1>6. ASSUME NEW s \in Sessions,
             Drop(s) \/ Create(s) \/ Fill(s) \/ Signal(s) \/ Unlock(s) \/ Kill(s)
      PROVE  CopyIsUpdate' /\ CopyIsWritten'
  <2>1. UNCHANGED <<job, copy, ktConf>>
    BY <1>6 DEF Drop, Create, Fill, Signal, Unlock, Kill, files
  <2>2. /\ pc'[s] \in {"create", "fill"} => pc[s] \in {"drop", "create", "fill"}
        /\ pc'[s] \notin {"truncate", "write", "drop"}
        /\ \A t \in Sessions \ {s} : pc'[t] = pc[t]
    BY <1>0, <1>6 DEF Drop, Create, Fill, Signal, Unlock, Kill, Done, Goto, TypeOK
  <2>3. \A t \in Sessions : Update(t)' = Update(t)
    BY <2>1 DEF Update
  <2>. QED
    BY <1>0, <2>1, <2>2, <2>3 DEF CopyIsUpdate, CopyIsWritten
<1>. QED
  BY <1>1, <1>2, <1>3, <1>4, <1>5, <1>6 DEF Next, Process

\* The invariant of kt.conf holds in every scenario.
LEMMA ConfInvCorrect == Spec => []ConfInv
<1>1. ConfInv /\ [Next]_vars => ConfInv'
  BY TypeCorrect, OwnershipKept, SetupFirstKept, CopiesKept DEF ConfInv
<1>. QED
  BY <1>1, InitConf, PTL DEF Spec

-------------------------------------------------------------------------------
(* The router program implements RouteStore *)

\* Only WriteKtConf changes what kt.conf says, by one setup, add or remove.
LEMMA StepImplements == ConfInv /\ [Next]_vars => [Store!Next]_(ktConf.conf.versions)
<1> SUFFICES ASSUME ConfInv, [Next]_vars PROVE [Store!Next]_(ktConf.conf.versions)
  OBVIOUS
<1>0. TypeOK /\ SetupFirst /\ CopyIsUpdate
  BY DEF ConfInv
<1>1. ASSUME NEW s \in Sessions, Write(s)
      PROVE  [Store!Next]_(ktConf.conf.versions)
  <2> DEFINE vs == ktConf.conf.versions
  <2>1. ktConf'.conf.versions = Update(s) /\ pc[s] = "write"
    BY <1>0, <1>1 DEF Write, CopyIsUpdate
  <2>2. vs \in Seq(Sessions) /\ job[s] \in {"setup", "add", "remove"}
    BY <1>0 DEF TypeOK, Confs
  <2>3. CASE job[s] = "setup"
    <3>1. vs = <<>> /\ ktConf'.conf.versions = <<s>>
      BY <1>0, <2>1, <2>3 DEF SetupFirst, Update
    <3>. QED
      BY <3>1 DEF Store!Next, Store!Setup
  <2>4. CASE job[s] = "add"
    <3>1. ktConf'.conf.versions = Append(vs, s)
      BY <2>1, <2>4 DEF Update
    <3>. QED
      BY <3>1 DEF Store!Next, Store!Add
  <2>5. CASE job[s] = "remove"
    <3>1. ktConf'.conf.versions = Removed(vs, s)
      BY <2>1, <2>5 DEF Update
    <3>2. CASE s \in Range(vs)
      <4>1. PICK i \in DOMAIN vs : /\ vs[i] = s /\ \A j \in 1 .. i - 1 : vs[j] # s
                                  /\ Removed(vs, s) = Without(vs, i)
        BY <2>2, <3>2, RemovedOne
      <4>. QED
        BY <3>1, <4>1 DEF Store!Next, Store!Remove, Without
    <3>3. CASE s \notin Range(vs)
      BY <2>2, <3>1, <3>3, RemovedOne
    <3>. QED
      BY <3>2, <3>3
  <2>. QED
    BY <2>2, <2>3, <2>4, <2>5
<1>2. ASSUME NEW s \in Sessions, Truncate(s)
      PROVE  UNCHANGED ktConf.conf.versions
  BY <1>0, <1>2 DEF Truncate, TypeOK
<1>3. ASSUME NEW s \in Sessions,
             \/ Join(s) \/ Leave(s) \/ Kill(s) \/ Lock(s) \/ Read(s) \/ Drop(s) \/ Create(s)
             \/ Fill(s) \/ Signal(s) \/ Unlock(s)
      PROVE  UNCHANGED ktConf.conf.versions
  BY <1>3 DEF Join, Leave, Kill, Lock, Read, Drop, Create, Fill, Signal, Unlock, files
<1>4. CASE UNCHANGED vars \/ Reload
  BY <1>4 DEF vars, state, files, Reload
<1>. QED
  BY <1>1, <1>2, <1>3, <1>4 DEF Next, Process

\* However the processes of any number of sessions interleave and wherever they are
\* killed, kt.conf changes as RouteStore does: by one whole update at a time.
THEOREM ImplementsStoreCorrect == Spec => ImplementsStore
<1>1. Init => Store!Init
  BY InitConf DEF Init, ConfInv, SetupFirst, Store!Init
<1>2. ConfInv /\ [Next]_vars => [Store!Next]_(ktConf.conf.versions)
  BY StepImplements
<1>. QED
  BY <1>1, <1>2, ConfInvCorrect, PTL DEF Spec, ImplementsStore, Store!Spec

-------------------------------------------------------------------------------
(* nginx routes what is written *)

\* Initially nothing is routed and nothing written.
LEMMA InitNginx == Init => RouteInv /\ Prompt /\ RoutedIsWritten
<1> SUFFICES ASSUME Init PROVE RouteInv /\ Prompt /\ RoutedIsWritten
  OBVIOUS
<1>1. route.versions = <<>> /\ loaded = {} /\ route.state = "none" /\ hup = FALSE
  BY DEF Init
<1>2. ktConf.conf.versions = <<>>
  BY InitConf DEF Init, ConfInv, SetupFirst
<1>3. Range(<<>>) = {}
  BY DEF Range
<1>. QED
  BY <1>1, <1>2, <1>3 DEF RouteInv, Prompt, RoutedIsWritten

\* What a process does to the files, as the invariant of nginx needs it: where it
\* goes, what route.conf gets and what of kt.conf changes.
LEMMA DropStep ==
  ASSUME TypeOK, NEW s \in Sessions, Drop(s)
  PROVE  /\ pc[s] = "drop" /\ route' = [state |-> "none", versions |-> <<>>]
         /\ pc' = [pc EXCEPT ![s] = pc'[s]]
         /\ pc'[s] \in {"create", "unlock", "signal"}
         /\ pc'[s] # "create" => copy[s].versions = <<>>
         /\ pc'[s] = "unlock" => route.state = "none"
         /\ UNCHANGED <<header, job, flock, copy, ktConf, loaded, hup, router>>
  BY DEF Drop, Goto, TypeOK

LEMMA FillStep ==
  ASSUME TypeOK, NEW s \in Sessions, Fill(s)
  PROVE  /\ pc[s] = "fill"
         /\ \/ route' = [state |-> "partial", versions |-> <<>>] /\ UNCHANGED pc
            \/ /\ route' = [state |-> "full", versions |-> copy[s].versions]
               /\ pc' = [pc EXCEPT ![s] = "signal"]
         /\ UNCHANGED <<header, job, flock, copy, ktConf, loaded, hup, router>>
  BY DEF Fill, Goto

\* Every step keeps route.conf as it was written, but for the process that writes it.
LEMMA RouteKept == ConfInv /\ RouteInv /\ [Next]_vars => RouteInv'
<1> SUFFICES ASSUME ConfInv, RouteInv, [Next]_vars PROVE RouteInv'
  OBVIOUS
<1>0. TypeOK /\ Ownership /\ CopyIsWritten /\ UNCHANGED allowed
  BY DEF ConfInv, Next, vars
<1>1. CASE UNCHANGED vars
  BY <1>1 DEF vars, state, files, RouteInv, At
<1>2. CASE Reload
  <2>1. /\ UNCHANGED <<pc, ktConf, route>>
        /\ loaded' = IF route.state = "partial" THEN loaded ELSE Range(route.versions)
    BY <1>2 DEF Reload
  <2>. QED
    BY <1>0, <2>1 DEF RouteInv, At
<1>3. ASSUME NEW s \in Sessions, Join(s) \/ Leave(s) \/ Lock(s) \/ Read(s) \/ Unlock(s)
      PROVE  RouteInv'
  <2>1. /\ UNCHANGED files
        /\ \E l \in {"wait", "truncate", "read", "unlock", "in", "gone"} : pc' = [pc EXCEPT ![s] = l]
        /\ pc[s] \notin {"drop", "create", "fill", "signal"}
    BY <1>3 DEF Join, Leave, Lock, Read, Unlock, Done, Goto, files
  <2>2. \A t \in Sessions : \A l \in {"drop", "create", "fill", "signal"} : pc'[t] = l <=> pc[t] = l
    BY <1>0, <2>1 DEF TypeOK
  <2>. QED
    BY <1>0, <2>1, <2>2 DEF RouteInv, At, files
<1>4. ASSUME NEW s \in Sessions, Truncate(s)
      PROVE  RouteInv'
  <2>1. /\ UNCHANGED <<route, loaded, hup>> /\ ktConf'.conf = ktConf.conf
        /\ pc[s] = "truncate" /\ pc' = [pc EXCEPT ![s] = "write"]
    BY <1>0, <1>4 DEF Truncate, Goto, TypeOK
  <2>2. \A t \in Sessions : \A l \in {"drop", "create", "fill", "signal"} : pc'[t] = l <=> pc[t] = l
    BY <1>0, <2>1 DEF TypeOK
  <2>. QED
    BY <1>0, <2>1, <2>2 DEF RouteInv, At
<1>5. ASSUME NEW s \in Sessions, Write(s)
      PROVE  RouteInv'
  <2>1. /\ UNCHANGED <<route, loaded, hup>>
        /\ pc[s] = "write" /\ pc' = [pc EXCEPT ![s] = "drop"]
    BY <1>5 DEF Write, Goto
  <2>2. pc'[s] = "drop"
    BY <1>0, <2>1 DEF TypeOK
  <2>3. \A t \in Sessions : \A l \in {"create", "fill", "signal"} : pc'[t] = l <=> pc[t] = l
    BY <1>0, <2>1 DEF TypeOK
  <2>. QED
    BY <1>0, <2>1, <2>2, <2>3 DEF RouteInv, At
<1>6. ASSUME NEW s \in Sessions, Drop(s)
      PROVE  RouteInv'
  <2>1. pc[s] = "drop" /\ route' = [state |-> "none", versions |-> <<>>]
    BY <1>0, <1>6, DropStep
  <2>2. \A t \in Sessions \ {s} : pc'[t] = pc[t] /\ pc[t] \notin Inside
    BY <1>0, <1>6, <2>1, DropStep DEF Ownership, Inside, TypeOK
  <2>3. copy[s] = ktConf.conf
    BY <1>0, <2>1 DEF CopyIsWritten
  <2>4. pc'[s] = "unlock" => route.versions = <<>>
    BY <1>0, <1>6, DropStep DEF RouteInv
  <2>5. ~At({"create", "fill", "signal"})
    BY <2>1, <2>2 DEF At, Inside
  <2>6. UNCHANGED <<ktConf, loaded, hup>> /\ pc'[s] \in {"create", "unlock", "signal"}
        /\ (pc'[s] # "create" => copy[s].versions = <<>>)
    BY <1>0, <1>6, DropStep
  <2>. QED
    BY <1>0, <2>1, <2>2, <2>3, <2>4, <2>5, <2>6 DEF RouteInv, At
<1>7. ASSUME NEW s \in Sessions, Create(s)
      PROVE  RouteInv'
  <2>1. /\ route' = [state |-> "empty", versions |-> <<>>] /\ pc'[s] = "fill"
    BY <1>0, <1>7 DEF Create, Goto, TypeOK
  <2>. QED
    BY <1>0, <2>1 DEF RouteInv, At
<1>8. ASSUME NEW s \in Sessions, Fill(s)
      PROVE  RouteInv'
  <2>1. pc[s] = "fill" /\ copy[s] = ktConf.conf /\ UNCHANGED ktConf
    BY <1>0, <1>8, FillStep DEF CopyIsWritten
  <2>2. CASE route' = [state |-> "partial", versions |-> <<>>] /\ UNCHANGED pc
    BY <1>0, <2>1, <2>2 DEF RouteInv, At
  <2>3. CASE /\ route' = [state |-> "full", versions |-> copy[s].versions]
             /\ pc' = [pc EXCEPT ![s] = "signal"]
    <3>1. pc'[s] = "signal"
      BY <1>0, <2>3 DEF TypeOK
    <3>. QED
      BY <1>0, <2>1, <2>3, <3>1 DEF RouteInv, At
  <2>. QED
    BY <1>0, <1>8, <2>2, <2>3, FillStep
<1>9. ASSUME NEW s \in Sessions, Signal(s)
      PROVE  RouteInv'
  <2>1. /\ hup' = TRUE /\ UNCHANGED <<ktConf, route, loaded>>
        /\ pc[s] = "signal" /\ pc' = [pc EXCEPT ![s] = "unlock"]
    BY <1>9 DEF Signal, Signalled, Goto
  <2>2. \A t \in Sessions : \A l \in {"drop", "create", "fill"} : pc'[t] = l <=> pc[t] = l
    BY <1>0, <2>1 DEF TypeOK
  <2>. QED
    BY <1>0, <2>1, <2>2 DEF RouteInv, At
<1>10. ASSUME NEW s \in Sessions, Kill(s)
       PROVE  RouteInv'
  BY <1>0, <1>10 DEF Kill, files, RouteInv
<1>. QED
  BY <1>1, <1>2, <1>3, <1>4, <1>5, <1>6, <1>7, <1>8, <1>9, <1>10 DEF Next, Process

\* Every step keeps that no process begins before nginx has answered.
LEMMA PromptKept == TypeOK /\ Ownership /\ Prompt /\ [Next]_vars => Prompt'
<1> SUFFICES ASSUME TypeOK, Ownership, Prompt, [Next]_vars PROVE Prompt'
  OBVIOUS
<1>0. UNCHANGED allowed
  BY DEF Next, vars
<1>1. CASE UNCHANGED vars \/ Reload
  BY <1>0, <1>1 DEF vars, state, files, Reload, Prompt
<1>2. ASSUME NEW s \in Sessions, Lock(s)
      PROVE  Prompt'
  BY <1>0, <1>2 DEF Lock, Lockable, files, Prompt
<1>3. ASSUME NEW s \in Sessions, Signal(s)
      PROVE  Prompt'
  <2>1. pc' = [pc EXCEPT ![s] = "unlock"] /\ pc[s] \in Inside
    BY <1>3 DEF Signal, Goto, Inside
  <2>2. \A t \in Sessions \ {s} : pc[t] \notin Inside
    BY <2>1 DEF Ownership
  <2>. QED
    BY <2>1, <2>2 DEF Prompt, TypeOK
<1>4. ASSUME NEW s \in Sessions, Join(s) \/ Leave(s) \/ Unlock(s) \/ Kill(s)
      PROVE  Prompt'
  <2>1. /\ hup' = hup
        /\ \E l \in {"wait", "in", "gone"} : pc' = [pc EXCEPT ![s] = l]
    BY <1>4 DEF Join, Leave, Unlock, Kill, Done, Goto, files
  <2>. QED
    BY <1>0, <2>1 DEF Prompt, TypeOK, Inside
<1>5. ASSUME NEW s \in Sessions,
             Read(s) \/ Truncate(s) \/ Write(s) \/ Drop(s) \/ Create(s) \/ Fill(s)
      PROVE  Prompt'
  <2>1. hup' = hup /\ pc[s] \in Inside /\ pc[s] # "unlock"
    BY <1>5 DEF Read, Truncate, Write, Drop, Create, Fill, files, Inside
  <2>. QED
    BY <1>0, <2>1 DEF Prompt
<1>. QED
  BY <1>1, <1>2, <1>3, <1>4, <1>5 DEF Next, Process

\* An update keeps every version but the one of a session that removes it.
LEMMA UpdateKeeps ==
  ASSUME ConfInv, NEW s \in Sessions, Write(s), NEW v \in Range(ktConf.conf.versions)
  PROVE  v \in Range(ktConf'.conf.versions) \/ (v = s /\ job[s] = "remove")
<1> DEFINE vs == ktConf.conf.versions
<1>1. ktConf'.conf.versions = Update(s) /\ pc[s] = "write"
  BY DEF Write, CopyIsUpdate, ConfInv
<1>2. vs \in Seq(Sessions) /\ job[s] \in {"setup", "add", "remove"}
  BY DEF ConfInv, TypeOK, Confs
<1>3. CASE job[s] = "setup"
  <2>1. vs = <<>>
    BY <1>1, <1>3 DEF ConfInv, SetupFirst
  <2>. QED
    BY <2>1 DEF Range
<1>4. CASE job[s] = "add"
  BY <1>1, <1>2, <1>4, AppendedOne DEF Update
<1>5. CASE job[s] = "remove"
  <2>1. ktConf'.conf.versions = Removed(vs, s)
    BY <1>1, <1>5 DEF Update
  <2>. QED
    BY <1>2, <1>5, <2>1, RemovedOne
<1>. QED
  BY <1>2, <1>3, <1>4, <1>5

\* Every step keeps what is routed in kt.conf, until the session itself leaves.
LEMMA RoutedKept == ConfInv /\ RoutedIsWritten /\ [Next]_vars => RoutedIsWritten'
<1> SUFFICES ASSUME ConfInv, RoutedIsWritten, [Next]_vars,
                    NEW v \in loaded' \cup Range(route'.versions), "kill" \notin allowed
             PROVE  v \in Range(ktConf'.conf.versions) \/ job'[v] = "remove"
  BY DEF RoutedIsWritten, Next, vars
<1>0. TypeOK /\ SetupFirst /\ CopyIsWritten
  BY DEF ConfInv
<1>1. CASE UNCHANGED vars
  BY <1>1 DEF vars, state, files, RoutedIsWritten
<1>2. CASE Reload
  BY <1>2 DEF Reload, RoutedIsWritten
<1>3. ASSUME NEW s \in Sessions, Join(s) \/ Leave(s)
      PROVE  v \in Range(ktConf'.conf.versions) \/ job'[v] = "remove"
  <2>1. UNCHANGED files
    BY <1>3 DEF Join, Leave, files
  <2>2. v \in Range(ktConf.conf.versions) \/ job[v] = "remove"
    BY <2>1 DEF RoutedIsWritten, files
  <2>3. Join(s) => job[s] = "add"
    BY <1>0 DEF Join, SetupFirst
  <2>4. v \in Sessions
    BY <1>0, <2>1, RangeOfSeq DEF TypeOK, files
  <2>5. job[v] = "remove" => job'[v] = "remove"
    BY <1>0, <1>3, <2>3, <2>4 DEF Join, Leave, TypeOK
  <2>. QED
    BY <2>1, <2>2, <2>5 DEF files
<1>4. ASSUME NEW s \in Sessions, Lock(s) \/ Read(s) \/ Signal(s) \/ Unlock(s)
      PROVE  v \in Range(ktConf'.conf.versions) \/ job'[v] = "remove"
  BY <1>4 DEF Lock, Read, Signal, Unlock, files, RoutedIsWritten
<1>5. ASSUME NEW s \in Sessions, Truncate(s)
      PROVE  v \in Range(ktConf'.conf.versions) \/ job'[v] = "remove"
  BY <1>0, <1>5 DEF Truncate, RoutedIsWritten, TypeOK
<1>6. ASSUME NEW s \in Sessions, Write(s)
      PROVE  v \in Range(ktConf'.conf.versions) \/ job'[v] = "remove"
  BY <1>6, UpdateKeeps DEF Write, RoutedIsWritten
<1>7. ASSUME NEW s \in Sessions, Drop(s) \/ Create(s) \/ Fill(s)
      PROVE  v \in Range(ktConf'.conf.versions) \/ job'[v] = "remove"
  <2>1. UNCHANGED <<job, ktConf, loaded>>
    BY <1>7 DEF Drop, Create, Fill
  <2>2. Range(<<>>) = {}
    BY DEF Range
  <2>3. route'.versions \in {<<>>, ktConf.conf.versions}
    BY <1>0, <1>7 DEF Drop, Create, Fill, CopyIsWritten
  <2>. QED
    BY <2>1, <2>2, <2>3 DEF RoutedIsWritten
<1>8. ASSUME NEW s \in Sessions, Kill(s)
      PROVE  FALSE
  BY <1>8 DEF Kill
<1>. QED
  BY <1>1, <1>2, <1>3, <1>4, <1>5, <1>6, <1>7, <1>8 DEF Next, Process

\* The inductive invariant holds for any number of sessions and in every scenario.
THEOREM IInvCorrect == Spec => []IInv
<1>1. Init => IInv
  BY InitConf, InitNginx DEF IInv
<1>2. IInv /\ [Next]_vars => IInv'
  <2> SUFFICES ASSUME IInv, [Next]_vars PROVE IInv'
    OBVIOUS
  <2>1. ConfInv'
    BY TypeCorrect, OwnershipKept, SetupFirstKept, CopiesKept DEF ConfInv, IInv
  <2>2. RouteInv'
    BY RouteKept DEF IInv
  <2>3. Prompt'
    BY PromptKept DEF ConfInv, IInv
  <2>4. RoutedIsWritten'
    BY RoutedKept DEF IInv
  <2>. QED
    BY <2>1, <2>2, <2>3, <2>4 DEF IInv
<1>. QED
  BY <1>1, <1>2, PTL DEF Spec

\* Once the processes have ended, none of them killed, and nginx has answered, it routes
\* what kt.conf says, however late it has read route.conf.
THEOREM LoadedIsWrittenCorrect == Spec => []LoadedIsWritten
<1>1. IInv => LoadedIsWritten
  BY DEF IInv, RouteInv, LoadedIsWritten, Orderly, At, Outside
<1>. QED
  BY <1>1, IInvCorrect, PTL

\* Where sessions only join and leave, and none is killed, a version that is routed stays
\* so until its own session leaves: when nginx reads route.conf in time, nobody is
\* writing it.
THEOREM StaysRoutedCorrect == Spec => StaysRouted
<1> DEFINE Stays == allowed \subseteq {"joins"} =>
                      \A s \in loaded : s \in loaded' \/ job[s] = "remove"
<1>1. IInv /\ [Next]_vars => [Stays]_vars
  <2> SUFFICES ASSUME IInv, Next, allowed \subseteq {"joins"}, NEW s \in loaded
               PROVE  s \in loaded' \/ job[s] = "remove"
    OBVIOUS
  <2>1. CASE Reload
    <3>1. hup /\ loaded' = IF route.state = "partial" THEN loaded ELSE Range(route.versions)
      BY <2>1 DEF Reload
    <3>2. ~At({"drop", "create", "fill"})
      BY <3>1 DEF IInv, Prompt, At, Inside
    <3>3. route.versions = ktConf.conf.versions
      BY <3>2 DEF IInv, RouteInv
    <3>. QED
      BY <3>1, <3>3 DEF IInv, RoutedIsWritten
  <2>2. CASE UNCHANGED loaded
    BY <2>2
  <2>3. Reload \/ UNCHANGED loaded
    BY DEF Next, Process, Join, Leave, Kill, Lock, Read, Truncate, Write, Drop, Create, Fill,
           Signal, Unlock, files
  <2>. QED
    BY <2>1, <2>2, <2>3
<1>. QED
  BY <1>1, IInvCorrect, PTL DEF Spec, StaysRouted
===============================================================================
