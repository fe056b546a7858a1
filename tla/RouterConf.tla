-------------------------------- MODULE RouterConf --------------------------------
(***************************************************************************)
(* The router pod of a mesh: each session runs the router program in it    *)
(* once to join (setup or add) and once to leave (remove).  The program    *)
(* changes /etc/kt.conf and nginx's route.conf under a file lock and tells *)
(* nginx to reload.  cmd/router/main.go, pkg/router; who runs it and when: *)
(* mesh/auto.go and general/teardown.go.                                   *)
(*                                                                         *)
(* Abstractions: a session is named by its version; of the configuration   *)
(* the versions and the header are kept.                                   *)
(***************************************************************************)
EXTENDS Integers, Sequences, FiniteSets, Functions

CONSTANTS
  Sessions,  \* the mesh sessions, and their versions
  Nobody,    \* not a session
  Headers,   \* the headers of their version marks
  Scenarios  \* what may happen besides

Hazards ==
  { "joins",       \* a session joins while another one does: kt-lock was given up
    "headers",     \* sessions join with different headers
    "slowReload",  \* nginx reloads later than the next process starts
    "kill" }       \* a router process is killed

ASSUME ConstantsAssumption ==
  /\ Nobody \notin Sessions /\ Headers # {}
  /\ Scenarios \subseteq SUBSET Hazards

VARIABLES
  allowed,  \* the hazards of this scenario
  header,   \* header[s]: of the version mark of s
  pc,       \* where the session, or its router process, is
  job,      \* job[s]: what that process has been asked for
  flock,    \* who holds /var/kt.lock
  copy,     \* copy[s]: the configuration in the memory of the process
  ktConf,   \* /etc/kt.conf; while it is "broken" the rest is what it last was
  route,    \* route.conf: "none", "empty", "partial" or "full", and its versions
  loaded,   \* the versions nginx routes
  hup,      \* nginx has a SIGHUP to answer
  router    \* the session that has created the router pod

files == <<ktConf, route, loaded, hup>>
state == <<header, pc, job, flock, copy, files, router>>
vars  == <<allowed, state>>

Inside == {"read", "truncate", "write", "drop", "create", "fill", "signal", "unlock"}
Outside == {"out", "in", "gone"}
Conf(h, vs) == [header |-> h, versions |-> vs]
NoConf == Conf("", <<>>)

Init ==
  /\ allowed \in Scenarios
  /\ header \in [Sessions -> Headers]
  /\ "headers" \in allowed \/ \A s, t \in Sessions : header[s] = header[t]
  /\ pc = [s \in Sessions |-> "out"] /\ job = [s \in Sessions |-> "add"]
  /\ flock = Nobody /\ router = Nobody
  /\ copy = [s \in Sessions |-> NoConf]
  /\ ktConf = [state |-> "missing", conf |-> NoConf]
  /\ route = [state |-> "none", versions |-> <<>>]
  /\ loaded = {} /\ hup = FALSE

Goto(s, l) == pc' = [pc EXCEPT ![s] = l]

\* The program logs its errors and exits with zero: to ktctl every end is the same.
Done(s) == Goto(s, IF job[s] = "remove" THEN "gone" ELSE "in")

-------------------------------------------------------------------------------
(* ExecInPod of a session *)

\* createRouter: the first session creates the pod and runs setup, under kt-lock.
Join(s) ==
  /\ pc[s] = "out"
  /\ "joins" \in allowed \/ \A t \in Sessions : pc[t] \in Outside \/ job[t] = "remove"
  /\ router' = IF router = Nobody THEN s ELSE router
  /\ job' = [job EXCEPT ![s] = IF router = Nobody THEN "setup" ELSE "add"]
  /\ Goto(s, "wait")
  /\ UNCHANGED <<header, flock, copy, files>>

\* recoverAutoMeshRoute: the last session removes the pod instead.
Leave(s) ==
  /\ pc[s] = "in"
  /\ \E t \in Sessions \ {s} : pc[t] # "out" /\ job[t] # "remove"
  /\ job' = [job EXCEPT ![s] = "remove"]
  /\ Goto(s, "wait")
  /\ UNCHANGED <<header, flock, copy, files, router>>

-------------------------------------------------------------------------------
(* main *)

\* Mutant: the lock is not waited for.
NotLocked(s) == ~hup \/ "slowReload" \in allowed

Lockable(s) == flock = Nobody /\ (~hup \/ "slowReload" \in allowed)

Lock(s) ==
  /\ pc[s] = "wait" /\ Lockable(s)
  /\ flock' = s
  /\ IF job[s] = "setup"
       THEN /\ copy' = [copy EXCEPT ![s] = Conf(header[s], <<s>>)]
            /\ Goto(s, "truncate")
       ELSE Goto(s, "read") /\ UNCHANGED copy
  /\ UNCHANGED <<header, job, files, router>>

\* Mutant: what comes after the version that leaves is cut off with it.
TailCut(vs, i) == SubSeq(vs, 1, i - 1)

Without(vs, i) == SubSeq(vs, 1, i - 1) \o SubSeq(vs, i + 1, Len(vs))

Removed(vs, v) ==
  IF v \in Range(vs)
    THEN Without(vs, CHOOSE i \in DOMAIN vs : vs[i] = v /\ \A j \in 1 .. i - 1 : vs[j] # v)
    ELSE vs

\* ReadKtConf and updateRoute: a file that cannot be parsed and another header
\* are errors.
Read(s) ==
  /\ pc[s] = "read"
  /\ IF ktConf.state = "complete" /\ ktConf.conf.header = header[s]
       THEN /\ copy' = [copy EXCEPT ![s] =
                 Conf(header[s], IF job[s] = "add"
                                   THEN Append(ktConf.conf.versions, s)
                                   ELSE Removed(ktConf.conf.versions, s))]
            /\ Goto(s, "truncate")
       ELSE Goto(s, "unlock") /\ UNCHANGED copy
  /\ UNCHANGED <<header, job, flock, files, router>>

\* WriteKtConf.
Truncate(s) ==
  /\ pc[s] = "truncate"
  /\ ktConf' = [ktConf EXCEPT !.state = "broken"]
  /\ Goto(s, "write")
  /\ UNCHANGED <<header, job, flock, copy, route, loaded, hup, router>>

Write(s) ==
  /\ pc[s] = "write"
  /\ ktConf' = [state |-> "complete", conf |-> copy[s]]
  /\ Goto(s, "drop")
  /\ UNCHANGED <<header, job, flock, copy, route, loaded, hup, router>>

\* writeRouteConf, removeRouteConf: to remove what is not there is an error only
\* when no version is left.
Drop(s) ==
  /\ pc[s] = "drop"
  /\ route' = [state |-> "none", versions |-> <<>>]
  /\ Goto(s, IF copy[s].versions # <<>> THEN "create"
             ELSE IF route.state = "none" THEN "unlock" ELSE "signal")
  /\ UNCHANGED <<header, job, flock, copy, ktConf, loaded, hup, router>>

Create(s) ==
  /\ pc[s] = "create"
  /\ route' = [state |-> "empty", versions |-> <<>>]
  /\ Goto(s, "fill")
  /\ UNCHANGED <<header, job, flock, copy, ktConf, loaded, hup, router>>

\* The template is written piece by piece.
Fill(s) ==
  /\ pc[s] = "fill"
  /\ \/ /\ route.state = "empty"
        /\ route' = [state |-> "partial", versions |-> <<>>]
        /\ UNCHANGED pc
     \/ /\ route' = [state |-> "full", versions |-> copy[s].versions]
        /\ Goto(s, "signal")
  /\ UNCHANGED <<header, job, flock, copy, ktConf, loaded, hup, router>>

\* Mutant: nginx is told of the first version only.
SignalsSetup(s) == IF job[s] = "setup" THEN TRUE ELSE hup

Signalled(s) == TRUE

\* reloadRouteConf; a second signal before the first is answered is one with it.
Signal(s) ==
  /\ pc[s] = "signal"
  /\ hup' = Signalled(s)
  /\ Goto(s, "unlock")
  /\ UNCHANGED <<header, job, flock, copy, ktConf, route, loaded, router>>

Unlock(s) ==
  /\ pc[s] = "unlock"
  /\ flock' = Nobody
  /\ Done(s)
  /\ UNCHANGED <<header, job, copy, files, router>>

\* The system gives the lock of a killed process back.
Kill(s) ==
  /\ "kill" \in allowed
  /\ pc[s] \in Inside
  /\ flock' = Nobody
  /\ Done(s)
  /\ UNCHANGED <<header, job, copy, files, router>>

-------------------------------------------------------------------------------
(* nginx *)

\* nginx reads route.conf some time after the signal, without the lock; an empty
\* file is a configuration, half a file is none: nginx keeps the one it has.
Reload ==
  /\ hup
  /\ hup' = FALSE
  /\ loaded' = IF route.state = "partial" THEN loaded ELSE Range(route.versions)
  /\ UNCHANGED <<header, pc, job, flock, copy, ktConf, route, router>>

-------------------------------------------------------------------------------

Process(s) ==
  \/ Lock(s) \/ Read(s) \/ Truncate(s) \/ Write(s) \/ Drop(s) \/ Create(s)
  \/ Fill(s) \/ Signal(s) \/ Unlock(s)

Next ==
  /\ (\E s \in Sessions : Join(s) \/ Leave(s) \/ Process(s) \/ Kill(s)) \/ Reload
  /\ UNCHANGED allowed

Spec == Init /\ [][Next]_vars

\* A process runs, the kernel gives the lock to those who wait; nginx answers.
FairSpec == Spec /\ (\A s \in Sessions : WF_state(Process(s))) /\ WF_state(Reload)

-------------------------------------------------------------------------------
(* Properties *)

Confs == [header : Headers \cup {""}, versions : Seq(Sessions)]

\* The variables have the shapes given where they are declared.
TypeOK ==
  /\ allowed \subseteq Hazards
  /\ header \in [Sessions -> Headers]
  /\ pc \in [Sessions -> Inside \cup Outside \cup {"wait"}]
  /\ job \in [Sessions -> {"setup", "add", "remove"}]
  /\ flock \in Sessions \cup {Nobody} /\ router \in Sessions \cup {Nobody}
  /\ copy \in [Sessions -> Confs]
  /\ ktConf \in [state : {"missing", "broken", "complete"}, conf : Confs]
  /\ route \in [state : {"none", "empty", "partial", "full"}, versions : Seq(Sessions)]
  /\ loaded \subseteq Sessions /\ hup \in BOOLEAN

\* The processes of the sessions, however they interleave and wherever they are
\* killed, change the configuration as one process after the other would: no
\* update is lost and none is half done; a process killed while it writes leaves
\* a file that every later one refuses.
Store == INSTANCE RouteStore WITH Versions <- Sessions, routes <- ktConf.conf.versions
ImplementsStore == Store!Spec

Orderly == allowed \subseteq {"joins", "slowReload"}

\* Once the processes have ended and nginx has answered, it routes what kt.conf
\* says, also when it has answered in the middle of another update.
LoadedIsWritten ==
  Orderly /\ ~hup /\ (\A s \in Sessions : pc[s] \in Outside) =>
    loaded = Range(ktConf.conf.versions)

\* A version, once routed, is routed until its own session leaves, whoever else
\* joins or leaves, if nginx reloads before the next process rewrites the file.
StaysRouted ==
  [][allowed \subseteq {"joins"} =>
       \A s \in loaded : s \in loaded' \/ job[s] = "remove"]_vars

\* A session that has joined is routed at last; what another process is doing to
\* the file when nginx reads it, it does not stay that way.
GetsRouted ==
  \A s \in Sessions :
    allowed \subseteq {"slowReload"} /\ pc[s] = "in" ~> s \in loaded \/ job[s] = "remove"
===============================================================================
