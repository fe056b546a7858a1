--------------------------------- MODULE HostsFile ---------------------------------
(***************************************************************************)
(* The hosts file as goroutines of one ktctl connect write it,             *)
(* pkg/kt/service/dns/hosts.go: DumpHosts puts the addresses of the        *)
(* cluster's services into a section of their own at the end of the file,  *)
(* DropHosts takes the section out.  Both load the file without the lock,  *)
(* compute the new content and write it under the lock.                    *)
(*                                                                         *)
(* The file has up to three parts: the user's lines, the head of the       *)
(* section (its first line and records), its last line.  A write truncates *)
(* the file and appends the parts in this order; it may be cut short, by   *)
(* an error of the disk or the end of the process, which gives the lock    *)
(* back and leaves the file as it is.                                      *)
(***************************************************************************)
CONSTANT Writers   \* the goroutines that may call DumpHosts or DropHosts, "main" among them

VARIABLES
  file,        \* the content of the hosts file
  fileLock,    \* who has hosts.lock, or "nobody"
  doNotDump,   \* DropHosts has been called
  writing,     \* per writer: where it is in DumpHosts or DropHosts
  newLines,    \* per writer: the content it is about to write
  outcome,     \* how main's last call ended; the informers ignore theirs
  torn,        \* history: a file was loaded that another goroutine was writing
  cut,         \* history: a write was cut short
  pastCheck    \* history: someone was past the check of doNotDump when it was set

hosts == <<file, fileLock, doNotDump, writing, newLines, outcome, torn, cut, pastCheck>>

Section == {"begin", "end"}
Contents == SUBSET ({"user"} \cup Section)
Parts(c) == {p \in SUBSET c : /\ "end" \in p => "begin" \in p
                              /\ p # {} /\ "user" \in c => "user" \in p}

HostsType ==
  /\ file \in Contents
  /\ fileLock \in Writers \cup {"nobody"}
  /\ doNotDump \in BOOLEAN
  /\ writing \in [Writers -> {"idle", "loadDump", "loadDrop", "lock", "flush"}]
  /\ newLines \in [Writers -> Contents]
  /\ outcome \in {"none", "ok", "error"}
  /\ torn \in BOOLEAN /\ cut \in BOOLEAN
  /\ pastCheck \in BOOLEAN

HostsInit ==
  /\ file = {"user"}
  /\ fileLock = "nobody"
  /\ doNotDump = FALSE
  /\ writing = [w \in Writers |-> "idle"]
  /\ newLines = [w \in Writers |-> {}]
  /\ outcome = "none"
  /\ torn = FALSE /\ cut = FALSE
  /\ pastCheck = FALSE

Idle(w) == writing[w] = "idle"

Go(w, at) == writing' = [writing EXCEPT ![w] = at]
Return(w, r) ==
  /\ Go(w, "idle")
  /\ outcome' = IF w = "main" THEN r ELSE outcome
  /\ newLines' = [newLines EXCEPT ![w] = {}]

-------------------------------------------------------------------------------
(* hosts.go *)

\* Mutant: callbacks dump also after DropHosts.
DumpsAlways == TRUE

\* The check at the top of DumpHosts.
MayDump == ~doNotDump

DumpHosts(w) ==
  /\ Idle(w)
  /\ \/ MayDump /\ Go(w, "loadDump") /\ UNCHANGED <<outcome, newLines>>
     \/ ~MayDump /\ Return(w, "ok")
  /\ UNCHANGED <<file, fileLock, doNotDump, torn, cut, pastCheck>>

DropHosts(w) ==
  /\ Idle(w)
  /\ doNotDump' = TRUE
  /\ pastCheck' = (\E v \in Writers : ~Idle(v))
  /\ Go(w, "loadDrop")
  /\ UNCHANGED <<file, fileLock, newLines, outcome, torn, cut>>

\* Mutant: the lines before the section are not copied.
NothingKept == {}

\* dropHosts: a section without its last line is an error.
Malformed == "begin" \in file /\ "end" \notin file
LinesKept == file \ Section

Load(w, from, lines) ==
  /\ writing[w] = from
  /\ torn' = (torn \/ fileLock # "nobody")
  /\ \/ Return(w, "error")   \* malformed, or it cannot be read
     \/ ~Malformed /\ from = "loadDrop" /\ lines = file /\ Return(w, "ok")
     \/ /\ ~Malformed /\ (from = "loadDump" \/ lines # file)
        /\ newLines' = [newLines EXCEPT ![w] = lines]
        /\ Go(w, "lock") /\ UNCHANGED outcome
  /\ UNCHANGED <<file, fileLock, doNotDump, cut, pastCheck>>

\* The old section, if there is one, is replaced.
LoadToDump(w) == Load(w, "loadDump", LinesKept \cup Section)

\* Without a section the file is not written.
LoadToDrop(w) == Load(w, "loadDrop", LinesKept)

\* os.Create, once the lock is taken.
UpdateHostsFile(w) ==
  /\ writing[w] = "lock"
  /\ fileLock = "nobody"
  /\ fileLock' = w
  /\ file' = {}
  /\ Go(w, "flush")
  /\ UNCHANGED <<doNotDump, newLines, outcome, torn, cut, pastCheck>>

\* The lock is not free for two seconds, or the file cannot be opened.
UpdateFails(w) ==
  /\ writing[w] = "lock"
  /\ Return(w, "error")
  /\ UNCHANGED <<file, fileLock, doNotDump, torn, cut, pastCheck>>

\* The buffered writer passes on what it has when it is full and at Flush.
Flush(w) ==
  /\ writing[w] = "flush"
  /\ \E p \in Parts(newLines[w]) :
       /\ file \subseteq p /\ (p # file \/ p = newLines[w])
       /\ file' = p
       /\ IF p = newLines[w]
          THEN fileLock' = "nobody" /\ Return(w, "ok")
          ELSE UNCHANGED <<fileLock, writing, outcome, newLines>>
  /\ UNCHANGED <<doNotDump, torn, cut, pastCheck>>

CutShort == fileLock' = "nobody" /\ cut' = TRUE

\* The disk is full, say: what the file has got it keeps.
FlushFails(w) ==
  /\ writing[w] = "flush"
  /\ CutShort
  /\ file' \in {p \in Parts(newLines[w]) : file \subseteq p}
  /\ Return(w, "error")
  /\ UNCHANGED <<doNotDump, torn, pastCheck>>

\* The process ends while w writes: the kernel drops the lock with it.
WriterEnds(w) ==
  /\ writing[w] = "flush"
  /\ CutShort
  /\ Go(w, "idle")
  /\ UNCHANGED <<file, doNotDump, newLines, outcome, torn, pastCheck>>

\* The rest of a call, once begun.
HostsStep(w) ==
  \/ LoadToDump(w) \/ LoadToDrop(w)
  \/ UpdateHostsFile(w) \/ UpdateFails(w) \/ Flush(w) \/ FlushFails(w)

-------------------------------------------------------------------------------
(* Properties *)

\* The user's own lines are in the file whenever nobody writes it, in whatever order
\* dumps and drops load, compute and write, also after calls that failed and when the
\* process has ended.  There are two ways to lose them and no third: a goroutine
\* loads what another is writing, or a write is cut short.
UserLinesKept == ~torn /\ ~cut /\ fileLock = "nobody" => "user" \in file

\* Only the owner of the lock writes, and whoever is to write has those lines.
OwnerFlushes == \A w \in Writers : writing[w] = "flush" => fileLock = w
LinesLoaded ==
  ~torn /\ ~cut =>
    \A w \in Writers : writing[w] \in {"lock", "flush"} => "user" \in newLines[w]

\* The inductive invariant.
HostsInv == HostsType /\ UserLinesKept /\ OwnerFlushes /\ LinesLoaded
=====================================================================================
