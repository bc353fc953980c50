---------------------------- MODULE PackageBuild ----------------------------
(* One `nativepkg` invocation after another writing packages into the same   *)
(* output directory, while an editor changes the project's sources and the   *)
(* process may be killed at any step.                                        *)
(*                                                                           *)
(*   run.rs            plan once, build every selected format, sum up        *)
(*   core/scratch.rs   the two drop guards                                   *)
(*   deb, arch         dir, scratch, output, payload, container, finish      *)
(*   rpm               payload in memory, then dir, output, write, finish    *)
(*                                                                           *)
(* A source is read in two halves, so that an edit may fall between them; a  *)
(* payload is the set of members read so far, in whatever order.             *)
EXTENDS Naturals

CONSTANTS Format,    \* the formats ever selected
          Source,    \* the planned regular files read from disk
          Version,   \* the contents an editor gives them
          Len,       \* the length of each content
          Nothing    \* no source, no content, no member

ASSUME FormatAssumption == Format \subseteq {"deb", "rpm", "arch"}
ASSUME LenAssumption == Len \in [Version -> Nat]

Streams == {"deb", "arch"}     \* payload goes through a scratch file

(* selected_formats: sorted, so built in this order. *)
Rank == [deb |-> 1, rpm |-> 2, arch |-> 3]

VARIABLES source,    \* content of each source on disk
          plan,      \* length of each source recorded by the plan
          pc,        \* where the process is
          fmt,       \* the format being built
          held,      \* the drop guards alive: "scratch", "output"
          cur,       \* the source being read
          head,      \* the content its first half was read from
          payload,   \* the members assembled for the format being built
          outcome,   \* Built.outcome of each format
          exit,      \* exit status of the last invocation
          scratch,   \* scratch files on disk, by format
          output,    \* package files on disk
          package,   \* the members of each package file that is whole
          torn,      \* package files a killed process left half-written
          stray      \* scratch files a killed process left

progress == <<pc, fmt, held>>
reading  == <<cur, head, payload>>
result   == <<outcome, exit>>
disk     == <<scratch, output, package, torn, stray>>
vars     == <<source, plan, progress, reading, result, disk>>

Stage == {"idle", "planning", "next", "dir", "scratch", "create", "payload",
          "half", "container", "finish", "done", "unwind"}

(* No format is being built. *)
Between == {"idle", "planning", "next"}

(* The entry header of a member carries `len`; its data region has `bytes`,  *)
(* read from the contents `read`.                                            *)
Member == [len : Nat, bytes : Nat, read : SUBSET Version]
ASSUME NothingAssumption == Nothing \notin Source \cup Version \cup Member
NoMembers == [s \in Source |-> Nothing]

TypeOK ==
    /\ source \in [Source -> Version]
    /\ plan \in [Source -> Nat]
    /\ pc \in Stage
    /\ fmt \in IF pc \in Between THEN {"none"} ELSE Format
    /\ held \in SUBSET IF pc \in Between THEN {} ELSE {"scratch", "output"}
    /\ cur \in IF pc = "half" THEN Source ELSE {Nothing}
    /\ head \in IF pc = "half" THEN Version ELSE {Nothing}
    /\ payload \in [Source -> Member \cup {Nothing}]
    /\ outcome \in [Format -> {"unselected", "pending", "ok", "err"}]
    /\ exit \in {"none", "zero", "one", "killed"}
    /\ scratch \in SUBSET Format
    /\ output \in [Format -> {"absent", "partial", "whole"}]
    /\ package \in [Format -> [Source -> Member \cup {Nothing}]]
    /\ torn \in SUBSET Format
    /\ stray \in SUBSET Format

Init ==
    /\ source \in [Source -> Version]
    /\ plan = [s \in Source |-> 0]
    /\ pc = "idle" /\ fmt = "none" /\ held = {}
    /\ cur = Nothing /\ head = Nothing /\ payload = NoMembers
    /\ outcome = [f \in Format |-> "unselected"] /\ exit = "none"
    /\ scratch = {} /\ output = [f \in Format |-> "absent"]
    /\ package = [f \in Format |-> NoMembers]
    /\ torn = {} /\ stray = {}

-----------------------------------------------------------------------------
(* run.rs *)

Invoke(F) ==
    /\ pc = "idle"
    /\ pc' = "planning"
    /\ outcome' = [f \in Format |-> IF f \in F THEN "pending" ELSE "unselected"]
    /\ exit' = "none"
    /\ UNCHANGED <<source, plan, fmt, held, reading, disk>>

(* Nothing was attempted: an empty list of outcomes. *)
Leave(status) ==
    /\ pc = "planning"
    /\ pc' = "idle"
    /\ outcome' = [f \in Format |-> "unselected"]
    /\ exit' = status
    /\ UNCHANGED <<source, plan, fmt, held, reading, disk>>

PlanFails == Leave("one")
DryRun    == Leave("zero")

Plan ==
    /\ pc = "planning"
    /\ plan' = [s \in Source |-> Len[source[s]]]
    /\ pc' = "next"
    /\ UNCHANGED <<source, fmt, held, reading, result, disk>>

(* Mutant: every backend opens its output before it reads the sources. *)
BeginFormatOutputFirst(f) ==
    /\ pc = "next"
    /\ outcome[f] = "pending"
    /\ \A g \in Format : outcome[g] = "pending" => Rank[f] <= Rank[g]
    /\ fmt' = f
    /\ pc' \in {"dir", "unwind"}
    /\ UNCHANGED <<source, plan, held, reading, result, disk>>

(* The next selected format, in order: its variables, generated files,       *)
(* scripts and triggers are prepared in memory, then its backend starts.     *)
BeginFormat(f) ==
    /\ pc = "next"
    /\ outcome[f] = "pending"
    /\ \A g \in Format : outcome[g] = "pending" => Rank[f] <= Rank[g]
    /\ fmt' = f
    /\ pc' \in {IF f \in Streams THEN "dir" ELSE "payload", "unwind"}
    /\ UNCHANGED <<source, plan, held, reading, result, disk>>

(* Mutant: a backend's error is dropped and the path reported anyway. *)
RecordOutcomeOk ==
    /\ pc \in {"done", "unwind"} /\ held = {}
    /\ outcome' = [outcome EXCEPT ![fmt] = "ok"]
    /\ pc' = "next" /\ fmt' = "none" /\ payload' = NoMembers
    /\ UNCHANGED <<source, plan, held, cur, head, exit, disk>>

(* Mutant: a failed format is left to be tried again. *)
RecordOutcomeRetrying ==
    /\ pc \in {"done", "unwind"} /\ held = {}
    /\ outcome' = [outcome EXCEPT ![fmt] = IF pc = "done" THEN "ok" ELSE "pending"]
    /\ pc' = "next" /\ fmt' = "none" /\ payload' = NoMembers
    /\ UNCHANGED <<source, plan, held, cur, head, exit, disk>>

(* The backend has returned and its guards are gone. *)
RecordOutcome ==
    /\ pc \in {"done", "unwind"} /\ held = {}
    /\ outcome' = [outcome EXCEPT ![fmt] = IF pc = "done" THEN "ok" ELSE "err"]
    /\ pc' = "next" /\ fmt' = "none" /\ payload' = NoMembers
    /\ UNCHANGED <<source, plan, held, cur, head, exit, disk>>

(* Mutant: one format built is enough for status 0. *)
SummariseAnyBuilt ==
    /\ pc = "next"
    /\ \A f \in Format : outcome[f] # "pending"
    /\ exit' = IF \E f \in Format : outcome[f] = "ok" THEN "zero" ELSE "one"
    /\ pc' = "idle"
    /\ UNCHANGED <<source, plan, fmt, held, reading, outcome, disk>>

Summarise ==
    /\ pc = "next"
    /\ \A f \in Format : outcome[f] # "pending"
    /\ exit' = IF \E f \in Format : outcome[f] = "err" THEN "one" ELSE "zero"
    /\ pc' = "idle"
    /\ UNCHANGED <<source, plan, fmt, held, reading, outcome, disk>>

-----------------------------------------------------------------------------
(* The backends' steps up to the payload *)

MakeDir ==
    /\ pc = "dir"
    /\ pc' = IF fmt \in Streams THEN "scratch" ELSE "create"
    /\ UNCHANGED <<source, plan, fmt, held, reading, result, disk>>

(* ScratchFile::in_dir replaces whatever stands there. *)
OpenScratch ==
    /\ pc = "scratch"
    /\ scratch' = scratch \cup {fmt}
    /\ stray' = stray \ {fmt}
    /\ held' = held \cup {"scratch"}
    /\ pc' = "create"
    /\ UNCHANGED <<source, plan, fmt, reading, result, output, package, torn>>

(* OutputFile::create truncates an earlier package of the same name. *)
CreateOutput ==
    /\ pc = "create"
    /\ output' = [output EXCEPT ![fmt] = "partial"]
    /\ package' = [package EXCEPT ![fmt] = NoMembers]
    /\ torn' = torn \ {fmt}
    /\ held' = held \cup {"output"}
    /\ pc' = IF fmt \in Streams THEN "payload" ELSE "container"
    /\ UNCHANGED <<source, plan, fmt, reading, result, scratch, stray>>

-----------------------------------------------------------------------------
(* Reading the sources *)

(* Only the deb backend compares the length on disk with the planned one.    *)
LengthStillPlanned(s) == fmt = "deb" => Len[source[s]] = plan[s]

OpenSource(s) ==
    /\ pc = "payload"
    /\ payload[s] = Nothing
    /\ \/ LengthStillPlanned(s) /\ cur' = s /\ head' = source[s] /\ pc' = "half"
       \/ ~LengthStillPlanned(s) /\ pc' = "unwind" /\ UNCHANGED <<cur, head>>
    /\ UNCHANGED <<source, plan, fmt, held, payload, result, disk>>

(* Mutant: the length is checked when the source is opened, and not again. *)
BytesTrusted(bytes) == TRUE

(* deb and arch wrote a header with the planned length and refuse a member   *)
(* of another; rpm's header is made from the bytes read.                     *)
BytesAccepted(bytes) == fmt \in Streams => bytes = plan[cur]

(* The rest of the source, up to the end of file it has by now. *)
ReadTail ==
    /\ pc = "half"
    /\ LET bytes == Len[source[cur]]
           len   == IF fmt \in Streams THEN plan[cur] ELSE bytes
       IN  /\ payload' = [payload EXCEPT ![cur] =
                  [len |-> len, bytes |-> bytes, read |-> {head, source[cur]}]]
           /\ pc' = IF BytesAccepted(bytes) THEN "payload" ELSE "unwind"
    /\ cur' = Nothing /\ head' = Nothing
    /\ UNCHANGED <<source, plan, fmt, held, result, disk>>

PayloadDone ==
    /\ pc = "payload"
    /\ \A s \in Source : payload[s] # Nothing
    /\ pc' = IF fmt \in Streams THEN "container" ELSE "dir"
    /\ UNCHANGED <<source, plan, fmt, held, reading, result, disk>>

-----------------------------------------------------------------------------
(* The container, and the guards *)

(* Metadata members and the payload are copied into the output file. *)
WriteContainer ==
    /\ pc = "container"
    /\ pc' = "finish"
    /\ UNCHANGED <<source, plan, fmt, held, reading, result, disk>>

(* OutputFile::finish: flushed, and kept. *)
Finish ==
    /\ pc = "finish"
    /\ output' = [output EXCEPT ![fmt] = "whole"]
    /\ package' = [package EXCEPT ![fmt] = payload]
    /\ held' = held \ {"output"}
    /\ pc' = "done"
    /\ UNCHANGED <<source, plan, fmt, reading, result, scratch, torn, stray>>

(* Any system call or library call of the backend returns an error. *)
Fail ==
    /\ pc \in {"dir", "scratch", "create", "payload", "half", "container", "finish"}
    /\ pc' = "unwind"
    /\ cur' = Nothing /\ head' = Nothing
    /\ UNCHANGED <<source, plan, fmt, held, payload, result, disk>>

(* Drop for OutputFile, not kept: it goes before the scratch file does. *)
DropOutput ==
    /\ pc = "unwind" /\ "output" \in held
    /\ output' = [output EXCEPT ![fmt] = "absent"]
    /\ held' = held \ {"output"}
    /\ UNCHANGED <<source, plan, pc, fmt, reading, result, scratch, package, torn, stray>>

(* Mutant: the scratch file is forgotten once its payload was copied. *)
DropScratchForgetting ==
    /\ pc \in {"done", "unwind"} /\ held = {"scratch"}
    /\ held' = {}
    /\ UNCHANGED <<source, plan, pc, fmt, reading, result, disk>>

DropScratch ==
    /\ pc \in {"done", "unwind"} /\ held = {"scratch"}
    /\ scratch' = scratch \ {fmt}
    /\ held' = {}
    /\ UNCHANGED <<source, plan, pc, fmt, reading, result, output, package, torn, stray>>

-----------------------------------------------------------------------------
(* The world *)

(* Killed: no destructor runs, so what the guards held stays on disk. *)
Kill ==
    /\ pc # "idle"
    /\ pc' = "idle" /\ fmt' = "none" /\ held' = {}
    /\ cur' = Nothing /\ head' = Nothing /\ payload' = NoMembers
    /\ exit' = "killed"
    /\ torn' = IF "output" \in held THEN torn \cup {fmt} ELSE torn
    /\ stray' = IF "scratch" \in held THEN stray \cup {fmt} ELSE stray
    /\ UNCHANGED <<source, plan, outcome, scratch, output, package>>

Edit(s, v) ==
    /\ source[s] # v
    /\ source' = [source EXCEPT ![s] = v]
    /\ UNCHANGED <<plan, progress, reading, result, disk>>

Tool ==
    \/ PlanFails \/ DryRun \/ Plan \/ RecordOutcome \/ Summarise
    \/ \E f \in Format : BeginFormat(f)
    \/ MakeDir \/ OpenScratch \/ CreateOutput
    \/ (\E s \in Source : OpenSource(s)) \/ ReadTail \/ PayloadDone
    \/ WriteContainer \/ Finish \/ Fail \/ DropOutput \/ DropScratch

World ==
    \/ \E F \in SUBSET Format \ {{}} : Invoke(F)
    \/ \E s \in Source, v \in Version : Edit(s, v)
    \/ Kill

Next == Tool \/ World

Spec == Init /\ [][Next]_vars

(* A process that is not killed keeps executing; nobody has to invoke it,    *)
(* edit the project or kill it.                                              *)
FairSpec == Spec /\ WF_vars(Tool)

-----------------------------------------------------------------------------
(* Properties *)

(* A half-written package is on disk only under the process writing it, or   *)
(* where a killed process left it: every error path removes it.              *)
TruncatedOnlyIfKilled ==
    \A f \in Format : output[f] = "partial" =>
        f \in torn \/ (f = fmt /\ "output" \in held)

(* A scratch file outlives its build only where a process was killed.        *)
ScratchOnlyIfKilled ==
    \A f \in scratch : f \in stray \/ (f = fmt /\ "scratch" \in held)

(* Both: nothing unfinished is left by any run that was not killed.          *)
LeftoversOnlyIfKilled == TruncatedOnlyIfKilled /\ ScratchOnlyIfKilled

(* A package that stands complete holds every planned source, and no member  *)
(* whose data region disagrees with its header, however sources were edited. *)
WholePackagesAreConsistent ==
    \A f \in Format : output[f] = "whole" =>
        \A s \in Source : package[f][s] # Nothing
                          /\ package[f][s].len = package[f][s].bytes

(* Exit status 0 means every selected format's package is there, status 1    *)
(* that no selected format was skipped; a format reported built is there.    *)
VerdictIsTrue ==
    /\ \A f \in Format : outcome[f] = "ok" => output[f] = "whole"
    /\ exit = "zero" => \A f \in Format : outcome[f] \in {"unselected", "ok"}
    /\ exit = "one" => \A f \in Format : outcome[f] # "pending"

(* The streaming backends ship every source at the length the plan recorded, *)
(* which generated metadata such as Installed-Size was computed from.        *)
PlannedLengthsShip ==
    \A f \in Format \cap Streams : outcome[f] = "ok" =>
        \A s \in Source : package[f][s].bytes = plan[s]

(* The rpm backend touches the output directory only once every source was   *)
(* read, so a missing or unreadable source costs no earlier package.         *)
EarlierRpmSurvivesBadSource ==
    [][\A f \in Format \ Streams : output[f] = "whole" /\ output'[f] # "whole" =>
        \A s \in Source : payload[s] # Nothing]_vars

(* Left alone, an invocation ends: no error path is retried or forgotten.    *)
EveryRunEnds == [](pc # "idle" => <>(pc = "idle"))

(* The disk and the verdicts behave as PackageStore promises. *)
Store == INSTANCE PackageStore WITH
    slot <- [f \in Format |->
                IF output[f] = "partial" /\ f \notin torn THEN "writing"
                ELSE IF output[f] = "partial" THEN "torn" ELSE output[f]],
    verdict <- outcome
StoreSpec == Store!Spec
=============================================================================
