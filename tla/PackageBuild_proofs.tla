------------------------ MODULE PackageBuild_proofs ------------------------
(* For every set of formats, sources and contents: the types, and the safety *)
(* of the output directory and of the verdicts, from one inductive invariant.*)
EXTENDS PackageBuild, TLAPS

Sound(s) == LET m == payload[s]
            IN  /\ m # Nothing /\ m.len = m.bytes
                /\ fmt \in Streams => m.bytes = plan[s]
Complete == \A s \in Source : Sound(s)

(* Who holds what at each stage: a guard is held for the format being built, *)
(* whose verdict is pending, and the file it guards is there.                *)
Guards ==
    /\ pc \notin Between => outcome[fmt] = "pending"
    /\ "scratch" \in held => fmt \in scratch
    /\ "output" \in held => output[fmt] = "partial" /\ fmt \notin torn
    /\ pc \in {"dir", "scratch"} => held = {}
    /\ pc = "scratch" => fmt \in Streams
    /\ pc = "create" => held = IF fmt \in Streams THEN {"scratch"} ELSE {}
    /\ pc \in {"payload", "half"} =>
           held = IF fmt \in Streams THEN {"scratch", "output"} ELSE {}
    /\ pc = "done" => "output" \notin held /\ output[fmt] = "whole"
    /\ pc \in {"container", "finish"} => "output" \in held

(* What is known of the payload: members that were read are sound until one  *)
(* is refused, and past the payload stage no member is missing.              *)
Payload ==
    /\ pc \in {"payload", "half"} =>
           \A s \in Source : payload[s] # Nothing => Sound(s)
    /\ pc \in {"dir", "scratch", "create"} /\ fmt \notin Streams => Complete
    /\ pc \in {"dir", "scratch", "create"} /\ fmt \in Streams => payload = NoMembers
    /\ pc \in {"container", "finish"} => Complete
    /\ pc = "done" => package[fmt] = payload /\ Complete
    /\ pc \in Between => payload = NoMembers

(* The exit status and the verdicts of a run are those of this run.          *)
Fresh == /\ exit \in {"zero", "one"} => pc = "idle"
         /\ pc = "planning" => \A f \in Format : outcome[f] \in {"unselected", "pending"}

IInv ==
    /\ TypeOK
    /\ Guards
    /\ Payload
    /\ Fresh
    /\ TruncatedOnlyIfKilled
    /\ ScratchOnlyIfKilled
    /\ WholePackagesAreConsistent
    /\ VerdictIsTrue
    /\ PlannedLengthsShip

-----------------------------------------------------------------------------
(* Every step of the tool or of the world keeps every variable in its range. *)
LEMMA TypeStep == TypeOK /\ [Next]_vars => TypeOK'
<1>1. SUFFICES ASSUME TypeOK, [Next]_vars PROVE TypeOK'
  OBVIOUS
<1> USE FormatAssumption, LenAssumption, NothingAssumption
<1> USE DEF TypeOK, Stage, Between, NoMembers
<1>2. ASSUME NEW F \in SUBSET Format \ {{}}, Invoke(F) PROVE TypeOK'
  BY <1>1, <1>2 DEF Invoke, reading, disk
<1>3. CASE PlanFails \/ DryRun
  BY <1>1, <1>3 DEF PlanFails, DryRun, Leave, reading, disk
<1>4. CASE Plan
  BY <1>1, <1>4 DEF Plan, reading, result, disk
<1>5. ASSUME NEW f \in Format, BeginFormat(f) PROVE TypeOK'
  BY <1>1, <1>5 DEF BeginFormat, reading, result, disk
<1>6. CASE RecordOutcome
  BY <1>1, <1>6 DEF RecordOutcome, disk
<1>7. CASE Summarise
  BY <1>1, <1>7 DEF Summarise, reading, disk
<1>8. CASE MakeDir
  BY <1>1, <1>8 DEF MakeDir, reading, result, disk
<1>9. CASE OpenScratch
  BY <1>1, <1>9 DEF OpenScratch, reading, result
<1>10. CASE CreateOutput
  BY <1>1, <1>10 DEF CreateOutput, reading, result
<1>11. ASSUME NEW s \in Source, OpenSource(s) PROVE TypeOK'
  BY <1>1, <1>11 DEF OpenSource, result, disk
<1>12. CASE ReadTail
  BY <1>1, <1>12 DEF ReadTail, Member, result, disk
<1>13. CASE PayloadDone
  BY <1>1, <1>13 DEF PayloadDone, reading, result, disk
<1>14. CASE WriteContainer
  BY <1>1, <1>14 DEF WriteContainer, reading, result, disk
<1>15. CASE Finish
  BY <1>1, <1>15 DEF Finish, reading, result
<1>16. CASE Fail
  BY <1>1, <1>16 DEF Fail, result, disk
<1>17. CASE DropOutput
  BY <1>1, <1>17 DEF DropOutput, reading, result
<1>18. CASE DropScratch
  BY <1>1, <1>18 DEF DropScratch, reading, result
<1>19. ASSUME NEW s \in Source, NEW v \in Version, Edit(s, v) PROVE TypeOK'
  BY <1>1, <1>19 DEF Edit, progress, reading, result, disk
<1>20. CASE Kill
  BY <1>1, <1>20 DEF Kill
<1>21. CASE UNCHANGED vars
  BY <1>1, <1>21 DEF vars, progress, reading, result, disk
<1> QED
  BY <1>1, <1>2, <1>3, <1>4, <1>5, <1>6, <1>7, <1>8, <1>9, <1>10, <1>11, <1>12,
     <1>13, <1>14, <1>15, <1>16, <1>17, <1>18, <1>19, <1>20, <1>21
     DEF Next, Tool, World

(* The values the variables of PackageBuild take, whatever is selected,      *)
(* edited, failing or killed.                                                *)
THEOREM TypeCorrect == Spec => []TypeOK
<1>1. Init => TypeOK
  BY NothingAssumption DEF Init, TypeOK, Stage, Between, NoMembers
<1> QED
  BY <1>1, TypeStep, PTL DEF Spec
(* A guard is held exactly where the code's locals are alive. *)
LEMMA GuardsStep == TypeOK /\ Guards /\ TypeOK' /\ [Next]_vars => Guards'
<1>1. SUFFICES ASSUME TypeOK, Guards, TypeOK', [Next]_vars PROVE Guards'
  OBVIOUS
<1> USE DEF Guards, TypeOK, Stage, Between, progress, reading, result, disk
<1>2. ASSUME NEW F \in SUBSET Format \ {{}}, Invoke(F) PROVE Guards'
  BY <1>1, <1>2 DEF Invoke
<1>3. ASSUME NEW f \in Format, BeginFormat(f) PROVE Guards'
  BY <1>1, <1>3 DEF BeginFormat
<1>4. ASSUME NEW s \in Source, OpenSource(s) PROVE Guards'
  BY <1>1, <1>4 DEF OpenSource
<1>5. ASSUME NEW s \in Source, NEW v \in Version, Edit(s, v) PROVE Guards'
  BY <1>1, <1>5 DEF Edit
<1>6. CASE PlanFails \/ DryRun
  BY <1>1, <1>6 DEF PlanFails, DryRun, Leave
<1>7. CASE Plan
  BY <1>1, <1>7 DEF Plan
<1>8. CASE RecordOutcome
  BY <1>1, <1>8 DEF RecordOutcome
<1>9. CASE Summarise
  BY <1>1, <1>9 DEF Summarise
<1>10. CASE MakeDir
  BY <1>1, <1>10 DEF MakeDir
<1>11. CASE OpenScratch
  BY <1>1, <1>11 DEF OpenScratch
<1>12. CASE CreateOutput
  BY <1>1, <1>12 DEF CreateOutput
<1>13. CASE ReadTail
  BY <1>1, <1>13 DEF ReadTail
<1>14. CASE PayloadDone
  BY <1>1, <1>14 DEF PayloadDone
<1>15. CASE WriteContainer
  BY <1>1, <1>15 DEF WriteContainer
<1>16. CASE Finish
  BY <1>1, <1>16 DEF Finish
<1>17. CASE Fail
  BY <1>1, <1>17 DEF Fail
<1>18. CASE DropOutput
  BY <1>1, <1>18 DEF DropOutput
<1>19. CASE DropScratch
  BY <1>1, <1>19 DEF DropScratch
<1>20. CASE Kill
  BY <1>1, <1>20 DEF Kill
<1>21. CASE UNCHANGED vars
  BY <1>1, <1>21 DEF vars
<1> QED
  BY <1>1, <1>2, <1>3, <1>4, <1>5, <1>6, <1>7, <1>8, <1>9, <1>10, <1>11, <1>12, <1>13, <1>14,
     <1>15, <1>16, <1>17, <1>18, <1>19, <1>20, <1>21 DEF Next, Tool, World

(* The payload is sound until a member is refused. *)
LEMMA PayloadStep == TypeOK /\ Payload /\ TypeOK' /\ [Next]_vars => Payload'
<1>1. SUFFICES ASSUME TypeOK, Payload, TypeOK', [Next]_vars PROVE Payload'
  OBVIOUS
<1> USE NothingAssumption, LenAssumption DEF Payload, Complete, Sound, NoMembers, BytesAccepted, TypeOK, Stage, Between, progress, reading, result, disk
<1>2. ASSUME NEW F \in SUBSET Format \ {{}}, Invoke(F) PROVE Payload'
  BY <1>1, <1>2 DEF Invoke
<1>3. ASSUME NEW f \in Format, BeginFormat(f) PROVE Payload'
  BY <1>1, <1>3 DEF BeginFormat
<1>4. ASSUME NEW s \in Source, OpenSource(s) PROVE Payload'
  BY <1>1, <1>4 DEF OpenSource
<1>5. ASSUME NEW s \in Source, NEW v \in Version, Edit(s, v) PROVE Payload'
  BY <1>1, <1>5 DEF Edit
<1>6. CASE PlanFails \/ DryRun
  BY <1>1, <1>6 DEF PlanFails, DryRun, Leave
<1>7. CASE Plan
  BY <1>1, <1>7 DEF Plan
<1>8. CASE RecordOutcome
  BY <1>1, <1>8 DEF RecordOutcome
<1>9. CASE Summarise
  BY <1>1, <1>9 DEF Summarise
<1>10. CASE MakeDir
  BY <1>1, <1>10 DEF MakeDir
<1>11. CASE OpenScratch
  BY <1>1, <1>11 DEF OpenScratch
<1>12. CASE CreateOutput
  BY <1>1, <1>12 DEF CreateOutput
<1>13. CASE ReadTail
  BY <1>1, <1>13 DEF ReadTail
<1>14. CASE PayloadDone
  BY <1>1, <1>14 DEF PayloadDone
<1>15. CASE WriteContainer
  BY <1>1, <1>15 DEF WriteContainer
<1>16. CASE Finish
  BY <1>1, <1>16 DEF Finish
<1>17. CASE Fail
  BY <1>1, <1>17 DEF Fail
<1>18. CASE DropOutput
  BY <1>1, <1>18 DEF DropOutput
<1>19. CASE DropScratch
  BY <1>1, <1>19 DEF DropScratch
<1>20. CASE Kill
  BY <1>1, <1>20 DEF Kill
<1>21. CASE UNCHANGED vars
  BY <1>1, <1>21 DEF vars
<1> QED
  BY <1>1, <1>2, <1>3, <1>4, <1>5, <1>6, <1>7, <1>8, <1>9, <1>10, <1>11, <1>12, <1>13, <1>14,
     <1>15, <1>16, <1>17, <1>18, <1>19, <1>20, <1>21 DEF Next, Tool, World

(* Files a build leaves are accounted for. *)
LEMMA DiskStep ==
    TypeOK /\ Guards /\ TruncatedOnlyIfKilled /\ ScratchOnlyIfKilled /\ TypeOK' /\ [Next]_vars
        => TruncatedOnlyIfKilled' /\ ScratchOnlyIfKilled'
<1>1. SUFFICES ASSUME TypeOK, Guards, TruncatedOnlyIfKilled, ScratchOnlyIfKilled, TypeOK', [Next]_vars PROVE TruncatedOnlyIfKilled' /\ ScratchOnlyIfKilled'
  OBVIOUS
<1> USE DEF Guards, TruncatedOnlyIfKilled, ScratchOnlyIfKilled, TypeOK, Stage, Between, progress, reading, result, disk
<1>2. ASSUME NEW F \in SUBSET Format \ {{}}, Invoke(F) PROVE TruncatedOnlyIfKilled' /\ ScratchOnlyIfKilled'
  BY <1>1, <1>2 DEF Invoke
<1>3. ASSUME NEW f \in Format, BeginFormat(f) PROVE TruncatedOnlyIfKilled' /\ ScratchOnlyIfKilled'
  BY <1>1, <1>3 DEF BeginFormat
<1>4. ASSUME NEW s \in Source, OpenSource(s) PROVE TruncatedOnlyIfKilled' /\ ScratchOnlyIfKilled'
  BY <1>1, <1>4 DEF OpenSource
<1>5. ASSUME NEW s \in Source, NEW v \in Version, Edit(s, v) PROVE TruncatedOnlyIfKilled' /\ ScratchOnlyIfKilled'
  BY <1>1, <1>5 DEF Edit
<1>6. CASE PlanFails \/ DryRun
  BY <1>1, <1>6 DEF PlanFails, DryRun, Leave
<1>7. CASE Plan
  BY <1>1, <1>7 DEF Plan
<1>8. CASE RecordOutcome
  BY <1>1, <1>8 DEF RecordOutcome
<1>9. CASE Summarise
  BY <1>1, <1>9 DEF Summarise
<1>10. CASE MakeDir
  BY <1>1, <1>10 DEF MakeDir
<1>11. CASE OpenScratch
  BY <1>1, <1>11 DEF OpenScratch
<1>12. CASE CreateOutput
  BY <1>1, <1>12 DEF CreateOutput
<1>13. CASE ReadTail
  BY <1>1, <1>13 DEF ReadTail
<1>14. CASE PayloadDone
  BY <1>1, <1>14 DEF PayloadDone
<1>15. CASE WriteContainer
  BY <1>1, <1>15 DEF WriteContainer
<1>16. CASE Finish
  BY <1>1, <1>16 DEF Finish
<1>17. CASE Fail
  BY <1>1, <1>17 DEF Fail
<1>18. CASE DropOutput
  BY <1>1, <1>18 DEF DropOutput
<1>19. CASE DropScratch
  BY <1>1, <1>19 DEF DropScratch
<1>20. CASE Kill
  BY <1>1, <1>20 DEF Kill
<1>21. CASE UNCHANGED vars
  BY <1>1, <1>21 DEF vars
<1> QED
  BY <1>1, <1>2, <1>3, <1>4, <1>5, <1>6, <1>7, <1>8, <1>9, <1>10, <1>11, <1>12, <1>13, <1>14,
     <1>15, <1>16, <1>17, <1>18, <1>19, <1>20, <1>21 DEF Next, Tool, World

(* Only a complete payload is published. *)
LEMMA WholeStep ==
    TypeOK /\ Guards /\ Payload /\ Fresh /\ WholePackagesAreConsistent /\ PlannedLengthsShip
    /\ TypeOK' /\ [Next]_vars
        => (WholePackagesAreConsistent /\ PlannedLengthsShip)'
<1>1. SUFFICES ASSUME TypeOK, Guards, Payload, Fresh, WholePackagesAreConsistent, PlannedLengthsShip, TypeOK', [Next]_vars PROVE (WholePackagesAreConsistent /\ PlannedLengthsShip)'
  OBVIOUS
<1> USE DEF Payload, Complete, Sound, Guards, Fresh, WholePackagesAreConsistent, PlannedLengthsShip, NoMembers, TypeOK, Stage, Between, progress, reading, result, disk
<1>2. ASSUME NEW F \in SUBSET Format \ {{}}, Invoke(F) PROVE (WholePackagesAreConsistent /\ PlannedLengthsShip)'
  BY <1>1, <1>2 DEF Invoke
<1>3. ASSUME NEW f \in Format, BeginFormat(f) PROVE (WholePackagesAreConsistent /\ PlannedLengthsShip)'
  BY <1>1, <1>3 DEF BeginFormat
<1>4. ASSUME NEW s \in Source, OpenSource(s) PROVE (WholePackagesAreConsistent /\ PlannedLengthsShip)'
  BY <1>1, <1>4 DEF OpenSource
<1>5. ASSUME NEW s \in Source, NEW v \in Version, Edit(s, v) PROVE (WholePackagesAreConsistent /\ PlannedLengthsShip)'
  BY <1>1, <1>5 DEF Edit
<1>6. CASE PlanFails \/ DryRun
  BY <1>1, <1>6 DEF PlanFails, DryRun, Leave
<1>7. CASE Plan
  BY <1>1, <1>7 DEF Plan
<1>8. CASE RecordOutcome
  BY <1>1, <1>8 DEF RecordOutcome
<1>9. CASE Summarise
  BY <1>1, <1>9 DEF Summarise
<1>10. CASE MakeDir
  BY <1>1, <1>10 DEF MakeDir
<1>11. CASE OpenScratch
  BY <1>1, <1>11 DEF OpenScratch
<1>12. CASE CreateOutput
  BY <1>1, <1>12 DEF CreateOutput
<1>13. CASE ReadTail
  BY <1>1, <1>13 DEF ReadTail
<1>14. CASE PayloadDone
  BY <1>1, <1>14 DEF PayloadDone
<1>15. CASE WriteContainer
  BY <1>1, <1>15 DEF WriteContainer
<1>16. CASE Finish
  BY <1>1, <1>16 DEF Finish
<1>17. CASE Fail
  BY <1>1, <1>17 DEF Fail
<1>18. CASE DropOutput
  BY <1>1, <1>18 DEF DropOutput
<1>19. CASE DropScratch
  BY <1>1, <1>19 DEF DropScratch
<1>20. CASE Kill
  BY <1>1, <1>20 DEF Kill
<1>21. CASE UNCHANGED vars
  BY <1>1, <1>21 DEF vars
<1> QED
  BY <1>1, <1>2, <1>3, <1>4, <1>5, <1>6, <1>7, <1>8, <1>9, <1>10, <1>11, <1>12, <1>13, <1>14,
     <1>15, <1>16, <1>17, <1>18, <1>19, <1>20, <1>21 DEF Next, Tool, World

(* Only a published package is reported built. *)
LEMMA VerdictStep ==
    TypeOK /\ Guards /\ Fresh /\ VerdictIsTrue /\ TypeOK' /\ [Next]_vars
        => Fresh' /\ VerdictIsTrue'
<1>1. SUFFICES ASSUME TypeOK, Guards, Fresh, VerdictIsTrue, TypeOK', [Next]_vars PROVE Fresh' /\ VerdictIsTrue'
  OBVIOUS
<1> USE DEF Guards, Fresh, VerdictIsTrue, TypeOK, Stage, Between, progress, reading, result, disk
<1>2. ASSUME NEW F \in SUBSET Format \ {{}}, Invoke(F) PROVE Fresh' /\ VerdictIsTrue'
  BY <1>1, <1>2 DEF Invoke
<1>3. ASSUME NEW f \in Format, BeginFormat(f) PROVE Fresh' /\ VerdictIsTrue'
  BY <1>1, <1>3 DEF BeginFormat
<1>4. ASSUME NEW s \in Source, OpenSource(s) PROVE Fresh' /\ VerdictIsTrue'
  BY <1>1, <1>4 DEF OpenSource
<1>5. ASSUME NEW s \in Source, NEW v \in Version, Edit(s, v) PROVE Fresh' /\ VerdictIsTrue'
  BY <1>1, <1>5 DEF Edit
<1>6. CASE PlanFails \/ DryRun
  BY <1>1, <1>6 DEF PlanFails, DryRun, Leave
<1>7. CASE Plan
  BY <1>1, <1>7 DEF Plan
<1>8. CASE RecordOutcome
  BY <1>1, <1>8 DEF RecordOutcome
<1>9. CASE Summarise
  BY <1>1, <1>9 DEF Summarise
<1>10. CASE MakeDir
  BY <1>1, <1>10 DEF MakeDir
<1>11. CASE OpenScratch
  BY <1>1, <1>11 DEF OpenScratch
<1>12. CASE CreateOutput
  BY <1>1, <1>12 DEF CreateOutput
<1>13. CASE ReadTail
  BY <1>1, <1>13 DEF ReadTail
<1>14. CASE PayloadDone
  BY <1>1, <1>14 DEF PayloadDone
<1>15. CASE WriteContainer
  BY <1>1, <1>15 DEF WriteContainer
<1>16. CASE Finish
  BY <1>1, <1>16 DEF Finish
<1>17. CASE Fail
  BY <1>1, <1>17 DEF Fail
<1>18. CASE DropOutput
  BY <1>1, <1>18 DEF DropOutput
<1>19. CASE DropScratch
  BY <1>1, <1>19 DEF DropScratch
<1>20. CASE Kill
  BY <1>1, <1>20 DEF Kill
<1>21. CASE UNCHANGED vars
  BY <1>1, <1>21 DEF vars
<1> QED
  BY <1>1, <1>2, <1>3, <1>4, <1>5, <1>6, <1>7, <1>8, <1>9, <1>10, <1>11, <1>12, <1>13, <1>14,
     <1>15, <1>16, <1>17, <1>18, <1>19, <1>20, <1>21 DEF Next, Tool, World

(* The parts are inductive together: none of them is on its own. *)
LEMMA InvariantStep == IInv /\ [Next]_vars => IInv'
  BY TypeStep, GuardsStep, PayloadStep, DiskStep, WholeStep, VerdictStep DEF IInv

(* An empty output directory satisfies all of them. *)
LEMMA InvariantInit == Init => IInv
  BY NothingAssumption DEF Init, IInv, TypeOK, Stage, Between, Guards, Payload, NoMembers,
     Complete, Fresh, TruncatedOnlyIfKilled, ScratchOnlyIfKilled,
     WholePackagesAreConsistent, VerdictIsTrue, PlannedLengthsShip

(* So every reachable state does. *)
LEMMA Invariant == Spec => []IInv
  BY InvariantInit, InvariantStep, PTL DEF Spec

(* For every choice of formats, sources, contents and lengths: however the   *)
(* sources are edited, wherever a call fails and whenever the process is     *)
(* killed, a half-written package or a leftover scratch file means a kill, a *)
(* complete package is consistent, and what the run says is true.            *)
THEOREM OutputDirectorySafe ==
    Spec => [](/\ LeftoversOnlyIfKilled /\ VerdictIsTrue
               /\ WholePackagesAreConsistent /\ PlannedLengthsShip)
<1>1. IInv => /\ LeftoversOnlyIfKilled /\ VerdictIsTrue
              /\ WholePackagesAreConsistent /\ PlannedLengthsShip
  BY DEF IInv, LeftoversOnlyIfKilled
<1> QED
  BY <1>1, Invariant, PTL

(* Exit status 0 means that every selected package is there, and a package   *)
(* reported built is, whatever failed on the way and whatever was there.     *)
THEOREM VerdictsAreTrue == Spec => []VerdictIsTrue
  BY OutputDirectorySafe, PTL

(* A complete package holds every source, and no member whose data disagrees *)
(* with its header, however the sources are edited meanwhile.                *)
THEOREM PackagesAreConsistent == Spec => []WholePackagesAreConsistent
  BY OutputDirectorySafe, PTL

(* A complete deb or arch package has every file at the length it was        *)
(* planned with: one that grew or shrank fails the build.                    *)
THEOREM LengthsArePlanned == Spec => []PlannedLengthsShip
  BY OutputDirectorySafe, PTL

(* An earlier rpm package is only replaced once the new one is assembled.    *)
THEOREM EarlierRpmSurvives == Spec => EarlierRpmSurvivesBadSource
<1>1. IInv /\ [Next]_vars =>
        [\A f \in Format \ Streams : output[f] = "whole" /\ output'[f] # "whole" =>
            \A s \in Source : payload[s] # Nothing]_vars
  <2>1. SUFFICES ASSUME IInv, [Next]_vars, NEW f \in Format \ Streams,
                        output[f] = "whole", output'[f] # "whole"
                 PROVE  \A s \in Source : payload[s] # Nothing
    OBVIOUS
  <2>2. CreateOutput \/ DropOutput
    BY <2>1 DEF IInv, TypeOK, Next, Tool, World, vars, progress, reading, result, disk,
       Invoke, PlanFails, DryRun, Leave, Plan, BeginFormat, RecordOutcome, Summarise,
       MakeDir, OpenScratch, OpenSource, ReadTail, PayloadDone, WriteContainer, Finish,
       Fail, DropScratch, Edit, Kill
  <2>3. fmt = f /\ pc = "create"
    BY <2>1, <2>2 DEF IInv, TypeOK, Guards, CreateOutput, DropOutput
  <2> QED
    BY <2>1, <2>3 DEF IInv, Payload, Complete, Sound
<1> QED
  BY <1>1, Invariant, PTL DEF Spec, EarlierRpmSurvivesBadSource

-----------------------------------------------------------------------------
(* PackageBuild implements PackageStore.                                     *)
LEMMA StoreInit == Init => Store!Init
  BY DEF Init, Store!Init, Store!Slot

(* Every step is one of the store's, or leaves slots and verdicts alone.    *)
LEMMA StoreStep == IInv /\ IInv' /\ [Next]_vars => [Store!Next]_(Store!store)
<1>1. SUFFICES ASSUME IInv, IInv', [Next]_vars PROVE [Store!Next]_(Store!store)
  OBVIOUS
<1>2. "output" \notin held => Store!NobodyWrites
  BY <1>1 DEF IInv, TypeOK, TruncatedOnlyIfKilled, Store!NobodyWrites
<1> USE DEF reading, result, disk, progress
<1>12. pc \notin Between => fmt \in Format
  BY <1>1 DEF IInv, TypeOK
<1>3. ASSUME NEW F \in SUBSET Format \ {{}}, Invoke(F) PROVE Store!Begin
  BY <1>1, <1>2, <1>3 DEF IInv, TypeOK, Between, Invoke, Store!Begin
<1>4. CASE PlanFails \/ DryRun
  <2>1. Store!Abandon
    BY <1>1, <1>2, <1>4 DEF IInv, TypeOK, Between, Fresh, PlanFails, DryRun, Leave, Store!Abandon
  <2> QED
    BY <2>1 DEF Store!Next
<1>5. CASE CreateOutput
  <2>1. PICK f \in Format : f = fmt
    BY <1>12, <1>5 DEF Between, CreateOutput
  <2>2. Store!Open(f)
    BY <1>1, <1>2, <1>5, <2>1 DEF IInv, TypeOK, Between, Guards, CreateOutput, Store!Open
  <2> QED
    BY <2>2 DEF Store!Next
<1>6. CASE Finish
  <2>1. PICK f \in Format : f = fmt
    BY <1>12, <1>6 DEF Between, Finish
  <2>2. Store!Publish(f)
    BY <1>1, <1>6, <2>1 DEF IInv, TypeOK, Between, Guards, Finish, Store!Publish
  <2> QED
    BY <2>2 DEF Store!Next
<1>7. CASE DropOutput
  <2>1. PICK f \in Format : f = fmt
    BY <1>12, <1>7 DEF Between, DropOutput
  <2>2. Store!Discard(f)
    BY <1>1, <1>7, <2>1 DEF IInv, TypeOK, Between, Guards, DropOutput, Store!Discard
  <2> QED
    BY <2>2 DEF Store!Next
<1>8. CASE RecordOutcome
  <2>1. PICK f \in Format : f = fmt
    BY <1>12, <1>8 DEF Between, RecordOutcome
  <2>2. Store!Report(f)
    BY <1>1, <1>2, <1>8, <2>1 DEF IInv, TypeOK, Between, Guards, RecordOutcome, Store!Report
  <2> QED
    BY <2>2 DEF Store!Next
<1>9. CASE Kill
  <2>1. Store!Die
    BY <1>1, <1>9 DEF IInv, TypeOK, Between, Guards, TruncatedOnlyIfKilled, Kill, Store!Die
  <2> QED
    BY <2>1 DEF Store!Next
<1>10. ASSUME UNCHANGED <<output, torn, outcome>> PROVE UNCHANGED Store!store
  BY <1>10 DEF Store!store
<1>11. \/ \E F \in SUBSET Format \ {{}} : Invoke(F)
       \/ PlanFails \/ DryRun \/ CreateOutput \/ Finish \/ DropOutput
       \/ RecordOutcome \/ Kill \/ UNCHANGED <<output, torn, outcome>>
  BY <1>1 DEF Next, Tool, World, vars, Plan, BeginFormat, Summarise, MakeDir,
     OpenScratch, OpenSource, ReadTail, PayloadDone, WriteContainer, Fail, DropScratch, Edit
<1> QED
  BY <1>3, <1>4, <1>5, <1>6, <1>7, <1>8, <1>9, <1>10, <1>11 DEF Store!Next

(* Whatever happens, a reader of the output directory and of the verdicts    *)
(* sees only what PackageStore allows.                                       *)
THEOREM ImplementsStore == Spec => StoreSpec
  BY StoreInit, StoreStep, Invariant, PTL DEF Spec, StoreSpec, Store!Spec
=============================================================================
