-------------------------- MODULE GeneratorProofs --------------------------
(***************************************************************************)
(* Proofs about the generator's runs, for any number of processes, files,  *)
(* sources and changes from outside.  The invariant says what a process    *)
(* knows at each stage: where its build comes from (Sourced), that someone *)
(* answers for a mixed tree (Answers), and what a run nobody disturbed may *)
(* rely on: what it has read is what is on the disk (Known), and what it   *)
(* has written and compared still stands (Found).  At the end, that the    *)
(* representation made of an accepted contract is complete.                *)
(***************************************************************************)
EXTENDS GeneratedTree, ContractSource, TLAPS

LEMMA ReportIsFile == Report \in Files
<1>1. Len(Artefacts) \in DOMAIN Artefacts BY TreeAssumption
<1> QED BY <1>1 DEF Report, Files

\* A process between two runs has a state of the right type.
LEMMA EndedType ==
  ASSUME NEW v \in {"none", "clean", "drift", "failed"}
  PROVE  Ended(v) \in ProcessType
<1>1. 1 \in DOMAIN Artefacts BY TreeAssumption
<1>2. NoBuild \in Builds BY DEF NoBuild, Builds
<1> QED BY <1>1, <1>2 DEF Ended, ProcessType, Stages, Commands

LEMMA RenderedType ==
  ASSUME NEW a, NEW b \in Builds
  PROVE  Rendered(a, b) \in Contents
<1>1. [b EXCEPT !.hash = Unread] \in Builds BY DEF Builds
<1> QED BY <1>1 DEF Rendered, Contents

\* Steps that change nothing but one process, and steps that end its run.
LEMMA GoType ==
  ASSUME TypeOK, NEW p \in Procs, NEW q \in ProcessType, Go(p, q)
  PROVE  TypeOK'
BY DEF TypeOK, Go

LEMMA StopType ==
  ASSUME TypeOK, NEW p \in Procs, NEW v \in {"none", "clean", "drift", "failed"},
         Stop(p, v), edits' \in 0..MaxEdits
  PROVE  TypeOK'
<1>1. Ended(v) \in ProcessType BY EndedType
<1> QED BY <1>1 DEF TypeOK, Stop

LEMMA EndType ==
  ASSUME TypeOK, NEW p \in Procs, NEW v \in {"none", "clean", "drift", "failed"}, End(p, v)
  PROVE  TypeOK'
BY StopType DEF End, TypeOK

LEMMA InitType == Init => TypeOK
<1> SUFFICES ASSUME Init PROVE TypeOK OBVIOUS
<1>1. Ended("none") \in ProcessType BY EndedType
<1>2. Absent \in Contents BY DEF Contents
<1>3. AcceptedContract \in Contracts /\ Prose \subseteq Narratives BY TreeAssumption
<1>4. disk \in [contract : Contracts \cup {Missing}, rival : BOOLEAN, schema : Schemas,
               overlay : Narratives \cup {Missing}, tool : Tools]
  BY <1>3, TreeAssumption DEF Init
<1>5. proc \in [Procs -> ProcessType] BY <1>1 DEF Init
<1>6. tree \in [Files -> Contents] BY <1>2 DEF Init
<1>7. edits \in 0..MaxEdits BY TreeAssumption DEF Init
<1> QED BY <1>4, <1>5, <1>6, <1>7 DEF Init, TypeOK

LEMMA RunType ==
  ASSUME TypeOK, NEW p \in Procs, Run(p)
  PROVE  TypeOK'
<1>0. proc[p] \in ProcessType BY DEF TypeOK
<1>1. ASSUME NEW command \in Commands, NEW described \in BOOLEAN, NEW usable \in BOOLEAN,
             Start(p, command, described, usable)
      PROVE  TypeOK'
  <2>1. CASE usable
    <3>1. [Ended("none") EXCEPT !.pc = "contract", !.command = command,
             !.described = described, !.build.code = disk.tool] \in ProcessType
      BY EndedType DEF ProcessType, Stages, TypeOK, Builds
    <3> QED BY <1>1, <2>1, <3>1, GoType DEF Start
  <2>2. CASE ~usable BY <1>1, <2>2, EndType DEF Start
  <2> QED BY <2>1, <2>2
<1>2. CASE ReadContract(p)
  <2>1. CASE disk.contract \in WellFormed /\ ~disk.rival
    <3>1. [proc[p] EXCEPT !.pc = "document", !.build.contract = disk.contract] \in ProcessType
      BY <1>0, <2>1, TreeAssumption DEF ProcessType, Stages, Builds
    <3> QED BY <1>2, <2>1, <3>1, GoType DEF ReadContract
  <2>2. CASE ~(disk.contract \in WellFormed /\ ~disk.rival)
    BY <1>2, <2>2, EndType DEF ReadContract
  <2> QED BY <2>1, <2>2
<1>3. CASE ReadDocument(p)
  <2>1. CASE disk.contract # Missing
    <3>1. [proc[p] EXCEPT !.pc = "schema", !.digested = disk.contract] \in ProcessType
      BY <1>0, <2>1 DEF ProcessType, Stages, TypeOK
    <3> QED BY <1>3, <2>1, <3>1, GoType DEF ReadDocument
  <2>2. CASE disk.contract = Missing BY <1>3, <2>2, EndType DEF ReadDocument
  <2> QED BY <2>1, <2>2
<1>4. CASE ReadSchema(p)
  <2>1. CASE Pinned(proc[p], disk.schema)
    <3>1. [proc[p] EXCEPT !.pc = "overlay", !.build.schema = disk.schema] \in ProcessType
      BY <1>0 DEF ProcessType, Stages, TypeOK, Builds
    <3> QED BY <1>4, <2>1, <3>1, GoType DEF ReadSchema
  <2>2. CASE ~Pinned(proc[p], disk.schema) BY <1>4, <2>2, EndType DEF ReadSchema
  <2> QED BY <2>1, <2>2
<1>5. CASE ReadOverlay(p)
  <2> DEFINE narrative == IF proc[p].described THEN disk.overlay ELSE Plain
  <2>1. CASE narrative # Missing
    <3>1. narrative \in Narratives \cup {Plain} BY <2>1 DEF TypeOK
    <3> HIDE DEF narrative
    <3>2. [proc[p] EXCEPT !.pc = "build", !.build.narrative = narrative] \in ProcessType
      BY <1>0, <3>1 DEF ProcessType, Stages, Builds
    <3> QED BY <1>5, <2>1, <3>2, GoType DEF ReadOverlay, narrative
  <2>2. CASE narrative = Missing BY <1>5, <2>2, EndType DEF ReadOverlay
  <2> QED BY <2>1, <2>2
<1>6. CASE Build(p)
  <2> DEFINE next == [proc[p] EXCEPT
               !.pc = IF proc[p].command = "generate" THEN "open" ELSE "list",
               !.build.hash = disk.tool, !.at = 1]
  <2>0. disk.tool \in Tools /\ 1 \in DOMAIN Artefacts BY TreeAssumption DEF TypeOK
  <2>1. next \in ProcessType
    <3>1. CASE proc[p].command = "generate"
      BY <1>0, <2>0, <3>1 DEF ProcessType, Stages, Builds
    <3>2. CASE proc[p].command # "generate"
      BY <1>0, <2>0, <3>2 DEF ProcessType, Stages, Builds
    <3> QED BY <3>1, <3>2
  <2>2. Go(p, next) \/ End(p, "failed") BY <1>6 DEF Build
  <2> QED BY <2>1, <2>2, GoType, EndType
<1>7. CASE Open(p)
  <2>1. Torn \in Contents BY DEF Contents
  <2>2. [proc[p] EXCEPT !.pc = "write"] \in ProcessType BY <1>0 DEF ProcessType, Stages
  <2>3. proc' \in [Procs -> ProcessType] BY <1>7, <2>2 DEF Open, TypeOK
  <2>4. tree' \in [Files -> Contents] BY <1>7, <2>1 DEF Open, TypeOK
  <2>5. disturbed' \in [Procs -> BOOLEAN] BY <1>7 DEF Open, TypeOK, DisturbOthers
  <2> QED BY <1>7, <2>3, <2>4, <2>5 DEF Open, TypeOK
<1>8. CASE Write(p)
  <2>1. Garbled \in Contents BY DEF Contents
  <2>2. Rendered(Artefacts[proc[p].at], proc[p].build) \in Contents
    BY <1>0, RenderedType DEF ProcessType
  <2>3. tree' \in [Files -> Contents] BY <1>8, <2>1, <2>2 DEF Write, TypeOK
  <2>4. proc[p].at \in 1..Len(Artefacts) /\ Len(Artefacts) \in Nat \ {0}
    BY <1>0, TreeAssumption DEF ProcessType
  <2>5. (IF proc[p].at = Len(Artefacts) THEN proc[p].at ELSE proc[p].at + 1) \in DOMAIN Artefacts
    BY <2>4, TreeAssumption
  <2>6. proc' \in [Procs -> ProcessType]
    BY <1>0, <1>8, <2>5 DEF Write, TypeOK, ProcessType, Stages
  <2>7. disturbed' \in [Procs -> BOOLEAN] BY <1>8 DEF Write, TypeOK, DisturbOthers
  <2> QED BY <1>8, <2>3, <2>6, <2>7 DEF Write, TypeOK
<1>9. CASE List(p)
  <2>1. [proc[p] EXCEPT !.pc = "compare", !.at = 1, !.present = {a \in Files : IsFile(a)},
           !.drift = strays # {} \/ \E a \in Files : ~IsFile(a)] \in ProcessType
    <3>1. 1 \in DOMAIN Artefacts /\ {a \in Files : IsFile(a)} \subseteq Files
      BY TreeAssumption
    <3>2. (strays # {} \/ \E a \in Files : ~IsFile(a)) \in BOOLEAN OBVIOUS
    <3> QED BY <1>0, <3>1, <3>2 DEF ProcessType, Stages
  <2> QED BY <1>9, <2>1, GoType DEF List
<1>10. CASE Compare(p)
  <2>1. CASE proc[p].at < Len(Artefacts)
    <3>1. proc[p].at + 1 \in DOMAIN Artefacts BY <1>0, <2>1, TreeAssumption DEF ProcessType
    <3>2. Differs(p) \in BOOLEAN BY <1>0 DEF Differs, ProcessType
    <3>3. [proc[p] EXCEPT !.at = proc[p].at + 1, !.drift = Differs(p)] \in ProcessType
      BY <1>0, <3>1, <3>2 DEF ProcessType
    <3> QED BY <1>10, <2>1, <3>3, GoType DEF Compare
  <2>2. CASE ~(proc[p].at < Len(Artefacts)) BY <1>10, <2>2, EndType DEF Compare
  <2> QED BY <2>1, <2>2
<1>11. CASE OpenFails(p) \/ CompareFails(p) BY <1>11, EndType DEF OpenFails, CompareFails
<1> QED BY <1>1, <1>2, <1>3, <1>4, <1>5, <1>6, <1>7, <1>8, <1>9, <1>10, <1>11 DEF Run

LEMMA OutsideType ==
  ASSUME TypeOK, (\E p \in Procs : Crash(p)) \/ Edit \/ Meddle
  PROVE  TypeOK'
<1>0. Outside => edits' \in 0..MaxEdits BY TreeAssumption DEF Outside, TypeOK
<1>1. ASSUME NEW p \in Procs, Crash(p) PROVE TypeOK'
  BY <1>0, <1>1, StopType DEF Crash
<1>2. ASSUME NEW next \in [contract : Contracts \cup {Missing}, rival : BOOLEAN,
                           schema : Schemas,
                           overlay : Narratives \cup {Missing}, tool : Tools],
             EditSources(next)
      PROVE  TypeOK'
  BY <1>0, <1>2 DEF EditSources, TypeOK, DisturbAll
<1>3. CASE Edit BY <1>2, <1>3 DEF Edit, TypeOK
<1>4. CASE Meddle
  <2>1. {Absent, Foreign, InTheWay} \subseteq Contents BY DEF Contents
  <2>2. tree' \in [Files -> Contents] /\ strays' \subseteq Strays
    BY <1>4, <2>1 DEF Meddle, TypeOK
  <2> QED BY <1>0, <1>4, <2>2 DEF Meddle, TypeOK, DisturbAll
<1> QED BY <1>1, <1>3, <1>4

LEMMA StepType ==
  ASSUME TypeOK, [Next]_vars
  PROVE  TypeOK'
<1>1. CASE UNCHANGED vars BY <1>1 DEF vars, TypeOK
<1>2. CASE Next BY <1>2, RunType, OutsideType DEF Next
<1> QED BY <1>1, <1>2

\* Every variable of the generator stays in its type, whatever the processes,
\* the editors and the kills do.
THEOREM TypeCorrect == Spec => []TypeOK
<1>1. Init => TypeOK BY InitType
<1>2. TypeOK /\ [Next]_vars => TypeOK' BY StepType
<1> QED BY <1>1, <1>2, PTL DEF Spec

----------------------------------------------------------------------------
(* Where a build comes from. *)

Pinning == {"schema", "overlay", "build", "open", "write", "list", "compare"}
AfterPin == Pinning \ {"schema"}
AfterHash == {"open", "write", "list", "compare"}

\* What a process has read, as far as nothing changed between its two looks.
Sourced(p) ==
  LET q == proc[p] IN
  /\ (~raced /\ q.pc \notin {"idle"} \cup AfterHash) => q.build.code = disk.tool
  /\ (~raced /\ q.pc = "document") => q.build.contract = disk.contract
  /\ (~raced /\ q.pc \in Pinning) => q.build.contract = q.digested
  /\ q.pc \in AfterPin =>
       /\ q.build.schema = AcceptedSchema /\ q.digested = AcceptedContract
       /\ q.build.contract \in SameHeader
  /\ q.pc \in AfterHash => q.build.contract \in Buildable
  /\ (~raced /\ q.pc \in AfterHash) => q.build.hash = q.build.code

SourceInv == (\A p \in Procs : Sourced(p)) /\ Provenance

LEMMA EndedIsSourced ==
  ASSUME NEW p, NEW v, proc'[p] = Ended(v)
  PROVE  Sourced(p)'
BY DEF Sourced, Ended, Pinning, AfterPin, AfterHash

LEMMA RunSourced ==
  ASSUME TypeOK, SourceInv, NEW p \in Procs, Run(p)
  PROVE  SourceInv'
<1> USE DEF SourceInv
<1>0. proc[p] \in ProcessType /\ Sourced(p) BY DEF TypeOK
<1>1. /\ \A q \in Procs \ {p} : proc'[q] = proc[q]
      /\ UNCHANGED <<disk, raced>>
  BY DEF Run, Start, ReadContract, ReadDocument, ReadSchema, ReadOverlay, Build, Open,
         OpenFails, Write, List, Compare, CompareFails, Go, End, Stop, TypeOK
<1>2. \A q \in Procs \ {p} : Sourced(q)' BY <1>1 DEF Sourced
<1>3. SUFFICES Sourced(p)' /\ Provenance' BY <1>2
<1>4. CASE \E v : End(p, v)
  <2>1. Sourced(p)' BY <1>4, EndedIsSourced DEF End, Stop, TypeOK
  <2>2. Provenance' BY <1>4 DEF End, Stop, Provenance, FromAcceptedSource
  <2> QED BY <2>1, <2>2
<1>5. ASSUME NEW q, Go(p, q) PROVE proc'[p] = q /\ Provenance'
  BY <1>5 DEF Go, TypeOK, Provenance, FromAcceptedSource
<1>6. ASSUME NEW command \in Commands, NEW described \in BOOLEAN, NEW usable \in BOOLEAN,
             Start(p, command, described, usable)
      PROVE  Sourced(p)' /\ Provenance'
  <2> DEFINE next == [Ended("none") EXCEPT !.pc = "contract", !.command = command,
                        !.described = described, !.build.code = disk.tool]
  <2>1. CASE Go(p, next)
    <3>1. proc'[p] = next BY <2>1, <1>5
    <3>2. next.pc = "contract" /\ next.build.code = disk.tool BY DEF Ended, NoBuild
    <3>3. Sourced(p)' BY <1>1, <3>1, <3>2 DEF Sourced, Pinning, AfterPin, AfterHash
    <3> QED BY <2>1, <3>3, <1>5
  <2>2. Go(p, next) \/ \E v : End(p, v) BY <1>6 DEF Start
  <2> QED BY <2>1, <2>2, <1>4
<1>7. CASE ReadContract(p)
  <2> DEFINE next == [proc[p] EXCEPT !.pc = "document", !.build.contract = disk.contract]
  <2>1. CASE Go(p, next)
    <3>1. proc'[p] = next BY <2>1, <1>5
    <3>2. Sourced(p)'
      BY <1>0, <1>1, <1>7, <2>1, <3>1
         DEF ReadContract, Go, Sourced, Pinning, AfterPin, AfterHash, ProcessType, Builds
    <3> QED BY <2>1, <3>2, <1>5
  <2>2. Go(p, next) \/ \E v : End(p, v) BY <1>7 DEF ReadContract
  <2> QED BY <2>1, <2>2, <1>4
<1>8. CASE ReadDocument(p)
  <2> DEFINE next == [proc[p] EXCEPT !.pc = "schema", !.digested = disk.contract]
  <2>1. CASE Go(p, next)
    <3>1. proc'[p] = next BY <2>1, <1>5
    <3>2. Sourced(p)'
      BY <1>0, <1>1, <1>8, <2>1, <3>1
         DEF ReadDocument, Go, Sourced, Pinning, AfterPin, AfterHash, ProcessType, Builds
    <3> QED BY <2>1, <3>2, <1>5
  <2>2. Go(p, next) \/ \E v : End(p, v) BY <1>8 DEF ReadDocument
  <2> QED BY <2>1, <2>2, <1>4
<1>9. CASE ReadSchema(p)
  <2> DEFINE next == [proc[p] EXCEPT !.pc = "overlay", !.build.schema = disk.schema]
  <2>1. CASE Go(p, next) /\ Pinned(proc[p], disk.schema)
    <3>1. proc'[p] = next BY <2>1, <1>5
    <3>2. Sourced(p)'
      BY <1>0, <1>1, <1>9, <2>1, <3>1
         DEF ReadSchema, Pinned, Sourced, Pinning, AfterPin, AfterHash, ProcessType, Builds
    <3> QED BY <2>1, <3>2, <1>5
  <2>2. (Go(p, next) /\ Pinned(proc[p], disk.schema)) \/ \E v : End(p, v)
    BY <1>9 DEF ReadSchema
  <2> QED BY <2>1, <2>2, <1>4
<1>10. CASE ReadOverlay(p)
  <2> DEFINE next == [proc[p] EXCEPT !.pc = "build",
               !.build.narrative = IF proc[p].described THEN disk.overlay ELSE Plain]
  <2>1. CASE Go(p, next)
    <3>1. proc'[p] = next BY <2>1, <1>5
    <3>2. Sourced(p)'
      BY <1>0, <1>1, <1>10, <2>1, <3>1
         DEF ReadOverlay, Go, Sourced, Pinning, AfterPin, AfterHash, ProcessType, Builds
    <3> QED BY <2>1, <3>2, <1>5
  <2>2. Go(p, next) \/ \E v : End(p, v) BY <1>10 DEF ReadOverlay
  <2> QED BY <2>1, <2>2, <1>4
<1>11. CASE Build(p)
  <2> DEFINE next == [proc[p] EXCEPT
               !.pc = IF proc[p].command = "generate" THEN "open" ELSE "list",
               !.build.hash = disk.tool, !.at = 1]
  <2>1. CASE Go(p, next) /\ proc[p].build.contract \in Buildable
    <3>1. proc'[p] = next BY <2>1, <1>5
    <3>2. Sourced(p)'
      BY <1>0, <1>1, <1>11, <2>1, <3>1
         DEF Build, Go, Sourced, Pinning, AfterPin, AfterHash, ProcessType, Builds
    <3> QED BY <2>1, <3>2, <1>5
  <2>2. \/ Go(p, next) /\ proc[p].build.contract \in Buildable
       \/ \E v : End(p, v)
    BY <1>11 DEF Build
  <2> QED BY <2>1, <2>2, <1>4
<1>12. CASE Open(p)
  <2>1. Sourced(p)'
    BY <1>0, <1>1, <1>12 DEF Open, TypeOK, Sourced, Pinning, AfterPin, AfterHash, ProcessType
  <2>2. Provenance' BY <1>12 DEF Open, TypeOK, Provenance, FromAcceptedSource, Torn
  <2> QED BY <2>1, <2>2
<1>13. CASE Write(p)
  <2>1. Sourced(p)'
    BY <1>0, <1>1, <1>13 DEF Write, TypeOK, Sourced, Pinning, AfterPin, AfterHash, ProcessType
  <2>2. FromAcceptedSource(Rendered(Artefacts[proc[p].at], proc[p].build).build)
    BY <1>0, <1>13 DEF Write, Rendered, FromAcceptedSource, Sourced, Pinning, AfterPin,
                       AfterHash, ProcessType, Builds
  <2>3. Provenance'
    BY <1>13, <2>2 DEF Write, TypeOK, Provenance, FromAcceptedSource, Garbled
  <2> QED BY <2>1, <2>3
<1>14. CASE List(p)
  <2> DEFINE next == [proc[p] EXCEPT !.pc = "compare", !.at = 1,
               !.present = {a \in Files : IsFile(a)},
               !.drift = strays # {} \/ \E a \in Files : ~IsFile(a)]
  <2>1. CASE Go(p, next)
    <3>1. proc'[p] = next BY <2>1, <1>5
    <3>2. Sourced(p)'
      BY <1>0, <1>1, <1>14, <2>1, <3>1
         DEF List, Go, Sourced, Pinning, AfterPin, AfterHash, ProcessType, Builds
    <3> QED BY <2>1, <3>2, <1>5
  <2>2. Go(p, next) BY <1>14 DEF List
  <2> QED BY <2>1, <2>2
<1>15. CASE Compare(p)
  <2> DEFINE next == [proc[p] EXCEPT !.at = proc[p].at + 1, !.drift = Differs(p)]
  <2>1. CASE Go(p, next)
    <3>1. proc'[p] = next BY <2>1, <1>5
    <3>2. Sourced(p)'
      BY <1>0, <1>1, <1>15, <2>1, <3>1
         DEF Compare, Go, Sourced, Pinning, AfterPin, AfterHash, ProcessType, Builds
    <3> QED BY <2>1, <3>2, <1>5
  <2>2. Go(p, next) \/ \E v : End(p, v) BY <1>15 DEF Compare
  <2> QED BY <2>1, <2>2, <1>4
<1>16. CASE OpenFails(p) \/ CompareFails(p) BY <1>4, <1>16 DEF OpenFails, CompareFails
<1> QED BY <1>6, <1>7, <1>8, <1>9, <1>10, <1>11, <1>12, <1>13, <1>14, <1>15, <1>16 DEF Run

LEMMA OutsideSourced ==
  ASSUME TypeOK, SourceInv, (\E p \in Procs : Crash(p)) \/ Edit \/ Meddle
  PROVE  SourceInv'
<1> USE DEF SourceInv
<1>1. ASSUME NEW p \in Procs, Crash(p) PROVE SourceInv'
  <2>1. \A q \in Procs \ {p} : Sourced(q)' BY <1>1 DEF Crash, Stop, TypeOK, Sourced
  <2>2. Sourced(p)' BY <1>1, EndedIsSourced DEF Crash, Stop, TypeOK
  <2>3. Provenance' BY <1>1 DEF Crash, Stop, Provenance, FromAcceptedSource
  <2> QED BY <2>1, <2>2, <2>3
<1>2. ASSUME NEW next, EditSources(next) PROVE SourceInv'
  <2>1. ASSUME NEW p \in Procs PROVE Sourced(p)'
    <3>1. Sourced(p) /\ proc[p] \in ProcessType BY DEF TypeOK
    <3> QED BY <1>2, <3>1
            DEF EditSources, Sourced, Pinning, AfterPin, AfterHash, ProcessType, Stages
  <2>2. Provenance' BY <1>2 DEF EditSources, Provenance, FromAcceptedSource
  <2> QED BY <2>1, <2>2
<1>3. CASE Edit BY <1>2, <1>3 DEF Edit
<1>4. CASE Meddle
  <2>1. \A p \in Procs : Sourced(p)' BY <1>4 DEF Meddle, Sourced
  <2>2. Provenance'
    BY <1>4 DEF Meddle, TypeOK, Provenance, FromAcceptedSource, Absent, Foreign, InTheWay
  <2> QED BY <2>1, <2>2
<1> QED BY <1>1, <1>3, <1>4

LEMMA InitSourced == Init => SourceInv
BY DEF Init, SourceInv, Sourced, Ended, Pinning, AfterPin, AfterHash, Provenance, Absent

LEMMA StepSourced ==
  ASSUME TypeOK, SourceInv, [Next]_vars
  PROVE  SourceInv'
<1>1. CASE UNCHANGED vars
  BY <1>1 DEF vars, SourceInv, Sourced, Provenance, FromAcceptedSource
<1>2. CASE Next BY <1>2, RunSourced, OutsideSourced DEF Next
<1> QED BY <1>1, <1>2

\* Every complete file in the output directory carries the accepted schema, a
\* contract of the accepted version that is valid and, unless a source changed
\* between the two looks a run takes at it, the accepted contract; and a report
\* then names the code that rendered the files.
THEOREM ProvenanceHolds == Spec => []Provenance
<1>1. Init => SourceInv BY InitSourced
<1>2. TypeOK /\ SourceInv /\ [Next]_vars => SourceInv' BY StepSourced
<1>3. SourceInv => Provenance BY DEF SourceInv
<1> QED BY <1>1, <1>2, <1>3, TypeCorrect, PTL DEF Spec

----------------------------------------------------------------------------
(* Someone answers for a mixed tree. *)

\* A process that has reported drift or failed, or whose comparison is still to
\* come or can no longer end clean.
Answers(p) ==
  LET q == proc[p] IN
  /\ q.pc = "idle" => q.verdict \in {"drift", "failed"}
  /\ q.pc = "compare" =>
       \/ q.drift
       \/ \E i \in DOMAIN Artefacts :
            /\ i >= q.at /\ Artefacts[i] \in q.present
            /\ tree[Artefacts[i]] # Rendered(Artefacts[i], q.build)

Mixed == ~(\A a \in Files : tree[a] = Absent) /\ ~Whole(tree[Report].build)
MixInv == (~meddled /\ Mixed) => \E p \in Procs : Answers(p)

LEMMA RenderedBuild == \A b : Rendered(Report, b).build = b
BY DEF Rendered

LEMMA ListAnswers ==
  ASSUME TypeOK, NEW p \in Procs, List(p), Mixed
  PROVE  Answers(p)'
<1> DEFINE q == proc[p]
           next == [q EXCEPT !.pc = "compare", !.at = 1, !.present = {a \in Files : IsFile(a)},
                      !.drift = strays # {} \/ \E a \in Files : ~IsFile(a)]
<1>0. q \in ProcessType BY DEF TypeOK
<1>1. proc'[p] = next /\ UNCHANGED tree /\ q.pc = "list" BY DEF List, Go, TypeOK
<1>2. PICK a \in Files : tree[a] # Rendered(a, q.build)
  <2>1. CASE \A a \in Files : tree[a] = Rendered(a, q.build)
    <3>1. tree[Report].build = q.build BY <2>1, ReportIsFile, RenderedBuild
    <3> QED BY <2>1, <3>1 DEF Mixed, Whole
  <2> QED BY <2>1
<1>3. CASE ~IsFile(a)
  <2>1. next.drift = TRUE BY <1>0, <1>3 DEF ProcessType
  <2>2. next.pc = "compare" BY <1>0 DEF ProcessType
  <2> QED BY <1>1, <2>1, <2>2 DEF Answers
<1>4. CASE IsFile(a)
  <2>1. PICK i \in DOMAIN Artefacts : Artefacts[i] = a BY DEF Files
  <2>2. i >= 1 BY <2>1, TreeAssumption
  <2>3. next.at = 1 /\ next.build = q.build /\ a \in next.present /\ next.pc = "compare"
    BY <1>0, <1>4 DEF ProcessType
  <2> QED BY <1>1, <1>2, <2>1, <2>2, <2>3 DEF Answers
<1> QED BY <1>3, <1>4

LEMMA CompareAnswers ==
  ASSUME TypeOK, NEW p \in Procs, Compare(p), Answers(p)
  PROVE  Answers(p)'
<1> DEFINE q == proc[p]
           a == Artefacts[q.at]
<1>0. q \in ProcessType /\ q.pc = "compare" BY DEF TypeOK, Compare
<1>1. CASE q.at < Len(Artefacts)
  <2> DEFINE next == [q EXCEPT !.at = q.at + 1, !.drift = Differs(p)]
  <2>1. proc'[p] = next /\ UNCHANGED tree BY <1>1 DEF Compare, Go, TypeOK
  <2>2. next.at = q.at + 1 /\ next.drift = Differs(p) /\ next.build = q.build
        /\ next.present = q.present /\ next.pc = "compare"
    BY <1>0 DEF ProcessType
  <2>3. CASE Differs(p) BY <2>1, <2>2, <2>3 DEF Answers
  <2>4. CASE ~Differs(p)
    <3>1. PICK i \in DOMAIN Artefacts :
            i >= q.at /\ Artefacts[i] \in q.present /\ tree[Artefacts[i]] # Rendered(Artefacts[i], q.build)
      BY <1>0, <2>4 DEF Answers, Differs
    <3>2. i # q.at BY <2>4, <3>1 DEF Differs
    <3>3. i >= q.at + 1 BY <1>0, <3>1, <3>2, TreeAssumption DEF ProcessType
    <3> QED BY <2>1, <2>2, <3>1, <3>3 DEF Answers
  <2> QED BY <2>3, <2>4
<1>2. CASE ~(q.at < Len(Artefacts))
  <2>1. q.at = Len(Artefacts) BY <1>0, <1>2, TreeAssumption DEF ProcessType
  <2>2. Differs(p)
    <3>1. \A i \in DOMAIN Artefacts : i >= q.at => i = q.at BY <2>1, TreeAssumption
    <3> QED BY <1>0, <3>1 DEF Answers, Differs
  <2>3. proc'[p] = Ended("drift") BY <1>2, <2>2 DEF Compare, End, Stop, TypeOK
  <2> QED BY <2>3 DEF Answers, Ended
<1> QED BY <1>1, <1>2

\* A reading step ends the run or goes on; it neither compares nor is idle.
LEMMA ReadingGoes ==
  ASSUME TypeOK, NEW p \in Procs,
         ReadContract(p) \/ ReadDocument(p) \/ ReadSchema(p) \/ ReadOverlay(p) \/ Build(p),
         ~End(p, "failed")
  PROVE  proc'[p].pc \notin {"idle", "compare"}
<1>0. proc[p] \in ProcessType BY DEF TypeOK
<1>1. CASE ReadContract(p)
  <2> DEFINE next == [proc[p] EXCEPT !.pc = "document", !.build.contract = disk.contract]
  <2>1. proc'[p] = next BY <1>1 DEF ReadContract, Go, TypeOK
  <2>2. next.pc = "document" BY <1>0 DEF ProcessType
  <2> QED BY <2>1, <2>2
<1>2. CASE ReadDocument(p)
  <2> DEFINE next == [proc[p] EXCEPT !.pc = "schema", !.digested = disk.contract]
  <2>1. proc'[p] = next BY <1>2 DEF ReadDocument, Go, TypeOK
  <2>2. next.pc = "schema" BY <1>0 DEF ProcessType
  <2> QED BY <2>1, <2>2
<1>3. CASE ReadSchema(p)
  <2> DEFINE next == [proc[p] EXCEPT !.pc = "overlay", !.build.schema = disk.schema]
  <2>1. proc'[p] = next BY <1>3 DEF ReadSchema, Go, TypeOK
  <2>2. next.pc = "overlay" BY <1>0 DEF ProcessType
  <2> QED BY <2>1, <2>2
<1>4. CASE ReadOverlay(p)
  <2> DEFINE narrative == IF proc[p].described THEN disk.overlay ELSE Plain
             next == [proc[p] EXCEPT !.pc = "build", !.build.narrative = narrative]
  <2>1. proc'[p] = next BY <1>4 DEF ReadOverlay, Go, TypeOK
  <2>2. next.pc = "build" BY <1>0 DEF ProcessType
  <2> QED BY <2>1, <2>2
<1>5. CASE Build(p)
  <2> DEFINE next == [proc[p] EXCEPT
               !.pc = IF proc[p].command = "generate" THEN "open" ELSE "list",
               !.build.hash = disk.tool, !.at = 1]
  <2>1. proc'[p] = next BY <1>5 DEF Build, Go, TypeOK
  <2>2. next.pc \in {"open", "list"} BY <1>0 DEF ProcessType
  <2> QED BY <2>1, <2>2
<1> QED BY <1>1, <1>2, <1>3, <1>4, <1>5

LEMMA RunMix ==
  ASSUME TypeOK, MixInv, NEW p \in Procs, Run(p)
  PROVE  MixInv'
<1>0. proc[p] \in ProcessType BY DEF TypeOK
<1>1. \A q \in Procs \ {p} : proc'[q] = proc[q]
  BY DEF Run, Start, ReadContract, ReadDocument, ReadSchema, ReadOverlay, Build, Open,
         OpenFails, Write, List, Compare, CompareFails, Go, End, Stop, TypeOK
<1>2. UNCHANGED meddled
  BY DEF Run, Start, ReadContract, ReadDocument, ReadSchema, ReadOverlay, Build, Open,
         OpenFails, Write, List, Compare, CompareFails, Go, End, Stop
<1>3. CASE Open(p) \/ Write(p)
  <2>1. proc'[p].pc \in {"write", "open", "list"}
    BY <1>0, <1>3 DEF Open, Write, TypeOK, ProcessType
  <2>2. Answers(p)' BY <2>1 DEF Answers
  <2> QED BY <2>2 DEF MixInv
<1>4. CASE ~(Open(p) \/ Write(p))
  <2>1. UNCHANGED tree
    BY <1>4 DEF Run, Start, ReadContract, ReadDocument, ReadSchema, ReadOverlay, Build,
                OpenFails, List, Compare, CompareFails, Go, End, Stop
  <2>2. \A q \in Procs \ {p} : Answers(q) => Answers(q)' BY <1>1, <2>1 DEF Answers
  <2>3. ASSUME Mixed, Answers(p) PROVE Answers(p)'
    <3>1. CASE End(p, "failed") BY <3>1 DEF End, Stop, TypeOK, Answers, Ended
    <3>2. ASSUME NEW command, NEW described, NEW usable, Start(p, command, described, usable)
          PROVE  Answers(p)'
      <4>1. CASE usable
        <5> DEFINE next == [Ended("none") EXCEPT !.pc = "contract", !.command = command,
                              !.described = described, !.build.code = disk.tool]
        <5>1. proc'[p] = next BY <3>2, <4>1 DEF Start, Go, TypeOK
        <5>2. next.pc = "contract" BY DEF Ended
        <5> HIDE DEF next
        <5> QED BY <5>1, <5>2 DEF Answers
      <4> QED BY <3>1, <3>2, <4>1 DEF Start
    <3>3. CASE ReadContract(p) \/ ReadDocument(p) \/ ReadSchema(p) \/ ReadOverlay(p) \/ Build(p)
      <4>1. CASE ~End(p, "failed")
        <5>1. proc'[p].pc \notin {"idle", "compare"} BY <3>3, <4>1, ReadingGoes
        <5> QED BY <5>1 DEF Answers
      <4> QED BY <3>1, <4>1
    <3>4. CASE List(p) BY <2>3, <3>4, ListAnswers
    <3>5. CASE Compare(p) BY <2>3, <3>5, CompareAnswers
    <3>6. CASE OpenFails(p) \/ CompareFails(p) BY <3>1, <3>6 DEF OpenFails, CompareFails
    <3> QED BY <1>4, <3>2, <3>3, <3>4, <3>5, <3>6 DEF Run
  <2>4. Mixed' = Mixed BY <2>1 DEF Mixed, Whole
  <2> QED BY <1>2, <2>2, <2>3, <2>4 DEF MixInv
<1> QED BY <1>3, <1>4

LEMMA OutsideMix ==
  ASSUME TypeOK, MixInv, (\E p \in Procs : Crash(p)) \/ Edit \/ Meddle
  PROVE  MixInv'
<1>1. ASSUME NEW p \in Procs, Crash(p) PROVE MixInv'
  <2>1. Answers(p)' BY <1>1 DEF Crash, Stop, TypeOK, Answers, Ended
  <2> QED BY <2>1 DEF MixInv
<1>2. CASE Edit
  <2>1. UNCHANGED <<tree, proc, meddled>> BY <1>2 DEF Edit, EditSources
  <2> QED BY <2>1 DEF MixInv, Mixed, Whole, Answers
<1>3. CASE Meddle BY <1>3 DEF Meddle, MixInv
<1> QED BY <1>1, <1>2, <1>3

LEMMA StepMix ==
  ASSUME TypeOK, MixInv, [Next]_vars
  PROVE  MixInv'
<1>1. CASE UNCHANGED vars BY <1>1 DEF vars, MixInv, Mixed, Whole, Answers
<1>2. CASE Next BY <1>2, RunMix, OutsideMix DEF Next
<1> QED BY <1>1, <1>2

\* When nobody runs, every last run ended clean and no one but generators
\* touched the tree, the tree is one build or empty, whatever the overlaps and
\* the kills were: the last writer compares after its last write.
THEOREM NoSilentMixHolds == Spec => []NoSilentMix
<1>1. Init => MixInv BY DEF Init, MixInv, Mixed
<1>2. TypeOK /\ MixInv /\ [Next]_vars => MixInv' BY StepMix
<1>3. MixInv => NoSilentMix
  BY DEF MixInv, NoSilentMix, Mixed, Answers
<1> QED BY <1>1, <1>2, <1>3, TypeCorrect, PTL DEF Spec

----------------------------------------------------------------------------
(* What a run nobody disturbed knows. *)

Known(p) ==
  LET q == proc[p] IN
  Running(p) /\ ~disturbed[p] =>
    /\ q.build.code = disk.tool
    /\ q.pc # "contract" => q.build.contract = disk.contract
    /\ q.pc \notin {"contract", "document", "schema"} => q.build.schema = disk.schema
    /\ q.pc \notin {"contract", "document", "schema", "overlay"}
         => q.build.narrative = CurrentBuild(p).narrative
    /\ q.pc \notin {"contract", "document", "schema", "overlay", "build"}
         => q.build.hash = disk.tool

\* What it wrote and what it compared stands.
Found(p) ==
  LET q == proc[p]
      differ(i) == tree[Artefacts[i]] # Rendered(Artefacts[i], q.build) IN
  Running(p) /\ ~disturbed[p] =>
    /\ q.pc \in {"open", "write"} => \A i \in DOMAIN Artefacts : i < q.at => ~differ(i)
    /\ q.pc = "write" => tree[Artefacts[q.at]] = Torn
    /\ q.pc \in {"list", "compare"} /\ q.command = "generate" => Whole(q.build)
    /\ q.pc = "compare" =>
         /\ q.present = {a \in Files : IsFile(a)}
         /\ q.drift = (\/ strays # {}
                       \/ \E a \in Files : ~IsFile(a)
                       \/ \E i \in DOMAIN Artefacts : i < q.at /\ differ(i))

CurrentInv == \A p \in Procs : Known(p) /\ Found(p)

LEMMA KnownBuild ==
  ASSUME TypeOK, NEW p \in Procs, Known(p), ~disturbed[p],
         proc[p].pc \in {"open", "write", "list", "compare"}
  PROVE  proc[p].build = CurrentBuild(p)
<1>1. proc[p].build \in Builds BY DEF TypeOK, ProcessType
<1>2. /\ proc[p].build.code = disk.tool /\ proc[p].build.contract = disk.contract
      /\ proc[p].build.schema = disk.schema /\ proc[p].build.hash = disk.tool
      /\ proc[p].build.narrative = CurrentBuild(p).narrative
  BY DEF Known, Running
<1> QED BY <1>1, <1>2 DEF CurrentBuild, Builds

\* The step of another process leaves a run alone or disturbs it.
LEMMA OthersLeave ==
  ASSUME TypeOK, NEW p \in Procs, NEW q \in Procs \ {p}, Run(q) \/ Crash(q)
  PROVE  /\ proc'[p] = proc[p]
         /\ \/ Running(p) => disturbed'[p]
            \/ disturbed'[p] = disturbed[p] /\ UNCHANGED <<disk, tree, strays>>
<1>1. CASE Open(q) \/ Write(q)
  BY <1>1 DEF Open, Write, DisturbOthers, TypeOK
<1>2. CASE ~(Open(q) \/ Write(q))
  BY <1>2 DEF Run, Crash, Start, ReadContract, ReadDocument, ReadSchema, ReadOverlay, Build,
       OpenFails, List, Compare, CompareFails, Go, End, Stop, TypeOK
<1> QED BY <1>1, <1>2

LEMMA UndisturbedStands ==
  ASSUME NEW p \in Procs, Known(p), Found(p), proc'[p] = proc[p],
         \/ Running(p) => disturbed'[p]
         \/ disturbed'[p] = disturbed[p] /\ UNCHANGED <<disk, tree, strays>>
  PROVE  Known(p)' /\ Found(p)'
<1>1. CASE Running(p) => disturbed'[p] BY <1>1 DEF Known, Found, Running
<1>2. CASE disturbed'[p] = disturbed[p] /\ UNCHANGED <<disk, tree, strays>>
  <2>1. Known(p)' BY <1>2 DEF Known, Running, CurrentBuild
  <2>2. Found(p)' BY <1>2 DEF Found, Running, Whole, IsFile
  <2> QED BY <2>1, <2>2
<1> QED BY <1>1, <1>2

LEMMA EndedKnowsNothing ==
  ASSUME NEW p \in Procs, proc'[p].pc = "idle"
  PROVE  Known(p)' /\ Found(p)'
BY DEF Known, Found, Running

\* The step of a run itself.
LEMMA ReadingKnows ==
  ASSUME TypeOK, NEW p \in Procs, Known(p), ~End(p, "failed"),
         ReadContract(p) \/ ReadDocument(p) \/ ReadSchema(p) \/ ReadOverlay(p)
  PROVE  Known(p)' /\ Found(p)'
<1>0. proc[p] \in ProcessType /\ proc[p].build \in Builds BY DEF TypeOK, ProcessType
<1>1. CASE ReadContract(p)
  <2> DEFINE next == [proc[p] EXCEPT !.pc = "document", !.build.contract = disk.contract]
  <2>1. proc'[p] = next /\ UNCHANGED <<disk, disturbed>> /\ proc[p].pc = "contract"
    BY <1>1 DEF ReadContract, Go, TypeOK
  <2>2. /\ next.pc = "document" /\ next.build.contract = disk.contract
        /\ next.build.code = proc[p].build.code
    BY <1>0 DEF ProcessType, Builds
  <2> HIDE DEF next
  <2> QED BY <2>1, <2>2 DEF Known, Found, Running
<1>2. CASE ReadDocument(p)
  <2> DEFINE next == [proc[p] EXCEPT !.pc = "schema", !.digested = disk.contract]
  <2>1. proc'[p] = next /\ UNCHANGED <<disk, disturbed>> /\ proc[p].pc = "document"
    BY <1>2 DEF ReadDocument, Go, TypeOK
  <2>2. next.pc = "schema" /\ next.build = proc[p].build BY <1>0 DEF ProcessType
  <2> HIDE DEF next
  <2> QED BY <2>1, <2>2 DEF Known, Found, Running
<1>3. CASE ReadSchema(p)
  <2> DEFINE next == [proc[p] EXCEPT !.pc = "overlay", !.build.schema = disk.schema]
  <2>1. proc'[p] = next /\ UNCHANGED <<disk, disturbed>> /\ proc[p].pc = "schema"
    BY <1>3 DEF ReadSchema, Go, TypeOK
  <2>2. /\ next.pc = "overlay" /\ next.build.schema = disk.schema
        /\ next.build.code = proc[p].build.code
        /\ next.build.contract = proc[p].build.contract
    BY <1>0 DEF ProcessType, Builds
  <2> HIDE DEF next
  <2> QED BY <2>1, <2>2 DEF Known, Found, Running
<1>4. CASE ReadOverlay(p)
  <2> DEFINE narrative == IF proc[p].described THEN disk.overlay ELSE Plain
             next == [proc[p] EXCEPT !.pc = "build", !.build.narrative = narrative]
  <2>1. proc'[p] = next /\ UNCHANGED <<disk, disturbed>> /\ proc[p].pc = "overlay"
    BY <1>4 DEF ReadOverlay, Go, TypeOK
  <2>2. /\ next.pc = "build" /\ next.build.narrative = narrative
        /\ next.build.code = proc[p].build.code
        /\ next.build.contract = proc[p].build.contract
        /\ next.build.schema = proc[p].build.schema
        /\ next.described = proc[p].described
    BY <1>0 DEF ProcessType, Builds
  <2>3. CurrentBuild(p)'.narrative = next.build.narrative
    BY <2>1, <2>2 DEF CurrentBuild
  <2> HIDE DEF next, narrative
  <2>4. Found(p)' BY <2>1, <2>2 DEF Found
  <2>5. Known(p)' BY <2>1, <2>2, <2>3 DEF Known, Running
  <2> QED BY <2>4, <2>5
<1> QED BY <1>1, <1>2, <1>3, <1>4

LEMMA BuildKnows ==
  ASSUME TypeOK, NEW p \in Procs, Known(p), ~End(p, "failed"), Build(p)
  PROVE  Known(p)'
<1>0. proc[p] \in ProcessType /\ proc[p].build \in Builds BY DEF TypeOK, ProcessType
<1> DEFINE next == [proc[p] EXCEPT
             !.pc = IF proc[p].command = "generate" THEN "open" ELSE "list",
             !.build.hash = disk.tool, !.at = 1]
<1>1. proc'[p] = next /\ UNCHANGED <<disk, disturbed>> /\ proc[p].pc = "build"
  BY DEF Build, Go, TypeOK
<1>2. /\ next.build.hash = disk.tool /\ next.described = proc[p].described
      /\ next.build.code = proc[p].build.code
      /\ next.build.contract = proc[p].build.contract
      /\ next.build.schema = proc[p].build.schema
      /\ next.build.narrative = proc[p].build.narrative
  BY <1>0 DEF ProcessType, Builds
<1> HIDE DEF next
<1>3. CurrentBuild(p)'.narrative = CurrentBuild(p).narrative BY <1>1, <1>2 DEF CurrentBuild
<1> QED BY <1>1, <1>2, <1>3 DEF Known, Running

LEMMA BuildFinds ==
  ASSUME TypeOK, NEW p \in Procs, ~End(p, "failed"), Build(p)
  PROVE  Found(p)'
<1>0. proc[p] \in ProcessType BY DEF TypeOK
<1> DEFINE next == [proc[p] EXCEPT
             !.pc = IF proc[p].command = "generate" THEN "open" ELSE "list",
             !.build.hash = disk.tool, !.at = 1]
<1>1. proc'[p] = next BY DEF Build, Go, TypeOK
<1>2. /\ next.at = 1 /\ next.command = proc[p].command
      /\ next.pc = IF proc[p].command = "generate" THEN "open" ELSE "list"
  BY <1>0 DEF ProcessType
<1>3. \A i \in DOMAIN Artefacts : ~(i < 1) BY TreeAssumption
<1> HIDE DEF next
<1> QED BY <1>1, <1>2, <1>3 DEF Found

\* The steps after the build change neither it nor the sources.
LEMMA LaterKnows ==
  ASSUME TypeOK, NEW p \in Procs, Known(p), proc'[p].build = proc[p].build,
         proc'[p].described = proc[p].described, UNCHANGED disk, disturbed'[p] = disturbed[p],
         proc[p].pc \in {"open", "write", "list", "compare"}
  PROVE  Known(p)'
<1>1. CurrentBuild(p)' = CurrentBuild(p) BY DEF CurrentBuild
<1> QED BY <1>1 DEF Known, Running

LEMMA OpenFinds ==
  ASSUME TypeOK, NEW p \in Procs, Known(p), Found(p), Open(p)
  PROVE  Known(p)' /\ Found(p)'
<1> DEFINE q == proc[p]
           next == [q EXCEPT !.pc = "write"]
<1>0. q \in ProcessType BY DEF TypeOK
<1>1. /\ proc'[p] = next /\ tree' = [tree EXCEPT ![Artefacts[q.at]] = Torn] /\ q.pc = "open"
      /\ disturbed'[p] = disturbed[p] /\ UNCHANGED disk
  BY DEF Open, DisturbOthers, TypeOK
<1>2. /\ next.pc = "write" /\ next.at = q.at /\ next.build = q.build
      /\ next.described = q.described
  BY <1>0 DEF ProcessType
<1> HIDE DEF next
<1>3. Known(p)' BY <1>1, <1>2, LaterKnows
<1>4. \A i \in DOMAIN Artefacts : i < q.at => Artefacts[i] # Artefacts[q.at]
  BY <1>0, TreeAssumption DEF ProcessType
<1>5. Artefacts[q.at] \in Files BY <1>0 DEF ProcessType, Files
<1>6. tree'[Artefacts[q.at]] = Torn BY <1>1, <1>5 DEF TypeOK
<1>7. \A i \in DOMAIN Artefacts : i < q.at => tree'[Artefacts[i]] = tree[Artefacts[i]]
  BY <1>1, <1>4
<1>8. Found(p)' BY <1>1, <1>2, <1>6, <1>7 DEF Found, Running
<1> QED BY <1>3, <1>8

LEMMA WriteFinds ==
  ASSUME TypeOK, NEW p \in Procs, Known(p), Found(p), Write(p)
  PROVE  Known(p)' /\ Found(p)'
<1> DEFINE q == proc[p]
           a == Artefacts[q.at]
           last == q.at = Len(Artefacts)
           next == [q EXCEPT !.pc = IF last THEN "list" ELSE "open",
                             !.at = IF last THEN q.at ELSE q.at + 1]
<1>0. q \in ProcessType BY DEF TypeOK
<1>1. /\ proc'[p] = next /\ q.pc = "write"
      /\ disturbed'[p] = disturbed[p] /\ UNCHANGED disk
  BY DEF Write, DisturbOthers, TypeOK
<1>2. /\ next.pc = IF last THEN "list" ELSE "open"
      /\ next.at = IF last THEN q.at ELSE q.at + 1
      /\ next.build = q.build /\ next.described = q.described
  BY <1>0 DEF ProcessType
<1> HIDE DEF next
<1>3. Known(p)' BY <1>1, <1>2, LaterKnows
<1>4. CASE disturbed[p]
  <2>1. disturbed'[p] BY <1>1, <1>4
  <2>2. Found(p)' BY <2>1 DEF Found
  <2> QED BY <1>3, <2>2
<1>5. CASE ~disturbed[p]
  <2>1. tree[a] = Torn /\ \A i \in DOMAIN Artefacts :
          i < q.at => tree[Artefacts[i]] = Rendered(Artefacts[i], q.build)
    BY <1>1, <1>5 DEF Found, Running
  <2>2. tree' = [tree EXCEPT ![a] = Rendered(a, q.build)]
    BY <2>1 DEF Write
  <2>3. a \in Files /\ q.at \in 1..Len(Artefacts) BY <1>0, TreeAssumption DEF ProcessType, Files
  <2>4. tree'[a] = Rendered(a, q.build) BY <2>2, <2>3 DEF TypeOK
  <2>5. \A i \in DOMAIN Artefacts : i <= q.at => tree'[Artefacts[i]] = Rendered(Artefacts[i], q.build)
    <3> TAKE i \in DOMAIN Artefacts
    <3> HAVE i <= q.at
    <3>1. CASE i = q.at BY <2>4, <3>1
    <3>2. CASE i < q.at
      <4>1. Artefacts[i] # a BY <2>3, <3>2, TreeAssumption
      <4> QED BY <2>1, <2>2, <3>2, <4>1
    <3> QED BY <2>3, <3>1, <3>2, TreeAssumption
  <2>6. CASE last
    <3>1. \A i \in DOMAIN Artefacts : i <= q.at BY <2>6, TreeAssumption
    <3>2. Whole(q.build)' BY <1>1, <1>2, <2>5, <3>1 DEF Whole, Files
    <3> QED BY <1>1, <1>2, <1>3, <2>6, <3>2 DEF Found
  <2>7. CASE ~last
    <3>1. \A i \in DOMAIN Artefacts : i < q.at + 1 => i <= q.at BY <2>3, TreeAssumption
    <3> QED BY <1>1, <1>2, <1>3, <2>5, <2>7, <3>1 DEF Found
  <2> QED BY <2>6, <2>7
<1> QED BY <1>3, <1>4, <1>5

LEMMA ListFinds ==
  ASSUME TypeOK, NEW p \in Procs, Known(p), Found(p), List(p)
  PROVE  Known(p)' /\ Found(p)'
<1> DEFINE q == proc[p]
           found == {a \in Files : IsFile(a)}
           odd == strays # {} \/ \E a \in Files : ~IsFile(a)
           next == [q EXCEPT !.pc = "compare", !.at = 1, !.present = found, !.drift = odd]
<1>0. q \in ProcessType BY DEF TypeOK
<1>1. /\ proc'[p] = next /\ q.pc = "list" /\ UNCHANGED <<disk, tree, strays, disturbed>>
  BY DEF List, Go, TypeOK
<1>2. /\ next.pc = "compare" /\ next.at = 1 /\ next.present = found
      /\ next.drift = odd /\ next.build = q.build /\ next.described = q.described
      /\ next.command = q.command
  BY <1>0 DEF ProcessType
<1> HIDE DEF next
<1>3. Known(p)' BY <1>1, <1>2, LaterKnows
<1>4. found = {a \in Files : IsFile(a)}' /\ odd = (strays # {} \/ \E a \in Files : ~IsFile(a))'
  BY <1>1 DEF IsFile
<1>5. \A i \in DOMAIN Artefacts : ~(i < 1) BY TreeAssumption
<1>6. Whole(q.build)' = Whole(q.build) BY <1>1, <1>2 DEF Whole
<1> HIDE DEF found, odd
<1>7. Found(p)' BY <1>1, <1>2, <1>4, <1>5, <1>6 DEF Found, Running, Whole
<1> QED BY <1>3, <1>7

LEMMA DiffersMeans ==
  ASSUME TypeOK, NEW p \in Procs, Found(p), proc[p].pc = "compare", ~disturbed[p]
  PROVE  Differs(p) = (\/ strays # {}
                       \/ \E a \in Files : ~IsFile(a)
                       \/ \E i \in DOMAIN Artefacts :
                            /\ i < proc[p].at + 1
                            /\ tree[Artefacts[i]] # Rendered(Artefacts[i], proc[p].build))
<1> DEFINE q == proc[p]
           differ(i) == tree[Artefacts[i]] # Rendered(Artefacts[i], q.build)
<1>0. q \in ProcessType BY DEF TypeOK
<1>1. q.at \in DOMAIN Artefacts /\ Artefacts[q.at] \in Files BY <1>0 DEF ProcessType, Files
<1>2. /\ q.present = {a \in Files : IsFile(a)}
      /\ q.drift = (\/ strays # {}
                    \/ \E a \in Files : ~IsFile(a)
                    \/ \E i \in DOMAIN Artefacts : i < q.at /\ differ(i))
  BY DEF Found, Running
<1>3. Differs(p) = (q.drift \/ (Artefacts[q.at] \in q.present /\ differ(q.at)))
  BY DEF Differs
<1>4. \A i \in DOMAIN Artefacts : i < q.at + 1 <=> i < q.at \/ i = q.at
  BY <1>1, TreeAssumption
<1>5. (\E i \in DOMAIN Artefacts : i < q.at + 1 /\ differ(i))
        <=> (\E i \in DOMAIN Artefacts : i < q.at /\ differ(i)) \/ differ(q.at)
  <2> HIDE DEF differ
  <2> QED BY <1>1, <1>4
<1>6. Artefacts[q.at] \in q.present <=> IsFile(Artefacts[q.at]) BY <1>1, <1>2
<1>7. ~IsFile(Artefacts[q.at]) => \E a \in Files : ~IsFile(a) BY <1>1
<1> HIDE DEF differ
<1>8. Differs(p) <=> (\/ strays # {}
                      \/ \E a \in Files : ~IsFile(a)
                      \/ \E i \in DOMAIN Artefacts : i < q.at + 1 /\ differ(i))
  BY <1>2, <1>3, <1>5, <1>6, <1>7
<1>9. Differs(p) \in BOOLEAN BY <1>0 DEF Differs, ProcessType
<1> QED BY <1>8, <1>9 DEF differ

LEMMA CompareFinds ==
  ASSUME TypeOK, NEW p \in Procs, Known(p), Found(p), Compare(p)
  PROVE  Known(p)' /\ Found(p)'
<1> DEFINE q == proc[p]
           next == [q EXCEPT !.at = q.at + 1, !.drift = Differs(p)]
<1>0. q \in ProcessType /\ q.pc = "compare" BY DEF TypeOK, Compare
<1>1. CASE q.at < Len(Artefacts)
  <2>1. proc'[p] = next /\ UNCHANGED <<disk, tree, strays, disturbed>>
    BY <1>1 DEF Compare, Go, TypeOK
  <2>2. /\ next.at = q.at + 1 /\ next.drift = Differs(p) /\ next.build = q.build
        /\ next.present = q.present /\ next.pc = "compare" /\ next.command = q.command
        /\ next.described = q.described
    BY <1>0 DEF ProcessType
  <2> HIDE DEF next
  <2>3. Known(p)' BY <1>0, <2>1, <2>2, LaterKnows
  <2>4. CASE disturbed[p] BY <2>1, <2>3, <2>4 DEF Found
  <2>5. CASE ~disturbed[p]
    <3>1. q.present = {a \in Files : IsFile(a)}' BY <1>0, <2>1, <2>5 DEF Found, Running, IsFile
    <3>2. Whole(q.build)' = Whole(q.build) BY <2>1, <2>2 DEF Whole
    <3>3. q.command = "generate" => Whole(q.build) BY <1>0, <2>5 DEF Found, Running
    <3>4. next.drift = (\/ strays # {}
                        \/ \E a \in Files : ~IsFile(a)
                        \/ \E i \in DOMAIN Artefacts :
                             /\ i < q.at + 1
                             /\ tree[Artefacts[i]] # Rendered(Artefacts[i], q.build))
      BY <1>0, <2>2, <2>5, DiffersMeans
    <3>5. proc'[p].drift = (\/ strays' # {}
                            \/ \E a \in Files : ~IsFile(a)'
                            \/ \E i \in DOMAIN Artefacts :
                                 /\ i < proc'[p].at
                                 /\ tree'[Artefacts[i]] # Rendered(Artefacts[i], proc'[p].build))
      BY <2>1, <2>2, <3>4 DEF IsFile
    <3>6. /\ proc'[p].pc = "compare" /\ proc'[p].present = {a \in Files : IsFile(a)'}
          /\ proc'[p].command = "generate" => Whole(proc[p].build)'
      BY <2>1, <2>2, <3>1, <3>2, <3>3
    <3> HIDE DEF q
    <3>7. Found(p)' BY <3>5, <3>6 DEF Found
    <3> QED BY <2>3, <3>7
  <2> QED BY <2>4, <2>5
<1>2. CASE ~(q.at < Len(Artefacts))
  <2>1. proc'[p].pc = "idle" BY <1>2 DEF Compare, End, Stop, TypeOK, Ended
  <2> QED BY <2>1, EndedKnowsNothing
<1> QED BY <1>1, <1>2

LEMMA RunCurrent ==
  ASSUME TypeOK, NEW p \in Procs, Known(p), Found(p), Run(p)
  PROVE  Known(p)' /\ Found(p)'
<1>1. ASSUME NEW v, End(p, v) PROVE Known(p)' /\ Found(p)'
  <2>1. proc'[p].pc = "idle" BY <1>1 DEF End, Stop, TypeOK, Ended
  <2> QED BY <2>1, EndedKnowsNothing
<1>2. ASSUME NEW command, NEW described, NEW usable, Start(p, command, described, usable)
      PROVE  Known(p)' /\ Found(p)'
  <2>1. CASE usable
    <3> DEFINE next == [Ended("none") EXCEPT !.pc = "contract", !.command = command,
                          !.described = described, !.build.code = disk.tool]
    <3>1. proc'[p] = next /\ UNCHANGED disk BY <1>2, <2>1 DEF Start, Go, TypeOK
    <3>2. next.pc = "contract" /\ next.build.code = disk.tool BY DEF Ended, NoBuild
    <3> HIDE DEF next
    <3> QED BY <3>1, <3>2 DEF Known, Found
  <2> QED BY <1>1, <1>2, <2>1 DEF Start
<1>3. CASE ReadContract(p) \/ ReadDocument(p) \/ ReadSchema(p) \/ ReadOverlay(p)
  BY <1>1, <1>3, ReadingKnows
<1>4. CASE Build(p) BY <1>1, <1>4, BuildKnows, BuildFinds
<1>5. CASE Open(p) BY <1>5, OpenFinds
<1>6. CASE Write(p) BY <1>6, WriteFinds
<1>7. CASE List(p) BY <1>7, ListFinds
<1>8. CASE Compare(p) BY <1>8, CompareFinds
<1>9. CASE OpenFails(p) \/ CompareFails(p) BY <1>1, <1>9 DEF OpenFails, CompareFails
<1> QED BY <1>2, <1>3, <1>4, <1>5, <1>6, <1>7, <1>8, <1>9 DEF Run

LEMMA InitCurrent == Init => CurrentInv
<1> SUFFICES ASSUME Init, NEW p \in Procs PROVE Known(p) /\ Found(p) BY DEF CurrentInv
<1>1. proc[p].pc = "idle" BY DEF Init, Ended
<1> QED BY <1>1 DEF Known, Found, Running

LEMMA StepCurrent ==
  ASSUME TypeOK, CurrentInv, [Next]_vars
  PROVE  CurrentInv'
<1> SUFFICES ASSUME NEW p \in Procs PROVE Known(p)' /\ Found(p)' BY DEF CurrentInv
<1>0. Known(p) /\ Found(p) BY DEF CurrentInv
<1>1. CASE UNCHANGED vars
  <2>1. proc'[p] = proc[p] /\ disturbed'[p] = disturbed[p] /\ UNCHANGED <<disk, tree, strays>>
    BY <1>1 DEF vars
  <2> QED BY <1>0, <2>1, UndisturbedStands
<1>2. ASSUME NEW q \in Procs, Run(q) \/ Crash(q) PROVE Known(p)' /\ Found(p)'
  <2>1. CASE q # p BY <1>0, <1>2, <2>1, OthersLeave, UndisturbedStands
  <2>2. CASE Run(p) BY <1>0, <2>2, RunCurrent
  <2>3. CASE Crash(p)
    <3>1. proc'[p].pc = "idle" BY <2>3 DEF Crash, Stop, TypeOK, Ended
    <3> QED BY <3>1, EndedKnowsNothing
  <2> QED BY <1>2, <2>1, <2>2, <2>3
<1>3. CASE Edit \/ Meddle
  <2>1. proc'[p] = proc[p] /\ (Running(p) => disturbed'[p])
    BY <1>3 DEF Edit, EditSources, Meddle, DisturbAll
  <2> QED BY <1>0, <2>1, UndisturbedStands
<1> QED BY <1>1, <1>2, <1>3 DEF Next

LEMMA RenderedIsFile ==
  ASSUME NEW a, NEW b, tree[a] = Rendered(a, b)
  PROVE  IsFile(a)
BY DEF IsFile, Rendered, Absent, InTheWay

\* What the verdict of a run nobody disturbed says.
LEMMA VerdictMeans ==
  ASSUME TypeOK, CurrentInv, NEW p \in Procs, Compare(p), Ends(p), ~disturbed[p]
  PROVE  proc'[p].verdict = IF Whole(CurrentBuild(p)) /\ strays = {} THEN "clean" ELSE "drift"
<1> DEFINE q == proc[p]
<1>0. q \in ProcessType /\ q.pc = "compare" /\ Known(p) /\ Found(p)
  BY DEF TypeOK, Compare, CurrentInv
<1>1. q.at = Len(Artefacts)
  <2>1. ~(q.at < Len(Artefacts))
    <3>1. ASSUME q.at < Len(Artefacts) PROVE FALSE
      <4> DEFINE next == [q EXCEPT !.at = q.at + 1, !.drift = Differs(p)]
      <4>1. proc'[p] = next BY <3>1 DEF Compare, Go, TypeOK
      <4>2. next.pc = "compare" BY <1>0 DEF ProcessType
      <4> QED BY <4>1, <4>2 DEF Ends
    <3> QED BY <3>1
  <2> QED BY <1>0, <2>1, TreeAssumption DEF ProcessType
<1>2. proc'[p].verdict = IF Differs(p) THEN "drift" ELSE "clean"
  BY <1>1, TreeAssumption DEF Compare, End, Stop, TypeOK, Ended
<1>3. q.build = CurrentBuild(p) BY <1>0, KnownBuild
<1>4. \A i \in DOMAIN Artefacts : i < q.at + 1 BY <1>1, TreeAssumption
<1>5. \A a : tree[a] = Rendered(a, q.build) => IsFile(a) BY RenderedIsFile
<1>6. Differs(p) <=> (\/ strays # {}
                      \/ \E a \in Files : ~IsFile(a)
                      \/ \E i \in DOMAIN Artefacts :
                           tree[Artefacts[i]] # Rendered(Artefacts[i], q.build))
  BY <1>0, <1>4, DiffersMeans
<1>7. (\E i \in DOMAIN Artefacts : tree[Artefacts[i]] # Rendered(Artefacts[i], q.build))
        <=> ~Whole(q.build)
  BY DEF Whole, Files
<1>8. (\E a \in Files : ~IsFile(a)) => ~Whole(q.build) BY <1>5 DEF Whole
<1>9. Differs(p) <=> ~(Whole(q.build) /\ strays = {}) BY <1>6, <1>7, <1>8
<1> QED BY <1>2, <1>3, <1>9

\* How a run can end.
LEMMA WaysToEnd ==
  ASSUME TypeOK, NEW p \in Procs, [Next]_vars, Ends(p)
  PROVE  \/ Compare(p)
         \/ /\ proc'[p].verdict = "failed"
            /\ \/ Crash(p) \/ OpenFails(p) \/ CompareFails(p)
               \/ proc[p].pc \in {"contract", "document", "schema", "overlay", "build"}
<1>0. proc[p] \in ProcessType /\ proc'[p] # proc[p] /\ proc[p].pc # "idle"
  BY DEF TypeOK, Ends, Running
<1>1. Run(p) \/ Crash(p)
  <2>1. CASE UNCHANGED vars BY <1>0, <2>1 DEF vars
  <2>2. ASSUME NEW q \in Procs \ {p}, Run(q) \/ Crash(q) PROVE FALSE
    BY <1>0, <2>2, OthersLeave
  <2>3. CASE Edit \/ Meddle BY <1>0, <2>3 DEF Edit, EditSources, Meddle
  <2> QED BY <2>1, <2>2, <2>3 DEF Next
<1>2. ASSUME End(p, "failed") \/ Stop(p, "failed") PROVE proc'[p].verdict = "failed"
  BY <1>2 DEF End, Stop, TypeOK, Ended
<1>3. CASE Crash(p) BY <1>2, <1>3 DEF Crash
<1>4. CASE \E command, described, usable : Start(p, command, described, usable)
  BY <1>0, <1>4 DEF Start, Running
<1>5. CASE ReadContract(p) \/ ReadDocument(p) \/ ReadSchema(p) \/ ReadOverlay(p) \/ Build(p)
  <2>1. End(p, "failed")
    <3>1. proc'[p].pc = "idle" BY DEF Ends
    <3> QED BY <1>5, <3>1, ReadingGoes
  <2>2. proc[p].pc \in {"contract", "document", "schema", "overlay", "build"}
    BY <1>5 DEF ReadContract, ReadDocument, ReadSchema, ReadOverlay, Build
  <2> QED BY <1>2, <2>1, <2>2
<1>6. CASE Open(p) \/ Write(p)
  <2>1. proc'[p].pc # "idle" BY <1>0, <1>6 DEF Open, Write, TypeOK, ProcessType
  <2> QED BY <2>1 DEF Ends
<1>7. CASE List(p)
  <2> DEFINE next == [proc[p] EXCEPT !.pc = "compare", !.at = 1,
                        !.present = {a \in Files : IsFile(a)},
                        !.drift = strays # {} \/ \E a \in Files : ~IsFile(a)]
  <2>1. proc'[p] = next BY <1>7 DEF List, Go, TypeOK
  <2>2. next.pc = "compare" BY <1>0 DEF ProcessType
  <2> QED BY <2>1, <2>2 DEF Ends
<1>8. CASE OpenFails(p) \/ CompareFails(p) BY <1>2, <1>8 DEF OpenFails, CompareFails
<1> QED BY <1>1, <1>3, <1>4, <1>5, <1>6, <1>7, <1>8 DEF Run

LEMMA CurrentInvariant == Spec => []CurrentInv
<1>1. TypeOK /\ CurrentInv /\ [Next]_vars => CurrentInv' BY StepCurrent
<1> QED BY InitCurrent, <1>1, TypeCorrect, PTL DEF Spec

\* A run during which nobody else changed sources or tree ends clean exactly
\* when the directory is, entry for entry, what the sources of now generate,
\* whichever of the two commands it was and whatever it found.
THEOREM CleanIsCurrent == Spec => CleanMeansCurrent
<1> DEFINE Judged == \A p \in Procs : Ends(p) /\ ~disturbed[p] =>
             /\ proc'[p].verdict = "clean" => Whole(CurrentBuild(p)) /\ strays = {}
             /\ proc'[p].verdict = "drift" => ~(Whole(CurrentBuild(p)) /\ strays = {})
<1>1. TypeOK /\ CurrentInv /\ [Next]_vars => Judged
  <2> SUFFICES ASSUME TypeOK, CurrentInv, [Next]_vars, NEW p \in Procs, Ends(p), ~disturbed[p]
               PROVE  /\ proc'[p].verdict = "clean" => Whole(CurrentBuild(p)) /\ strays = {}
                      /\ proc'[p].verdict = "drift" => ~(Whole(CurrentBuild(p)) /\ strays = {})
    OBVIOUS
  <2>1. CASE Compare(p) BY <2>1, VerdictMeans
  <2>2. CASE proc'[p].verdict = "failed" BY <2>2
  <2> QED BY <2>1, <2>2, WaysToEnd
<1>2. TypeOK /\ CurrentInv /\ [Next]_vars => [Judged]_vars BY <1>1
<1>3. Spec => [][Judged]_vars BY <1>2, TypeCorrect, CurrentInvariant, PTL DEF Spec
<1> QED BY <1>3 DEF CleanMeansCurrent

\* A generate run nobody disturbed or killed, once it writes, leaves every file
\* current; it then reports at most strays, and only a directory in a file's
\* place stops it.
THEOREM GenerateAlwaysRepairs == Spec => GenerateRepairs
<1> DEFINE Repaired(p) ==
             \/ /\ Whole(CurrentBuild(p))
                /\ proc'[p].verdict = IF strays = {} THEN "clean" ELSE "drift"
             \/ /\ proc'[p].verdict = "failed"
                /\ \E a \in Files : tree[a] = InTheWay
           Judged == \A p \in Procs :
             /\ Ends(p) /\ ~disturbed[p] /\ edits' = edits
             /\ proc[p].command = "generate" /\ proc[p].pc \in {"open", "write", "list", "compare"}
             => Repaired(p)
<1>1. TypeOK /\ CurrentInv /\ [Next]_vars => Judged
  <2> SUFFICES ASSUME TypeOK, CurrentInv, [Next]_vars, NEW p \in Procs,
                      Ends(p), ~disturbed[p], edits' = edits, proc[p].command = "generate",
                      proc[p].pc \in {"open", "write", "list", "compare"}
               PROVE  Repaired(p)
    OBVIOUS
  <2>0. proc[p] \in ProcessType /\ Known(p) /\ Found(p) BY DEF TypeOK, CurrentInv
  <2>1. proc[p].pc = "compare" => Whole(CurrentBuild(p))
    BY <2>0, KnownBuild DEF Found, Running
  <2>2. CASE Compare(p)
    <3>1. proc[p].pc = "compare" BY <2>2 DEF Compare
    <3> QED BY <2>1, <2>2, <3>1, VerdictMeans
  <2>3. CASE OpenFails(p) /\ proc'[p].verdict = "failed"
    <3>1. Artefacts[proc[p].at] \in Files BY <2>0 DEF ProcessType, Files
    <3> QED BY <2>3, <3>1 DEF OpenFails
  <2>4. CASE CompareFails(p)
    <3>1. Whole(CurrentBuild(p)) BY <2>1, <2>4 DEF CompareFails
    <3>2. Artefacts[proc[p].at] \in Files BY <2>0 DEF ProcessType, Files
    <3>3. IsFile(Artefacts[proc[p].at]) BY <3>1, <3>2, RenderedIsFile DEF Whole
    <3> QED BY <2>4, <3>3 DEF CompareFails, Gone
  <2>5. CASE Crash(p)
    <3>1. edits \in Nat /\ edits' = edits + 1
      BY <2>5, TreeAssumption DEF Crash, Outside, TypeOK
    <3> QED BY <3>1
  <2> QED BY <2>2, <2>3, <2>4, <2>5, WaysToEnd
<1>2. TypeOK /\ CurrentInv /\ [Next]_vars => [Judged]_vars BY <1>1
<1>3. Spec => [][Judged]_vars BY <1>2, TypeCorrect, CurrentInvariant, PTL DEF Spec
<1> QED BY <1>3 DEF GenerateRepairs

----------------------------------------------------------------------------
(* The representation a contract is turned into (ContractSource).           *)

LEMMA LookupFinds ==
  ASSUME NEW table, NEW n \in DOMAIN table
  PROVE  Lookup(table, n) = {table[n]}
BY DEF Lookup

LEMMA SchemaOfKnownObject ==
  ASSUME NEW contract, NEW schema, ObjectsResolve(contract, schema),
         NEW o \in DOMAIN contract.objects
  PROVE  SchemaForObject(o, contract, schema) = {schema.defs[contract.objects[o]]}
<1>1. Lookup(contract.objects, o) = {contract.objects[o]} BY LookupFinds
<1>2. Lookup(schema.defs, contract.objects[o]) = {schema.defs[contract.objects[o]]}
  BY LookupFinds DEF ObjectsResolve
<1> QED BY <1>1, <1>2 DEF SchemaForObject

LEMMA RuleIsFound ==
  ASSUME NEW contract, NEW schema, NEW rule, ObjectsResolve(contract, schema),
         RuleResolves(rule, contract, schema), rule.applicable
  PROVE  RuleSchema(rule, contract, schema) # {}
<1>1. /\ rule.object \in DOMAIN contract.objects
      /\ rule.field \in schema.defs[contract.objects[rule.object]]
  BY DEF RuleResolves
<1>2. SchemaForObject(rule.object, contract, schema)
        = {schema.defs[contract.objects[rule.object]]}
  BY <1>1, SchemaOfKnownObject
<1> QED BY <1>1, <1>2 DEF RuleSchema

LEMMA AcceptedOperationIsComplete ==
  ASSUME NEW contract, NEW schema, NEW narrative, NEW variant,
         ObjectsResolve(contract, schema),
         EntryResolves(contract.operationKindApplicability[variant.kind], variant, contract, schema)
  PROVE  OperationIsComplete(Operation(variant, contract, schema, narrative))
<1> DEFINE entry == contract.operationKindApplicability[variant.kind]
           op == Operation(variant, contract, schema, narrative)
           objects == entry.permissionEvidence \cup ConditionalObjects(entry)
<1>1. AllFound(op.resolvedObjects)
  <2>1. op.resolvedObjects =
          [o \in entry.resolvedObjectTypes |-> SchemaForObject(o, contract, schema)]
    BY DEF Operation
  <2>2. entry.resolvedObjectTypes \subseteq DOMAIN contract.objects BY DEF EntryResolves
  <2>3. \A o \in entry.resolvedObjectTypes : SchemaForObject(o, contract, schema) # {}
    BY <2>2, SchemaOfKnownObject
  <2> HIDE DEF op, entry
  <2> QED BY <2>1, <2>3 DEF AllFound
<1>2. AllFound(op.evidence)
  <2>1. op.evidence = [o \in objects |-> SchemaForObject(o, contract, schema)]
    BY DEF Operation
  <2>2. objects \subseteq DOMAIN contract.objects BY DEF EntryResolves
  <2>3. \A o \in objects : SchemaForObject(o, contract, schema) # {}
    BY <2>2, SchemaOfKnownObject
  <2> HIDE DEF op, objects
  <2> QED BY <2>1, <2>3 DEF AllFound
<1>3. AllFound(op.errors)
  <2>1. op.errors = [i \in DOMAIN entry.errorCodes |->
                       ErrorCodes(contract) \cap {entry.errorCodes[i]}]
    BY DEF Operation
  <2>2. \A i \in DOMAIN entry.errorCodes : entry.errorCodes[i] \in ErrorCodes(contract)
    BY DEF EntryResolves, Values
  <2> HIDE DEF op, entry
  <2> QED BY <2>1, <2>2 DEF AllFound
<1>4. AllFound(op.limits)
  <2>1. op.limits = [k \in Values(entry.limitKeys) |-> Lookup(contract.limits, k)]
    BY DEF Operation
  <2>2. \A k \in Values(entry.limitKeys) : Lookup(contract.limits, k) # {}
    BY DEF EntryResolves
  <2> HIDE DEF op, entry
  <2> QED BY <2>1, <2>2 DEF AllFound
<1>5. AllFound(op.machines)
  <2>1. op.machines = [m \in {x.name : x \in entry.stateMachines} |->
                         Lookup(contract.stateMachines, m)]
    BY DEF Operation
  <2>2. \A m \in {x.name : x \in entry.stateMachines} : Lookup(contract.stateMachines, m) # {}
    BY DEF EntryResolves
  <2> HIDE DEF op, entry
  <2> QED BY <2>1, <2>2 DEF AllFound
<1>6. \A r \in {op.chargeableSuccess, op.pricing} : r.rule.applicable => r.schema # {}
  <2>1. /\ op.chargeableSuccess =
             [rule |-> entry.chargeableSuccess,
              schema |-> RuleSchema(entry.chargeableSuccess, contract, schema)]
        /\ op.pricing = [rule |-> entry.pricing,
                         schema |-> RuleSchema(entry.pricing, contract, schema)]
    BY DEF Operation
  <2>2. /\ RuleResolves(entry.chargeableSuccess, contract, schema)
        /\ RuleResolves(entry.pricing, contract, schema)
    BY DEF EntryResolves
  <2> HIDE DEF op, entry
  <2> QED BY <2>1, <2>2, RuleIsFound
<1> HIDE DEF op
<1>7. OperationIsComplete(op) BY <1>1, <1>2, <1>3, <1>4, <1>5, <1>6 DEF OperationIsComplete
<1> QED BY <1>7 DEF op

\* Whatever contract and schema pass the validator, the representation the
\* artefacts are rendered from resolves every name it looks up.
THEOREM AcceptedIrIsComplete ==
  ASSUME NEW contract, NEW schema, NEW narrative
  PROVE  IrIsComplete(contract, schema, narrative)
<1> SUFFICES ASSUME Accepted(contract, schema)
             PROVE  /\ \A i \in DOMAIN schema.variants :
                         OperationIsComplete(Operation(schema.variants[i], contract, schema, narrative))
                    /\ \A o \in DOMAIN contract.objects : SchemaForObject(o, contract, schema) # {}
  BY DEF IrIsComplete, Ir
<1>1. ObjectsResolve(contract, schema) BY DEF Accepted
<1>2. ASSUME NEW i \in DOMAIN schema.variants
      PROVE  OperationIsComplete(Operation(schema.variants[i], contract, schema, narrative))
  <2>1. schema.variants[i] \in Values(schema.variants) BY DEF Values
  <2>2. EntryResolves(contract.operationKindApplicability[schema.variants[i].kind],
                      schema.variants[i], contract, schema)
    BY <2>1 DEF Accepted
  <2> QED BY <1>1, <2>2, AcceptedOperationIsComplete
<1>3. \A o \in DOMAIN contract.objects : SchemaForObject(o, contract, schema) # {}
  BY <1>1, SchemaOfKnownObject
<1> QED BY <1>2, <1>3

\* An overlay is a set of entries with these four members and no others.
IsOverlay(narrative) ==
  \A n \in narrative :
    n = [group |-> n.group, name |-> n.name, key |-> n.key, text |-> n.text]

\* Of an overlay the validator accepts, every entry is in the representation,
\* under the operation or object it names, and nothing else is.
THEOREM AcceptedNarrativeIsShown ==
  ASSUME NEW contract, NEW schema, NEW narrative, IsOverlay(narrative)
  PROVE  NarrativeIsShown(contract, schema, narrative)
<1> DEFINE ir == Ir(contract, schema, narrative)
           ofOperations == UNION {{[group |-> "operations", name |-> ir.operations[i].kind,
                                    key |-> t.key, text |-> t.text] :
                                    t \in ir.operations[i].narrative} : i \in DOMAIN ir.operations}
           ofObjects == UNION {{[group |-> "objects", name |-> o, key |-> t.key, text |-> t.text] :
                                  t \in ir.objects[o].narrative} : o \in DOMAIN ir.objects}
<1> SUFFICES ASSUME NarrativeAccepted(narrative, contract, schema)
             PROVE  ofOperations \cup ofObjects = narrative
  BY DEF NarrativeIsShown
<1>1. /\ DOMAIN ir.operations = DOMAIN schema.variants
      /\ DOMAIN ir.objects = DOMAIN contract.objects
      /\ \A i \in DOMAIN schema.variants :
           /\ ir.operations[i].kind = schema.variants[i].kind
           /\ ir.operations[i].narrative =
                NarrativeOf("operations", schema.variants[i].kind, narrative)
      /\ \A o \in DOMAIN contract.objects :
           ir.objects[o].narrative = NarrativeOf("objects", o, narrative)
  BY DEF Ir, Operation
<1>2. ASSUME NEW n \in narrative
      PROVE  n = [group |-> n.group, name |-> n.name, key |-> n.key, text |-> n.text]
  BY DEF IsOverlay
<1>3. ASSUME NEW group, NEW name, NEW t \in NarrativeOf(group, name, narrative)
      PROVE  [group |-> group, name |-> name, key |-> t.key, text |-> t.text] \in narrative
  <2>1. PICK n \in narrative : /\ n.group = group /\ n.name = name
                               /\ t = [key |-> n.key, text |-> n.text]
    BY DEF NarrativeOf
  <2>2. t.key = n.key /\ t.text = n.text BY <2>1
  <2> QED BY <1>2, <2>1, <2>2
<1> HIDE DEF ir
<1>4. ofOperations \subseteq narrative
  <2>1. \A i \in DOMAIN ir.operations : \A t \in ir.operations[i].narrative :
          [group |-> "operations", name |-> ir.operations[i].kind,
           key |-> t.key, text |-> t.text] \in narrative
    BY <1>1, <1>3
  <2> QED BY <2>1
<1>5. ofObjects \subseteq narrative
  <2>1. \A o \in DOMAIN ir.objects : \A t \in ir.objects[o].narrative :
          [group |-> "objects", name |-> o, key |-> t.key, text |-> t.text] \in narrative
    BY <1>1, <1>3
  <2> QED BY <2>1
<1>6. ASSUME NEW n \in narrative PROVE n \in ofOperations \cup ofObjects
  <2> DEFINE t == [key |-> n.key, text |-> n.text]
  <2>1. t \in NarrativeOf(n.group, n.name, narrative) BY DEF NarrativeOf
  <2>2. n = [group |-> n.group, name |-> n.name, key |-> t.key, text |-> t.text] BY <1>2
  <2>3. CASE n.group = "operations" /\ n.name \in Kinds(schema)
    <3>1. PICK i \in DOMAIN schema.variants : schema.variants[i].kind = n.name
      BY <2>3 DEF Kinds, Values
    <3>2. t \in ir.operations[i].narrative /\ ir.operations[i].kind = n.name
          /\ i \in DOMAIN ir.operations
      BY <1>1, <2>1, <2>3, <3>1
    <3>3. n = [group |-> "operations", name |-> ir.operations[i].kind,
               key |-> t.key, text |-> t.text]
      BY <2>2, <2>3, <3>2
    <3> HIDE DEF t
    <3> QED BY <3>2, <3>3
  <2>4. CASE n.group = "objects" /\ n.name \in DOMAIN contract.objects
    <3>1. t \in ir.objects[n.name].narrative /\ n.name \in DOMAIN ir.objects
      BY <1>1, <2>1, <2>4
    <3>2. n = [group |-> "objects", name |-> n.name, key |-> t.key, text |-> t.text]
      BY <2>2, <2>4
    <3> HIDE DEF t
    <3> QED BY <3>1, <3>2
  <2> QED BY <2>3, <2>4 DEF NarrativeAccepted
<1> QED BY <1>4, <1>5, <1>6

(***************************************************************************)
(* Whatever contract, schema and overlay are handed to the stages of a     *)
(* run, at any time: the validator refuses them or nothing of them is      *)
(* missing from the representation.                                        *)
(***************************************************************************)
THEOREM SubjectIrIsAlwaysComplete ==
  [](subject.stage = "contract" => IsOverlay(subject.narrative))
    => []SubjectIrIsComplete
<1>1. (subject.stage = "contract" => IsOverlay(subject.narrative))
        => SubjectIrIsComplete
  BY AcceptedIrIsComplete, AcceptedNarrativeIsShown DEF SubjectIrIsComplete
<1> QED BY <1>1, PTL
=============================================================================
