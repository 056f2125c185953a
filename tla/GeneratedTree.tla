--------------------------- MODULE GeneratedTree ---------------------------
(***************************************************************************)
(* The code generator (codegen/src): processes that run `generate` or      *)
(* `check` over one repository and one output directory, while editors     *)
(* change the sources and anything may touch the output tree or kill a     *)
(* process.  A process reads the contract, reads it again with the schema  *)
(* for the digest it is pinned to, reads the narrative overlay, hashes its *)
(* own files, renders in memory, writes artefact after artefact (generate  *)
(* only) and finally compares the directory with what it rendered.  Every  *)
(* file-system call is a step of its own.                                  *)
(*                                                                         *)
(* A document is one of a few contents.  A rendered file is the record of  *)
(* everything it was rendered from, so two files are equal when they were  *)
(* rendered from equal sources by equal code: sha256 is taken to be        *)
(* injective.                                                              *)
(***************************************************************************)
EXTENDS Naturals, Sequences

CONSTANTS
  Procs,            \* generator processes
  Artefacts,        \* the files of the tree in the order they are written, report last
  Contracts,        \* contents of spec/commerce.*
  WellFormed,       \* contracts whose digest.files passes loadProtocolSource
  SameHeader,       \* those with the accepted version and list of digest files
  Buildable,        \* those validateProtocolSource accepts (module ContractSource)
  AcceptedContract, \* the contract and the schema of SUPPORTED_SOURCE_DIGEST
  Schemas,
  AcceptedSchema,
  Narratives,       \* contents of the overlay named by --descriptions
  Prose,            \* the overlays validateNarrative accepts
  Tools,            \* contents of codegen/src/*.mjs
  Strays,           \* files and directories the generator does not write
  MaxEdits          \* bound: changes from outside, and kills, per behaviour

Missing == "missing"       \* no contract, or no overlay
Plain == "no overlay"      \* narrative of a run without --descriptions
Unread == "unread"

ASSUME TreeAssumption ==
  /\ SameHeader \subseteq WellFormed /\ WellFormed \subseteq Contracts
  /\ AcceptedContract \in SameHeader \cap Buildable
  /\ Buildable \subseteq Contracts /\ Missing \notin Contracts
  /\ AcceptedSchema \in Schemas
  /\ Prose \subseteq Narratives /\ Missing \notin Narratives /\ Plain \notin Narratives
  /\ Len(Artefacts) \in Nat \ {0} /\ DOMAIN Artefacts = 1..Len(Artefacts)
  /\ \A i, j \in DOMAIN Artefacts : Artefacts[i] = Artefacts[j] => i = j
  /\ MaxEdits \in Nat

VARIABLES
  disk,       \* the sources as they are now; rival: a second candidate for the contract
  tree,       \* the output directory: artefact -> content
  strays,     \* the other entries of the output directory
  proc,       \* each process: what it has read and how far it is
  disturbed,  \* ghost: someone else changed sources or tree during the run
  raced,      \* ghost: a source changed between the two looks a run takes at it
  meddled,    \* ghost: something that is no generator touched the tree
  edits

vars == <<disk, tree, strays, proc, disturbed, raced, meddled, edits>>

Files == {Artefacts[i] : i \in DOMAIN Artefacts}
Report == Artefacts[Len(Artefacts)]
Commands == {"generate", "check"}
Stages == {"idle", "contract", "document", "schema", "overlay", "build",
           "open", "write", "list", "compare"}

\* Everything a file was rendered from; only the report carries the hash.
Builds == [contract : Contracts \cup {Unread}, schema : Schemas \cup {Unread},
           narrative : Narratives \cup {Plain, Unread},
           code : Tools \cup {Unread}, hash : Tools \cup {Unread}]
NoBuild == [contract |-> Unread, schema |-> Unread, narrative |-> Unread,
            code |-> Unread, hash |-> Unread]

\* Not generated: no file, a directory in its place, truncated by open and not
\* yet written, the bytes of two writers, edited by hand.
Absent == [state |-> "missing", build |-> NoBuild]
InTheWay == [state |-> "directory", build |-> NoBuild]
Torn == [state |-> "torn", build |-> NoBuild]
Garbled == [state |-> "garbled", build |-> NoBuild]
Foreign == [state |-> "foreign", build |-> NoBuild]
Contents == {Absent, InTheWay, Torn, Garbled, Foreign}
            \cup [state : {"rendered"}, build : Builds]

Rendered(a, b) ==
  [state |-> "rendered",
   build |-> IF a = Report THEN b ELSE [b EXCEPT !.hash = Unread]]
IsFile(a) == tree[a] \notin {Absent, InTheWay}

\* A process between two runs, with the outcome of the last one.
Ended(verdict) ==
  [pc |-> "idle", command |-> "check", described |-> FALSE, build |-> NoBuild,
   digested |-> Unread, at |-> 1, present |-> {}, drift |-> FALSE, verdict |-> verdict]
Running(p) == proc[p].pc # "idle"

Init ==
  /\ disk \in [contract : {AcceptedContract}, rival : {FALSE}, schema : {AcceptedSchema},
               overlay : Prose, tool : Tools]
  /\ tree = [a \in Files |-> Absent]
  /\ strays = {}
  /\ proc = [p \in Procs |-> Ended("none")]
  /\ disturbed = [p \in Procs |-> FALSE]
  /\ raced = FALSE /\ meddled = FALSE /\ edits = 0

Go(p, q) ==
  /\ proc' = [proc EXCEPT ![p] = q]
  /\ UNCHANGED <<disk, tree, strays, disturbed, raced, meddled, edits>>
Stop(p, verdict) ==
  /\ proc' = [proc EXCEPT ![p] = Ended(verdict)]
  /\ disturbed' = [disturbed EXCEPT ![p] = FALSE]
  /\ UNCHANGED <<disk, tree, strays, raced, meddled>>
End(p, verdict) == Stop(p, verdict) /\ UNCHANGED edits
DisturbOthers(p) ==
  disturbed' = [q \in Procs |-> disturbed[q] \/ (q # p /\ Running(q))]
DisturbAll == disturbed' = [q \in Procs |-> disturbed[q] \/ Running(q)]

----------------------------------------------------------------------------
(* One run of a process. *)

\* main: unusable arguments, or an output path that is a root, end the run
\* before anything is read.  The process runs the code it loads here.
Start(p, command, described, usable) ==
  /\ ~Running(p)
  /\ IF usable
       THEN Go(p, [Ended("none") EXCEPT !.pc = "contract", !.command = command,
                     !.described = described, !.build.code = disk.tool])
       ELSE End(p, "failed")

\* Exactly one candidate is read; this value is what will be rendered.  A rival
\* that stands alone is refused as well: its path is not in the pinned digest.
ReadContract(p) ==
  /\ proc[p].pc = "contract"
  /\ IF disk.contract \in WellFormed /\ ~disk.rival
       THEN Go(p, [proc[p] EXCEPT !.pc = "document", !.build.contract = disk.contract])
       ELSE End(p, "failed")

\* The contract is one of its own digest.files and is read once more, by its
\* path and whatever stands beside it: this second value enters the digest.
ReadDocument(p) ==
  /\ proc[p].pc = "document"
  /\ IF disk.contract # Missing
       THEN Go(p, [proc[p] EXCEPT !.pc = "schema", !.digested = disk.contract])
       ELSE End(p, "failed")

\* A mutant: the digest is not compared.
Pinned_VersionOnly(q, schema) == q.build.contract \in SameHeader

\* A mutant: the header of the first reading is not compared.
Pinned_DigestOnly(q, schema) == q.digested = AcceptedContract /\ schema = AcceptedSchema

\* Version and path list of the first reading, digest of the second.
Pinned(q, schema) ==
  /\ q.build.contract \in SameHeader
  /\ q.digested = AcceptedContract
  /\ schema = AcceptedSchema

ReadSchema(p) ==
  /\ proc[p].pc = "schema"
  /\ IF Pinned(proc[p], disk.schema)
       THEN Go(p, [proc[p] EXCEPT !.pc = "overlay", !.build.schema = disk.schema])
       ELSE End(p, "failed")

ReadOverlay(p) ==
  /\ proc[p].pc = "overlay"
  /\ LET narrative == IF proc[p].described THEN disk.overlay ELSE Plain IN
     IF narrative # Missing
       THEN Go(p, [proc[p] EXCEPT !.pc = "build", !.build.narrative = narrative])
       ELSE End(p, "failed")

\* buildContractIr validates what was read, generatorHash reads the tool's own
\* files from the disk, renderArtifacts renders in memory.
Build(p) ==
  /\ proc[p].pc = "build"
  /\ IF /\ proc[p].build.contract \in Buildable
        /\ proc[p].build.narrative \in Prose \cup {Plain}
       THEN Go(p, [proc[p] EXCEPT
              !.pc = IF proc[p].command = "generate" THEN "open" ELSE "list",
              !.build.hash = disk.tool, !.at = 1])
       ELSE End(p, "failed")

\* A mutant: a file that is already there is kept.
Open_KeepsExisting(p) ==
  LET a == Artefacts[proc[p].at] IN
  /\ proc[p].pc = "open"
  /\ tree[a] # InTheWay
  /\ IF tree[a] = Absent
       THEN tree' = [tree EXCEPT ![a] = Torn] /\ proc' = [proc EXCEPT ![p].pc = "write"]
       ELSE /\ UNCHANGED tree
            /\ proc' = [proc EXCEPT
                 ![p].pc = IF proc[p].at < Len(Artefacts) THEN "open" ELSE "list",
                 ![p].at = IF proc[p].at < Len(Artefacts) THEN proc[p].at + 1 ELSE proc[p].at]
  /\ DisturbOthers(p)
  /\ UNCHANGED <<disk, strays, raced, meddled, edits>>

\* writeFileSync truncates the file; it cannot open a directory.
Open(p) ==
  LET a == Artefacts[proc[p].at] IN
  /\ proc[p].pc = "open"
  /\ tree[a] # InTheWay
  /\ tree' = [tree EXCEPT ![a] = Torn]
  /\ proc' = [proc EXCEPT ![p].pc = "write"]
  /\ DisturbOthers(p)
  /\ UNCHANGED <<disk, strays, raced, meddled, edits>>

OpenFails(p) ==
  /\ proc[p].pc = "open"
  /\ tree[Artefacts[proc[p].at]] = InTheWay
  /\ End(p, "failed")

\* The bytes go over whatever another writer has put into the file since: the
\* longer tail stays.
Write(p) ==
  LET a == Artefacts[proc[p].at]
      mine == Rendered(a, proc[p].build)
      last == proc[p].at = Len(Artefacts) IN
  /\ proc[p].pc = "write"
  /\ \E c \in {mine} \cup (IF tree[a] \in {Torn, mine} THEN {} ELSE {Garbled}) :
       tree' = [tree EXCEPT ![a] = c]
  /\ proc' = [proc EXCEPT ![p].pc = IF last THEN "list" ELSE "open",
                          ![p].at = IF last THEN proc[p].at ELSE proc[p].at + 1]
  /\ DisturbOthers(p)
  /\ UNCHANGED <<disk, strays, raced, meddled, edits>>

\* A mutant: only expected names are looked for.
List_NoExtras(p) ==
  /\ proc[p].pc = "list"
  /\ Go(p, [proc[p] EXCEPT !.pc = "compare", !.at = 1,
              !.present = {a \in Files : IsFile(a)},
              !.drift = \E a \in Files : ~IsFile(a)])

\* differences lists the directory: a missing or an extra entry is drift ...
List(p) ==
  /\ proc[p].pc = "list"
  /\ Go(p, [proc[p] EXCEPT !.pc = "compare", !.at = 1,
              !.present = {a \in Files : IsFile(a)},
              !.drift = strays # {} \/ \E a \in Files : ~IsFile(a)])

\* A mutant: only the last file decides.
Differs_LastOnly(p) ==
  LET q == proc[p] IN
  /\ Artefacts[q.at] \in q.present
  /\ tree[Artefacts[q.at]] # Rendered(Artefacts[q.at], q.build)

\* ... and so is a listed file with other bytes.
Differs(p) ==
  LET q == proc[p] IN
  q.drift \/ /\ Artefacts[q.at] \in q.present
             /\ tree[Artefacts[q.at]] # Rendered(Artefacts[q.at], q.build)

\* A listed file that is gone when its turn comes cannot be read.
Gone(p) == Artefacts[proc[p].at] \in proc[p].present /\ ~IsFile(Artefacts[proc[p].at])

Compare(p) ==
  /\ proc[p].pc = "compare" /\ ~Gone(p)
  /\ IF proc[p].at < Len(Artefacts)
       THEN Go(p, [proc[p] EXCEPT !.at = proc[p].at + 1, !.drift = Differs(p)])
       ELSE End(p, IF Differs(p) THEN "drift" ELSE "clean")

CompareFails(p) == proc[p].pc = "compare" /\ Gone(p) /\ End(p, "failed")

Run(p) ==
  \/ \E command \in Commands, described, usable \in BOOLEAN :
       Start(p, command, described, usable)
  \/ ReadContract(p) \/ ReadDocument(p) \/ ReadSchema(p) \/ ReadOverlay(p) \/ Build(p)
  \/ Open(p) \/ OpenFails(p) \/ Write(p) \/ List(p) \/ Compare(p) \/ CompareFails(p)

----------------------------------------------------------------------------
(* Everything else: the process is killed, the sources are edited, the tree *)
(* is touched.  MaxEdits bounds how often.                                  *)

Outside == edits < MaxEdits /\ edits' = edits + 1

Crash(p) ==
  /\ Outside /\ Running(p)
  /\ Stop(p, "failed")

EditSources(next) ==
  /\ Outside /\ next # disk
  /\ disk' = next
  /\ raced' = \/ raced
              \/ next.contract # disk.contract /\ \E p \in Procs : proc[p].pc = "document"
              \/ next.tool # disk.tool /\ \E p \in Procs : proc[p].pc \in
                    {"contract", "document", "schema", "overlay", "build"}
  /\ DisturbAll
  /\ UNCHANGED <<tree, strays, proc, meddled>>

\* One document at a time.
Edit ==
  \/ \E c \in Contracts \cup {Missing} : EditSources([disk EXCEPT !.contract = c])
  \/ EditSources([disk EXCEPT !.rival = ~@])
  \/ \E s \in Schemas : EditSources([disk EXCEPT !.schema = s])
  \/ \E n \in Narratives \cup {Missing} : EditSources([disk EXCEPT !.overlay = n])
  \/ \E t \in Tools : EditSources([disk EXCEPT !.tool = t])

\* A file no process has open is removed, edited or replaced by a directory, or
\* an entry the generator does not write comes; at most once per behaviour.
Meddle ==
  /\ Outside /\ ~meddled
  /\ \/ \E a \in Files, c \in {Absent, Foreign, InTheWay} :
          /\ tree[a] # c
          /\ \A p \in Procs : ~(proc[p].pc = "write" /\ Artefacts[proc[p].at] = a)
          /\ tree' = [tree EXCEPT ![a] = c]
          /\ UNCHANGED strays
     \/ \E s \in Strays :
          /\ strays' = strays \cup {s}
          /\ UNCHANGED tree
  /\ meddled' = TRUE
  /\ DisturbAll
  /\ UNCHANGED <<disk, proc, raced>>

Next == (\E p \in Procs : Run(p) \/ Crash(p)) \/ Edit \/ Meddle

Spec == Init /\ [][Next]_vars

----------------------------------------------------------------------------
(* Properties. *)

ProcessType == [pc : Stages, command : Commands, described : BOOLEAN,
                build : Builds, digested : Contracts \cup {Unread},
                at : DOMAIN Artefacts, present : SUBSET Files,
                drift : BOOLEAN, verdict : {"none", "clean", "drift", "failed"}]

\* Every variable stays in its type.
TypeOK ==
  /\ disk \in [contract : Contracts \cup {Missing}, rival : BOOLEAN, schema : Schemas,
               overlay : Narratives \cup {Missing}, tool : Tools]
  /\ tree \in [Files -> Contents]
  /\ strays \subseteq Strays
  /\ proc \in [Procs -> ProcessType]
  /\ disturbed \in [Procs -> BOOLEAN]
  /\ raced \in BOOLEAN /\ meddled \in BOOLEAN /\ edits \in 0..MaxEdits

\* What a build may be made of: always the accepted schema and a contract with
\* the accepted header that the validator took; the accepted contract and the
\* tool the report names unless one of them was edited between the two times a
\* run looks at it.
FromAcceptedSource(b) ==
  /\ b.schema = AcceptedSchema
  /\ b.contract \in SameHeader \cap Buildable
  /\ raced \/ b.contract = AcceptedContract
  /\ raced \/ b.hash \in {Unread, b.code}

\* Whatever the editors, the other generators and the kills do, each complete
\* file in the output directory comes from the pinned source
\* (SUPPORTED_SOURCE_DIGEST), and a report names the code that rendered it.  A
\* source edited between the two looks of a run (source.mjs:34, :42-49, :68) gets
\* past the pin in the code; what is left then is the header and the validator.
Provenance ==
  \A a \in Files : tree[a].state = "rendered" => FromAcceptedSource(tree[a].build)

Whole(b) == \A a \in Files : tree[a] = Rendered(a, b)

\* Generators may overlap and be killed half-way, and nobody locks the
\* directory.  When all are idle, every process's last run ended without drift
\* (or it has not run at all) and no one else touched the tree, the directory
\* is empty or holds one build, whole: a mixture is always reported to somebody.
NoSilentMix ==
  (/\ ~meddled
   /\ \A p \in Procs : proc[p].pc = "idle" /\ proc[p].verdict \in {"none", "clean"})
    => \/ \A a \in Files : tree[a] = Absent
       \/ Whole(tree[Report].build)

Ends(p) == Running(p) /\ proc'[p].pc = "idle"

\* What the process would render from the sources as they are now.
CurrentBuild(p) ==
  [contract |-> disk.contract, schema |-> disk.schema,
   narrative |-> IF proc[p].described THEN disk.overlay ELSE Plain,
   code |-> disk.tool, hash |-> disk.tool]

\* A run nobody disturbed ends clean exactly when the directory is, entry for
\* entry, what the sources of now generate; leftovers of an earlier contract or
\* of a killed run, strays and hand edits all end in drift.
CleanMeansCurrent ==
  [][\A p \in Procs : Ends(p) /\ ~disturbed[p] =>
       /\ proc'[p].verdict = "clean" => Whole(CurrentBuild(p)) /\ strays = {}
       /\ proc'[p].verdict = "drift" => ~(Whole(CurrentBuild(p)) /\ strays = {})]_vars

\* A generate run nobody disturbed that started to write leaves every file
\* current, whatever was there before, and then reports at most strays; only a
\* directory in a file's place stops it.
GenerateRepairs ==
  [][\A p \in Procs :
       /\ Ends(p) /\ ~disturbed[p] /\ edits' = edits
       /\ proc[p].command = "generate" /\ proc[p].pc \in {"open", "write", "list", "compare"}
       => \/ /\ Whole(CurrentBuild(p))
             /\ proc'[p].verdict = IF strays = {} THEN "clean" ELSE "drift"
          \/ /\ proc'[p].verdict = "failed"
             /\ \E a \in Files : tree[a] = InTheWay]_vars

=============================================================================
