---------------------------- MODULE CrossInputs ----------------------------
(***************************************************************************)
(* What the cross-language runner does with its input files                *)
(* (runCrossConformance of cross-runner.mjs, and cross-cli.mjs): it looks  *)
(* at each, takes its digest, opens it again to use it, and names the      *)
(* digests in every row it reports.  Files may be rewritten or removed     *)
(* between any two of these steps, and the adapter, which is started anew  *)
(* for every vector, until the last.                                       *)
(*                                                                         *)
(* The archive of the protocol is the exception: what is run from it       *)
(* counts only by the digest of its output.                                *)
(***************************************************************************)
EXTENDS Naturals, Sequences

CONSTANTS
  VectorCount,   \* vectors put to the adapter; 17 in the code
  MaxChanges     \* bound on the changes to files

ASSUME VectorAssumption == VectorCount \in Nat \ {0}

Pinned == {"archive", "projection", "proof"}
InputFiles == Pinned \cup {"bundle", "adapter", "runner"}

\* What is in a file: what its pinned digest is of (for the others, what
\* was there at first), anything else, or there is no regular file.
FileContents == {"accepted", "other", "absent"}

VARIABLES
  disk,       \* what is in each file
  loaded,     \* the runner's own code, as the process has loaded it
  at,         \* the step of Verification that comes next; past it, the vectors
  exit,       \* "none", then the exit status
  tree,       \* what was extracted from the archive
  records,    \* the output of the reference run from that tree
  expected,   \* the projections the adapter's answers are compared with
  named,      \* what was in each file when its digest was taken
  rows,       \* reports: the adapter that ran, and the result
  changed,    \* history: the files changed since their digest was taken, and
              \* the runner's if it was changed since it was loaded
  changes     \* counts the changes, for the bound

inputVars == <<disk, loaded, at, exit, tree, records, expected, named, rows, changed, changes>>

InputsInit ==
  /\ disk \in {[[f \in InputFiles |-> "accepted"] EXCEPT ![g] = c] :
                 g \in InputFiles, c \in FileContents}
  /\ loaded = disk["runner"] /\ loaded # "absent"
  /\ at = 1 /\ exit = "none"
  /\ tree = "none" /\ records = "none" /\ expected = "none"
  /\ named = [f \in InputFiles |-> "none"]
  /\ rows = <<>> /\ changed = {} /\ changes = 0

---------------------------------------------------------------------------
(* The steps in their order.  The adapter is looked at before the bundle   *)
(* and its digest is taken after.                                          *)

Verification ==
  << <<"look", "archive">>, <<"digest", "archive">>, <<"digest", "archive">>,
     <<"extract", "archive">>, <<"inspect", "archive">>, <<"reproduce", "archive">>,
     <<"look", "projection">>, <<"digest", "projection">>, <<"load", "projection">>,
     <<"look", "proof">>, <<"digest", "proof">>, <<"load", "proof">>,
     <<"look", "adapter">>, <<"look", "bundle">>, <<"load", "bundle">>,
     <<"compare", "projection">>, <<"digest", "adapter">>, <<"digest", "runner">> >>

Doing(step, f) ==
  exit = "none" /\ at <= Len(Verification) /\ Verification[at] = <<step, f>>
Proceed == at' = at + 1 /\ UNCHANGED exit
\* Everything thrown before the loop ends the command; what was extracted
\* is removed on the way.
Refuse == exit' = "2" /\ tree' = "none" /\ UNCHANGED at

LookAt(f) ==
  /\ Doing("look", f)
  /\ IF disk[f] = "absent" THEN Refuse ELSE Proceed /\ UNCHANGED tree
  /\ UNCHANGED <<disk, loaded, records, expected, named, rows, changed, changes>>

DigestAccepted_Unpinned(f) == disk[f] # "absent"
DigestAccepted(f) == disk[f] # "absent" /\ (f \in Pinned => disk[f] = "accepted")

Named(f) == /\ named' = [named EXCEPT ![f] = disk[f]]
            /\ changed' = changed \ ({f} \ {"runner"})

TakeDigest(f) ==
  /\ Doing("digest", f)
  /\ IF DigestAccepted(f)
       THEN Proceed /\ Named(f) /\ UNCHANGED tree
       ELSE Refuse /\ UNCHANGED <<named, changed>>
  /\ UNCHANGED <<disk, loaded, records, expected, rows, changes>>

\* tar opens the archive once more.  From another archive may come a tree
\* that differs from the accepted one only where nothing is pinned.
ExtractArchive ==
  /\ Doing("extract", "archive")
  /\ \/ Refuse
     \/ /\ disk["archive"] # "absent"
        /\ Proceed
        /\ IF disk["archive"] = "accepted" THEN tree' = "accepted"
                                           ELSE tree' \in {"accepted", "alike", "other"}
  /\ UNCHANGED <<disk, loaded, records, expected, named, rows, changed, changes>>

\* The pinned artefacts and the version in the tree.
InspectTree ==
  /\ Doing("inspect", "archive")
  /\ IF tree = "other" THEN Refuse ELSE Proceed /\ UNCHANGED tree
  /\ UNCHANGED <<disk, loaded, records, expected, named, rows, changed, changes>>

OutputAccepted_Any(output) == TRUE
OutputAccepted(output) == output = "accepted"

\* The reference run in the tree may fail or take too long.
Reproduce ==
  /\ Doing("reproduce", "archive")
  /\ \E output \in {"accepted", "other"} :
       /\ tree = "accepted" => output = "accepted"
       /\ \/ Refuse /\ UNCHANGED records
          \/ OutputAccepted(output) /\ Proceed /\ tree' = "none" /\ records' = output
  /\ UNCHANGED <<disk, loaded, expected, named, rows, changed, changes>>

\* Reads the file and checks what was read.  A bundle is read once and its
\* digest is of what was read.
Load(f) ==
  /\ Doing("load", f)
  /\ \/ disk[f] # "accepted" /\ Refuse /\ UNCHANGED <<expected, named, changed>>
     \/ /\ disk[f] # "absent"
        /\ Proceed
        /\ expected' = IF f = "projection" THEN disk[f] ELSE expected
        /\ IF f = "bundle" THEN Named(f) ELSE UNCHANGED <<named, changed>>
        /\ UNCHANGED tree
  /\ UNCHANGED <<disk, loaded, records, rows, changes>>

\* The error codes of the two baselines.
Compare ==
  /\ Doing("compare", "projection")
  /\ \/ expected # "accepted" /\ Refuse
     \/ Proceed /\ UNCHANGED tree
  /\ UNCHANGED <<disk, loaded, records, expected, named, rows, changed, changes>>

\* Starts the adapter for the next vector; CrossConformance has what may
\* happen until the report.  Without the file nothing is started.
Invoke ==
  /\ exit = "none" /\ at > Len(Verification) /\ Len(rows) < VectorCount
  /\ \E result \in IF disk["adapter"] = "absent" THEN {"FAIL"} ELSE {"PASS", "FAIL"} :
       rows' = Append(rows, [ran |-> disk["adapter"], result |-> result])
  /\ UNCHANGED <<disk, loaded, at, exit, tree, records, expected, named, changed, changes>>

\* Nothing is printed before the last vector has its report.
WriteRows ==
  /\ exit = "none" /\ Len(rows) = VectorCount
  /\ exit' = IF \A i \in DOMAIN rows : rows[i].result = "PASS" THEN "0" ELSE "1"
  /\ UNCHANGED <<disk, loaded, at, tree, records, expected, named, rows, changed, changes>>

\* Somebody builds, downloads or removes a file.
ChangeFile(f) ==
  /\ exit = "none" /\ changes < MaxChanges
  /\ \E c \in FileContents \ {disk[f]} : disk' = [disk EXCEPT ![f] = c]
  /\ changed' = changed \cup {f}
  /\ changes' = changes + 1
  /\ UNCHANGED <<loaded, at, exit, tree, records, expected, named, rows>>

InputsNext ==
  \/ \E f \in InputFiles : LookAt(f) \/ TakeDigest(f) \/ Load(f) \/ ChangeFile(f)
  \/ ExtractArchive \/ InspectTree \/ Reproduce \/ Compare
  \/ Invoke \/ WriteRows

InputsSpec == InputsInit /\ [][InputsNext]_inputVars

---------------------------------------------------------------------------
(***************************************************************************)
(* Rows name what they are about, unless a file was changed after its      *)
(* digest: the adapter that ran is the one in its row, and it was compared *)
(* with the pinned projections.  The digest of the runner's own files,     *)
(* which is taken last, is of the code at work unless they were changed    *)
(* since it was loaded.  The reference records are the accepted ones       *)
(* whatever was done to the archive, because the digest of the run's own   *)
(* output is checked (cross-runner.mjs:243).  An adapter is started only   *)
(* after everything was verified, nothing is left of the extracted tree    *)
(* then, and a run over accepted files nobody touched ends with status 2   *)
(* only for what happened to its own processes.                            *)
(***************************************************************************)
RowsNameTheirInputs ==
  /\ rows # <<>> =>
       /\ records = "accepted" /\ tree = "none"
       /\ expected = "accepted" \/ "projection" \in changed
       /\ \A f \in Pinned : named[f] = "accepted"
       /\ \A f \in InputFiles : named[f] \in {"accepted", "other"}
       /\ "adapter" \notin changed => \A i \in DOMAIN rows : rows[i].ran = named["adapter"]
       /\ "runner" \notin changed => named["runner"] = loaded
  /\ exit # "none" =>
       /\ tree = "none"
       /\ (exit = "2") <=> (Len(rows) < VectorCount)
  /\ exit = "0" => \A i \in DOMAIN rows : rows[i].ran # "absent"
  /\ (exit = "2" /\ changes = 0 /\ \A f \in InputFiles : disk[f] = "accepted") =>
       Verification[at][1] \in {"extract", "reproduce"}
=============================================================================
