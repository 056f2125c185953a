---------------------- MODULE CrossConformanceProofs ----------------------
(***************************************************************************)
(* The cross-language runner, its adapters and its input files: for any    *)
(* number of vectors and changes to files, any output limit and any kinds  *)
(* of helpers.                                                             *)
(***************************************************************************)
EXTENDS CrossConformance, CrossInputs, TLAPS

ProcessTyped ==
  /\ child \in [Vectors -> {"none", "running", "failed",
                            "zero", "nonzero", "signal"}]
  /\ helper \in [Vectors -> Kinds \cup {"none", "dead"}]
  /\ doomed \in [Vectors -> SUBSET {"child", "helper"}]
  /\ output \in [Vectors -> {"unfinished", "answer", "other", "noise"}]
  /\ written \in [Vectors -> Nat]

RunnerTyped ==
  /\ current \in Vectors
  /\ phase \in {"directory", "close", "removal", "done"}
  /\ read \in Nat
  /\ notes \subseteq {"timeout", "oversize", "spawnFailure"}
  /\ outcome \in HarnessErrors \cup {"none", "PASS", "FAIL"}
  /\ report \in [Vectors -> {"none", "PASS", "FAIL", "ERROR"}]

\* Nothing is known of a vector before its process is started.
NotBegun ==
  \A v \in Vectors :
    v > current \/ (v = current /\ phase = "directory") =>
      /\ child[v] = "none" /\ helper[v] = "none"
      /\ doomed[v] = {} /\ written[v] = 0

\* What the runner knows of an invocation, and when.
PhaseAgrees ==
  /\ phase = "removal" <=> outcome # "none"
  /\ phase \in {"directory", "done"} => read = 0 /\ notes = {}
  /\ phase = "removal" => read = written[current]

\* What the runner did to an adapter is noted, and so is what it received.
NotesAgree ==
  /\ phase \in {"close", "removal"} /\ doomed[current] # {} =>
       notes \cap {"timeout", "oversize"} # {}
  /\ "oversize" \in notes <=> read > Limit

CrossInv ==
  /\ ProcessTyped
  /\ RunnerTyped
  /\ NotBegun
  /\ PhaseAgrees
  /\ NotesAgree
  /\ BlameIsJust
  /\ AdaptersAreIsolated

---------------------------------------------------------------------------
\* At first nothing is started.
LEMMA InitCross == Init => CrossInv
  <1> SUFFICES ASSUME Init PROVE CrossInv
    OBVIOUS
  <1>1. 1 \in Vectors /\ ~(0 > Limit)
    BY LastAssumption, LimitAssumption DEF Vectors
  <1>2. ProcessTyped /\ RunnerTyped
    BY <1>1 DEF Init, ProcessInit, ProcessTyped, RunnerTyped
  <1>3. NotBegun /\ PhaseAgrees /\ NotesAgree /\ BlameIsJust
    BY <1>1 DEF Init, ProcessInit, NotBegun, PhaseAgrees, NotesAgree,
                BlameIsJust
  <1>4. AdaptersAreIsolated
    BY DEF Init, ProcessInit, AdaptersAreIsolated, HoldsPipes
  <1>5. QED
    BY <1>2, <1>3, <1>4 DEF CrossInv

\* A report ends an invocation whose pipes nobody holds, and what is known
\* of it is forgotten.
LEMMA ReportKeepsCross ==
  ASSUME CrossInv, NEW v \in Vectors, v = current,
         phase \in {"directory", "removal"},
         NEW result \in HarnessErrors \cup {"PASS", "FAIL"},
         Report(v, result), UNCHANGED process
  PROVE  CrossInv'
  <1>1. \A w \in Vectors : ~HoldsPipes(w)
    BY DEF CrossInv, AdaptersAreIsolated
  <1>2. /\ read' = 0 /\ notes' = {} /\ outcome' = "none"
        /\ phase' \in {"directory", "done"}
        /\ UNCHANGED <<child, helper, doomed, output, written>>
    BY DEF Report, process
  <1>3. /\ current' \in Vectors
        /\ phase' = "directory" => current' = v + 1
        /\ phase' = "done" => current' = v /\ v = Last
    BY LastAssumption DEF Report, Vectors
  <1>4. report' \in [Vectors -> {"none", "PASS", "FAIL", "ERROR"}]
    BY DEF Report, CrossInv, RunnerTyped, HarnessErrors
  <1>5. ProcessTyped' /\ RunnerTyped'
    BY <1>2, <1>3, <1>4 DEF CrossInv, ProcessTyped, RunnerTyped
  <1>6. NotBegun'
    BY <1>2, <1>3, LastAssumption DEF CrossInv, NotBegun, Vectors
  <1>7. PhaseAgrees' /\ NotesAgree' /\ BlameIsJust'
    BY <1>2, LimitAssumption DEF PhaseAgrees, NotesAgree, BlameIsJust
  <1>8. AdaptersAreIsolated'
    BY <1>1, <1>2 DEF AdaptersAreIsolated, HoldsPipes
  <1>9. QED
    BY <1>5, <1>6, <1>7, <1>8 DEF CrossInv

\* The directory is made, and the process started; or it is removed.
LEMMA DirectoryStepKeepsCross ==
  ASSUME CrossInv, NEW v \in Vectors, DirectoryStep(v)
  PROVE  CrossInv'
  <1>1. CASE MakeDirectory(v)
    <2>1. PICK started \in {"running", "failed"} :
            child' = [child EXCEPT ![v] = started]
      BY <1>1 DEF MakeDirectory, Spawn
    <2>2. ProcessTyped' /\ RunnerTyped'
      BY <1>1, <2>1
         DEF MakeDirectory, invocation, CrossInv, ProcessTyped, RunnerTyped
    <2>3. NotBegun'
      <3>1. /\ v = current /\ current' = current /\ phase' = "close"
            /\ UNCHANGED <<helper, doomed, written>>
            /\ \A w \in Vectors : w # v => child'[w] = child[w]
        BY <1>1, <2>1 DEF MakeDirectory, CrossInv, ProcessTyped
      <3>2. \A w \in Vectors : w > current => w # v
        BY <3>1, LastAssumption DEF Vectors
      <3>3. QED
        BY <3>1, <3>2 DEF CrossInv, NotBegun
    <2>4. PhaseAgrees' /\ NotesAgree' /\ BlameIsJust'
      BY <1>1 DEF MakeDirectory, invocation, CrossInv, PhaseAgrees, NotesAgree,
                  NotBegun, BlameIsJust
    <2>5. AdaptersAreIsolated'
      BY <1>1, <2>1 DEF MakeDirectory, CrossInv, ProcessTyped,
                        AdaptersAreIsolated, HoldsPipes
    <2>6. QED
      BY <2>2, <2>3, <2>4, <2>5 DEF CrossInv
  <1>2. CASE MakeDirectoryFails(v) \/ RemoveDirectoryFails(v)
    BY <1>2, ReportKeepsCross
       DEF MakeDirectoryFails, RemoveDirectoryFails, HarnessErrors
  <1>3. CASE RemoveDirectory(v)
    <2>1. outcome \in HarnessErrors \cup {"PASS", "FAIL"}
      BY <1>3 DEF RemoveDirectory, CrossInv, RunnerTyped, PhaseAgrees
    <2>2. QED
      BY <1>3, <2>1, ReportKeepsCross DEF RemoveDirectory
  <1>4. QED
    BY <1>1, <1>2, <1>3 DEF DirectoryStep

---------------------------------------------------------------------------
\* A note is taken of the invocation in flight, with or without a signal to
\* its group: what the callbacks before the close have to show.
LEMMA NoteKeepsCross ==
  ASSUME CrossInv, NEW v \in Vectors, Awaited(v),
         notes' \subseteq {"timeout", "oversize", "spawnFailure"},
         notes \subseteq notes',
         \/ Terminate(v) /\ notes' \cap {"timeout", "oversize"} # {}
         \/ UNCHANGED doomed,
         read' \in Nat, "oversize" \in notes' <=> read' > Limit,
         UNCHANGED <<child, helper, output, written>>,
         UNCHANGED <<awaited, outcome, report>>
  PROVE  CrossInv'
  <1>1. v = current /\ phase = "close" /\ UNCHANGED <<current, phase>>
    BY DEF Awaited, awaited
  <1>2. /\ doomed' \in [Vectors -> SUBSET {"child", "helper"}]
        /\ \A w \in Vectors : w # v => doomed'[w] = doomed[w]
    <2>1. CASE UNCHANGED doomed
      BY <2>1 DEF CrossInv, ProcessTyped
    <2>2. CASE Terminate(v)
      <3>1. Group(v) \subseteq {"child", "helper"}
        BY DEF Group
      <3>2. QED
        BY <2>2, <3>1 DEF Terminate, Kill, CrossInv, ProcessTyped
    <2>3. QED
      BY <2>1, <2>2
  <1>3. ProcessTyped' /\ RunnerTyped'
    BY <1>1, <1>2 DEF CrossInv, ProcessTyped, RunnerTyped
  <1>4. NotBegun'
    <2>1. v \in Nat /\ v = current
      BY <1>1, LastAssumption DEF Vectors
    <2>2. QED
      BY <1>1, <1>2, <2>1 DEF CrossInv, NotBegun
  <1>5. PhaseAgrees' /\ NotesAgree' /\ BlameIsJust'
    BY <1>1 DEF CrossInv, PhaseAgrees, NotesAgree, BlameIsJust
  <1>6. AdaptersAreIsolated'
    BY <1>1 DEF CrossInv, AdaptersAreIsolated, HoldsPipes
  <1>7. QED
    BY <1>3, <1>4, <1>5, <1>6 DEF CrossInv

\* What the close of the pipes is taken for, in the order of the code.
LEMMA OutcomesAreJust ==
  ASSUME CrossInv, NEW v \in Vectors, Awaited(v), Closable(v),
         NEW result \in Outcomes(v)
  PROVE  /\ result \in HarnessErrors \cup {"PASS", "FAIL"}
         /\ result = "ADAPTER_SIGNAL" => child[v] = "signal" /\ doomed[v] = {}
         /\ result = "ADAPTER_TIMEOUT" <=> "timeout" \in notes
         /\ result = "ADAPTER_OUTPUT_LIMIT"
              <=> written[v] > Limit /\ "timeout" \notin notes
  <1>1. /\ v = current /\ phase = "close"
        /\ "oversize" \in notes <=> written[v] > Limit
        /\ doomed[v] # {} => "timeout" \in notes \/ "oversize" \in notes
    BY DEF Awaited, Closable, CrossInv, NotesAgree
  <1>2. Answers(v) \subseteq {"ADAPTER_STDERR", "ADAPTER_PROTOCOL_INVALID",
                              "PASS", "FAIL"}
    <2>1. output[v] \in {"unfinished", "answer", "other", "noise"}
      BY DEF CrossInv, ProcessTyped
    <2>2. QED
      BY <2>1 DEF Answers
  <1>3. CASE "timeout" \in notes
    BY <1>3 DEF Outcomes, HarnessErrors
  <1>4. CASE "timeout" \notin notes /\ "oversize" \in notes
    BY <1>1, <1>4 DEF Outcomes, HarnessErrors
  <1>5. CASE "timeout" \notin notes /\ "oversize" \notin notes
    BY <1>1, <1>2, <1>5 DEF Outcomes, HarnessErrors
  <1>6. QED
    BY <1>3, <1>4, <1>5

\* Every callback keeps the invariant.
LEMMA HandleKeepsCross ==
  ASSUME CrossInv, NEW v \in Vectors, Handle(v)
  PROVE  CrossInv'
  <1>1. CASE DirectoryStep(v)
    BY <1>1, DirectoryStepKeepsCross
  <1>2. CASE OnTimeout(v)
    BY <1>2, NoteKeepsCross DEF OnTimeout, CrossInv, RunnerTyped, NotesAgree
  <1>3. CASE OnError(v)
    BY <1>3, NoteKeepsCross
       DEF OnError, process, CrossInv, RunnerTyped, NotesAgree
  <1>4. CASE OnData(v)
    <2>1. /\ read' \in Nat /\ read < read' /\ read' = written[v]
          /\ "oversize" \in notes <=> read > Limit
          /\ notes \subseteq {"timeout", "oversize", "spawnFailure"}
          /\ read \in Nat /\ Limit \in Nat
      BY <1>4, LimitAssumption
         DEF OnData, CrossInv, ProcessTyped, RunnerTyped, NotesAgree
    <2>2. CASE written[v] > Limit
      BY <1>4, <2>1, <2>2, NoteKeepsCross DEF OnData
    <2>3. CASE ~(written[v] > Limit)
      <3>1. /\ notes' = notes /\ UNCHANGED doomed /\ Awaited(v)
            /\ UNCHANGED <<child, helper, output, written>>
            /\ UNCHANGED <<awaited, outcome, report>>
        BY <1>4, <2>3 DEF OnData
      <3>2. ~(read > Limit) /\ ~(read' > Limit)
        BY <2>1, <2>3
      <3>3. QED
        BY <2>1, <3>1, <3>2, NoteKeepsCross
    <2>4. QED
      BY <2>2, <2>3
  <1>5. CASE OnClose(v)
    <2>1. /\ v = current /\ phase = "close" /\ phase' = "removal"
          /\ outcome' \in Outcomes(v) /\ Awaited(v) /\ Closable(v)
          /\ UNCHANGED <<child, helper, doomed, output, written>>
          /\ UNCHANGED <<current, read, notes, report>>
      BY <1>5 DEF OnClose, Awaited, process
    <2>2. /\ outcome' \in HarnessErrors \cup {"PASS", "FAIL"}
          /\ outcome' = "ADAPTER_SIGNAL"
               => child[v] = "signal" /\ doomed[v] = {}
          /\ outcome' = "ADAPTER_TIMEOUT" <=> "timeout" \in notes
          /\ outcome' = "ADAPTER_OUTPUT_LIMIT"
               <=> written[v] > Limit /\ "timeout" \notin notes
      BY <2>1, OutcomesAreJust
    <2>3. ~HoldsPipes(v) /\ read = written[v]
      BY <2>1 DEF Closable
    <2>4. ProcessTyped' /\ RunnerTyped'
      BY <2>1, <2>2 DEF CrossInv, ProcessTyped, RunnerTyped
    <2>5. NotBegun' /\ NotesAgree'
      BY <2>1 DEF CrossInv, NotBegun, NotesAgree
    <2>6. PhaseAgrees' /\ BlameIsJust'
      BY <2>1, <2>2, <2>3 DEF PhaseAgrees, BlameIsJust, HarnessErrors
    <2>7. AdaptersAreIsolated'
      BY <2>1, <2>3 DEF CrossInv, AdaptersAreIsolated, HoldsPipes
    <2>8. QED
      BY <2>4, <2>5, <2>6, <2>7 DEF CrossInv
  <1>6. QED
    BY <1>1, <1>2, <1>3, <1>4, <1>5 DEF Handle

\* What a process does is seen in its output, and only while the pipes are
\* held.
LEMMA ProcessKeepsCross ==
  ASSUME CrossInv, NEW v \in Vectors, ProcessStep(v),
         UNCHANGED <<awaited, invocation, report>>
  PROVE  CrossInv'
  <1>1. UNCHANGED <<current, phase, read, notes, outcome, report>>
    BY DEF awaited, invocation
  <1>2. /\ RunnerTyped'
        /\ \A w \in Vectors :
             w > current \/ (w = current /\ phase = "directory")
               => ~HoldsPipes(w)
    <2>1. RunnerTyped'
      BY <1>1 DEF CrossInv, RunnerTyped
    <2>2. \A w \in Vectors : w > current => w # current
      BY LastAssumption DEF Vectors, CrossInv, RunnerTyped
    <2>3. QED
      BY <2>1, <2>2 DEF CrossInv, AdaptersAreIsolated
  <1>3. CASE Write(v)
    <2>1. /\ ProcessTyped' /\ UNCHANGED <<child, helper, doomed>>
          /\ \A w \in Vectors : w # v => written'[w] = written[w]
          /\ HoldsPipes(v)
      BY <1>3 DEF Write, CrossInv, ProcessTyped
    <2>2. v = current /\ phase = "close"
      BY <2>1 DEF CrossInv, AdaptersAreIsolated
    <2>3. NotBegun' /\ PhaseAgrees' /\ NotesAgree'
      BY <1>1, <1>2, <2>1, <2>2
         DEF CrossInv, NotBegun, PhaseAgrees, NotesAgree
    <2>4. BlameIsJust'
      BY <1>1, <2>2 DEF CrossInv, PhaseAgrees, BlameIsJust
    <2>5. AdaptersAreIsolated'
      BY <1>1, <2>1 DEF CrossInv, AdaptersAreIsolated, HoldsPipes
    <2>6. QED
      BY <1>2, <2>1, <2>3, <2>4, <2>5 DEF CrossInv
  <1>4. CASE Fork(v)
    <2>1. /\ ProcessTyped' /\ UNCHANGED <<child, doomed, written>>
          /\ \A w \in Vectors : w # v => helper'[w] = helper[w]
          /\ child[v] = "running" /\ HoldsPipes(v)
      BY <1>4 DEF Fork, CrossInv, ProcessTyped, HoldsPipes
    <2>2. v = current /\ phase = "close"
      BY <2>1 DEF CrossInv, AdaptersAreIsolated
    <2>3. NotBegun' /\ PhaseAgrees' /\ NotesAgree' /\ BlameIsJust'
      BY <1>1, <1>2, <2>1, <2>2
         DEF CrossInv, NotBegun, PhaseAgrees, NotesAgree, BlameIsJust
    <2>4. AdaptersAreIsolated'
      BY <1>1, <2>1, <2>2 DEF CrossInv, AdaptersAreIsolated, HoldsPipes
    <2>5. QED
      BY <1>2, <2>1, <2>3, <2>4 DEF CrossInv
  <1>5. ASSUME NEW how \in {"zero", "nonzero", "signal"}, child[v] = "running",
               child' = [child EXCEPT ![v] = how],
               UNCHANGED <<helper, doomed, output, written>>
        PROVE  CrossInv'
    <2>1. /\ ProcessTyped'
          /\ \A w \in Vectors : w # v => child'[w] = child[w]
          /\ child'[v] = how /\ HoldsPipes(v)
      BY <1>5 DEF CrossInv, ProcessTyped, HoldsPipes
    <2>2. v = current /\ phase = "close"
      BY <2>1 DEF CrossInv, AdaptersAreIsolated
    <2>3. NotBegun' /\ PhaseAgrees' /\ NotesAgree' /\ BlameIsJust'
      BY <1>1, <1>2, <1>5, <2>1, <2>2
         DEF CrossInv, NotBegun, PhaseAgrees, NotesAgree, BlameIsJust
    <2>4. AdaptersAreIsolated'
      BY <1>1, <1>5, <2>1 DEF CrossInv, AdaptersAreIsolated, HoldsPipes
    <2>5. QED
      BY <1>2, <2>1, <2>3, <2>4 DEF CrossInv
  <1>6. ASSUME HelperLives(v), helper' = [helper EXCEPT ![v] = "dead"],
               UNCHANGED <<child, doomed, output, written>>
        PROVE  CrossInv'
    <2>1. /\ ProcessTyped'
          /\ \A w \in Vectors : w # v => helper'[w] = helper[w]
          /\ helper'[v] = "dead" /\ helper[v] # "none"
      BY <1>6, KindsAssumption DEF CrossInv, ProcessTyped, HelperLives
    <2>2. NotBegun' /\ PhaseAgrees' /\ NotesAgree' /\ BlameIsJust'
      BY <1>1, <1>6, <2>1
         DEF CrossInv, NotBegun, PhaseAgrees, NotesAgree, BlameIsJust
    <2>3. AdaptersAreIsolated'
      BY <1>1, <1>6, <2>1 DEF CrossInv, AdaptersAreIsolated, HoldsPipes
    <2>4. QED
      BY <1>2, <2>1, <2>2, <2>3 DEF CrossInv
  <1>7. QED
    BY <1>3, <1>4, <1>5, <1>6 DEF ProcessStep, Exit, HelperExit, Die

---------------------------------------------------------------------------
(***************************************************************************)
(* The inductive invariant: what the runner has noted of the invocation in *)
(* flight is what it did and received, and nobody else holds any pipes.    *)
(***************************************************************************)
THEOREM CrossInvariance == Spec => []CrossInv
  <1>1. CrossInv /\ [Next]_vars => CrossInv'
    <2> SUFFICES ASSUME CrossInv, [Next]_vars PROVE CrossInv'
      OBVIOUS
    <2>1. CASE UNCHANGED vars
      BY <2>1
         DEF vars, process, awaited, invocation, CrossInv, ProcessTyped,
             RunnerTyped, NotBegun, PhaseAgrees, NotesAgree, BlameIsJust,
             AdaptersAreIsolated, HoldsPipes
    <2>2. QED
      BY <2>1, HandleKeepsCross, ProcessKeepsCross DEF Next
  <1>2. QED
    BY InitCross, <1>1, PTL DEF Spec

(***************************************************************************)
(* However timers, output, exits and the end of the pipes interleave, an   *)
(* adapter is blamed for a signal only if the runner sent none, and for    *)
(* time and size exactly if it exceeded them.                              *)
(***************************************************************************)
THEOREM BlameIsAlwaysJust == Spec => []BlameIsJust
  <1>1. CrossInv => BlameIsJust
    BY DEF CrossInv
  <1>2. QED
    BY <1>1, CrossInvariance, PTL

(***************************************************************************)
(* No adapter and no helper that shares its pipes outlives the invocation. *)
(***************************************************************************)
THEOREM AdaptersStayIsolated == Spec => []AdaptersAreIsolated
  <1>1. CrossInv => AdaptersAreIsolated
    BY DEF CrossInv
  <1>2. QED
    BY <1>1, CrossInvariance, PTL

---------------------------------------------------------------------------
(***************************************************************************)
(* What the runner waits for.  Nothing was received that was not written,  *)
(* and the vector it waits for has been started.                           *)
(***************************************************************************)
WaitInv ==
  /\ GivenUpIsDoomed
  /\ phase = "close" => read <= written[current] /\ child[current] # "none"

\* The runner handles an event, or goes on with its loop.
LEMMA HandleKeepsWait ==
  ASSUME CrossInv, WaitInv, NEW v \in Vectors, Handle(v)
  PROVE  WaitInv'
  <1> USE DEF GivenUpIsDoomed, WaitInv
  <1>1. ProcessTyped /\ RunnerTyped /\ PhaseAgrees
    BY DEF CrossInv
  <1>2. CASE MakeDirectory(v)
    <2>1. /\ phase = "directory" /\ v = current /\ current' = v
          /\ notes' = {} /\ read' = 0 /\ written'[v] \in Nat
      BY <1>1, <1>2 DEF MakeDirectory, PhaseAgrees, ProcessTyped, invocation
    <2>2. child'[v] \in {"running", "failed"}
      BY <1>1, <1>2 DEF MakeDirectory, Spawn, ProcessTyped
    <2>3. QED
      BY <2>1, <2>2
  <1>3. CASE MakeDirectoryFails(v) \/ RemoveDirectory(v) \/ RemoveDirectoryFails(v)
    BY <1>3 DEF MakeDirectoryFails, RemoveDirectory, RemoveDirectoryFails, Report
  <1>4. CASE OnTimeout(v)
    <2>1. v = current /\ current' = v /\ Group(v)' = Group(v)
          /\ UNCHANGED <<read, written, child, phase>> /\ phase = "close"
      BY <1>4 DEF OnTimeout, Awaited, awaited, Group
    <2>2. doomed'[v] = doomed[v] \cup Group(v)
      BY <1>1, <1>4 DEF OnTimeout, Terminate, Kill, ProcessTyped
    <2>3. QED
      BY <2>1, <2>2
  <1>5. CASE OnError(v)
    <2>1. v = current /\ current' = v /\ Group(v)' = Group(v)
          /\ UNCHANGED <<read, written, child, doomed, phase>>
          /\ notes' = notes \cup {"spawnFailure"}
      BY <1>5 DEF OnError, Awaited, awaited, process, Group
    <2>2. notes' \cap {"timeout", "oversize"} = notes \cap {"timeout", "oversize"}
      BY <2>1
    <2>3. QED
      BY <2>1, <2>2
  <1>6. CASE OnData(v)
    <2>1. v = current /\ current' = v /\ Group(v)' = Group(v)
          /\ UNCHANGED <<written, child, phase>> /\ phase = "close"
          /\ read' = written[v] /\ written[v] \in Nat
      BY <1>1, <1>6 DEF OnData, Awaited, awaited, Group, ProcessTyped
    <2>2. CASE written[v] > Limit
      <3>1. doomed'[v] = doomed[v] \cup Group(v)
        BY <1>1, <1>6, <2>2 DEF OnData, Terminate, Kill, ProcessTyped
      <3>2. QED
        BY <2>1, <3>1
    <2>3. CASE ~(written[v] > Limit)
      <3>1. UNCHANGED <<notes, doomed>>
        BY <1>6, <2>3 DEF OnData
      <3>2. QED
        BY <2>1, <3>1
    <2>4. QED
      BY <2>2, <2>3
  <1>7. CASE OnClose(v)
    BY <1>7 DEF OnClose
  <1>8. QED
    BY <1>2, <1>3, <1>4, <1>5, <1>6, <1>7 DEF Handle, DirectoryStep

\* Processes write, end, and start helpers only if they were not signalled.
LEMMA ProcessKeepsWait ==
  ASSUME CrossInv, WaitInv, NEW v \in Vectors, ProcessStep(v),
         UNCHANGED <<awaited, invocation, report>>
  PROVE  WaitInv'
  <1>1. /\ ProcessTyped /\ RunnerTyped
        /\ UNCHANGED <<current, phase, read, notes>>
    BY DEF CrossInv, awaited, invocation
  <1> SUFFICES ASSUME phase = "close"
               PROVE  /\ notes \cap {"timeout", "oversize"} # {}
                           => Group(current)' \subseteq doomed'[current]
                      /\ read <= written'[current] /\ child'[current] # "none"
    BY <1>1 DEF WaitInv, GivenUpIsDoomed, Group
  <1>2. /\ notes \cap {"timeout", "oversize"} # {}
             => Group(current) \subseteq doomed[current]
        /\ read <= written[current] /\ child[current] # "none"
    BY DEF WaitInv, GivenUpIsDoomed
  <1>3. CASE Write(v)
    <2>1. /\ UNCHANGED <<child, helper, doomed>>
          /\ written' = [written EXCEPT ![v] = written[v] + 1]
      BY <1>3 DEF Write
    <2>2. written[current] \in Nat /\ read \in Nat /\ current \in Vectors
          /\ written'[current] \in {written[current], written[current] + 1}
      BY <1>1, <2>1 DEF ProcessTyped, RunnerTyped
    <2>3. read <= written'[current]
      BY <1>2, <2>2
    <2>4. Group(current)' = Group(current)
      BY <1>1, <2>1 DEF Group
    <2>5. QED
      BY <1>2, <2>1, <2>3, <2>4
  <1>4. CASE Fork(v)
    <2>1. /\ UNCHANGED <<child, doomed, written>>
          /\ child[v] = "running" /\ "child" \notin doomed[v]
      BY <1>4 DEF Fork
    <2>2. CASE v = current
      <3>1. "child" \in Group(current)
        BY <2>1, <2>2 DEF Group
      <3>2. QED
        BY <1>2, <2>1, <2>2, <3>1
    <2>3. CASE v # current
      <3>1. helper'[current] = helper[current]
        BY <1>1, <1>4, <2>3 DEF Fork, ProcessTyped, RunnerTyped
      <3>2. Group(current)' = Group(current)
        BY <1>1, <2>1, <3>1 DEF Group
      <3>3. QED
        BY <1>2, <2>1, <3>2
    <2>4. QED
      BY <2>2, <2>3
  <1>5. CASE Exit(v) \/ HelperExit(v) \/ Die(v)
    <2>1. UNCHANGED <<doomed, written>>
      BY <1>5 DEF Exit, HelperExit, Die
    <2>2. child'[current] # "none"
          /\ (child'[current] = "running" => child[current] = "running")
      BY <1>1, <1>2, <1>5 DEF Exit, HelperExit, Die, ProcessTyped, RunnerTyped
    <2>3. helper'[current] \in {helper[current], "dead"}
      BY <1>1, <1>5 DEF Exit, HelperExit, Die, ProcessTyped, RunnerTyped
    <2>4. Group(current)' \subseteq Group(current)
      BY <1>1, <2>2, <2>3 DEF Group
    <2>5. QED
      BY <1>2, <2>1, <2>2, <2>4
  <1>6. QED
    BY <1>3, <1>4, <1>5 DEF ProcessStep

\* What the runner knows of the vector it waits for, in every state.
THEOREM WaitInvariance == Spec => []WaitInv
  <1>1. Init => WaitInv
    BY DEF Init, WaitInv, GivenUpIsDoomed
  <1>2. CrossInv /\ WaitInv /\ [Next]_vars => WaitInv'
    <2> SUFFICES ASSUME CrossInv, WaitInv, [Next]_vars PROVE WaitInv'
      OBVIOUS
    <2>1. CASE UNCHANGED vars
      BY <2>1 DEF vars, process, awaited, invocation, WaitInv,
                  GivenUpIsDoomed, Group
    <2>2. QED
      BY <2>1, HandleKeepsWait, ProcessKeepsWait DEF Next
  <1>3. QED
    BY <1>1, <1>2, CrossInvariance, PTL DEF Spec

(***************************************************************************)
(* Nobody of an adapter's group escapes the signal of its timeout or its   *)
(* output limit, whatever it starts and when: killing the group once is    *)
(* enough (cross-runner.mjs:86-110).                                       *)
(***************************************************************************)
THEOREM GivenUpIsAlwaysDoomed == Spec => []GivenUpIsDoomed
  <1>1. WaitInv => GivenUpIsDoomed
    BY DEF WaitInv
  <1>2. QED
    BY <1>1, WaitInvariance, PTL

(***************************************************************************)
(* The runner never waits for nothing, whatever adapters do, except for a  *)
(* helper outside the group: what liveness needs besides fairness.         *)
(***************************************************************************)
THEOREM SomethingAlwaysComes == Spec => []SomethingComes
  <1>1. CrossInv /\ WaitInv => SomethingComes
    <2> SUFFICES ASSUME CrossInv, WaitInv,
                        phase = "close", "timeout" \in notes,
                        ~(read < written[current]),
                        child[current] = "failed" => "spawnFailure" \in notes,
                        Group(current) \cap doomed[current] = {},
                        helper[current] # "away"
                 PROVE  Closable(current)
      BY DEF SomethingComes, CrossInv, RunnerTyped
    <2>1. /\ Group(current) \subseteq doomed[current]
          /\ read <= written[current] /\ child[current] # "none"
      BY DEF WaitInv, GivenUpIsDoomed
    <2>2. Group(current) = {}
      BY <2>1
    <2>3. child[current] # "running" /\ helper[current] # "attached"
      BY <2>2 DEF Group
    <2>4. read = written[current]
      BY <2>1 DEF CrossInv, RunnerTyped, ProcessTyped
    <2>5. child[current] \in {"failed", "zero", "nonzero", "signal"}
      BY <2>1, <2>3 DEF CrossInv, RunnerTyped, ProcessTyped
    <2>6. QED
      BY <2>3, <2>4, <2>5 DEF Closable, Exited, HoldsPipes
  <1>2. QED
    BY <1>1, CrossInvariance, WaitInvariance, PTL

---------------------------------------------------------------------------
(***************************************************************************)
(* Turns.  Reported are the vectors before the one in flight, and that one *)
(* when all is done; its adapter is there from the moment its directory is.*)
(***************************************************************************)
TurnsAgree ==
  /\ \A v \in Vectors :
       report[v] = "none" <=> v > current \/ (v = current /\ phase # "done")
  /\ phase \in {"close", "removal"} => child[current] # "none"

StartedVectors == {v \in Vectors : child[v] # "none"}
Turnless == UNCHANGED <<StartedVectors, report>> /\ (phase = "done" <=> phase' = "done")

\* The report of the vector in flight is the report of its turn.
LEMMA ReportIsReport ==
  ASSUME CrossInv, TurnsAgree, NEW v \in Vectors, v = current,
         phase \in {"directory", "removal"},
         NEW result \in HarnessErrors \cup {"PASS", "FAIL"},
         result \in {"PASS", "FAIL"} => phase = "removal",
         Report(v, result), UNCHANGED process
  PROVE  Reports!Next /\ TurnsAgree'
  <1> DEFINE verdict == IF result \in HarnessErrors THEN "ERROR" ELSE result
  <1>1. /\ report' = [report EXCEPT ![v] = verdict]
        /\ verdict \in {"PASS", "FAIL", "ERROR"}
        /\ verdict # "ERROR" => phase = "removal"
        /\ child' = child
    BY DEF Report, process
  <1>2. /\ v \in 1..Last /\ Last \in Nat
        /\ v < Last => current' = v + 1 /\ phase' = "directory"
        /\ ~(v < Last) => v = Last /\ current' = v /\ phase' = "done"
        /\ report \in [Vectors -> {"none", "PASS", "FAIL", "ERROR"}]
    BY LastAssumption DEF Report, Vectors, CrossInv, RunnerTyped
  <1> HIDE DEF verdict
  <1>3. Reports!Turn(v)
    BY <1>2 DEF TurnsAgree, Vectors, Reports!Turn, Reports!Vectors
  <1>4. Reports!Report(v, verdict)
    BY <1>1, <1>2, <1>3 DEF Reports!Report, TurnsAgree
  <1>5. Reports!Next
    BY <1>1, <1>4 DEF Reports!Next, Reports!Vectors, Vectors
  <1>6. \A w \in Vectors : report'[w] = IF w = v THEN verdict ELSE report[w]
    BY <1>1, <1>2
  <1>7. TurnsAgree'
    <2>1. CASE v < Last
      BY <1>1, <1>2, <1>6, <2>1 DEF TurnsAgree, Vectors
    <2>2. CASE ~(v < Last)
      BY <1>1, <1>2, <1>6, <2>2 DEF TurnsAgree, Vectors
    <2>3. QED
      BY <2>1, <2>2
  <1>8. QED
    BY <1>5, <1>7

\* The directory is made and the adapter started, or the vector is reported.
LEMMA DirectoryStepKeepsTurns ==
  ASSUME CrossInv, TurnsAgree, NEW v \in Vectors, DirectoryStep(v)
  PROVE  Reports!Next /\ TurnsAgree'
  <1>1. CASE MakeDirectory(v)
    <2>1. PICK how \in {"running", "failed"} : child' = [child EXCEPT ![v] = how]
      BY <1>1 DEF MakeDirectory, Spawn
    <2>2. /\ v = current /\ phase = "directory" /\ phase' = "close"
          /\ UNCHANGED <<current, report>>
          /\ child[v] = "none" /\ v \in 1..Last /\ Last \in Nat
          /\ \A w \in Vectors : child'[w] = IF w = v THEN how ELSE child[w]
      BY <1>1, <2>1, LastAssumption
         DEF MakeDirectory, CrossInv, NotBegun, ProcessTyped, Vectors
    <2>3. {w \in Vectors : child'[w] # "none"}
            = {w \in Vectors : child[w] # "none"} \cup {v}
      BY <2>2
    <2>4. Reports!Turn(v)
      BY <2>2 DEF TurnsAgree, Vectors, Reports!Turn, Reports!Vectors
    <2>5. Reports!Start(v)
      BY <2>2, <2>3, <2>4 DEF Reports!Start
    <2>6. TurnsAgree'
      BY <2>2 DEF TurnsAgree
    <2>7. QED
      BY <2>5, <2>6 DEF Reports!Next, Reports!Vectors, Vectors
  <1>2. CASE MakeDirectoryFails(v) \/ RemoveDirectoryFails(v)
    BY <1>2, ReportIsReport
       DEF MakeDirectoryFails, RemoveDirectoryFails, HarnessErrors
  <1>3. CASE RemoveDirectory(v)
    <2>1. outcome \in HarnessErrors \cup {"PASS", "FAIL"}
      BY <1>3 DEF RemoveDirectory, CrossInv, RunnerTyped, PhaseAgrees
    <2>2. QED
      BY <1>3, <2>1, ReportIsReport DEF RemoveDirectory
  <1>4. QED
    BY <1>1, <1>2, <1>3 DEF DirectoryStep

\* What processes do by themselves starts nothing.
LEMMA ProcessesStartNothing ==
  ASSUME CrossInv, NEW v \in Vectors, ProcessStep(v)
  PROVE  \A w \in Vectors : child'[w] # "none" <=> child[w] # "none"
  <1>1. CASE child' = child
    BY <1>1
  <1>2. ASSUME child[v] = "running",
               NEW how \in {"zero", "nonzero", "signal"},
               child' = [child EXCEPT ![v] = how]
        PROVE  \A w \in Vectors : child'[w] # "none" <=> child[w] # "none"
    BY <1>2 DEF CrossInv, ProcessTyped
  <1>3. QED
    BY <1>1, <1>2 DEF ProcessStep, Write, Fork, Exit, HelperExit, Die

\* Nothing but directory steps takes a turn.
LEMMA OthersTakeNoTurn ==
  ASSUME CrossInv, TurnsAgree, NEW v \in Vectors,
         \/ OnTimeout(v) \/ OnError(v) \/ OnData(v) \/ OnClose(v)
         \/ ProcessStep(v) /\ UNCHANGED <<awaited, invocation, report>>
  PROVE  Turnless /\ TurnsAgree'
  <1>1. \A w \in Vectors : child'[w] # "none" <=> child[w] # "none"
    BY ProcessesStartNothing DEF OnTimeout, OnError, OnData, OnClose, process
  <1>2. /\ UNCHANGED <<current, report>>
        /\ phase' = phase \/ (phase = "close" /\ phase' = "removal")
    BY DEF OnTimeout, OnError, OnData, OnClose, Awaited, awaited
  <1>3. Turnless
    BY <1>1, <1>2 DEF Turnless, StartedVectors
  <1>4. TurnsAgree'
    BY <1>1, <1>2 DEF TurnsAgree, CrossInv, RunnerTyped
  <1>5. QED
    BY <1>3, <1>4

(***************************************************************************)
(* The cross-language runner keeps turns, and it is the same promise the   *)
(* plain runner keeps: whatever timers, output, exits, failing directories *)
(* and helpers do, adapters are started once, in their order, each after   *)
(* the report before, and without an adapter only ERROR is reported.       *)
(***************************************************************************)
THEOREM CrossKeepsTurns == Spec => KeepsTurns
  <1>1. Init => TurnsAgree
    BY LastAssumption DEF Init, ProcessInit, TurnsAgree, Vectors
  <1>2. Init => Reports!Init
    BY DEF Init, ProcessInit, Reports!Init, Reports!Vectors, Vectors
  <1>3. Turnless => UNCHANGED Reports!rvars
    BY DEF Turnless, StartedVectors, Reports!rvars
  <1>4. CrossInv /\ TurnsAgree /\ [Next]_vars
          => TurnsAgree' /\ [Reports!Next]_Reports!rvars
    <2> SUFFICES ASSUME CrossInv, TurnsAgree, [Next]_vars
                 PROVE  TurnsAgree' /\ (Reports!Next \/ Turnless)
      BY <1>3
    <2>1. CASE UNCHANGED vars
      BY <2>1 DEF vars, process, awaited, TurnsAgree, Turnless, StartedVectors
    <2>2. QED
      BY <2>1, DirectoryStepKeepsTurns, OthersTakeNoTurn DEF Next, Handle
  <1>5. QED
    BY <1>1, <1>2, <1>4, CrossInvariance, PTL
       DEF Spec, KeepsTurns, Reports!Spec

---------------------------------------------------------------------------
(***************************************************************************)
(* The inputs.  Which file a step of the verification is about, and after  *)
(* which step the digest that is reported has been taken.                  *)
(***************************************************************************)
\* There are eighteen steps.
LEMMA VerificationLength == Len(Verification) = 18
  BY DEF Verification

\* Which steps each kind of handler takes, and for which file.
LEMMA StepsInOrder ==
  ASSUME at \in Nat \ {0}, NEW step, NEW f, Doing(step, f)
  PROVE  /\ at \in 1..18
         /\ step = "look" => at \in {1, 7, 10, 13, 14}
         /\ step = "digest" =>
              <<at, f>> \in {<<2, "archive">>, <<3, "archive">>,
                             <<8, "projection">>, <<11, "proof">>,
                             <<17, "adapter">>, <<18, "runner">>}
         /\ step = "extract" => at = 4
         /\ step = "inspect" => at = 5
         /\ step = "reproduce" => at = 6
         /\ step = "load" =>
              <<at, f>> \in {<<9, "projection">>, <<12, "proof">>,
                             <<15, "bundle">>}
         /\ step = "compare" => at = 16
  <1>1. at \in 1..18 /\ Verification[at] = <<step, f>>
    BY VerificationLength DEF Doing
  <1>2. CASE at \in 1..6
    BY <1>1, <1>2 DEF Verification
  <1>3. CASE at \in 7..12
    BY <1>1, <1>3 DEF Verification
  <1>4. CASE at \in 13..18
    BY <1>1, <1>4 DEF Verification
  <1>5. QED
    BY <1>1, <1>2, <1>3, <1>4

\* The last step that takes the digest of a file.
NamedBy(f) == CASE f = "archive"    -> 3
                [] f = "projection" -> 8
                [] f = "proof"      -> 11
                [] f = "bundle"     -> 15
                [] f = "adapter"    -> 17
                [] f = "runner"     -> 18

InputsTyped ==
  /\ disk \in [InputFiles -> FileContents]
  /\ loaded \in {"accepted", "other"}
  /\ at \in 1..19
  /\ exit \in {"none", "0", "1", "2"}
  /\ tree \in {"none", "accepted", "alike", "other"}
  /\ named \in [InputFiles -> {"none", "accepted", "other"}]
  /\ rows \in Seq([ran : FileContents, result : {"PASS", "FAIL"}])
  /\ changed \subseteq InputFiles
  /\ changes \in Nat

\* A name is of what is in the file, until somebody changes it.
NamesAgree ==
  /\ \A f \in InputFiles :
       at > NamedBy(f) =>
         /\ named[f] \in {"accepted", "other"}
         /\ f \in Pinned => named[f] = "accepted"
         /\ f \notin changed \cup {"runner"} => disk[f] = named[f]
  /\ "runner" \notin changed =>
       disk["runner"] = loaded /\ (at > 18 => named["runner"] = loaded)

\* What is used later was made from what was named.
UsesAgree ==
  /\ (exit = "2" \/ at \notin {5, 6}) => tree = "none"
  /\ at > 6 => records = "accepted"
  /\ at > 9 /\ "projection" \notin changed => expected = "accepted"

RowsAgree ==
  /\ rows # <<>> => at = 19
  /\ Len(rows) <= VectorCount
  /\ \A i \in 1..Len(rows) :
       /\ "adapter" \notin changed => rows[i].ran = named["adapter"]
       /\ rows[i].result = "PASS" => rows[i].ran # "absent"
  /\ exit \in {"0", "1"} => Len(rows) = VectorCount
  /\ exit = "0" => \A i \in 1..Len(rows) : rows[i].result = "PASS"
  /\ exit = "2" => at \in 1..18

\* Over accepted files nobody touched only the processes may fail.
Untouched == changes = 0 /\ \A f \in InputFiles : disk[f] = "accepted"

UntouchedAgree ==
  /\ changes = 0 => changed = {}
  /\ Untouched => tree \in {"none", "accepted"}
  /\ Untouched /\ exit = "2" => at \in {4, 6}

InputsInv ==
  InputsTyped /\ NamesAgree /\ UsesAgree /\ RowsAgree /\ UntouchedAgree

\* A step that ends the command leaves everything as it was.
LEMMA RefuseStep ==
  ASSUME InputsInv, at \in 1..18, exit = "none", Refuse,
         UNCHANGED <<disk, loaded, records, expected, named, rows, changed,
                     changes>>,
         Untouched => at \in {4, 6}
  PROVE  InputsInv'
  BY DEF InputsInv, InputsTyped, NamesAgree, UsesAgree, RowsAgree,
         UntouchedAgree, Untouched, Refuse

\* A look settles nothing but that there is a regular file.
LEMMA LookAtStep ==
  ASSUME InputsInv, NEW f \in InputFiles, LookAt(f)
  PROVE  InputsInv'
  <1>1. at \in {1, 7, 10, 13, 14} /\ exit = "none"
    BY StepsInOrder DEF InputsInv, InputsTyped, LookAt, Doing
  <1>2. UNCHANGED <<disk, loaded, records, expected, named, rows, changed,
                    changes>>
    BY DEF LookAt
  <1>3. CASE disk[f] = "absent" /\ Refuse
    BY <1>1, <1>2, <1>3, RefuseStep DEF Untouched
  <1>4. CASE Proceed /\ UNCHANGED tree
    BY <1>1, <1>2, <1>4
       DEF InputsInv, InputsTyped, NamesAgree, UsesAgree, RowsAgree,
           UntouchedAgree, Untouched, Proceed, NamedBy, InputFiles, Pinned
  <1>5. QED
    BY <1>3, <1>4 DEF LookAt

\* A digest names what is in the file then, and forgets older changes.
LEMMA TakeDigestStep ==
  ASSUME InputsInv, NEW f \in InputFiles, TakeDigest(f)
  PROVE  InputsInv'
  <1>1. /\ <<at, f>> \in {<<2, "archive">>, <<3, "archive">>,
                          <<8, "projection">>, <<11, "proof">>,
                          <<17, "adapter">>, <<18, "runner">>}
        /\ exit = "none"
    <2>1. Doing("digest", f) /\ at \in Nat \ {0}
      BY DEF InputsInv, InputsTyped, TakeDigest
    <2>2. exit = "none"
      BY <2>1 DEF Doing
    <2>3. QED
      BY <2>1, <2>2, StepsInOrder
  <1>2. UNCHANGED <<disk, loaded, records, expected, rows, changes>>
    BY DEF TakeDigest
  <1>3. CASE ~DigestAccepted(f)
    BY <1>1, <1>2, <1>3, RefuseStep
       DEF TakeDigest, DigestAccepted, Untouched
  <1>4. CASE DigestAccepted(f)
    <2>1. /\ disk[f] \in {"accepted", "other"}
          /\ f \in Pinned => disk[f] = "accepted"
      BY <1>4 DEF DigestAccepted, InputsInv, InputsTyped, FileContents
    <2>2. /\ at' = at + 1 /\ UNCHANGED <<exit, tree>>
          /\ named' = [named EXCEPT ![f] = disk[f]]
          /\ changed' = changed \ ({f} \ {"runner"})
      BY <1>4 DEF TakeDigest, Proceed, Named
    <2>3. NamesAgree'
      BY <1>1, <1>2, <2>1, <2>2
         DEF InputsInv, InputsTyped, NamesAgree, NamedBy, InputFiles, Pinned
    <2>4. UsesAgree'
      BY <1>1, <1>2, <2>1, <2>2 DEF InputsInv, InputsTyped, UsesAgree
    <2>5. RowsAgree'
      BY <1>1, <1>2, <2>1, <2>2 DEF InputsInv, InputsTyped, RowsAgree
    <2>6. QED
      BY <1>1, <1>2, <2>1, <2>2, <2>3, <2>4, <2>5
         DEF InputsInv, InputsTyped, UntouchedAgree, Untouched
  <1>5. QED
    BY <1>3, <1>4

\* The archive, its tree, and the projections that come of both.
LEMMA ArchiveStep ==
  ASSUME InputsInv, ExtractArchive \/ InspectTree \/ Reproduce \/ Compare
  PROVE  InputsInv'
  <1>1. UNCHANGED <<disk, loaded, expected, named, rows, changed, changes>>
    BY DEF ExtractArchive, InspectTree, Reproduce, Compare
  <1>2. ASSUME ExtractArchive PROVE InputsInv'
    <2>1. at = 4 /\ exit = "none" /\ UNCHANGED records
      <3>1. Doing("extract", "archive")
        BY <1>2 DEF ExtractArchive
      <3>2. at = 4
        BY <3>1, StepsInOrder DEF InputsInv, InputsTyped
      <3>3. QED
        BY <1>2, <3>1, <3>2 DEF Doing, ExtractArchive
    <2>2. CASE Refuse
      BY <1>1, <2>1, <2>2, RefuseStep
    <2>3. CASE Proceed /\ ~Refuse
      BY <1>1, <1>2, <2>1, <2>3
         DEF ExtractArchive, InputsInv, InputsTyped, NamesAgree, UsesAgree,
             RowsAgree, UntouchedAgree, Untouched, Proceed, NamedBy,
             InputFiles, Pinned
    <2>4. QED
      BY <1>2, <2>2, <2>3 DEF ExtractArchive
  <1>3. ASSUME InspectTree PROVE InputsInv'
    <2>1. at = 5 /\ exit = "none" /\ UNCHANGED records
      <3>1. Doing("inspect", "archive")
        BY <1>3 DEF InspectTree
      <3>2. at = 5
        BY <3>1, StepsInOrder DEF InputsInv, InputsTyped
      <3>3. QED
        BY <1>3, <3>1, <3>2 DEF Doing, InspectTree
    <2>2. CASE tree = "other"
      BY <1>1, <1>3, <2>1, <2>2, RefuseStep
         DEF InspectTree, InputsInv, UntouchedAgree
    <2>3. CASE tree # "other"
      BY <1>1, <1>3, <2>1, <2>3
         DEF InspectTree, InputsInv, InputsTyped, NamesAgree, UsesAgree,
             RowsAgree, UntouchedAgree, Untouched, Proceed, NamedBy,
             InputFiles, Pinned
    <2>4. QED
      BY <2>2, <2>3
  <1>4. ASSUME Reproduce PROVE InputsInv'
    <2>1. at = 6 /\ exit = "none"
      <3>1. Doing("reproduce", "archive")
        BY <1>4 DEF Reproduce
      <3>2. at = 6
        BY <3>1, StepsInOrder DEF InputsInv, InputsTyped
      <3>3. QED
        BY <1>4, <3>1, <3>2 DEF Doing, Reproduce
    <2>2. CASE Refuse /\ UNCHANGED records
      BY <1>1, <2>1, <2>2, RefuseStep
    <2>3. CASE Proceed /\ tree' = "none" /\ records' = "accepted"
      BY <1>1, <2>1, <2>3
         DEF InputsInv, InputsTyped, NamesAgree, UsesAgree,
             RowsAgree, UntouchedAgree, Untouched, Proceed, NamedBy,
             InputFiles, Pinned
    <2>4. QED
      BY <1>4, <2>2, <2>3 DEF Reproduce, OutputAccepted
  <1>5. ASSUME Compare PROVE InputsInv'
    <2>1. at = 16 /\ exit = "none" /\ UNCHANGED records
      <3>1. Doing("compare", "projection")
        BY <1>5 DEF Compare
      <3>2. at = 16
        BY <3>1, StepsInOrder DEF InputsInv, InputsTyped
      <3>3. QED
        BY <1>5, <3>1, <3>2 DEF Doing, Compare
    <2>2. CASE expected # "accepted" /\ Refuse
      BY <1>1, <2>1, <2>2, RefuseStep
         DEF InputsInv, UsesAgree, UntouchedAgree, Untouched
    <2>3. CASE Proceed /\ UNCHANGED tree
      BY <1>1, <2>1, <2>3
         DEF InputsInv, InputsTyped, NamesAgree, UsesAgree,
             RowsAgree, UntouchedAgree, Untouched, Proceed, NamedBy,
             InputFiles, Pinned
    <2>4. QED
      BY <1>5, <2>2, <2>3 DEF Compare
  <1>6. QED
    BY <1>2, <1>3, <1>4, <1>5

\* Of what is loaded, the bundle alone is named by what was read.
LEMMA LoadStep ==
  ASSUME InputsInv, NEW f \in InputFiles, Load(f)
  PROVE  InputsInv'
  <1>1. /\ <<at, f>> \in {<<9, "projection">>, <<12, "proof">>,
                          <<15, "bundle">>}
        /\ exit = "none"
    <2>1. Doing("load", f) /\ at \in Nat \ {0}
      BY DEF InputsInv, InputsTyped, Load
    <2>2. exit = "none"
      BY <2>1 DEF Doing
    <2>3. QED
      BY <2>1, <2>2, StepsInOrder
  <1>2. UNCHANGED <<disk, loaded, records, rows, changes>>
    BY DEF Load
  <1>3. CASE disk[f] # "accepted" /\ Refuse
               /\ UNCHANGED <<expected, named, changed>>
    BY <1>1, <1>2, <1>3, RefuseStep DEF Untouched
  <1>4. CASE /\ disk[f] # "absent" /\ Proceed /\ UNCHANGED tree
             /\ expected' = IF f = "projection" THEN disk[f] ELSE expected
             /\ IF f = "bundle" THEN Named(f) ELSE UNCHANGED <<named, changed>>
    <2>1. disk[f] \in {"accepted", "other"}
      BY <1>4 DEF InputsInv, InputsTyped, FileContents
    <2>2. /\ at' = at + 1 /\ UNCHANGED <<exit, tree>>
          /\ named' = IF f = "bundle" THEN [named EXCEPT ![f] = disk[f]]
                                      ELSE named
          /\ changed' = IF f = "bundle" THEN changed \ {f} ELSE changed
      BY <1>4 DEF Proceed, Named
    <2>3. NamesAgree'
      BY <1>1, <1>2, <2>1, <2>2
         DEF InputsInv, InputsTyped, NamesAgree, NamedBy, InputFiles, Pinned
    <2>4. UsesAgree'
      BY <1>1, <1>2, <1>4, <2>1, <2>2
         DEF InputsInv, InputsTyped, UsesAgree, NamesAgree, NamedBy,
             InputFiles, Pinned
    <2>5. RowsAgree'
      BY <1>1, <1>2, <2>1, <2>2 DEF InputsInv, InputsTyped, RowsAgree
    <2>6. QED
      BY <1>1, <1>2, <2>1, <2>2, <2>3, <2>4, <2>5
         DEF InputsInv, InputsTyped, UntouchedAgree, Untouched
  <1>5. QED
    BY <1>3, <1>4 DEF Load

\* The adapter that is started is the one named, unless it was changed.
LEMMA InvokeStep ==
  ASSUME InputsInv, Invoke
  PROVE  InputsInv'
  <1>1. /\ at = 19 /\ exit = "none" /\ Len(rows) < VectorCount
        /\ UNCHANGED <<disk, loaded, at, exit, tree, records, expected, named,
                       changed, changes>>
    BY VerificationLength DEF Invoke, InputsInv, InputsTyped
  <1>2. PICK row \in [ran : FileContents, result : {"PASS", "FAIL"}] :
          /\ rows' = Append(rows, row)
          /\ row.ran = disk["adapter"]
          /\ row.result = "PASS" => row.ran # "absent"
    BY DEF Invoke, InputsInv, InputsTyped, InputFiles, Pinned
  <1>3. "adapter" \notin changed => disk["adapter"] = named["adapter"]
    BY <1>1 DEF InputsInv, NamesAgree, NamedBy, InputFiles, Pinned
  <1>4. /\ Len(rows') = Len(rows) + 1
        /\ \A i \in 1..Len(rows') :
              rows'[i] = IF i = Len(rows) + 1 THEN row ELSE rows[i]
        /\ rows' \in Seq([ran : FileContents, result : {"PASS", "FAIL"}])
    BY <1>2 DEF InputsInv, InputsTyped
  <1>5. RowsAgree'
    BY <1>1, <1>2, <1>3, <1>4, VectorAssumption
       DEF InputsInv, InputsTyped, RowsAgree
  <1>6. QED
    BY <1>1, <1>4, <1>5
       DEF InputsInv, InputsTyped, NamesAgree, UsesAgree, UntouchedAgree,
           Untouched

\* All rows are written, and the exit status says whether all pass.
LEMMA WriteRowsStep ==
  ASSUME InputsInv, WriteRows
  PROVE  InputsInv'
  <1>1. rows # <<>> /\ at = 19
    BY VectorAssumption DEF WriteRows, InputsInv, InputsTyped, RowsAgree
  <1>2. RowsAgree'
    BY <1>1 DEF WriteRows, InputsInv, InputsTyped, RowsAgree
  <1>3. QED
    BY <1>1, <1>2
       DEF WriteRows, InputsInv, InputsTyped, NamesAgree, UsesAgree,
           UntouchedAgree, Untouched

\* A change spares what was named but shows in what was changed.
LEMMA ChangeFileStep ==
  ASSUME InputsInv, NEW f \in InputFiles, ChangeFile(f)
  PROVE  InputsInv'
  <1>1. /\ changed' = changed \cup {f} /\ changes' = changes + 1
        /\ exit = "none"
        /\ UNCHANGED <<loaded, at, exit, tree, records, expected, named, rows>>
        /\ disk' \in [InputFiles -> FileContents]
        /\ \A g \in InputFiles \ {f} : disk'[g] = disk[g]
    BY DEF ChangeFile, InputsInv, InputsTyped
  <1>2. NamesAgree'
    BY <1>1 DEF InputsInv, InputsTyped, NamesAgree, InputFiles
  <1>3. QED
    BY <1>1, <1>2
       DEF InputsInv, InputsTyped, UsesAgree, RowsAgree, UntouchedAgree,
           Untouched

\* However files are changed meanwhile, what is named, used and reported
\* agrees.
THEOREM InputsInvariance == InputsSpec => []InputsInv
  <1>1. InputsInit => InputsInv
    BY VectorAssumption
       DEF InputsInit, InputsInv, InputsTyped, NamesAgree, UsesAgree, RowsAgree,
           UntouchedAgree, Untouched, NamedBy, InputFiles, Pinned, FileContents
  <1>2. InputsInv /\ [InputsNext]_inputVars => InputsInv'
    <2>1. InputsInv /\ UNCHANGED inputVars => InputsInv'
      BY DEF inputVars, InputsInv, InputsTyped, NamesAgree, UsesAgree,
             RowsAgree, UntouchedAgree, Untouched
    <2>2. QED
      BY <2>1, LookAtStep, TakeDigestStep, ArchiveStep, LoadStep, InvokeStep,
         WriteRowsStep, ChangeFileStep DEF InputsNext
  <1>3. QED
    BY <1>1, <1>2, PTL DEF InputsSpec

(***************************************************************************)
(* Every row the command reports names the adapter that ran and the        *)
(* projections it was compared with, unless they were changed after their  *)
(* digest was taken; the reference records are the accepted ones whatever  *)
(* is done to the archive.                                                 *)
(***************************************************************************)
THEOREM RowsNameInputs == InputsSpec => []RowsNameTheirInputs
  <1>1. InputsInv => RowsNameTheirInputs
    <2> SUFFICES ASSUME InputsInv PROVE RowsNameTheirInputs
      OBVIOUS
    <2>1. rows # <<>> =>
            /\ records = "accepted" /\ tree = "none"
            /\ expected = "accepted" \/ "projection" \in changed
            /\ \A f \in Pinned : named[f] = "accepted"
            /\ \A f \in InputFiles : named[f] \in {"accepted", "other"}
            /\ "runner" \notin changed => named["runner"] = loaded
      BY DEF InputsInv, InputsTyped, NamesAgree, UsesAgree, RowsAgree, NamedBy,
             InputFiles, Pinned
    <2>2. DOMAIN rows = 1..Len(rows)
      BY DEF InputsInv, InputsTyped
    <2>3. "adapter" \notin changed =>
            \A i \in DOMAIN rows : rows[i].ran = named["adapter"]
      BY <2>2 DEF InputsInv, RowsAgree
    <2>4. exit # "none" =>
            tree = "none" /\ ((exit = "2") <=> (Len(rows) < VectorCount))
      BY VectorAssumption DEF InputsInv, InputsTyped, UsesAgree, RowsAgree
    <2>5. exit = "0" => \A i \in DOMAIN rows : rows[i].ran # "absent"
      BY <2>2 DEF InputsInv, RowsAgree
    <2>6. Untouched /\ exit = "2" =>
            Verification[at][1] \in {"extract", "reproduce"}
      BY DEF InputsInv, UntouchedAgree, Verification
    <2>7. QED
      BY <2>1, <2>3, <2>4, <2>5, <2>6 DEF RowsNameTheirInputs, Untouched
  <1>2. QED
    BY <1>1, InputsInvariance, PTL
=============================================================================
