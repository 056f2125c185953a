------------------------- MODULE CrossConformance -------------------------
(***************************************************************************)
(* The cross-language conformance runner.  Each adapter gets a process     *)
(* group and an empty directory of its own; the timer and the output limit *)
(* kill the whole group and only take a note, and nothing but the close of *)
(* the pipes settles an invocation.  Making and removing the directory     *)
(* await, so that other events come in between.                            *)
(***************************************************************************)
EXTENDS AdapterProcess

VARIABLES
  current,     \* the vector in flight, or the last one
  phase,       \* what the runner awaits: "directory", "close", "removal"
  read,        \* how much of the output in flight was received
  notes,       \* notes taken of the invocation in flight
  outcome,     \* how it was settled, while its directory is removed
  report       \* "PASS", "FAIL", or "ERROR" for any harness error

awaited    == <<current, phase>>
invocation == <<read, notes, outcome>>
vars       == <<process, awaited, invocation, report>>

Init ==
  /\ ProcessInit
  /\ current = 1
  /\ phase = "directory"
  /\ read = 0 /\ notes = {} /\ outcome = "none"
  /\ report = [v \in Vectors |-> "none"]

---------------------------------------------------------------------------
HarnessErrors ==
  { "ADAPTER_TIMEOUT", "ADAPTER_OUTPUT_LIMIT", "ADAPTER_SPAWN_FAILED",
    "ADAPTER_SIGNAL", "ADAPTER_NONZERO", "ADAPTER_STDERR",
    "ADAPTER_PROTOCOL_INVALID" }

(***************************************************************************)
(* The continuations of the loop over the vectors.  What is known of an    *)
(* invocation is forgotten with it.                                        *)
(***************************************************************************)
Report(v, result) ==
  /\ report' = [report EXCEPT ![v] =
                   IF result \in HarnessErrors THEN "ERROR" ELSE result]
  /\ IF v < Last THEN current' = v + 1 /\ phase' = "directory"
                 ELSE phase' = "done" /\ UNCHANGED current
  /\ read' = 0 /\ notes' = {} /\ outcome' = "none"

MakeDirectory(v) ==
  /\ phase = "directory" /\ v = current
  /\ phase' = "close"
  /\ Spawn(v)
  /\ UNCHANGED <<helper, doomed, output, written>>
  /\ UNCHANGED <<current, invocation, report>>

MakeDirectoryFails(v) ==
  /\ phase = "directory" /\ v = current
  /\ Report(v, "ADAPTER_PROTOCOL_INVALID")
  /\ UNCHANGED process

RemoveDirectory(v) ==
  /\ phase = "removal" /\ v = current
  /\ Report(v, outcome)
  /\ UNCHANGED process

\* What an adapter left there can make the removal fail, and that error
\* replaces what was returned.
RemoveDirectoryFails(v) ==
  /\ phase = "removal" /\ v = current
  /\ Report(v, "ADAPTER_PROTOCOL_INVALID")
  /\ UNCHANGED process

---------------------------------------------------------------------------
(***************************************************************************)
(* The events of an invocation.                                            *)
(***************************************************************************)
Awaited(v) == phase = "close" /\ v = current

Terminate_ChildOnly(v) == Kill(v, Group(v) \cap {"child"})

\* The group is signalled through the id of its first member, which serves
\* as long as any member lives.
Terminate(v) == Kill(v, Group(v))

OnTimeout(v) ==
  /\ Awaited(v)
  /\ "timeout" \notin notes
  /\ notes' = notes \cup {"timeout"}
  /\ Terminate(v)
  /\ UNCHANGED <<child, helper, output, written>>
  /\ UNCHANGED <<awaited, read, outcome, report>>

OnError(v) ==
  /\ Awaited(v)
  /\ child[v] = "failed"
  /\ notes' = notes \cup {"spawnFailure"}
  /\ UNCHANGED <<process, awaited, read, outcome, report>>

OnData(v) ==
  /\ Awaited(v)
  /\ read < written[v]
  /\ read' = written[v]
  /\ IF written[v] > Limit
     THEN notes' = notes \cup {"oversize"} /\ Terminate(v)
     ELSE UNCHANGED <<notes, doomed>>
  /\ UNCHANGED <<child, helper, output, written>>
  /\ UNCHANGED <<awaited, outcome, report>>

\* The close event follows the exit or the error, and the end of both pipes.
Closable_OnExit(v) == Exited(v) \/ "spawnFailure" \in notes

Closable(v) ==
  /\ Exited(v) \/ "spawnFailure" \in notes
  /\ ~HoldsPipes(v)
  /\ read = written[v]

\* An answer is compared with the baseline; whatever else is an answer of
\* the protocol with other values, or none at all.
Answers(v) ==
  CASE output[v] = "noise"      -> {"ADAPTER_STDERR"}
    [] output[v] = "answer"     -> {"PASS"}
    [] output[v] = "unfinished" -> {"ADAPTER_PROTOCOL_INVALID"}
    [] output[v] = "other"      -> {"FAIL", "ADAPTER_PROTOCOL_INVALID"}

Outcomes_SignalFirst(v) ==
  IF child[v] = "signal" THEN {"ADAPTER_SIGNAL"}
  ELSE IF "timeout" \in notes THEN {"ADAPTER_TIMEOUT"}
  ELSE IF "oversize" \in notes THEN {"ADAPTER_OUTPUT_LIMIT"}
  ELSE IF "spawnFailure" \in notes THEN {"ADAPTER_SPAWN_FAILED"}
  ELSE IF child[v] = "nonzero" THEN {"ADAPTER_NONZERO"}
  ELSE Answers(v)

\* In this order: what the runner did comes before what the adapter did.
Outcomes(v) ==
  IF "timeout" \in notes THEN {"ADAPTER_TIMEOUT"}
  ELSE IF "oversize" \in notes THEN {"ADAPTER_OUTPUT_LIMIT"}
  ELSE IF "spawnFailure" \in notes THEN {"ADAPTER_SPAWN_FAILED"}
  ELSE IF child[v] = "signal" THEN {"ADAPTER_SIGNAL"}
  ELSE IF child[v] = "nonzero" THEN {"ADAPTER_NONZERO"}
  ELSE Answers(v)

OnClose(v) ==
  /\ Awaited(v)
  /\ Closable(v)
  /\ outcome' \in Outcomes(v)
  /\ phase' = "removal"
  /\ UNCHANGED <<process, current, read, notes, report>>

DirectoryStep(v) ==
  \/ MakeDirectory(v) \/ MakeDirectoryFails(v)
  \/ RemoveDirectory(v) \/ RemoveDirectoryFails(v)

Handle(v) ==
  DirectoryStep(v) \/ OnTimeout(v) \/ OnError(v) \/ OnData(v) \/ OnClose(v)

Next ==
  \E v \in Vectors :
    \/ Handle(v)
    \/ ProcessStep(v) /\ UNCHANGED <<awaited, invocation, report>>

(***************************************************************************)
(* The runner handles its events, its timers expire, and a signal that was *)
(* sent ends its process.  Nothing else is asked of adapters.              *)
(***************************************************************************)
Fairness ==
  /\ WF_vars(\E v \in Vectors : DirectoryStep(v))
  /\ WF_vars(\E v \in Vectors : OnTimeout(v))
  /\ WF_vars(\E v \in Vectors : OnError(v))
  /\ WF_vars(\E v \in Vectors : OnData(v))
  /\ WF_vars(\E v \in Vectors : OnClose(v))
  /\ \A v \in Vectors :
       WF_vars(Die(v) /\ UNCHANGED <<awaited, invocation, report>>)

Spec == Init /\ [][Next]_vars /\ Fairness

---------------------------------------------------------------------------
(***************************************************************************)
(* Blame is just: an adapter is said to have died of a signal only if the  *)
(* runner sent none, and to have timed out or to have exceeded the limit   *)
(* if and only if it did.                                                  *)
(***************************************************************************)
BlameIsJust ==
  outcome # "none" =>
    /\ outcome = "ADAPTER_SIGNAL"
         => child[current] = "signal" /\ doomed[current] = {}
    /\ outcome = "ADAPTER_TIMEOUT" <=> "timeout" \in notes
    /\ outcome = "ADAPTER_OUTPUT_LIMIT"
         <=> written[current] > Limit /\ "timeout" \notin notes

(***************************************************************************)
(* Adapters are isolated from each other: whoever holds the pipes of an    *)
(* adapter belongs to the vector in flight, and its directory is not being *)
(* removed under it.                                                       *)
(***************************************************************************)
AdaptersAreIsolated ==
  \A v \in Vectors :
    HoldsPipes(v) => v = current /\ phase = "close"

(***************************************************************************)
(* Termination reaches the group: once an adapter has timed out or has     *)
(* exceeded the output limit, no process of its group stays alive.         *)
(***************************************************************************)
TerminationReachesGroup ==
  \A v \in Vectors :
    v = current /\ notes \cap {"timeout", "oversize"} # {} ~> Group(v) = {}

(***************************************************************************)
(* Every vector is reported, unless a helper outside the group keeps the   *)
(* pipes of its adapter for ever.                                          *)
(***************************************************************************)
EveryVectorIsReported ==
  \/ <>(phase = "done")
  \/ \E v \in Vectors : <>[](helper[v] = "away")

(***************************************************************************)
(* What TerminationReachesGroup rests on, without fairness: whoever is     *)
(* left in the group of an adapter that was given up has been signalled,   *)
(* because nobody is started behind the signal.                            *)
(***************************************************************************)
GivenUpIsDoomed ==
  phase = "close" /\ notes \cap {"timeout", "oversize"} # {}
    => Group(current) \subseteq doomed[current]

(***************************************************************************)
(* What EveryVectorIsReported rests on: the runner never waits for         *)
(* nothing.  As long as a vector is in flight its directory is being made  *)
(* or removed, its timer runs, output, error or close is there to be       *)
(* handled, or somebody who holds its pipes is about to die, unless a      *)
(* helper outside the group holds them.                                    *)
(***************************************************************************)
SomethingComes ==
  \/ phase \in {"directory", "removal", "done"}
  \/ "timeout" \notin notes
  \/ read < written[current]
  \/ child[current] = "failed" /\ "spawnFailure" \notin notes
  \/ Closable(current)
  \/ Group(current) \cap doomed[current] # {}
  \/ helper[current] = "away"

(***************************************************************************)
(* Turns are kept: an adapter is started once, after the report of the     *)
(* vector before, and only an invocation that failed in the harness is     *)
(* reported without an adapter; such a failure is never a verdict on it.   *)
(***************************************************************************)
Reports == INSTANCE VectorReports WITH
             Verdicts <- {"PASS", "FAIL", "ERROR"}, Excuses <- {"ERROR"},
             started <- {v \in Vectors : child[v] # "none"},
             ended <- phase = "done"

KeepsTurns == Reports!Spec

---------------------------------------------------------------------------
(***************************************************************************)
(* What cross-README.md says and the code does not do: "Timeout, output    *)
(* overflow, signal, and process failure terminate the isolated process    *)
(* group and become a metadata-only harness failure".                      *)
(***************************************************************************)

(***************************************************************************)
(* Once an invocation is settled as a death by a signal or a failure, no   *)
(* process of the group is left that was not signalled.  In the code only  *)
(* the timer and the output limit signal the group.                        *)
(***************************************************************************)
FailureEndsGroup ==
  outcome \in {"ADAPTER_SIGNAL", "ADAPTER_NONZERO"}
    => Group(current) \subseteq doomed[current]
=============================================================================
