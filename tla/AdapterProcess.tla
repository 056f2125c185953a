-------------------------- MODULE AdapterProcess --------------------------
(***************************************************************************)
(* The adapters under test, as the two conformance runners meet them: for  *)
(* each vector a child process that may write to its output pipes, start   *)
(* one helper, and exit or be killed, in any order.                        *)
(* This is the environment of the runners: the operating system, the child *)
(* process library and programs of others.  Only what the runners can tell *)
(* apart is kept.                                                          *)
(*                                                                         *)
(* A helper inherits the pipes ("attached"), or was started without them   *)
(* ("detached"), or inherits them but not the process group ("away").  The *)
(* pipes of a child end when nobody holds them, not when the child ends.   *)
(***************************************************************************)
EXTENDS Naturals

CONSTANTS
  Last,     \* number of vectors; they are run one after the other
  Limit,    \* the output limit; what exceeds it is not told apart further
  Kinds     \* the kinds of helpers adapters start

ASSUME LastAssumption  == Last \in Nat \ {0}
ASSUME LimitAssumption == Limit \in Nat \ {0}
ASSUME KindsAssumption == Kinds \subseteq {"attached", "detached", "away"}

Vectors == 1..Last

VARIABLES
  child,     \* state of the child, or how it exited
  helper,    \* state of its helper, or its kind while it lives
  doomed,    \* the processes of a vector a SIGKILL was sent to
  output,    \* what was written to stdout and stderr amounts to
  written    \* how much output there is, measured against the limit

process == <<child, helper, doomed, output, written>>

---------------------------------------------------------------------------
Exited(v)      == child[v] \in {"zero", "nonzero", "signal"}
HelperLives(v) == helper[v] \in Kinds
HoldsPipes(v)  == child[v] = "running" \/ helper[v] \in {"attached", "away"}

\* The members of a child's process group that a signal reaches now.
Group(v) ==
  {p \in {"child", "helper"} :
     IF p = "child" THEN child[v] = "running"
                    ELSE helper[v] \in {"attached", "detached"}}

ProcessInit ==
  /\ child = [v \in Vectors |-> "none"]
  /\ helper = [v \in Vectors |-> "none"]
  /\ doomed = [v \in Vectors |-> {}]
  /\ output = [v \in Vectors |-> "unfinished"]
  /\ written = [v \in Vectors |-> 0]

---------------------------------------------------------------------------
(***************************************************************************)
(* What runners do to processes.  A child that cannot be started has       *)
(* "failed"; a signal is sent now and takes effect later.                  *)
(***************************************************************************)
Spawn(v) ==
  \E started \in {"running", "failed"} :
    child' = [child EXCEPT ![v] = started]

Kill(v, targets) == doomed' = [doomed EXCEPT ![v] = @ \cup targets]

---------------------------------------------------------------------------
(***************************************************************************)
(* What processes do.                                                      *)
(***************************************************************************)
\* Stdout may become the one answer the vector expects, and then anything
\* else by what follows; anything at all on stderr is noise, and stays so.
Write(v) ==
  /\ HoldsPipes(v)
  /\ written[v] <= Limit
  /\ written' = [written EXCEPT ![v] = @ + 1]
  /\ \E o \in CASE output[v] = "unfinished" ->
                     {"unfinished", "answer", "other", "noise"}
              [] output[v] \in {"answer", "other"} -> {"other", "noise"}
              [] output[v] = "noise" -> {"noise"} :
       output' = [output EXCEPT ![v] = o]
  /\ UNCHANGED <<child, helper, doomed>>

Fork(v) ==
  /\ child[v] = "running"
  /\ "child" \notin doomed[v]
  /\ helper[v] = "none"
  /\ \E kind \in Kinds :
       helper' = [helper EXCEPT ![v] = kind]
  /\ UNCHANGED <<child, doomed, output, written>>

Exit(v) ==
  /\ child[v] = "running"
  /\ \E how \in {"zero", "nonzero", "signal"} :
       child' = [child EXCEPT ![v] = how]
  /\ UNCHANGED <<helper, doomed, output, written>>

HelperExit(v) ==
  /\ HelperLives(v)
  /\ helper' = [helper EXCEPT ![v] = "dead"]
  /\ UNCHANGED <<child, doomed, output, written>>

\* A signal that was sent takes effect.
Die(v) ==
  /\ \/ /\ "child" \in doomed[v] /\ child[v] = "running"
        /\ child' = [child EXCEPT ![v] = "signal"]
        /\ UNCHANGED helper
     \/ /\ "helper" \in doomed[v] /\ HelperLives(v)
        /\ helper' = [helper EXCEPT ![v] = "dead"]
        /\ UNCHANGED child
  /\ UNCHANGED <<doomed, output, written>>

ProcessStep(v) ==
  \/ Write(v) \/ Fork(v)
  \/ Exit(v) \/ HelperExit(v) \/ Die(v)
=============================================================================
