--------------------------- MODULE VectorReports ---------------------------
(***************************************************************************)
(* What a conformance runner promises, without processes, pipes, timers or *)
(* directories: the vectors have their turn in their order.  In its turn   *)
(* the adapter of a vector is started at most once and the vector gets one *)
(* verdict, which stands; only then it is the next one's turn.  After the  *)
(* last verdict, or when it breaks off, the runner has ended and starts    *)
(* and reports nothing any more.                                           *)
(***************************************************************************)
EXTENDS Naturals

CONSTANTS
  Last,      \* number of vectors
  Verdicts,  \* what a vector can be reported as
  Excuses    \* the verdicts that need no adapter

VARIABLES
  started,   \* the vectors whose adapter was started
  report,    \* the verdict of a vector, or "none"
  ended      \* whether the runner has ended

rvars == <<started, report, ended>>

Vectors == 1..Last

Init ==
  /\ started = {}
  /\ report = [v \in Vectors |-> "none"]
  /\ ended = FALSE

Turn(v) ==
  /\ ~ended
  /\ report[v] = "none"
  /\ \A u \in Vectors : u < v => report[u] # "none"

Start(v) ==
  /\ Turn(v)
  /\ v \notin started
  /\ started' = started \cup {v}
  /\ UNCHANGED <<report, ended>>

\* The next adapter may be started in the same step.
Report(v, verdict) ==
  /\ Turn(v)
  /\ v \in started \/ verdict \in Excuses
  /\ report' = [report EXCEPT ![v] = verdict]
  /\ ended' = (v = Last)
  /\ \/ UNCHANGED started
     \/ v < Last /\ started' = started \cup {v + 1}

BreakOff ==
  /\ ~ended
  /\ ended' = TRUE
  /\ UNCHANGED <<started, report>>

Next ==
  \/ \E v \in Vectors : Start(v)
  \/ \E v \in Vectors, verdict \in Verdicts : Report(v, verdict)
  \/ BreakOff

Spec == Init /\ [][Next]_rvars
=============================================================================
