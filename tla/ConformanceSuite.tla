------------------------- MODULE ConformanceSuite -------------------------
(***************************************************************************)
(* The conformance runner: it invokes one adapter after the other, and     *)
(* each invocation is settled once, by whichever comes first of its timer, *)
(* the failure to start and the close of its pipes.  A callback runs to    *)
(* its end, and so does what awaits the invocation it settles: the report  *)
(* and the start of the next adapter belong to the same step.              *)
(***************************************************************************)
EXTENDS AdapterProcess

VARIABLES
  current,   \* the vector in flight, or the last one
  read,      \* how much of the output was received
  closed,    \* the vectors whose close event came
  report,    \* the result reported for a vector
  runner     \* "running", "done", or "crashed" by an unhandled error

vars == <<process, current, read, closed, report, runner>>

Init ==
  /\ ProcessInit
  /\ current = 0
  /\ read = [v \in Vectors |-> 0]
  /\ closed = {}
  /\ report = [v \in Vectors |-> "none"]
  /\ runner = "running"

Begin ==
  /\ current = 0
  /\ current' = 1
  /\ Spawn(1)
  /\ UNCHANGED <<helper, doomed, output, written>>
  /\ UNCHANGED <<read, closed, report, runner>>

---------------------------------------------------------------------------
(***************************************************************************)
(* Events of the invocation of v may still come after it was settled; once *)
(* all reports are written they are of no interest.                        *)
(***************************************************************************)
Running(v) == runner = "running" /\ v <= current

InFlight(v) == v = current /\ report[v] = "none"

Settle(v, result) ==
  /\ report' = [report EXCEPT ![v] = result]
  /\ IF v < Last
     THEN current' = v + 1 /\ Spawn(v + 1) /\ UNCHANGED runner
     ELSE runner' = "done" /\ UNCHANGED <<current, child>>

\* Settled already: the callback changes nothing of the suite.
Ignore == UNCHANGED <<child, current, report, runner>>

OnTimeout_NoKill(v) ==
  /\ Running(v)
  /\ InFlight(v)
  /\ Settle(v, "FAIL")
  /\ UNCHANGED <<helper, doomed, output, written, read, closed>>

OnTimeout_AwaitsClose(v) ==
  /\ Running(v)
  /\ InFlight(v)
  /\ Kill(v, Group(v) \cap {"child"})
  /\ Ignore
  /\ UNCHANGED <<helper, output, written, read, closed>>

\* A mutant: nobody catches the rejection.
OnTimeout_Uncaught(v) ==
  /\ Running(v)
  /\ InFlight(v)
  /\ Kill(v, Group(v) \cap {"child"})
  /\ runner' = "crashed"
  /\ UNCHANGED <<child, helper, output, written, current, read, closed, report>>

\* The timer, which is cleared when the invocation is settled.
OnTimeout(v) ==
  /\ Running(v)
  /\ InFlight(v)
  /\ Kill(v, Group(v) \cap {"child"})
  /\ Settle(v, "FAIL")
  /\ UNCHANGED <<helper, output, written, read, closed>>

OnError(v) ==
  /\ Running(v)
  /\ InFlight(v)
  /\ child[v] = "failed"
  /\ Settle(v, "FAIL")
  /\ UNCHANGED <<helper, doomed, output, written, read, closed>>

\* Output over the limit costs the adapter its life, and nothing more.  Each
\* stream has the limit to itself, so what exceeds it on both together may
\* not exceed it on either.
OnData(v) ==
  /\ Running(v)
  /\ read[v] < written[v]
  /\ read' = [read EXCEPT ![v] = written[v]]
  /\ \/ /\ written[v] > Limit
        /\ Kill(v, Group(v) \cap {"child"})
     \/ /\ written[v] <= Limit \/ output[v] = "noise"
        /\ UNCHANGED doomed
  /\ Ignore
  /\ UNCHANGED <<helper, output, written, closed>>

Closable_OnExit(v) == v \notin closed /\ Exited(v) /\ read[v] = written[v]

\* The pipes ended and everything that came through them was received.
Closable(v) ==
  /\ v \notin closed
  /\ Exited(v) /\ ~HoldsPipes(v)
  /\ read[v] = written[v]

\* What an exited adapter is worth.
Judgement(v) ==
  IF child[v] = "zero" /\ output[v] = "answer" THEN "PASS" ELSE "FAIL"

OnClose_SettlesAgain(v) ==
  /\ Running(v)
  /\ Closable(v)
  /\ closed' = closed \cup {v}
  /\ Settle(v, Judgement(v))
  /\ UNCHANGED <<helper, doomed, output, written, read>>

OnClose(v) ==
  /\ Running(v)
  /\ Closable(v)
  /\ closed' = closed \cup {v}
  /\ IF InFlight(v) THEN Settle(v, Judgement(v)) ELSE Ignore
  /\ UNCHANGED <<helper, doomed, output, written, read>>

(***************************************************************************)
(* A request whose reader is gone may fail to be written.  Nothing handles *)
(* that event, so it ends the runner.  How much of its request an adapter  *)
(* read is not modelled.                                                   *)
(***************************************************************************)
OnInputError(v) ==
  /\ Running(v)
  /\ v \notin closed
  /\ child[v] = "failed" \/ (Exited(v) /\ ~HoldsPipes(v))
  /\ runner' = "crashed"
  /\ UNCHANGED <<process, current, read, closed, report>>

Handle(v) ==
  \/ OnTimeout(v) \/ OnError(v) \/ OnData(v) \/ OnClose(v) \/ OnInputError(v)

Next ==
  \/ Begin
  \/ \E v \in Vectors : Handle(v)
  \/ \E v \in Vectors :
       ProcessStep(v) /\ UNCHANGED <<current, read, closed, report, runner>>

(***************************************************************************)
(* The runner starts and its timers expire.  Nothing is asked of adapters, *)
(* not even that a signal ends them.                                       *)
(***************************************************************************)
Fairness == WF_vars(Begin) /\ \A v \in Vectors : WF_vars(OnTimeout(v))

Spec == Init /\ [][Next]_vars /\ Fairness

---------------------------------------------------------------------------
(***************************************************************************)
(* What was judged is all there is: behind a PASS stands an adapter that   *)
(* exited by itself with 0, gave the expected answer and nothing else on   *)
(* either stream, and neither it nor a helper that shares its pipes can    *)
(* add to that later.  An exit alone would not tell.                       *)
(***************************************************************************)
JudgedOutputIsFinal ==
  \A v \in Vectors :
    report[v] = "PASS" =>
      /\ child[v] = "zero"
      /\ output[v] = "answer"
      /\ ~HoldsPipes(v)

(***************************************************************************)
(* Adapters overlap only while one dies: a child that still runs after its *)
(* vector was reported has been sent the signal that ends it.              *)
(***************************************************************************)
StragglersAreDoomed ==
  \A v \in Vectors :
    report[v] # "none" /\ child[v] = "running" => "child" \in doomed[v]

(***************************************************************************)
(* Turns are kept whatever comes late: output, exit, error, timer and      *)
(* close of an adapter that was given up neither rewrite its report nor    *)
(* report or start a vector that has no turn.                              *)
(***************************************************************************)
Reports == INSTANCE VectorReports WITH
             Verdicts <- {"PASS", "FAIL"}, Excuses <- {},
             started <- {v \in Vectors : child[v] # "none"},
             ended <- runner # "running"

KeepsTurns == Reports!Spec

(***************************************************************************)
(* The suite ends with all its reports, whatever adapters do: they may     *)
(* neither answer nor exit, or leave their pipes to a helper.  Only an     *)
(* adapter that is gone with all who could read its request may end the    *)
(* runner before, by the failed write nobody handles (runner.mjs:327).     *)
(***************************************************************************)
SuiteEnds ==
  \/ <>(runner = "done" /\ \A v \in Vectors : report[v] # "none")
  \/ <>(runner = "crashed" /\ \E v \in 1..current : child[v] # "none" /\ ~HoldsPipes(v))

(***************************************************************************)
(* What that rests on: there is always a timer.  As long as the runner     *)
(* runs it is about to begin or has one invocation in flight, whose timer  *)
(* nobody can stop without reporting it.                                   *)
(***************************************************************************)
TimerRuns == runner = "running" => current = 0 \/ InFlight(current)
=============================================================================
