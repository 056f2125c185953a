---------------------- MODULE ConformanceSuiteProofs ----------------------
(***************************************************************************)
(* The conformance runner and its adapters: for any number of vectors, any *)
(* output limit and any kinds of helpers.                                  *)
(***************************************************************************)
EXTENDS ConformanceSuite, TLAPS

ProcessTyped ==
  /\ child \in [Vectors -> {"none", "running", "failed",
                            "zero", "nonzero", "signal"}]
  /\ helper \in [Vectors -> Kinds \cup {"none", "dead"}]
  /\ doomed \in [Vectors -> SUBSET {"child", "helper"}]
  /\ output \in [Vectors -> {"unfinished", "answer", "other", "noise"}]
  /\ written \in [Vectors -> Nat]

RunnerTyped ==
  /\ current \in 0..Last
  /\ read \in [Vectors -> Nat]
  /\ closed \subseteq Vectors
  /\ report \in [Vectors -> {"none", "PASS", "FAIL"}]
  /\ runner \in {"running", "done", "crashed"}
  /\ current = 0 => runner = "running"

\* The vectors are invoked in their order, each after the report of the last.
InOrder ==
  \A v \in Vectors :
    /\ v > current => child[v] = "none" /\ report[v] = "none"
    /\ v <= current => child[v] # "none"
    /\ v < current => report[v] # "none"

SuiteInv ==
  /\ ProcessTyped
  /\ RunnerTyped
  /\ InOrder
  /\ JudgedOutputIsFinal
  /\ StragglersAreDoomed

---------------------------------------------------------------------------
\* Nothing is invoked at first.
LEMMA InitSuite == Init => SuiteInv
  BY LastAssumption, KindsAssumption
     DEF Init, ProcessInit, SuiteInv, ProcessTyped, RunnerTyped, InOrder,
         JudgedOutputIsFinal, StragglersAreDoomed, Vectors

\* The invocation in flight is settled as it deserves, and the next begins:
\* what every callback that settles has to show.
LEMMA SettleKeepsSuite ==
  ASSUME SuiteInv, NEW v \in Vectors, NEW result \in {"PASS", "FAIL"},
         InFlight(v), Settle(v, result),
         \/ UNCHANGED doomed
         \/ Kill(v, Group(v) \cap {"child"}),
         UNCHANGED <<helper, output, written, read>>,
         closed' \subseteq Vectors,
         child[v] = "running" => "child" \in doomed'[v],
         result = "PASS" =>
           child[v] = "zero" /\ output[v] = "answer" /\ ~HoldsPipes(v)
  PROVE  SuiteInv'
  <1>1. /\ v = current /\ report[v] = "none"
        /\ \A w \in Vectors : w # v => doomed'[w] = doomed[w]
        /\ report' = [report EXCEPT ![v] = result]
    BY DEF InFlight, Kill, SuiteInv, ProcessTyped, Settle
  <1>2. /\ \A w \in Vectors : w <= v => child'[w] = child[w]
        /\ child' \in [Vectors -> {"none", "running", "failed",
                                   "zero", "nonzero", "signal"}]
        /\ current' \in 0..Last /\ current' >= current
        /\ \A w \in Vectors : w > current' => child'[w] = child[w] /\ w > current
        /\ \A w \in Vectors : w < current' => w <= v
        /\ runner' \in {"running", "done", "crashed"}
        /\ current' # 0
        /\ \A w \in Vectors : v < w /\ w <= current' => child'[w] # "none"
    <2>1. v \in 1..Last /\ current = v /\ Last \in Nat
      BY <1>1, LastAssumption DEF Vectors
    <2>2. CASE v < Last
      <3>1. /\ current' = v + 1 /\ runner' = runner /\ v + 1 \in Vectors
            /\ \E started \in {"running", "failed"} :
                 child' = [child EXCEPT ![v + 1] = started]
        BY <2>1, <2>2 DEF Settle, Spawn, Vectors
      <3>2. /\ \A w \in Vectors : w # v + 1 => child'[w] = child[w]
            /\ child' \in [Vectors -> {"none", "running", "failed",
                                       "zero", "nonzero", "signal"}]
        BY <3>1 DEF SuiteInv, ProcessTyped
      <3>3. \A w \in Vectors : v < w /\ w <= current' => w = v + 1
        BY <2>1, <3>1 DEF Vectors
      <3>4. child'[v + 1] # "none"
        BY <3>1 DEF SuiteInv, ProcessTyped
      <3>5. QED
        BY <2>1, <2>2, <3>1, <3>2, <3>3, <3>4 DEF SuiteInv, RunnerTyped, Vectors
    <2>3. CASE ~(v < Last)
      BY <2>1, <2>3 DEF Settle, SuiteInv, ProcessTyped, RunnerTyped, Vectors
    <2>4. QED
      BY <2>2, <2>3
  <1>3. doomed' \in [Vectors -> SUBSET {"child", "helper"}]
    BY DEF Kill, SuiteInv, ProcessTyped, Group
  <1>4. ProcessTyped' /\ RunnerTyped'
    BY <1>1, <1>2, <1>3 DEF SuiteInv, ProcessTyped, RunnerTyped
  <1>5. InOrder'
    BY <1>1, <1>2 DEF SuiteInv, InOrder, RunnerTyped, Vectors
  <1>6. JudgedOutputIsFinal'
    BY <1>1, <1>2
       DEF SuiteInv, InOrder, JudgedOutputIsFinal, HoldsPipes, RunnerTyped,
           Vectors
  <1>7. StragglersAreDoomed'
    BY <1>1, <1>2
       DEF SuiteInv, InOrder, StragglersAreDoomed, RunnerTyped, Vectors
  <1>8. QED
    BY <1>4, <1>5, <1>6, <1>7 DEF SuiteInv

---------------------------------------------------------------------------
\* What a process does keeps what the runner said of it.
LEMMA ProcessKeepsSuite ==
  ASSUME SuiteInv, NEW v \in Vectors, ProcessStep(v),
         UNCHANGED <<current, read, closed, report, runner>>
  PROVE  SuiteInv'
  <1> USE DEF SuiteInv
  <1>1. RunnerTyped'
    BY DEF RunnerTyped
  <1>2. CASE Write(v)
    <2>1. ProcessTyped'
      BY <1>2 DEF Write, ProcessTyped
    <2>2. JudgedOutputIsFinal'
      BY <1>2 DEF Write, ProcessTyped, JudgedOutputIsFinal, HoldsPipes
    <2>3. QED
      BY <1>1, <1>2, <2>1, <2>2 DEF Write, InOrder, StragglersAreDoomed
  <1>3. CASE Fork(v)
    <2>1. ProcessTyped'
      BY <1>3 DEF Fork, ProcessTyped
    <2>2. JudgedOutputIsFinal'
      BY <1>3 DEF Fork, ProcessTyped, JudgedOutputIsFinal, HoldsPipes
    <2>3. QED
      BY <1>1, <1>3, <2>1, <2>2 DEF Fork, InOrder, StragglersAreDoomed
  <1>4. ASSUME NEW how \in {"zero", "nonzero", "signal"}, child[v] = "running",
               child' = [child EXCEPT ![v] = how],
               UNCHANGED <<helper, doomed, output, written>>
        PROVE  SuiteInv'
    <2>1. ProcessTyped'
      BY <1>4 DEF ProcessTyped
    <2>2. JudgedOutputIsFinal'
      BY <1>4 DEF ProcessTyped, JudgedOutputIsFinal, HoldsPipes
    <2>3. InOrder' /\ StragglersAreDoomed'
      BY <1>4 DEF ProcessTyped, InOrder, StragglersAreDoomed
    <2>4. QED
      BY <1>1, <2>1, <2>2, <2>3
  <1>5. ASSUME helper' = [helper EXCEPT ![v] = "dead"],
               UNCHANGED <<child, doomed, output, written>>
        PROVE  SuiteInv'
    <2>1. ProcessTyped'
      BY <1>5 DEF ProcessTyped
    <2>2. JudgedOutputIsFinal'
      BY <1>5 DEF ProcessTyped, JudgedOutputIsFinal, HoldsPipes
    <2>3. QED
      BY <1>1, <1>5, <2>1, <2>2 DEF InOrder, StragglersAreDoomed
  <1>6. QED
    BY <1>2, <1>3, <1>4, <1>5 DEF ProcessStep, Exit, HelperExit, Die

\* Every callback keeps the invariant.
LEMMA HandleKeepsSuite ==
  ASSUME SuiteInv, NEW v \in Vectors, Handle(v)
  PROVE  SuiteInv'
  <1>1. CASE OnTimeout(v)
    <2>1. child[v] = "running" => "child" \in doomed'[v]
      BY <1>1 DEF OnTimeout, Kill, Group, SuiteInv, ProcessTyped
    <2>2. closed' \subseteq Vectors
      BY <1>1 DEF OnTimeout, SuiteInv, RunnerTyped
    <2>3. QED
      BY <1>1, <2>1, <2>2, SettleKeepsSuite DEF OnTimeout
  <1>2. CASE OnError(v)
    BY <1>2, SettleKeepsSuite DEF OnError, SuiteInv, RunnerTyped
  <1>3. CASE OnData(v)
    <2>1. /\ \A w \in Vectors : doomed[w] \subseteq doomed'[w]
          /\ doomed' \in [Vectors -> SUBSET {"child", "helper"}]
      BY <1>3 DEF OnData, Kill, Group, SuiteInv, ProcessTyped
    <2>2. read' \in [Vectors -> Nat]
      BY <1>3 DEF OnData, SuiteInv, ProcessTyped, RunnerTyped
    <2>3. QED
      BY <1>3, <2>1, <2>2
         DEF OnData, Ignore, SuiteInv, ProcessTyped, RunnerTyped, InOrder,
             JudgedOutputIsFinal, StragglersAreDoomed, HoldsPipes
  <1>4. CASE OnClose(v)
    <2>1. closed' \subseteq Vectors /\ Closable(v)
          /\ UNCHANGED <<helper, doomed, output, written, read>>
      BY <1>4 DEF OnClose, SuiteInv, RunnerTyped
    <2>2. CASE InFlight(v)
      <3>1. Judgement(v) \in {"PASS", "FAIL"} /\ Settle(v, Judgement(v))
        BY <1>4, <2>2 DEF OnClose, Judgement
      <3>2. Judgement(v) = "PASS" =>
              child[v] = "zero" /\ output[v] = "answer" /\ ~HoldsPipes(v)
        BY <2>1 DEF Judgement, Closable
      <3>3. child[v] # "running"
        BY <2>1 DEF Closable, Exited
      <3>4. QED
        BY <2>1, <2>2, <3>1, <3>2, <3>3, SettleKeepsSuite
    <2>3. CASE ~InFlight(v)
      BY <1>4, <2>1, <2>3
         DEF OnClose, Ignore, SuiteInv, ProcessTyped, RunnerTyped, InOrder,
             JudgedOutputIsFinal, StragglersAreDoomed, HoldsPipes
    <2>4. QED
      BY <2>2, <2>3
  <1>5. CASE OnInputError(v)
    BY <1>5
       DEF OnInputError, Running, Vectors, process, SuiteInv, ProcessTyped, RunnerTyped, InOrder,
           JudgedOutputIsFinal, StragglersAreDoomed, HoldsPipes
  <1>6. QED
    BY <1>1, <1>2, <1>3, <1>4, <1>5 DEF Handle

\* The first invocation begins with nothing reported.
LEMMA BeginKeepsSuite ==
  ASSUME SuiteInv, Begin
  PROVE  SuiteInv'
  <1>1. PICK started \in {"running", "failed"} :
          child' = [child EXCEPT ![1] = started]
    BY DEF Begin, Spawn
  <1>2. 1 \in Vectors /\ \A w \in Vectors : report[w] = "none"
    BY LastAssumption
       DEF Begin, SuiteInv, InOrder, RunnerTyped, Vectors
  <1>3. ProcessTyped' /\ RunnerTyped'
    BY <1>1, <1>2, LastAssumption
       DEF Begin, SuiteInv, ProcessTyped, RunnerTyped, Vectors
  <1>4. InOrder'
    BY <1>1, <1>2 DEF Begin, SuiteInv, ProcessTyped, InOrder, Vectors
  <1>5. JudgedOutputIsFinal' /\ StragglersAreDoomed'
    BY <1>2 DEF Begin, JudgedOutputIsFinal, StragglersAreDoomed
  <1>6. QED
    BY <1>3, <1>4, <1>5 DEF SuiteInv

---------------------------------------------------------------------------
(***************************************************************************)
(* The inductive invariant: what was reported, the order of invocations,   *)
(* and what the processes of reported vectors can still do.                *)
(***************************************************************************)
THEOREM SuiteInvariance == Spec => []SuiteInv
  <1>1. SuiteInv /\ [Next]_vars => SuiteInv'
    <2> SUFFICES ASSUME SuiteInv, [Next]_vars PROVE SuiteInv'
      OBVIOUS
    <2>1. CASE UNCHANGED vars
      BY <2>1
         DEF vars, process, SuiteInv, ProcessTyped, RunnerTyped, InOrder,
             JudgedOutputIsFinal, StragglersAreDoomed, HoldsPipes
    <2>2. QED
      BY <2>1, BeginKeepsSuite, HandleKeepsSuite, ProcessKeepsSuite DEF Next
  <1>2. QED
    BY InitSuite, <1>1, PTL DEF Spec

(***************************************************************************)
(* A PASS stands on all there is: no interleaving of late output, helpers, *)
(* exits and timers lets anything be added to a judged answer.             *)
(***************************************************************************)
THEOREM JudgementsAreFinal == Spec => []JudgedOutputIsFinal
  <1>1. SuiteInv => JudgedOutputIsFinal
    BY DEF SuiteInv
  <1>2. QED
    BY <1>1, SuiteInvariance, PTL

(***************************************************************************)
(* Adapters overlap only while one dies of a signal that was sent.         *)
(***************************************************************************)
THEOREM StragglersAreSignalled == Spec => []StragglersAreDoomed
  <1>1. SuiteInv => StragglersAreDoomed
    BY DEF SuiteInv
  <1>2. QED
    BY <1>1, SuiteInvariance, PTL

---------------------------------------------------------------------------
\* Whatever settles the invocation in flight is the report of its turn.
LEMMA SettleIsReport ==
  ASSUME SuiteInv, NEW v \in Vectors, NEW result \in {"PASS", "FAIL"},
         Running(v), InFlight(v), Settle(v, result)
  PROVE  Reports!Next
  <1>1. /\ v = current /\ v \in 1..Last /\ Last \in Nat
        /\ report[v] = "none" /\ runner = "running"
        /\ report' = [report EXCEPT ![v] = result]
    BY LastAssumption DEF Running, InFlight, Settle, Vectors
  <1>2. Reports!Turn(v) /\ child[v] # "none"
    BY <1>1 DEF SuiteInv, InOrder, Vectors, Reports!Turn, Reports!Vectors
  <1>3. CASE v < Last
    <2>1. PICK how \in {"running", "failed"} : child' = [child EXCEPT ![v + 1] = how]
      BY <1>1, <1>3 DEF Settle, Spawn
    <2>2. v + 1 \in Vectors /\ child \in [Vectors -> {"none", "running", "failed",
                                                     "zero", "nonzero", "signal"}]
      BY <1>1, <1>3 DEF SuiteInv, ProcessTyped, Vectors
    <2>3. {w \in Vectors : child'[w] # "none"}
            = {w \in Vectors : child[w] # "none"} \cup {v + 1}
      BY <2>1, <2>2
    <2>4. runner' = "running" /\ v # Last
      BY <1>1, <1>3 DEF Settle
    <2>5. Reports!Report(v, result)
      BY <1>1, <1>2, <1>3, <2>3, <2>4 DEF Reports!Report
    <2>6. QED
      BY <1>1, <2>5 DEF Reports!Next, Reports!Vectors
  <1>4. CASE ~(v < Last)
    <2>1. v = Last /\ runner' = "done" /\ child' = child
      BY <1>1, <1>4 DEF Settle
    <2>2. Reports!Report(v, result)
      BY <1>1, <1>2, <2>1 DEF Reports!Report
    <2>3. QED
      BY <1>1, <2>2 DEF Reports!Next, Reports!Vectors
  <1>5. QED
    BY <1>3, <1>4

\* What processes do by themselves starts nothing.
LEMMA ProcessesStartNothing ==
  ASSUME SuiteInv, NEW v \in Vectors, ProcessStep(v)
  PROVE  {w \in Vectors : child'[w] # "none"} = {w \in Vectors : child[w] # "none"}
  <1>1. CASE child' = child
    BY <1>1
  <1>2. ASSUME child[v] = "running",
               NEW how \in {"zero", "nonzero", "signal"},
               child' = [child EXCEPT ![v] = how]
        PROVE  \A w \in Vectors : child'[w] # "none" <=> child[w] # "none"
    BY <1>2 DEF SuiteInv, ProcessTyped
  <1>3. QED
    BY <1>1, <1>2 DEF ProcessStep, Write, Fork, Exit, HelperExit, Die

(***************************************************************************)
(* The plain runner keeps turns: every step of it, its callbacks and its   *)
(* processes is a start, a report or the end of the promised runner, or    *)
(* nothing of it.  In particular no event that comes after a report        *)
(* rewrites it, and no vector is started twice.                            *)
(***************************************************************************)
THEOREM SuiteKeepsTurns == Spec => KeepsTurns
  <1> DEFINE Same == UNCHANGED <<report, runner>>
                     /\ {w \in Vectors : child'[w] # "none"}
                          = {w \in Vectors : child[w] # "none"}
  <1>1. Init => Reports!Init
    BY DEF Init, ProcessInit, Reports!Init, Reports!Vectors, Vectors
  <1>2. Same => UNCHANGED Reports!rvars
    BY DEF Reports!rvars
  <1>3. SuiteInv /\ [Next]_vars => [Reports!Next]_Reports!rvars
    <2> SUFFICES ASSUME SuiteInv, [Next]_vars
                 PROVE  Reports!Next \/ Same
      BY <1>2
    <2>1. CASE UNCHANGED vars
      BY <2>1 DEF vars, process
    <2>2. CASE Begin
      <3>1. PICK how \in {"running", "failed"} : child' = [child EXCEPT ![1] = how]
        BY <2>2 DEF Begin, Spawn
      <3>2. 1 \in Vectors /\ runner = "running"
            /\ \A w \in Vectors : report[w] = "none" /\ child[w] = "none"
        BY <2>2, LastAssumption DEF Begin, SuiteInv, InOrder, RunnerTyped, Vectors
      <3>3. {w \in Vectors : child'[w] # "none"} = {1}
            /\ {w \in Vectors : child[w] # "none"} = {}
        BY <3>1, <3>2 DEF SuiteInv, ProcessTyped
      <3>4. Reports!Turn(1) /\ UNCHANGED <<report, runner>>
        BY <2>2, <3>2 DEF Begin, Reports!Turn, Reports!Vectors, Vectors
      <3>5. Reports!Start(1)
        BY <3>3, <3>4 DEF Reports!Start
      <3>6. QED
        BY <3>2, <3>5 DEF Reports!Next, Reports!Vectors, Vectors
    <2>3. ASSUME NEW v \in Vectors, Handle(v) PROVE Reports!Next \/ Same
      <3>1. CASE OnTimeout(v)
        BY <3>1, SettleIsReport DEF OnTimeout
      <3>2. CASE OnError(v)
        BY <3>2, SettleIsReport DEF OnError
      <3>3. CASE OnData(v)
        BY <3>3 DEF OnData, Ignore
      <3>4. CASE OnClose(v)
        <4>1. Judgement(v) \in {"PASS", "FAIL"}
          BY DEF Judgement
        <4>2. QED
          BY <3>4, <4>1, SettleIsReport DEF OnClose, Ignore
      <3>5. CASE OnInputError(v)
        BY <3>5 DEF OnInputError, process, Running, Reports!Next, Reports!BreakOff
      <3>6. QED
        BY <2>3, <3>1, <3>2, <3>3, <3>4, <3>5 DEF Handle
    <2>4. ASSUME NEW v \in Vectors, ProcessStep(v),
                 UNCHANGED <<current, read, closed, report, runner>>
          PROVE  Same
      BY <2>4, ProcessesStartNothing
    <2>5. QED
      BY <2>1, <2>2, <2>3, <2>4 DEF Next
  <1>4. QED
    BY <1>1, <1>3, SuiteInvariance, PTL DEF Spec, KeepsTurns, Reports!Spec

(***************************************************************************)
(* There is always a timer: as long as the runner runs it is about to      *)
(* begin, or the invocation in flight has no report yet and its timer can  *)
(* end it (runner.mjs:293).                                                *)
(***************************************************************************)
THEOREM TimerAlwaysRuns == Spec => []TimerRuns
  <1>1. Init => TimerRuns
    BY DEF Init, TimerRuns
  <1>2. SuiteInv /\ TimerRuns /\ [Next]_vars => TimerRuns'
    <2> SUFFICES ASSUME SuiteInv, TimerRuns, [Next]_vars, runner' = "running"
                 PROVE  current' = 0 \/ report'[current'] = "none"
      BY DEF TimerRuns, InFlight
    <2>1. current \in 0..Last /\ Last \in Nat
          /\ (current = 0 \/ report[current] = "none" \/ runner # "running")
      BY LastAssumption DEF SuiteInv, RunnerTyped, TimerRuns, InFlight
    <2>2. ASSUME NEW v \in Vectors, NEW result, InFlight(v), Settle(v, result)
          PROVE  current' = 0 \/ report'[current'] = "none"
      <3>1. v = current /\ v < Last /\ current' = v + 1 /\ v \in 1..Last
        BY <2>2 DEF Settle, InFlight, Vectors
      <3>2. v + 1 \in Vectors /\ v + 1 > current /\ v + 1 # v
        BY <2>1, <3>1 DEF Vectors
      <3>3. report'[v + 1] = report[v + 1] /\ report[v + 1] = "none"
        BY <2>2, <3>2 DEF Settle, SuiteInv, InOrder, RunnerTyped
      <3>4. QED
        BY <3>1, <3>3
    <2>3. CASE Begin
      BY <2>3, LastAssumption DEF Begin, SuiteInv, InOrder, Vectors
    <2>4. ASSUME NEW v \in Vectors, Handle(v)
          PROVE  current' = 0 \/ report'[current'] = "none"
      <3>1. runner = "running"
        BY <2>4 DEF Handle, OnTimeout, OnError, OnData, OnClose, OnInputError, Running
      <3>2. CASE UNCHANGED <<current, report>>
        BY <2>1, <3>1, <3>2
      <3>3. CASE \E result : InFlight(v) /\ Settle(v, result)
        BY <2>2, <3>3
      <3>4. QED
        BY <2>4, <3>2, <3>3
           DEF Handle, OnTimeout, OnError, OnData, OnClose, OnInputError, Ignore
    <2>5. CASE UNCHANGED <<current, report, runner>>
      BY <2>1, <2>5
    <2>6. QED
      BY <2>3, <2>4, <2>5 DEF Next, vars
  <1>3. QED
    BY <1>1, <1>2, SuiteInvariance, PTL DEF Spec
=============================================================================
