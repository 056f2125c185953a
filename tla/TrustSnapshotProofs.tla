------------------------ MODULE TrustSnapshotProofs ------------------------
(***************************************************************************)
(* Proofs about the consumers of trust snapshots, for any consumers, any   *)
(* snapshots the network may bring, any trust root, cache bounds and       *)
(* pinned coordinates, and a clock without regard to its bound.            *)
(***************************************************************************)
EXTENDS TrustSnapshot, TLAPS

---------------------------------------------------------------------------
(***************************************************************************)
(* The verdict is the answer of the first stage that does not pass.        *)
(***************************************************************************)
ChainCodes == {"ROLLBACK", "VERSION_FORK", "VERSION_GAP", "CHAIN_MISMATCH"}

OtherCodes ==
  ShapeFaults \cup
  { "PASS", "FUTURE_SNAPSHOT", "EXPIRED", "STALE", "TRUST_ANCHOR_INVALID",
    "SIGNATURE_INVALID", "UNKNOWN_KID", "ROOT_KEY_INACTIVE", "EMPTY_KEYS",
    "KEY_INVALID", "LISTING_KEY_UNKNOWN", "LISTING_KEY_INACTIVE",
    "CHALLENGE_KEY_UNKNOWN", "CHALLENGE_KEY_INACTIVE" }

FreshnessCodes == {"EXPIRED", "STALE"}

\* What each stage may answer; age is judged by one stage, the chain by one.
LEMMA StageCodes ==
  ASSUME NEW c \in Consumers, NEW s \in Snapshots
  PROVE  /\ s.shape \in OtherCodes \ FreshnessCodes
         /\ FreshnessStage(c, s) \in OtherCodes
         /\ RootStage(s) \in OtherCodes \ FreshnessCodes
         /\ ChainStage(coordinate[c], s) \in ChainCodes \cup {"PASS"}
         /\ KeysStage(s) \in OtherCodes \ FreshnessCodes
         /\ SignersStage(s) \in OtherCodes \ FreshnessCodes
<1>1. s.shape \in ShapeFaults \cup {"PASS"}
  BY SnapshotAssumption DEF SnapshotType
<1>2. s.shape \in OtherCodes \ FreshnessCodes
  BY <1>1 DEF OtherCodes, FreshnessCodes, ShapeFaults
<1>3. FreshnessStage(c, s) \in OtherCodes
  BY DEF FreshnessStage, OtherCodes, ShapeFaults
<1>4. RootStage(s) \in OtherCodes \ FreshnessCodes
  BY DEF RootStage, OtherCodes, FreshnessCodes, ShapeFaults
<1>5. ChainStage(coordinate[c], s) \in ChainCodes \cup {"PASS"}
  BY DEF ChainStage, ChainCodes
<1>6. KeysStage(s) \in OtherCodes \ FreshnessCodes
  BY DEF KeysStage, OtherCodes, FreshnessCodes, ShapeFaults
<1>7. SignersStage(s) \in OtherCodes \ FreshnessCodes
  BY DEF SignersStage, OtherCodes, FreshnessCodes, ShapeFaults
<1>8. QED
  BY <1>2, <1>3, <1>4, <1>5, <1>6, <1>7

Passes(c, s) ==
  /\ s.shape = "PASS"
  /\ FreshnessStage(c, s) = "PASS"
  /\ RootStage(s) = "PASS"
  /\ ChainStage(coordinate[c], s) = "PASS"
  /\ KeysStage(s) = "PASS"
  /\ SignersStage(s) = "PASS"

\* There is a first stage that fails, unless all pass.
LEMMA FirstFailure ==
  ASSUME NEW c, NEW s,
         NEW F \in SUBSET (1..6), F # {}
  PROVE  /\ (CHOOSE i \in F : \A j \in F : i <= j) \in F
         /\ \A j \in F : (CHOOSE i \in F : \A k \in F : i <= k) <= j
<1>1. \E i \in F : \A j \in F : i <= j
  <2>1. CASE 1 \in F
    BY <2>1
  <2>2. CASE 1 \notin F /\ 2 \in F
    BY <2>2
  <2>3. CASE 1 \notin F /\ 2 \notin F /\ 3 \in F
    BY <2>3
  <2>4. CASE 1 \notin F /\ 2 \notin F /\ 3 \notin F /\ 4 \in F
    BY <2>4
  <2>5. CASE 1 \notin F /\ 2 \notin F /\ 3 \notin F /\ 4 \notin F /\ 5 \in F
    BY <2>5
  <2>6. CASE 1 \notin F /\ 2 \notin F /\ 3 \notin F /\ 4 \notin F /\ 5 \notin F
    <3>1. \A i \in F : i \in 1..6
      OBVIOUS
    <3>2. \A i \in F : i = 6
      BY <2>6, <3>1
    <3>3. PICK i \in F : TRUE
      BY Zenon
    <3>4. QED
      BY <3>2, <3>3
  <2>7. QED
    BY <2>1, <2>2, <2>3, <2>4, <2>5, <2>6
<1>2. QED
  BY <1>1

\* A snapshot is accepted exactly if it passes every stage.
LEMMA AcceptedPasses ==
  ASSUME NEW c \in Consumers, NEW s \in Snapshots
  PROVE  Verdict(c, s) = "ACCEPTED" <=> Passes(c, s)
<1> DEFINE stages == Stages(c, s)
           failed == {i \in 1..6 : stages[i] # "PASS"}
<1>1. /\ stages[1] = s.shape
      /\ stages[2] = FreshnessStage(c, s)
      /\ stages[3] = RootStage(s)
      /\ stages[4] = ChainStage(coordinate[c], s)
      /\ stages[5] = KeysStage(s)
      /\ stages[6] = SignersStage(s)
  BY DEF Stages
<1>2. \A i \in 1..6 : stages[i] # "ACCEPTED"
  <2>1. "ACCEPTED" \notin OtherCodes \cup ChainCodes \cup {"PASS"}
    BY DEF OtherCodes, ChainCodes, ShapeFaults
  <2> HIDE DEF stages
  <2>2. QED
    BY <1>1, <2>1, StageCodes
<1> HIDE DEF stages
<1>3. failed = {} <=> Passes(c, s)
  BY <1>1 DEF Passes
<1>4. Verdict(c, s) = IF failed = {} THEN "ACCEPTED"
                      ELSE stages[CHOOSE i \in failed : \A j \in failed : i <= j]
  BY DEF Verdict, stages
<1>5. CASE failed # {}
  <2>1. (CHOOSE i \in failed : \A j \in failed : i <= j) \in 1..6
    <3>1. failed \in SUBSET (1..6)
      OBVIOUS
    <3> HIDE DEF failed
    <3>2. QED
      BY <1>5, <3>1, FirstFailure
  <2>2. QED
    BY <1>2, <1>3, <1>4, <1>5, <2>1
<1>6. QED
  BY <1>3, <1>4, <1>5

\* A verdict on the chain or on age is the answer of that stage, and every
\* stage before it passed.
LEMMA VerdictStage ==
  ASSUME NEW c \in Consumers, NEW s \in Snapshots
  PROVE  /\ Verdict(c, s) \in ChainCodes =>
              /\ RootStage(s) = "PASS"
              /\ ChainStage(coordinate[c], s) = Verdict(c, s)
         /\ Verdict(c, s) \in FreshnessCodes =>
              FreshnessStage(c, s) = Verdict(c, s)
<1> DEFINE stages == Stages(c, s)
           failed == {i \in 1..6 : stages[i] # "PASS"}
           first  == CHOOSE i \in failed : \A j \in failed : i <= j
<1>1. /\ stages[1] = s.shape
      /\ stages[2] = FreshnessStage(c, s)
      /\ stages[3] = RootStage(s)
      /\ stages[4] = ChainStage(coordinate[c], s)
      /\ stages[5] = KeysStage(s)
      /\ stages[6] = SignersStage(s)
  BY DEF Stages
<1>2. /\ Verdict(c, s) = IF failed = {} THEN "ACCEPTED" ELSE stages[first]
      /\ failed \in SUBSET (1..6)
      /\ 3 \notin failed => stages[3] = "PASS"
  BY DEF Verdict
<1> HIDE DEF stages
<1>3. failed # {} => first \in failed /\ \A j \in failed : first <= j
  <2> HIDE DEF failed
  <2>1. QED
    BY <1>2, FirstFailure
<1>4. /\ "ACCEPTED" \notin ChainCodes \cup FreshnessCodes
      /\ "PASS" \notin ChainCodes \cup FreshnessCodes
      /\ OtherCodes \cap ChainCodes = {}
      /\ FreshnessCodes \cap ChainCodes = {}
  BY DEF OtherCodes, ChainCodes, FreshnessCodes, ShapeFaults
<1> HIDE DEF failed, first
<1>5. CASE Verdict(c, s) \in ChainCodes
  <2>1. failed # {} /\ stages[first] \in ChainCodes /\ first \in 1..6
    BY <1>2, <1>3, <1>4, <1>5
  <2>2. first = 4
    BY <1>1, <1>4, <2>1, StageCodes
  <2>3. 3 \notin failed
    BY <1>3, <2>1, <2>2
  <2>4. QED
    BY <1>1, <1>2, <1>4, <1>5, <2>1, <2>2, <2>3
<1>6. CASE Verdict(c, s) \in FreshnessCodes
  <2>1. failed # {} /\ stages[first] \in FreshnessCodes /\ first \in 1..6
    BY <1>2, <1>3, <1>4, <1>6
  <2>2. first = 2
    BY <1>1, <1>4, <2>1, StageCodes
  <2>3. QED
    BY <1>1, <1>2, <1>4, <1>6, <2>1, <2>2
<1>7. QED
  BY <1>4, <1>5, <1>6

---------------------------------------------------------------------------
(***************************************************************************)
(* Types.                                                                  *)
(***************************************************************************)
LEMMA CoordinateTyped ==
  ASSUME NEW s \in Snapshots
  PROVE  /\ CoordinateOf(s) \in Coordinates
         /\ CoordinateOf(s).version = s.version
         /\ CoordinateOf(s).digest = s.digest
         /\ s.version \in Nat \ {0}
         /\ CoordinateOf(s) # Null
<1>1. s.version \in Nat \ {0} /\ s.digest \in Digests
  BY SnapshotAssumption DEF SnapshotType
<1>2. QED
  BY <1>1, NullAssumption DEF CoordinateOf, Coordinates

\* An accepted snapshot replays the coordinate, extends it by one linked
\* version, or is the first one.
LEMMA AcceptedLinks ==
  ASSUME TypeOK, NEW c \in Consumers, NEW s \in Snapshots,
         Verdict(c, s) = "ACCEPTED"
  PROVE  \/ coordinate[c] = Null
         \/ /\ coordinate[c] \in Coordinates
            /\ coordinate[c] = CoordinateOf(s)
         \/ /\ coordinate[c] \in Coordinates
            /\ s.version = coordinate[c].version + 1
            /\ s.previous = coordinate[c].digest
<1> SUFFICES ASSUME coordinate[c] # Null
             PROVE  \/ coordinate[c] = CoordinateOf(s)
                    \/ /\ s.version = coordinate[c].version + 1
                       /\ s.previous = coordinate[c].digest
  BY DEF TypeOK
<1>1. coordinate[c] \in Coordinates
  BY DEF TypeOK
<1>2. coordinate[c] = [version |-> coordinate[c].version,
                       digest  |-> coordinate[c].digest]
  BY <1>1 DEF Coordinates
<1>3. coordinate[c].version \in Nat /\ s.version \in Nat
  BY <1>1, CoordinateTyped DEF Coordinates
<1>4. ChainStage(coordinate[c], s) = "PASS"
  BY AcceptedPasses DEF Passes
<1>5. QED
  BY <1>2, <1>3, <1>4 DEF ChainStage, CoordinateOf

\* Whatever snapshots are delivered, a consumer's coordinate is none, and then it
\* went through nothing, or the one of those it went through that it stands at.
THEOREM TypeCorrect == Spec => []TypeOK
<1>1. Init => TypeOK
  BY ClockAssumption, PinnedAssumption, NullAssumption DEF Init, TypeOK
<1>2. TypeOK /\ [Next]_vars => TypeOK'
  <2> SUFFICES ASSUME TypeOK, [Next]_vars
               PROVE  TypeOK'
    OBVIOUS
  <2>1. CASE Tick
    BY <2>1, ClockAssumption DEF Tick, TypeOK
  <2>2. ASSUME NEW c \in Consumers, NEW s \in Snapshots, Accept(c, s)
        PROVE  TypeOK'
    <3>1. CoordinateOf(s) \in Coordinates /\ CoordinateOf(s) # Null
      BY CoordinateTyped
    <3>2. QED
      BY <2>2, <3>1 DEF Accept, TypeOK
  <2>3. CASE UNCHANGED vars
    BY <2>3 DEF vars, TypeOK
  <2>4. QED
    BY <2>1, <2>2, <2>3 DEF Next
<1>3. QED
  BY <1>1, <1>2, PTL DEF Spec

---------------------------------------------------------------------------
(***************************************************************************)
(* Chains.  The invariant speaks of one consumer, so that the steps of the *)
(* others are seen to leave it alone.                                      *)
(***************************************************************************)
LEMMA ChainInit == Init => HistoryIsAChain
<1> SUFFICES ASSUME Init, NEW c \in Consumers,
                    NEW x \in accepted[c], NEW y \in accepted[c]
             PROVE  /\ x = coordinate[c] /\ y = coordinate[c]
                    /\ x.version \in Nat
  BY DEF HistoryIsAChain
<1>1. accepted[c] = {coordinate[c]} \ {Null}
  BY DEF Init
<1>2. coordinate[c] \in Pinned
  BY <1>1 DEF Init
<1>3. QED
  BY <1>1, <1>2, PinnedAssumption DEF Coordinates

LEMMA ChainStep == TypeOK /\ HistoryIsAChain /\ [Next]_vars => HistoryIsAChain'
<1> SUFFICES ASSUME TypeOK, HistoryIsAChain, [Next]_vars
             PROVE  HistoryIsAChain'
  OBVIOUS
<1>1. CASE UNCHANGED <<coordinate, accepted>>
  BY <1>1 DEF HistoryIsAChain, CoordinateOf
<1>2. ASSUME NEW c \in Consumers, NEW s \in Snapshots, Accept(c, s)
      PROVE  HistoryIsAChain'
  <2> SUFFICES ASSUME NEW d \in Consumers,
                      NEW x \in accepted'[d], NEW y \in accepted'[d]
               PROVE  /\ x.version <= coordinate'[d].version
                      /\ x.version = y.version => x = y
                      /\ x.version < y.version =>
                           \E z \in accepted'[d], t \in Snapshots :
                             /\ y = CoordinateOf(t)
                             /\ y.version = z.version + 1
                             /\ t.previous = z.digest
    BY DEF HistoryIsAChain, CoordinateOf
  <2>1. CASE d # c
    <3>1. accepted'[d] = accepted[d] /\ coordinate'[d] = coordinate[d]
      BY <1>2, <2>1 DEF Accept, TypeOK
    <3>2. QED
      BY <3>1 DEF HistoryIsAChain
  <2>2. CASE d = c
    <3>1. /\ accepted'[c] = accepted[c] \cup {CoordinateOf(s)}
          /\ coordinate'[c] = CoordinateOf(s)
          /\ Verdict(c, s) = "ACCEPTED"
      BY <1>2 DEF Accept, TypeOK
    <3>2. /\ CoordinateOf(s).version = s.version
          /\ CoordinateOf(s).digest = s.digest
          /\ s.version \in Nat
      BY CoordinateTyped
    <3>3. /\ accepted[c] \subseteq Coordinates
          /\ \A z \in accepted[c] : z.version \in Nat
      BY DEF TypeOK, Coordinates
    <3>4. CASE coordinate[c] = Null
      <4>1. accepted[c] = {}
        BY <3>4 DEF TypeOK
      <4>2. QED
        BY <2>2, <3>1, <3>2, <4>1
    <3>5. CASE coordinate[c] \in Coordinates /\ coordinate[c] = CoordinateOf(s)
      <4>1. accepted'[c] = accepted[c] /\ coordinate'[c] = coordinate[c]
        BY <3>1, <3>5, NullAssumption DEF TypeOK
      <4>2. QED
        BY <2>2, <4>1 DEF HistoryIsAChain
    <3>6. CASE /\ coordinate[c] \in Coordinates
               /\ s.version = coordinate[c].version + 1
               /\ s.previous = coordinate[c].digest
      <4>1. coordinate[c] \in accepted[c] /\ coordinate[c].version \in Nat
        BY <3>3, <3>6, NullAssumption DEF TypeOK
      <4>2. \A z \in accepted[c] : z.version <= coordinate[c].version
        BY DEF HistoryIsAChain
      <4>3. \A z \in accepted[c] : z.version < s.version
        BY <3>3, <3>6, <4>1, <4>2
      <4>4. CASE y = CoordinateOf(s)
        BY <2>2, <3>1, <3>2, <3>3, <3>6, <4>1, <4>3, <4>4
      <4>5. CASE x = CoordinateOf(s) /\ y \in accepted[c]
        BY <2>2, <3>1, <3>2, <3>3, <4>3, <4>5
      <4>6. CASE x \in accepted[c] /\ y \in accepted[c]
        <5>1. x.version <= coordinate'[c].version
          BY <3>1, <3>2, <3>3, <4>3, <4>6
        <5>2. QED
          BY <2>2, <3>1, <4>6, <5>1 DEF HistoryIsAChain
      <4>7. QED
        BY <2>2, <3>1, <4>4, <4>5, <4>6
    <3>7. QED
      BY <3>1, <3>4, <3>5, <3>6, AcceptedLinks
  <2>3. QED
    BY <2>1, <2>2
<1>3. QED
  BY <1>1, <1>2 DEF Next, Tick, vars

(***************************************************************************)
(* Exact replay or next: every history is an unbroken chain.               *)
(***************************************************************************)
THEOREM HistoriesAreChains == Spec => []HistoryIsAChain
BY ChainInit, ChainStep, TypeCorrect, PTL DEF Spec

---------------------------------------------------------------------------
(***************************************************************************)
(* Fork consistency.  A shared coordinate that is a new version of one     *)
(* consumer leads, over the snapshot that carries it, to the predecessor,  *)
(* which both went through already.                                        *)
(***************************************************************************)
LEMMA SharedPredecessor ==
  ASSUME TypeOK, HistoryIsAChain,
         NEW c \in Consumers, NEW d \in Consumers, NEW s \in Snapshots,
         coordinate[c] \in Coordinates,
         s.version = coordinate[c].version + 1,
         s.previous = coordinate[c].digest,
         CoordinateOf(s) \in accepted[d],
         NEW z \in accepted[d], z.version < s.version
  PROVE  coordinate[c] \in accepted[d]
<1>1. /\ CoordinateOf(s).version = s.version
      /\ CoordinateOf(s).digest = s.digest
  BY CoordinateTyped
<1>2. PICK p \in accepted[d], t \in Snapshots :
        /\ CoordinateOf(s) = CoordinateOf(t)
        /\ CoordinateOf(s).version = p.version + 1
        /\ t.previous = p.digest
  BY <1>1 DEF HistoryIsAChain
<1>3. p \in Coordinates
  BY <1>2 DEF TypeOK
<1>4. s.digest = t.digest
  BY <1>2, CoordinateTyped
<1>5. p.digest = coordinate[c].digest
  BY <1>2, <1>4, DigestAssumption
<1>6. p.version \in Nat /\ coordinate[c].version \in Nat
  BY <1>3 DEF Coordinates
<1>7. p.version = coordinate[c].version
  BY <1>1, <1>2, <1>6
<1>8. p = coordinate[c]
  BY <1>3, <1>5, <1>7 DEF Coordinates
<1>9. QED
  BY <1>8

\* What one accepting consumer and one other went through stays consistent.
LEMMA ForkStepOther ==
  ASSUME TypeOK, HistoryIsAChain, ForkConsistency,
         NEW c \in Consumers, NEW s \in Snapshots, Verdict(c, s) = "ACCEPTED",
         NEW d \in Consumers,
         NEW x, x \in accepted[c] \cup {CoordinateOf(s)}, x \in accepted[d],
         NEW y, y \in accepted[c] \cup {CoordinateOf(s)},
         NEW z, z \in accepted[d],
         y.version = z.version, y.version <= x.version
  PROVE  y = z
<1>1. /\ CoordinateOf(s).version = s.version
      /\ CoordinateOf(s).digest = s.digest
      /\ s.version \in Nat
  BY CoordinateTyped
<1>2. /\ \A w \in accepted[c] : w \in Coordinates /\ w.version \in Nat
      /\ \A w \in accepted[d] : w \in Coordinates /\ w.version \in Nat
  BY DEF TypeOK, Coordinates
<1>3. CASE x \in accepted[c] /\ y \in accepted[c]
  BY <1>3 DEF ForkConsistency
<1>4. CASE x = CoordinateOf(s) /\ y = CoordinateOf(s)
  BY <1>4 DEF HistoryIsAChain
<1>5. CASE coordinate[c] = Null
  <2>1. accepted[c] = {}
    BY <1>5 DEF TypeOK
  <2>2. QED
    BY <1>4, <2>1
<1>6. CASE coordinate[c] \in Coordinates /\ coordinate[c] = CoordinateOf(s)
  <2>1. coordinate[c] \in accepted[c]
    BY <1>6, NullAssumption DEF TypeOK
  <2>2. QED
    BY <1>3, <1>6, <2>1
<1>7. CASE /\ coordinate[c] \in Coordinates
           /\ s.version = coordinate[c].version + 1
           /\ s.previous = coordinate[c].digest
  <2>1. coordinate[c] \in accepted[c]
    BY <1>7, NullAssumption DEF TypeOK
  <2>2. \A w \in accepted[c] : w.version <= coordinate[c].version
    BY DEF HistoryIsAChain
  <2>3. coordinate[c].version \in Nat
    BY <1>2, <2>1
  <2>4. CASE y = CoordinateOf(s) /\ x \in accepted[c]
    BY <1>1, <1>2, <1>7, <2>2, <2>3, <2>4
  <2>5. CASE x = CoordinateOf(s) /\ y \in accepted[c]
    <3>1. /\ y.version <= coordinate[c].version
          /\ z.version < s.version
      BY <1>1, <1>2, <1>7, <2>2, <2>3, <2>5
    <3>2. coordinate[c] \in accepted[d]
      BY <1>7, <2>5, <3>1, SharedPredecessor
    <3>3. QED
      BY <2>1, <2>5, <3>1, <3>2 DEF ForkConsistency
  <2>6. QED
    BY <1>3, <1>4, <2>4, <2>5
<1>8. QED
  BY <1>5, <1>6, <1>7, AcceptedLinks

LEMMA ForkInit == Init => ForkConsistency
<1> SUFFICES ASSUME Init, NEW c \in Consumers, NEW d \in Consumers,
                    NEW x \in accepted[c] \cap accepted[d],
                    NEW y \in accepted[c], NEW z \in accepted[d]
             PROVE  y = z
  BY DEF ForkConsistency
<1>1. /\ accepted[c] = {coordinate[c]} \ {Null}
      /\ accepted[d] = {coordinate[d]} \ {Null}
  BY DEF Init
<1>2. QED
  BY <1>1

LEMMA ForkStep ==
  TypeOK /\ HistoryIsAChain /\ HistoryIsAChain' /\ ForkConsistency /\ [Next]_vars
    => ForkConsistency'
<1> SUFFICES ASSUME TypeOK, HistoryIsAChain, HistoryIsAChain', ForkConsistency,
                    [Next]_vars
             PROVE  ForkConsistency'
  OBVIOUS
<1>1. CASE UNCHANGED accepted
  BY <1>1 DEF ForkConsistency
<1>2. ASSUME NEW c \in Consumers, NEW s \in Snapshots, Accept(c, s)
      PROVE  ForkConsistency'
  <2> SUFFICES ASSUME NEW e \in Consumers, NEW d \in Consumers,
                      NEW x \in accepted'[e] \cap accepted'[d],
                      NEW y \in accepted'[e], NEW z \in accepted'[d],
                      y.version = z.version, y.version <= x.version
               PROVE  y = z
    BY DEF ForkConsistency
  <2>1. /\ accepted'[c] = accepted[c] \cup {CoordinateOf(s)}
        /\ \A w \in Consumers \ {c} : accepted'[w] = accepted[w]
        /\ Verdict(c, s) = "ACCEPTED"
    BY <1>2 DEF Accept, TypeOK
  <2>2. CASE e = d
    BY <2>2 DEF HistoryIsAChain
  <2>3. CASE e = c /\ d # c
    BY <2>1, <2>3, ForkStepOther
  <2>4. CASE e # c /\ d = c
    <3>1. /\ z.version = y.version
          /\ z.version <= x.version
          /\ accepted'[e] = accepted[e]
      BY <2>1, <2>4
    <3>2. QED
      BY <2>1, <2>4, <3>1, ForkStepOther
  <2>5. CASE e # c /\ d # c
    BY <2>1, <2>5 DEF ForkConsistency
  <2>6. QED
    BY <2>2, <2>3, <2>4, <2>5
<1>3. QED
  BY <1>1, <1>2 DEF Next, Tick, vars

(***************************************************************************)
(* Consumers led onto different branches never meet again.                 *)
(***************************************************************************)
THEOREM ForksNeverMeet == Spec => []ForkConsistency
BY ForkInit, ForkStep, TypeCorrect, HistoriesAreChains, PTL DEF Spec

(***************************************************************************)
(* A consumer's coordinate only moves to the next version.                 *)
(***************************************************************************)
THEOREM NeverBack == Spec => VersionsNeverGoBack
<1> DEFINE A == \A c \in Consumers :
                  coordinate[c] # Null =>
                    /\ coordinate'[c].version
                         \in coordinate[c].version .. (coordinate[c].version + 1)
                    /\ coordinate'[c].version = coordinate[c].version
                         => coordinate'[c] = coordinate[c]
<1>1. TypeOK /\ [Next]_vars => A
  <2> SUFFICES ASSUME TypeOK, [Next]_vars, NEW c \in Consumers,
                      coordinate[c] # Null
               PROVE  /\ coordinate'[c].version
                           \in coordinate[c].version .. (coordinate[c].version + 1)
                      /\ coordinate'[c].version = coordinate[c].version
                           => coordinate'[c] = coordinate[c]
    OBVIOUS
  <2>1. coordinate[c].version \in Nat
    BY DEF TypeOK, Coordinates
  <2>2. CASE coordinate'[c] = coordinate[c]
    BY <2>1, <2>2
  <2>3. ASSUME NEW s \in Snapshots, Accept(c, s),
               coordinate'[c] # coordinate[c]
        PROVE  coordinate'[c].version = coordinate[c].version + 1
    <3>1. coordinate'[c] = CoordinateOf(s) /\ Verdict(c, s) = "ACCEPTED"
      BY <2>3 DEF Accept, TypeOK
    <3>2. s.version = coordinate[c].version + 1
      BY <2>3, <3>1, AcceptedLinks
    <3>3. QED
      BY <3>1, <3>2, CoordinateTyped
  <2>4. \/ coordinate'[c] = coordinate[c]
        \/ \E s \in Snapshots : Accept(c, s)
    BY DEF Next, Tick, Accept, TypeOK, vars
  <2>5. QED
    BY <2>1, <2>2, <2>3, <2>4
<1>2. QED
  BY <1>1, TypeCorrect, PTL DEF Spec, VersionsNeverGoBack

---------------------------------------------------------------------------
(***************************************************************************)
(* What a judgement rests on.                                              *)
(***************************************************************************)
LEMMA ClockTyped == TypeOK => clock \in Nat
BY ClockAssumption DEF TypeOK

(***************************************************************************)
(* Whoever judges by the signed bound accepts whatever a consumer with a   *)
(* cache bound of its own accepts from the same coordinate.                *)
(***************************************************************************)
THEOREM BoundsOnlyNarrow == Spec => []CallerBoundOnlyNarrows
<1>1. TypeOK => CallerBoundOnlyNarrows
  <2> SUFFICES ASSUME TypeOK, NEW c \in Consumers, NEW d \in Consumers,
                      coordinate[c] = coordinate[d], Bound[d] = Null,
                      NEW s \in Snapshots, Verdict(c, s) = "ACCEPTED"
               PROVE  Verdict(d, s) = "ACCEPTED"
    BY DEF CallerBoundOnlyNarrows
  <2>1. Passes(c, s)
    BY AcceptedPasses
  <2>2. /\ s.generatedAt \in Nat /\ s.maxAge \in Nat /\ clock \in Nat
        /\ FreshnessBound(c, s) \in Nat
    BY SnapshotAssumption, BoundAssumption, ClockTyped
    DEF SnapshotType, FreshnessBound
  <2>3. /\ s.generatedAt <= clock
        /\ ~(s.expiresAt <= s.generatedAt \/ clock >= s.expiresAt)
        /\ FreshnessBound(c, s) <= s.maxAge
        /\ clock - s.generatedAt <= FreshnessBound(c, s)
    BY <2>1, <2>2 DEF Passes, FreshnessStage
  <2>4. FreshnessBound(d, s) = s.maxAge
    BY DEF FreshnessBound
  <2>5. FreshnessStage(d, s) = "PASS"
    BY <2>2, <2>3, <2>4 DEF FreshnessStage
  <2>6. QED
    BY <2>1, <2>5, AcceptedPasses DEF Passes
<1>2. QED
  BY <1>1, TypeCorrect, PTL

\* A key that is active has neither ended nor been revoked.
LEMMA ActiveHasNotEnded ==
  ASSUME NEW key \in KeyType, TypeOK, Active(key)
  PROVE  ~Ended(key)
BY ClockTyped, NullAssumption DEF KeyType, Active, Ended

(***************************************************************************)
(* No key that bears the name of a signer of an accepted snapshot is dead, *)
(* and neither is the root.                                                *)
(***************************************************************************)
THEOREM DeadKeysNeverVouch == Spec => []NoDeadKeyVouches
<1>1. TypeOK => NoDeadKeyVouches
  <2> SUFFICES ASSUME TypeOK, NEW c \in Consumers, NEW s \in Snapshots,
                      Verdict(c, s) = "ACCEPTED"
               PROVE  /\ ~Ended(Anchor)
                      /\ \A i \in DOMAIN s.keys, j \in DOMAIN s.signers :
                           s.keys[i].name = s.signers[j].name => ~Ended(s.keys[i])
    BY DEF NoDeadKeyVouches
  <2>1. Passes(c, s)
    BY AcceptedPasses
  <2>2. ~Ended(Anchor)
    <3>1. Active(Anchor)
      BY <2>1 DEF Passes, RootStage
    <3>2. QED
      BY <3>1, AnchorAssumption, ActiveHasNotEnded
  <2>3. ASSUME NEW i \in DOMAIN s.keys, NEW j \in DOMAIN s.signers,
               s.keys[i].name = s.signers[j].name
        PROVE  ~Ended(s.keys[i])
    <3>1. \A m \in DOMAIN s.signers : s.signers[m].name \in ActiveNames(s)
      <4> DEFINE bad == {m \in DOMAIN s.signers : s.signers[m].name \notin ActiveNames(s)}
      <4>1. SignersStage(s) = "PASS"
        BY <2>1 DEF Passes
      <4>2. bad = {}
        BY <4>1 DEF SignersStage
      <4>3. QED
        BY <4>2
    <3>2. PICK k \in DOMAIN s.keys :
            Active(s.keys[k]) /\ s.keys[k].name = s.signers[j].name
      BY <3>1 DEF ActiveNames
    <3>3. k = i
      BY <2>1, <2>3, <3>2 DEF Passes, KeysStage
    <3>4. s.keys[i] \in KeyType
      BY SnapshotAssumption DEF SnapshotType
    <3>5. QED
      BY <3>2, <3>3, <3>4, ActiveHasNotEnded
  <2>4. QED
    BY <2>2, <2>3
<1>2. QED
  BY <1>1, TypeCorrect, PTL

---------------------------------------------------------------------------
(***************************************************************************)
(* Where a coordinate comes from: it was pinned, or the root signed it.    *)
(***************************************************************************)
CoordinatesAreVouched ==
  \A c \in Consumers :
    \/ coordinate[c] = Null
    \/ coordinate[c] \in Pinned
    \/ \E t \in Snapshots : SignedByRoot(t) /\ CoordinateOf(t) = coordinate[c]

LEMMA RootStageSigned ==
  ASSUME NEW s \in Snapshots, RootStage(s) = "PASS"
  PROVE  SignedByRoot(s)
<1>1. s.signature \in {"VALID", "INVALID", "MALFORMED"}
  BY SnapshotAssumption DEF SnapshotType
<1>2. QED
  BY <1>1 DEF RootStage, SignedByRoot

LEMMA AlwaysVouched == Spec => []CoordinatesAreVouched
<1>1. Init => CoordinatesAreVouched
  BY DEF Init, CoordinatesAreVouched
<1>2. TypeOK /\ CoordinatesAreVouched /\ [Next]_vars => CoordinatesAreVouched'
  <2> SUFFICES ASSUME TypeOK, CoordinatesAreVouched, [Next]_vars
               PROVE  CoordinatesAreVouched'
    OBVIOUS
  <2>1. CASE UNCHANGED coordinate
    BY <2>1 DEF CoordinatesAreVouched, SignedByRoot, CoordinateOf
  <2>2. ASSUME NEW c \in Consumers, NEW s \in Snapshots, Accept(c, s)
        PROVE  CoordinatesAreVouched'
    <3>1. SignedByRoot(s)
      BY <2>2, AcceptedPasses, RootStageSigned DEF Accept, Passes
    <3>2. \A d \in Consumers :
            coordinate'[d] = IF d = c THEN CoordinateOf(s) ELSE coordinate[d]
      BY <2>2 DEF Accept, TypeOK
    <3>3. QED
      BY <3>1, <3>2 DEF CoordinatesAreVouched, SignedByRoot, CoordinateOf
  <2>3. QED
    BY <2>1, <2>2 DEF Next, Tick, vars
<1>3. QED
  BY <1>1, <1>2, TypeCorrect, PTL DEF Spec

(***************************************************************************)
(* A verdict on the chain is evidence of what the root itself signed.      *)
(***************************************************************************)
THEOREM AccusationsProven == Spec => []AccusationsAreProven
<1>1. TypeOK /\ CoordinatesAreVouched => AccusationsAreProven
  <2> SUFFICES ASSUME TypeOK, CoordinatesAreVouched,
                      NEW c \in Consumers, NEW s \in Snapshots
               PROVE  /\ Verdict(c, s) \in {"ROLLBACK", "VERSION_FORK",
                                            "VERSION_GAP", "CHAIN_MISMATCH"}
                           => SignedByRoot(s)
                      /\ Verdict(c, s) = "VERSION_FORK" =>
                           \/ coordinate[c] \in Pinned
                           \/ \E t \in Snapshots :
                                /\ SignedByRoot(t)
                                /\ CoordinateOf(t) = coordinate[c]
                                /\ t.version = s.version
                                /\ t.digest # s.digest
    BY DEF AccusationsAreProven
  <2>1. Verdict(c, s) \in ChainCodes => SignedByRoot(s)
    BY VerdictStage, RootStageSigned
  <2>2. ASSUME Verdict(c, s) = "VERSION_FORK", coordinate[c] \notin Pinned
        PROVE  \E t \in Snapshots :
                 /\ SignedByRoot(t)
                 /\ CoordinateOf(t) = coordinate[c]
                 /\ t.version = s.version
                 /\ t.digest # s.digest
    <3>1. ChainStage(coordinate[c], s) = "VERSION_FORK"
      BY <2>2, VerdictStage DEF ChainCodes
    <3>2. /\ coordinate[c] # Null
          /\ s.version = coordinate[c].version
          /\ s.digest # coordinate[c].digest
      BY <3>1 DEF ChainStage
    <3>3. PICK t \in Snapshots : SignedByRoot(t) /\ CoordinateOf(t) = coordinate[c]
      BY <2>2, <3>2 DEF CoordinatesAreVouched
    <3>4. t.version = coordinate[c].version /\ t.digest = coordinate[c].digest
      BY <3>3, CoordinateTyped
    <3>5. QED
      BY <3>2, <3>3, <3>4
  <2>3. QED
    BY <2>1, <2>2 DEF ChainCodes
<1>2. QED
  BY <1>1, TypeCorrect, AlwaysVouched, PTL

---------------------------------------------------------------------------
(***************************************************************************)
(* Final refusals.  A snapshot is lost to a consumer once it is too old,   *)
(* or lies behind, beside, or next to but not upon its coordinate; and     *)
(* lost it stays, because a version that comes next on another digest      *)
(* turns into a fork of the one that was accepted there.                   *)
(***************************************************************************)
TooOld(c, s) ==
  \/ s.expiresAt <= s.generatedAt
  \/ clock >= s.expiresAt
  \/ clock > s.generatedAt + FreshnessBound(c, s)

OffChain(c, s) ==
  /\ coordinate[c] # Null
  /\ \/ s.version < coordinate[c].version
     \/ /\ s.version = coordinate[c].version
        /\ s.digest # coordinate[c].digest
     \/ /\ s.version = coordinate[c].version + 1
        /\ s.previous # coordinate[c].digest

Lost(c, s) == TooOld(c, s) \/ OffChain(c, s)

LEMMA SnapshotNumbers ==
  ASSUME NEW c \in Consumers, NEW s \in Snapshots
  PROVE  /\ s.generatedAt \in Nat /\ s.expiresAt \in Nat /\ s.maxAge \in Nat
         /\ s.version \in Nat /\ FreshnessBound(c, s) \in Nat
BY SnapshotAssumption, BoundAssumption DEF SnapshotType, FreshnessBound

LEMMA FinalRefusalIsLost ==
  ASSUME TypeOK, NEW c \in Consumers, NEW s \in Snapshots,
         Verdict(c, s) \in FinalRefusals
  PROVE  Lost(c, s)
<1>1. CASE Verdict(c, s) \in FreshnessCodes
  <2>1. FreshnessStage(c, s) \in FreshnessCodes
    BY <1>1, VerdictStage
  <2>2. QED
    BY <2>1, SnapshotNumbers, ClockTyped
    DEF FreshnessStage, FreshnessCodes, Lost, TooOld
<1>2. CASE Verdict(c, s) \in {"ROLLBACK", "VERSION_FORK", "CHAIN_MISMATCH"}
  <2>1. ChainStage(coordinate[c], s) \in {"ROLLBACK", "VERSION_FORK", "CHAIN_MISMATCH"}
    BY <1>2, VerdictStage DEF ChainCodes
  <2>2. QED
    BY <2>1 DEF ChainStage, Lost, OffChain
<1>3. QED
  BY <1>1, <1>2 DEF FinalRefusals, FreshnessCodes

LEMMA LostIsNotAccepted ==
  ASSUME TypeOK, NEW c \in Consumers, NEW s \in Snapshots, Lost(c, s)
  PROVE  Verdict(c, s) # "ACCEPTED"
<1> SUFFICES ASSUME Verdict(c, s) = "ACCEPTED" PROVE FALSE
  OBVIOUS
<1>1. Passes(c, s)
  BY AcceptedPasses
<1>2. ~TooOld(c, s)
  BY <1>1, SnapshotNumbers, ClockTyped DEF Passes, FreshnessStage, TooOld
<1>3. ~OffChain(c, s)
  <2> SUFFICES ASSUME coordinate[c] # Null PROVE ~OffChain(c, s)
    BY DEF OffChain
  <2>1. coordinate[c].version \in Nat
    BY DEF TypeOK, Coordinates
  <2>2. QED
    BY <1>1, <2>1, SnapshotNumbers DEF Passes, ChainStage, OffChain
<1>4. QED
  BY <1>2, <1>3 DEF Lost

LEMMA LostStaysLost ==
  ASSUME TypeOK, [Next]_vars, NEW c \in Consumers, NEW s \in Snapshots, Lost(c, s)
  PROVE  Lost(c, s)'
<1>1. clock' = clock \/ clock' = clock + 1
  BY DEF Next, Tick, Accept, vars
<1>2. CASE TooOld(c, s)
  BY <1>1, <1>2, SnapshotNumbers, ClockTyped DEF TooOld, Lost, FreshnessBound
<1>3. CASE OffChain(c, s)
  <2>1. coordinate[c] \in Coordinates /\ coordinate[c].version \in Nat
    BY <1>3 DEF OffChain, TypeOK, Coordinates
  <2>2. CASE coordinate'[c] = coordinate[c]
    BY <1>3, <2>2 DEF OffChain, Lost
  <2>3. ASSUME NEW t \in Snapshots, Accept(c, t), coordinate'[c] # coordinate[c]
        PROVE  OffChain(c, s)'
    <3>1. coordinate'[c] = CoordinateOf(t) /\ Verdict(c, t) = "ACCEPTED"
      BY <2>3 DEF Accept, TypeOK
    <3>2. /\ t.version = coordinate[c].version + 1
          /\ t.previous = coordinate[c].digest
      BY <1>3, <2>3, <3>1, AcceptedLinks DEF OffChain
    <3>3. /\ coordinate'[c] # Null
          /\ coordinate'[c].version = t.version
          /\ coordinate'[c].digest = t.digest
      BY <3>1, CoordinateTyped
    <3>4. s.digest = t.digest => s.previous = t.previous
      BY DigestAssumption
    <3>5. QED
      BY <1>3, <2>1, <3>2, <3>3, <3>4, SnapshotNumbers DEF OffChain
  <2>4. \/ coordinate'[c] = coordinate[c]
        \/ \E t \in Snapshots : Accept(c, t)
    BY DEF Next, Tick, Accept, TypeOK, vars
  <2>5. QED
    BY <2>2, <2>3, <2>4 DEF Lost
<1>4. QED
  BY <1>2, <1>3 DEF Lost

(***************************************************************************)
(* A snapshot refused for age, rollback, fork or mismatch is refused for   *)
(* ever by that consumer.                                                  *)
(***************************************************************************)
THEOREM RefusalsStand == Spec => RefusalsAreFinal
<1>1. ASSUME NEW c \in Consumers, NEW s \in Snapshots
      PROVE  Spec => [](Verdict(c, s) \in FinalRefusals
                          => [](Verdict(c, s) # "ACCEPTED"))
  <2>1. TypeOK /\ Verdict(c, s) \in FinalRefusals => Lost(c, s)
    BY FinalRefusalIsLost
  <2>2. TypeOK /\ Lost(c, s) => Verdict(c, s) # "ACCEPTED"
    BY LostIsNotAccepted
  <2>3. TypeOK /\ [Next]_vars /\ Lost(c, s) => Lost(c, s)'
    BY LostStaysLost
  <2>4. QED
    BY <2>1, <2>2, <2>3, TypeCorrect, PTL DEF Spec
<1>2. QED
  BY <1>1 DEF RefusalsAreFinal
=============================================================================
