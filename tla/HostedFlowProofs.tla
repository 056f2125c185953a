------------------------- MODULE HostedFlowProofs -------------------------
(***************************************************************************)
(* Theorems about HostedFlow for every set of keys, fingerprints and valid *)
(* requests.                                                               *)
(***************************************************************************)
EXTENDS HostedFlow, TLAPS

---------------------------------------------------------------------------
(***************************************************************************)
(* The registry.                                                           *)
(***************************************************************************)
Edge(machine, from, to) ==
  RegistryEdge(machine, from, to, "HOSTED", "MANDATE_PROTECTED")

\* The lookup answers for the hosted table and the mandate-protected one.
LEMMA EdgeTables ==
  ASSUME NEW from, NEW to
  PROVE  /\ Edge("invocation", from, to) <=> <<from, to>> \in HostedEdges
         /\ Edge("paymentIntent", from, to) <=> <<from, to>> \in MandateEdges
         /\ Edge("listing", from, to) <=> <<from, to>> \in ListingEdges
  BY DEF Edge, RegistryEdge, InvocationEdges, PaymentIntentEdges

\* Which states the invocation's hosted edges leave, by the state they enter.
LEMMA HostedSources ==
  ASSUME NEW from
  PROVE  /\ <<from, "PAYMENT_REQUIRED">> \in HostedEdges <=> from = "CREATED"
         /\ <<from, "PAYMENT_AUTHORIZED">> \in HostedEdges
              <=> from = "PAYMENT_REQUIRED"
         /\ <<from, "EXECUTING">> \in HostedEdges
              <=> from = "PAYMENT_AUTHORIZED"
         /\ <<from, "OUTPUT_STAGED">> \in HostedEdges <=> from = "EXECUTING"
         /\ <<from, "SETTLEMENT_PENDING">> \in HostedEdges
              <=> from = "OUTPUT_STAGED"
         /\ <<from, "DELIVERABLE">> \in HostedEdges
              <=> from \in {"SETTLEMENT_PENDING", "PAYMENT_UNKNOWN"}
         /\ <<from, "DELIVERED">> \in HostedEdges <=> from = "DELIVERABLE"
         /\ <<from, "ACKED">> \in HostedEdges <=> from = "DELIVERED"
         /\ <<from, "FAILED_BEFORE_SETTLEMENT">> \in HostedEdges
              <=> from \in { "CREATED", "PAYMENT_REQUIRED",
                             "PAYMENT_AUTHORIZED", "EXECUTING",
                             "OUTPUT_STAGED", "SETTLEMENT_PENDING",
                             "PAYMENT_UNKNOWN" }
         /\ <<from, "UNKNOWN_STATE">> \notin HostedEdges
  BY DEF HostedEdges, SharedEdges

\* The same for the edges of the payment intent the macros take.
LEMMA MandateSources ==
  ASSUME NEW from
  PROVE  /\ <<from, "SUBMITTED">> \in MandateEdges
              <=> from \in {"AUTHORIZED", "SETTLEMENT_UNKNOWN"}
         /\ <<from, "CONFIRMED">> \in MandateEdges
              <=> from \in {"SUBMITTED", "SETTLEMENT_UNKNOWN"}
         /\ <<"CREATED", "AUTHORIZING">> \notin MandateEdges
  BY DEF MandateEdges, CommonPaymentEdges

\* A change the registry holds is between states of the machines.
LEMMA EdgesAreChanges ==
  ASSUME NEW machine, NEW from, NEW to, Edge(machine, from, to)
  PROVE  Change(machine, from, to) \in Changes
  <1>1. CASE machine = "listing"
    <2>1. <<from, to>> \in ListingEdges
      BY <1>1, EdgeTables
    <2>2. from \in ListingStates /\ to \in ListingStates
      BY <2>1 DEF ListingEdges, ListingStates
    <2>3. QED
      BY <1>1, <2>2 DEF Change, Changes, Machines
  <1>2. CASE machine = "invocation"
    <2>1. <<from, to>> \in HostedEdges
      BY <1>2, EdgeTables
    <2>2. from \in InvocationStates /\ to \in InvocationStates
      BY <2>1 DEF HostedEdges, SharedEdges, InvocationStates
    <2>3. QED
      BY <1>2, <2>2 DEF Change, Changes, Machines
  <1>3. CASE machine = "paymentIntent"
    <2>1. <<from, to>> \in MandateEdges
      BY <1>3, EdgeTables
    <2>2. from \in PaymentIntentStates /\ to \in PaymentIntentStates
      BY <2>1 DEF MandateEdges, CommonPaymentEdges, PaymentIntentStates
    <2>3. QED
      BY <1>3, <2>2 DEF Change, Changes, Machines
  <1>4. QED
    BY <1>1, <1>2, <1>3 DEF Edge, RegistryEdge

---------------------------------------------------------------------------
(***************************************************************************)
(* Traces.  What an admitted request says about the state it meets.        *)
(***************************************************************************)

\* A legal trace has an edge at each of its places.
LEMMA LegalAt ==
  ASSUME NEW trace, Legal(trace), NEW i \in 1..Len(trace),
         NEW machine, NEW from, NEW to, trace[i] = Change(machine, from, to)
  PROVE  Edge(machine, from, to)
  BY DEF Legal, Edge, Change

\* In particular at the first and the second place.
LEMMA LegalHead ==
  ASSUME NEW trace, Legal(trace), Len(trace) \in Nat, Len(trace) >= 1,
         NEW machine, NEW from, NEW to, trace[1] = Change(machine, from, to)
  PROVE  Edge(machine, from, to)
  BY LegalAt, 1 \in 1..Len(trace)

LEMMA LegalSecond ==
  ASSUME NEW trace, Legal(trace), Len(trace) \in Nat, Len(trace) >= 2,
         NEW machine, NEW from, NEW to, trace[2] = Change(machine, from, to)
  PROVE  Edge(machine, from, to)
  BY LegalAt, 2 \in 1..Len(trace)

\* A VERIFY is admitted only unmutated and in CREATED.
LEMMA LegalVerify ==
  ASSUME NEW r, Legal(VerifyTrace(r)),
         r.macroMutation \in {"none", "UNKNOWN_TRANSITION",
                              "SKIP_REQUIRED_STATE", "SKIP_RESERVATION"}
  PROVE  /\ r.macroMutation = "none"
         /\ invocation.state = "CREATED"
         /\ VerifyTrace(r) \in Seq(Changes)
  <1> DEFINE t == VerifyTrace(r)
  <1>1. r.macroMutation # "UNKNOWN_TRANSITION"
    <2> SUFFICES ASSUME r.macroMutation = "UNKNOWN_TRANSITION" PROVE FALSE
      OBVIOUS
    <2>1. /\ Len(t) = 1
          /\ t[1] = Change("invocation", invocation.state, "UNKNOWN_STATE")
      BY DEF VerifyTrace, Inv
    <2>2. Edge("invocation", invocation.state, "UNKNOWN_STATE")
      BY <2>1, LegalHead
    <2>3. QED
      BY <2>2, EdgeTables, HostedSources
  <1>2. r.macroMutation # "SKIP_REQUIRED_STATE"
    <2> SUFFICES ASSUME r.macroMutation = "SKIP_REQUIRED_STATE" PROVE FALSE
      OBVIOUS
    <2>1. /\ Len(t) = 2
          /\ t[2] = Change("invocation", "PAYMENT_AUTHORIZED",
                           "PAYMENT_REQUIRED")
      BY DEF VerifyTrace, Inv
    <2>2. Edge("invocation", "PAYMENT_AUTHORIZED", "PAYMENT_REQUIRED")
      BY <2>1, LegalSecond
    <2>3. QED
      BY <2>2, EdgeTables, HostedSources
  <1>3. r.macroMutation # "SKIP_RESERVATION"
    <2> SUFFICES ASSUME r.macroMutation = "SKIP_RESERVATION" PROVE FALSE
      OBVIOUS
    <2>1. /\ Len(t) = 2
          /\ t[2] = Change("paymentIntent", "CREATED", "AUTHORIZING")
      BY DEF VerifyTrace, Pay
    <2>2. Edge("paymentIntent", "CREATED", "AUTHORIZING")
      BY <2>1, LegalSecond
    <2>3. QED
      BY <2>2, EdgeTables, MandateSources
  <1>4. t = << Inv(invocation.state, "PAYMENT_REQUIRED"),
               Pay("CREATED", "RESERVED"),
               Pay("RESERVED", "AUTHORIZING"),
               Pay("AUTHORIZING", "AUTHORIZED"),
               Inv("PAYMENT_REQUIRED", "PAYMENT_AUTHORIZED") >>
    BY <1>1, <1>2, <1>3 DEF VerifyTrace
  <1>5. /\ Len(t) \in Nat /\ Len(t) >= 1
        /\ t[1] = Change("invocation", invocation.state, "PAYMENT_REQUIRED")
    BY <1>4 DEF Inv
  <1>6. invocation.state = "CREATED"
    <2>1. Legal(t)
      OBVIOUS
    <2> HIDE DEF t
    <2>2. Edge("invocation", invocation.state, "PAYMENT_REQUIRED")
      BY <1>5, <2>1, LegalHead
    <2>3. QED
      BY <2>2, EdgeTables, HostedSources
  <1>7. t \in Seq(Changes)
    BY <1>4, <1>6 DEF Inv, Pay, Change, Changes, Machines, InvocationStates,
                      PaymentIntentStates
  <1>8. QED
    BY <1>1, <1>2, <1>3, <1>6, <1>7

\* A trace of a single change of the invocation.
LEMMA LegalInvocationChange ==
  ASSUME NEW to, Legal(<< Inv(invocation.state, to) >>)
  PROVE  /\ <<invocation.state, to>> \in HostedEdges
         /\ << Inv(invocation.state, to) >> \in Seq(Changes)
  <1>1. Edge("invocation", invocation.state, to)
    BY DEF Legal, Edge, Inv, Change
  <1>2. QED
    BY <1>1, EdgesAreChanges, EdgeTables DEF Inv

\* A SETTLE is admitted only for staged output and an open intent.
LEMMA LegalSettle ==
  ASSUME NEW r, r.settlementUnknown \in BOOLEAN, Legal(SettleTrace(r))
  PROVE  /\ invocation.state = "OUTPUT_STAGED"
         /\ paymentIntent.state \in {"AUTHORIZED", "SETTLEMENT_UNKNOWN"}
         /\ SettleTrace(r) \in Seq(Changes)
  <1> DEFINE head == << Inv(invocation.state, "SETTLEMENT_PENDING"),
                        Pay(paymentIntent.state, "SUBMITTED") >>
             unknown == << Pay("SUBMITTED", "SETTLEMENT_UNKNOWN"),
                           Inv("SETTLEMENT_PENDING", "PAYMENT_UNKNOWN") >>
             final == << Pay("SUBMITTED", "CONFIRMED"),
                         Pay("CONFIRMED", "FINALIZED"),
                         Inv("SETTLEMENT_PENDING", "DELIVERABLE") >>
             tail == IF r.settlementUnknown THEN unknown ELSE final
             t == SettleTrace(r)
  <1>1. t = head \o tail
    BY DEF SettleTrace
  <1>2. /\ Len(t) \in Nat /\ Len(t) >= 2
        /\ t[1] = Change("invocation", invocation.state, "SETTLEMENT_PENDING")
        /\ t[2] = Change("paymentIntent", paymentIntent.state, "SUBMITTED")
    BY <1>1 DEF Inv, Pay
  <1>3. /\ Edge("invocation", invocation.state, "SETTLEMENT_PENDING")
        /\ Edge("paymentIntent", paymentIntent.state, "SUBMITTED")
    <2> HIDE DEF t
    <2>1. QED
      BY <1>2, LegalHead, LegalSecond DEF t
  <1>4. /\ invocation.state = "OUTPUT_STAGED"
        /\ paymentIntent.state \in {"AUTHORIZED", "SETTLEMENT_UNKNOWN"}
    <2>1. invocation.state = "OUTPUT_STAGED"
      BY <1>3, EdgeTables, HostedSources
    <2>2. paymentIntent.state \in {"AUTHORIZED", "SETTLEMENT_UNKNOWN"}
      BY <1>3, EdgeTables, MandateSources
    <2>3. QED
      BY <2>1, <2>2
  <1>5. head \in Seq(Changes) /\ unknown \in Seq(Changes)
          /\ final \in Seq(Changes)
    BY <1>4 DEF Inv, Pay, Change, Changes, Machines, InvocationStates,
                PaymentIntentStates
  <1>6. QED
    BY <1>1, <1>4, <1>5

\* A settlement is resolved only while its outcome is outstanding.
LEMMA LegalResolve ==
  ASSUME Legal(ResolveTrace)
  PROVE  /\ paymentIntent.state \in {"SUBMITTED", "SETTLEMENT_UNKNOWN"}
         /\ invocation.state \in {"SETTLEMENT_PENDING", "PAYMENT_UNKNOWN"}
         /\ ResolveTrace \in Seq(Changes)
  <1>1. /\ Len(ResolveTrace) = 3
        /\ ResolveTrace[1]
             = Change("paymentIntent", paymentIntent.state, "CONFIRMED")
        /\ ResolveTrace[3]
             = Change("invocation", invocation.state, "DELIVERABLE")
    BY DEF ResolveTrace, Inv, Pay
  <1>2. Edge("paymentIntent", paymentIntent.state, "CONFIRMED")
    BY <1>1, LegalHead
  <1>3. Edge("invocation", invocation.state, "DELIVERABLE")
    BY <1>1, LegalAt, 3 \in 1..Len(ResolveTrace)
  <1>4. paymentIntent.state \in {"SUBMITTED", "SETTLEMENT_UNKNOWN"}
    BY <1>2, EdgeTables, MandateSources
  <1>5. invocation.state \in {"SETTLEMENT_PENDING", "PAYMENT_UNKNOWN"}
    BY <1>3, EdgeTables, HostedSources
  <1>6. QED
    BY <1>4, <1>5 DEF ResolveTrace, Inv, Pay, Change, Changes, Machines,
                      InvocationStates, PaymentIntentStates

\* A listing is revoked at once, with the failure of a call not yet settled.
LEMMA LegalRevoke ==
  ASSUME Legal(RevokeTrace)
  PROVE  /\ listing \in {"ACTIVE", "SUSPENDED_NEW"}
         /\ ~SettlementFinal =>
              <<invocation.state, "FAILED_BEFORE_SETTLEMENT">> \in HostedEdges
         /\ RevokeTrace \in Seq(Changes)
  <1> DEFINE head == << Change("listing", listing, "EMERGENCY_REVOKED") >>
             t == RevokeTrace
  <1>1. t = head \o IF SettlementFinal THEN <<>> ELSE FailTrace
    BY DEF RevokeTrace
  <1>2. /\ Len(t) \in Nat /\ Len(t) >= 1
        /\ t[1] = Change("listing", listing, "EMERGENCY_REVOKED")
    BY <1>1 DEF FailTrace
  <1>3. Edge("listing", listing, "EMERGENCY_REVOKED")
    BY <1>2, LegalHead
  <1>4. listing \in {"ACTIVE", "SUSPENDED_NEW"}
    BY <1>3, EdgeTables DEF ListingEdges
  <1>5. head \in Seq(Changes)
    BY <1>4 DEF Change, Changes, Machines, ListingStates
  <1>6. CASE SettlementFinal
    BY <1>1, <1>4, <1>5, <1>6
  <1>7. CASE ~SettlementFinal
    <2>1. /\ Len(t) = 2
          /\ t[2] = Change("invocation", invocation.state,
                           "FAILED_BEFORE_SETTLEMENT")
      BY <1>1, <1>7 DEF FailTrace, Inv
    <2>2. Edge("invocation", invocation.state, "FAILED_BEFORE_SETTLEMENT")
      BY <2>1, LegalSecond
    <2>3. FailTrace \in Seq(Changes)
      BY <2>2, EdgesAreChanges DEF FailTrace, Inv
    <2>4. QED
      BY <1>1, <1>4, <1>5, <1>7, <2>2, <2>3, EdgeTables
  <1>8. QED
    BY <1>6, <1>7

---------------------------------------------------------------------------
(***************************************************************************)
(* Requests.                                                               *)
(***************************************************************************)

\* The fields of a request, as validation leaves them.
LEMMA RequestFields ==
  ASSUME NEW r \in Requests
  PROVE  /\ r.idempotencyKey \in Keys
         /\ r.type \in ActionTypes
         /\ r.fingerprintDigest \in Fingerprints
         /\ r.proofDigest \in Digests
         /\ r.fault \in {"none", "TIMEOUT_BEFORE_COMMIT",
                         "TIMEOUT_AFTER_COMMIT"}
         /\ r.sellerFailed \in BOOLEAN
         /\ r.settlementUnknown \in BOOLEAN
         /\ r.deadline \in BOOLEAN
         /\ r.observation \in DigestOrNull
         /\ r.macroMutation \in {"none", "UNKNOWN_TRANSITION",
                                 "SKIP_REQUIRED_STATE", "SKIP_RESERVATION"}
  BY RequestsAssumption DEF ValidRequests, RequestType

\* The states an invocation can fail from.
Failable ==
  { "CREATED", "PAYMENT_REQUIRED", "PAYMENT_AUTHORIZED", "EXECUTING",
    "OUTPUT_STAGED", "SETTLEMENT_PENDING", "PAYMENT_UNKNOWN" }

\* What the tests before the macro establish.
LEMMA AdmittedProof ==
  ASSUME NEW r \in Requests, Admitted(r)
  PROVE  /\ ~Recorded(r)
         /\ Legal(MacroTrace(r))
         /\ r.proofDigest = r.type
         /\ r.type = "VERIFY" => /\ r.fingerprintDigest = BoundFingerprint
                                 /\ listing = "ACTIVE"
         /\ r.type = "SETTLE" /\ r.settlementUnknown
              => r.deadline /\ r.observation = "SETTLEMENT_UNKNOWN"
  <1>1. /\ ~Recorded(r) /\ Legal(MacroTrace(r))
        /\ ~ListingRefuses(r) /\ ProofMatches(r) /\ ~ProofIncomplete(r)
    BY DEF Admitted, Complete, InTime, Proven, Open, Fresh
  <1>2. r.deadline \in BOOLEAN
    BY RequestFields
  <1>3. QED
    BY <1>1, <1>2 DEF ListingRefuses, ProofMatches, ExpectedVerifyBinding,
                      ExpectedBoundaryBinding, ProofIncomplete

\* Which states the ledger can be in when the macro of a request is applied,
\* and that the trace of the macro consists of changes.
LEMMA AdmittedStates ==
  ASSUME NEW r \in Requests, Admitted(r)
  PROVE  /\ MacroTrace(r) \in Seq(Changes)
         /\ r.type = "VERIFY" => invocation.state = "CREATED"
         /\ r.type = "EXECUTE" =>
              invocation.state \in IF r.sellerFailed THEN Failable
                                   ELSE {"PAYMENT_AUTHORIZED"}
         /\ r.type = "STAGE" => invocation.state = "EXECUTING"
         /\ r.type = "SETTLE" => invocation.state = "OUTPUT_STAGED"
         /\ r.type = "DELIVER" => invocation.state = "DELIVERABLE"
         /\ r.type = "ACK" => invocation.state = "DELIVERED"
         /\ r.type = "RESOLVE_SETTLEMENT" =>
              invocation.state \in {"SETTLEMENT_PENDING", "PAYMENT_UNKNOWN"}
         /\ r.type = "REVOKE_LISTING" =>
              /\ listing \in {"ACTIVE", "SUSPENDED_NEW"}
              /\ ~SettlementFinal => invocation.state \in Failable
  <1> DEFINE t == MacroTrace(r)
  <1>1. Legal(t)
    BY AdmittedProof
  <1>2. CASE r.type = "VERIFY"
    <2>1. t = VerifyTrace(r)
      BY <1>2 DEF MacroTrace
    <2>2. QED
      BY <1>1, <1>2, <2>1, LegalVerify, RequestFields
  <1>3. CASE r.type = "EXECUTE"
    <2> DEFINE to == IF r.sellerFailed THEN "FAILED_BEFORE_SETTLEMENT"
                                       ELSE "EXECUTING"
    <2>1. t = << Inv(invocation.state, to) >>
      BY <1>3 DEF MacroTrace, ExecuteTrace
    <2>2. <<invocation.state, to>> \in HostedEdges /\ t \in Seq(Changes)
      BY <1>1, <2>1, LegalInvocationChange
    <2>3. QED
      BY <1>3, <2>2, HostedSources DEF Failable
  <1>4. CASE r.type = "STAGE"
    <2>1. t = << Inv(invocation.state, "OUTPUT_STAGED") >>
      BY <1>4 DEF MacroTrace, StageTrace
    <2>2. QED
      BY <1>1, <1>4, <2>1, LegalInvocationChange, HostedSources
  <1>5. CASE r.type = "SETTLE"
    <2>1. t = SettleTrace(r)
      BY <1>5 DEF MacroTrace
    <2>2. QED
      BY <1>1, <1>5, <2>1, LegalSettle, RequestFields
  <1>6. CASE r.type = "DELIVER"
    <2>1. t = << Inv(invocation.state, "DELIVERED") >>
      BY <1>6 DEF MacroTrace, DeliverTrace
    <2>2. QED
      BY <1>1, <1>6, <2>1, LegalInvocationChange, HostedSources
  <1>7. CASE r.type = "ACK"
    <2>1. t = << Inv(invocation.state, "ACKED") >>
      BY <1>7 DEF MacroTrace, AckTrace
    <2>2. QED
      BY <1>1, <1>7, <2>1, LegalInvocationChange, HostedSources
  <1>8. CASE r.type = "RESOLVE_SETTLEMENT"
    <2>1. t = ResolveTrace
      BY <1>8 DEF MacroTrace
    <2>2. QED
      BY <1>1, <1>8, <2>1, LegalResolve
  <1>9. CASE r.type = "REVOKE_LISTING"
    <2>1. t = RevokeTrace
      BY <1>9 DEF MacroTrace
    <2>2. QED
      BY <1>1, <1>9, <2>1, LegalRevoke, HostedSources DEF Failable
  <1>10. QED
    BY <1>2, <1>3, <1>4, <1>5, <1>6, <1>7, <1>8, <1>9, RequestFields
       DEF ActionTypes

---------------------------------------------------------------------------
(***************************************************************************)
(* The inductive invariant of the ledger.  The properties of HostedFlow    *)
(* are not inductive by themselves: that a settlement finds an authorized  *)
(* intent and a staged output depends on which states of the two           *)
(* projections go together, and what a failed call may still hold depends  *)
(* on what it held before it failed.                                       *)
(***************************************************************************)
LedgerTyped ==
  /\ listing \in ListingStates
  /\ invocation \in InvocationType
  /\ paymentIntent \in PaymentIntentType
  /\ output \in [buffered : BOOLEAN, response : BOOLEAN]
  /\ effects \in [EffectNames -> Nat]

BooksTyped ==
  /\ status \in {"RUNNING", "ILLEGAL_TRANSITION_THROWN", "TYPE_ERROR_THROWN"}
  /\ committed \in [Keys -> RecordType]
  /\ journal \in Seq(Changes)
  /\ last \in ObservationType
  /\ reported \in Nat

\* A revoked listing leaves no call between its creation and its settlement.
ListingAgrees ==
  /\ listing \in {"ACTIVE", "EMERGENCY_REVOKED"}
  /\ listing = "EMERGENCY_REVOKED" =>
       Settled \/ invocation.state \in {"CREATED", "FAILED_BEFORE_SETTLEMENT"}

\* The states of the two projections between two requests.
StatesAgree ==
  \/ invocation.state = "CREATED" /\ paymentIntent.state = "ABSENT"
  \/ /\ invocation.state \in {"PAYMENT_AUTHORIZED", "EXECUTING",
                              "OUTPUT_STAGED"}
     /\ paymentIntent.state = "AUTHORIZED"
  \/ /\ invocation.state = "PAYMENT_UNKNOWN"
     /\ paymentIntent.state = "SETTLEMENT_UNKNOWN"
  \/ Settled /\ paymentIntent.state = "FINALIZED"
  \/ /\ invocation.state = "FAILED_BEFORE_SETTLEMENT"
     /\ paymentIntent.state \in {"ABSENT", "AUTHORIZED", "SETTLEMENT_UNKNOWN"}

\* What was authorized, produced and staged, in each projection.
EvidenceAgrees ==
  /\ effects["authorizations"]
       = IF paymentIntent.state = "ABSENT" THEN 0 ELSE 1
  /\ effects["stagings"]
       = IF invocation.outputStagingReceiptDigest = "STAGE" THEN 1 ELSE 0
  /\ output.buffered <=> invocation.outputStagingReceiptDigest = "STAGE"
  /\ invocation.state = "EXECUTING" \/ output.buffered => output.response
  /\ paymentIntent.state = "SETTLEMENT_UNKNOWN" => output.buffered
  /\ paymentIntent.state = "ABSENT" => ~invocation.paymentIntentRef
  /\ invocation.fundingUnknownObservationDigest
       = paymentIntent.fundingUnknownObservationDigest
  /\ invocation.reconciliationDeadline = paymentIntent.reconciliationDeadline

LedgerInv ==
  /\ LedgerTyped
  /\ ListingAgrees
  /\ StatesAgree
  /\ EvidenceAgrees
  /\ SettlementFinality
  /\ EvidenceIsStateClosed
  /\ DoubtIsEvidenced
  /\ IntentIsBound

LEMMA InitLedger == Init => LedgerInv
  <1> SUFFICES ASSUME Init PROVE LedgerInv
    OBVIOUS
  <1> USE DEF Init
  <1>1. invocation \in InvocationType
    BY DEF NewInvocation, InvocationType, InvocationStates, DigestOrNull
  <1>2. paymentIntent \in PaymentIntentType
    BY FingerprintAssumption
       DEF NoPaymentIntent, PaymentIntentType, DigestOrNull
  <1>3. LedgerTyped
    BY <1>1, <1>2 DEF LedgerTyped, ListingStates, EmptyEffects
  <1>4. ListingAgrees /\ StatesAgree
    BY DEF NewInvocation, NoPaymentIntent, ListingAgrees, StatesAgree
  <1>5. EvidenceAgrees
    BY DEF NewInvocation, NoPaymentIntent, EmptyEffects, EffectNames,
           EvidenceAgrees
  <1>6. SettlementFinality
    BY DEF NewInvocation, NoPaymentIntent, EmptyEffects, EffectNames,
           SettlementFinality, Settled
  <1>7. EvidenceIsStateClosed
    BY DEF NewInvocation, EvidenceIsStateClosed
  <1>8. DoubtIsEvidenced /\ IntentIsBound
    BY DEF NewInvocation, NoPaymentIntent, DoubtIsEvidenced, IntentIsBound
  <1>9. QED
    BY <1>3, <1>4, <1>5, <1>6, <1>7, <1>8 DEF LedgerInv

\* Steps that leave the ledger alone.
LEMMA UnmovedKeepsLedger ==
  ASSUME LedgerInv, UNCHANGED ledger
  PROVE  LedgerInv'
  BY DEF ledger, LedgerInv, LedgerTyped, ListingAgrees, StatesAgree, Settled,
         EvidenceAgrees, SettlementFinality, EvidenceIsStateClosed,
         DoubtIsEvidenced, IntentIsBound

\* Counting an effect counts that one once and no other.
LEMMA Counted ==
  ASSUME NEW e \in EffectNames, effects \in [EffectNames -> Nat], Count(e)
  PROVE  /\ effects' \in [EffectNames -> Nat]
         /\ effects'[e] = effects[e] + 1
         /\ \A f \in EffectNames \ {e} : effects'[f] = effects[f]
  BY DEF Count

LEMMA VerifyKeepsLedger ==
  ASSUME NEW r \in Requests, LedgerInv, Verify(r)
  PROVE  LedgerInv'
  <1>1. /\ invocation.state = "CREATED" /\ paymentIntent.state = "ABSENT"
        /\ listing = "ACTIVE"
        /\ r.proofDigest = "VERIFY" /\ r.fingerprintDigest = BoundFingerprint
    BY AdmittedStates, AdmittedProof DEF Verify, LedgerInv, StatesAgree, Settled
  <1>2. /\ invocation' = [invocation EXCEPT !.state = "PAYMENT_AUTHORIZED",
                                            !.paymentIntentRef = TRUE,
                                            !.paymentProofDigest = "VERIFY"]
        /\ paymentIntent' = [NoPaymentIntent EXCEPT
                               !.state = "AUTHORIZED",
                               !.fingerprintDigest = BoundFingerprint,
                               !.authorizationProofDigest = "VERIFY"]
        /\ UNCHANGED <<listing, output>>
    BY <1>1 DEF Verify
  <1>3. /\ effects' \in [EffectNames -> Nat]
        /\ effects'["authorizations"] = effects["authorizations"] + 1
        /\ effects'["stagings"] = effects["stagings"]
        /\ effects'["settlements"] = effects["settlements"]
    BY Counted DEF Verify, LedgerInv, LedgerTyped, EffectNames
  <1>4. invocation' \in InvocationType
    BY <1>2 DEF LedgerInv, LedgerTyped, InvocationType, InvocationStates,
                DigestOrNull, Digests, ActionTypes
  <1>5. paymentIntent' \in PaymentIntentType
    BY <1>2, FingerprintAssumption
       DEF NoPaymentIntent, PaymentIntentType, PaymentIntentStates,
           DigestOrNull, Digests, ActionTypes
  <1>6. LedgerTyped'
    BY <1>2, <1>3, <1>4, <1>5 DEF LedgerInv, LedgerTyped
  <1>7. ListingAgrees' /\ StatesAgree'
    BY <1>1, <1>2 DEF LedgerInv, LedgerTyped, InvocationType, NoPaymentIntent,
                      ListingAgrees, StatesAgree, Settled
  <1>8. EvidenceAgrees'
    <2>1. /\ invocation.fundingUnknownObservationDigest = "null"
          /\ invocation.reconciliationDeadline = FALSE
      BY <1>1 DEF LedgerInv, LedgerTyped, PaymentIntentType, EvidenceAgrees,
                  DoubtIsEvidenced
    <2>2. /\ effects'["authorizations"] = 1
          /\ paymentIntent'.state # "ABSENT"
      BY <1>1, <1>2, <1>3 DEF LedgerInv, EvidenceAgrees, NoPaymentIntent
    <2>3. QED
      BY <1>1, <1>2, <1>3, <2>1, <2>2
         DEF LedgerInv, LedgerTyped, InvocationType, NoPaymentIntent,
             EvidenceAgrees
  <1>9. SettlementFinality' /\ DoubtIsEvidenced' /\ IntentIsBound'
    BY <1>1, <1>2, <1>3
       DEF LedgerInv, LedgerTyped, InvocationType, NoPaymentIntent,
           SettlementFinality, DoubtIsEvidenced, IntentIsBound, Settled
  <1>10. EvidenceIsStateClosed'
    BY <1>1, <1>2 DEF LedgerInv, LedgerTyped, InvocationType,
                      EvidenceIsStateClosed
  <1>11. QED
    BY <1>6, <1>7, <1>8, <1>9, <1>10 DEF LedgerInv

LEMMA ExecuteKeepsLedger ==
  ASSUME NEW r \in Requests, LedgerInv, Execute(r)
  PROVE  LedgerInv'
  <1>1. /\ invocation.state = "PAYMENT_AUTHORIZED"
        /\ paymentIntent.state = "AUTHORIZED"
    BY AdmittedStates DEF Execute, LedgerInv, StatesAgree, Settled
  <1>2. /\ invocation' = [invocation EXCEPT !.state = "EXECUTING"]
        /\ output' = [output EXCEPT !.response = TRUE]
        /\ UNCHANGED <<listing, paymentIntent>>
    BY DEF Execute
  <1>3. /\ effects' \in [EffectNames -> Nat]
        /\ effects'["authorizations"] = effects["authorizations"]
        /\ effects'["stagings"] = effects["stagings"]
        /\ effects'["settlements"] = effects["settlements"]
    BY Counted DEF Execute, LedgerInv, LedgerTyped, EffectNames
  <1>4. invocation' \in InvocationType
    BY <1>2 DEF LedgerInv, LedgerTyped, InvocationType, InvocationStates
  <1>5. LedgerTyped'
    BY <1>2, <1>3, <1>4 DEF LedgerInv, LedgerTyped
  <1>6. ListingAgrees' /\ StatesAgree'
    BY <1>1, <1>2 DEF LedgerInv, LedgerTyped, InvocationType, ListingAgrees,
                      StatesAgree, Settled
  <1>7. EvidenceAgrees'
    BY <1>1, <1>2, <1>3 DEF LedgerInv, LedgerTyped, InvocationType,
                            EvidenceAgrees
  <1>8. SettlementFinality' /\ DoubtIsEvidenced' /\ IntentIsBound'
    BY <1>1, <1>2, <1>3
       DEF LedgerInv, LedgerTyped, InvocationType, SettlementFinality,
           DoubtIsEvidenced, IntentIsBound, Settled
  <1>9. EvidenceIsStateClosed'
    BY <1>1, <1>2 DEF LedgerInv, LedgerTyped, InvocationType,
                      EvidenceIsStateClosed
  <1>10. QED
    BY <1>5, <1>6, <1>7, <1>8, <1>9 DEF LedgerInv

\* A call that fails keeps what it held; the three actions that fail a call
\* differ only in what else they change.
LEMMA FailureKeepsLedger ==
  ASSUME LedgerInv,
         invocation.state \in Failable,
         invocation' = [invocation EXCEPT
                          !.state = "FAILED_BEFORE_SETTLEMENT"],
         listing' \in {listing, "EMERGENCY_REVOKED"},
         UNCHANGED <<paymentIntent, output>>,
         effects' \in [EffectNames -> Nat],
         \A e \in {"authorizations", "stagings", "settlements"} :
           effects'[e] = effects[e]
  PROVE  LedgerInv'
  <1>1. /\ ~Settled /\ paymentIntent.state # "FINALIZED"
        /\ paymentIntent.state
             \in {"ABSENT", "AUTHORIZED", "SETTLEMENT_UNKNOWN"}
    BY DEF LedgerInv, StatesAgree, Settled, Failable
  <1>2. invocation' \in InvocationType
    BY DEF LedgerInv, LedgerTyped, InvocationType, InvocationStates
  <1>3. LedgerTyped'
    BY <1>2 DEF LedgerInv, LedgerTyped, ListingStates
  <1>4. ListingAgrees' /\ StatesAgree'
    BY <1>1 DEF LedgerInv, LedgerTyped, InvocationType, ListingAgrees,
                StatesAgree, Settled
  <1>5. EvidenceAgrees'
    BY DEF LedgerInv, LedgerTyped, InvocationType, EvidenceAgrees
  <1>6. SettlementFinality' /\ DoubtIsEvidenced' /\ IntentIsBound'
    BY <1>1 DEF LedgerInv, LedgerTyped, InvocationType, SettlementFinality,
                DoubtIsEvidenced, IntentIsBound, Settled
  <1>7. EvidenceIsStateClosed'
    BY DEF LedgerInv, LedgerTyped, InvocationType, EvidenceIsStateClosed,
           Failable
  <1>8. QED
    BY <1>3, <1>4, <1>5, <1>6, <1>7 DEF LedgerInv

LEMMA ExecuteFailsKeepsLedger ==
  ASSUME NEW r \in Requests, LedgerInv, ExecuteFails(r)
  PROVE  LedgerInv'
  <1>1. invocation.state \in Failable
    BY AdmittedStates DEF ExecuteFails
  <1>2. /\ effects' \in [EffectNames -> Nat]
        /\ \A e \in {"authorizations", "stagings", "settlements"} :
             effects'[e] = effects[e]
    BY Counted DEF ExecuteFails, LedgerInv, LedgerTyped, EffectNames
  <1>3. QED
    BY <1>1, <1>2, FailureKeepsLedger DEF ExecuteFails

LEMMA RevokeUnsettledKeepsLedger ==
  ASSUME NEW r \in Requests, LedgerInv, RevokeUnsettled(r)
  PROVE  LedgerInv'
  <1>1. invocation.state \in Failable
    BY AdmittedStates DEF RevokeUnsettled
  <1>2. QED
    BY <1>1, FailureKeepsLedger DEF RevokeUnsettled, LedgerInv, LedgerTyped

LEMMA RefuseRevokedListingKeepsLedger ==
  ASSUME NEW r \in Requests, LedgerInv, RefuseRevokedListing(r)
  PROVE  LedgerInv'
  <1>1. <<invocation.state, "FAILED_BEFORE_SETTLEMENT">> \in HostedEdges
    BY LegalInvocationChange DEF RefuseRevokedListing, FailTrace
  <1>2. invocation.state \in Failable
    BY <1>1, HostedSources DEF Failable
  <1>3. QED
    BY <1>2, FailureKeepsLedger
       DEF RefuseRevokedListing, LedgerInv, LedgerTyped

LEMMA RevokeSettledKeepsLedger ==
  ASSUME NEW r \in Requests, LedgerInv, RevokeSettled(r)
  PROVE  LedgerInv'
  <1>1. Settled
    BY DEF RevokeSettled, SettlementFinal, Settled
  <1>2. /\ listing' = "EMERGENCY_REVOKED"
        /\ UNCHANGED <<invocation, paymentIntent, output, effects>>
    BY DEF RevokeSettled
  <1>3. QED
    BY <1>1, <1>2
       DEF LedgerInv, LedgerTyped, ListingStates, ListingAgrees, StatesAgree,
           Settled, EvidenceAgrees, SettlementFinality, EvidenceIsStateClosed,
           DoubtIsEvidenced, IntentIsBound

LEMMA StageKeepsLedger ==
  ASSUME NEW r \in Requests, LedgerInv, Stage(r)
  PROVE  LedgerInv'
  <1>1. /\ invocation.state = "EXECUTING"
        /\ paymentIntent.state = "AUTHORIZED"
        /\ r.proofDigest = "STAGE"
    BY AdmittedStates, AdmittedProof DEF Stage, LedgerInv, StatesAgree, Settled
  <1>2. /\ invocation' = [invocation EXCEPT
                            !.state = "OUTPUT_STAGED",
                            !.outputStagingReceiptDigest = "STAGE"]
        /\ output' = [output EXCEPT !.buffered = TRUE]
        /\ UNCHANGED <<listing, paymentIntent>>
    BY <1>1 DEF Stage
  <1>3. /\ effects' \in [EffectNames -> Nat]
        /\ effects'["authorizations"] = effects["authorizations"]
        /\ effects'["stagings"] = effects["stagings"] + 1
        /\ effects'["settlements"] = effects["settlements"]
    BY Counted DEF Stage, LedgerInv, LedgerTyped, EffectNames
  <1>4. invocation' \in InvocationType
    BY <1>2 DEF LedgerInv, LedgerTyped, InvocationType, InvocationStates,
                DigestOrNull, Digests, ActionTypes
  <1>5. LedgerTyped'
    BY <1>2, <1>3, <1>4 DEF LedgerInv, LedgerTyped
  <1>6. ListingAgrees' /\ StatesAgree'
    BY <1>1, <1>2 DEF LedgerInv, LedgerTyped, InvocationType, ListingAgrees,
                      StatesAgree, Settled
  <1>7. EvidenceAgrees'
    <2>1. invocation.outputStagingReceiptDigest # "STAGE"
      BY <1>1 DEF LedgerInv, EvidenceIsStateClosed
    <2>2. effects'["stagings"] = 1 /\ output'.buffered /\ output'.response
      BY <1>1, <1>2, <1>3, <2>1 DEF LedgerInv, LedgerTyped, EvidenceAgrees
    <2>3. QED
      BY <1>1, <1>2, <1>3, <2>2 DEF LedgerInv, LedgerTyped, InvocationType,
                                    EvidenceAgrees
  <1>8. SettlementFinality' /\ DoubtIsEvidenced' /\ IntentIsBound'
    BY <1>1, <1>2, <1>3
       DEF LedgerInv, LedgerTyped, InvocationType, SettlementFinality,
           DoubtIsEvidenced, IntentIsBound, Settled
  <1>9. EvidenceIsStateClosed'
    BY <1>1, <1>2 DEF LedgerInv, LedgerTyped, InvocationType,
                      EvidenceIsStateClosed
  <1>10. QED
    BY <1>5, <1>6, <1>7, <1>8, <1>9 DEF LedgerInv

LEMMA SettleKeepsLedger ==
  ASSUME NEW r \in Requests, LedgerInv, Settle(r)
  PROVE  LedgerInv'
  <1>1. /\ invocation.state = "OUTPUT_STAGED"
        /\ paymentIntent.state = "AUTHORIZED"
        /\ r.proofDigest = "SETTLE"
    BY AdmittedStates, AdmittedProof DEF Settle, LedgerInv, StatesAgree,
                                         Settled
  <1>2. /\ invocation' = [invocation EXCEPT
                            !.state = "DELIVERABLE",
                            !.settlementReceiptDigest = "SETTLE"]
        /\ paymentIntent' = [paymentIntent EXCEPT
                               !.state = "FINALIZED",
                               !.settlementReceiptDigest = "SETTLE"]
        /\ UNCHANGED <<listing, output>>
    BY <1>1 DEF Settle
  <1>3. /\ effects' \in [EffectNames -> Nat]
        /\ effects'["authorizations"] = effects["authorizations"]
        /\ effects'["stagings"] = effects["stagings"]
        /\ effects'["settlements"] = effects["settlements"] + 1
    BY Counted DEF Settle, LedgerInv, LedgerTyped, EffectNames
  <1>4. invocation' \in InvocationType
    BY <1>2 DEF LedgerInv, LedgerTyped, InvocationType, InvocationStates,
                DigestOrNull, Digests, ActionTypes
  <1>5. paymentIntent' \in PaymentIntentType
    BY <1>2 DEF LedgerInv, LedgerTyped, PaymentIntentType,
                PaymentIntentStates, DigestOrNull, Digests, ActionTypes
  <1>6. LedgerTyped'
    BY <1>2, <1>3, <1>4, <1>5 DEF LedgerInv, LedgerTyped
  <1>7. ListingAgrees' /\ StatesAgree'
    BY <1>1, <1>2 DEF LedgerInv, LedgerTyped, InvocationType,
                      PaymentIntentType, ListingAgrees, StatesAgree, Settled
  <1>8. EvidenceAgrees'
    BY <1>1, <1>2, <1>3
       DEF LedgerInv, LedgerTyped, InvocationType, PaymentIntentType,
           EvidenceAgrees
  <1>9. SettlementFinality'
    BY <1>1, <1>2, <1>3
       DEF LedgerInv, LedgerTyped, InvocationType, PaymentIntentType,
           SettlementFinality, Settled
  <1>10. DoubtIsEvidenced' /\ IntentIsBound'
    BY <1>1, <1>2
       DEF LedgerInv, LedgerTyped, InvocationType, PaymentIntentType,
           DoubtIsEvidenced, IntentIsBound
  <1>11. EvidenceIsStateClosed'
    BY <1>1, <1>2 DEF LedgerInv, LedgerTyped, InvocationType,
                      EvidenceIsStateClosed
  <1>12. QED
    BY <1>6, <1>7, <1>8, <1>9, <1>10, <1>11 DEF LedgerInv

LEMMA ResolveSettlementKeepsLedger ==
  ASSUME NEW r \in Requests, LedgerInv, ResolveSettlement(r)
  PROVE  LedgerInv'
  <1>1. /\ invocation.state = "PAYMENT_UNKNOWN"
        /\ paymentIntent.state = "SETTLEMENT_UNKNOWN"
        /\ r.proofDigest = "RESOLVE_SETTLEMENT"
    BY AdmittedStates, AdmittedProof
       DEF ResolveSettlement, LedgerInv, StatesAgree, Settled
  <1>2. /\ invocation' = [invocation EXCEPT
                            !.state = "DELIVERABLE",
                            !.fundingUnknownObservationDigest = "null",
                            !.reconciliationDeadline = FALSE,
                            !.settlementReceiptDigest
                                = "RESOLVE_SETTLEMENT"]
        /\ paymentIntent' = [paymentIntent EXCEPT
                               !.state = "FINALIZED",
                               !.fundingUnknownObservationDigest = "null",
                               !.reconciliationDeadline = FALSE,
                               !.settlementReceiptDigest
                                   = "RESOLVE_SETTLEMENT"]
        /\ UNCHANGED <<listing, output>>
    BY <1>1 DEF ResolveSettlement
  <1>3. /\ effects' \in [EffectNames -> Nat]
        /\ effects'["authorizations"] = effects["authorizations"]
        /\ effects'["stagings"] = effects["stagings"]
        /\ effects'["settlements"] = effects["settlements"] + 1
    BY Counted DEF ResolveSettlement, LedgerInv, LedgerTyped, EffectNames
  <1>4. invocation' \in InvocationType
    BY <1>2 DEF LedgerInv, LedgerTyped, InvocationType, InvocationStates,
                DigestOrNull, Digests, ActionTypes
  <1>5. paymentIntent' \in PaymentIntentType
    BY <1>2 DEF LedgerInv, LedgerTyped, PaymentIntentType,
                PaymentIntentStates, DigestOrNull, Digests, ActionTypes
  <1>6. LedgerTyped'
    BY <1>2, <1>3, <1>4, <1>5 DEF LedgerInv, LedgerTyped
  <1>7. ListingAgrees' /\ StatesAgree'
    BY <1>1, <1>2 DEF LedgerInv, LedgerTyped, InvocationType,
                      PaymentIntentType, ListingAgrees, StatesAgree, Settled
  <1>8. EvidenceAgrees'
    BY <1>1, <1>2, <1>3
       DEF LedgerInv, LedgerTyped, InvocationType, PaymentIntentType,
           EvidenceAgrees
  <1>9. SettlementFinality'
    BY <1>1, <1>2, <1>3
       DEF LedgerInv, LedgerTyped, InvocationType, PaymentIntentType,
           SettlementFinality, Settled
  <1>10. DoubtIsEvidenced' /\ IntentIsBound'
    BY <1>1, <1>2
       DEF LedgerInv, LedgerTyped, InvocationType, PaymentIntentType,
           DoubtIsEvidenced, IntentIsBound
  <1>11. EvidenceIsStateClosed'
    BY <1>1, <1>2 DEF LedgerInv, LedgerTyped, InvocationType,
                      EvidenceIsStateClosed
  <1>12. QED
    BY <1>6, <1>7, <1>8, <1>9, <1>10, <1>11 DEF LedgerInv

LEMMA SettleUnknownKeepsLedger ==
  ASSUME NEW r \in Requests, LedgerInv, SettleUnknown(r)
  PROVE  LedgerInv'
  <1>1. /\ invocation.state = "OUTPUT_STAGED"
        /\ paymentIntent.state = "AUTHORIZED"
        /\ r.deadline = TRUE /\ r.observation = "SETTLEMENT_UNKNOWN"
    BY AdmittedStates, AdmittedProof, RequestFields
       DEF SettleUnknown, LedgerInv, StatesAgree, Settled
  <1>2. /\ invocation' = [invocation EXCEPT
                            !.state = "PAYMENT_UNKNOWN",
                            !.fundingUnknownObservationDigest
                                = "SETTLEMENT_UNKNOWN",
                            !.reconciliationDeadline = TRUE]
        /\ paymentIntent' = [paymentIntent EXCEPT
                               !.state = "SETTLEMENT_UNKNOWN",
                               !.fundingUnknownObservationDigest
                                   = "SETTLEMENT_UNKNOWN",
                               !.reconciliationDeadline = TRUE]
        /\ UNCHANGED <<listing, output>>
    BY <1>1 DEF SettleUnknown
  <1>3. UNCHANGED effects
    BY DEF SettleUnknown
  <1>4. invocation' \in InvocationType
    BY <1>2 DEF LedgerInv, LedgerTyped, InvocationType, InvocationStates,
                DigestOrNull, Digests, ActionTypes
  <1>5. paymentIntent' \in PaymentIntentType
    BY <1>2 DEF LedgerInv, LedgerTyped, PaymentIntentType,
                PaymentIntentStates, DigestOrNull, Digests, ActionTypes
  <1>6. LedgerTyped'
    BY <1>2, <1>3, <1>4, <1>5 DEF LedgerInv, LedgerTyped
  <1>7. ListingAgrees' /\ StatesAgree'
    BY <1>1, <1>2 DEF LedgerInv, LedgerTyped, InvocationType,
                      PaymentIntentType, ListingAgrees, StatesAgree, Settled
  <1>8. EvidenceAgrees'
    <2>1. output.buffered
      BY <1>1 DEF LedgerInv, EvidenceAgrees, EvidenceIsStateClosed
    <2>2. QED
      BY <1>1, <1>2, <1>3, <2>1
         DEF LedgerInv, LedgerTyped, InvocationType, PaymentIntentType,
             EvidenceAgrees
  <1>9. SettlementFinality'
    BY <1>1, <1>2, <1>3
       DEF LedgerInv, LedgerTyped, InvocationType, PaymentIntentType,
           SettlementFinality, Settled
  <1>10. DoubtIsEvidenced' /\ IntentIsBound'
    BY <1>1, <1>2
       DEF LedgerInv, LedgerTyped, InvocationType, PaymentIntentType,
           DoubtIsEvidenced, IntentIsBound
  <1>11. EvidenceIsStateClosed'
    BY <1>1, <1>2 DEF LedgerInv, LedgerTyped, InvocationType,
                      EvidenceIsStateClosed
  <1>12. QED
    BY <1>6, <1>7, <1>8, <1>9, <1>10, <1>11 DEF LedgerInv

LEMMA DeliverKeepsLedger ==
  ASSUME NEW r \in Requests, LedgerInv, Deliver(r)
  PROVE  LedgerInv'
  <1>1. /\ invocation.state = "DELIVERABLE"
        /\ paymentIntent.state = "FINALIZED"
        /\ r.proofDigest = "DELIVER"
    BY AdmittedStates, AdmittedProof DEF Deliver, LedgerInv, StatesAgree,
                                         Settled
  <1>2. /\ invocation' = [invocation EXCEPT !.state = "DELIVERED",
                                            !.deliveryReceiptDigest = "DELIVER"]
        /\ UNCHANGED <<listing, paymentIntent, output>>
    BY <1>1 DEF Deliver
  <1>3. /\ effects' \in [EffectNames -> Nat]
        /\ effects'["authorizations"] = effects["authorizations"]
        /\ effects'["stagings"] = effects["stagings"]
        /\ effects'["settlements"] = effects["settlements"]
    BY Counted DEF Deliver, LedgerInv, LedgerTyped, EffectNames
  <1>4. invocation' \in InvocationType
    BY <1>2 DEF LedgerInv, LedgerTyped, InvocationType, InvocationStates,
                DigestOrNull, Digests, ActionTypes
  <1>5. LedgerTyped'
    BY <1>2, <1>3, <1>4 DEF LedgerInv, LedgerTyped
  <1>6. ListingAgrees' /\ StatesAgree'
    BY <1>1, <1>2 DEF LedgerInv, LedgerTyped, InvocationType, ListingAgrees,
                      StatesAgree, Settled
  <1>7. EvidenceAgrees'
    BY <1>1, <1>2, <1>3 DEF LedgerInv, LedgerTyped, InvocationType,
                            EvidenceAgrees
  <1>8. SettlementFinality' /\ DoubtIsEvidenced' /\ IntentIsBound'
    BY <1>1, <1>2, <1>3
       DEF LedgerInv, LedgerTyped, InvocationType, SettlementFinality,
           DoubtIsEvidenced, IntentIsBound, Settled
  <1>9. EvidenceIsStateClosed'
    BY <1>1, <1>2 DEF LedgerInv, LedgerTyped, InvocationType,
                      EvidenceIsStateClosed
  <1>10. QED
    BY <1>5, <1>6, <1>7, <1>8, <1>9 DEF LedgerInv

LEMMA AckKeepsLedger ==
  ASSUME NEW r \in Requests, LedgerInv, Ack(r)
  PROVE  LedgerInv'
  <1>1. /\ invocation.state = "DELIVERED"
        /\ paymentIntent.state = "FINALIZED"
        /\ r.proofDigest = "ACK"
    BY AdmittedStates, AdmittedProof DEF Ack, LedgerInv, StatesAgree,
                                         Settled
  <1>2. /\ invocation' = [invocation EXCEPT !.state = "ACKED",
                                            !.acknowledgementDigest = "ACK"]
        /\ UNCHANGED <<listing, paymentIntent, output>>
    BY <1>1 DEF Ack
  <1>3. /\ effects' \in [EffectNames -> Nat]
        /\ effects'["authorizations"] = effects["authorizations"]
        /\ effects'["stagings"] = effects["stagings"]
        /\ effects'["settlements"] = effects["settlements"]
    BY Counted DEF Ack, LedgerInv, LedgerTyped, EffectNames
  <1>4. invocation' \in InvocationType
    BY <1>2 DEF LedgerInv, LedgerTyped, InvocationType, InvocationStates,
                DigestOrNull, Digests, ActionTypes
  <1>5. LedgerTyped'
    BY <1>2, <1>3, <1>4 DEF LedgerInv, LedgerTyped
  <1>6. ListingAgrees' /\ StatesAgree'
    BY <1>1, <1>2 DEF LedgerInv, LedgerTyped, InvocationType, ListingAgrees,
                      StatesAgree, Settled
  <1>7. EvidenceAgrees'
    BY <1>1, <1>2, <1>3 DEF LedgerInv, LedgerTyped, InvocationType,
                            EvidenceAgrees
  <1>8. SettlementFinality' /\ DoubtIsEvidenced' /\ IntentIsBound'
    BY <1>1, <1>2, <1>3
       DEF LedgerInv, LedgerTyped, InvocationType, SettlementFinality,
           DoubtIsEvidenced, IntentIsBound, Settled
  <1>9. EvidenceIsStateClosed'
    BY <1>1, <1>2 DEF LedgerInv, LedgerTyped, InvocationType,
                      EvidenceIsStateClosed
  <1>10. QED
    BY <1>5, <1>6, <1>7, <1>8, <1>9 DEF LedgerInv

LEMMA StepKeepsLedger == LedgerInv /\ [Next]_vars => LedgerInv'
  <1>1. ASSUME LedgerInv, NEW r \in Requests,
               \/ Replay(r) \/ Conflict(r) \/ AbortRevokedListing(r)
               \/ RejectProof(r) \/ TimeOutBeforeCommit(r)
               \/ RejectIncompleteProof(r) \/ AbortMissingIntent(r)
               \/ RejectIllegal(r)
        PROVE  LedgerInv'
    <2>1. UNCHANGED ledger
      BY <1>1 DEF Replay, Conflict, AbortRevokedListing, RejectProof,
                  TimeOutBeforeCommit, RejectIncompleteProof,
                  AbortMissingIntent, RejectIllegal, Reject
    <2>2. QED
      BY <1>1, <2>1, UnmovedKeepsLedger
  <1>2. ASSUME LedgerInv, UNCHANGED vars
        PROVE  LedgerInv'
    BY <1>2, UnmovedKeepsLedger DEF vars, ledger
  <1>3. QED
    BY <1>1, <1>2, RefuseRevokedListingKeepsLedger, VerifyKeepsLedger,
       ExecuteKeepsLedger, ExecuteFailsKeepsLedger, StageKeepsLedger,
       SettleKeepsLedger, SettleUnknownKeepsLedger, DeliverKeepsLedger,
       AckKeepsLedger, ResolveSettlementKeepsLedger,
       RevokeUnsettledKeepsLedger, RevokeSettledKeepsLedger
       DEF Next, Answer

(***************************************************************************)
(* Whatever requests arrive, in whatever order, the ledger satisfies its   *)
(* invariant.                                                              *)
(***************************************************************************)
THEOREM LedgerInvariance == Spec => []LedgerInv
  BY InitLedger, StepKeepsLedger, PTL DEF Spec

(***************************************************************************)
(* The two projections never disagree about money, and a settlement is     *)
(* counted once.                                                           *)
(***************************************************************************)
THEOREM SettlementIsFinal == Spec => []SettlementFinality
  <1>1. LedgerInv => SettlementFinality
    BY DEF LedgerInv
  <1>2. QED
    BY <1>1, LedgerInvariance, PTL

(***************************************************************************)
(* Nothing is submitted to the payee before the call was authorized and    *)
(* its output staged.                                                      *)
(***************************************************************************)
THEOREM ChargesAreForStagedOutput == Spec => []ChargedOnlyForStagedOutput
  <1>1. LedgerInv => ChargedOnlyForStagedOutput
    <2> SUFFICES ASSUME LedgerInv,
                        paymentIntent.state \in
                          {"SUBMITTED", "SETTLEMENT_UNKNOWN", "CONFIRMED",
                           "FINALIZED"}
                 PROVE  /\ output.buffered /\ output.response
                        /\ invocation.outputStagingReceiptDigest = "STAGE"
                        /\ effects["authorizations"] = 1
                        /\ effects["stagings"] = 1
      BY DEF ChargedOnlyForStagedOutput
    <2>1. Settled \/ paymentIntent.state = "SETTLEMENT_UNKNOWN"
      BY DEF LedgerInv, StatesAgree
    <2>2. invocation.outputStagingReceiptDigest = "STAGE"
      BY <2>1 DEF LedgerInv, EvidenceAgrees, EvidenceIsStateClosed, Settled
    <2>3. QED
      BY <2>2 DEF LedgerInv, EvidenceAgrees
  <1>2. QED
    BY <1>1, LedgerInvariance, PTL

(***************************************************************************)
(* Evidence is present where it must be, absent where it must not be, and  *)
(* never that of another boundary.                                         *)
(***************************************************************************)
THEOREM EvidenceIsClosed == Spec => []EvidenceIsStateClosed
  <1>1. LedgerInv => EvidenceIsStateClosed
    BY DEF LedgerInv
  <1>2. QED
    BY <1>1, LedgerInvariance, PTL

(***************************************************************************)
(* The funding projection is in doubt exactly while it carries the         *)
(* evidence of the doubt and a deadline.                                   *)
(***************************************************************************)
THEOREM DoubtIsAlwaysEvidenced == Spec => []DoubtIsEvidenced
  <1>1. LedgerInv => DoubtIsEvidenced
    BY DEF LedgerInv
  <1>2. QED
    BY <1>1, LedgerInvariance, PTL

(***************************************************************************)
(* A payment intent is always the one the scenario is bound to.            *)
(***************************************************************************)
THEOREM IntentIsAlwaysBound == Spec => []IntentIsBound
  <1>1. LedgerInv => IntentIsBound
    BY DEF LedgerInv
  <1>2. QED
    BY <1>1, LedgerInvariance, PTL

---------------------------------------------------------------------------
(***************************************************************************)
(* The idempotency records, the journal and the observations.              *)
(***************************************************************************)

\* An observation of a typed trace is typed.
LEMMA ObserveTyped ==
  ASSUME NEW r \in Requests, NEW outcome \in Outcomes, NEW errorCode \in Texts,
         NEW reasonCode \in Texts, NEW trace \in Seq(Changes),
         reported \in Nat,
         Observe(r, outcome, errorCode, reasonCode, trace)
  PROVE  last' \in ObservationType /\ reported' \in Nat
  <1>1. Len(trace) \in Nat
    OBVIOUS
  <1>2. QED
    BY <1>1 DEF Observe, ObservationType

LEMMA RejectTyped ==
  ASSUME BooksTyped, NEW r \in Requests, NEW outcome \in Outcomes,
         NEW errorCode \in Texts, Reject(r, outcome, errorCode)
  PROVE  BooksTyped'
  <1>1. <<>> \in Seq(Changes) /\ "null" \in Texts
    BY DEF Texts
  <1>2. last' \in ObservationType /\ reported' \in Nat
    BY <1>1, ObserveTyped DEF BooksTyped, Reject
  <1>3. QED
    BY <1>2 DEF BooksTyped, Reject

LEMMA RecordTyped ==
  ASSUME BooksTyped, NEW r \in Requests, NEW trace \in Seq(Changes),
         NEW errorCode \in Texts, NEW reasonCode \in Texts,
         Record(r, trace, errorCode, reasonCode)
  PROVE  journal' \in Seq(Changes) /\ committed' \in [Keys -> RecordType]
  <1>1. journal' \in Seq(Changes)
    BY DEF BooksTyped, Record
  <1>2. [ type |-> r.type, fingerprintDigest |-> r.fingerprintDigest,
          trace |-> trace, errorCode |-> errorCode,
          reasonCode |-> reasonCode ] \in RecordType
    BY RequestFields DEF RecordType
  <1>3. QED
    BY <1>1, <1>2, RequestFields DEF BooksTyped, Record

LEMMA CommitTyped ==
  ASSUME BooksTyped, NEW r \in Requests, Admitted(r),
         NEW outcome \in Outcomes, NEW errorCode \in Texts,
         NEW reasonCode \in Texts,
         Commit(r, outcome, errorCode, reasonCode)
  PROVE  BooksTyped'
  <1> DEFINE answer == IF r.fault = "TIMEOUT_AFTER_COMMIT" THEN r.fault
                                                           ELSE outcome
  <1>1. MacroTrace(r) \in Seq(Changes) /\ answer \in Outcomes
    BY AdmittedStates DEF Outcomes
  <1>2. journal' \in Seq(Changes) /\ committed' \in [Keys -> RecordType]
    BY <1>1, RecordTyped DEF Commit
  <1>3. last' \in ObservationType /\ reported' \in Nat
    BY <1>1, ObserveTyped DEF Commit, BooksTyped
  <1>4. QED
    BY <1>2, <1>3 DEF BooksTyped, Commit

LEMMA InitBooks == Init => BooksTyped
  BY FingerprintAssumption
     DEF Init, BooksTyped, NoRecord, RecordType, Texts, ObservationType,
         Outcomes

LEMMA StepKeepsBooks == BooksTyped /\ [Next]_vars => BooksTyped'
  <1> SUFFICES ASSUME BooksTyped, [Next]_vars PROVE BooksTyped'
    OBVIOUS
  <1>1. ASSUME NEW r \in Requests, Replay(r) PROVE BooksTyped'
    <2> DEFINE c == committed[r.idempotencyKey]
    <2>1. c \in RecordType
      BY RequestFields DEF BooksTyped
    <2>2. /\ c.errorCode \in Texts /\ c.reasonCode \in Texts
          /\ c.trace \in Seq(Changes)
      BY <2>1 DEF RecordType
    <2>3. last' \in ObservationType /\ reported' \in Nat
      BY <1>1, <2>2, ObserveTyped DEF Replay, BooksTyped, Outcomes
    <2>4. QED
      BY <1>1, <2>3 DEF Replay, BooksTyped
  <1>2. ASSUME NEW r \in Requests,
               \/ Conflict(r) \/ RejectProof(r) \/ TimeOutBeforeCommit(r)
               \/ RejectIncompleteProof(r) \/ RejectIllegal(r)
        PROVE  BooksTyped'
    BY <1>2, RejectTyped
       DEF Conflict, RejectProof, TimeOutBeforeCommit, RejectIncompleteProof,
           RejectIllegal, Outcomes, Texts
  <1>3. ASSUME NEW r \in Requests, RefuseRevokedListing(r) PROVE BooksTyped'
    <2>1. FailTrace \in Seq(Changes)
      BY <1>3, LegalInvocationChange DEF RefuseRevokedListing, FailTrace
    <2>2. /\ "LISTING_REVOKED" \in Texts /\ "REVOKED_LISTING" \in Texts
          /\ "REJECTED" \in Outcomes
      BY DEF Texts, Outcomes
    <2>3. journal' \in Seq(Changes) /\ committed' \in [Keys -> RecordType]
      BY <1>3, <2>1, <2>2, RecordTyped DEF RefuseRevokedListing
    <2>4. last' \in ObservationType /\ reported' \in Nat
      BY <1>3, <2>1, <2>2, ObserveTyped DEF RefuseRevokedListing, BooksTyped
    <2>5. QED
      BY <1>3, <2>3, <2>4 DEF RefuseRevokedListing, BooksTyped
  <1>4. ASSUME NEW r \in Requests,
               AbortRevokedListing(r) \/ AbortMissingIntent(r)
        PROVE  BooksTyped'
    BY <1>4 DEF AbortRevokedListing, AbortMissingIntent, BooksTyped
  <1>5. ASSUME NEW r \in Requests,
               \/ Verify(r) \/ Execute(r) \/ Stage(r) \/ Settle(r)
               \/ Deliver(r) \/ Ack(r) \/ ResolveSettlement(r)
        PROVE  BooksTyped'
    <2>1. Admitted(r) /\ Commit(r, "COMMITTED", "null", "null")
      BY <1>5 DEF Verify, Execute, Stage, Settle, Deliver, Ack,
                  ResolveSettlement
    <2>2. QED
      BY <2>1, CommitTyped DEF Outcomes, Texts
  <1>6. ASSUME NEW r \in Requests,
               \/ ExecuteFails(r) \/ SettleUnknown(r) \/ RevokeUnsettled(r)
               \/ RevokeSettled(r)
        PROVE  BooksTyped'
    BY <1>6, CommitTyped DEF ExecuteFails, SettleUnknown, RevokeUnsettled,
                             RevokeSettled, Outcomes, Texts
  <1>7. CASE UNCHANGED vars
    BY <1>7 DEF vars, BooksTyped
  <1>8. QED
    BY <1>1, <1>2, <1>3, <1>4, <1>5, <1>6, <1>7 DEF Next, Answer

\* The idempotency records, the journal and the observations stay typed.
THEOREM BooksInvariance == Spec => []BooksTyped
  BY InitBooks, StepKeepsBooks, PTL DEF Spec

(***************************************************************************)
(* Every variable keeps its type.                                          *)
(***************************************************************************)
THEOREM TypeCorrect == Spec => []TypeOK
  <1>1. LedgerInv /\ BooksTyped => TypeOK
    BY DEF LedgerInv, LedgerTyped, BooksTyped, TypeOK
  <1>2. QED
    BY <1>1, BooksInvariance, LedgerInvariance, PTL

---------------------------------------------------------------------------
(***************************************************************************)
(* What a step may never do.                                               *)
(***************************************************************************)

\* The actions that change the ledger; every other step leaves it alone.
Moves(r) ==
  \/ RefuseRevokedListing(r)
  \/ Verify(r) \/ Execute(r) \/ ExecuteFails(r) \/ Stage(r)
  \/ Settle(r) \/ SettleUnknown(r) \/ Deliver(r) \/ Ack(r)
  \/ ResolveSettlement(r) \/ RevokeUnsettled(r) \/ RevokeSettled(r)

LEMMA OnlyMovesMove ==
  ASSUME [Next]_vars
  PROVE  UNCHANGED ledger \/ \E r \in Requests : Moves(r)
  BY DEF Next, Answer, Moves, vars, ledger, Replay, Conflict, AbortRevokedListing,
         RejectProof, TimeOutBeforeCommit, RejectIncompleteProof,
         AbortMissingIntent, RejectIllegal, Reject

\* From where each of them moves the two projections.
LEMMA MovesFrom ==
  ASSUME LedgerInv, NEW r \in Requests
  PROVE  /\ Verify(r) => /\ listing = "ACTIVE"
                         /\ invocation.state = "CREATED"
                         /\ paymentIntent.state = "ABSENT"
         /\ Execute(r) => invocation.state = "PAYMENT_AUTHORIZED"
         /\ Stage(r) => invocation.state = "EXECUTING"
         /\ Settle(r) \/ SettleUnknown(r) => invocation.state = "OUTPUT_STAGED"
         /\ ResolveSettlement(r) => invocation.state = "PAYMENT_UNKNOWN"
         /\ Deliver(r) => invocation.state = "DELIVERABLE"
         /\ Ack(r) => invocation.state = "DELIVERED"
         /\ ExecuteFails(r) \/ RefuseRevokedListing(r)
              => invocation.state \in Failable
         /\ RevokeUnsettled(r)
              => invocation.state \in Failable /\ listing = "ACTIVE"
         /\ RevokeSettled(r) => Settled /\ listing = "ACTIVE"
  <1>1. Verify(r) => /\ listing = "ACTIVE"
                     /\ invocation.state = "CREATED"
                     /\ paymentIntent.state = "ABSENT"
    BY AdmittedStates, AdmittedProof DEF Verify, LedgerInv, StatesAgree, Settled
  <1>2. /\ Execute(r) => invocation.state = "PAYMENT_AUTHORIZED"
        /\ Stage(r) => invocation.state = "EXECUTING"
        /\ Settle(r) \/ SettleUnknown(r) => invocation.state = "OUTPUT_STAGED"
        /\ Deliver(r) => invocation.state = "DELIVERABLE"
        /\ Ack(r) => invocation.state = "DELIVERED"
        /\ ExecuteFails(r) => invocation.state \in Failable
    BY AdmittedStates DEF Execute, Stage, Settle, SettleUnknown, Deliver, Ack,
                          ExecuteFails
  <1>3. ResolveSettlement(r) => invocation.state = "PAYMENT_UNKNOWN"
    BY AdmittedStates DEF ResolveSettlement, LedgerInv, StatesAgree, Settled
  <1>4. RefuseRevokedListing(r) => invocation.state \in Failable
    BY LegalInvocationChange, HostedSources
       DEF RefuseRevokedListing, FailTrace, Failable
  <1>5. /\ RevokeUnsettled(r)
             => invocation.state \in Failable /\ listing = "ACTIVE"
        /\ RevokeSettled(r) => Settled /\ listing = "ACTIVE"
    BY AdmittedStates DEF RevokeUnsettled, RevokeSettled, SettlementFinal,
                          Settled, LedgerInv, ListingAgrees
  <1>6. QED
    BY <1>1, <1>2, <1>3, <1>4, <1>5

(***************************************************************************)
(* A failed or acknowledged invocation, a finalized intent and a revoked   *)
(* listing are never changed again.                                        *)
(***************************************************************************)
THEOREM TerminalStaysFinal == Spec => TerminalIsFinal
  <1> DEFINE Final ==
        /\ invocation.state \in InvocationTerminal => UNCHANGED invocation
        /\ paymentIntent.state \in PaymentIntentTerminal
             => UNCHANGED paymentIntent
        /\ listing = "EMERGENCY_REVOKED" => UNCHANGED listing
  <1>1. ASSUME LedgerInv, [Next]_vars PROVE Final
    <2>1. CASE UNCHANGED ledger
      BY <2>1 DEF ledger
    <2>2. ASSUME NEW r \in Requests, Moves(r) PROVE Final
      <3>1. invocation.state \in InvocationTerminal => UNCHANGED invocation
        BY <1>1, <2>2, MovesFrom
           DEF Moves, InvocationTerminal, Failable, RevokeSettled
      <3>2. paymentIntent.state \in PaymentIntentTerminal
              => UNCHANGED paymentIntent
        <4>1. paymentIntent.state \in PaymentIntentTerminal => Settled
          BY <1>1 DEF LedgerInv, StatesAgree, PaymentIntentTerminal
        <4>2. QED
          BY <1>1, <2>2, <4>1, MovesFrom
             DEF Moves, Settled, Execute, ExecuteFails, Stage, Deliver, Ack,
                 RefuseRevokedListing, RevokeUnsettled, RevokeSettled
      <3>3. listing = "EMERGENCY_REVOKED" => UNCHANGED listing
        BY <2>2 DEF Moves, Verify, Execute, ExecuteFails, Stage, Settle,
                    SettleUnknown, Deliver, Ack, ResolveSettlement,
                    RefuseRevokedListing, RevokeUnsettled, RevokeSettled
      <3>4. QED
        BY <3>1, <3>2, <3>3
    <2>3. QED
      BY <1>1, <2>1, <2>2, OnlyMovesMove
  <1>2. LedgerInv /\ [Next]_vars => [Final]_vars
    BY <1>1
  <1>3. QED
    BY <1>2, LedgerInvariance, PTL DEF Spec, TerminalIsFinal

(***************************************************************************)
(* From a state with a revoked listing no step authorizes, stages or       *)
(* settles anything.                                                       *)
(***************************************************************************)
THEOREM RevocationStopsCharges == Spec => RevokedListingNeverCharges
  <1> DEFINE Quiet ==
        listing = "EMERGENCY_REVOKED"
          => /\ Settled' <=> Settled
             /\ \A e \in {"authorizations", "stagings", "settlements"} :
                  effects'[e] = effects[e]
  <1>1. ASSUME LedgerInv, [Next]_vars PROVE Quiet
    <2>1. CASE UNCHANGED ledger
      BY <2>1 DEF ledger, Settled
    <2>2. ASSUME NEW r \in Requests, Moves(r), listing = "EMERGENCY_REVOKED"
          PROVE  /\ Settled' <=> Settled
                 /\ \A e \in {"authorizations", "stagings", "settlements"} :
                      effects'[e] = effects[e]
      <3>1. \/ Settled
            \/ invocation.state \in {"CREATED", "FAILED_BEFORE_SETTLEMENT"}
        BY <1>1, <2>2 DEF LedgerInv, ListingAgrees
      <3>2. \/ Deliver(r) \/ Ack(r) \/ ExecuteFails(r)
            \/ RefuseRevokedListing(r)
        BY <1>1, <2>2, <3>1, MovesFrom DEF Moves, Settled
      <3>3. CASE Deliver(r) \/ Ack(r)
        <4>1. Settled /\ Settled'
          BY <1>1, <3>3, MovesFrom
             DEF Deliver, Ack, Settled, LedgerInv, LedgerTyped, InvocationType
        <4>2. QED
          BY <1>1, <3>3, <4>1, Counted
             DEF Deliver, Ack, LedgerInv, LedgerTyped, EffectNames
      <3>4. CASE ExecuteFails(r) \/ RefuseRevokedListing(r)
        <4>1. ~Settled
          BY <1>1, <3>4, MovesFrom DEF Settled, Failable
        <4>2. ~Settled'
          BY <1>1, <3>4
             DEF ExecuteFails, RefuseRevokedListing, Settled, LedgerInv,
                 LedgerTyped, InvocationType
        <4>3. \A e \in {"authorizations", "stagings", "settlements"} :
                effects'[e] = effects[e]
          BY <1>1, <3>4, Counted
             DEF ExecuteFails, RefuseRevokedListing, LedgerInv, LedgerTyped,
                 EffectNames
        <4>4. QED
          BY <4>1, <4>2, <4>3
      <3>5. QED
        BY <3>2, <3>3, <3>4
    <2>3. QED
      BY <1>1, <2>1, <2>2, OnlyMovesMove
  <1>2. LedgerInv /\ [Next]_vars => [Quiet]_vars
    BY <1>1
  <1>3. QED
    BY <1>2, LedgerInvariance, PTL DEF Spec, RevokedListingNeverCharges

---------------------------------------------------------------------------
(***************************************************************************)
(* Retries.  Every step answers a request in one of five ways.             *)
(***************************************************************************)
Silent == UNCHANGED <<ledger, committed, journal, last>>

Refuses(r) ==
  /\ ~Recorded(r) \/ last'.errorCode = "IDEMPOTENCY_FINGERPRINT_CONFLICT"
  /\ last'.request = r
  /\ last'.outcome \in {"REJECTED", "TIMEOUT_BEFORE_COMMIT"}
  /\ UNCHANGED <<ledger, committed, journal>>

Replays(r) ==
  /\ last'.request = r
  /\ last'.outcome = "IDEMPOTENT_REPLAY"
  /\ UNCHANGED <<ledger, committed, journal>>

Commits(r) ==
  /\ ~Recorded(r)
  /\ last'.request = r
  /\ last'.outcome \notin {"IDEMPOTENT_REPLAY", "TIMEOUT_BEFORE_COMMIT"}
  /\ Record(r, last'.trace, last'.errorCode, last'.reasonCode)

LEMMA CommitCommits ==
  ASSUME NEW r \in Requests, Admitted(r), NEW errorCode, NEW reasonCode,
         NEW outcome \in {"COMMITTED", "REJECTED", "RECONCILIATION_REQUIRED"},
         Commit(r, outcome, errorCode, reasonCode)
  PROVE  Commits(r)
  <1>1. ~Recorded(r)
    BY AdmittedProof
  <1>2. QED
    BY <1>1 DEF Commit, Commits, Observe

LEMMA FiveAnswers ==
  ASSUME [Next]_vars
  PROVE  Silent \/ \E r \in Requests : Refuses(r) \/ Replays(r) \/ Commits(r)
  <1>1. CASE UNCHANGED vars
    BY <1>1 DEF vars, Silent, ledger
  <1>2. ASSUME NEW r \in Requests, Replay(r) PROVE Replays(r)
    BY <1>2 DEF Replay, Replays, Observe
  <1>3. ASSUME NEW r \in Requests,
               \/ Conflict(r) \/ RejectProof(r) \/ TimeOutBeforeCommit(r)
               \/ RejectIncompleteProof(r) \/ RejectIllegal(r)
        PROVE  Refuses(r)
    BY <1>3 DEF Conflict, RejectProof, TimeOutBeforeCommit,
                RejectIncompleteProof, RejectIllegal, Complete, InTime, Proven,
                Open, Fresh, Reject, Observe, Refuses
  <1>4. ASSUME NEW r \in Requests,
               AbortRevokedListing(r) \/ AbortMissingIntent(r)
        PROVE  Silent
    BY <1>4 DEF AbortRevokedListing, AbortMissingIntent, Silent
  <1>5. ASSUME NEW r \in Requests, RefuseRevokedListing(r) PROVE Commits(r)
    BY <1>5 DEF RefuseRevokedListing, Fresh, Observe, Commits
  <1>6. ASSUME NEW r \in Requests,
               \/ Verify(r) \/ Execute(r) \/ ExecuteFails(r) \/ Stage(r)
               \/ Settle(r) \/ SettleUnknown(r) \/ Deliver(r) \/ Ack(r)
               \/ ResolveSettlement(r) \/ RevokeUnsettled(r)
               \/ RevokeSettled(r)
        PROVE  Commits(r)
    BY <1>6, CommitCommits
       DEF Verify, Execute, ExecuteFails, Stage, Settle, SettleUnknown,
           Deliver, Ack, ResolveSettlement, RevokeUnsettled, RevokeSettled
  <1>7. ASSUME NEW r \in Requests, Answer(r)
        PROVE  Silent \/ Refuses(r) \/ Replays(r) \/ Commits(r)
    BY <1>2, <1>3, <1>4, <1>5, <1>6, <1>7 DEF Answer
  <1>8. QED
    BY <1>1, <1>7 DEF Next

(***************************************************************************)
(* An idempotency key is bound to one request for good.                    *)
(***************************************************************************)
THEOREM KeysStayBound == Spec => KeysAreBoundOnce
  <1> DEFINE Bound ==
        \A k \in Keys :
          committed[k].type # "none"
            => /\ committed'[k] = committed[k]
               /\ last' # last /\ last'.request.idempotencyKey = k
                    => \/ last'.outcome = "IDEMPOTENT_REPLAY"
                       \/ last'.errorCode = "IDEMPOTENCY_FINGERPRINT_CONFLICT"
  <1>1. ASSUME BooksTyped, [Next]_vars PROVE Bound
    <2>1. CASE Silent
      BY <2>1 DEF Silent
    <2>2. ASSUME NEW r \in Requests, Refuses(r) PROVE Bound
      BY <2>2 DEF Refuses, Recorded
    <2>3. ASSUME NEW r \in Requests, Replays(r) PROVE Bound
      BY <2>3 DEF Replays
    <2>4. ASSUME NEW r \in Requests, Commits(r) PROVE Bound
      <3> SUFFICES ASSUME NEW k \in Keys, committed[k].type # "none"
                   PROVE  /\ committed'[k] = committed[k]
                          /\ last'.request.idempotencyKey # k
        OBVIOUS
      <3>1. r.idempotencyKey # k
        BY <2>4 DEF Commits, Recorded
      <3>2. committed'[k] = committed[k]
        BY <1>1, <2>4, <3>1 DEF Commits, Record, BooksTyped
      <3>3. QED
        BY <2>4, <3>1, <3>2 DEF Commits
    <2>5. QED
      BY <1>1, <2>1, <2>2, <2>3, <2>4, FiveAnswers
  <1>2. BooksTyped /\ [Next]_vars => [Bound]_vars
    BY <1>1
  <1>3. QED
    BY <1>2, BooksInvariance, PTL DEF Spec, KeysAreBoundOnce

(***************************************************************************)
(* A timeout tells the caller which retry is safe.                         *)
(***************************************************************************)
THEOREM TimeoutsTellTheTruth == Spec => TimeoutsAreUnambiguous
  <1> DEFINE k == last'.request.idempotencyKey
             Told ==
               /\ last'.outcome = "TIMEOUT_BEFORE_COMMIT"
                    => UNCHANGED <<ledger, committed, journal>>
               /\ last'.outcome = "TIMEOUT_AFTER_COMMIT" /\ last' # last
                    => /\ ~Recorded(last'.request)
                       /\ committed'[k].trace = last'.trace
                       /\ committed'[k].errorCode = last'.errorCode
                       /\ journal' = journal \o last'.trace
  <1>1. ASSUME BooksTyped, [Next]_vars PROVE Told
    <2>1. CASE Silent
      BY <2>1 DEF Silent
    <2>2. ASSUME NEW r \in Requests, Refuses(r) \/ Replays(r) PROVE Told
      BY <2>2 DEF Refuses, Replays
    <2>3. ASSUME NEW r \in Requests, Commits(r) PROVE Told
      <3>1. /\ last'.request = r
            /\ ~Recorded(r)
            /\ last'.outcome # "TIMEOUT_BEFORE_COMMIT"
            /\ journal' = journal \o last'.trace
        BY <2>3 DEF Commits, Record
      <3>2. committed'[r.idempotencyKey]
              = [ type |-> r.type, fingerprintDigest |-> r.fingerprintDigest,
                  trace |-> last'.trace, errorCode |-> last'.errorCode,
                  reasonCode |-> last'.reasonCode ]
        BY <1>1, <2>3, RequestFields DEF Commits, Record, BooksTyped
      <3>3. QED
        BY <3>1, <3>2
    <2>4. QED
      BY <1>1, <2>1, <2>2, <2>3, FiveAnswers
  <1>2. BooksTyped /\ [Next]_vars => [Told]_vars
    BY <1>1
  <1>3. QED
    BY <1>2, BooksInvariance, PTL DEF Spec, TimeoutsAreUnambiguous
=============================================================================
