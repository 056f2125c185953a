--------------------------- MODULE HostedVectors ---------------------------
(***************************************************************************)
(* The 53 frozen vectors of the hosted flow.  A vector is a sequence of    *)
(* requests together with the answers, the final state and the error code  *)
(* it expects of any implementation.  The expectations are computed by     *)
(* rules of their own, from the requests and their expected outcomes and   *)
(* never by running the flow; this module replays every vector through the *)
(* reference flow and lets the conformance runner compare the two.         *)
(***************************************************************************)
EXTENDS ConformanceRunner
LOCAL INSTANCE SequencesExt

VARIABLES
  vector,    \* the vector being replayed
  observed   \* the observations the flow has answered with so far

---------------------------------------------------------------------------
(***************************************************************************)
(* Requests of the vectors.  Key and fingerprint are named after the       *)
(* boundary and a suffix; only a VERIFY names the bound fingerprint.       *)
(***************************************************************************)
Boundaries == << "VERIFY", "EXECUTE", "STAGE", "SETTLE", "DELIVER", "ACK" >>

EffectOrder == << "authorizations", "executions", "stagings", "settlements",
                  "deliveries", "acknowledgements" >>

InvocationStateAfter ==
  << "PAYMENT_AUTHORIZED", "EXECUTING", "OUTPUT_STAGED",
     "DELIVERABLE", "DELIVERED", "ACKED" >>

ReferenceAction(type, suffix) ==
  [ idempotencyKey |-> <<type, suffix>>, type |-> type,
    fingerprintDigest |->
      IF type = "VERIFY" THEN BoundFingerprint ELSE <<type, suffix>>,
    bindingDigest |-> type, proofDigest |-> type, fault |-> "none",
    sellerFailed |-> FALSE, settlementUnknown |-> FALSE, deadline |-> FALSE,
    observation |-> "null", macroMutation |-> "none" ]

AlteredFingerprint == <<"VERIFY", "altered">>

---------------------------------------------------------------------------
(***************************************************************************)
(* The state changes a request must report.  Unlike the flow, the rules    *)
(* name the state a boundary starts from.                                  *)
(***************************************************************************)
ChangesOf(a, reasonCode) ==
  CASE a.type = "VERIFY" ->
         << Inv("CREATED", "PAYMENT_REQUIRED"), Pay("CREATED", "RESERVED"),
            Pay("RESERVED", "AUTHORIZING"), Pay("AUTHORIZING", "AUTHORIZED"),
            Inv("PAYMENT_REQUIRED", "PAYMENT_AUTHORIZED") >>
    [] a.type = "EXECUTE" ->
         << Inv("PAYMENT_AUTHORIZED",
                IF a.sellerFailed THEN "FAILED_BEFORE_SETTLEMENT"
                                  ELSE "EXECUTING") >>
    [] a.type = "STAGE" -> << Inv("EXECUTING", "OUTPUT_STAGED") >>
    [] a.type = "SETTLE" /\ a.settlementUnknown ->
         << Inv("OUTPUT_STAGED", "SETTLEMENT_PENDING"),
            Pay("AUTHORIZED", "SUBMITTED"),
            Pay("SUBMITTED", "SETTLEMENT_UNKNOWN"),
            Inv("SETTLEMENT_PENDING", "PAYMENT_UNKNOWN") >>
    [] a.type = "SETTLE" /\ ~a.settlementUnknown ->
         << Inv("OUTPUT_STAGED", "SETTLEMENT_PENDING"),
            Pay("AUTHORIZED", "SUBMITTED"), Pay("SUBMITTED", "CONFIRMED"),
            Pay("CONFIRMED", "FINALIZED"),
            Inv("SETTLEMENT_PENDING", "DELIVERABLE") >>
    [] a.type = "DELIVER" -> << Inv("DELIVERABLE", "DELIVERED") >>
    [] a.type = "ACK" -> << Inv("DELIVERED", "ACKED") >>
    [] a.type = "RESOLVE_SETTLEMENT" ->
         << Pay("SETTLEMENT_UNKNOWN", "CONFIRMED"),
            Pay("CONFIRMED", "FINALIZED"),
            Inv("PAYMENT_UNKNOWN", "DELIVERABLE") >>
    [] a.type = "REVOKE_LISTING" ->
         << Change("listing", "ACTIVE", "EMERGENCY_REVOKED") >>
         \o IF reasonCode = "REVOKED_BEFORE_SETTLEMENT"
            THEN << Inv("OUTPUT_STAGED", "FAILED_BEFORE_SETTLEMENT") >>
            ELSE <<>>

ExpectedTransitionTrace_NoneOnTimeout(a, outcome, errorCode, reasonCode) ==
  IF outcome \in {"TIMEOUT_BEFORE_COMMIT", "TIMEOUT_AFTER_COMMIT"}
     \/ errorCode \in { "ILLEGAL_STATE_TRANSITION", "PROOF_BINDING_MISMATCH",
                        "IDEMPOTENCY_FINGERPRINT_CONFLICT",
                        "PROOF_INCOMPLETE", "LISTING_REVOKED" }
  THEN <<>>
  ELSE ChangesOf(a, reasonCode)

ExpectedTransitionTrace(a, outcome, errorCode, reasonCode) ==
  IF a.type = "VERIFY" /\ errorCode = "LISTING_REVOKED"
  THEN << Inv("CREATED", "FAILED_BEFORE_SETTLEMENT") >>
  ELSE IF outcome = "TIMEOUT_BEFORE_COMMIT"
          \/ errorCode \in { "ILLEGAL_STATE_TRANSITION",
                             "PROOF_BINDING_MISMATCH",
                             "IDEMPOTENCY_FINGERPRINT_CONFLICT",
                             "PROOF_INCOMPLETE" }
       THEN <<>>
       ELSE ChangesOf(a, reasonCode)

Observation(a, outcome, errorCode, reasonCode) ==
  [ request |-> a, outcome |-> outcome, errorCode |-> errorCode,
    reasonCode |-> reasonCode,
    trace |-> ExpectedTransitionTrace(a, outcome, errorCode, reasonCode) ]

Answered(a, outcome) == Observation(a, outcome, "null", "null")

Refused(a, errorCode) == Observation(a, "REJECTED", errorCode, "null")

CommittedPrefix(count) ==
  [i \in 1..count |->
     Answered(ReferenceAction(Boundaries[i], "1"), "COMMITTED")]

EffectsThrough(count) ==
  [e \in EffectNames |->
     IF \E i \in 1..count : EffectOrder[i] = e THEN 1 ELSE 0]

PaymentStateFor(invocationState) ==
  CASE invocationState = "CREATED" -> "ABSENT"
    [] invocationState \in {"DELIVERABLE", "DELIVERED", "ACKED"} -> "FINALIZED"
    [] invocationState = "PAYMENT_UNKNOWN" -> "SETTLEMENT_UNKNOWN"
    [] OTHER -> "AUTHORIZED"

---------------------------------------------------------------------------
(***************************************************************************)
(* A vector: what is expected of the requests, one observation each, and   *)
(* of the state they leave.  The requests are those of the observations.   *)
(***************************************************************************)
Vector(id, observations, invocationState, committedEffects, errorCode) ==
  [ id |-> id, precondition |-> "ACTIVE", observations |-> observations,
    listingState |-> "ACTIVE", invocationState |-> invocationState,
    paymentIntentState |-> PaymentStateFor(invocationState),
    effects |-> committedEffects, errorCode |-> errorCode ]

Journal(v) ==
  FlattenSeq([i \in DOMAIN v.observations |->
                IF v.observations[i].outcome = "IDEMPOTENT_REPLAY" THEN <<>>
                ELSE v.observations[i].trace])

\* The first request of a type that changed the state and was not a replay.
CommittedAction(v, type, unknown) ==
  LET hits == { i \in DOMAIN v.observations :
                  LET o == v.observations[i] IN
                  /\ o.request.type = type
                  /\ o.trace # <<>>
                  /\ o.outcome # "IDEMPOTENT_REPLAY"
                  /\ o.request.settlementUnknown = unknown
                  /\ unknown \/ (o.errorCode = "null"
                                   /\ ~o.request.sellerFailed) }
  IN  IF hits = {} THEN NoRequest
      ELSE v.observations[CHOOSE i \in hits : \A j \in hits : i <= j].request

ProofOf(v, type) ==
  LET a == CommittedAction(v, type, FALSE)
  IN  IF a = NoRequest THEN "null" ELSE a.proofDigest

SettlementProof_First(v) == ProofOf(v, "SETTLE")

SettlementProof(v) ==
  IF ProofOf(v, "RESOLVE_SETTLEMENT") # "null"
  THEN ProofOf(v, "RESOLVE_SETTLEMENT")
  ELSE ProofOf(v, "SETTLE")

\* The evidence of a settlement that is still uncertain.
PendingObservation(v) ==
  IF v.paymentIntentState = "SETTLEMENT_UNKNOWN"
  THEN CommittedAction(v, "SETTLE", TRUE).observation
  ELSE "null"

PendingDeadline(v) ==
  /\ v.paymentIntentState = "SETTLEMENT_UNKNOWN"
  /\ CommittedAction(v, "SETTLE", TRUE).deadline

VerifyProof(v) ==
  IF v.paymentIntentState = "ABSENT" THEN "null" ELSE ProofOf(v, "VERIFY")

ExpectedInvocation(v) ==
  [ state                           |-> v.invocationState,
    paymentIntentRef                |-> VerifyProof(v) # "null",
    paymentProofDigest              |-> VerifyProof(v),
    outputStagingReceiptDigest      |-> ProofOf(v, "STAGE"),
    settlementReceiptDigest         |-> SettlementProof(v),
    fundingUnknownObservationDigest |-> PendingObservation(v),
    reconciliationDeadline          |-> PendingDeadline(v),
    deliveryReceiptDigest           |-> ProofOf(v, "DELIVER"),
    acknowledgementDigest           |-> ProofOf(v, "ACK") ]

ExpectedPaymentIntent(v) ==
  IF VerifyProof(v) = "null" THEN NoPaymentIntent
  ELSE [ state                           |-> v.paymentIntentState,
         fingerprintDigest               |->
           CommittedAction(v, "VERIFY", FALSE).fingerprintDigest,
         authorizationProofDigest        |-> VerifyProof(v),
         settlementReceiptDigest         |-> SettlementProof(v),
         fundingUnknownObservationDigest |-> PendingObservation(v),
         reconciliationDeadline          |-> PendingDeadline(v) ]

ExpectedOutput(v) ==
  [ buffered |-> ProofOf(v, "STAGE") # "null",
    response |-> ProofOf(v, "EXECUTE") # "null" ]

---------------------------------------------------------------------------
(***************************************************************************)
(* The vectors, in the order of the file.                                  *)
(***************************************************************************)
Happy ==
  Vector(<<"HAPPY">>, CommittedPrefix(6), "ACKED", EffectsThrough(6), "null")

\* A boundary that is answered twice under one key and commits once.
Repeated(i, name, first, firstOutcome, secondOutcome) ==
  Vector(<<Boundaries[i], name>>,
         CommittedPrefix(i - 1)
           \o << Answered(first, firstOutcome),
                 Answered([first EXCEPT !.fault = "none"], secondOutcome) >>,
         InvocationStateAfter[i], EffectsThrough(i), "null")

TimeoutBeforeCommit(i) ==
  Repeated(i, "TIMEOUT_BEFORE_COMMIT",
           [ReferenceAction(Boundaries[i], "1") EXCEPT
              !.fault = "TIMEOUT_BEFORE_COMMIT"],
           "TIMEOUT_BEFORE_COMMIT", "COMMITTED")

TimeoutAfterCommitReplay(i) ==
  Repeated(i, "TIMEOUT_AFTER_COMMIT_REPLAY",
           [ReferenceAction(Boundaries[i], "1") EXCEPT
              !.fault = "TIMEOUT_AFTER_COMMIT"],
           "TIMEOUT_AFTER_COMMIT", "IDEMPOTENT_REPLAY")

Duplicate(i) ==
  Repeated(i, "DUPLICATE", ReferenceAction(Boundaries[i], "1"),
           "COMMITTED", "IDEMPOTENT_REPLAY")

\* A boundary tried in a state it does not start from: VERIFY after itself,
\* every other one in a fresh scenario.
OutOfOrder(i) ==
  LET before == IF Boundaries[i] = "VERIFY" THEN 1 ELSE 0 IN
  Vector(<<Boundaries[i], "OUT_OF_ORDER">>,
         CommittedPrefix(before)
           \o << Refused(ReferenceAction(Boundaries[i], "out-of-order"),
                         "ILLEGAL_STATE_TRANSITION") >>,
         IF before = 1 THEN "PAYMENT_AUTHORIZED" ELSE "CREATED",
         EffectsThrough(before), "ILLEGAL_STATE_TRANSITION")

InvocationStateBefore(i) == IF i = 1 THEN "CREATED" ELSE InvocationStateAfter[i - 1]

Unproved(i, name, request) ==
  Vector(<<Boundaries[i], name>>,
         CommittedPrefix(i - 1)
           \o << Refused(request, "PROOF_BINDING_MISMATCH") >>,
         InvocationStateBefore(i), EffectsThrough(i - 1), "PROOF_BINDING_MISMATCH")

ProofMismatch(i) ==
  Unproved(i, "PROOF_MISMATCH",
           [ReferenceAction(Boundaries[i], "proof-mismatch") EXCEPT
              !.proofDigest = Boundaries[(i % 6) + 1]])

ProofChangedScope(i) ==
  Unproved(i, "PROOF_CHANGED_SCOPE",
           [ReferenceAction(Boundaries[i], "changed-scope") EXCEPT
              !.bindingDigest = "ALTERED"])

BoundaryVectors_ScopeOfAll(i) ==
  << TimeoutBeforeCommit(i), TimeoutAfterCommitReplay(i), Duplicate(i),
     OutOfOrder(i), ProofMismatch(i), ProofChangedScope(i) >>

BoundaryVectors(i) ==
  << TimeoutBeforeCommit(i), TimeoutAfterCommitReplay(i), Duplicate(i),
     OutOfOrder(i), ProofMismatch(i) >>
  \o IF Boundaries[i] = "VERIFY" THEN <<>> ELSE << ProofChangedScope(i) >>

SellerFailure(outcome) ==
  Vector(<<"EXECUTE", outcome>>,
         CommittedPrefix(1)
           \o << Observation([ReferenceAction("EXECUTE", outcome) EXCEPT
                                !.sellerFailed = TRUE],
                             "REJECTED", "OUTPUT_NOT_CHARGEABLE",
                             "SELLER_FAILED") >>,
         "FAILED_BEFORE_SETTLEMENT",
         [EffectsThrough(1) EXCEPT !["executions"] = 1],
         "OUTPUT_NOT_CHARGEABLE")

RevokeBeforeSettlement ==
  [Vector(<<"LISTING", "REVOKE_BEFORE_SETTLEMENT">>,
          CommittedPrefix(3)
            \o << Observation(
                    ReferenceAction("REVOKE_LISTING", "before-settlement"),
                    "REJECTED", "LISTING_REVOKED",
                    "REVOKED_BEFORE_SETTLEMENT") >>,
          "FAILED_BEFORE_SETTLEMENT", EffectsThrough(3), "LISTING_REVOKED")
   EXCEPT !.listingState = "EMERGENCY_REVOKED"]

RevokeAfterSettlement ==
  [Vector(<<"LISTING", "REVOKE_AFTER_SETTLEMENT">>,
          CommittedPrefix(4)
            \o << Observation(
                    ReferenceAction("REVOKE_LISTING", "after-settlement"),
                    "COMMITTED", "null", "SETTLED_INVOCATION_CONVERGES"),
                  Answered(ReferenceAction("DELIVER", "1"), "COMMITTED"),
                  Answered(ReferenceAction("ACK", "1"), "COMMITTED") >>,
          "ACKED", EffectsThrough(6), "null")
   EXCEPT !.listingState = "EMERGENCY_REVOKED"]

FingerprintConflict ==
  LET verify == ReferenceAction("VERIFY", "1") IN
  Vector(<<"VERIFY", "FINGERPRINT_CONFLICT">>,
         << Answered(verify, "COMMITTED"),
            Refused([verify EXCEPT !.fingerprintDigest = AlteredFingerprint],
                    "IDEMPOTENCY_FINGERPRINT_CONFLICT") >>,
         "PAYMENT_AUTHORIZED", EffectsThrough(1),
         "IDEMPOTENCY_FINGERPRINT_CONFLICT")

Macro(mutation) ==
  Vector(<<"VERIFY", mutation>>,
         << Refused([ReferenceAction("VERIFY", mutation) EXCEPT
                       !.macroMutation = mutation],
                    "ILLEGAL_STATE_TRANSITION") >>,
         "CREATED", EmptyEffects, "ILLEGAL_STATE_TRANSITION")

RevokedReplay ==
  LET verify == ReferenceAction("VERIFY", "revoked")
      refusal(outcome) == Observation(verify, outcome, "LISTING_REVOKED",
                                      "REVOKED_LISTING")
  IN  [Vector(<<"VERIFY", "REVOKED_REPLAY">>,
              << refusal("REJECTED"), refusal("IDEMPOTENT_REPLAY") >>,
              "FAILED_BEFORE_SETTLEMENT", EmptyEffects, "LISTING_REVOKED")
       EXCEPT !.precondition = "EMERGENCY_REVOKED",
              !.listingState = "EMERGENCY_REVOKED",
              !.paymentIntentState = "ABSENT"]

\* The claims about another authority or another invocation digest alike.
ProofChanged(mutation) ==
  LET verify == ReferenceAction("VERIFY", mutation) IN
  Unproved(1, mutation,
           IF mutation = "PROOF_CHANGED_FINGERPRINT"
           THEN [verify EXCEPT !.fingerprintDigest = AlteredFingerprint]
           ELSE [verify EXCEPT !.bindingDigest = "ALTERED"])

SettleUnknownRequest ==
  [ReferenceAction("SETTLE", "unknown") EXCEPT
     !.settlementUnknown = TRUE, !.deadline = TRUE,
     !.observation = "SETTLEMENT_UNKNOWN"]

SettlementIsUnknown ==
  Observation(SettleUnknownRequest, "RECONCILIATION_REQUIRED",
              "SETTLEMENT_UNKNOWN", "null")

UnknownPending ==
  Vector(<<"SETTLE", "UNKNOWN_PENDING">>,
         CommittedPrefix(3) \o << SettlementIsUnknown >>,
         "PAYMENT_UNKNOWN", EffectsThrough(3), "SETTLEMENT_UNKNOWN")

UnknownResolved ==
  Vector(<<"SETTLE", "UNKNOWN_RESOLVED">>,
         CommittedPrefix(3)
           \o << SettlementIsUnknown,
                 Answered(ReferenceAction("RESOLVE_SETTLEMENT", "1"),
                          "COMMITTED") >>,
         "DELIVERABLE", EffectsThrough(4), "null")

UnknownMissing(name, request) ==
  Vector(<<"SETTLE", name>>,
         CommittedPrefix(3) \o << Refused(request, "PROOF_INCOMPLETE") >>,
         "OUTPUT_STAGED", EffectsThrough(3), "PROOF_INCOMPLETE")

Vectors ==
  << Happy >>
  \o FlattenSeq([i \in 1..6 |-> BoundaryVectors(i)])
  \o << SellerFailure("SELLER_HTTP_5XX"), SellerFailure("SELLER_TIMEOUT"),
        SellerFailure("SELLER_SCHEMA_ERROR"),
        RevokeBeforeSettlement, RevokeAfterSettlement, FingerprintConflict,
        Macro("UNKNOWN_TRANSITION"), Macro("SKIP_REQUIRED_STATE"),
        Macro("SKIP_RESERVATION"), RevokedReplay,
        ProofChanged("PROOF_CHANGED_FINGERPRINT"),
        ProofChanged("PROOF_CHANGED_AUTHORITY"),
        ProofChanged("PROOF_CHANGED_SCOPE"),
        UnknownPending, UnknownResolved,
        UnknownMissing("UNKNOWN_MISSING_RECONCILIATIONDEADLINE",
                       [SettleUnknownRequest EXCEPT !.deadline = FALSE]),
        UnknownMissing("UNKNOWN_MISSING_UNKNOWNOBSERVATIONDIGEST",
                       [SettleUnknownRequest EXCEPT !.observation = "null"]) >>

VectorRequests ==
  UNION { {v.observations[i].request : i \in DOMAIN v.observations} :
            v \in {Vectors[n] : n \in DOMAIN Vectors} }

VectorKeys == {r.idempotencyKey : r \in VectorRequests}

VectorFingerprints == {r.fingerprintDigest : r \in VectorRequests}

---------------------------------------------------------------------------
(***************************************************************************)
(* Who owns a vector: the money kernel, the reference's own harness or the *)
(* commercial ledger.  Three lists that the cross-language runner checks   *)
(* against the accepted vectors before it starts an adapter.               *)
(***************************************************************************)
Rows(boundary, names) == [i \in DOMAIN names |-> <<boundary, names[i]>>]

Matrix == << "TIMEOUT_BEFORE_COMMIT", "TIMEOUT_AFTER_COMMIT_REPLAY",
             "DUPLICATE", "OUT_OF_ORDER" >>

FullMatrix == Matrix \o << "PROOF_MISMATCH", "PROOF_CHANGED_SCOPE" >>

MoneyKernelVectorIds ==
  << <<"HAPPY">> >> \o Rows("VERIFY", Matrix) \o Rows("SETTLE", FullMatrix)
  \o << <<"LISTING", "REVOKE_BEFORE_SETTLEMENT">>,
        <<"LISTING", "REVOKE_AFTER_SETTLEMENT">>,
        <<"VERIFY", "FINGERPRINT_CONFLICT">>, <<"VERIFY", "REVOKED_REPLAY">>,
        <<"SETTLE", "UNKNOWN_PENDING">>, <<"SETTLE", "UNKNOWN_RESOLVED">> >>

ReferenceHarnessOnlyVectorIds ==
  Rows("VERIFY", << "PROOF_MISMATCH", "UNKNOWN_TRANSITION",
                    "SKIP_REQUIRED_STATE", "SKIP_RESERVATION",
                    "PROOF_CHANGED_FINGERPRINT", "PROOF_CHANGED_AUTHORITY",
                    "PROOF_CHANGED_SCOPE" >>)
  \o Rows("SETTLE", << "UNKNOWN_MISSING_RECONCILIATIONDEADLINE",
                       "UNKNOWN_MISSING_UNKNOWNOBSERVATIONDIGEST" >>)

CommercialLedgerVectorIds ==
  Rows("EXECUTE", FullMatrix) \o Rows("STAGE", FullMatrix)
  \o Rows("DELIVER", FullMatrix) \o Rows("ACK", FullMatrix)
  \o Rows("EXECUTE", << "SELLER_HTTP_5XX", "SELLER_TIMEOUT",
                        "SELLER_SCHEMA_ERROR" >>)

SemanticProofVectorIds ==
  Rows("VERIFY", << "PROOF_MISMATCH", "PROOF_CHANGED_FINGERPRINT",
                    "PROOF_CHANGED_AUTHORITY", "PROOF_CHANGED_SCOPE" >>)

ElementsOf(s) == {s[i] : i \in DOMAIN s}

ValidateOwnership(vectorIds) ==
  LET groups == << MoneyKernelVectorIds, ReferenceHarnessOnlyVectorIds,
                   CommercialLedgerVectorIds >>
      flattened == FlattenSeq(groups)
  IN  /\ << Len(groups[1]), Len(groups[2]), Len(groups[3]) >> = << 17, 9, 27 >>
      /\ Cardinality(ElementsOf(flattened)) = 53
      /\ Cardinality(ElementsOf(vectorIds)) = 53
      /\ Len(vectorIds) = 53
      /\ ElementsOf(flattened) = ElementsOf(vectorIds)
      /\ \A n \in DOMAIN groups :
           SelectSeq(vectorIds, LAMBDA id : id \in ElementsOf(groups[n]))
             = groups[n]

---------------------------------------------------------------------------
(***************************************************************************)
(* Replaying a vector: the requests of its scenario, one after the other.  *)
(***************************************************************************)
Replayed == Len(observed) = Len(vector.observations)

VectorInit ==
  /\ \E n \in DOMAIN Vectors : vector = Vectors[n]
  /\ Init
  /\ listing = vector.precondition
  /\ observed = <<>>

Play ==
  /\ ~Replayed
  /\ Answer(vector.observations[Len(observed) + 1].request)
  /\ observed' = Append(observed, last')
  /\ UNCHANGED vector

Stop == Replayed /\ UNCHANGED <<vars, vector, observed>>

VectorSpec ==
  VectorInit /\ [][Play \/ Stop]_<<vars, vector, observed>>

---------------------------------------------------------------------------
(***************************************************************************)
(* What the runner compares once the scenario has ended.                   *)
(***************************************************************************)
LastErrorCode == last.errorCode

EvaluateVector ==
  /\ RunnerAccepts
  /\ listing = vector.listingState
  /\ invocation = ExpectedInvocation(vector)
  /\ paymentIntent = ExpectedPaymentIntent(vector)
  /\ output = ExpectedOutput(vector)
  /\ effects = vector.effects
  /\ journal = Journal(vector)
  /\ observed = vector.observations
  /\ LastErrorCode = vector.errorCode

(***************************************************************************)
(* The reference passes its own suite: the state, the evidence, the        *)
(* effects and the journal that the rules of the vectors derive from the   *)
(* expected outcomes alone are those that the flow ends in, and each of    *)
(* its answers is the one expected at that place: a lost response reports  *)
(* the changes it made, a replay the first answer's, a refusal none.       *)
(***************************************************************************)
ReferencePasses == Replayed => EvaluateVector

(***************************************************************************)
(* The lists of owners partition the vectors the suite generates and keep  *)
(* their order, and every vector that is to show that a changed proof is   *)
(* refused ends in just that refusal.                                      *)
(***************************************************************************)
EveryVectorIsOwned ==
  /\ ValidateOwnership([n \in DOMAIN Vectors |-> Vectors[n].id])
  /\ Replayed /\ vector.id \in ElementsOf(SemanticProofVectorIds)
       => LastErrorCode = "PROOF_BINDING_MISMATCH"
=============================================================================
