---------------------------- MODULE HostedFlow ----------------------------
(***************************************************************************)
(* The hosted reference flow: one listing, one invocation, one payment     *)
(* intent and the content escrow of one service call, driven by a scenario *)
(* of requests that arrive in any order, are retried under the same        *)
(* idempotency key or under a new one, lose their response or never reach  *)
(* the commit, and may carry evidence that proves something else.          *)
(*                                                                         *)
(* One action of this module is one iteration of the scenario loop.  The   *)
(* loop tests a request in a fixed order (idempotency record, revoked      *)
(* listing, proof, fault, completeness, legality of every state change) and *)
(* either commits all that the request does or nothing; the actions below  *)
(* are the exits of that loop.                                             *)
(***************************************************************************)
EXTENDS TransitionRegistry, Naturals, Sequences, FiniteSets

CONSTANTS
  Keys,              \* idempotency keys
  Fingerprints,      \* payment intent fingerprints
  BoundFingerprint,  \* the one the scenario's precondition names
  Requests           \* the requests the scenario may be made of

VARIABLES
  status,         \* "RUNNING", or how an exception ended the scenario
  listing,        \* state of the listing
  invocation,     \* commercial projection
  paymentIntent,  \* funding projection; state "ABSENT" stands for null
  output,         \* the content escrow's metadata
  effects,        \* how often each external effect was committed
  committed,      \* idempotency records by key; type "none": no record
  journal,        \* every state change committed so far
  last,           \* the observation the last request was answered with
  reported        \* transitions reported by all non-replay observations

vars == << status, listing, invocation, paymentIntent, output, effects,
           committed, journal, last, reported >>

ledger == << listing, invocation, paymentIntent, output, effects >>

---------------------------------------------------------------------------
(***************************************************************************)
(* Requests.  A digest is named after what it digests: the proof of a      *)
(* boundary has the boundary's name, the funding authority's observation   *)
(* of an uncertain settlement is "SETTLEMENT_UNKNOWN", and every other     *)
(* digest is "ALTERED".                                                    *)
(***************************************************************************)
ActionTypes ==
  { "VERIFY", "EXECUTE", "STAGE", "SETTLE", "DELIVER", "ACK",
    "REVOKE_LISTING", "RESOLVE_SETTLEMENT" }

Digests == ActionTypes \cup {"SETTLEMENT_UNKNOWN", "ALTERED"}

DigestOrNull == Digests \cup {"null"}

RequestType ==
  [ idempotencyKey    : Keys,
    type              : ActionTypes,
    fingerprintDigest : Fingerprints,
    bindingDigest     : Digests,   \* digest of the claims in the request
    proofDigest       : Digests,   \* digest the request presents
    fault             : {"none", "TIMEOUT_BEFORE_COMMIT",
                         "TIMEOUT_AFTER_COMMIT"},
    sellerFailed      : BOOLEAN,   \* sellerOutcome is present
    settlementUnknown : BOOLEAN,   \* settlementOutcome is "UNKNOWN"
    deadline          : BOOLEAN,   \* reconciliationDeadline is present
    observation       : DigestOrNull,
    macroMutation     : {"none", "UNKNOWN_TRANSITION",
                         "SKIP_REQUIRED_STATE", "SKIP_RESERVATION"} ]

(***************************************************************************)
(* What scenario validation lets through.  The claims of a request name    *)
(* the request's own boundary, so their digest is that of the boundary's   *)
(* expected claims or of claims about other objects.                       *)
(***************************************************************************)
ValidRequests ==
  { r \in RequestType :
      /\ r.bindingDigest \in {r.type, "ALTERED"}
      /\ r.sellerFailed => r.type = "EXECUTE"
      /\ (r.settlementUnknown \/ r.deadline \/ r.observation # "null")
            => r.type = "SETTLE"
      /\ r.macroMutation # "none" => r.type = "VERIFY" }

NoRequest == [type |-> "none"]

ASSUME FingerprintAssumption == BoundFingerprint \in Fingerprints
ASSUME RequestsAssumption    == Requests \subseteq ValidRequests

---------------------------------------------------------------------------
(***************************************************************************)
(* The state a scenario starts in.                                         *)
(***************************************************************************)
EffectNames == { "authorizations", "executions", "stagings", "settlements",
                 "deliveries", "acknowledgements" }

EmptyEffects == [e \in EffectNames |-> 0]

NewInvocation ==
  [ state                           |-> "CREATED",
    paymentIntentRef                |-> FALSE,
    paymentProofDigest              |-> "null",
    outputStagingReceiptDigest      |-> "null",
    settlementReceiptDigest         |-> "null",
    fundingUnknownObservationDigest |-> "null",
    reconciliationDeadline          |-> FALSE,
    deliveryReceiptDigest           |-> "null",
    acknowledgementDigest           |-> "null" ]

NoPaymentIntent ==
  [ state                           |-> "ABSENT",
    fingerprintDigest               |-> BoundFingerprint,
    authorizationProofDigest        |-> "null",
    settlementReceiptDigest         |-> "null",
    fundingUnknownObservationDigest |-> "null",
    reconciliationDeadline          |-> FALSE ]

NoRecord ==
  [ type |-> "none", fingerprintDigest |-> BoundFingerprint, trace |-> <<>>,
    errorCode |-> "null", reasonCode |-> "null" ]

Init ==
  /\ status = "RUNNING"
  /\ listing \in {"ACTIVE", "EMERGENCY_REVOKED"}
  /\ invocation = NewInvocation
  /\ paymentIntent = NoPaymentIntent
  /\ output = [buffered |-> FALSE, response |-> FALSE]
  /\ effects = EmptyEffects
  /\ committed = [k \in Keys |-> NoRecord]
  /\ journal = <<>>
  /\ last = [ request |-> NoRequest, outcome |-> "none",
              errorCode |-> "null", reasonCode |-> "null", trace |-> <<>> ]
  /\ reported = 0

---------------------------------------------------------------------------
(***************************************************************************)
(* State changes.  A trace is the sequence of changes one request makes;   *)
(* it is legal when the registry holds every one of them.  The change that *)
(* is looked up first is the first of its machine in the trace, so only    *)
(* that one depends on the current state.                                  *)
(***************************************************************************)
Change(machine, from, to) == [machine |-> machine, from |-> from, to |-> to]

Inv(from, to) == Change("invocation", from, to)
Pay(from, to) == Change("paymentIntent", from, to)

Legal_Unchecked(trace) == TRUE

Legal(trace) ==
  \A i \in 1..Len(trace) :
    RegistryEdge(trace[i].machine, trace[i].from, trace[i].to,
                 "HOSTED", "MANDATE_PROTECTED")

VerifyTrace(r) ==
  CASE r.macroMutation = "UNKNOWN_TRANSITION" ->
         << Inv(invocation.state, "UNKNOWN_STATE") >>
    [] r.macroMutation = "SKIP_REQUIRED_STATE" ->
         << Inv(invocation.state, "PAYMENT_AUTHORIZED"),
            Inv("PAYMENT_AUTHORIZED", "PAYMENT_REQUIRED") >>
    [] r.macroMutation = "SKIP_RESERVATION" ->
         << Inv(invocation.state, "PAYMENT_REQUIRED"),
            Pay("CREATED", "AUTHORIZING") >>
    [] OTHER ->
         << Inv(invocation.state, "PAYMENT_REQUIRED"),
            Pay("CREATED", "RESERVED"),
            Pay("RESERVED", "AUTHORIZING"),
            Pay("AUTHORIZING", "AUTHORIZED"),
            Inv("PAYMENT_REQUIRED", "PAYMENT_AUTHORIZED") >>

ExecuteTrace(r) ==
  << Inv(invocation.state,
         IF r.sellerFailed THEN "FAILED_BEFORE_SETTLEMENT" ELSE "EXECUTING") >>

StageTrace == << Inv(invocation.state, "OUTPUT_STAGED") >>

SettleTrace(r) ==
  << Inv(invocation.state, "SETTLEMENT_PENDING"),
     Pay(paymentIntent.state, "SUBMITTED") >>
  \o IF r.settlementUnknown
     THEN << Pay("SUBMITTED", "SETTLEMENT_UNKNOWN"),
             Inv("SETTLEMENT_PENDING", "PAYMENT_UNKNOWN") >>
     ELSE << Pay("SUBMITTED", "CONFIRMED"), Pay("CONFIRMED", "FINALIZED"),
             Inv("SETTLEMENT_PENDING", "DELIVERABLE") >>

DeliverTrace == << Inv(invocation.state, "DELIVERED") >>

AckTrace == << Inv(invocation.state, "ACKED") >>

ResolveTrace ==
  << Pay(paymentIntent.state, "CONFIRMED"), Pay("CONFIRMED", "FINALIZED"),
     Inv(invocation.state, "DELIVERABLE") >>

SettlementFinal_OrUnknown ==
  invocation.state \in {"PAYMENT_UNKNOWN", "DELIVERABLE", "DELIVERED", "ACKED"}

SettlementFinal ==
  invocation.state \in {"DELIVERABLE", "DELIVERED", "ACKED"}

FailTrace == << Inv(invocation.state, "FAILED_BEFORE_SETTLEMENT") >>

RevokeTrace ==
  << Change("listing", listing, "EMERGENCY_REVOKED") >>
  \o IF SettlementFinal THEN <<>> ELSE FailTrace

MacroTrace(r) ==
  CASE r.type = "VERIFY"             -> VerifyTrace(r)
    [] r.type = "EXECUTE"            -> ExecuteTrace(r)
    [] r.type = "STAGE"              -> StageTrace
    [] r.type = "SETTLE"             -> SettleTrace(r)
    [] r.type = "DELIVER"            -> DeliverTrace
    [] r.type = "ACK"                -> AckTrace
    [] r.type = "RESOLVE_SETTLEMENT" -> ResolveTrace
    [] r.type = "REVOKE_LISTING"     -> RevokeTrace

---------------------------------------------------------------------------
(***************************************************************************)
(* How far a request gets.  Each predicate is the conjunction of the       *)
(* previous one and the next test of the loop.                             *)
(***************************************************************************)
Recorded(r) == committed[r.idempotencyKey].type # "none"

Fresh_NoLookup(r) == status = "RUNNING"

Fresh(r) == status = "RUNNING" /\ ~Recorded(r)

ListingRefuses_Never(r) == FALSE

ListingRefuses(r) == r.type = "VERIFY" /\ listing # "ACTIVE"

Open(r) == Fresh(r) /\ ~ListingRefuses(r)

ExpectedVerifyBinding_AnyFingerprint(r) ==
  r.bindingDigest = r.proofDigest /\ r.proofDigest = "VERIFY"

ExpectedVerifyBinding(r) ==
  /\ r.fingerprintDigest = BoundFingerprint
  /\ r.bindingDigest = r.proofDigest
  /\ r.proofDigest = "VERIFY"

ExpectedBoundaryBinding_SelfConsistent(r) == r.bindingDigest = r.proofDigest

ExpectedBoundaryBinding(r) ==
  /\ \/ paymentIntent.state = "ABSENT"
     \/ paymentIntent.fingerprintDigest = BoundFingerprint
  /\ r.bindingDigest = r.proofDigest
  /\ r.proofDigest = r.type

ProofMatches(r) ==
  IF r.type = "VERIFY" THEN ExpectedVerifyBinding(r)
                       ELSE ExpectedBoundaryBinding(r)

Proven(r) == Open(r) /\ ProofMatches(r)

InTime(r) == Proven(r) /\ r.fault # "TIMEOUT_BEFORE_COMMIT"

ProofIncomplete_DeadlineOnly(r) ==
  r.type = "SETTLE" /\ r.settlementUnknown /\ ~r.deadline

ProofIncomplete(r) ==
  /\ r.type = "SETTLE"
  /\ r.settlementUnknown
  /\ ~r.deadline \/ r.observation # "SETTLEMENT_UNKNOWN"

Complete(r) == InTime(r) /\ ~ProofIncomplete(r)

IntentMissing(r) ==
  r.type = "RESOLVE_SETTLEMENT" /\ paymentIntent.state = "ABSENT"

Admitted(r) ==
  Complete(r) /\ ~IntentMissing(r) /\ Legal(MacroTrace(r))

---------------------------------------------------------------------------
(***************************************************************************)
(* What every exit of the loop leaves behind.                              *)
(***************************************************************************)
Observe(r, outcome, errorCode, reasonCode, trace) ==
  /\ last' = [ request |-> r, outcome |-> outcome, errorCode |-> errorCode,
               reasonCode |-> reasonCode, trace |-> trace ]
  /\ reported' = reported + IF outcome = "IDEMPOTENT_REPLAY" THEN 0
                                                         ELSE Len(trace)

Reject(r, outcome, errorCode) ==
  /\ Observe(r, outcome, errorCode, "null", <<>>)
  /\ UNCHANGED <<status, ledger, committed, journal>>

Record(r, trace, errorCode, reasonCode) ==
  /\ journal' = journal \o trace
  /\ committed' =
       [committed EXCEPT ![r.idempotencyKey] =
          [ type |-> r.type, fingerprintDigest |-> r.fingerprintDigest,
            trace |-> trace, errorCode |-> errorCode,
            reasonCode |-> reasonCode ]]

Commit_ForgetsLostResponse(r, outcome, errorCode, reasonCode) ==
  /\ journal' = journal \o MacroTrace(r)
  /\ IF r.fault = "TIMEOUT_AFTER_COMMIT"
     THEN UNCHANGED committed
     ELSE Record(r, MacroTrace(r), errorCode, reasonCode)
  /\ Observe(r,
             IF r.fault = "TIMEOUT_AFTER_COMMIT" THEN r.fault ELSE outcome,
             errorCode, reasonCode, MacroTrace(r))
  /\ UNCHANGED status

Commit(r, outcome, errorCode, reasonCode) ==
  /\ Record(r, MacroTrace(r), errorCode, reasonCode)
  /\ Observe(r,
             IF r.fault = "TIMEOUT_AFTER_COMMIT" THEN r.fault ELSE outcome,
             errorCode, reasonCode, MacroTrace(r))
  /\ UNCHANGED status

Count(effect) == effects' = [effects EXCEPT ![effect] = @ + 1]

---------------------------------------------------------------------------
(***************************************************************************)
(* The exits of the loop before the macro is applied, in the loop's order. *)
(***************************************************************************)
Replay(r) ==
  LET c == committed[r.idempotencyKey] IN
  /\ status = "RUNNING"
  /\ Recorded(r)
  /\ c.type = r.type
  /\ c.fingerprintDigest = r.fingerprintDigest
  /\ Observe(r, "IDEMPOTENT_REPLAY", c.errorCode, c.reasonCode, c.trace)
  /\ UNCHANGED <<status, ledger, committed, journal>>

Conflict(r) ==
  LET c == committed[r.idempotencyKey] IN
  /\ status = "RUNNING"
  /\ Recorded(r)
  /\ c.type # r.type \/ c.fingerprintDigest # r.fingerprintDigest
  /\ Reject(r, "REJECTED", "IDEMPOTENCY_FINGERPRINT_CONFLICT")

RefuseRevokedListing_NoJournal(r) ==
  /\ Fresh(r)
  /\ ListingRefuses(r)
  /\ Legal(FailTrace)
  /\ invocation' = [invocation EXCEPT !.state = "FAILED_BEFORE_SETTLEMENT"]
  /\ Record(r, <<>>, "LISTING_REVOKED", "REVOKED_LISTING")
  /\ Observe(r, "REJECTED", "LISTING_REVOKED", "REVOKED_LISTING", FailTrace)
  /\ UNCHANGED <<status, listing, paymentIntent, output, effects>>

\* A VERIFY against a revoked listing fails the invocation and is recorded,
\* before its proof and its fault are looked at.
RefuseRevokedListing(r) ==
  /\ Fresh(r)
  /\ ListingRefuses(r)
  /\ Legal(FailTrace)
  /\ invocation' = [invocation EXCEPT !.state = "FAILED_BEFORE_SETTLEMENT"]
  /\ Record(r, FailTrace, "LISTING_REVOKED", "REVOKED_LISTING")
  /\ Observe(r, "REJECTED", "LISTING_REVOKED", "REVOKED_LISTING", FailTrace)
  /\ UNCHANGED <<status, listing, paymentIntent, output, effects>>

\* That state change is made outside the try block that answers illegal ones.
AbortRevokedListing(r) ==
  /\ Fresh(r)
  /\ ListingRefuses(r)
  /\ ~Legal(FailTrace)
  /\ status' = "ILLEGAL_TRANSITION_THROWN"
  /\ UNCHANGED <<ledger, committed, journal, last, reported>>

RejectProof(r) ==
  /\ Open(r)
  /\ ~ProofMatches(r)
  /\ Reject(r, "REJECTED", "PROOF_BINDING_MISMATCH")

TimeOutBeforeCommit_Records(r) ==
  /\ Proven(r)
  /\ r.fault = "TIMEOUT_BEFORE_COMMIT"
  /\ Record(r, <<>>, "null", "null")
  /\ Observe(r, "TIMEOUT_BEFORE_COMMIT", "null", "null", <<>>)
  /\ UNCHANGED <<status, ledger>>

TimeOutBeforeCommit(r) ==
  /\ Proven(r)
  /\ r.fault = "TIMEOUT_BEFORE_COMMIT"
  /\ Reject(r, "TIMEOUT_BEFORE_COMMIT", "null")

RejectIncompleteProof(r) ==
  /\ InTime(r)
  /\ ProofIncomplete(r)
  /\ Reject(r, "REJECTED", "PROOF_INCOMPLETE")

\* The macro of RESOLVE_SETTLEMENT reads a field of the payment intent first.
AbortMissingIntent(r) ==
  /\ Complete(r)
  /\ IntentMissing(r)
  /\ status' = "TYPE_ERROR_THROWN"
  /\ UNCHANGED <<ledger, committed, journal, last, reported>>

RejectIllegal(r) ==
  /\ Complete(r)
  /\ ~IntentMissing(r)
  /\ ~Legal(MacroTrace(r))
  /\ Reject(r, "REJECTED", "ILLEGAL_STATE_TRANSITION")

---------------------------------------------------------------------------
(***************************************************************************)
(* The macros.                                                             *)
(***************************************************************************)
Verify(r) ==
  /\ r.type = "VERIFY"
  /\ Admitted(r)
  /\ invocation' = [invocation EXCEPT !.state = "PAYMENT_AUTHORIZED",
                                      !.paymentIntentRef = TRUE,
                                      !.paymentProofDigest = r.proofDigest]
  /\ paymentIntent' = [NoPaymentIntent EXCEPT
                         !.state = "AUTHORIZED",
                         !.fingerprintDigest = r.fingerprintDigest,
                         !.authorizationProofDigest = r.proofDigest]
  /\ Count("authorizations")
  /\ Commit(r, "COMMITTED", "null", "null")
  /\ UNCHANGED <<listing, output>>

Execute(r) ==
  /\ r.type = "EXECUTE"
  /\ ~r.sellerFailed
  /\ Admitted(r)
  /\ invocation' = [invocation EXCEPT !.state = "EXECUTING"]
  /\ output' = [output EXCEPT !.response = TRUE]
  /\ Count("executions")
  /\ Commit(r, "COMMITTED", "null", "null")
  /\ UNCHANGED <<listing, paymentIntent>>

ExecuteFails(r) ==
  /\ r.type = "EXECUTE"
  /\ r.sellerFailed
  /\ Admitted(r)
  /\ invocation' = [invocation EXCEPT !.state = "FAILED_BEFORE_SETTLEMENT"]
  /\ Count("executions")
  /\ Commit(r, "REJECTED", "OUTPUT_NOT_CHARGEABLE", "SELLER_FAILED")
  /\ UNCHANGED <<listing, paymentIntent, output>>

Stage(r) ==
  /\ r.type = "STAGE"
  /\ Admitted(r)
  /\ invocation' = [invocation EXCEPT
                      !.state = "OUTPUT_STAGED",
                      !.outputStagingReceiptDigest = r.proofDigest]
  /\ output' = [output EXCEPT !.buffered = TRUE]
  /\ Count("stagings")
  /\ Commit(r, "COMMITTED", "null", "null")
  /\ UNCHANGED <<listing, paymentIntent>>

Settle(r) ==
  /\ r.type = "SETTLE"
  /\ ~r.settlementUnknown
  /\ Admitted(r)
  /\ invocation' = [invocation EXCEPT
                      !.state = "DELIVERABLE",
                      !.settlementReceiptDigest = r.proofDigest]
  /\ paymentIntent' = [paymentIntent EXCEPT
                         !.state = "FINALIZED",
                         !.settlementReceiptDigest = r.proofDigest]
  /\ Count("settlements")
  /\ Commit(r, "COMMITTED", "null", "null")
  /\ UNCHANGED <<listing, output>>

SettleUnknown_OneSided(r) ==
  /\ r.type = "SETTLE"
  /\ r.settlementUnknown
  /\ Admitted(r)
  /\ invocation' = [invocation EXCEPT
                      !.state = "PAYMENT_UNKNOWN",
                      !.fundingUnknownObservationDigest = r.observation]
  /\ paymentIntent' = [paymentIntent EXCEPT
                         !.state = "SETTLEMENT_UNKNOWN",
                         !.fundingUnknownObservationDigest = r.observation,
                         !.reconciliationDeadline = r.deadline]
  /\ Commit(r, "RECONCILIATION_REQUIRED", "SETTLEMENT_UNKNOWN", "null")
  /\ UNCHANGED <<listing, output, effects>>

SettleUnknown(r) ==
  /\ r.type = "SETTLE"
  /\ r.settlementUnknown
  /\ Admitted(r)
  /\ invocation' = [invocation EXCEPT
                      !.state = "PAYMENT_UNKNOWN",
                      !.fundingUnknownObservationDigest = r.observation,
                      !.reconciliationDeadline = r.deadline]
  /\ paymentIntent' = [paymentIntent EXCEPT
                         !.state = "SETTLEMENT_UNKNOWN",
                         !.fundingUnknownObservationDigest = r.observation,
                         !.reconciliationDeadline = r.deadline]
  /\ Commit(r, "RECONCILIATION_REQUIRED", "SETTLEMENT_UNKNOWN", "null")
  /\ UNCHANGED <<listing, output, effects>>

Deliver(r) ==
  /\ r.type = "DELIVER"
  /\ Admitted(r)
  /\ invocation' = [invocation EXCEPT
                      !.state = "DELIVERED",
                      !.deliveryReceiptDigest = r.proofDigest]
  /\ Count("deliveries")
  /\ Commit(r, "COMMITTED", "null", "null")
  /\ UNCHANGED <<listing, paymentIntent, output>>

Ack(r) ==
  /\ r.type = "ACK"
  /\ Admitted(r)
  /\ invocation' = [invocation EXCEPT
                      !.state = "ACKED",
                      !.acknowledgementDigest = r.proofDigest]
  /\ Count("acknowledgements")
  /\ Commit(r, "COMMITTED", "null", "null")
  /\ UNCHANGED <<listing, paymentIntent, output>>

ResolveSettlement_NoFundingReceipt(r) ==
  /\ r.type = "RESOLVE_SETTLEMENT"
  /\ Admitted(r)
  /\ invocation' = [invocation EXCEPT
                      !.state = "DELIVERABLE",
                      !.fundingUnknownObservationDigest = "null",
                      !.reconciliationDeadline = FALSE,
                      !.settlementReceiptDigest = r.proofDigest]
  /\ paymentIntent' = [paymentIntent EXCEPT
                         !.state = "FINALIZED",
                         !.fundingUnknownObservationDigest = "null",
                         !.reconciliationDeadline = FALSE]
  /\ Count("settlements")
  /\ Commit(r, "COMMITTED", "null", "null")
  /\ UNCHANGED <<listing, output>>

ResolveSettlement(r) ==
  /\ r.type = "RESOLVE_SETTLEMENT"
  /\ Admitted(r)
  /\ invocation' = [invocation EXCEPT
                      !.state = "DELIVERABLE",
                      !.fundingUnknownObservationDigest = "null",
                      !.reconciliationDeadline = FALSE,
                      !.settlementReceiptDigest = r.proofDigest]
  /\ paymentIntent' = [paymentIntent EXCEPT
                         !.state = "FINALIZED",
                         !.fundingUnknownObservationDigest = "null",
                         !.reconciliationDeadline = FALSE,
                         !.settlementReceiptDigest = r.proofDigest]
  /\ Count("settlements")
  /\ Commit(r, "COMMITTED", "null", "null")
  /\ UNCHANGED <<listing, output>>

RevokeUnsettled(r) ==
  /\ r.type = "REVOKE_LISTING"
  /\ ~SettlementFinal
  /\ Admitted(r)
  /\ listing' = "EMERGENCY_REVOKED"
  /\ invocation' = [invocation EXCEPT !.state = "FAILED_BEFORE_SETTLEMENT"]
  /\ Commit(r, "REJECTED", "LISTING_REVOKED", "REVOKED_BEFORE_SETTLEMENT")
  /\ UNCHANGED <<paymentIntent, output, effects>>

RevokeSettled(r) ==
  /\ r.type = "REVOKE_LISTING"
  /\ SettlementFinal
  /\ Admitted(r)
  /\ listing' = "EMERGENCY_REVOKED"
  /\ Commit(r, "COMMITTED", "null", "SETTLED_INVOCATION_CONVERGES")
  /\ UNCHANGED <<invocation, paymentIntent, output, effects>>

\* One iteration of the loop: the request is answered, or ends the scenario.
Answer(r) ==
  \/ Replay(r) \/ Conflict(r)
  \/ RefuseRevokedListing(r) \/ AbortRevokedListing(r)
  \/ RejectProof(r) \/ TimeOutBeforeCommit(r)
  \/ RejectIncompleteProof(r) \/ AbortMissingIntent(r) \/ RejectIllegal(r)
  \/ Verify(r) \/ Execute(r) \/ ExecuteFails(r) \/ Stage(r)
  \/ Settle(r) \/ SettleUnknown(r) \/ Deliver(r) \/ Ack(r)
  \/ ResolveSettlement(r) \/ RevokeUnsettled(r) \/ RevokeSettled(r)

Next == \E r \in Requests : Answer(r)

Spec == Init /\ [][Next]_vars

---------------------------------------------------------------------------
(***************************************************************************)
(* Types.                                                                  *)
(***************************************************************************)
Texts ==
  { "null", "SETTLEMENT_UNKNOWN", "OUTPUT_NOT_CHARGEABLE", "LISTING_REVOKED",
    "IDEMPOTENCY_FINGERPRINT_CONFLICT", "PROOF_BINDING_MISMATCH",
    "PROOF_INCOMPLETE", "ILLEGAL_STATE_TRANSITION", "SELLER_FAILED",
    "REVOKED_LISTING", "REVOKED_BEFORE_SETTLEMENT",
    "SETTLED_INVOCATION_CONVERGES" }

Outcomes ==
  { "none", "COMMITTED", "REJECTED", "RECONCILIATION_REQUIRED",
    "IDEMPOTENT_REPLAY", "TIMEOUT_BEFORE_COMMIT", "TIMEOUT_AFTER_COMMIT" }

Changes ==
  [ machine : Machines,
    from    : ListingStates \cup InvocationStates \cup PaymentIntentStates,
    to      : ListingStates \cup InvocationStates \cup PaymentIntentStates ]

InvocationType ==
  [ state                           : InvocationStates,
    paymentIntentRef                : BOOLEAN,
    paymentProofDigest              : DigestOrNull,
    outputStagingReceiptDigest      : DigestOrNull,
    settlementReceiptDigest         : DigestOrNull,
    fundingUnknownObservationDigest : DigestOrNull,
    reconciliationDeadline          : BOOLEAN,
    deliveryReceiptDigest           : DigestOrNull,
    acknowledgementDigest           : DigestOrNull ]

PaymentIntentType ==
  [ state                           : PaymentIntentStates \cup {"ABSENT"},
    fingerprintDigest               : Fingerprints,
    authorizationProofDigest        : DigestOrNull,
    settlementReceiptDigest         : DigestOrNull,
    fundingUnknownObservationDigest : DigestOrNull,
    reconciliationDeadline          : BOOLEAN ]

RecordType ==
  [ type : ActionTypes \cup {"none"}, fingerprintDigest : Fingerprints,
    trace : Seq(Changes), errorCode : Texts, reasonCode : Texts ]

ObservationType ==
  [ request : Requests \cup {NoRequest}, outcome : Outcomes,
    errorCode : Texts, reasonCode : Texts, trace : Seq(Changes) ]

\* Every variable keeps the shape of the object it stands for.
TypeOK ==
  /\ status \in {"RUNNING", "ILLEGAL_TRANSITION_THROWN", "TYPE_ERROR_THROWN"}
  /\ listing \in ListingStates
  /\ invocation \in InvocationType
  /\ paymentIntent \in PaymentIntentType
  /\ output \in [buffered : BOOLEAN, response : BOOLEAN]
  /\ effects \in [EffectNames -> Nat]
  /\ committed \in [Keys -> RecordType]
  /\ journal \in Seq(Changes)
  /\ last \in ObservationType
  /\ reported \in Nat

---------------------------------------------------------------------------
(***************************************************************************)
(* Safety.                                                                 *)
(***************************************************************************)

Settled == invocation.state \in {"DELIVERABLE", "DELIVERED", "ACKED"}

(***************************************************************************)
(* The two ledgers, which are changed by separate calls of one macro, never *)
(* disagree about money: the funding projection is final exactly when the  *)
(* commercial one is past settlement, each then holds the same receipt,    *)
(* and the settlement was counted once, whether it was known at once or    *)
(* found by a later reconciliation.                                        *)
(***************************************************************************)
SettlementFinality ==
  /\ Settled <=> paymentIntent.state = "FINALIZED"
  /\ invocation.settlementReceiptDigest
        = paymentIntent.settlementReceiptDigest
  /\ invocation.settlementReceiptDigest
        \in IF Settled THEN {"SETTLE", "RESOLVE_SETTLEMENT"} ELSE {"null"}
  /\ effects["settlements"] = IF Settled THEN 1 ELSE 0

(***************************************************************************)
(* OUTPUT_NOT_STAGED forbids settlement: nothing is submitted to the payee *)
(* before the call was authorized once, executed and its output staged     *)
(* once, in whatever order and under whatever keys the requests came.      *)
(***************************************************************************)
ChargedOnlyForStagedOutput ==
  paymentIntent.state \in {"SUBMITTED", "SETTLEMENT_UNKNOWN", "CONFIRMED",
                          "FINALIZED"}
    => /\ output.buffered /\ output.response
       /\ invocation.outputStagingReceiptDigest = "STAGE"
       /\ effects["authorizations"] = 1
       /\ effects["stagings"] = 1

(***************************************************************************)
(* Evidence is state-closed, as the commercial schema demands: a digest is *)
(* present in every state behind the change that produced it, absent in    *)
(* every state before, and always that of the boundary which produced it,  *)
(* so a proof accepted for one boundary is never the evidence of another.  *)
(***************************************************************************)
EvidenceIsStateClosed ==
  LET at(S)     == invocation.state \in S
      settled   == {"DELIVERABLE", "DELIVERED", "ACKED"}
      staged    == {"OUTPUT_STAGED", "PAYMENT_UNKNOWN"} \cup settled
      paid      == {"PAYMENT_AUTHORIZED", "EXECUTING"} \cup staged
      failed    == {"FAILED_BEFORE_SETTLEMENT"}
      evidence(d, proof, must, may) ==
        /\ d \in {"null", proof}
        /\ at(must) => d = proof
        /\ d = proof => at(may)
  IN /\ evidence(invocation.paymentProofDigest, "VERIFY", paid, paid \cup failed)
     /\ evidence(invocation.outputStagingReceiptDigest, "STAGE",
                 staged, staged \cup failed)
     /\ evidence(invocation.deliveryReceiptDigest, "DELIVER",
                 {"DELIVERED", "ACKED"}, {"DELIVERED", "ACKED"})
     /\ evidence(invocation.acknowledgementDigest, "ACK", {"ACKED"}, {"ACKED"})
     /\ invocation.paymentIntentRef <=> invocation.paymentProofDigest = "VERIFY"

(***************************************************************************)
(* The funding projection is in doubt exactly while it carries a signed    *)
(* observation of the doubt and a deadline to reconcile it by; a claim of  *)
(* doubt without either never gets in, and reconciliation removes both.    *)
(***************************************************************************)
DoubtIsEvidenced ==
  LET doubt == paymentIntent.state = "SETTLEMENT_UNKNOWN" IN
  /\ paymentIntent.reconciliationDeadline = doubt
  /\ paymentIntent.fundingUnknownObservationDigest
        = IF doubt THEN "SETTLEMENT_UNKNOWN" ELSE "null"
  /\ invocation.state = "PAYMENT_UNKNOWN" => doubt

(***************************************************************************)
(* Exactly once: an effect was counted as often as there are idempotency   *)
(* records of requests that have it.  A request whose response was lost is *)
(* neither repeated nor forgotten, and no effect goes unrecorded.          *)
(***************************************************************************)
EffectTypes ==
  [ authorizations   |-> {"VERIFY"}, executions |-> {"EXECUTE"},
    stagings         |-> {"STAGE"},  deliveries |-> {"DELIVER"},
    settlements      |-> {"SETTLE", "RESOLVE_SETTLEMENT"},
    acknowledgements |-> {"ACK"} ]

RecordsWith(effect) ==
  { k \in Keys :
      /\ committed[k].type \in EffectTypes[effect]
      /\ committed[k].errorCode \notin {"SETTLEMENT_UNKNOWN",
                                        "LISTING_REVOKED"} }

EffectsAreRecorded ==
  \A e \in EffectNames : effects[e] = Cardinality(RecordsWith(e))

(***************************************************************************)
(* The journal, whose digest the conformance report commits to, is the     *)
(* complete history: every entry is a legal change that starts where the   *)
(* previous one of its machine ended, and the last ones end in the current *)
(* states.                                                                 *)
(***************************************************************************)
InitialState(machine) ==
  CASE machine = "invocation"    -> "CREATED"
    [] machine = "paymentIntent" -> "CREATED"
    [] machine = "listing"       -> "ACTIVE"

EntriesOf(machine, n) == {i \in 1..n : journal[i].machine = machine}

StateAfter(machine, n) ==
  IF EntriesOf(machine, n) = {}
  THEN InitialState(machine)
  ELSE LET i == CHOOSE i \in EntriesOf(machine, n) :
                  \A j \in EntriesOf(machine, n) : j <= i
       IN  journal[i].to

JournalExplainsState ==
  LET n == Len(journal) IN
  /\ Legal(journal)
  /\ \A i \in 1..n : journal[i].from = StateAfter(journal[i].machine, i - 1)
  /\ invocation.state = StateAfter("invocation", n)
  /\ paymentIntent.state = IF EntriesOf("paymentIntent", n) = {}
                           THEN "ABSENT" ELSE StateAfter("paymentIntent", n)
  /\ EntriesOf("listing", n) # {} => listing = StateAfter("listing", n)

(***************************************************************************)
(* A payment intent exists only under the fingerprint the scenario is      *)
(* bound to, and once it is gone past creation its authorization lineage   *)
(* is the one the invocation refers to.                                    *)
(***************************************************************************)
IntentIsBound ==
  paymentIntent.state # "ABSENT"
    => /\ paymentIntent.fingerprintDigest = BoundFingerprint
       /\ invocation.paymentIntentRef
       /\ paymentIntent.authorizationProofDigest
            = invocation.paymentProofDigest

---------------------------------------------------------------------------
(***************************************************************************)
(* What a step may never do.                                               *)
(***************************************************************************)

(***************************************************************************)
(* Terminal means terminal: no retry, reconciliation or revocation moves a *)
(* failed or acknowledged invocation, a finalized intent or a revoked      *)
(* listing, or rewrites the evidence they hold.                            *)
(***************************************************************************)
TerminalIsFinal ==
  [][ /\ invocation.state \in InvocationTerminal => UNCHANGED invocation
      /\ paymentIntent.state \in PaymentIntentTerminal
            => UNCHANGED paymentIntent
      /\ listing = "EMERGENCY_REVOKED" => UNCHANGED listing ]_vars

(***************************************************************************)
(* EMERGENCY_REVOKED stops every invocation not yet settled: from a state  *)
(* with a revoked listing no step authorizes, stages or settles anything,  *)
(* although a settled call may still be delivered and acknowledged.        *)
(***************************************************************************)
RevokedListingNeverCharges ==
  [][ listing = "EMERGENCY_REVOKED"
        => /\ Settled' <=> Settled
           /\ \A e \in {"authorizations", "stagings", "settlements"} :
                effects'[e] = effects[e] ]_vars

(***************************************************************************)
(* A timeout tells the caller which retry is safe.  After "before commit"  *)
(* nothing happened; after "after commit" the request is on record with    *)
(* the trace that was reported, and the journal grew by that trace.        *)
(***************************************************************************)
TimeoutsAreUnambiguous ==
  [][ LET k == last'.request.idempotencyKey IN
      /\ last'.outcome = "TIMEOUT_BEFORE_COMMIT"
           => UNCHANGED <<ledger, committed, journal>>
      /\ last'.outcome = "TIMEOUT_AFTER_COMMIT" /\ last' # last
           => /\ ~Recorded(last'.request)
              /\ committed'[k].trace = last'.trace
              /\ committed'[k].errorCode = last'.errorCode
              /\ journal' = journal \o last'.trace ]_vars

(***************************************************************************)
(* An idempotency key is bound to one request for good: its record never   *)
(* changes, and every later answer under that key is a replay of it or a   *)
(* conflict.                                                               *)
(***************************************************************************)
KeysAreBoundOnce ==
  [][ \A k \in Keys :
        committed[k].type # "none"
          => /\ committed'[k] = committed[k]
             /\ last' # last /\ last'.request.idempotencyKey = k
                  => \/ last'.outcome = "IDEMPOTENT_REPLAY"
                     \/ last'.errorCode = "IDEMPOTENCY_FINGERPRINT_CONFLICT"
    ]_vars

---------------------------------------------------------------------------
(***************************************************************************)
(* The flow implements the promise: both projections together tell how far *)
(* the call has come and where the money is.                               *)
(***************************************************************************)
PromisedStage ==
  CASE invocation.state = "CREATED"            -> "requested"
    [] invocation.state = "PAYMENT_AUTHORIZED" -> "authorized"
    [] invocation.state = "EXECUTING"          -> "executed"
    [] invocation.state = "OUTPUT_STAGED"      -> "staged"
    [] invocation.state = "PAYMENT_UNKNOWN"    -> "unresolved"
    [] invocation.state = "DELIVERABLE"        -> "settled"
    [] invocation.state = "DELIVERED"          -> "released"
    [] invocation.state = "ACKED"              -> "acknowledged"
    [] OTHER                                   -> "failed"

PromisedFunds ==
  CASE paymentIntent.state = "ABSENT"             -> "none"
    [] paymentIntent.state = "SETTLEMENT_UNKNOWN" -> "inDoubt"
    [] paymentIntent.state = "FINALIZED"          -> "transferred"
    [] OTHER                                      -> "held"

Promise == INSTANCE HostedPromise WITH
             stage <- PromisedStage, funds <- PromisedFunds,
             revoked <- listing # "ACTIVE"

\* Every behaviour of the flow, seen through that mapping, is one of the
\* promise: no retry, timeout, conflict or revocation breaks it.
KeepsPromise == Promise!Spec
=============================================================================
