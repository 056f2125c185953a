--------------------------- MODULE MCHostedFlow ---------------------------
(***************************************************************************)
(* A pool of requests for TLC.  Every boundary is attempted plainly; the   *)
(* ones whose repetition matters have a second key.  On top come lost and  *)
(* missing responses, evidence altered alone or in lockstep with its       *)
(* claims, evidence of another boundary, another fingerprint, and keys     *)
(* taken from another boundary.                                            *)
(***************************************************************************)
EXTENDS ConformanceRunner, HostedExpectations

Retried == {"VERIFY", "EXECUTE", "SETTLE"}

MCKeys == (ActionTypes \X {1}) \cup (Retried \X {2})

Plain(t, n) ==
  [ idempotencyKey |-> <<t, n>>, type |-> t, fingerprintDigest |-> "bound",
    bindingDigest |-> t, proofDigest |-> t, fault |-> "none",
    sellerFailed |-> FALSE, settlementUnknown |-> FALSE, deadline |-> FALSE,
    observation |-> "null", macroMutation |-> "none" ]

EveryBoundary ==
  {Plain(t, 1) : t \in ActionTypes} \cup {Plain(t, 2) : t \in Retried}

Faulty ==
  { [Plain(t, 1) EXCEPT !.fault = f] :
      t \in {"VERIFY", "SETTLE", "REVOKE_LISTING"},
      f \in {"TIMEOUT_BEFORE_COMMIT", "TIMEOUT_AFTER_COMMIT"} }

Unproven ==
  { [Plain("VERIFY", 1) EXCEPT !.proofDigest = "ALTERED"],
    [Plain("SETTLE", 2) EXCEPT !.proofDigest = "STAGE"],
    [Plain("STAGE", 1) EXCEPT !.proofDigest = "ALTERED",
                              !.bindingDigest = "ALTERED"] }

Conflicting ==
  { [Plain("VERIFY", 1) EXCEPT !.fingerprintDigest = "other"],
    [Plain("STAGE", 1) EXCEPT !.fingerprintDigest = "other"],
    [Plain("EXECUTE", 2) EXCEPT !.idempotencyKey = <<"VERIFY", 1>>] }

SellerFailures ==
  {[Plain("EXECUTE", n) EXCEPT !.sellerFailed = TRUE] : n \in {1, 2}}

Unknown(n) ==
  [Plain("SETTLE", n) EXCEPT !.settlementUnknown = TRUE, !.deadline = TRUE,
                             !.observation = "SETTLEMENT_UNKNOWN"]

UnknownSettlements ==
  { Unknown(1), [Unknown(1) EXCEPT !.deadline = FALSE],
    [Unknown(2) EXCEPT !.observation = "ALTERED"] }

Mutated ==
  { [Plain("VERIFY", 1) EXCEPT !.macroMutation = m] :
      m \in {"UNKNOWN_TRANSITION", "SKIP_REQUIRED_STATE", "SKIP_RESERVATION"} }

MCRequests ==
  EveryBoundary \cup Faulty \cup Unproven \cup Conflicting
    \cup SellerFailures \cup UnknownSettlements \cup Mutated
=============================================================================
