------------------------ MODULE HostedExpectations ------------------------
(***************************************************************************)
(* What the documents of the repository say of the hosted flow and its     *)
(* code does not do.  Each property quotes the sentence it states; TLC     *)
(* finds a behaviour of HostedFlow that violates it.                       *)
(***************************************************************************)
EXTENDS HostedFlow

(***************************************************************************)
(* spec/state-machines.md: "Wall-clock expiry alone cannot transition      *)
(* UNKNOWN to a failure or release budget. Reconciliation must prove that  *)
(* no authorization or settlement can still succeed."  An invocation in    *)
(* PAYMENT_UNKNOWN is left only by the request that reconciles it.  In the *)
(* code a revocation, or a seller failure reported late, fails it while    *)
(* the payment intent stays in SETTLEMENT_UNKNOWN for good.                *)
(***************************************************************************)
UnknownEndsByReconciliation ==
  [][ invocation.state = "PAYMENT_UNKNOWN"
        /\ invocation'.state # "PAYMENT_UNKNOWN"
      => last'.request.type = "RESOLVE_SETTLEMENT" ]_vars

(***************************************************************************)
(* reference/README.md: "The commit sequence is: VERIFY -> EXECUTE -> ..." *)
(* and "Each step is fail-closed, state-guarded".  The service is executed *)
(* at most once for an authorization, and never without one.  In the code  *)
(* the only guard of a failed execution is the edge to                     *)
(* FAILED_BEFORE_SETTLEMENT, which leaves CREATED as well, and every state *)
(* after the first execution too.                                          *)
(***************************************************************************)
ExecutionIsAuthorized == effects["executions"] <= effects["authorizations"]

(***************************************************************************)
(* spec/commerce-0.1.md: "Adapters reject transitions absent from that     *)
(* registry with ILLEGAL_STATE_TRANSITION."  No request ends the scenario  *)
(* by an exception instead.  In the code a VERIFY against a revoked        *)
(* listing whose invocation can no longer fail does, and so does a         *)
(* reconciliation before there is a payment intent.                        *)
(***************************************************************************)
EveryRequestIsAnswered == status = "RUNNING"

(***************************************************************************)
(* spec/state-machines.md: "EMERGENCY_REVOKED stops every invocation not   *)
(* yet settled"; the registry leads to it from ACTIVE.  A proven, timely   *)
(* revocation of an active listing is not refused.  In the code it is, if  *)
(* the invocation has failed already, because the macro fails it again.    *)
(***************************************************************************)
RevocationTakesEffect ==
  [][ last'.request.type = "REVOKE_LISTING" /\ listing = "ACTIVE"
        /\ last'.errorCode = "ILLEGAL_STATE_TRANSITION"
      => last' = last ]_vars
=============================================================================
