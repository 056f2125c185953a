------------------------ MODULE ConformanceRunner ------------------------
(***************************************************************************)
(* The checks the conformance runner makes on the final state and the      *)
(* observations an adapter reports, applied to the reference flow: after   *)
(* any scenario the runner must accept what the reference answers, or the  *)
(* reference fails its own suite.                                          *)
(***************************************************************************)
EXTENDS HostedFlow

(***************************************************************************)
(* The commercial and the funding projection refer to each other and hold  *)
(* the same evidence; an invocation without an intent refers to none.      *)
(***************************************************************************)
ValidateNormalizedState ==
  IF paymentIntent.state = "ABSENT"
  THEN ~invocation.paymentIntentRef
  ELSE /\ invocation.paymentIntentRef
       /\ paymentIntent.authorizationProofDigest
            = invocation.paymentProofDigest
       /\ paymentIntent.settlementReceiptDigest
            = invocation.settlementReceiptDigest
       /\ paymentIntent.fundingUnknownObservationDigest
            = invocation.fundingUnknownObservationDigest
       /\ paymentIntent.reconciliationDeadline
            = invocation.reconciliationDeadline

CountMatches == Len(journal) = reported

(***************************************************************************)
(* The runner accepts every state the flow can end a scenario in: one      *)
(* projection never holds evidence the other lacks, and replays, which     *)
(* report their trace again, are the only answers that report transitions  *)
(* without adding to the journal.                                          *)
(***************************************************************************)
RunnerAccepts == ValidateNormalizedState /\ CountMatches
=============================================================================
