--------------------------- MODULE HostedPromise ---------------------------
(***************************************************************************)
(* What the hosted flow promises to buyer and seller, without requests,    *)
(* keys, proofs or ledgers: output is produced for an authorized call,     *)
(* money moves once and only for staged output, the output is released     *)
(* only after the money moved, and a revoked listing stops every call that *)
(* is not settled.                                                         *)
(*                                                                         *)
(* A call can fail while the outcome of its settlement is in doubt: the    *)
(* promise then is only that the money stays in doubt and is never taken.  *)
(***************************************************************************)
VARIABLES
  stage,    \* how far the call has come
  funds,    \* "none", "held", "inDoubt" or "transferred"
  revoked   \* whether the listing is revoked

pvars == <<stage, funds, revoked>>

Settled == {"settled", "released", "acknowledged"}

Init ==
  /\ stage = "requested"
  /\ funds = "none"
  /\ revoked \in BOOLEAN

Move(from, to) == stage = from /\ stage' = to /\ ~revoked /\ UNCHANGED revoked

Authorize ==
  Move("requested", "authorized") /\ funds = "none" /\ funds' = "held"

Execute == Move("authorized", "executed") /\ UNCHANGED funds

StageOutput == Move("executed", "staged") /\ UNCHANGED funds

Settle ==
  Move("staged", "settled") /\ funds = "held" /\ funds' = "transferred"

LoseOutcome ==
  Move("staged", "unresolved") /\ funds = "held" /\ funds' = "inDoubt"

Reconcile ==
  Move("unresolved", "settled") /\ funds = "inDoubt" /\ funds' = "transferred"

\* A settled call converges whatever becomes of the listing.
Release == stage = "settled" /\ stage' = "released" /\ UNCHANGED <<funds, revoked>>

Acknowledge ==
  stage = "released" /\ stage' = "acknowledged" /\ UNCHANGED <<funds, revoked>>

Fail ==
  /\ stage \notin Settled \cup {"failed"}
  /\ stage' = "failed"
  /\ UNCHANGED <<funds, revoked>>

Revoke ==
  /\ ~revoked
  /\ revoked' = TRUE
  /\ stage # "failed"
  /\ stage' = IF stage \in Settled THEN stage ELSE "failed"
  /\ UNCHANGED funds

Next ==
  \/ Authorize \/ Execute \/ StageOutput \/ Settle \/ LoseOutcome \/ Reconcile
  \/ Release \/ Acknowledge \/ Fail \/ Revoke

Spec == Init /\ [][Next]_pvars
=============================================================================
