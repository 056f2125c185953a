------------------------ MODULE TransitionRegistry ------------------------
(***************************************************************************)
(* The machine-readable transition registry of the protocol: which state   *)
(* changes of a listing, an invocation and a payment intent are legal, and *)
(* the lookup that the reference flow performs before every change.        *)
(*                                                                         *)
(* An edge is a pair <<from, to>>.  The third element of an edge in the    *)
(* registry, the name of its guard, is a function of the pair and is left  *)
(* out.                                                                    *)
(***************************************************************************)

Machines == {"listing", "invocation", "paymentIntent"}

ListingStates ==
  {"DRAFT", "ACTIVE", "SUSPENDED_NEW", "RETIRED", "EMERGENCY_REVOKED"}

ListingEdges ==
  { <<"DRAFT", "ACTIVE">>, <<"ACTIVE", "SUSPENDED_NEW">>,
    <<"SUSPENDED_NEW", "ACTIVE">> }
  \cup ({"ACTIVE", "SUSPENDED_NEW"} \X {"RETIRED", "EMERGENCY_REVOKED"})

(***************************************************************************)
(* An invocation has one table of edges per delivery mode.                 *)
(***************************************************************************)
InvocationStates ==
  { "CREATED", "PAYMENT_REQUIRED", "PAYMENT_AUTHORIZED", "EXECUTING",
    "OUTPUT_STAGED", "SETTLEMENT_PENDING", "PAYMENT_UNKNOWN", "DELIVERABLE",
    "DELIVERED", "ACKED", "FAILED_BEFORE_SETTLEMENT", "EXPIRED",
    "RECOVERY_WINDOW_EXPIRED" }

InvocationTerminal ==
  {"ACKED", "FAILED_BEFORE_SETTLEMENT", "EXPIRED", "RECOVERY_WINDOW_EXPIRED"}

SharedEdges ==
  { <<"CREATED", "PAYMENT_REQUIRED">>,
    <<"PAYMENT_REQUIRED", "PAYMENT_AUTHORIZED">>,
    <<"PAYMENT_AUTHORIZED", "EXECUTING">>,
    <<"SETTLEMENT_PENDING", "PAYMENT_UNKNOWN">> }
  \cup ({"CREATED", "PAYMENT_REQUIRED"} \X {"EXPIRED"})
  \cup ({ "CREATED", "PAYMENT_REQUIRED", "PAYMENT_AUTHORIZED", "EXECUTING",
          "SETTLEMENT_PENDING", "PAYMENT_UNKNOWN" }
        \X {"FAILED_BEFORE_SETTLEMENT"})

HostedEdges ==
  SharedEdges
  \cup { <<"EXECUTING", "OUTPUT_STAGED">>,
         <<"OUTPUT_STAGED", "SETTLEMENT_PENDING">>,
         <<"OUTPUT_STAGED", "FAILED_BEFORE_SETTLEMENT">>,
         <<"DELIVERABLE", "DELIVERED">>, <<"DELIVERED", "ACKED">> }
  \cup ({"SETTLEMENT_PENDING", "PAYMENT_UNKNOWN"} \X {"DELIVERABLE"})
  \cup ({"DELIVERABLE", "DELIVERED"} \X {"RECOVERY_WINDOW_EXPIRED"})

DirectEdges ==
  SharedEdges
  \cup {<<"EXECUTING", "SETTLEMENT_PENDING">>}
  \cup ({"SETTLEMENT_PENDING", "PAYMENT_UNKNOWN"} \X {"ACKED"})

InvocationEdges_Union(mode) == HostedEdges \cup DirectEdges

InvocationEdges_RetryFailed(mode) ==
  HostedEdges \cup {<<"FAILED_BEFORE_SETTLEMENT", "PAYMENT_REQUIRED">>}

InvocationEdges(mode) ==
  CASE mode = "HOSTED" -> HostedEdges
    [] mode = "DIRECT" -> DirectEdges
    [] OTHER           -> {}

(***************************************************************************)
(* A payment intent has one table of edges per authorization profile.      *)
(***************************************************************************)
PaymentIntentStates ==
  { "CREATED", "RESERVED", "AUTHORIZING", "AUTHORIZATION_UNKNOWN",
    "AUTHORIZED", "SUBMITTED", "SETTLEMENT_UNKNOWN", "CONFIRMED",
    "FINALIZED", "DENIED", "EXPIRED_BEFORE_AUTHORIZATION",
    "AUTHORIZATION_EXPIRED", "SETTLEMENT_REJECTED" }

PaymentIntentTerminal ==
  { "DENIED", "EXPIRED_BEFORE_AUTHORIZATION", "AUTHORIZATION_EXPIRED",
    "SETTLEMENT_REJECTED", "FINALIZED" }

CommonPaymentEdges ==
  ({"AUTHORIZING"} \X {"AUTHORIZED", "DENIED", "AUTHORIZATION_UNKNOWN"})
  \cup ({"AUTHORIZATION_UNKNOWN"}
        \X {"AUTHORIZED", "EXPIRED_BEFORE_AUTHORIZATION"})
  \cup ({"AUTHORIZED"} \X {"SUBMITTED", "AUTHORIZATION_EXPIRED"})
  \cup ({"SUBMITTED"}
        \X {"CONFIRMED", "SETTLEMENT_UNKNOWN", "SETTLEMENT_REJECTED"})
  \cup ({"SETTLEMENT_UNKNOWN"}
        \X {"CONFIRMED", "SUBMITTED", "SETTLEMENT_REJECTED"})
  \cup ({"CONFIRMED"} \X {"FINALIZED", "SETTLEMENT_UNKNOWN"})

MandateEdges ==
  CommonPaymentEdges
  \cup ({"CREATED"} \X {"RESERVED", "DENIED"})
  \cup ({"RESERVED"} \X {"AUTHORIZING", "EXPIRED_BEFORE_AUTHORIZATION"})

WalletEdges ==
  CommonPaymentEdges
  \cup ({"CREATED"}
        \X {"AUTHORIZING", "DENIED", "EXPIRED_BEFORE_AUTHORIZATION"})

PaymentIntentEdges(profile) ==
  CASE profile = "MANDATE_PROTECTED" -> MandateEdges
    [] profile = "WALLET_SIGNED"     -> WalletEdges
    [] OTHER                         -> {}

(***************************************************************************)
(* The lookup.  The union table that it consults first is the union of the *)
(* selected ones, so an edge of a selected table is an edge of the union;  *)
(* an unknown machine, mode or profile has no edge at all.                 *)
(***************************************************************************)
RegistryEdge(machine, from, to, mode, profile) ==
  \/ machine = "listing"       /\ <<from, to>> \in ListingEdges
  \/ machine = "invocation"    /\ <<from, to>> \in InvocationEdges(mode)
  \/ machine = "paymentIntent" /\ <<from, to>> \in PaymentIntentEdges(profile)
=============================================================================
