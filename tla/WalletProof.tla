---------------------------- MODULE WalletProof ----------------------------
(***************************************************************************)
(* Wallet authorization proofs.  A buyer's claims determine one transfer   *)
(* authorization; a wallet signs its EIP-712 hash, the TypeScript package  *)
(* puts the signature into an envelope with the completed claims, and the  *)
(* Rust verifier judges claims, typed data and envelope, in whatever       *)
(* combination the network delivers them.                                  *)
(*                                                                         *)
(* An address is an account with a spelling of its hex digits.  What the   *)
(* claims say beside the transfer, its time and its parties is one member, *)
(* terms.  A digest or hash is its preimage.  From (r, s, v) and a hash    *)
(* an account is recovered; (r, HalfOrder * 2 + 1 - s) with the other v    *)
(* recovers the same one.                                                  *)
(***************************************************************************)
EXTENDS LiveClock, FiniteSets

CONSTANTS
  Accounts,      \* that can sign; other recovered addresses are Nobody
  ZeroAccount, Nobody, NoTime,
  ClaimInputs,   \* claims without the digest of their authorization
  HalfOrder,     \* of secp256k1, rounded down
  MaxWalletSignings, MaxReceipts, MaxProven   \* bounds of the history

Parties == {input.payer : input \in ClaimInputs} \cup {input.payee : input \in ClaimInputs}

\* Nobody is the address recovered where no wallet signed: not a party's.
ASSUME PartyAssumption ==
  /\ Parties \subseteq [ account  : {party.account : party \in Parties},
                         spelling : {party.spelling : party \in Parties} ]
  /\ \A party \in Parties : party.account # Nobody

\* Claims are dated in seconds, or a date is no time.
ASSUME TimeAssumption ==
  /\ NoTime \notin Nat
  /\ \A input \in ClaimInputs : {input.issuedAt, input.expiresAt} \subseteq Nat \cup {NoTime}

ASSUME CurveAssumption == HalfOrder \in Nat \ {0}

VARIABLES
  signed,        \* by wallets: [account, hash, s, v]
  receipts,      \* results of createEip712ProofEnvelope
  proven         \* verified: [envelope, claims, typedData, claimsDigest, at]

walletVars == <<signed, receipts, proven>>

CurveOrder == 2 * HalfOrder + 1

---------------------------------------------------------------------------
(* Claims. *)

Lower(address) == [address EXCEPT !.spelling = "lower"]

\* Both implementations check the same contract, each in an order of its own ...
WellFormedClaims(claims) ==
  /\ claims.asset = "BaseUsdc"
  /\ claims.payer.account # ZeroAccount /\ claims.payee.account # ZeroAccount
  /\ claims.amount > 0
  /\ NoTime \notin {claims.issuedAt, claims.expiresAt}
  /\ claims.issuer = claims.buyer

\* ... and last that the claims are issued before they expire.
ValidateWalletProofClaims(claims) ==
  WellFormedClaims(claims) /\ claims.issuedAt < claims.expiresAt

WithDigest(input, digest) ==
  [ asset |-> input.asset, payer |-> input.payer, payee |-> input.payee, amount |-> input.amount,
    fingerprint |-> input.fingerprint, issuedAt |-> input.issuedAt, expiresAt |-> input.expiresAt,
    buyer |-> input.buyer, issuer |-> input.issuer, keyId |-> input.keyId, terms |-> input.terms,
    paymentAuthorizationDigest |-> digest ]

---------------------------------------------------------------------------
(* The authorization. *)

BaseUsdc == "UsdCoin2OnBase"
Transfer == "TransferWithAuthorization"

MessageFor_AsSpelled(claims) ==
  [ from |-> claims.payer, to |-> claims.payee, value |-> claims.amount,
    validAfter |-> 0, validBefore |-> claims.expiresAt, nonce |-> claims.fingerprint ]

\* The transfer that claims determine, in canonical spelling.
MessageFor(claims) ==
  [ from |-> Lower(claims.payer), to |-> Lower(claims.payee), value |-> claims.amount,
    validAfter |-> 0, validBefore |-> claims.expiresAt, nonce |-> claims.fingerprint ]

BuildPaymentAuthorizationTypedData_AsSpelled(claims) ==
  [domain |-> BaseUsdc, primaryType |-> Transfer, message |-> MessageFor_AsSpelled(claims)]

BuildPaymentAuthorizationTypedData(claims) ==
  [domain |-> BaseUsdc, primaryType |-> Transfer, message |-> MessageFor(claims)]

AuthorizationDigest(typedData) == <<"PAYMENT_AUTHORIZATION", typedData>>
ClaimsDigest(claims)           == <<"RECEIPT_CLAIMS", claims>>

\* An address is encoded as its bytes: the hash does not see the spelling.
SigningHash(typedData) ==
  [typedData EXCEPT !.message.from = @.account, !.message.to = @.account]

---------------------------------------------------------------------------
(* The wallet and the TypeScript package. *)

Mirrored(signature) ==
  [r |-> signature.r, s |-> CurveOrder - signature.s, v |-> IF signature.v = 27 THEN 28 ELSE 27]

NoPoint == <<>>   \* an r that is the coordinate of no point: nothing is recovered

Recover(hash, signature) ==
  LET who == {act \in signed : act.hash = hash /\ act.signature \in {signature, Mirrored(signature)}}
  IN  IF who = {} THEN Nobody ELSE (CHOOSE act \in who : TRUE).account

SignaturesOf(account, hash) ==
  {[r |-> <<account, hash>>, s |-> s, v |-> v] : s \in 1..(CurveOrder - 1), v \in {27, 28}}

\* A wallet may sign any authorization; its signature comes out with any s,
\* and once more with the same or its mirror, as r fixes the nonce.
WalletSigns(account, input, signature) ==
  LET hash == SigningHash(BuildPaymentAuthorizationTypedData(input)) IN
  /\ Cardinality(signed) < MaxWalletSignings
  /\ ValidateWalletProofClaims(input)
  /\ signature \in SignaturesOf(account, hash)
  /\ \A act \in signed :
       act.signature.r = signature.r => act.signature \in {signature, Mirrored(signature)}
  /\ signed' = signed \cup {[account |-> account, hash |-> hash, signature |-> signature]}
  /\ UNCHANGED <<receipts, proven>>

SignatureIsCanonical(signature) == signature.s \in 1..HalfOrder /\ signature.v \in {27, 28}

(***************************************************************************)
(* The package checks the form of a signature and who the claims name, not *)
(* whose signature it is.                                                  *)
(***************************************************************************)
CreateEip712ProofEnvelope(input, signature) ==
  LET typedData == BuildPaymentAuthorizationTypedData(input)
      claims    == WithDigest(input, AuthorizationDigest(typedData))
  IN
  /\ Cardinality(receipts) < MaxReceipts
  /\ ValidateWalletProofClaims(input)
  /\ SignatureIsCanonical(signature)
  /\ receipts' = receipts \cup
       {[ envelope |-> [ scheme |-> "EIP712", issuer |-> input.issuer, keyId |-> input.keyId,
                         signedObjectDigest |-> AuthorizationDigest(typedData),
                         signature |-> signature ],
          claims |-> claims, claimsDigest |-> ClaimsDigest(claims), typedData |-> typedData ]}
  /\ UNCHANGED <<signed, proven>>

---------------------------------------------------------------------------
(* The verifier. *)

EnvelopeStage(p) ==
  IF p.wire # "0.1" \/ p.envelope.scheme # "EIP712" THEN "EIP712_MALFORMED"
  ELSE IF \/ p.envelope.issuer \notin {p.claims.buyer} \cap {p.claims.issuer}
          \/ p.envelope.keyId # p.claims.keyId THEN "ENVELOPE_BINDING_MISMATCH"
  ELSE IF ~WellFormedClaims(p.claims) THEN "EIP712_MALFORMED"
  ELSE IF ~ValidateWalletProofClaims(p.claims) THEN "AUTHORIZATION_TIME_INVALID"
  ELSE "PASS"

TimeStage(p, observed) ==
  IF observed < Instant(p.claims.issuedAt) \/ observed >= Instant(p.claims.expiresAt)
  THEN "AUTHORIZATION_TIME_INVALID" ELSE "PASS"

CanonicalMessage(message) ==
  /\ message.value > 0 /\ message.validAfter = 0 /\ message.validBefore > 0
  /\ \A address \in {message.from, message.to} :
       address.account # ZeroAccount /\ address = Lower(address)

MessageStage_OwnFieldsOnly(p) ==
  IF p.typedData.primaryType # Transfer THEN "EIP712_MALFORMED"
  ELSE IF p.typedData.domain # BaseUsdc THEN "AUTHORIZATION_DOMAIN_MISMATCH"
  ELSE IF ~CanonicalMessage(p.typedData.message) THEN "EIP712_MALFORMED"
  ELSE IF p.typedData.message.from.account # p.claims.payer.account
       THEN "PAYER_ADDRESS_MISMATCH"
  ELSE "PASS"

MessageStage(p) ==
  IF p.typedData.primaryType # Transfer THEN "EIP712_MALFORMED"
  ELSE IF p.typedData.domain # BaseUsdc THEN "AUTHORIZATION_DOMAIN_MISMATCH"
  ELSE IF ~CanonicalMessage(p.typedData.message) THEN "EIP712_MALFORMED"
  ELSE IF p.typedData.message # MessageFor(p.claims) THEN "AUTHORIZATION_MESSAGE_MISMATCH"
  ELSE IF p.typedData.message.from.account # p.claims.payer.account
       THEN "PAYER_ADDRESS_MISMATCH"
  ELSE "PASS"

DigestStage(p) ==
  IF AuthorizationDigest(p.typedData)
       \notin {p.claims.paymentAuthorizationDigest} \cap {p.envelope.signedObjectDigest}
  THEN "AUTHORIZATION_DIGEST_MISMATCH"
  ELSE IF ClaimsDigest(p.claims) # p.claimsDigest THEN "WALLET_CLAIMS_DIGEST_MISMATCH"
  ELSE "PASS"

WalletSignatureStage_AnyS(p) ==
  LET signature == p.envelope.signature IN
  IF signature.v \notin {27, 28} \/ signature.s \notin 1..(CurveOrder - 1)
  THEN "SIGNATURE_ENCODING_INVALID"
  ELSE IF signature.r = NoPoint THEN "SIGNATURE_INVALID"
  ELSE IF Recover(SigningHash(p.typedData), signature) # p.claims.payer.account
       THEN "PAYER_ADDRESS_MISMATCH"
  ELSE "PASS"

WalletSignatureStage(p) ==
  LET signature == p.envelope.signature IN
  IF signature.v \notin {27, 28} \/ signature.s \notin 1..(CurveOrder - 1)
  THEN "SIGNATURE_ENCODING_INVALID"
  ELSE IF signature.s > HalfOrder THEN "SIGNATURE_NON_CANONICAL"
  ELSE IF signature.r = NoPoint THEN "SIGNATURE_INVALID"
  ELSE IF Recover(SigningHash(p.typedData), signature) # p.claims.payer.account
       THEN "PAYER_ADDRESS_MISMATCH"
  ELSE "PASS"

WalletVerdict(p, observed) ==
  IF EnvelopeStage(p) # "PASS" THEN EnvelopeStage(p)
  ELSE IF TimeStage(p, observed) # "PASS" THEN TimeStage(p, observed)
  ELSE IF MessageStage(p) # "PASS" THEN MessageStage(p)
  ELSE IF DigestStage(p) # "PASS" THEN DigestStage(p)
  ELSE IF WalletSignatureStage(p) # "PASS" THEN WalletSignatureStage(p)
  ELSE "VERIFIED"

VerifyEip712Wallet(p) ==
  /\ Cardinality(proven) < MaxProven
  /\ WalletVerdict(p, LiveObservation(now)) = "VERIFIED"
  /\ proven' = proven \cup {[proof |-> p, at |-> now]}
  /\ UNCHANGED <<signed, receipts>>

---------------------------------------------------------------------------
(***************************************************************************)
(* The network joins any claims to any typed data, with any signature and  *)
(* with digests that match either, and names whom it likes.                *)
(***************************************************************************)
TypedDataSeen ==
  LET built == {r.typedData : r \in receipts}
      payees == {input.payee : input \in ClaimInputs} IN
  built \cup {[t EXCEPT !.domain = "otherToken"] : t \in built}
        \cup {[t EXCEPT !.message.to = payee] : t \in built, payee \in payees}
        \cup {[t EXCEPT !.message.from.spelling = "mixed"] : t \in built}

SignaturesSeen ==
  UNION {{act.signature, Mirrored(act.signature), [act.signature EXCEPT !.v = 0],
          [act.signature EXCEPT !.r = NoPoint]} : act \in signed}

DeliverWallet ==
  \E r \in receipts, t \in TypedDataSeen, wire \in {"0.1", "0.2"}, input \in ClaimInputs,
     name \in {i.buyer : i \in ClaimInputs}, signature \in SignaturesSeen :
    \E ofClaims, ofEnvelope \in {AuthorizationDigest(t), r.envelope.signedObjectDigest} :
      \E claimsDigest \in {r.claimsDigest, ClaimsDigest(WithDigest(input, ofClaims))} :
        VerifyEip712Wallet(
          [ wire |-> wire, typedData |-> t, claims |-> WithDigest(input, ofClaims),
            claimsDigest |-> claimsDigest,
            envelope |-> [ scheme |-> r.envelope.scheme, issuer |-> name,
                           keyId |-> r.envelope.keyId, signedObjectDigest |-> ofEnvelope,
                           signature |-> signature ] ])

WalletInit == signed = {} /\ receipts = {} /\ proven = {}

WalletNext ==
  \/ \E account \in Accounts, input \in ClaimInputs :
       \E signature \in SignaturesOf(account, SigningHash(BuildPaymentAuthorizationTypedData(input))) :
         WalletSigns(account, input, signature)
  \/ \E input \in ClaimInputs, act \in signed : CreateEip712ProofEnvelope(input, act.signature)
  \/ DeliverWallet

WalletSpec ==
  /\ now = 0 /\ WalletInit
  /\ [][ \/ Tick /\ UNCHANGED walletVars
         \/ WalletNext /\ UNCHANGED now ]_<<now, walletVars>>

---------------------------------------------------------------------------
(***************************************************************************)
(* Who is said to have authorized a payment did: the payer's own wallet    *)
(* signed the very transfer the claims speak of, nothing is proven before  *)
(* the claims were issued or once the token would refuse the transfer, and *)
(* the signature has no second form the same claims could be proven with.  *)
(***************************************************************************)
TransferIsAuthorized ==
  \A v \in proven :
    /\ \E act \in signed :
         /\ act.account = v.proof.claims.payer.account
         /\ act.hash = SigningHash(BuildPaymentAuthorizationTypedData(v.proof.claims))
    /\ Instant(v.proof.claims.issuedAt) <= v.at
    /\ v.at < Instant(v.proof.typedData.message.validBefore)
    /\ \A w \in proven :
         w.proof.claims = v.proof.claims /\ w.proof.envelope.signature.r = v.proof.envelope.signature.r
           => w.proof = v.proof

(***************************************************************************)
(* What the package builds the verifier accepts: a receipt whose signature *)
(* the payer's wallet made over it is verified from the first instant of   *)
(* its claims to the last, however the addresses in them are spelled.      *)
(***************************************************************************)
BuiltIsProven ==
  \A r \in receipts :
    /\ \E act \in signed :
         /\ act.account = r.claims.payer.account
         /\ act.hash = SigningHash(r.typedData)
         /\ act.signature = r.envelope.signature
    /\ Instant(r.claims.issuedAt) <= now
    /\ now < Instant(r.claims.expiresAt)
    => WalletVerdict([ wire |-> "0.1", typedData |-> r.typedData, claims |-> r.claims,
                       claimsDigest |-> r.claimsDigest, envelope |-> r.envelope ],
                     LiveObservation(now)) = "VERIFIED"
=============================================================================
