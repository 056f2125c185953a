--------------------------- MODULE DetachedProof ---------------------------
(***************************************************************************)
(* Detached JWS proofs of protocol statements.  A holder of a private key  *)
(* signs the digest of a statement with the TypeScript package; whatever   *)
(* the network makes of the envelope is put before the Rust verifier,      *)
(* which judges it against its registry, by its own clock, for the         *)
(* audience, role and statement its caller expects.                        *)
(*                                                                         *)
(* A digest is its preimage frame, an encoded segment what it decodes to.  *)
(* An ECDSA signature is (r, s): r names the signing it came from, and s   *)
(* and Order - s hold for the same key and input, as no other does.        *)
(***************************************************************************)
EXTENDS LiveClock, HistoricalKeys, FiniteSets

CONSTANTS
  Order,         \* of the P-256 group
  Requests,      \* what holders of keys may sign
  Contexts,      \* what callers of the verifier may expect
  OtherNames,    \* identifiers the network may put in place of one
  MaxSignings, MaxVerified   \* bounds of the history

ASSUME OrderAssumption == Order \in Nat /\ Order > 2 /\ Order % 2 = 1

\* A statement is a preimage under a wire version and a profile, which are
\* sequences of characters.
Statements == {x.statement : x \in Requests \cup Contexts}
Characters ==
  UNION {{s.wire[i] : i \in DOMAIN s.wire} \cup {s.profile[i] : i \in DOMAIN s.profile} :
           s \in Statements}

ASSUME StatementAssumption ==
  Statements \subseteq [ wire : Seq(Characters), profile : Seq(Characters),
                         preimage : {s.preimage : s \in Statements} ]

\* Statements are dated in seconds, or not at all.
ASSUME ContextAssumption ==
  \A context \in Contexts : context.statement.preimage[context.lifecycleField] \in Nat \cup {Null}

VARIABLES
  signings,      \* what was signed: [request, envelope]
  verified       \* what was verified: [envelope, context, at]

jwsVars == <<signings, verified>>

---------------------------------------------------------------------------
(* Digests: openant-commerce NUL wire version NUL profile NUL preimage. *)

NUL == "NUL"

FrameComponentStands_Any(component) == component # <<>>

FrameComponentStands(component) ==
  component # <<>> /\ \A i \in DOMAIN component : component[i] # NUL

DigestStructured(statement) ==
  IF FrameComponentStands(statement.profile) /\ FrameComponentStands(statement.wire)
  THEN statement.wire \o <<NUL>> \o statement.profile \o <<NUL, statement.preimage>>
  ELSE Null

---------------------------------------------------------------------------
(* The signer. *)

Typ == "openant-commerce+jws"
SchemeOf(algorithm) == IF algorithm = "ES256" THEN "DETACHED_JWS_ES256" ELSE "DETACHED_JWS_EDDSA"

IsLowS(s) == s <= Order \div 2

NormalizeP256LowS_Strict(s) == IF s < Order \div 2 THEN s ELSE Order - s

NormalizeP256LowS(s) == IF IsLowS(s) THEN s ELSE Order - s

HeaderOf(request) ==
  [ alg |-> request.algorithm, aud |-> request.audience, iss |-> request.issuer,
    kid |-> request.keyId, typ |-> Typ ]

RequestStands(request) ==
  /\ Malformed \notin {request.audience, request.issuer, request.keyId}
  /\ DigestStructured(request.statement) # Null
  /\ Algorithm[request.key] = request.algorithm

\* The envelope of the signing whose signature came out as s.
EnvelopeOf(request, s) ==
  [ scheme |-> SchemeOf(request.algorithm), issuer |-> request.issuer, keyId |-> request.keyId,
    signedObjectDigest |-> DigestStructured(request.statement),
    protected |-> HeaderOf(request), payload |-> "empty",
    signature |-> [ r |-> request,
                    s |-> IF request.algorithm = "ES256" THEN NormalizeP256LowS(s) ELSE s ] ]

\* A digest is never malformed, and a signature never absent.
ASSUME DistinctAssumption ==
  \A request \in Requests :
    /\ DigestStructured(request.statement) # Malformed
    /\ \A s \in 1..(Order - 1) : EnvelopeOf(request, s).signature # Null

\* Ed25519 signatures are deterministic; those of ECDSA come out with any s.
RawS(request) == IF request.algorithm = "ES256" THEN 1..(Order - 1) ELSE {1}

SignDigestJws(request, s) ==
  /\ Cardinality(signings) < MaxSignings
  /\ \A signing \in signings : signing.request # request
  /\ RequestStands(request)
  /\ signings' = signings \cup {[request |-> request, envelope |-> EnvelopeOf(request, s)]}
  /\ UNCHANGED verified

---------------------------------------------------------------------------
(* The verifier. *)

SigningInput(envelope) == <<envelope.protected, envelope.signedObjectDigest>>

\* Nobody can produce a signature for a key and an input nobody signed.
SignatureHolds(key, input, signature) ==
  \E signing \in signings :
    /\ signing.request.key = key
    /\ SigningInput(signing.envelope) = input
    /\ signing.envelope.signature.r = signature.r
    /\ signature.s \in {signing.envelope.signature.s} \cup
         (IF Algorithm[key] = "ES256" THEN {Order - signing.envelope.signature.s} ELSE {})

StatementTime(context) == context.statement.preimage[context.lifecycleField]

StatementStage(envelope, context) ==
  IF \/ envelope.signedObjectDigest = Malformed
     \/ Malformed \in {context.audience, envelope.issuer, envelope.keyId} THEN "JWS_MALFORMED"
  ELSE IF DigestStructured(context.statement) = Null THEN "INVALID_FRAME_COMPONENT"
  ELSE IF DigestStructured(context.statement) # envelope.signedObjectDigest
       THEN "STATEMENT_DIGEST_MISMATCH"
  ELSE IF StatementTime(context) = Null THEN "STATEMENT_ISSUED_AT_INVALID"
  ELSE "PASS"

HeaderStage_AnyAudience(envelope, context) ==
  LET header == envelope.protected IN
  IF envelope.payload # "empty" THEN "JWS_MALFORMED"
  ELSE IF header.typ # Typ \/ Malformed \in {header.aud, header.iss, header.kid}
       THEN "JWS_HEADER_INVALID"
  ELSE IF header.iss # envelope.issuer THEN "ISSUER_MISMATCH"
  ELSE IF header.kid # envelope.keyId THEN "KEY_ID_MISMATCH"
  ELSE IF envelope.scheme \notin {SchemeOf(a) : a \in Algorithms} THEN "JWS_MALFORMED"
  ELSE IF envelope.scheme # SchemeOf(header.alg) THEN "JWS_HEADER_INVALID"
  ELSE "PASS"

HeaderStage(envelope, context) ==
  LET header == envelope.protected IN
  IF envelope.payload # "empty" THEN "JWS_MALFORMED"
  ELSE IF header.typ # Typ \/ Malformed \in {header.aud, header.iss, header.kid}
       THEN "JWS_HEADER_INVALID"
  ELSE IF header.aud # context.audience THEN "AUDIENCE_MISMATCH"
  ELSE IF header.iss # envelope.issuer THEN "ISSUER_MISMATCH"
  ELSE IF header.kid # envelope.keyId THEN "KEY_ID_MISMATCH"
  ELSE IF envelope.scheme \notin {SchemeOf(a) : a \in Algorithms} THEN "JWS_MALFORMED"
  ELSE IF envelope.scheme # SchemeOf(header.alg) THEN "JWS_HEADER_INVALID"
  ELSE "PASS"

MatchingIdentity(envelope) ==
  {k \in registry : k.issuer = envelope.issuer /\ k.kid = envelope.keyId}

RegisteredKeys(envelope, context) ==
  {k \in MatchingIdentity(envelope) : k.role = context.requiredRole}

KeyStage(envelope, context) ==
  IF MatchingIdentity(envelope) = {} THEN "KEY_NOT_FOUND"
  ELSE IF RegisteredKeys(envelope, context) = {} THEN "KEY_ROLE_MISMATCH"
  ELSE "PASS"

SignatureStage_AnyS(envelope, k) ==
  IF k.algorithm # envelope.protected.alg THEN "JWS_HEADER_INVALID"
  ELSE IF envelope.signature = Null THEN "SIGNATURE_ENCODING_INVALID"
  ELSE IF k.algorithm = "ES256" /\ envelope.signature.s \notin 1..(Order - 1)
       THEN "SIGNATURE_ENCODING_INVALID"
  ELSE IF ~SignatureHolds(k.key, SigningInput(envelope), envelope.signature)
       THEN "SIGNATURE_INVALID"
  ELSE "PASS"

SignatureStage(envelope, k) ==
  IF k.algorithm # envelope.protected.alg THEN "JWS_HEADER_INVALID"
  ELSE IF envelope.signature = Null THEN "SIGNATURE_ENCODING_INVALID"
  ELSE IF k.algorithm = "ES256" /\ envelope.signature.s \notin 1..(Order - 1)
       THEN "SIGNATURE_ENCODING_INVALID"
  ELSE IF k.algorithm = "ES256" /\ ~IsLowS(envelope.signature.s)
       THEN "SIGNATURE_NON_CANONICAL"
  ELSE IF ~SignatureHolds(k.key, SigningInput(envelope), envelope.signature)
       THEN "SIGNATURE_INVALID"
  ELSE "PASS"

LifecycleStage_InclusiveEnd(context, k, observed) ==
  IF Instant(StatementTime(context)) > observed THEN "STATEMENT_FROM_FUTURE"
  ELSE IF observed < k.notBefore \/ (k.notAfter # Null /\ observed > k.notAfter)
       THEN "KEY_NOT_ACTIVE"
  ELSE IF k.revokedAt # Null /\ observed > k.revokedAt THEN "KEY_REVOKED"
  ELSE "PASS"

LifecycleStage(context, k, observed) ==
  IF Instant(StatementTime(context)) > observed THEN "STATEMENT_FROM_FUTURE"
  ELSE IF observed < k.notBefore \/ (k.notAfter # Null /\ observed >= k.notAfter)
       THEN "KEY_NOT_ACTIVE"
  ELSE IF k.revokedAt # Null /\ observed >= k.revokedAt THEN "KEY_REVOKED"
  ELSE "PASS"

KeyOf(envelope, context) == CHOOSE k \in RegisteredKeys(envelope, context) : TRUE

\* The answer of the first stage that does not pass.
JwsVerdict(envelope, context, observed) ==
  LET k == KeyOf(envelope, context) IN
  IF StatementStage(envelope, context) # "PASS" THEN StatementStage(envelope, context)
  ELSE IF HeaderStage(envelope, context) # "PASS" THEN HeaderStage(envelope, context)
  ELSE IF KeyStage(envelope, context) # "PASS" THEN KeyStage(envelope, context)
  ELSE IF SignatureStage(envelope, k) # "PASS" THEN SignatureStage(envelope, k)
  ELSE IF LifecycleStage(context, k, observed) # "PASS" THEN LifecycleStage(context, k, observed)
  ELSE "VERIFIED"

\* The verifier keeps nothing: a refusal leaves no trace but its answer.
VerifyDetachedJws(envelope, context) ==
  /\ loading = "ready"
  /\ Cardinality(verified) < MaxVerified
  /\ JwsVerdict(envelope, context, LiveObservation(now)) = "VERIFIED"
  /\ verified' = verified \cup {[envelope |-> envelope, context |-> context, at |-> now]}
  /\ UNCHANGED signings

---------------------------------------------------------------------------
(***************************************************************************)
(* The network.  What it delivers differs from what was signed in at most  *)
(* two members: it may join any header, digest and signature it has seen,  *)
(* replace s, garble a segment, and rewrite what is not signed.            *)
(***************************************************************************)
Envelopes  == {signing.envelope : signing \in signings}
Digests    == {e.signedObjectDigest : e \in Envelopes} \cup {Malformed}
Headers    == UNION {{e.protected} \cup {[e.protected EXCEPT !.typ = "JWT"]}
                       \cup {[e.protected EXCEPT !.aud = name] : name \in OtherNames} :
                       e \in Envelopes}
Signatures == {Null} \cup
              UNION {{[e.signature EXCEPT !.s = s] :
                        s \in {e.signature.s, Order - e.signature.s, Order + e.signature.s}} :
                       e \in Envelopes}
Schemes    == {SchemeOf(a) : a \in Algorithms} \cup {"EIP712"}

Altered(e) ==
  {e, [e EXCEPT !.payload = "embedded"]}
    \cup {[e EXCEPT !.scheme = scheme] : scheme \in Schemes}
    \cup {[e EXCEPT !.issuer = name] : name \in OtherNames}
    \cup {[e EXCEPT !.keyId = name] : name \in OtherNames}
    \cup {[e EXCEPT !.protected = header] : header \in Headers}
    \cup {[e EXCEPT !.signedObjectDigest = digest] : digest \in Digests}
    \cup {[e EXCEPT !.signature = signature] : signature \in Signatures}

DeliverJws ==
  \E envelope \in UNION {UNION {Altered(once) : once \in Altered(e)} : e \in Envelopes},
     context \in Contexts : VerifyDetachedJws(envelope, context)

---------------------------------------------------------------------------
JwsInit == signings = {} /\ verified = {}

JwsNext ==
  \/ \E request \in Requests : \E s \in RawS(request) : SignDigestJws(request, s)
  \/ DeliverJws

Init == now = 0 /\ KeysInit /\ JwsInit

Next ==
  \/ Tick /\ UNCHANGED <<keyVars, jwsVars>>
  \/ KeysNext /\ UNCHANGED <<now, jwsVars>>
  \/ JwsNext /\ UNCHANGED <<now, keyVars>>

vars == <<now, keyVars, jwsVars>>

Spec == Init /\ [][Next]_vars

---------------------------------------------------------------------------
(***************************************************************************)
(* Whatever is verified was signed: the holder of the key the registry     *)
(* lists for the issuer, the key id and the role the caller requires       *)
(* signed this digest for this audience, in this name.                     *)
(***************************************************************************)
WasSigned(v) ==
  \E signing \in signings, k \in registry :
    /\ signing.request.key = k.key
    /\ k.role = v.context.requiredRole
    /\ <<k.issuer, k.kid>> = <<v.envelope.issuer, v.envelope.keyId>>
    /\ <<signing.request.issuer, signing.request.keyId>> = <<k.issuer, k.kid>>
    /\ signing.request.audience = v.context.audience
    /\ DigestStructured(signing.request.statement) = DigestStructured(v.context.statement)

VerifiedWasSigned == \A v \in verified : WasSigned(v)

(***************************************************************************)
(* One signing is one proof: it is verified in the one envelope its signer *)
(* made, whatever the network does to it, and as one statement, for one    *)
(* audience and in one role, whatever callers expect.                      *)
(***************************************************************************)
Meaning(context) == <<context.audience, context.requiredRole, context.statement>>

OneMeaningPerSigning ==
  \A v \in verified, signing \in signings :
    v.envelope.signature.r = signing.envelope.signature.r =>
      /\ v.envelope = signing.envelope
      /\ v.context.statement = signing.request.statement
      /\ \A w \in verified :
           w.envelope.signature.r = v.envelope.signature.r => Meaning(w.context) = Meaning(v.context)

(***************************************************************************)
(* A key vouches inside its window, by the true time although the verifier *)
(* only sees whole seconds: never before it is active, and no longer from  *)
(* the first whole second at which it has ended or been revoked.  No       *)
(* statement is verified before its own time.                              *)
(***************************************************************************)
WholeSeconds == {t \in 0..LastInstant : t % TicksPerSecond = 0}

EndedBy(k, instant) ==
  \/ k.notAfter # Null /\ k.notAfter <= instant
  \/ k.revokedAt # Null /\ k.revokedAt <= instant

WithinKeyWindow ==
  \A v \in verified :
    /\ Instant(StatementTime(v.context)) <= v.at
    /\ \E k \in registry :
         /\ <<k.issuer, k.kid>> = <<v.envelope.issuer, v.envelope.keyId>>
         /\ k.notBefore <= v.at
         /\ \A second \in WholeSeconds : second <= v.at => ~EndedBy(k, second)

(***************************************************************************)
(* What one implementation signs the other verifies: an envelope of the    *)
(* signer that arrives as it was made is verified, for the audience it     *)
(* names and the statement it is about, by everyone who lists the key in   *)
(* the role required and observes it a second after its window begins and  *)
(* before it ends.                                                         *)
(***************************************************************************)
SignedIsVerified ==
  loading = "ready" =>
    \A signing \in signings, context \in Contexts, k \in registry :
      /\ k.key = signing.request.key
      /\ <<k.issuer, k.kid>> = <<signing.request.issuer, signing.request.keyId>>
      /\ context.requiredRole = k.role
      /\ context.audience = signing.request.audience
      /\ context.statement = signing.request.statement
      /\ StatementTime(context) # Null
      /\ Instant(StatementTime(context)) <= now
      /\ k.notBefore + TicksPerSecond <= now + 1
      /\ ~EndedBy(k, now)
      => JwsVerdict(signing.envelope, context, LiveObservation(now)) = "VERIFIED"
=============================================================================
