--------------------------- MODULE VerifierProofs ---------------------------
(***************************************************************************)
(* Proofs about both verifications of the Rust verifier.  Of detached      *)
(* signatures: for any keys and lists of them, any requests and contexts,  *)
(* and any odd group order.  Of wallet authorizations: for any accounts    *)
(* and claims, and any odd group order.  Of both: for any length of a      *)
(* second.                                                                 *)
(***************************************************************************)
EXTENDS DetachedProof, WalletProof, TLAPS

---------------------------------------------------------------------------
(* Arithmetic of the clock and of the group. *)

\* The whole second of an instant lies less than a second before it.
LEMMA ObservationIsClose ==
  ASSUME NEW t \in Nat
  PROVE  /\ LiveObservation(t) \in Nat
         /\ LiveObservation(t) <= t
         /\ t < LiveObservation(t) + TicksPerSecond
<1>1. t % TicksPerSecond \in 0..(TicksPerSecond - 1)
  BY SecondAssumption
<1>2. t % TicksPerSecond <= t
  BY SecondAssumption, Z3
<1>3. QED
  BY <1>1, <1>2, SecondAssumption DEF LiveObservation

\* A whole second that has come is observed.
LEMMA SecondsAreObserved ==
  ASSUME NEW t \in Nat, NEW s \in Nat, s % TicksPerSecond = 0, s <= t
  PROVE  s <= LiveObservation(t)
<1> DEFINE T == TicksPerSecond
           p == s \div T
           q == t \div T
<1>1. T \in Nat \ {0} /\ p \in Nat /\ q \in Nat
  BY SecondAssumption
<1>2. s = p * T
  BY <1>1, SecondAssumption, Z3
<1>3. t = q * T + (t % T) /\ t % T \in 0..(T - 1)
  BY <1>1, SecondAssumption, Z3
<1>4. LiveObservation(t) = q * T
  <2> DEFINE r == t % T
             m == q * T
  <2>1. m \in Nat /\ r \in Nat /\ t = m + r
    BY <1>1, <1>3
  <2>2. LiveObservation(t) = t - r
    BY DEF LiveObservation
  <2> HIDE DEF r, m
  <2>3. t - r = m
    BY <2>1
  <2>4. QED
    BY <2>2, <2>3 DEF m
<1> HIDE DEF T, p, q
<1>5. p <= q
  <2>1. SUFFICES ASSUME q < p PROVE FALSE
    BY <1>1
  <2>2. (q + 1) * T <= p * T
    BY <1>1, <2>1, Z3
  <2>3. (q + 1) * T = q * T + T /\ q * T \in Nat
    BY <1>1, Z3
  <2>4. t < q * T + T
    BY <1>1, <1>3, <2>3 DEF T
  <2>5. QED
    BY <1>1, <1>2, <2>2, <2>3, <2>4
<1>6. p * T <= q * T
  BY <1>1, <1>5, Z3
<1>7. QED
  BY <1>2, <1>4, <1>6

\* Statements and claims name whole seconds.
LEMMA InstantsAreSeconds ==
  ASSUME NEW n \in Nat
  PROVE  Instant(n) \in Nat /\ Instant(n) % TicksPerSecond = 0
BY SecondAssumption, Z3 DEF Instant

\* One of s and Order - s is low, and the signer takes it.
LEMMA NormalizedIsLow ==
  ASSUME NEW s \in 1..(Order - 1)
  PROVE  NormalizeP256LowS(s) \in 1..(Order - 1) /\ IsLowS(NormalizeP256LowS(s))
<1> DEFINE h == Order \div 2
<1>1. h \in Nat /\ Order = 2 * h + 1
  BY OrderAssumption
<1>2. Order \in Nat
  BY OrderAssumption
<1> HIDE DEF h
<1>3. IsLowS(s) <=> s <= h
  BY DEF IsLowS, h
<1>4. IsLowS(Order - s) <=> Order - s <= h
  BY DEF IsLowS, h
<1>5. QED
  BY <1>1, <1>2, <1>3, <1>4 DEF NormalizeP256LowS

---------------------------------------------------------------------------
(* The registry. *)

Typed(k) ==
  /\ k.key \in PublicKeys
  /\ k.algorithm = Algorithm[k.key]
  /\ k.notBefore \in Nat
  /\ k.notAfter \in Nat \cup {Null}
  /\ k.revokedAt \in Nat \cup {Null}
  /\ Malformed \notin {k.issuer, k.kid}

KeysInv ==
  /\ loading \in {"none", "loading", "ready", "refused"}
  /\ waiting \in Seq(Candidates)
  /\ loading = "none" => registry = {}
  /\ \A k \in registry : Typed(k)
  /\ RegistryIsUnambiguous

\* Building the registry one entry after the other keeps it unambiguous.
LEMMA KeysStep ==
  ASSUME KeysInv, KeysNext
  PROVE  KeysInv' /\ loading # "ready"
<1> USE DEF KeysInv
<1>1. CASE \E keys \in KeyLists : New(keys)
  BY <1>1, CandidateAssumption DEF New, RegistryIsUnambiguous, Typed
<1>2. CASE \E i \in Imports : FromJwks(i.issuer, i.jwks, i.windows)
  <2>1. PICK i \in Imports : FromJwks(i.issuer, i.jwks, i.windows)
    BY <1>2
  <2> DEFINE made == [w \in DOMAIN i.windows |-> Combined(i.issuer, i.jwks, i.windows[w])]
  <2>2. ImportStands(i.issuer, i.jwks, i.windows) /\ New(made)
    BY <2>1 DEF FromJwks
  <2>3. PICK n \in Nat : DOMAIN i.windows = 1..n
    <3> DEFINE windows == i.windows
               W == {windows[w] : w \in DOMAIN windows}
    <3>1. windows \in Seq(W)
      BY CandidateAssumption
    <3> HIDE DEF windows, W
    <3>2. Len(windows) \in Nat /\ DOMAIN windows = 1..Len(windows)
      BY <3>1
    <3>3. QED
      BY <3>2 DEF windows
  <2>4. \A w \in DOMAIN i.windows : made[w] \in Candidates
    <3>1. \A w \in DOMAIN i.windows : made[w] \in MadeFrom(i)
      BY DEF MadeFrom
    <3>2. i \in Standing
      BY <2>2 DEF Standing
    <3> HIDE DEF made
    <3>3. QED
      BY <3>1, <3>2 DEF Candidates
  <2>5. made \in Seq(Candidates)
    <3> HIDE DEF Candidates
    <3>1. made \in [1..n -> Candidates]
      BY <2>3, <2>4
    <3>2. QED
      BY <3>1
  <2> HIDE DEF made
  <2>6. QED
    BY <2>2, <2>5 DEF New, RegistryIsUnambiguous, Typed
<1>3. CASE \E i \in Imports : RefuseJwks(i.issuer, i.jwks, i.windows)
  BY <1>3 DEF RefuseJwks, RegistryIsUnambiguous, Typed
<1>4. CASE Register
  <2> DEFINE metadata == Head(waiting)
             entry == Registered(metadata, metadata.jwk.key)
  <2>1. /\ loading = "loading" /\ loading' = loading
        /\ EntryStands(metadata)
        /\ registry' = registry \cup {entry}
        /\ waiting' = Tail(waiting)
        /\ waiting # <<>>
    BY <1>4 DEF Register
  <2>2. metadata \in Candidates /\ waiting' \in Seq(Candidates)
    BY <2>1
  <2>3. /\ metadata.jwk.key \in PublicKeys
        /\ Algorithm[metadata.jwk.key] = metadata.algorithm
        /\ ParsePublicJwk(metadata.algorithm, metadata.jwk) = metadata.jwk.key
    BY <2>1, KeyAssumption DEF EntryStands, ParsePublicJwk
  <2>4. ValidateKeyMetadata(metadata, metadata.jwk.key)
    BY <2>1, <2>3 DEF EntryStands
  <2>5. Typed(entry)
    BY <2>2, <2>3, <2>4, CandidateAssumption DEF Typed, Registered, ValidateKeyMetadata
  <2>6. \A k \in registry : k.key # entry.key /\ <<k.issuer, k.kid>> # <<entry.issuer, entry.kid>>
    BY <2>4 DEF ValidateKeyMetadata, Registered
  <2> HIDE DEF entry, metadata
  <2>7. RegistryIsUnambiguous'
    BY <2>1, <2>6 DEF RegistryIsUnambiguous
  <2>8. QED
    BY <2>1, <2>2, <2>5, <2>7 DEF Typed
<1>5. CASE RefuseEntry
  BY <1>5 DEF RefuseEntry, RegistryIsUnambiguous
<1>6. CASE Ready
  BY <1>6 DEF Ready, RegistryIsUnambiguous, Typed
<1>7. QED
  BY <1>1, <1>2, <1>3, <1>4, <1>5, <1>6 DEF KeysNext

---------------------------------------------------------------------------
(* What a verdict of the verifier rests on. *)

LEMMA VerdictStages ==
  ASSUME NEW envelope, NEW context, NEW observed
  PROVE  JwsVerdict(envelope, context, observed) = "VERIFIED" <=>
           LET k == KeyOf(envelope, context) IN
           /\ StatementStage(envelope, context) = "PASS"
           /\ HeaderStage(envelope, context) = "PASS"
           /\ KeyStage(envelope, context) = "PASS"
           /\ SignatureStage(envelope, k) = "PASS"
           /\ LifecycleStage(context, k, observed) = "PASS"
<1> DEFINE k == KeyOf(envelope, context)
<1>1. StatementStage(envelope, context) # "VERIFIED"
  BY DEF StatementStage
<1>2. HeaderStage(envelope, context) # "VERIFIED"
  BY DEF HeaderStage
<1>3. KeyStage(envelope, context) # "VERIFIED"
  BY DEF KeyStage
<1>4. SignatureStage(envelope, k) # "VERIFIED"
  BY DEF SignatureStage
<1>5. LifecycleStage(context, k, observed) # "VERIFIED"
  BY DEF LifecycleStage
<1> HIDE DEF k
<1>6. QED
  BY <1>1, <1>2, <1>3, <1>4, <1>5 DEF JwsVerdict, k

\* The key looked up is registered for the names and the role required.
LEMMA KeyOfRegistered ==
  ASSUME NEW envelope, NEW context, KeyStage(envelope, context) = "PASS"
  PROVE  LET k == KeyOf(envelope, context) IN
         /\ k \in registry
         /\ k.issuer = envelope.issuer /\ k.kid = envelope.keyId
         /\ k.role = context.requiredRole
<1>1. RegisteredKeys(envelope, context) # {}
  BY DEF KeyStage
<1>2. KeyOf(envelope, context) \in RegisteredKeys(envelope, context)
  BY <1>1 DEF KeyOf
<1>3. QED
  BY <1>2 DEF RegisteredKeys, MatchingIdentity

---------------------------------------------------------------------------
(***************************************************************************)
(* The invariant.  Signings are what the signer makes of requests, and     *)
(* nothing is verified before the registry is ready, which never changes   *)
(* from then on: what the registry said of a proof it still says.          *)
(***************************************************************************)
MadeBySigner(signing) ==
  /\ signing.request \in Requests
  /\ RequestStands(signing.request)
  /\ \E s \in RawS(signing.request) : signing.envelope = EnvelopeOf(signing.request, s)

InWindow(v) ==
  /\ Instant(StatementTime(v.context)) <= v.at
  /\ \E k \in registry :
       /\ <<k.issuer, k.kid>> = <<v.envelope.issuer, v.envelope.keyId>>
       /\ k.notBefore <= v.at
       /\ \A second \in WholeSeconds : second <= v.at => ~EndedBy(k, second)

JwsInv ==
  /\ now \in Nat
  /\ KeysInv
  /\ \A signing \in signings : MadeBySigner(signing)
  /\ verified # {} => loading = "ready"
  /\ \A v \in verified : WasSigned(v)
  /\ \A v \in verified : InWindow(v)

\* What is verified now was signed by the holder of the key looked up.
LEMMA VerifiedNowWasSigned ==
  ASSUME JwsInv, NEW envelope, NEW context \in Contexts, VerifyDetachedJws(envelope, context)
  PROVE  WasSigned([envelope |-> envelope, context |-> context, at |-> now])
<1> DEFINE k == KeyOf(envelope, context)
<1>1. /\ StatementStage(envelope, context) = "PASS"
      /\ HeaderStage(envelope, context) = "PASS"
      /\ KeyStage(envelope, context) = "PASS"
      /\ SignatureStage(envelope, k) = "PASS"
  BY VerdictStages DEF VerifyDetachedJws
<1>2. /\ k \in registry
      /\ k.issuer = envelope.issuer /\ k.kid = envelope.keyId
      /\ k.role = context.requiredRole
  BY <1>1, KeyOfRegistered
<1> HIDE DEF k
<1>3. /\ envelope.protected.aud = context.audience
      /\ envelope.protected.iss = envelope.issuer
      /\ envelope.protected.kid = envelope.keyId
  BY <1>1 DEF HeaderStage
<1>4. DigestStructured(context.statement) = envelope.signedObjectDigest
  BY <1>1 DEF StatementStage
<1>5. SignatureHolds(k.key, SigningInput(envelope), envelope.signature)
  BY <1>1 DEF SignatureStage
<1>6. PICK signing \in signings :
        /\ signing.request.key = k.key
        /\ SigningInput(signing.envelope) = SigningInput(envelope)
  BY <1>5, Zenon DEF SignatureHolds
<1>7. /\ signing.envelope.protected = HeaderOf(signing.request)
      /\ signing.envelope.signedObjectDigest = DigestStructured(signing.request.statement)
  <2>1. PICK s \in RawS(signing.request) : signing.envelope = EnvelopeOf(signing.request, s)
    BY DEF JwsInv, MadeBySigner
  <2>2. QED
    BY <2>1 DEF EnvelopeOf
<1>8. /\ HeaderOf(signing.request) = envelope.protected
      /\ DigestStructured(signing.request.statement) = envelope.signedObjectDigest
  BY <1>6, <1>7 DEF SigningInput
<1>9. /\ signing.request.audience = context.audience
      /\ signing.request.issuer = k.issuer
      /\ signing.request.keyId = k.kid
  BY <1>2, <1>3, <1>8 DEF HeaderOf
<1>10. QED
  BY <1>2, <1>4, <1>6, <1>8, <1>9 DEF WasSigned

\* What is verified now is inside the window of the key looked up.
LEMMA VerifiedNowInWindow ==
  ASSUME JwsInv, NEW envelope, NEW context \in Contexts, VerifyDetachedJws(envelope, context)
  PROVE  InWindow([envelope |-> envelope, context |-> context, at |-> now])
<1> DEFINE k == KeyOf(envelope, context)
           observed == LiveObservation(now)
<1>1. /\ StatementStage(envelope, context) = "PASS"
      /\ KeyStage(envelope, context) = "PASS"
      /\ LifecycleStage(context, k, observed) = "PASS"
  BY VerdictStages DEF VerifyDetachedJws
<1>2. k \in registry /\ k.issuer = envelope.issuer /\ k.kid = envelope.keyId
  BY <1>1, KeyOfRegistered
<1>3. Typed(k)
  BY <1>2 DEF JwsInv, KeysInv
<1>4. now \in Nat /\ observed \in Nat /\ observed <= now
  BY ObservationIsClose DEF JwsInv
<1>5. \A s \in WholeSeconds : s \in Nat /\ (s <= now => s <= observed)
  BY <1>4, SecondsAreObserved DEF WholeSeconds
<1>6. StatementTime(context) \in Nat
  BY <1>1, ContextAssumption DEF StatementStage, StatementTime
<1>7. Instant(StatementTime(context)) \in Nat
  BY <1>6, InstantsAreSeconds
<1> HIDE DEF k, observed
<1>8. /\ Instant(StatementTime(context)) <= observed
      /\ k.notBefore <= observed
      /\ k.notAfter # Null => observed < k.notAfter
      /\ k.revokedAt # Null => observed < k.revokedAt
  BY <1>1, <1>3, <1>4, <1>7, EndAssumption DEF LifecycleStage, Typed
<1>9. \A s \in WholeSeconds : s <= now => ~EndedBy(k, s)
  BY <1>3, <1>4, <1>5, <1>8, EndAssumption DEF EndedBy, Typed
<1>10. k.notBefore <= now /\ Instant(StatementTime(context)) <= now
  BY <1>3, <1>4, <1>7, <1>8 DEF Typed
<1>11. QED
  BY <1>2, <1>9, <1>10, Zenon DEF InWindow

LEMMA JwsInvInit == Init => JwsInv
BY DEF Init, KeysInit, JwsInit, JwsInv, KeysInv, RegistryIsUnambiguous

LEMMA JwsInvStep == JwsInv /\ [Next]_vars => JwsInv'
<1> SUFFICES ASSUME JwsInv, [Next]_vars PROVE JwsInv'
  OBVIOUS
<1>1. CASE Tick /\ UNCHANGED <<keyVars, jwsVars>>
  <2>1. now' \in Nat /\ UNCHANGED <<loading, waiting, registry, signings, verified>>
    BY <1>1 DEF Tick, keyVars, jwsVars, JwsInv
  <2>2. QED
    BY <2>1 DEF JwsInv, KeysInv, RegistryIsUnambiguous, Typed, WasSigned, InWindow, MadeBySigner
<1>2. CASE KeysNext /\ UNCHANGED <<now, jwsVars>>
  <2>1. KeysInv' /\ loading # "ready"
    BY <1>2, KeysStep DEF JwsInv
  <2>2. verified' = {} /\ signings' = signings /\ now' = now
    BY <1>2, <2>1 DEF jwsVars, JwsInv
  <2>3. QED
    BY <2>1, <2>2 DEF JwsInv, MadeBySigner
<1>3. CASE JwsNext /\ UNCHANGED <<now, keyVars>>
  <2>1. UNCHANGED <<now, loading, waiting, registry>>
    BY <1>3 DEF keyVars
  <2>2. KeysInv' /\ now' \in Nat
    BY <2>1 DEF JwsInv, KeysInv, RegistryIsUnambiguous, Typed
  <2>3. CASE \E request \in Requests : \E s \in RawS(request) : SignDigestJws(request, s)
    <3>0. PICK request \in Requests : \E s \in RawS(request) : SignDigestJws(request, s)
      BY <2>3
    <3>1. PICK s \in RawS(request) : SignDigestJws(request, s)
      BY <3>0
    <3>2. /\ RequestStands(request)
          /\ signings' = signings \cup {[request |-> request, envelope |-> EnvelopeOf(request, s)]}
          /\ verified' = verified
      BY <3>1 DEF SignDigestJws
    <3>3. \A signing \in signings' : MadeBySigner(signing)
      BY <3>2 DEF MadeBySigner, JwsInv
    <3>4. \A v \in verified' : WasSigned(v)' /\ InWindow(v)'
      BY <2>1, <3>2 DEF JwsInv, WasSigned, InWindow
    <3>5. QED
      BY <2>1, <2>2, <3>2, <3>3, <3>4 DEF JwsInv, MadeBySigner
  <2>4. CASE DeliverJws
    <3>0. PICK envelope : \E context \in Contexts : VerifyDetachedJws(envelope, context)
      BY <2>4, Zenon DEF DeliverJws
    <3>1. PICK context \in Contexts : VerifyDetachedJws(envelope, context)
      BY <3>0
    <3> DEFINE v == [envelope |-> envelope, context |-> context, at |-> now]
    <3>2. loading = "ready" /\ verified' = verified \cup {v} /\ signings' = signings
      BY <3>1 DEF VerifyDetachedJws
    <3>3. WasSigned(v) /\ InWindow(v)
      BY <3>1, VerifiedNowWasSigned, VerifiedNowInWindow
    <3> HIDE DEF v
    <3>4. \A w \in verified' : WasSigned(w) /\ InWindow(w)
      BY <3>2, <3>3 DEF JwsInv
    <3>5. \A w \in verified' : WasSigned(w)' /\ InWindow(w)'
      BY <2>1, <3>2, <3>4 DEF WasSigned, InWindow
    <3>6. QED
      BY <2>1, <2>2, <3>2, <3>5 DEF JwsInv, MadeBySigner
  <2>5. QED
    BY <1>3, <2>3, <2>4 DEF JwsNext
<1>4. CASE UNCHANGED vars
  <2>1. UNCHANGED <<now, loading, waiting, registry, signings, verified>>
    BY <1>4 DEF vars, keyVars, jwsVars
  <2>2. QED
    BY <2>1 DEF JwsInv, KeysInv, RegistryIsUnambiguous, Typed, WasSigned, InWindow, MadeBySigner
<1>5. QED
  BY <1>1, <1>2, <1>3, <1>4 DEF Next

---------------------------------------------------------------------------
(* What the signer makes the verifier accepts. *)

\* An envelope of the signer passes every stage that does not look at the time.
LEMMA SignedPasses ==
  ASSUME JwsInv, NEW signing \in signings, NEW context \in Contexts, NEW k \in registry,
         k.key = signing.request.key,
         <<k.issuer, k.kid>> = <<signing.request.issuer, signing.request.keyId>>,
         context.requiredRole = k.role,
         context.audience = signing.request.audience,
         context.statement = signing.request.statement,
         StatementTime(context) # Null
  PROVE  /\ StatementStage(signing.envelope, context) = "PASS"
         /\ HeaderStage(signing.envelope, context) = "PASS"
         /\ KeyStage(signing.envelope, context) = "PASS"
         /\ KeyOf(signing.envelope, context) = k
         /\ SignatureStage(signing.envelope, k) = "PASS"
<1> DEFINE request == signing.request
           e == signing.envelope
<1>1. request \in Requests /\ RequestStands(request)
  BY DEF JwsInv, MadeBySigner
<1>2. PICK s \in RawS(request) : e = EnvelopeOf(request, s)
  BY DEF JwsInv, MadeBySigner
<1>3. request.algorithm = k.algorithm /\ k.algorithm \in Algorithms
  BY <1>1, KeyAssumption DEF RequestStands, JwsInv, KeysInv, Typed
<1>4. s \in 1..(Order - 1)
  BY OrderAssumption DEF RawS
<1>5. /\ e.scheme = SchemeOf(request.algorithm)
      /\ e.issuer = request.issuer /\ e.keyId = request.keyId
      /\ e.signedObjectDigest = DigestStructured(request.statement)
      /\ e.protected = HeaderOf(request)
      /\ e.payload = "empty"
      /\ e.signature.r = request
      /\ e.signature.s = IF request.algorithm = "ES256" THEN NormalizeP256LowS(s) ELSE s
  BY <1>2 DEF EnvelopeOf
<1>6. e.signature # Null /\ e.signedObjectDigest # Malformed
  BY <1>1, <1>2, <1>4, <1>5, DistinctAssumption
<1>7. request.algorithm = "ES256" =>
        e.signature.s \in 1..(Order - 1) /\ IsLowS(e.signature.s)
  BY <1>4, <1>5, NormalizedIsLow
<1>8. SignatureHolds(k.key, SigningInput(e), e.signature)
  BY Zenon DEF SignatureHolds
<1> HIDE DEF e, request
<1>9. StatementStage(e, context) = "PASS"
  BY <1>1, <1>5, <1>6 DEF StatementStage, RequestStands, request
<1>10. HeaderStage(e, context) = "PASS"
  <2>1. /\ e.protected.typ = Typ /\ e.protected.alg = request.algorithm
        /\ e.protected.aud = request.audience
        /\ e.protected.iss = request.issuer /\ e.protected.kid = request.keyId
    BY <1>5 DEF HeaderOf
  <2>2. e.scheme \in {SchemeOf(a) : a \in Algorithms}
    BY <1>3, <1>5
  <2>3. QED
    BY <1>1, <1>5, <2>1, <2>2 DEF HeaderStage, RequestStands, request
<1>11. RegisteredKeys(e, context) = {k} /\ MatchingIdentity(e) # {}
  <2>1. k \in RegisteredKeys(e, context)
    BY <1>5 DEF RegisteredKeys, MatchingIdentity, request
  <2>2. \A j \in RegisteredKeys(e, context) : j = k
    BY <1>5 DEF RegisteredKeys, MatchingIdentity, JwsInv, KeysInv, RegistryIsUnambiguous, request
  <2>3. QED
    BY <2>1, <2>2 DEF RegisteredKeys
<1>12. KeyStage(e, context) = "PASS" /\ KeyOf(e, context) = k
  BY <1>11 DEF KeyStage, KeyOf
<1>13. SignatureStage(e, k) = "PASS"
  <2>1. e.protected.alg = k.algorithm
    BY <1>3, <1>5 DEF HeaderOf
  <2>2. QED
    BY <1>3, <1>6, <1>7, <1>8, <2>1 DEF SignatureStage
<1>14. QED
  BY <1>9, <1>10, <1>12, <1>13 DEF e

\* Inside its window, as the verifier sees it, a key passes.
LEMMA InsideWindowPasses ==
  ASSUME now \in Nat, NEW context \in Contexts, NEW k, Typed(k),
         StatementTime(context) # Null, Instant(StatementTime(context)) <= now,
         k.notBefore + TicksPerSecond <= now + 1, ~EndedBy(k, now)
  PROVE  LifecycleStage(context, k, LiveObservation(now)) = "PASS"
<1> DEFINE observed == LiveObservation(now)
           time == Instant(StatementTime(context))
<1>1. /\ observed \in Nat /\ observed <= now /\ now < observed + TicksPerSecond
  BY ObservationIsClose
<1>2. time \in Nat /\ time <= observed
  <2>1. StatementTime(context) \in Nat
    BY ContextAssumption DEF StatementTime
  <2>2. QED
    BY <2>1, InstantsAreSeconds, SecondsAreObserved
<1> HIDE DEF observed, time
<1>3. k.notBefore <= observed
  BY <1>1, SecondAssumption DEF Typed
<1>4. /\ k.notAfter # Null => ~(observed >= k.notAfter)
      /\ k.revokedAt # Null => ~(observed >= k.revokedAt)
  BY <1>1, EndAssumption DEF EndedBy, Typed
<1>5. ~(time > observed) /\ ~(observed < k.notBefore)
  BY <1>1, <1>2, <1>3 DEF Typed
<1>6. QED
  BY <1>4, <1>5 DEF LifecycleStage, observed, time

LEMMA SignedIsVerifiedNow == JwsInv => SignedIsVerified
<1> SUFFICES ASSUME JwsInv, NEW signing \in signings, NEW context \in Contexts,
                    NEW k \in registry,
                    k.key = signing.request.key,
                    <<k.issuer, k.kid>> = <<signing.request.issuer, signing.request.keyId>>,
                    context.requiredRole = k.role,
                    context.audience = signing.request.audience,
                    context.statement = signing.request.statement,
                    StatementTime(context) # Null,
                    Instant(StatementTime(context)) <= now,
                    k.notBefore + TicksPerSecond <= now + 1,
                    ~EndedBy(k, now)
             PROVE  JwsVerdict(signing.envelope, context, LiveObservation(now)) = "VERIFIED"
  BY DEF SignedIsVerified
<1>1. now \in Nat /\ Typed(k)
  BY DEF JwsInv, KeysInv
<1>2. LifecycleStage(context, k, LiveObservation(now)) = "PASS"
  BY <1>1, InsideWindowPasses
<1>3. QED
  BY <1>2, SignedPasses, VerdictStages

---------------------------------------------------------------------------
(***************************************************************************)
(* Theorems.                                                               *)
(***************************************************************************)

\* What a registry holds, what was signed and what was verified hang together as
\* JwsInv says, for any lists of keys, requests and envelopes on the network:
\* the invariant the theorems below are read off.
THEOREM JwsInvHolds == Spec => []JwsInv
BY JwsInvInit, JwsInvStep, PTL DEF Spec

\* However the lists given to a registry look, what it ends up holding names
\* every key once and lists every public key once.
THEOREM RegistryStaysUnambiguous == Spec => []RegistryIsUnambiguous
<1>1. JwsInv => RegistryIsUnambiguous
  BY DEF JwsInv, KeysInv
<1>2. QED
  BY <1>1, JwsInvHolds, PTL

\* Every proof verified was signed, for its audience and in its role, by the
\* holder of the key the registry lists.
THEOREM VerifiedWasSignedHolds == Spec => []VerifiedWasSigned
<1>1. JwsInv => VerifiedWasSigned
  BY DEF JwsInv, VerifiedWasSigned
<1>2. QED
  BY <1>1, JwsInvHolds, PTL

\* Every proof verified was verified inside the window of its key, up to the
\* second the verifier rounds to, and not before its statement.
THEOREM WithinKeyWindowHolds == Spec => []WithinKeyWindow
<1>1. JwsInv => WithinKeyWindow
  BY DEF JwsInv, InWindow, WithinKeyWindow
<1>2. QED
  BY <1>1, JwsInvHolds, PTL

\* Every envelope of the TypeScript signer is verified by the Rust verifier
\* where it is meant to be.
THEOREM SignedIsVerifiedHolds == Spec => []SignedIsVerified
BY JwsInvHolds, SignedIsVerifiedNow, PTL
---------------------------------------------------------------------------
(* A frame can be taken apart in one way: its components hold no NUL.      *)

Frame(wire, profile, preimage) == wire \o <<NUL>> \o profile \o <<NUL, preimage>>

\* Two statements with one digest are one statement.
LEMMA FramesAreExact ==
  ASSUME NEW a \in Statements, NEW b \in Statements,
         DigestStructured(a) # Null, DigestStructured(a) = DigestStructured(b)
  PROVE  a = b
<1> DEFINE T == Characters \cup {NUL, a.preimage, b.preimage}
           P == {s.preimage : s \in Statements}
           v == a.wire
           w == b.wire
           p == a.profile
           q == b.profile
           x == a.preimage
           y == b.preimage
           frame == Frame(v, p, x)
<1>1. \A s \in Statements :
        s \in [wire : Seq(Characters), profile : Seq(Characters), preimage : P]
  BY StatementAssumption
<1> HIDE DEF Characters, P
<1>2. /\ v \in Seq(Characters) /\ w \in Seq(Characters)
      /\ p \in Seq(Characters) /\ q \in Seq(Characters)
  BY <1>1
<1>3. /\ FrameComponentStands(v) /\ FrameComponentStands(w)
      /\ frame = Frame(w, q, y)
  BY DEF DigestStructured, Frame
<1>4. /\ Len(v) \in Nat /\ Len(w) \in Nat /\ Len(p) \in Nat /\ Len(q) \in Nat
      /\ \A i \in 1..Len(v) : v[i] # NUL
      /\ \A i \in 1..Len(w) : w[i] # NUL
  BY <1>2, <1>3 DEF FrameComponentStands
<1>5. /\ v \in Seq(T) /\ p \in Seq(T) /\ w \in Seq(T) /\ q \in Seq(T)
      /\ NUL \in T /\ x \in T /\ y \in T
  BY <1>2
<1> HIDE DEF T, v, w, p, q, x, y
<1> HIDE DEF frame
<1>6. /\ Len(frame) = Len(v) + Len(p) + 3
      /\ \A i \in 1..Len(v) : frame[i] = v[i]
      /\ frame[Len(v) + 1] = NUL
      /\ \A i \in 1..Len(p) : frame[Len(v) + 1 + i] = p[i]
      /\ frame[Len(frame)] = x
  BY <1>5 DEF Frame, frame
<1>7. /\ Len(frame) = Len(w) + Len(q) + 3
      /\ \A i \in 1..Len(w) : frame[i] = w[i]
      /\ frame[Len(w) + 1] = NUL
      /\ \A i \in 1..Len(q) : frame[Len(w) + 1 + i] = q[i]
      /\ frame[Len(frame)] = y
  BY <1>3, <1>5 DEF Frame
<1>8. Len(v) = Len(w)
  <2>1. ASSUME Len(v) < Len(w) PROVE FALSE
    <3>1. Len(v) + 1 \in 1..Len(w)
      BY <1>4, <2>1
    <3>2. QED
      BY <1>4, <1>6, <1>7, <3>1
  <2>2. ASSUME Len(w) < Len(v) PROVE FALSE
    <3>1. Len(w) + 1 \in 1..Len(v)
      BY <1>4, <2>2
    <3>2. QED
      BY <1>4, <1>6, <1>7, <3>1
  <2>3. QED
    BY <1>4, <2>1, <2>2
<1>9. Len(p) = Len(q)
  BY <1>4, <1>6, <1>7, <1>8
<1>10. v = w
  BY <1>5, <1>6, <1>7, <1>8
<1>11. p = q
  BY <1>5, <1>6, <1>7, <1>8, <1>9
<1>12. x = y
  BY <1>6, <1>7
<1>13. QED
  BY <1>1, <1>10, <1>11, <1>12 DEF v, w, p, q, x, y

(***************************************************************************)
(* What an envelope is, whatever the network made of it.                   *)
(***************************************************************************)
Shaped(e) ==
  /\ e = [ scheme |-> e.scheme, issuer |-> e.issuer, keyId |-> e.keyId,
           signedObjectDigest |-> e.signedObjectDigest, protected |-> e.protected,
           payload |-> e.payload, signature |-> e.signature ]
  /\ e.signature # Null => e.signature = [r |-> e.signature.r, s |-> e.signature.s]

\* What the signer makes is well-formed, low, and says the same twice.
LEMMA SignedAreShaped ==
  ASSUME JwsInv, NEW signing \in signings
  PROVE  LET e == signing.envelope IN
         /\ Shaped(e) /\ e.signature # Null
         /\ e.scheme = SchemeOf(e.protected.alg) /\ e.issuer = e.protected.iss
         /\ e.keyId = e.protected.kid /\ e.payload = "empty"
         /\ e.protected = HeaderOf(signing.request)
         /\ e.signature.r = signing.request /\ signing.request \in Requests
         /\ e.signedObjectDigest = DigestStructured(signing.request.statement)
         /\ e.protected.alg = Algorithm[signing.request.key]
         /\ e.protected.alg = "ES256" => e.signature.s \in 1..(Order - 1) /\ IsLowS(e.signature.s)
<1> DEFINE request == signing.request
           e == signing.envelope
<1>1. request \in Requests /\ RequestStands(request)
  BY DEF JwsInv, MadeBySigner
<1>2. PICK s \in RawS(request) : e = EnvelopeOf(request, s)
  BY DEF JwsInv, MadeBySigner
<1>3. s \in 1..(Order - 1)
  BY OrderAssumption DEF RawS
<1>4. e.signature # Null
  BY <1>1, <1>2, <1>3, DistinctAssumption
<1> HIDE DEF e, request
<1>5. /\ Shaped(e) /\ e.scheme = SchemeOf(request.algorithm)
      /\ e.issuer = request.issuer /\ e.keyId = request.keyId /\ e.payload = "empty"
      /\ e.protected = HeaderOf(request) /\ e.signature.r = request
      /\ e.signedObjectDigest = DigestStructured(request.statement)
      /\ e.signature.s = IF request.algorithm = "ES256" THEN NormalizeP256LowS(s) ELSE s
  BY <1>2 DEF EnvelopeOf, Shaped
<1>6. /\ e.protected.alg = request.algorithm /\ e.protected.iss = request.issuer
      /\ e.protected.kid = request.keyId
  BY <1>5 DEF HeaderOf
<1>7. request.algorithm = "ES256" =>
        e.signature.s \in 1..(Order - 1) /\ IsLowS(e.signature.s)
  BY <1>3, <1>5, NormalizedIsLow
<1>8. request.algorithm = Algorithm[request.key]
  BY <1>1 DEF RequestStands
<1>9. QED
  BY <1>1, <1>4, <1>5, <1>6, <1>7, <1>8 DEF e, request

\* The network only replaces members.
LEMMA AlteredAreShaped ==
  ASSUME JwsInv, NEW e, Shaped(e), NEW altered \in Altered(e)
  PROVE  Shaped(altered)
<1>1. CASE altered \in {e, [e EXCEPT !.payload = "embedded"]}
  BY <1>1 DEF Shaped
<1>2. CASE \E scheme : altered = [e EXCEPT !.scheme = scheme]
  BY <1>2 DEF Shaped
<1>3. CASE \E name : altered = [e EXCEPT !.issuer = name]
  BY <1>3 DEF Shaped
<1>4. CASE \E name : altered = [e EXCEPT !.keyId = name]
  BY <1>4 DEF Shaped
<1>5. CASE \E header : altered = [e EXCEPT !.protected = header]
  BY <1>5 DEF Shaped
<1>6. CASE \E digest : altered = [e EXCEPT !.signedObjectDigest = digest]
  BY <1>6 DEF Shaped
<1>7. CASE \E signature \in Signatures : altered = [e EXCEPT !.signature = signature]
  <2>1. PICK signature \in Signatures : altered = [e EXCEPT !.signature = signature]
    BY <1>7
  <2>2. signature # Null => signature = [r |-> signature.r, s |-> signature.s]
    <3>1. CASE signature = Null
      BY <3>1
    <3>2. CASE \E signing \in signings : \E s :
                 signature = [signing.envelope.signature EXCEPT !.s = s]
      <4>1. PICK signing \in signings :
              \E s : signature = [signing.envelope.signature EXCEPT !.s = s]
        BY <3>2
      <4>2. signing.envelope.signature
              = [r |-> signing.envelope.signature.r, s |-> signing.envelope.signature.s]
        BY SignedAreShaped DEF Shaped
      <4>3. QED
        BY <4>1, <4>2
    <3>3. CASE signature # Null
      <4>1. PICK seen \in Envelopes :
              signature \in {[seen.signature EXCEPT !.s = s] :
                               s \in {seen.signature.s, Order - seen.signature.s,
                                      Order + seen.signature.s}}
        <5> DEFINE spellings(seen) == {[seen.signature EXCEPT !.s = s] :
                                         s \in {seen.signature.s, Order - seen.signature.s,
                                                Order + seen.signature.s}}
                   replaced == UNION {spellings(seen) : seen \in Envelopes}
        <5>1. Signatures = {Null} \cup replaced
          BY DEF Signatures
        <5> HIDE DEF replaced
        <5>2. signature \in replaced
          BY <3>3, <5>1
        <5> HIDE DEF spellings
        <5>3. \E seen \in Envelopes : signature \in spellings(seen)
          BY <5>2, Zenon DEF replaced
        <5>4. QED
          BY <5>3 DEF spellings
      <4>2. PICK signing \in signings : seen = signing.envelope
        BY Zenon DEF Envelopes
      <4>3. QED
        BY <3>2, <4>1, <4>2, Zenon
    <3>4. QED
      BY <3>1, <3>3
  <2>3. QED
    BY <2>1, <2>2 DEF Shaped
<1>8. QED
  BY <1>1, <1>2, <1>3, <1>4, <1>5, <1>6, <1>7, Zenon DEF Altered

AsSigned(envelope, context, signing) ==
  /\ envelope = signing.envelope
  /\ context.audience = signing.request.audience
  /\ context.statement = signing.request.statement

\* What is verified now is an envelope its signer made, about the statement
\* that was signed.
LEMMA VerifiedNowIsAsSigned ==
  ASSUME JwsInv, NEW envelope, Shaped(envelope), NEW context \in Contexts,
         VerifyDetachedJws(envelope, context)
  PROVE  \E signing \in signings : AsSigned(envelope, context, signing)
<1> DEFINE k == KeyOf(envelope, context)
<1>1. /\ StatementStage(envelope, context) = "PASS"
      /\ HeaderStage(envelope, context) = "PASS"
      /\ KeyStage(envelope, context) = "PASS"
      /\ SignatureStage(envelope, k) = "PASS"
  BY VerdictStages DEF VerifyDetachedJws
<1>2. k \in registry
  BY <1>1, KeyOfRegistered
<1>3. k.algorithm = Algorithm[k.key] /\ Algorithm[k.key] \in Algorithms
  BY <1>2, KeyAssumption DEF JwsInv, KeysInv, Typed
<1> HIDE DEF k
<1>4. /\ k.algorithm = envelope.protected.alg /\ envelope.signature # Null
      /\ k.algorithm = "ES256" =>
           envelope.signature.s \in 1..(Order - 1) /\ IsLowS(envelope.signature.s)
      /\ SignatureHolds(k.key, SigningInput(envelope), envelope.signature)
  BY <1>1 DEF SignatureStage
<1>5. PICK signing \in signings :
        /\ signing.request.key = k.key
        /\ SigningInput(signing.envelope) = SigningInput(envelope)
        /\ signing.envelope.signature.r = envelope.signature.r
        /\ envelope.signature.s \in {signing.envelope.signature.s} \cup
             (IF Algorithm[k.key] = "ES256" THEN {Order - signing.envelope.signature.s} ELSE {})
  BY <1>4, Zenon DEF SignatureHolds
<1> DEFINE e == signing.envelope
<1>6. /\ Shaped(e) /\ e.signature # Null
      /\ e.scheme = SchemeOf(e.protected.alg) /\ e.issuer = e.protected.iss
      /\ e.keyId = e.protected.kid /\ e.payload = "empty"
      /\ e.protected = HeaderOf(signing.request)
      /\ e.protected.alg = Algorithm[signing.request.key]
      /\ e.protected.alg = "ES256" => e.signature.s \in 1..(Order - 1) /\ IsLowS(e.signature.s)
  BY SignedAreShaped
<1> HIDE DEF e
<1>7. e.protected = envelope.protected /\ e.signedObjectDigest = envelope.signedObjectDigest
  BY <1>5 DEF SigningInput, e
<1>8. /\ envelope.scheme = e.scheme /\ envelope.issuer = e.issuer
      /\ envelope.keyId = e.keyId /\ envelope.payload = e.payload
      /\ envelope.protected.aud = context.audience
  BY <1>1, <1>6, <1>7 DEF HeaderStage
<1>9. envelope.signature.s = e.signature.s
  <2>1. CASE k.algorithm = "ES256"
    <3> DEFINE s == envelope.signature.s
               t == e.signature.s
               h == Order \div 2
    <3>1. s \in 1..(Order - 1) /\ t \in 1..(Order - 1) /\ s <= h /\ t <= h
      BY <1>3, <1>4, <1>5, <1>6, <1>7, <2>1 DEF IsLowS
    <3>2. s = t \/ s = Order - t
      BY <1>3, <1>5, <2>1 DEF e
    <3>3. Order \in Nat /\ h \in Nat /\ Order = 2 * h + 1
      BY OrderAssumption
    <3> HIDE DEF s, t, h
    <3>4. s = t
      BY <3>1, <3>2, <3>3
    <3>5. QED
      BY <3>4 DEF s, t
  <2>2. CASE k.algorithm # "ES256"
    BY <1>3, <1>5, <2>2 DEF e
  <2>3. QED
    BY <2>1, <2>2
<1>10. envelope.signature = e.signature
  BY <1>4, <1>5, <1>6, <1>9 DEF Shaped, e
<1>11. envelope = e
  BY <1>6, <1>7, <1>8, <1>10 DEF Shaped
<1>12. context.audience = signing.request.audience
  BY <1>6, <1>7, <1>8 DEF HeaderOf
<1>13. context.statement = signing.request.statement
  <2>1. /\ signing.request \in Requests
        /\ e.signedObjectDigest = DigestStructured(signing.request.statement)
    BY SignedAreShaped DEF e
  <2>2. /\ DigestStructured(context.statement) # Null
        /\ DigestStructured(context.statement) = DigestStructured(signing.request.statement)
    BY <1>1, <1>7, <2>1 DEF StatementStage
  <2>3. context.statement \in Statements /\ signing.request.statement \in Statements
    BY <2>1 DEF Statements
  <2>4. QED
    BY <2>2, <2>3, FramesAreExact
<1>14. QED
  BY <1>11, <1>12, <1>13 DEF AsSigned, e

\* Nothing is signed twice, and whatever is verified is as it was signed.
MeaningInv ==
  /\ \A a, b \in signings : a.request = b.request => a = b
  /\ \A v \in verified :
       \E signing \in signings : AsSigned(v.envelope, v.context, signing)

\* Signing and verifying keep what was verified tied to its one signing.
LEMMA MeaningStep ==
  ASSUME JwsInv, MeaningInv, [Next]_vars
  PROVE  MeaningInv'
<1>1. CASE UNCHANGED jwsVars
  BY <1>1 DEF MeaningInv, jwsVars
<1>2. CASE JwsNext
  <2>1. CASE \E request \in Requests : \E s \in RawS(request) : SignDigestJws(request, s)
    <3>0. PICK request \in Requests : \E s \in RawS(request) : SignDigestJws(request, s)
      BY <2>1
    <3>1. PICK s \in RawS(request) : SignDigestJws(request, s)
      BY <3>0
    <3> DEFINE new == [request |-> request, envelope |-> EnvelopeOf(request, s)]
    <3>2. /\ \A signing \in signings : signing.request # request
          /\ signings' = signings \cup {new} /\ new.request = request
          /\ verified' = verified
      BY <3>1 DEF SignDigestJws
    <3> HIDE DEF new
    <3>3. QED
      BY <3>2 DEF MeaningInv
  <2>2. CASE DeliverJws
    <3> DEFINE twice(e) == UNION {Altered(once) : once \in Altered(e)}
    <3>1. PICK envelope \in UNION {twice(e) : e \in Envelopes} :
            \E context \in Contexts : VerifyDetachedJws(envelope, context)
      BY <2>2, Zenon DEF DeliverJws
    <3>2. PICK context \in Contexts : VerifyDetachedJws(envelope, context)
      BY <3>1
    <3>3. Shaped(envelope)
      <4> HIDE DEF twice
      <4>1. PICK e \in Envelopes : envelope \in twice(e)
        BY Zenon
      <4>2. PICK once \in Altered(e) : envelope \in Altered(once)
        BY <4>1, Zenon DEF twice
      <4>3. PICK signing \in signings : e = signing.envelope
        BY Zenon DEF Envelopes
      <4>4. Shaped(e)
        BY <4>3, SignedAreShaped
      <4>5. Shaped(once)
        BY <4>2, <4>4, AlteredAreShaped
      <4>6. QED
        BY <4>2, <4>5, AlteredAreShaped
    <3>4. \E s \in signings : AsSigned(envelope, context, s)
      BY <3>2, <3>3, VerifiedNowIsAsSigned
    <3> DEFINE v == [envelope |-> envelope, context |-> context, at |-> now]
    <3>5. /\ verified' = verified \cup {v} /\ signings' = signings
          /\ v.envelope = envelope /\ v.context = context
      BY <3>2 DEF VerifyDetachedJws
    <3> HIDE DEF v
    <3>6. QED
      BY <3>4, <3>5 DEF MeaningInv
  <2>3. QED
    BY <1>2, <2>1, <2>2 DEF JwsNext
<1>3. QED
  BY <1>1, <1>2 DEF Next, vars

\* From one signing there is one meaning, as a registry names every key once.
LEMMA MeaningIsOne ==
  ASSUME JwsInv, MeaningInv
  PROVE  OneMeaningPerSigning
<1>1. SUFFICES ASSUME NEW v \in verified, NEW signing \in signings,
                      v.envelope.signature.r = signing.envelope.signature.r
               PROVE  /\ v.envelope = signing.envelope
                      /\ v.context.statement = signing.request.statement
                      /\ \A w \in verified :
                           w.envelope.signature.r = v.envelope.signature.r =>
                             Meaning(w.context) = Meaning(v.context)
  BY DEF OneMeaningPerSigning
<1>2. ASSUME NEW w \in verified, w.envelope.signature.r = v.envelope.signature.r
      PROVE  AsSigned(w.envelope, w.context, signing)
  <2>1. PICK s \in signings : AsSigned(w.envelope, w.context, s)
    BY DEF MeaningInv
  <2>2. s.envelope.signature.r = s.request /\ signing.envelope.signature.r = signing.request
    BY SignedAreShaped
  <2>3. s = signing
    BY <1>1, <1>2, <2>1, <2>2 DEF MeaningInv, AsSigned
  <2>4. QED
    BY <2>1, <2>3
<1>3. AsSigned(v.envelope, v.context, signing)
  BY <1>2
<1>4. ASSUME NEW w \in verified, w.envelope.signature.r = v.envelope.signature.r
      PROVE  Meaning(w.context) = Meaning(v.context)
  <2>1. AsSigned(w.envelope, w.context, signing)
    BY <1>2, <1>4
  <2>2. w.context.requiredRole = v.context.requiredRole
    <3>1. PICK j \in registry : /\ j.role = w.context.requiredRole
                                /\ <<j.issuer, j.kid>> = <<w.envelope.issuer, w.envelope.keyId>>
      BY DEF JwsInv, WasSigned
    <3>2. PICK k \in registry : /\ k.role = v.context.requiredRole
                                /\ <<k.issuer, k.kid>> = <<v.envelope.issuer, v.envelope.keyId>>
      BY DEF JwsInv, WasSigned
    <3>3. j = k
      BY <1>3, <2>1, <3>1, <3>2 DEF JwsInv, KeysInv, RegistryIsUnambiguous, AsSigned
    <3>4. QED
      BY <3>1, <3>2, <3>3
  <2>3. QED
    BY <1>3, <2>1, <2>2 DEF AsSigned, Meaning
<1>5. QED
  BY <1>3, <1>4 DEF AsSigned

\* A signing is verified in the one envelope its signer made, as the statement
\* that was signed, for one audience and in one role.
THEOREM OneMeaningPerSigningHolds == Spec => []OneMeaningPerSigning
<1>1. Init => MeaningInv
  BY DEF Init, JwsInit, MeaningInv
<1>2. QED
  BY <1>1, MeaningStep, MeaningIsOne, JwsInvHolds, PTL DEF Spec
---------------------------------------------------------------------------
(***************************************************************************)
(* Wallet authorizations.                                                  *)
(***************************************************************************)
\* Addresses in canonical spelling, and mirrored signatures.
LEMMA LowerParts ==
  ASSUME NEW party \in Parties
  PROVE  /\ Lower(party).account = party.account
         /\ Lower(party) = Lower(Lower(party))
BY PartyAssumption DEF Lower

\* A signature has three members, and its mirror has too.
SignatureShaped(signature) ==
  signature = [r |-> signature.r, s |-> signature.s, v |-> signature.v]

LEMMA MirroredParts ==
  ASSUME NEW signature, SignatureShaped(signature)
  PROVE  /\ SignatureShaped(Mirrored(signature))
         /\ Mirrored(signature).r = signature.r
         /\ Mirrored(signature).s = CurveOrder - signature.s
         /\ Mirrored(signature).v = IF signature.v = 27 THEN 28 ELSE 27
BY DEF SignatureShaped, Mirrored

\* A signature and its mirror are each other's, and only one of them is low.
LEMMA MirroredTwice ==
  ASSUME NEW a, NEW b, SignatureShaped(a), SignatureShaped(b),
         b.s \in Nat, b.v \in {27, 28}, a \in {b, Mirrored(b)}
  PROVE  b \in {a, Mirrored(a)}
<1>1. CASE a = b
  BY <1>1
<1>2. CASE a = Mirrored(b)
  <2>1. CurveOrder \in Nat
    BY CurveAssumption DEF CurveOrder
  <2> HIDE DEF CurveOrder
  <2>2. Mirrored(a).r = b.r /\ Mirrored(a).s = b.s /\ Mirrored(a).v = b.v
    BY <1>2, <2>1, MirroredParts
  <2>3. SignatureShaped(Mirrored(a))
    BY MirroredParts
  <2>4. QED
    BY <2>2, <2>3 DEF SignatureShaped
<1>3. QED
  BY <1>1, <1>2

\* Of two low signatures whose wallets signed alike neither is another form.
LEMMA OneIsLow ==
  ASSUME NEW a, NEW b, NEW m, NEW n, SignatureShaped(a), SignatureShaped(b),
         SignatureShaped(m), SignatureShaped(n),
         a.s \in 1..HalfOrder, b.s \in 1..HalfOrder,
         a.v \in {27, 28}, b.v \in {27, 28},
         m \in {a, Mirrored(a)}, n \in {b, Mirrored(b)}, m \in {n, Mirrored(n)}
  PROVE  a = b
<1> DEFINE Same(x, y) == x.s = y.s /\ x.v = y.v
           Other(x, y) == /\ x.s = CurveOrder - y.s
                          /\ x.v = IF y.v = 27 THEN 28 ELSE 27
<1>1. /\ m.r = a.r /\ (Same(m, a) \/ Other(m, a))
      /\ n.r = b.r /\ (Same(n, b) \/ Other(n, b))
      /\ m.r = n.r /\ (Same(m, n) \/ Other(m, n))
  <2>1. ASSUME NEW x, NEW y, SignatureShaped(y), x \in {y, Mirrored(y)}
        PROVE  x.r = y.r /\ (Same(x, y) \/ Other(x, y))
    BY <2>1, MirroredParts
  <2> HIDE DEF Same, Other
  <2>2. QED
    BY <2>1
<1>2. a.r = b.r /\ a.s = b.s /\ a.v = b.v
  BY <1>1, CurveAssumption DEF CurveOrder
<1>3. QED
  BY <1>2 DEF SignatureShaped

\* A verdict is that of its stages.
LEMMA WalletVerdictStages ==
  ASSUME NEW p, NEW observed
  PROVE  WalletVerdict(p, observed) = "VERIFIED" <=>
           /\ EnvelopeStage(p) = "PASS"
           /\ TimeStage(p, observed) = "PASS"
           /\ MessageStage(p) = "PASS"
           /\ DigestStage(p) = "PASS"
           /\ WalletSignatureStage(p) = "PASS"
<1>1. EnvelopeStage(p) # "VERIFIED"
  BY DEF EnvelopeStage
<1>2. TimeStage(p, observed) # "VERIFIED"
  BY DEF TimeStage
<1>3. MessageStage(p) # "VERIFIED"
  BY DEF MessageStage
<1>4. DigestStage(p) # "VERIFIED"
  BY DEF DigestStage
<1>5. WalletSignatureStage(p) # "VERIFIED"
  BY DEF WalletSignatureStage
<1>6. QED
  BY <1>1, <1>2, <1>3, <1>4, <1>5 DEF WalletVerdict

\* A wallet that is recovered signed, and it signed in the form at hand or in
\* the mirrored one.
LEMMA RecoveredSigned ==
  ASSUME NEW hash, NEW signature, Recover(hash, signature) # Nobody
  PROVE  \E act \in signed :
           /\ act.hash = hash /\ act.account = Recover(hash, signature)
           /\ act.signature \in {signature, Mirrored(signature)}
<1> DEFINE who == {act \in signed : act.hash = hash
                                      /\ act.signature \in {signature, Mirrored(signature)}}
           act == CHOOSE act \in who : TRUE
<1>1. who # {} /\ Recover(hash, signature) = act.account
  BY DEF Recover
<1>2. act \in who
  BY <1>1
<1> HIDE DEF act
<1>3. QED
  BY <1>1, <1>2

---------------------------------------------------------------------------
(***************************************************************************)
(* The invariant of the wallet proofs.  What is proven is, member by       *)
(* member, what its claims and its signature determine.                    *)
(***************************************************************************)
Signed(act) ==
  /\ SignatureShaped(act.signature)
  /\ act.signature.r = <<act.account, act.hash>>
  /\ act.signature.s \in 1..(CurveOrder - 1)
  /\ act.signature.v \in {27, 28}

SignedOnce ==
  \A a, b \in signed :
    a.signature.r = b.signature.r => a.signature \in {b.signature, Mirrored(b.signature)}

BuiltFrom(r, input) ==
  LET typedData == BuildPaymentAuthorizationTypedData(input)
      digest    == AuthorizationDigest(typedData)
      claims    == WithDigest(input, digest)
  IN
  /\ ValidateWalletProofClaims(input) /\ SignatureIsCanonical(r.envelope.signature)
  /\ r = [ envelope |-> [ scheme |-> "EIP712", issuer |-> input.issuer, keyId |-> input.keyId,
                          signedObjectDigest |-> digest, signature |-> r.envelope.signature ],
           claims |-> claims, claimsDigest |-> ClaimsDigest(claims), typedData |-> typedData ]

Determined(p) ==
  LET typedData == BuildPaymentAuthorizationTypedData(p.claims)
      signature == p.envelope.signature
  IN
  /\ SignatureShaped(signature) /\ SignatureIsCanonical(signature)
  /\ p = [ wire |-> "0.1", typedData |-> typedData, claims |-> p.claims,
           claimsDigest |-> ClaimsDigest(p.claims),
           envelope |-> [ scheme |-> "EIP712", issuer |-> p.claims.buyer,
                          keyId |-> p.claims.keyId,
                          signedObjectDigest |-> AuthorizationDigest(typedData),
                          signature |-> signature ] ]

SignedByPayer(p) ==
  \E act \in signed :
    /\ act.account = p.claims.payer.account
    /\ act.hash = SigningHash(BuildPaymentAuthorizationTypedData(p.claims))
    /\ act.signature \in {p.envelope.signature, Mirrored(p.envelope.signature)}

InTime(v) ==
  /\ Instant(v.proof.claims.issuedAt) <= v.at
  /\ v.at < Instant(v.proof.claims.expiresAt)

WalletInv ==
  /\ now \in Nat
  /\ \A act \in signed : Signed(act)
  /\ SignedOnce
  /\ \A r \in receipts : \E input \in ClaimInputs : BuiltFrom(r, input)
  /\ \A v \in proven : Determined(v.proof) /\ SignedByPayer(v.proof) /\ InTime(v)

\* A wallet signs, in the one form or its mirror.
LEMMA WalletSignsStep ==
  ASSUME WalletInv, NEW account, NEW input \in ClaimInputs, NEW signature,
         WalletSigns(account, input, signature), now' = now
  PROVE  WalletInv'
<1> DEFINE hash == SigningHash(BuildPaymentAuthorizationTypedData(input))
           new == [account |-> account, hash |-> hash, signature |-> signature]
<1>1. /\ signature \in SignaturesOf(account, hash)
      /\ \A act \in signed : act.signature.r = signature.r =>
                               act.signature \in {signature, Mirrored(signature)}
      /\ signed' = signed \cup {new} /\ receipts' = receipts /\ proven' = proven
  BY DEF WalletSigns
<1> HIDE DEF hash
<1>2. /\ SignatureShaped(signature) /\ signature.r = <<account, hash>>
      /\ signature.s \in 1..(CurveOrder - 1) /\ signature.v \in {27, 28}
  BY <1>1 DEF SignaturesOf, SignatureShaped
<1>3. Signed(new) /\ new.signature = signature
  BY <1>2 DEF Signed
<1> HIDE DEF new
<1>4. \A act \in signed' : Signed(act)
  BY <1>1, <1>3 DEF WalletInv
<1>5. SignedOnce'
  <2>1. ASSUME NEW act \in signed, act.signature.r = signature.r
        PROVE  signature \in {act.signature, Mirrored(act.signature)}
    <3>1. act.signature \in {signature, Mirrored(signature)} /\ Signed(act)
      BY <1>1, <2>1 DEF WalletInv
    <3>2. signature.s \in Nat
      BY <1>2
    <3>3. QED
      BY <1>2, <3>1, <3>2, MirroredTwice DEF Signed
  <2>2. QED
    BY <1>1, <1>3, <2>1 DEF SignedOnce, WalletInv
<1>6. \A v \in proven : SignedByPayer(v.proof)'
  BY <1>1 DEF SignedByPayer, WalletInv
<1>7. QED
  BY <1>1, <1>4, <1>5, <1>6 DEF WalletInv, Determined, InTime, BuiltFrom

\* The package builds a receipt.
LEMMA BuildStep ==
  ASSUME WalletInv, NEW input \in ClaimInputs, NEW act \in signed,
         CreateEip712ProofEnvelope(input, act.signature), now' = now
  PROVE  WalletInv'
<1> DEFINE typedData == BuildPaymentAuthorizationTypedData(input)
           digest == AuthorizationDigest(typedData)
           claims == WithDigest(input, digest)
           new == [ envelope |-> [ scheme |-> "EIP712", issuer |-> input.issuer,
                                   keyId |-> input.keyId, signedObjectDigest |-> digest,
                                   signature |-> act.signature ],
                    claims |-> claims, claimsDigest |-> ClaimsDigest(claims),
                    typedData |-> typedData ]
<1>1. /\ ValidateWalletProofClaims(input) /\ SignatureIsCanonical(act.signature)
      /\ receipts' = receipts \cup {new} /\ signed' = signed /\ proven' = proven
  BY DEF CreateEip712ProofEnvelope
<1> HIDE DEF typedData, digest, claims
<1>2. BuiltFrom(new, input)
  BY <1>1 DEF BuiltFrom, typedData, digest, claims
<1> HIDE DEF new
<1>3. \A r \in receipts' : \E i \in ClaimInputs : BuiltFrom(r, i)
  BY <1>1, <1>2 DEF WalletInv
<1>4. QED
  BY <1>1, <1>3
     DEF WalletInv, SignedOnce, Signed, Determined, SignedByPayer, InTime, BuiltFrom

\* Typed data has the three members whatever the network puts into them.
TypedDataShaped(t) ==
  t = [domain |-> t.domain, primaryType |-> t.primaryType, message |-> t.message]

\* Typed data on the network was built, and at most one member replaced.
LEMMA SeenTypedData ==
  ASSUME WalletInv, NEW t \in TypedDataSeen
  PROVE  TypedDataShaped(t)
<1> DEFINE built == {r.typedData : r \in receipts}
           payees == {input.payee : input \in ClaimInputs}
<1>1. \A b \in built : TypedDataShaped(b)
  <2>1. ASSUME NEW r \in receipts PROVE TypedDataShaped(r.typedData)
    <3>1. PICK input \in ClaimInputs : BuiltFrom(r, input)
      BY DEF WalletInv
    <3>2. r.typedData = BuildPaymentAuthorizationTypedData(input)
      BY <3>1 DEF BuiltFrom
    <3>3. QED
      BY <3>2 DEF BuildPaymentAuthorizationTypedData, TypedDataShaped
  <2>2. QED
    BY <2>1
<1>2. \/ t \in built
      \/ \E b \in built : t = [b EXCEPT !.domain = "otherToken"]
      \/ \E b \in built, payee \in payees : t = [b EXCEPT !.message.to = payee]
      \/ \E b \in built : t = [b EXCEPT !.message.from.spelling = "mixed"]
  BY DEF TypedDataSeen
<1> HIDE DEF built, payees
<1>3. CASE \E b \in built : t = [b EXCEPT !.domain = "otherToken"]
  BY <1>1, <1>3 DEF TypedDataShaped
<1>4. CASE \E b \in built, payee \in payees : t = [b EXCEPT !.message.to = payee]
  BY <1>1, <1>4 DEF TypedDataShaped
<1>5. CASE \E b \in built : t = [b EXCEPT !.message.from.spelling = "mixed"]
  BY <1>1, <1>5 DEF TypedDataShaped
<1>6. QED
  BY <1>1, <1>2, <1>3, <1>4, <1>5

\* Signatures on the network are some wallet's, with v or the form changed.
LEMMA SeenSignature ==
  ASSUME WalletInv, NEW signature \in SignaturesSeen
  PROVE  SignatureShaped(signature)
<1>1. PICK act \in signed :
        signature \in {act.signature, Mirrored(act.signature), [act.signature EXCEPT !.v = 0],
                       [act.signature EXCEPT !.r = NoPoint]}
  BY Zenon DEF SignaturesSeen
<1>2. SignatureShaped(act.signature)
  BY DEF WalletInv, Signed
<1>3. SignatureShaped([act.signature EXCEPT !.v = 0])
  BY <1>2 DEF SignatureShaped
<1>4. SignatureShaped([act.signature EXCEPT !.r = NoPoint])
  BY <1>2 DEF SignatureShaped
<1>5. QED
  BY <1>1, <1>2, <1>3, <1>4, MirroredParts

\* What is verified now is determined by claims and signature, and signed.
LEMMA ProvenNow ==
  ASSUME WalletInv, NEW p, NEW input \in ClaimInputs, NEW digest,
         p.claims = WithDigest(input, digest), TypedDataShaped(p.typedData),
         SignatureShaped(p.envelope.signature),
         p = [ wire |-> p.wire, typedData |-> p.typedData, claims |-> p.claims,
               claimsDigest |-> p.claimsDigest, envelope |-> p.envelope ],
         p.envelope = [ scheme |-> p.envelope.scheme, issuer |-> p.envelope.issuer,
                        keyId |-> p.envelope.keyId,
                        signedObjectDigest |-> p.envelope.signedObjectDigest,
                        signature |-> p.envelope.signature ],
         VerifyEip712Wallet(p)
  PROVE  Determined(p) /\ SignedByPayer(p) /\ InTime([proof |-> p, at |-> now])
<1> DEFINE observed == LiveObservation(now)
           claims == p.claims
           signature == p.envelope.signature
<1>1. /\ EnvelopeStage(p) = "PASS" /\ TimeStage(p, observed) = "PASS"
      /\ MessageStage(p) = "PASS" /\ DigestStage(p) = "PASS"
      /\ WalletSignatureStage(p) = "PASS"
  BY WalletVerdictStages DEF VerifyEip712Wallet
<1>2. /\ claims.issuedAt = input.issuedAt /\ claims.expiresAt = input.expiresAt
      /\ claims.payer = input.payer
  BY DEF WithDigest
<1>3. /\ p.wire = "0.1" /\ p.envelope.scheme = "EIP712"
      /\ p.envelope.issuer = claims.buyer /\ p.envelope.keyId = claims.keyId
      /\ ValidateWalletProofClaims(claims)
  BY <1>1 DEF EnvelopeStage
<1>4. /\ p.typedData = BuildPaymentAuthorizationTypedData(claims)
      /\ p.typedData.message.from.account = claims.payer.account
  <2>1. /\ p.typedData.primaryType = Transfer /\ p.typedData.domain = BaseUsdc
        /\ p.typedData.message = MessageFor(claims)
        /\ p.typedData.message.from.account = claims.payer.account
    BY <1>1 DEF MessageStage
  <2>2. QED
    BY <2>1 DEF TypedDataShaped, BuildPaymentAuthorizationTypedData
<1>5. /\ AuthorizationDigest(p.typedData) = p.envelope.signedObjectDigest
      /\ ClaimsDigest(claims) = p.claimsDigest
  BY <1>1 DEF DigestStage
<1>6. /\ signature.v \in {27, 28} /\ signature.s \in 1..(CurveOrder - 1)
      /\ ~(signature.s > HalfOrder)
      /\ Recover(SigningHash(p.typedData), signature) = claims.payer.account
  BY <1>1 DEF WalletSignatureStage
<1>7. SignatureIsCanonical(signature)
  BY <1>6, CurveAssumption DEF SignatureIsCanonical, CurveOrder
<1>8. Determined(p)
  BY <1>3, <1>4, <1>5, <1>7 DEF Determined
<1>9. SignedByPayer(p)
  <2>1. claims.payer.account # Nobody
    BY <1>2, PartyAssumption DEF Parties
  <2>2. \E act \in signed :
          /\ act.hash = SigningHash(p.typedData) /\ act.account = claims.payer.account
          /\ act.signature \in {signature, Mirrored(signature)}
    BY <1>6, <2>1, RecoveredSigned
  <2>3. QED
    BY <1>4, <2>2 DEF SignedByPayer
<1>10. InTime([proof |-> p, at |-> now])
  <2>1. claims.issuedAt \in Nat /\ claims.expiresAt \in Nat
    BY <1>2, <1>3, TimeAssumption DEF ValidateWalletProofClaims, WellFormedClaims
  <2>2. /\ now \in Nat /\ observed \in Nat /\ observed <= now
        /\ Instant(claims.issuedAt) \in Nat /\ Instant(claims.expiresAt) \in Nat
        /\ Instant(claims.expiresAt) <= now => Instant(claims.expiresAt) <= observed
    BY <2>1, ObservationIsClose, InstantsAreSeconds, SecondsAreObserved DEF WalletInv
  <2>3. ~(observed < Instant(claims.issuedAt)) /\ ~(observed >= Instant(claims.expiresAt))
    BY <1>1 DEF TimeStage
  <2> HIDE DEF observed, claims
  <2>4. Instant(claims.issuedAt) <= now /\ now < Instant(claims.expiresAt)
    BY <2>2, <2>3
  <2>5. QED
    BY <2>4 DEF InTime, claims
<1>11. QED
  BY <1>8, <1>9, <1>10

\* Whatever the network puts together, what is proven is determined and signed.
LEMMA DeliverStep ==
  ASSUME WalletInv, DeliverWallet, now' = now
  PROVE  WalletInv'
<1>1. PICK r \in receipts, t \in TypedDataSeen, wire \in {"0.1", "0.2"}, input \in ClaimInputs,
           name \in {i.buyer : i \in ClaimInputs}, signature \in SignaturesSeen :
        \E ofClaims, ofEnvelope \in {AuthorizationDigest(t), r.envelope.signedObjectDigest} :
         \E claimsDigest \in {r.claimsDigest, ClaimsDigest(WithDigest(input, ofClaims))} :
          VerifyEip712Wallet(
            [ wire |-> wire, typedData |-> t, claims |-> WithDigest(input, ofClaims),
              claimsDigest |-> claimsDigest,
              envelope |-> [ scheme |-> r.envelope.scheme, issuer |-> name,
                             keyId |-> r.envelope.keyId, signedObjectDigest |-> ofEnvelope,
                             signature |-> signature ] ])
  BY Zenon DEF DeliverWallet
<1>2. PICK ofClaims, ofEnvelope, claimsDigest :
        VerifyEip712Wallet(
          [ wire |-> wire, typedData |-> t, claims |-> WithDigest(input, ofClaims),
            claimsDigest |-> claimsDigest,
            envelope |-> [ scheme |-> r.envelope.scheme, issuer |-> name,
                           keyId |-> r.envelope.keyId, signedObjectDigest |-> ofEnvelope,
                           signature |-> signature ] ])
  BY <1>1
<1> DEFINE p == [ wire |-> wire, typedData |-> t, claims |-> WithDigest(input, ofClaims),
                  claimsDigest |-> claimsDigest,
                  envelope |-> [ scheme |-> r.envelope.scheme, issuer |-> name,
                                 keyId |-> r.envelope.keyId, signedObjectDigest |-> ofEnvelope,
                                 signature |-> signature ] ]
           v == [proof |-> p, at |-> now]
<1>3. TypedDataShaped(t) /\ SignatureShaped(signature)
  BY SeenTypedData, SeenSignature
<1>4. VerifyEip712Wallet(p)
  BY <1>2
<1>5. /\ p.claims = WithDigest(input, ofClaims) /\ p.typedData = t
      /\ p.envelope.signature = signature
      /\ p = [ wire |-> p.wire, typedData |-> p.typedData, claims |-> p.claims,
               claimsDigest |-> p.claimsDigest, envelope |-> p.envelope ]
      /\ p.envelope = [ scheme |-> p.envelope.scheme, issuer |-> p.envelope.issuer,
                        keyId |-> p.envelope.keyId,
                        signedObjectDigest |-> p.envelope.signedObjectDigest,
                        signature |-> p.envelope.signature ]
  OBVIOUS
<1> HIDE DEF p
<1>6. Determined(p) /\ SignedByPayer(p) /\ InTime(v)
  BY <1>3, <1>4, <1>5, ProvenNow
<1>7. /\ proven' = proven \cup {v} /\ signed' = signed /\ receipts' = receipts
      /\ v.proof = p
  BY <1>4 DEF VerifyEip712Wallet
<1> HIDE DEF v
<1>8. \A w \in proven' : Determined(w.proof) /\ SignedByPayer(w.proof) /\ InTime(w)
  BY <1>6, <1>7 DEF WalletInv
<1>9. QED
  BY <1>7, <1>8
     DEF WalletInv, SignedOnce, Signed, Determined, SignedByPayer, InTime, BuiltFrom

\* The invariant, for any wallets, claims and signatures.
THEOREM WalletInvHolds == WalletSpec => []WalletInv
<1> DEFINE Step == \/ Tick /\ UNCHANGED walletVars
                   \/ WalletNext /\ UNCHANGED now
<1>1. now = 0 /\ WalletInit => WalletInv
  BY DEF WalletInit, WalletInv, SignedOnce
<1>2. WalletInv /\ [Step]_<<now, walletVars>> => WalletInv'
  <2> SUFFICES ASSUME WalletInv, [Step]_<<now, walletVars>> PROVE WalletInv'
    OBVIOUS
  <2>1. CASE UNCHANGED walletVars /\ now' \in Nat
    BY <2>1
       DEF walletVars, WalletInv, SignedOnce, Signed, Determined, SignedByPayer, InTime,
           BuiltFrom
  <2>2. CASE WalletNext /\ UNCHANGED now
    <3>1. CASE \E account \in Accounts, input \in ClaimInputs :
                 \E signature \in SignaturesOf(account,
                     SigningHash(BuildPaymentAuthorizationTypedData(input))) :
                   WalletSigns(account, input, signature)
      BY <2>2, <3>1, WalletSignsStep
    <3>2. CASE \E input \in ClaimInputs, act \in signed :
                 CreateEip712ProofEnvelope(input, act.signature)
      BY <2>2, <3>2, BuildStep
    <3>3. CASE DeliverWallet
      BY <2>2, <3>3, DeliverStep
    <3>4. QED
      BY <2>2, <3>1, <3>2, <3>3 DEF WalletNext
  <2>3. QED
    BY <2>1, <2>2 DEF Tick, WalletInv
<1>3. QED
  BY <1>1, <1>2, PTL DEF WalletSpec

\* Every transfer proven was signed by the payer's wallet, is proven within the
\* time of its claims, and has one proof.
THEOREM TransferIsAuthorizedHolds == WalletSpec => []TransferIsAuthorized
<1>1. WalletInv => TransferIsAuthorized
  <2> SUFFICES ASSUME WalletInv, NEW v \in proven
               PROVE  /\ \E act \in signed :
                           /\ act.account = v.proof.claims.payer.account
                           /\ act.hash = SigningHash(
                                BuildPaymentAuthorizationTypedData(v.proof.claims))
                      /\ Instant(v.proof.claims.issuedAt) <= v.at
                      /\ v.at < Instant(v.proof.typedData.message.validBefore)
                      /\ \A w \in proven :
                           w.proof.claims = v.proof.claims
                             /\ w.proof.envelope.signature.r = v.proof.envelope.signature.r
                             => w.proof = v.proof
    BY DEF TransferIsAuthorized
  <2>1. \A w \in proven : Determined(w.proof) /\ SignedByPayer(w.proof) /\ InTime(w)
    BY DEF WalletInv
  <2>2. v.proof.typedData.message.validBefore = v.proof.claims.expiresAt
    <3>1. v.proof.typedData = BuildPaymentAuthorizationTypedData(v.proof.claims)
      <4> DEFINE p == v.proof
                 typedData == BuildPaymentAuthorizationTypedData(p.claims)
                 digest == ClaimsDigest(p.claims)
                 envelope == [ scheme |-> "EIP712", issuer |-> p.claims.buyer,
                               keyId |-> p.claims.keyId,
                               signedObjectDigest |-> AuthorizationDigest(typedData),
                               signature |-> p.envelope.signature ]
      <4>1. p = [ wire |-> "0.1", typedData |-> typedData, claims |-> p.claims,
                  claimsDigest |-> digest, envelope |-> envelope ]
        BY <2>1 DEF Determined
      <4> HIDE DEF p, typedData, digest, envelope
      <4>2. p.typedData = typedData
        BY <4>1
      <4>3. QED
        BY <4>2 DEF p, typedData
    <3>2. QED
      BY <3>1 DEF BuildPaymentAuthorizationTypedData, MessageFor
  <2>3. ASSUME NEW w \in proven, w.proof.claims = v.proof.claims
        PROVE  w.proof = v.proof
    <3> DEFINE a == v.proof.envelope.signature
               b == w.proof.envelope.signature
    <3>1. /\ SignatureShaped(a) /\ SignatureShaped(b)
          /\ SignatureIsCanonical(a) /\ SignatureIsCanonical(b)
      BY <2>1 DEF Determined
    <3> HIDE DEF a, b
    <3>2. PICK m \in signed :
            /\ m.account = v.proof.claims.payer.account
            /\ m.hash = SigningHash(BuildPaymentAuthorizationTypedData(v.proof.claims))
            /\ m.signature \in {a, Mirrored(a)}
      BY <2>1 DEF SignedByPayer, a
    <3>3. PICK n \in signed :
            /\ n.account = v.proof.claims.payer.account
            /\ n.hash = SigningHash(BuildPaymentAuthorizationTypedData(v.proof.claims))
            /\ n.signature \in {b, Mirrored(b)}
      BY <2>1, <2>3 DEF SignedByPayer, b
    <3>4. /\ Signed(m) /\ Signed(n) /\ m.signature \in {n.signature, Mirrored(n.signature)}
      BY <3>2, <3>3 DEF WalletInv, Signed, SignedOnce
    <3>5. a = b
      BY <3>1, <3>2, <3>3, <3>4, OneIsLow DEF SignatureIsCanonical, Signed
    <3>6. QED
      BY <2>1, <2>3, <3>5 DEF Determined, a, b
  <2>4. QED
    BY <2>1, <2>2, <2>3 DEF SignedByPayer, InTime
<1>2. QED
  BY <1>1, WalletInvHolds, PTL

\* What a receipt puts together passes every stage that does not ask the clock
\* or the wallet.
LEMMA BuiltPasses ==
  ASSUME NEW input \in ClaimInputs, NEW r, BuiltFrom(r, input), NEW p,
         p = [ wire |-> "0.1", typedData |-> r.typedData, claims |-> r.claims,
               claimsDigest |-> r.claimsDigest, envelope |-> r.envelope ]
  PROVE  /\ EnvelopeStage(p) = "PASS" /\ MessageStage(p) = "PASS" /\ DigestStage(p) = "PASS"
         /\ r.typedData = BuildPaymentAuthorizationTypedData(input)
         /\ r.claims.issuedAt = input.issuedAt /\ r.claims.expiresAt = input.expiresAt
         /\ r.claims.payer = input.payer
         /\ SignatureIsCanonical(r.envelope.signature)
<1> DEFINE typedData == BuildPaymentAuthorizationTypedData(input)
           digest == AuthorizationDigest(typedData)
           claims == WithDigest(input, digest)
           claimsDigest == ClaimsDigest(claims)
           signature == r.envelope.signature
           message == MessageFor(input)
<1>1. /\ ValidateWalletProofClaims(input) /\ SignatureIsCanonical(signature)
      /\ r = [ envelope |-> [ scheme |-> "EIP712", issuer |-> input.issuer,
                              keyId |-> input.keyId, signedObjectDigest |-> digest,
                              signature |-> signature ],
               claims |-> claims, claimsDigest |-> claimsDigest, typedData |-> typedData ]
  BY DEF BuiltFrom
<1>2. /\ claims.asset = input.asset /\ claims.payer = input.payer
      /\ claims.payee = input.payee /\ claims.amount = input.amount
      /\ claims.fingerprint = input.fingerprint /\ claims.buyer = input.buyer
      /\ claims.issuer = input.issuer /\ claims.keyId = input.keyId
      /\ claims.issuedAt = input.issuedAt /\ claims.expiresAt = input.expiresAt
      /\ claims.paymentAuthorizationDigest = digest
  BY DEF WithDigest
<1>3. /\ typedData.domain = BaseUsdc /\ typedData.primaryType = Transfer
      /\ typedData.message = message
  BY DEF BuildPaymentAuthorizationTypedData
<1>4. /\ message.from = Lower(input.payer) /\ message.to = Lower(input.payee)
      /\ message.value = input.amount /\ message.validAfter = 0
      /\ message.validBefore = input.expiresAt
  BY DEF MessageFor
<1>5. MessageFor(claims) = message
  BY <1>2 DEF MessageFor
<1> HIDE DEF typedData, digest, claims, claimsDigest, signature, message
<1>6. /\ r.typedData = typedData /\ r.claims = claims /\ r.claimsDigest = claimsDigest
      /\ r.envelope.scheme = "EIP712" /\ r.envelope.issuer = input.issuer
      /\ r.envelope.keyId = input.keyId /\ r.envelope.signedObjectDigest = digest
  BY <1>1
<1>7. /\ p.wire = "0.1" /\ p.typedData = typedData /\ p.claims = claims
      /\ p.claimsDigest = claimsDigest /\ p.envelope = r.envelope
  BY <1>6
<1>8. /\ input.issuer = input.buyer /\ input.amount > 0
      /\ input.issuedAt \in Nat /\ input.expiresAt \in Nat /\ input.issuedAt < input.expiresAt
      /\ input.payer.account # ZeroAccount /\ input.payee.account # ZeroAccount
  BY <1>1, TimeAssumption DEF ValidateWalletProofClaims, WellFormedClaims
<1>9. EnvelopeStage(p) = "PASS"
  <2>1. ValidateWalletProofClaims(claims)
    BY <1>1, <1>2 DEF ValidateWalletProofClaims, WellFormedClaims
  <2>2. QED
    BY <1>2, <1>6, <1>7, <1>8, <2>1 DEF EnvelopeStage, ValidateWalletProofClaims
<1>10. MessageStage(p) = "PASS"
  <2>1. input.payer \in Parties /\ input.payee \in Parties
    BY DEF Parties
  <2>2. /\ message.from.account = input.payer.account
        /\ message.to.account = input.payee.account
        /\ message.from = Lower(message.from) /\ message.to = Lower(message.to)
    BY <1>4, <2>1, LowerParts
  <2>3. message.validBefore > 0
    BY <1>4, <1>8
  <2>4. CanonicalMessage(message)
    BY <1>4, <1>8, <2>2, <2>3 DEF CanonicalMessage
  <2>5. QED
    BY <1>2, <1>3, <1>5, <1>7, <2>2, <2>4 DEF MessageStage
<1>11. DigestStage(p) = "PASS"
  BY <1>2, <1>6, <1>7 DEF DigestStage, digest, claimsDigest
<1>12. QED
  BY <1>1, <1>2, <1>6, <1>9, <1>10, <1>11 DEF typedData, signature

\* The wallet is recovered from its own signature, or from the mirror of it.
LEMMA SignerIsRecovered ==
  ASSUME WalletInv, NEW act \in signed
  PROVE  Recover(act.hash, act.signature) = act.account
<1> DEFINE who == {a \in signed : a.hash = act.hash
                                    /\ a.signature \in {act.signature, Mirrored(act.signature)}}
           chosen == CHOOSE a \in who : TRUE
<1>1. act \in who
  OBVIOUS
<1>2. chosen \in who
  BY <1>1
<1>3. Recover(act.hash, act.signature) = chosen.account
  BY <1>1 DEF Recover
<1> HIDE DEF chosen
<1>4. Signed(chosen) /\ Signed(act)
  BY <1>2 DEF WalletInv
<1>5. chosen.signature.r = act.signature.r
  BY <1>2, <1>4, MirroredParts DEF Signed
<1>6. QED
  BY <1>3, <1>4, <1>5 DEF Signed

\* Every receipt the package builds over the payer's signature is accepted for
\* as long as its claims stand.
THEOREM BuiltIsProvenHolds == WalletSpec => []BuiltIsProven
<1>1. WalletInv => BuiltIsProven
  <2> SUFFICES ASSUME WalletInv, NEW r \in receipts, NEW act \in signed,
                      act.account = r.claims.payer.account,
                      act.hash = SigningHash(r.typedData),
                      act.signature = r.envelope.signature,
                      Instant(r.claims.issuedAt) <= now, now < Instant(r.claims.expiresAt)
               PROVE  WalletVerdict([ wire |-> "0.1", typedData |-> r.typedData,
                                      claims |-> r.claims, claimsDigest |-> r.claimsDigest,
                                      envelope |-> r.envelope ],
                                    LiveObservation(now)) = "VERIFIED"
    BY DEF BuiltIsProven
  <2> DEFINE p == [ wire |-> "0.1", typedData |-> r.typedData, claims |-> r.claims,
                    claimsDigest |-> r.claimsDigest, envelope |-> r.envelope ]
             observed == LiveObservation(now)
  <2>1. PICK input \in ClaimInputs : BuiltFrom(r, input)
    BY DEF WalletInv
  <2>2. /\ p.claims = r.claims /\ p.typedData = r.typedData /\ p.envelope = r.envelope
    OBVIOUS
  <2> HIDE DEF p
  <2>3. /\ EnvelopeStage(p) = "PASS" /\ MessageStage(p) = "PASS" /\ DigestStage(p) = "PASS"
        /\ r.claims.issuedAt = input.issuedAt /\ r.claims.expiresAt = input.expiresAt
        /\ SignatureIsCanonical(r.envelope.signature)
    BY <2>1, BuiltPasses DEF p
  <2>4. TimeStage(p, observed) = "PASS"
    <3>1. input.issuedAt \in Nat /\ input.expiresAt \in Nat
      BY <2>1, TimeAssumption DEF BuiltFrom, ValidateWalletProofClaims, WellFormedClaims
    <3>2. /\ now \in Nat /\ observed \in Nat /\ observed <= now
          /\ Instant(input.issuedAt) \in Nat /\ Instant(input.expiresAt) \in Nat
          /\ Instant(input.issuedAt) <= observed
      BY <2>3, <3>1, ObservationIsClose, InstantsAreSeconds, SecondsAreObserved DEF WalletInv
    <3> HIDE DEF observed
    <3>3. ~(observed < Instant(input.issuedAt)) /\ ~(observed >= Instant(input.expiresAt))
      BY <2>3, <3>2
    <3>4. QED
      BY <2>2, <2>3, <3>3 DEF TimeStage
  <2>5. WalletSignatureStage(p) = "PASS"
    <3>1. Recover(SigningHash(p.typedData), p.envelope.signature) = p.claims.payer.account
      BY <2>2, SignerIsRecovered
    <3>2. /\ p.envelope.signature.s \in 1..(CurveOrder - 1)
          /\ p.envelope.signature.v \in {27, 28} /\ ~(p.envelope.signature.s > HalfOrder)
      BY <2>2, <2>3, CurveAssumption DEF SignatureIsCanonical, CurveOrder
    <3>3. p.envelope.signature.r # NoPoint
      <4>1. Signed(act)
        BY DEF WalletInv
      <4>2. p.envelope.signature.r = <<act.account, act.hash>>
        BY <2>2, <4>1 DEF Signed
      <4>3. QED
        BY <4>2 DEF NoPoint
    <3>4. QED
      BY <3>1, <3>2, <3>3 DEF WalletSignatureStage
  <2>6. QED
    BY <2>3, <2>4, <2>5, WalletVerdictStages DEF p
<1>2. QED
  BY <1>1, WalletInvHolds, PTL
=============================================================================
