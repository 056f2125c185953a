----------------------------- MODULE MCVerifier -----------------------------
(***************************************************************************)
(* A small instance of the two proofs the Rust verifier judges: detached   *)
(* signatures of statements and wallet authorizations.  They share nothing *)
(* but the clock, so a behaviour is either about one or about the other.   *)
(***************************************************************************)
EXTENDS DetachedProof, WalletProof

CONSTANTS P1, P2, E1     \* two P-256 keys and an Ed25519 key

allVars == <<now, keyVars, jwsVars, walletVars>>

---------------------------------------------------------------------------
(* Keys.  A second is two ticks; windows end and begin at half seconds.    *)

MCAlgorithm == [k \in {P1, P2, E1} |-> IF k = E1 THEN "EdDSA" ELSE "ES256"]

Jwk(key, kid) ==
  [private |-> FALSE, use |-> "sig", keyOps |-> Null, alg |-> Null, key |-> key, kid |-> kid]

Metadata(issuer, kid, role, key, notBefore, notAfter, revokedAt) ==
  [ issuer |-> issuer, kid |-> kid, role |-> role, algorithm |-> MCAlgorithm[key],
    notBefore |-> notBefore, notAfter |-> notAfter, revokedAt |-> revokedAt,
    jwk |-> Jwk(key, Null) ]

Old       == Metadata("shop", "k1", "ISSUER", P1, 0, 3, Null)
Rotated   == Metadata("shop", "k2", "ISSUER", P2, 3, Null, Null)
Revoked   == Metadata("shop", "k1", "ISSUER", P1, 1, Null, 3)
Custodian == Metadata("shop", "k2", "CUSTODY", E1, 0, Null, 4)
Aliased   == Metadata("shop", "k1", "CUSTODY", P1, 0, Null, Null)
Renamed   == Metadata("shop", "k2", "CUSTODY", P1, 0, Null, Null)
Foreign   == Metadata("bank", "k1", "ISSUER", P2, 0, Null, Null)

MCKeyLists ==
  { <<Old, Rotated>>, <<Revoked, Custodian, Foreign>>, <<Old, Aliased>>, <<Old, Renamed>>,
    <<[Old EXCEPT !.notAfter = 0]>>, <<[Old EXCEPT !.jwk.private = TRUE], Rotated>>,
    <<[Old EXCEPT !.algorithm = "EdDSA"]>>, <<[Old EXCEPT !.jwk.kid = "k2"]>>,
    <<[Custodian EXCEPT !.issuer = Malformed]>> }

Window(metadata) ==
  [ kid |-> metadata.kid, role |-> metadata.role, algorithm |-> metadata.algorithm,
    notBefore |-> metadata.notBefore, notAfter |-> metadata.notAfter,
    revokedAt |-> metadata.revokedAt ]

MCImports ==
  {[issuer |-> i, jwks |-> jwks, windows |-> windows] :
     i \in {"shop", Malformed},
     jwks \in {<<Jwk(P1, "k1"), Jwk(E1, "k2")>>, <<Jwk(P1, "k1"), Jwk(E1, "k1")>>,
               <<Jwk(P1, "k1"), Jwk(E1, Null)>>},
     windows \in {<<Window(Revoked), Window(Custodian)>>, <<Window(Revoked), Window(Revoked)>>,
                  <<[Window(Old) EXCEPT !.kid = "k3"]>>}}

---------------------------------------------------------------------------
(* Statements; the last two only differ in where a NUL would stand.        *)

Preimage(body, issuedAt, validFrom) == [body |-> body, issuedAt |-> issuedAt, validFrom |-> validFrom]
Statement(wire, profile, preimage) == [wire |-> wire, profile |-> profile, preimage |-> preimage]

Receipt == Statement(<<"0.1">>, <<"RECEIPT">>, Preimage("b", 0, 1))
Mandate == Statement(<<"0.1">>, <<"MANDATE">>, Preimage("b", 0, 1))
Undated == Statement(<<"0.1">>, <<"MANDATE">>, Preimage("c", 1, Null))
Split   == Statement(<<"0.1", NUL, "X">>, <<"RECEIPT">>, Preimage("b", 0, 1))
Joined  == Statement(<<"0.1">>, <<"X", NUL, "RECEIPT">>, Preimage("b", 0, 1))

Request(audience, issuer, keyId, key, statement) ==
  [ audience |-> audience, issuer |-> issuer, keyId |-> keyId, algorithm |-> MCAlgorithm[key],
    key |-> key, statement |-> statement ]

MCRequests ==
  { Request("buyer", "shop", "k1", P1, Receipt), Request("buyer", "shop", "k2", P2, Receipt),
    Request("seller", "shop", "k2", E1, Mandate), Request("buyer", "shop", "k1", P2, Undated),
    Request("buyer", "shop", "k1", P1, Split) }

Context(audience, role, statement, field) ==
  [audience |-> audience, requiredRole |-> role, statement |-> statement, lifecycleField |-> field]

MCContexts ==
  {Context(audience, role, statement, "issuedAt") :
     audience \in {"buyer", "seller"}, role \in {"ISSUER", "CUSTODY"},
     statement \in {Receipt, Mandate}} \cup
  {Context("buyer", "ISSUER", statement, "validFrom") :
     statement \in {Receipt, Undated, Split, Joined}}

MCOtherNames == {"bank", "k1", "k2", "seller"}

---------------------------------------------------------------------------
(* Claims. *)

Address(account, spelling) == [account |-> account, spelling |-> spelling]

Plain ==
  [ asset |-> "BaseUsdc", payer |-> Address("alice", "lower"), payee |-> Address("carol", "lower"),
    amount |-> 1, fingerprint |-> "intent1", issuedAt |-> 0, expiresAt |-> 2, buyer |-> "buyer:a",
    issuer |-> "buyer:a", keyId |-> "wallet:a", terms |-> "hosted" ]

MCClaimInputs ==
  { Plain, [Plain EXCEPT !.payer.spelling = "mixed", !.payee.spelling = "mixed"],
    [Plain EXCEPT !.payee.account = "bob"], [Plain EXCEPT !.terms = "direct"],
    [Plain EXCEPT !.payer.account = "bob", !.issuedAt = 1], [Plain EXCEPT !.expiresAt = 0],
    [Plain EXCEPT !.buyer = "buyer:b"] }

---------------------------------------------------------------------------
MCInit == now = 0 /\ KeysInit /\ JwsInit /\ WalletInit

MCNext ==
  \/ Tick /\ UNCHANGED <<keyVars, jwsVars, walletVars>>
  \/ KeysNext /\ UNCHANGED <<now, jwsVars, walletVars>>
  \/ JwsNext /\ UNCHANGED <<now, keyVars, walletVars>>
  \/ WalletNext /\ UNCHANGED <<now, keyVars, jwsVars>>

MCSpec == MCInit /\ [][MCNext]_allVars

\* Either kind of proof by itself; a registry is there before it is used.
Separate ==
  /\ loading # "none" => walletVars = <<{}, {}, {}>>
  /\ loading # "ready" => jwsVars = <<{}, {}>> /\ (now = 0 \/ loading = "none")
  /\ loading = "none" /\ now > 0 => signed # {}
=============================================================================
