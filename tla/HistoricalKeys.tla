--------------------------- MODULE HistoricalKeys ---------------------------
(***************************************************************************)
(* The registry of a verifier: which public key an issuer's key id stood   *)
(* for, in which role and from when until when.  It is built once, one     *)
(* entry after the other, from trusted metadata with a JWK each or from    *)
(* one JWKS document and trusted windows; the first entry that does not    *)
(* stand refuses the whole registry.                                       *)
(*                                                                         *)
(* A name is an identifier or Malformed; a public key is its own           *)
(* fingerprint; Null is an absent member or an absent end.                 *)
(***************************************************************************)
EXTENDS Naturals, Sequences

CONSTANTS
  PublicKeys,
  Algorithm,     \* "ES256" or "EdDSA", of every public key
  KeyLists,      \* what `new` may be given
  Imports,       \* what `from_jwks` may be given
  Malformed, Null

Algorithms == {"ES256", "EdDSA"}

ASSUME KeyAssumption ==
  Algorithm \in [PublicKeys -> Algorithms] /\ Null \notin PublicKeys
ASSUME EndAssumption == Null \notin Nat

VARIABLES
  loading,       \* "none", "loading", "ready" or "refused"
  waiting,       \* the metadata still to be registered
  registry       \* the registered keys

keyVars == <<loading, waiting, registry>>

---------------------------------------------------------------------------
(* One entry. *)

\* The key a JWK holds for an algorithm, Null unless it may only verify.
ParsePublicJwk(algorithm, jwk) ==
  IF /\ ~jwk.private
     /\ jwk.use = "sig"
     /\ jwk.keyOps \in {Null, <<"verify">>}
     /\ jwk.alg \in {Null, algorithm}
     /\ jwk.key \in PublicKeys
     /\ Algorithm[jwk.key] = algorithm
  THEN jwk.key
  ELSE Null

WindowStands(metadata) ==
  metadata.notAfter # Null => metadata.notAfter > metadata.notBefore

ValidateKeyMetadata_AliasInOtherRole(metadata, key) ==
  /\ Malformed \notin {metadata.issuer, metadata.kid}
  /\ metadata.jwk.kid \in {Null, metadata.kid}
  /\ WindowStands(metadata)
  /\ \A other \in registry : \/ <<other.issuer, other.kid>> # <<metadata.issuer, metadata.kid>>
                             \/ other.role # metadata.role
  /\ \A other \in registry : other.key = key => other.role # metadata.role

\* Names are unique over all roles, and so are keys over all names.
ValidateKeyMetadata(metadata, key) ==
  /\ Malformed \notin {metadata.issuer, metadata.kid}
  /\ metadata.jwk.kid \in {Null, metadata.kid}
  /\ WindowStands(metadata)
  /\ \A other \in registry : <<other.issuer, other.kid>> # <<metadata.issuer, metadata.kid>>
  /\ \A other \in registry : other.key # key

Registered(metadata, key) ==
  [ issuer |-> metadata.issuer, kid |-> metadata.kid, role |-> metadata.role,
    algorithm |-> metadata.algorithm, notBefore |-> metadata.notBefore,
    notAfter |-> metadata.notAfter, revokedAt |-> metadata.revokedAt, key |-> key ]

---------------------------------------------------------------------------
(* Building the registry. *)

KeysInit == loading = "none" /\ waiting = <<>> /\ registry = {}

New(keys) ==
  /\ loading = "none"
  /\ loading' = "loading"
  /\ waiting' = keys
  /\ UNCHANGED registry

(***************************************************************************)
(* The JWKS document only contributes keys.  Issuer, role and window come  *)
(* from the trusted windows, each of which selects the one entry of its    *)
(* kid; entries nobody selects are ignored.                                *)
(***************************************************************************)
KidsAreUsable(jwks) ==
  /\ \A i \in DOMAIN jwks : jwks[i].kid # Null
  /\ \A i, j \in DOMAIN jwks : jwks[i].kid = jwks[j].kid => i = j

Selected(jwks, window) == CHOOSE i \in DOMAIN jwks : jwks[i].kid = window.kid

Combined(issuer, jwks, window) ==
  [ issuer |-> issuer, kid |-> window.kid, role |-> window.role,
    algorithm |-> window.algorithm, notBefore |-> window.notBefore,
    notAfter |-> window.notAfter, revokedAt |-> window.revokedAt,
    jwk |-> jwks[Selected(jwks, window)] ]

ImportStands(issuer, jwks, windows) ==
  /\ issuer # Malformed
  /\ KidsAreUsable(jwks)
  /\ \A w \in DOMAIN windows : \E i \in DOMAIN jwks : jwks[i].kid = windows[w].kid

FromJwks(issuer, jwks, windows) ==
  /\ ImportStands(issuer, jwks, windows)
  /\ New([w \in DOMAIN windows |-> Combined(issuer, jwks, windows[w])])

RefuseJwks(issuer, jwks, windows) ==
  /\ loading = "none"
  /\ ~ImportStands(issuer, jwks, windows)
  /\ loading' = "refused"
  /\ UNCHANGED <<waiting, registry>>

EntryStands(metadata) ==
  LET key == ParsePublicJwk(metadata.algorithm, metadata.jwk)
  IN  key # Null /\ ValidateKeyMetadata(metadata, key)

Register ==
  /\ loading = "loading"
  /\ waiting # <<>>
  /\ LET metadata == Head(waiting) IN
       /\ EntryStands(metadata)
       /\ registry' = registry \cup {Registered(metadata, metadata.jwk.key)}
  /\ waiting' = Tail(waiting)
  /\ UNCHANGED loading

RefuseEntry ==
  /\ loading = "loading"
  /\ waiting # <<>>
  /\ ~EntryStands(Head(waiting))
  /\ loading' = "refused"
  /\ waiting' = <<>>
  /\ registry' = {}

Ready ==
  /\ loading = "loading"
  /\ waiting = <<>>
  /\ loading' = "ready"
  /\ UNCHANGED <<waiting, registry>>

\* Everything that may come up for registration.
Listed      == UNION {{keys[i] : i \in DOMAIN keys} : keys \in KeyLists}
MadeFrom(i) == {Combined(i.issuer, i.jwks, i.windows[w]) : w \in DOMAIN i.windows}
Standing    == {i \in Imports : ImportStands(i.issuer, i.jwks, i.windows)}
Candidates  == Listed \cup UNION {MadeFrom(i) : i \in Standing}

ASSUME CandidateAssumption ==
  /\ KeyLists \subseteq Seq(Candidates)
  /\ \A i \in Imports : i.windows \in Seq({i.windows[w] : w \in DOMAIN i.windows})
  /\ \A m \in Candidates : m.notBefore \in Nat /\ {m.notAfter, m.revokedAt} \subseteq Nat \cup {Null}

KeysNext ==
  \/ \E keys \in KeyLists : New(keys)
  \/ \E i \in Imports : \/ FromJwks(i.issuer, i.jwks, i.windows)
                        \/ RefuseJwks(i.issuer, i.jwks, i.windows)
  \/ Register
  \/ RefuseEntry
  \/ Ready

\* Nobody registered is named twice, and no key has two names.
RegistryIsUnambiguous ==
  \A j, k \in registry :
    (<<j.issuer, j.kid>> = <<k.issuer, k.kid>> \/ j.key = k.key) => j = k
=============================================================================
