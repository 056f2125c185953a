-------------------------- MODULE MCTrustSnapshot --------------------------
(***************************************************************************)
(* Two consumers, one with a cache bound of its own, and what a publisher  *)
(* and the network may bring them within six instants: three versions on   *)
(* branches that fork at the first and at the second, a version that names *)
(* its grandparent, a later one that must not be kept at all, and the same *)
(* statements altered, foreign, ill-timed or with dead or unknown keys.    *)
(***************************************************************************)
EXTENDS TrustSnapshot, TLC

CONSTANTS c1, c2

MCKeyNames == {"root", "other", "listing", "challenge"}

Key(name, notBefore, notAfter, revokedAt) ==
  [ name |-> name, notBefore |-> notBefore, notAfter |-> notAfter,
    revokedAt |-> revokedAt ]

MCAnchor == Key("root", 0, Null, 5)

MCBound == (c1 :> Null) @@ (c2 :> 1)

MCPinned == {[version |-> 1, digest |-> "1a"]}

Statement(digest, version, previous, generatedAt) ==
  [ digest |-> digest, shape |-> "PASS", version |-> version,
    previous |-> previous, generatedAt |-> generatedAt,
    expiresAt |-> generatedAt + 4, maxAge |-> 2,
    keys |-> << Key("listing", 0, Null, Null), Key("challenge", 0, 4, 3) >>,
    signers |-> << [role |-> "LISTING", name |-> "listing"] >>,
    signedBy |-> "root", signature |-> "VALID" ]

Branches ==
  { Statement("1a", 1, Null, 0), Statement("1b", 1, Null, 0),
    Statement("2a", 2, "1a", 1), Statement("2b", 2, "1b", 1),
    Statement("2c", 2, "1a", 1), Statement("3a", 3, "2a", 2),
    Statement("3x", 3, "1a", 2),
    [Statement("3z", 3, "2c", 3) EXCEPT !.maxAge = 0] }

Altered ==
  { [Statement("2f", 2, "1a", 1) EXCEPT !.signature = "INVALID"],
    [Statement("2f", 2, "1a", 1) EXCEPT !.signature = "MALFORMED"],
    [Statement("2f", 2, "1a", 1) EXCEPT !.signedBy = "other"],
    [Statement("2f", 2, "1a", 1) EXCEPT !.shape = "NON_CANONICAL"] }

Signers(role, name) == [role |-> role, name |-> name]

IllKeyed ==
  { [Statement("2h", 2, "1a", 1) EXCEPT !.keys = <<>>],
    [Statement("2i", 2, "1a", 1) EXCEPT
       !.keys = << Key("listing", 2, 2, Null) >>],
    [Statement("2j", 2, "1a", 1) EXCEPT
       !.keys = << Key("listing", 0, Null, Null), Key("listing", 0, 4, 2) >>],
    [Statement("2k", 2, "1a", 1) EXCEPT
       !.signers = << Signers("LISTING", "other") >>],
    [Statement("2l", 2, "1a", 1) EXCEPT
       !.signers = << Signers("LISTING", "listing"),
                      Signers("CHALLENGE", "challenge") >>],
    [Statement("2m", 2, "1a", 1) EXCEPT
       !.signers = << Signers("LISTING", "challenge"),
                      Signers("CHALLENGE", "other") >>] }

MCSnapshots == Branches \cup Altered \cup IllKeyed

MCDigests == {s.digest : s \in MCSnapshots}
=============================================================================
