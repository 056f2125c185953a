--------------------------- MODULE TrustSnapshot ---------------------------
(***************************************************************************)
(* Consumers of the trust snapshots.  A snapshot is a versioned, dated and *)
(* signed statement of which keys may sign listings and challenges; each   *)
(* names the digest of its predecessor.  A consumer judges whatever the    *)
(* network brings it: snapshots late, twice, out of order, of a fork, or   *)
(* signed by nobody it trusts.  It keeps the coordinate (version, digest)  *)
(* of the last snapshot it accepted and hands it to the next judgement.    *)
(*                                                                         *)
(* A digest is the name of a preimage.  The checks on the shape of a body  *)
(* are abstracted to the code of the first one that fails.                 *)
(***************************************************************************)
EXTENDS Naturals, Sequences

CONSTANTS
  Consumers,
  Snapshots,     \* everything the network may bring
  Digests,       \* names of preimages
  KeyNames,      \* issuer and key id of a verification key
  Anchor,        \* the trust root all consumers have pinned
  Bound,         \* a consumer's own cache bound, or Null for the signed one
  Pinned,        \* coordinates a consumer may know out of band
  Null,
  LastInstant    \* bound on the clock

VARIABLES
  clock,         \* the time consumers observe
  coordinate,    \* the last coordinate accepted by a consumer, or Null
  accepted       \* every coordinate a consumer went through

vars == <<clock, coordinate, accepted>>

---------------------------------------------------------------------------
(***************************************************************************)
(* Data.                                                                   *)
(***************************************************************************)
ShapeFaults ==
  { "EMPTY_SNAPSHOT", "INVALID_JSON", "NON_CANONICAL", "SCHEMA_INVALID",
    "AUTHORITY_FORBIDDEN", "SOURCE_MISMATCH", "CATALOG_ROOT_INVALID",
    "LISTING_EMPTY", "LISTING_INVALID" }

KeyType ==
  [ name : KeyNames, notBefore : Nat, notAfter : Nat \cup {Null},
    revokedAt : Nat \cup {Null} ]

Coordinates == [version : Nat \ {0}, digest : Digests]

SnapshotType ==
  [ digest      : Digests,              \* of the preimage, signature excluded
    shape       : ShapeFaults \cup {"PASS"},
    version     : Nat \ {0},
    previous    : Digests \cup {Null},
    generatedAt : Nat,
    expiresAt   : Nat,
    maxAge      : Nat,
    keys        : Seq(KeyType),
    signers     : Seq([role : {"LISTING", "CHALLENGE"}, name : KeyNames]),
    signedBy    : KeyNames,
    signature   : {"VALID", "INVALID", "MALFORMED"} ]

ASSUME NullAssumption     == Null \notin Nat \cup Digests \cup Coordinates
ASSUME AnchorAssumption   == Anchor \in KeyType
ASSUME BoundAssumption    == Bound \in [Consumers -> Nat \cup {Null}]
ASSUME PinnedAssumption   == Pinned \subseteq Coordinates
ASSUME SnapshotAssumption == Snapshots \subseteq SnapshotType
ASSUME ClockAssumption    == LastInstant \in Nat

\* The digest function does not collide.
ASSUME DigestAssumption ==
  \A s, t \in Snapshots :
    s.digest = t.digest => s.version = t.version /\ s.previous = t.previous

---------------------------------------------------------------------------
(***************************************************************************)
(* Key lifecycles.  A window is half open, and an end of Null is no end.   *)
(***************************************************************************)
ValidLifecycle(key) ==
  /\ key.notAfter # Null => key.notAfter > key.notBefore
  /\ key.revokedAt # Null
       => /\ key.revokedAt >= key.notBefore
          /\ key.notAfter # Null => key.revokedAt <= key.notAfter

Active(key) ==
  /\ clock >= key.notBefore
  /\ key.notAfter # Null => clock < key.notAfter
  /\ key.revokedAt # Null => clock < key.revokedAt

Known(s)       == {s.keys[i].name : i \in DOMAIN s.keys}
ActiveNames(s) == {s.keys[i].name : i \in {j \in DOMAIN s.keys : Active(s.keys[j])}}

---------------------------------------------------------------------------
(***************************************************************************)
(* The stages of a judgement.  Each answers "PASS" or the code the         *)
(* snapshot is refused with.                                               *)
(***************************************************************************)
FreshnessBound(c, s) == IF Bound[c] = Null THEN s.maxAge ELSE Bound[c]

FreshnessStage_CallerMayWiden(c, s) ==
  IF s.generatedAt > clock THEN "FUTURE_SNAPSHOT"
  ELSE IF s.expiresAt <= s.generatedAt \/ clock >= s.expiresAt THEN "EXPIRED"
  ELSE IF clock - s.generatedAt > FreshnessBound(c, s) THEN "STALE"
  ELSE "PASS"

FreshnessStage(c, s) ==
  IF s.generatedAt > clock THEN "FUTURE_SNAPSHOT"
  ELSE IF s.expiresAt <= s.generatedAt \/ clock >= s.expiresAt THEN "EXPIRED"
  ELSE IF FreshnessBound(c, s) > s.maxAge THEN "SCHEMA_INVALID"
  ELSE IF clock - s.generatedAt > FreshnessBound(c, s) THEN "STALE"
  ELSE "PASS"

RootStage(s) ==
  IF ~ValidLifecycle(Anchor) THEN "TRUST_ANCHOR_INVALID"
  ELSE IF s.signature = "MALFORMED" THEN "SIGNATURE_INVALID"
  ELSE IF s.signedBy # Anchor.name THEN "UNKNOWN_KID"
  ELSE IF ~Active(Anchor) THEN "ROOT_KEY_INACTIVE"
  ELSE IF s.signature = "INVALID" THEN "SIGNATURE_INVALID"
  ELSE "PASS"

ChainStage_NoRollback(last, s) ==
  IF last = Null \/ s.version < last.version THEN "PASS"
  ELSE IF s.version = last.version
       THEN IF s.digest = last.digest THEN "PASS" ELSE "VERSION_FORK"
  ELSE IF s.version # last.version + 1 THEN "VERSION_GAP"
  ELSE IF s.previous # last.digest THEN "CHAIN_MISMATCH"
  ELSE "PASS"

ChainStage_NoFork(last, s) ==
  IF last = Null THEN "PASS"
  ELSE IF s.version < last.version THEN "ROLLBACK"
  ELSE IF s.version = last.version THEN "PASS"
  ELSE IF s.version # last.version + 1 THEN "VERSION_GAP"
  ELSE IF s.previous # last.digest THEN "CHAIN_MISMATCH"
  ELSE "PASS"

ChainStage_NoGap(last, s) ==
  IF last = Null THEN "PASS"
  ELSE IF s.version < last.version THEN "ROLLBACK"
  ELSE IF s.version = last.version
       THEN IF s.digest = last.digest THEN "PASS" ELSE "VERSION_FORK"
  ELSE IF s.previous # last.digest THEN "CHAIN_MISMATCH"
  ELSE "PASS"

ChainStage_VersionOnly(last, s) ==
  IF last = Null THEN "PASS"
  ELSE IF s.version < last.version THEN "ROLLBACK"
  ELSE IF s.version = last.version
       THEN IF s.digest = last.digest THEN "PASS" ELSE "VERSION_FORK"
  ELSE IF s.version # last.version + 1 THEN "VERSION_GAP"
  ELSE "PASS"

\* Without a previous coordinate there is nothing to link to.
ChainStage(last, s) ==
  IF last = Null THEN "PASS"
  ELSE IF s.version < last.version THEN "ROLLBACK"
  ELSE IF s.version = last.version
       THEN IF s.digest = last.digest THEN "PASS" ELSE "VERSION_FORK"
  ELSE IF s.version # last.version + 1 THEN "VERSION_GAP"
  ELSE IF s.previous # last.digest THEN "CHAIN_MISMATCH"
  ELSE "PASS"

KeysStage_NamesMayRepeat(s) ==
  IF s.keys = <<>> THEN "EMPTY_KEYS"
  ELSE IF \E i \in DOMAIN s.keys : ~ValidLifecycle(s.keys[i])
       THEN "KEY_INVALID"
  ELSE IF ActiveNames(s) = {} THEN "EMPTY_KEYS"
  ELSE "PASS"

KeysStage(s) ==
  IF s.keys = <<>> THEN "EMPTY_KEYS"
  ELSE IF \/ \E i \in DOMAIN s.keys : ~ValidLifecycle(s.keys[i])
          \/ \E i, j \in DOMAIN s.keys :
               i # j /\ s.keys[i].name = s.keys[j].name
       THEN "KEY_INVALID"
  ELSE IF ActiveNames(s) = {} THEN "EMPTY_KEYS"
  ELSE "PASS"

\* Signers are looked up in order, and the first bad one names the code.
SignersStage(s) ==
  LET bad == {i \in DOMAIN s.signers : s.signers[i].name \notin ActiveNames(s)}
      who == s.signers[CHOOSE i \in bad : \A j \in bad : i <= j]
  IN  IF bad = {} THEN "PASS"
      ELSE IF who.role = "LISTING"
           THEN IF who.name \in Known(s) THEN "LISTING_KEY_INACTIVE"
                                         ELSE "LISTING_KEY_UNKNOWN"
           ELSE IF who.name \in Known(s) THEN "CHALLENGE_KEY_INACTIVE"
                                         ELSE "CHALLENGE_KEY_UNKNOWN"

Stages_ChainBeforeRoot(c, s) ==
  << s.shape, FreshnessStage(c, s), ChainStage(coordinate[c], s),
     RootStage(s), KeysStage(s), SignersStage(s) >>

Stages(c, s) ==
  << s.shape, FreshnessStage(c, s), RootStage(s),
     ChainStage(coordinate[c], s), KeysStage(s), SignersStage(s) >>

Verdict(c, s) ==
  LET stages == Stages(c, s)
      failed == {i \in 1..6 : stages[i] # "PASS"}
  IN  IF failed = {} THEN "ACCEPTED"
      ELSE stages[CHOOSE i \in failed : \A j \in failed : i <= j]

---------------------------------------------------------------------------
(***************************************************************************)
(* Behaviour.                                                              *)
(***************************************************************************)
Init ==
  /\ clock = 0
  /\ coordinate \in [Consumers -> Pinned \cup {Null}]
  /\ accepted = [c \in Consumers |-> {coordinate[c]} \ {Null}]

Tick ==
  /\ clock < LastInstant
  /\ clock' = clock + 1
  /\ UNCHANGED <<coordinate, accepted>>

CoordinateOf(s) == [version |-> s.version, digest |-> s.digest]

(***************************************************************************)
(* The caller stores the coordinate it is given before it judges again.    *)
(* Any other verdict is an exception that leaves everything as it was.     *)
(***************************************************************************)
Accept(c, s) ==
  /\ Verdict(c, s) = "ACCEPTED"
  /\ coordinate' = [coordinate EXCEPT ![c] = CoordinateOf(s)]
  /\ accepted' = [accepted EXCEPT ![c] = @ \cup {CoordinateOf(s)}]
  /\ UNCHANGED clock

Next ==
  \/ Tick
  \/ \E c \in Consumers, s \in Snapshots : Accept(c, s)

Spec == Init /\ [][Next]_vars

---------------------------------------------------------------------------
\* Types, and that the coordinate handed on is one that was gone through.
TypeOK ==
  /\ clock \in 0..LastInstant
  /\ coordinate \in [Consumers -> Coordinates \cup {Null}]
  /\ accepted \in [Consumers -> SUBSET Coordinates]
  /\ \A c \in Consumers :
       IF coordinate[c] = Null THEN accepted[c] = {}
                               ELSE coordinate[c] \in accepted[c]

(***************************************************************************)
(* Exact replay or next: what a consumer went through is one unbroken      *)
(* chain that ends in its coordinate.  It holds one digest per version, and *)
(* each version but the first is a snapshot that names the one before it.  *)
(***************************************************************************)
HistoryIsAChain ==
  \A c \in Consumers : \A x, y \in accepted[c] :
    /\ x.version <= coordinate[c].version
    /\ x.version = y.version => x = y
    /\ x.version < y.version =>
         \E z \in accepted[c], s \in Snapshots :
           /\ y = CoordinateOf(s)
           /\ y.version = z.version + 1
           /\ s.previous = z.digest

(***************************************************************************)
(* Fork consistency.  Two consumers that went through one coordinate agree *)
(* on every earlier version both know.  A publisher that shows two         *)
(* consumers different branches can never bring them together again.       *)
(***************************************************************************)
ForkConsistency ==
  \A c, d \in Consumers : \A x \in accepted[c] \cap accepted[d] :
    \A y \in accepted[c], z \in accepted[d] :
      y.version = z.version /\ y.version <= x.version => y = z

(***************************************************************************)
(* A verdict on the chain is evidence: only what the pinned root signed    *)
(* itself is called a rollback, fork, gap or mismatch, and a fork is one   *)
(* against another statement of that root, or against what was pinned.     *)
(***************************************************************************)
SignedByRoot(s) == s.signedBy = Anchor.name /\ s.signature = "VALID"

AccusationsAreProven ==
  \A c \in Consumers, s \in Snapshots :
    /\ Verdict(c, s) \in {"ROLLBACK", "VERSION_FORK", "VERSION_GAP",
                          "CHAIN_MISMATCH"} => SignedByRoot(s)
    /\ Verdict(c, s) = "VERSION_FORK" =>
         \/ coordinate[c] \in Pinned
         \/ \E t \in Snapshots :
              /\ SignedByRoot(t)
              /\ CoordinateOf(t) = coordinate[c]
              /\ t.version = s.version
              /\ t.digest # s.digest

(***************************************************************************)
(* No dead key vouches: at the instant a snapshot is accepted no key that  *)
(* bears the name of one of its signers has ended or been revoked, and     *)
(* neither has the root, whichever of several windows was looked at.       *)
(***************************************************************************)
Ended(key) ==
  \/ key.notAfter \in 0..clock
  \/ key.revokedAt \in 0..clock

NoDeadKeyVouches ==
  \A c \in Consumers, s \in Snapshots :
    Verdict(c, s) = "ACCEPTED" =>
      /\ ~Ended(Anchor)
      /\ \A i \in DOMAIN s.keys, j \in DOMAIN s.signers :
           s.keys[i].name = s.signers[j].name => ~Ended(s.keys[i])

(***************************************************************************)
(* A caller's own cache bound can only narrow the signed policy: whoever   *)
(* judges by the signed bound from the same coordinate accepts whatever a  *)
(* consumer with a bound of its own accepts.                               *)
(***************************************************************************)
CallerBoundOnlyNarrows ==
  \A c, d \in Consumers :
    coordinate[c] = coordinate[d] /\ Bound[d] = Null
      => \A s \in Snapshots :
           Verdict(c, s) = "ACCEPTED" => Verdict(d, s) = "ACCEPTED"

(***************************************************************************)
(* A consumer never goes back: its version never falls, and while it stays *)
(* so does the digest.                                                     *)
(***************************************************************************)
VersionsNeverGoBack ==
  [][ \A c \in Consumers :
        coordinate[c] # Null =>
          /\ coordinate'[c].version \in coordinate[c].version .. (coordinate[c].version + 1)
          /\ coordinate'[c].version = coordinate[c].version
               => coordinate'[c] = coordinate[c] ]_vars

(***************************************************************************)
(* A refusal for age, rollback, fork or mismatch is final: no later clock, *)
(* coordinate or repetition makes the consumer accept that snapshot.       *)
(***************************************************************************)
FinalRefusals == {"EXPIRED", "STALE", "ROLLBACK", "VERSION_FORK", "CHAIN_MISMATCH"}

RefusalsAreFinal ==
  \A c \in Consumers, s \in Snapshots :
    [](Verdict(c, s) \in FinalRefusals => [](Verdict(c, s) # "ACCEPTED"))
=============================================================================
