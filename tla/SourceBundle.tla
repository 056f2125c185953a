---------------------------- MODULE SourceBundle ----------------------------
(***************************************************************************)
(* The check of an adapter's source bundle (verifySourceBundle of          *)
(* cross-runner.mjs): one pass over a USTAR archive that must find regular *)
(* files, sorted, each named once, and then nothing but zero blocks.       *)
(*                                                                         *)
(* An archive is a sequence of blocks of 512 bytes.  What a block means    *)
(* depends on where the pass meets it: the same block is a header here and *)
(* the content of a file there.  A block has one of these kinds:           *)
(*   "zero"    nothing but zero bytes                                      *)
(*   "half"    something, but zero bytes from its middle on                *)
(*   "full"    something up to its end that is no header the code takes    *)
(*             (magic, type, checksum, mode, owner, time, name)            *)
(*   "header"  a header it takes, of a file of `size` half blocks          *)
(* Names are numbers in the order in which the code sorts them.            *)
(***************************************************************************)
EXTENDS Naturals, Sequences

CONSTANTS
  FileNames,   \* names of files
  FileSizes,   \* their sizes, in half blocks
  MaxBlocks    \* blocks of an archive at most; 32768 in the code

ASSUME BundleAssumption ==
  /\ FileNames \subseteq Nat
  /\ FileSizes \subseteq Nat
  /\ MaxBlocks \in Nat

VARIABLE bundle   \* an archive put to the check; <<>> for none

Block(kind) == [kind |-> kind, name |-> 0, size |-> 0]
Header(name, size) == [kind |-> "header", name |-> name, size |-> size]
ZeroBlock == Block("zero")
Blocks == {ZeroBlock, Block("half"), Block("full")}
            \cup {Header(n, s) : n \in FileNames, s \in FileSizes}
Archives == UNION {[1..n -> Blocks] : n \in 1..MaxBlocks}

---------------------------------------------------------------------------
(* The pass. *)

BlocksOf_Floor(size) == size \div 2
BlocksOf(size) == (size + 1) \div 2

\* Where the pass goes on after the file whose header is at p.
NextHeader(archive, p) == p + 1 + BlocksOf(archive[p].size)

PaddingIsZero_Unchecked(archive, p) == TRUE
\* What follows the content of the file in its last block.
PaddingIsZero(archive, p) ==
  archive[p].size % 2 = 1 => archive[NextHeader(archive, p) - 1].kind \in {"zero", "half"}

FileAccepted(archive, p) ==
  /\ archive[p].kind = "header"
  /\ NextHeader(archive, p) <= Len(archive) + 1
  /\ PaddingIsZero(archive, p)

Prepend(name, rest) ==
  [accepted |-> rest.accepted, names |-> <<name>> \o rest.names, zeroBlocks |-> rest.zeroBlocks]
ZeroBefore_Skipped(rest) == [rest EXCEPT !.zeroBlocks = @ + 1]
ZeroBefore(rest) ==
  [accepted |-> rest.accepted /\ rest.names = <<>>,
   names |-> rest.names, zeroBlocks |-> rest.zeroBlocks + 1]

\* What the pass finds from the block at p on, until it ends.
PassFrom(archive) ==
  LET from[p \in 1..(Len(archive) + 1)] ==
        IF p > Len(archive) THEN [accepted |-> TRUE, names |-> <<>>, zeroBlocks |-> 0]
        ELSE IF archive[p] = ZeroBlock THEN ZeroBefore(from[p + 1])
        ELSE IF FileAccepted(archive, p)
          THEN Prepend(archive[p].name, from[NextHeader(archive, p)])
          ELSE [accepted |-> FALSE, names |-> <<>>, zeroBlocks |-> 0]
  IN from
Pass(archive) == PassFrom(archive)[1]

Sorted_Repeats(names) == \A i \in 1..(Len(names) - 1) : names[i] <= names[i + 1]
Sorted(names) == \A i \in 1..(Len(names) - 1) : names[i] < names[i + 1]
EndsInZeros_One(zeroBlocks) == zeroBlocks >= 1
EndsInZeros(zeroBlocks) == zeroBlocks >= 2

VerifySourceBundle(archive) ==
  LET found == Pass(archive) IN
  found.accepted /\ EndsInZeros(found.zeroBlocks) /\ Sorted(found.names)

---------------------------------------------------------------------------
(* What a bundle is: files, each written as its header, its content and    *)
(* zero bytes up to the end of the block, in the order of their names, and *)
(* at least two zero blocks.                                               *)

\* The blocks a file of this size can fill.
Contents(size) ==
  {c \in [1..((size \div 2) + (size % 2)) -> Blocks] :
     size % 2 = 1 => c[Len(c)] \in {ZeroBlock, Block("half")}}
Files == UNION {{[size |-> s, content |-> c] : c \in Contents(s)} : s \in FileSizes}

Written(name, file) == <<Header(name, file.size)>> \o file.content
\* From the i-th file on.
WrittenFrom(names, files, zeros) ==
  LET rest[i \in 1..(Len(names) + 1)] ==
        IF i > Len(names) THEN [j \in 1..zeros |-> ZeroBlock]
        ELSE Written(names[i], files[i]) \o rest[i + 1]
  IN rest
Bundle(names, files, zeros) == WrittenFrom(names, files, zeros)[1]

InOrder(names) == \A i, j \in DOMAIN names : i < j => names[i] < names[j]
NameLists == {names \in UNION {[1..n -> FileNames] : n \in 0..MaxBlocks} : InOrder(names)}

\* Every bundle of at most MaxBlocks blocks, with the names in it.
Bundles ==
  {b \in UNION {{[archive |-> Bundle(names, files, zeros), names |-> names] :
                   files \in [1..Len(names) -> Files], zeros \in 2..MaxBlocks} :
                  names \in NameLists} :
     Len(b.archive) <= MaxBlocks}
Bundled == {b.archive : b \in Bundles}

\* The pass takes exactly the bundles, and reads in each the names of its
\* files: content that looks like a header or like the end of the archive
\* is content, and zeros inside, a file cut off, bytes hidden behind a
\* content or a third kind of block are noticed (cross-runner.mjs:346-389).
BundleIsExact(archive) ==
  IF VerifySourceBundle(archive)
    THEN [archive |-> archive, names |-> Pass(archive).names] \in Bundles
    ELSE archive \notin Bundled

\* The command is handed one archive after the other.
HandBundle == bundle = <<>> /\ bundle' \in Archives
ReturnBundle == bundle # <<>> /\ bundle' = <<>>
BundleSpec == bundle = <<>> /\ [][HandBundle \/ ReturnBundle]_bundle

\* The runner takes an archive as source bundle exactly if it is one: regular
\* files, sorted, each named once, padded with zeros, and two zero blocks.
BundlesAreExact == bundle # <<>> => BundleIsExact(bundle)
=============================================================================
