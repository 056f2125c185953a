------------------------- MODULE SourceBundleProofs -------------------------
(***************************************************************************)
(* What SourceBundle states of every archive, proved: the pass takes       *)
(* exactly the bundles and reads in each the names of its files, for every *)
(* set of names, every set of sizes and every number of blocks.            *)
(*                                                                         *)
(* Both the pass and a bundle are recursive functions, from a block, or a  *)
(* file, to a later one.  That such a function exists and what holds of it *)
(* at every argument is shown by the least counterexample, counted from    *)
(* the end (Downward, DownwardFunction).                                   *)
(***************************************************************************)
EXTENDS SourceBundle, TLAPS, WellFoundedInduction

(* A set of numbers that is not empty has a least one. *)
LEMMA NatLeast ==
  ASSUME NEW T \in SUBSET Nat, T # {}
  PROVE  \E n \in T : \A m \in T : n <= m
<1> DEFINE R == {mn \in Nat \X Nat : mn[1] < mn[2]}
<1>1. IsWellFoundedOn(R, Nat)
  BY NatLessThanWellFounded, Zenon DEF OpToRel
<1> HIDE DEF R
<1>2. PICK n \in T : \A m \in T : ~(<<m, n>> \in R)
  BY <1>1, WFMin
<1>3. ASSUME NEW m \in T PROVE n <= m
  <2>1. m \in Nat /\ n \in Nat
    OBVIOUS
  <2>2. m < n => <<m, n>> \in R
    BY <2>1 DEF R
  <2> QED BY <1>2, <2>1, <2>2
<1> QED BY <1>3

(* What holds of a number whenever it holds of all later ones up to M holds of all. *)
LEMMA Downward ==
  ASSUME NEW M \in Nat, NEW Good,
         \A i \in 1..M : (\A j \in (i + 1)..M : j \in Good) => i \in Good
  PROVE  \A i \in 1..M : i \in Good
<1> SUFFICES ASSUME \E i \in 1..M : i \notin Good PROVE FALSE
  OBVIOUS
<1> DEFINE T == {n \in Nat : n \in 0..(M - 1) /\ M - n \notin Good}
<1>1. T \in SUBSET Nat
  OBVIOUS
<1>2. T # {}
  <2>1. PICK i \in 1..M : i \notin Good
    OBVIOUS
  <2>2. M - i \in Nat /\ M - i \in 0..(M - 1) /\ M - (M - i) = i
    BY <2>1
  <2>3. M - i \in T
    BY <2>1, <2>2
  <2> QED BY <2>3
<1>3. PICK n \in T : \A m \in T : n <= m
  <2> HIDE DEF T
  <2> QED BY <1>1, <1>2, NatLeast
<1>4. n \in Nat /\ M - n \in 1..M /\ M - n \notin Good
  BY <1>3
<1>5. ASSUME NEW j \in (M - n + 1)..M PROVE j \in Good
  <2> SUFFICES ASSUME j \notin Good PROVE FALSE
    OBVIOUS
  <2>1. M - j \in Nat /\ M - j \in 0..(M - 1) /\ M - (M - j) = j /\ M - j < n
    BY <1>4
  <2>2. M - j \in T
    BY <2>1
  <2> QED BY <1>3, <1>4, <2>1, <2>2
<1> QED BY <1>4, <1>5

(* A function that is given at M and elsewhere by its value at a later number exists. *)
GoesOn(M, V, next, step) ==
  /\ next \in [1..M -> 1..M]
  /\ \A i \in 1..(M - 1) : next[i] > i
  /\ step \in [1..M -> [V -> V]]

Follows(M, base, next, step, f) ==
  f[M] = base /\ \A i \in 1..(M - 1) : f[i] = step[i][f[next[i]]]

LEMMA DownwardFunction ==
  ASSUME NEW M \in Nat \ {0}, NEW V, NEW base \in V, NEW next, NEW step,
         GoesOn(M, V, next, step)
  PROVE  \E f \in [1..M -> V] : Follows(M, base, next, step, f)
<1> USE DEF GoesOn
<1> DEFINE Upto(i, f) == f[M] = base /\ \A j \in i..(M - 1) : f[j] = step[j][f[next[j]]]
           Good == {i \in 1..M : \E f \in [i..M -> V] : Upto(i, f)}
<1>1. ASSUME NEW i \in 1..M, \A j \in (i + 1)..M : j \in Good
      PROVE  i \in Good
  <2>1. CASE i = M
    <3> DEFINE f == [j \in i..M |-> base]
    <3>1. f \in [i..M -> V] /\ Upto(i, f)
      BY <2>1
    <3> QED BY <3>1
  <2>2. CASE i # M
    <3>1. i + 1 \in Good
      <4>1. i + 1 \in (i + 1)..M
        BY <2>2
      <4> HIDE DEF Good
      <4> QED BY <4>1, <1>1
    <3>2. PICK f \in [(i + 1)..M -> V] : Upto(i + 1, f)
      BY <3>1
    <3>3. next[i] \in (i + 1)..M
      BY <2>2
    <3> DEFINE g == [j \in i..M |-> IF j = i THEN step[i][f[next[i]]] ELSE f[j]]
    <3>4. step[i][f[next[i]]] \in V
      BY <3>2, <3>3
    <3>5. g \in [i..M -> V]
      <4>1. ASSUME NEW j \in i..M PROVE (IF j = i THEN step[i][f[next[i]]] ELSE f[j]) \in V
        BY <3>2, <3>4
      <4> QED BY <4>1
    <3>6. g[M] = base
      BY <3>2, <2>2
    <3>7. ASSUME NEW j \in i..(M - 1) PROVE g[j] = step[j][g[next[j]]]
      <4>1. j \in 1..(M - 1) /\ j \in 1..M /\ j \in i..M
        OBVIOUS
      <4>2. next[j] \in i..M /\ next[j] # i
        BY <4>1
      <4>3. g[next[j]] = f[next[j]]
        BY <4>2
      <4>4. CASE j = i
        BY <4>1, <4>3, <4>4
      <4>5. CASE j # i
        <5>1. j \in (i + 1)..(M - 1)
          BY <4>5
        <5> QED BY <4>1, <4>3, <4>5, <5>1, <3>2
      <4> QED BY <4>4, <4>5
    <3>8. Upto(i, g)
      BY <3>6, <3>7
    <3> HIDE DEF g, Upto
    <3> QED BY <3>5, <3>8
  <2> QED BY <2>1, <2>2
<1>2. 1 \in Good
  <2> HIDE DEF Good
  <2>1. \A i \in 1..M : i \in Good
    BY <1>1, Downward
  <2> QED BY <2>1
<1> QED BY <1>2 DEF Follows

---------------------------------------------------------------------------
(* Archives and files. *)

(* A file taken for a sequence: its content has as many blocks as the pass skips. *)
LEMMA FileContent ==
  ASSUME NEW file \in Files
  PROVE  /\ file.size \in FileSizes /\ file.size \in Nat
         /\ file.content \in Seq(Blocks)
         /\ Len(file.content) = BlocksOf(file.size)
         /\ file = [size |-> file.size, content |-> file.content]
         /\ file.size % 2 = 1 =>
              /\ BlocksOf(file.size) >= 1
              /\ file.content[BlocksOf(file.size)] \in {ZeroBlock, Block("half")}
<1>1. PICK s \in FileSizes : file \in {[size |-> s, content |-> c] : c \in Contents(s)}
  BY DEF Files
<1>2. PICK c \in Contents(s) : file = [size |-> s, content |-> c]
  BY <1>1
<1>3. file.size = s /\ file.content = c /\ s \in Nat
  BY <1>2, BundleAssumption
<1>4. (s \div 2) + (s % 2) = (s + 1) \div 2 /\ (s \div 2) + (s % 2) \in Nat
      /\ (s % 2 = 1 => (s + 1) \div 2 >= 1)
  BY <1>3
<1>5. c \in [1..BlocksOf(s) -> Blocks] /\ BlocksOf(s) \in Nat
  BY <1>4 DEF Contents, BlocksOf
<1>6. c \in Seq(Blocks) /\ Len(c) = BlocksOf(s)
  BY <1>5
<1>7. s % 2 = 1 => c[BlocksOf(s)] \in {ZeroBlock, Block("half")}
  BY <1>6 DEF Contents
<1> QED BY <1>2, <1>3, <1>4, <1>6, <1>7 DEF BlocksOf

LEMMA FileFromContent ==
  ASSUME NEW s \in FileSizes, NEW c \in Seq(Blocks), Len(c) = BlocksOf(s),
         s % 2 = 1 => c[Len(c)] \in {ZeroBlock, Block("half")}
  PROVE  [size |-> s, content |-> c] \in Files
<1>1. s \in Nat /\ (s \div 2) + (s % 2) = (s + 1) \div 2
  BY BundleAssumption
<1>2. c \in [1..((s \div 2) + (s % 2)) -> Blocks]
  BY <1>1 DEF BlocksOf
<1>3. c \in Contents(s)
  BY <1>2 DEF Contents
<1> QED BY <1>3 DEF Files

LEMMA ArchiveIsSequence ==
  ASSUME NEW archive \in Archives
  PROVE  archive \in Seq(Blocks) /\ Len(archive) \in 1..MaxBlocks
<1>1. PICK n \in 1..MaxBlocks : archive \in [1..n -> Blocks]
  BY DEF Archives
<1> QED BY <1>1, BundleAssumption

LEMMA SequenceIsArchive ==
  ASSUME NEW archive \in Seq(Blocks), Len(archive) \in 1..MaxBlocks
  PROVE  archive \in Archives
BY DEF Archives

LEMMA BlockKinds ==
  /\ ZeroBlock \in Blocks /\ ZeroBlock.kind = "zero"
  /\ \A n, s : Header(n, s) # ZeroBlock /\ Header(n, s).kind = "header"
              /\ Header(n, s).name = n /\ Header(n, s).size = s
  /\ \A n \in FileNames, s \in FileSizes : Header(n, s) \in Blocks
  /\ \A b \in Blocks : b.kind = "header" =>
       b.name \in FileNames /\ b.size \in FileSizes /\ b = Header(b.name, b.size)
  /\ \A b \in Blocks : b.kind \in {"zero", "half"} <=> b \in {ZeroBlock, Block("half")}
<1>1. ZeroBlock \in Blocks /\ ZeroBlock.kind = "zero"
  BY DEF Blocks, Block, ZeroBlock
<1>2. \A n, s : Header(n, s).kind = "header" /\ Header(n, s).name = n /\ Header(n, s).size = s
  BY DEF Header
<1>3. \A n, s : Header(n, s) # ZeroBlock
  BY <1>1, <1>2
<1>4. \A n \in FileNames, s \in FileSizes : Header(n, s) \in Blocks
  BY DEF Blocks
<1>5. ASSUME NEW b \in Blocks
      PROVE  \/ b \in {ZeroBlock, Block("half")} /\ b.kind \in {"zero", "half"}
             \/ b \notin {ZeroBlock, Block("half")} /\ b.kind = "full"
             \/ /\ b \notin {ZeroBlock, Block("half")} /\ b.kind = "header"
                /\ b.name \in FileNames /\ b.size \in FileSizes /\ b = Header(b.name, b.size)
  <2>1. CASE b \in {ZeroBlock, Block("half")}
    BY <2>1 DEF ZeroBlock, Block
  <2>2. CASE b = Block("full")
    BY <2>2 DEF ZeroBlock, Block
  <2>3. CASE \E n \in FileNames, s \in FileSizes : b = Header(n, s)
    <3>1. PICK n \in FileNames, s \in FileSizes : b = Header(n, s)
      BY <2>3
    <3>2. Block("half").kind = "half"
      BY DEF Block
    <3> QED BY <3>1, <3>2, <1>1, <1>2
  <2> QED BY <2>1, <2>2, <2>3 DEF Blocks
<1> QED BY <1>1, <1>2, <1>3, <1>4, <1>5

---------------------------------------------------------------------------
(* A bundle, written file by file. *)

LEMMA WrittenIsSequence ==
  ASSUME NEW n \in FileNames, NEW file \in Files
  PROVE  /\ Written(n, file) \in Seq(Blocks)
         /\ Len(Written(n, file)) = 1 + BlocksOf(file.size)
         /\ BlocksOf(file.size) \in Nat
         /\ Written(n, file)[1] = Header(n, file.size)
         /\ \A k \in 1..BlocksOf(file.size) : Written(n, file)[k + 1] = file.content[k]
<1>1. file.content \in Seq(Blocks) /\ Len(file.content) = BlocksOf(file.size)
      /\ BlocksOf(file.size) \in Nat /\ file.size \in FileSizes
  BY FileContent
<1>2. Header(n, file.size) \in Blocks
  BY <1>1, BlockKinds
<1> QED BY <1>1, <1>2 DEF Written

ZeroBlocks(zeros) == [j \in 1..zeros |-> ZeroBlock]

LEMMA WrittenFromEquation ==
  ASSUME NEW names \in Seq(FileNames), NEW files \in Seq(Files),
         Len(files) = Len(names), NEW zeros \in Nat
  PROVE  /\ WrittenFrom(names, files, zeros) \in [1..(Len(names) + 1) -> Seq(Blocks)]
         /\ WrittenFrom(names, files, zeros)[Len(names) + 1] = ZeroBlocks(zeros)
         /\ \A i \in 1..Len(names) : WrittenFrom(names, files, zeros)[i] =
              Written(names[i], files[i]) \o WrittenFrom(names, files, zeros)[i + 1]
<1> DEFINE M == Len(names) + 1
           W(i) == Written(names[i], files[i])
           Eq(f) == f = [i \in 1..M |-> IF i > Len(names) THEN ZeroBlocks(zeros)
                                        ELSE W(i) \o f[i + 1]]
           next == [i \in 1..M |-> IF i = M THEN M ELSE i + 1]
           step == [i \in 1..M |-> [s \in Seq(Blocks) |-> IF i = M THEN s ELSE W(i) \o s]]
<1>1. M \in Nat \ {0} /\ ZeroBlocks(zeros) \in Seq(Blocks)
  BY BlockKinds DEF ZeroBlocks
<1>2. next \in [1..M -> 1..M] /\ \A i \in 1..(M - 1) : next[i] > i
  OBVIOUS
<1>3. \A i \in 1..Len(names) : W(i) \in Seq(Blocks)
  BY WrittenIsSequence
<1>4. step \in [1..M -> [Seq(Blocks) -> Seq(Blocks)]]
  <2> HIDE DEF W
  <2>1. ASSUME NEW i \in 1..M
        PROVE  [s \in Seq(Blocks) |-> IF i = M THEN s ELSE W(i) \o s] \in [Seq(Blocks) -> Seq(Blocks)]
    <3>1. i # M => W(i) \in Seq(Blocks)
      BY <1>3
    <3>2. ASSUME NEW s \in Seq(Blocks) PROVE (IF i = M THEN s ELSE W(i) \o s) \in Seq(Blocks)
      BY <3>1
    <3> QED BY <3>2
  <2> QED BY <2>1
<1>5. \E f : f \in [1..M -> Seq(Blocks)] /\ f[M] = ZeroBlocks(zeros)
            /\ \A i \in 1..Len(names) : f[i] = W(i) \o f[i + 1]
  <2> HIDE DEF W
  <2>1. PICK f \in [1..M -> Seq(Blocks)] :
          f[M] = ZeroBlocks(zeros) /\ \A i \in 1..(M - 1) : f[i] = step[i][f[next[i]]]
    <3> HIDE DEF M, next, step
    <3> DEFINE base == ZeroBlocks(zeros)
               V == Seq(Blocks)
    <3>1. base \in V /\ GoesOn(M, V, next, step)
      BY <1>1, <1>2, <1>4 DEF GoesOn
    <3> HIDE DEF base, V, M, next, step
    <3>2. \E f \in [1..M -> V] : Follows(M, base, next, step, f)
      BY <1>1, <3>1, DownwardFunction
    <3> QED BY <3>2 DEF base, V, Follows
  <2>2. ASSUME NEW i \in 1..Len(names) PROVE f[i] = W(i) \o f[i + 1]
    <3>1. i \in 1..(M - 1) /\ i # M /\ i \in 1..M /\ i + 1 \in 1..M
      OBVIOUS
    <3>2. next[i] = i + 1 /\ f[i + 1] \in Seq(Blocks)
      BY <3>1
    <3>3. step[i][f[i + 1]] = W(i) \o f[i + 1]
      BY <3>1, <3>2
    <3> QED BY <2>1, <3>1, <3>2, <3>3
  <2> QED BY <2>1, <2>2
<1>6. ASSUME NEW f
      PROVE  Eq(f) <=> /\ f = [i \in 1..M |-> f[i]]
                       /\ f[M] = ZeroBlocks(zeros)
                       /\ \A i \in 1..Len(names) : f[i] = W(i) \o f[i + 1]
  <2> HIDE DEF W
  <2>1. ASSUME Eq(f)
        PROVE  /\ f = [i \in 1..M |-> f[i]]
               /\ f[M] = ZeroBlocks(zeros)
               /\ \A i \in 1..Len(names) : f[i] = W(i) \o f[i + 1]
    <3>1. \A i \in 1..M : f[i] = IF i > Len(names) THEN ZeroBlocks(zeros) ELSE W(i) \o f[i + 1]
      BY <2>1
    <3>2. f = [i \in 1..M |-> f[i]]
      BY <2>1
    <3>3. f[M] = ZeroBlocks(zeros)
      BY <3>1, M \in 1..M, M > Len(names)
    <3>4. ASSUME NEW i \in 1..Len(names) PROVE f[i] = W(i) \o f[i + 1]
      BY <3>1, i \in 1..M, ~(i > Len(names))
    <3> QED BY <3>2, <3>3, <3>4
  <2>2. ASSUME /\ f = [i \in 1..M |-> f[i]]
               /\ f[M] = ZeroBlocks(zeros)
               /\ \A i \in 1..Len(names) : f[i] = W(i) \o f[i + 1]
        PROVE  Eq(f)
    <3>1. ASSUME NEW i \in 1..M
          PROVE  f[i] = IF i > Len(names) THEN ZeroBlocks(zeros) ELSE W(i) \o f[i + 1]
      <4>1. (i = M /\ i > Len(names)) \/ (i \in 1..Len(names) /\ ~(i > Len(names)))
        BY Len(names) \in Nat
      <4> HIDE DEF M
      <4> QED BY <4>1, <2>2
    <3> QED BY <3>1, <2>2
  <2> QED BY <2>1, <2>2
<1>7. WrittenFrom(names, files, zeros) = CHOOSE f : Eq(f)
  BY DEF WrittenFrom, ZeroBlocks
<1> HIDE DEF Eq, W, M
<1>8. PICK g : g \in [1..M -> Seq(Blocks)] /\ g[M] = ZeroBlocks(zeros)
            /\ \A i \in 1..Len(names) : g[i] = W(i) \o g[i + 1]
  BY <1>5
<1>9. Eq(g)
  BY <1>6, <1>8
<1>10. Eq(WrittenFrom(names, files, zeros))
  BY <1>7, <1>9
<1> DEFINE h == WrittenFrom(names, files, zeros)
<1>11. /\ h = [i \in 1..M |-> h[i]]
       /\ h[M] = ZeroBlocks(zeros)
       /\ \A i \in 1..Len(names) : h[i] = W(i) \o h[i + 1]
  BY <1>6, <1>10
<1> HIDE DEF h
<1>12. \A i \in 1..M : h[i] \in Seq(Blocks)
  <2> DEFINE Good == {i \in 1..M : h[i] \in Seq(Blocks)}
  <2>1. ASSUME NEW i \in 1..M, \A j \in (i + 1)..M : j \in Good PROVE h[i] \in Seq(Blocks)
    <3>1. CASE i = M
      BY <3>1, <1>1, <1>11
    <3>2. CASE i # M
      <4>1. i \in 1..Len(names) /\ i + 1 \in (i + 1)..M
        BY <3>2 DEF M
      <4>2. h[i + 1] \in Seq(Blocks)
        BY <4>1, <2>1
      <4>3. W(i) \in Seq(Blocks)
        BY <4>1, <1>3
      <4>4. W(i) \o h[i + 1] \in Seq(Blocks)
        BY <4>2, <4>3
      <4>5. h[i] = W(i) \o h[i + 1]
        BY <4>1, <1>11
      <4> QED BY <4>4, <4>5
    <3> QED BY <3>1, <3>2
  <2>2. ASSUME NEW i \in 1..M, \A j \in (i + 1)..M : j \in Good PROVE i \in Good
    BY <2>1, <2>2
  <2> HIDE DEF Good
  <2>3. \A i \in 1..M : i \in Good
    BY <1>1, <2>2, Downward
  <2> QED BY <2>3 DEF Good
<1> QED BY <1>11, <1>12 DEF M, W, h

\* The first file of a bundle and the bundle of the others.
FilesOf(names) == {files \in Seq(Files) : Len(files) = Len(names)}

LEMMA TailIsSequence ==
  ASSUME NEW S, NEW s \in Seq(S), Len(s) # 0
  PROVE  /\ Tail(s) \in Seq(S) /\ Len(Tail(s)) = Len(s) - 1 /\ s[1] \in S
         /\ \A i \in 1..(Len(s) - 1) : Tail(s)[i] = s[i + 1]
OBVIOUS

LEMMA FirstOfBundle ==
  ASSUME NEW names \in Seq(FileNames), NEW files \in FilesOf(names), NEW zeros \in Nat,
         Len(names) # 0
  PROVE  /\ Tail(names) \in Seq(FileNames) /\ Tail(files) \in FilesOf(Tail(names))
         /\ names[1] \in FileNames /\ files[1] \in Files
         /\ Bundle(names, files, zeros) =
              Written(names[1], files[1]) \o Bundle(Tail(names), Tail(files), zeros)
<1> DEFINE M == Len(names)
           h == WrittenFrom(names, files, zeros)
           t == WrittenFrom(Tail(names), Tail(files), zeros)
<1>1. /\ Tail(names) \in Seq(FileNames) /\ Tail(files) \in FilesOf(Tail(names))
      /\ names[1] \in FileNames /\ files[1] \in Files
      /\ M \in Nat \ {0} /\ Len(Tail(names)) = M - 1 /\ Len(files) = M
      /\ \A i \in 1..(M - 1) : Tail(names)[i] = names[i + 1] /\ Tail(files)[i] = files[i + 1]
  BY TailIsSequence DEF FilesOf
<1>2. /\ h[M + 1] = ZeroBlocks(zeros)
      /\ \A i \in 1..M : h[i] = Written(names[i], files[i]) \o h[i + 1]
  BY WrittenFromEquation DEF FilesOf
<1>3. /\ t[M] = ZeroBlocks(zeros)
      /\ \A i \in 1..(M - 1) : t[i] = Written(Tail(names)[i], Tail(files)[i]) \o t[i + 1]
  <2>1. Len(Tail(names)) + 1 = M /\ Len(Tail(names)) = M - 1 /\ Tail(files) \in Seq(Files)
        /\ Len(Tail(files)) = Len(Tail(names))
    BY <1>1 DEF FilesOf
  <2>2. /\ WrittenFrom(Tail(names), Tail(files), zeros)[Len(Tail(names)) + 1] = ZeroBlocks(zeros)
        /\ \A i \in 1..Len(Tail(names)) : WrittenFrom(Tail(names), Tail(files), zeros)[i] =
             Written(Tail(names)[i], Tail(files)[i])
               \o WrittenFrom(Tail(names), Tail(files), zeros)[i + 1]
    BY <1>1, <2>1, WrittenFromEquation
  <2> HIDE DEF M
  <2> QED BY <2>1, <2>2
<1> HIDE DEF h, t, M
<1>4. \A i \in 1..M : h[i + 1] = t[i]
  <2> DEFINE Good == {i \in 1..M : h[i + 1] = t[i]}
  <2>1. ASSUME NEW i \in 1..M, \A j \in (i + 1)..M : j \in Good PROVE h[i + 1] = t[i]
    <3>1. CASE i = M
      BY <3>1, <1>2, <1>3
    <3>2. CASE i # M
      <4>1. i \in 1..(M - 1) /\ i + 1 \in (i + 1)..M /\ i + 1 \in 1..M
        BY <3>2, <1>1
      <4>2. h[(i + 1) + 1] = t[i + 1]
        BY <4>1, <2>1
      <4>3. h[i + 1] = Written(names[i + 1], files[i + 1]) \o h[(i + 1) + 1]
        BY <4>1, <1>2
      <4> QED BY <4>1, <4>2, <4>3, <1>1, <1>3
    <3> QED BY <3>1, <3>2
  <2>2. ASSUME NEW i \in 1..M, \A j \in (i + 1)..M : j \in Good PROVE i \in Good
    BY <2>1, <2>2
  <2> HIDE DEF Good
  <2>3. \A i \in 1..M : i \in Good
    BY <1>1, <2>2, Downward
  <2> QED BY <2>3 DEF Good
<1>5. h[1] = Written(names[1], files[1]) \o t[1]
  <2>1. 1 \in 1..M
    BY <1>1
  <2>2. h[1] = Written(names[1], files[1]) \o h[1 + 1] /\ h[1 + 1] = t[1]
    BY <2>1, <1>2, <1>4
  <2> QED BY <2>2
<1> QED BY <1>1, <1>5 DEF h, t, Bundle

LEMMA NoFiles ==
  ASSUME NEW names \in Seq(FileNames), NEW files \in FilesOf(names), NEW zeros \in Nat,
         Len(names) = 0
  PROVE  Bundle(names, files, zeros) = ZeroBlocks(zeros)
<1>1. files \in Seq(Files) /\ Len(files) = Len(names)
  BY DEF FilesOf
<1>2. WrittenFrom(names, files, zeros)[Len(names) + 1] = ZeroBlocks(zeros)
  BY <1>1, WrittenFromEquation
<1> QED BY <1>2 DEF Bundle

(* A bundle has at least a block for every file and its zero blocks. *)
LEMMA BundleIsSequence ==
  ASSUME NEW names \in Seq(FileNames), NEW files \in FilesOf(names), NEW zeros \in Nat
  PROVE  /\ Bundle(names, files, zeros) \in Seq(Blocks)
         /\ Len(Bundle(names, files, zeros)) >= Len(names) + zeros
<1> DEFINE M == Len(names) + 1
           h == WrittenFrom(names, files, zeros)
<1>1. /\ h \in [1..M -> Seq(Blocks)] /\ h[M] = ZeroBlocks(zeros)
      /\ \A i \in 1..(M - 1) : h[i] = Written(names[i], files[i]) \o h[i + 1]
      /\ M \in Nat \ {0} /\ M - 1 = Len(names) /\ Len(files) = M - 1
  <2>1. files \in Seq(Files) /\ Len(files) = Len(names)
    BY DEF FilesOf
  <2>2. M \in Nat \ {0} /\ M - 1 = Len(names)
    OBVIOUS
  <2>3. /\ h \in [1..M -> Seq(Blocks)] /\ h[M] = ZeroBlocks(zeros)
        /\ \A i \in 1..Len(names) : h[i] = Written(names[i], files[i]) \o h[i + 1]
    BY <2>1, WrittenFromEquation
  <2> HIDE DEF h, M
  <2> QED BY <2>1, <2>2, <2>3
<1>2. \A i \in 1..(M - 1) : names[i] \in FileNames /\ files[i] \in Files
  BY DEF FilesOf
<1> HIDE DEF h, M
<1>3. \A i \in 1..M : Len(h[i]) >= M - i + zeros
  <2> DEFINE Good == {i \in 1..M : Len(h[i]) >= M - i + zeros}
  <2>1. ASSUME NEW i \in 1..M, \A j \in (i + 1)..M : j \in Good
        PROVE  Len(h[i]) >= M - i + zeros
    <3>1. CASE i = M
      BY <3>1, <1>1 DEF ZeroBlocks
    <3>2. CASE i # M
      <4>1. i \in 1..(M - 1) /\ i + 1 \in (i + 1)..M /\ i + 1 \in 1..M
        BY <3>2, <1>1
      <4>2. Len(h[i + 1]) >= M - (i + 1) + zeros /\ h[i + 1] \in Seq(Blocks)
        BY <4>1, <2>1, <1>1
      <4> DEFINE w == Written(names[i], files[i])
      <4>3. w \in Seq(Blocks) /\ Len(w) >= 1
        BY <4>1, <1>2, WrittenIsSequence
      <4>4. h[i] = w \o h[i + 1]
        BY <4>1, <1>1
      <4> HIDE DEF w
      <4>5. Len(h[i]) = Len(w) + Len(h[i + 1])
        BY <4>2, <4>3, <4>4
      <4> QED BY <4>2, <4>3, <4>5, <1>1
    <3> QED BY <3>1, <3>2
  <2>2. ASSUME NEW i \in 1..M, \A j \in (i + 1)..M : j \in Good PROVE i \in Good
    BY <2>1, <2>2
  <2> HIDE DEF Good
  <2>3. \A i \in 1..M : i \in Good
    BY <1>1, <2>2, Downward
  <2> QED BY <2>3 DEF Good
<1>4. 1 \in 1..M
  BY <1>1
<1> QED BY <1>1, <1>3, <1>4 DEF h, Bundle

---------------------------------------------------------------------------
(* The pass, header by header. *)

Findings == [accepted : BOOLEAN, names : Seq(FileNames), zeroBlocks : Nat]
AtTheEnd == [accepted |-> TRUE, names |-> <<>>, zeroBlocks |-> 0]
Refused == [accepted |-> FALSE, names |-> <<>>, zeroBlocks |-> 0]

LEMMA StepsOfThePass ==
  ASSUME NEW rest \in Findings
  PROVE  /\ AtTheEnd \in Findings /\ Refused \in Findings
         /\ ZeroBefore(rest) \in Findings
         /\ \A n \in FileNames : Prepend(n, rest) \in Findings
<1>1. AtTheEnd \in Findings /\ Refused \in Findings
  BY DEF Findings, AtTheEnd, Refused
<1>2. ZeroBefore(rest) \in Findings
  BY DEF Findings, ZeroBefore
<1>3. ASSUME NEW n \in FileNames PROVE Prepend(n, rest) \in Findings
  <2>1. <<n>> \o rest.names \in Seq(FileNames)
    BY DEF Findings
  <2> QED BY <2>1 DEF Findings, Prepend
<1> QED BY <1>1, <1>2, <1>3

StepAt(archive, p, rest) ==
  IF archive[p] = ZeroBlock THEN ZeroBefore(rest)
  ELSE IF FileAccepted(archive, p) THEN Prepend(archive[p].name, rest)
  ELSE Refused
LookAt(archive, p) ==
  IF archive[p] = ZeroBlock THEN p + 1
  ELSE IF FileAccepted(archive, p) THEN NextHeader(archive, p)
  ELSE p + 1

LEMMA StepAtTyped ==
  ASSUME NEW archive \in Archives, NEW p \in 1..Len(archive)
  PROVE  /\ LookAt(archive, p) \in (p + 1)..(Len(archive) + 1)
         /\ \A rest \in Findings : StepAt(archive, p, rest) \in Findings
<1>1. archive \in Seq(Blocks) /\ Len(archive) \in Nat /\ archive[p] \in Blocks
  BY ArchiveIsSequence
<1>2. FileAccepted(archive, p) => archive[p].name \in FileNames /\ archive[p].size \in Nat
  BY <1>1, BlockKinds, BundleAssumption DEF FileAccepted
<1>3. ASSUME FileAccepted(archive, p)
      PROVE  NextHeader(archive, p) \in (p + 1)..(Len(archive) + 1)
  <2>1. BlocksOf(archive[p].size) \in Nat
    BY <1>2, <1>3 DEF BlocksOf
  <2> QED BY <2>1, <1>1, <1>3 DEF FileAccepted, NextHeader
<1>4. LookAt(archive, p) \in (p + 1)..(Len(archive) + 1)
  BY <1>1, <1>3 DEF LookAt
<1>5. ASSUME NEW rest \in Findings PROVE StepAt(archive, p, rest) \in Findings
  BY <1>2, StepsOfThePass DEF StepAt
<1> QED BY <1>4, <1>5

LEMMA PassFromEquation ==
  ASSUME NEW archive \in Archives
  PROVE  /\ PassFrom(archive) \in [1..(Len(archive) + 1) -> Findings]
         /\ PassFrom(archive)[Len(archive) + 1] = AtTheEnd
         /\ \A p \in 1..Len(archive) : PassFrom(archive)[p] =
              StepAt(archive, p, PassFrom(archive)[LookAt(archive, p)])
<1> DEFINE N == Len(archive)
           M == Len(archive) + 1
           Eq(f) == f = [p \in 1..M |->
                          IF p > Len(archive) THEN AtTheEnd
                          ELSE IF archive[p] = ZeroBlock THEN ZeroBefore(f[p + 1])
                          ELSE IF FileAccepted(archive, p)
                            THEN Prepend(archive[p].name, f[NextHeader(archive, p)])
                          ELSE Refused]
           next == [p \in 1..M |-> IF p = M THEN M ELSE LookAt(archive, p)]
           step == [p \in 1..M |-> [r \in Findings |-> IF p = M THEN r ELSE StepAt(archive, p, r)]]
<1>1. M \in Nat \ {0} /\ N \in Nat /\ N = M - 1 /\ AtTheEnd \in Findings
  BY ArchiveIsSequence DEF AtTheEnd, Findings
<1>2. next \in [1..M -> 1..M] /\ \A p \in 1..(M - 1) : next[p] > p
  <2>1. \A p \in 1..(M - 1) : LookAt(archive, p) \in (p + 1)..M
    BY StepAtTyped, <1>1
  <2> HIDE DEF M
  <2>2. \A p \in 1..M : (IF p = M THEN M ELSE LookAt(archive, p)) \in 1..M
    BY <2>1, <1>1
  <2>3. next \in [1..M -> 1..M]
    BY <2>2
  <2>4. ASSUME NEW p \in 1..(M - 1) PROVE next[p] > p
    BY <2>1, <1>1
  <2> QED BY <2>3, <2>4
<1>3. step \in [1..M -> [Findings -> Findings]]
  <2>1. ASSUME NEW p \in 1..M
        PROVE  [r \in Findings |-> IF p = M THEN r ELSE StepAt(archive, p, r)] \in [Findings -> Findings]
    <3>1. p = M \/ p \in 1..N
      BY <1>1
    <3>2. ASSUME NEW r \in Findings PROVE (IF p = M THEN r ELSE StepAt(archive, p, r)) \in Findings
      BY <3>1, StepAtTyped
    <3> QED BY <3>2
  <2> QED BY <2>1
<1>4. PICK g \in [1..M -> Findings] :
        g[M] = AtTheEnd /\ \A p \in 1..N : g[p] = StepAt(archive, p, g[LookAt(archive, p)])
  <2>1. GoesOn(M, Findings, next, step)
    BY <1>2, <1>3 DEF GoesOn
  <2>2. PICK f \in [1..M -> Findings] : Follows(M, AtTheEnd, next, step, f)
    <3> HIDE DEF M, next, step
    <3> QED BY <1>1, <2>1, DownwardFunction
  <2>3. ASSUME NEW p \in 1..N PROVE f[p] = StepAt(archive, p, f[LookAt(archive, p)])
    <3>1. p \in 1..(M - 1) /\ p # M /\ p \in 1..M
      BY <1>1
    <3>2. next[p] = LookAt(archive, p) /\ LookAt(archive, p) \in 1..M
      BY <3>1, <1>2
    <3>3. f[LookAt(archive, p)] \in Findings
      BY <3>2
    <3>4. step[p][f[LookAt(archive, p)]] = StepAt(archive, p, f[LookAt(archive, p)])
      BY <3>1, <3>3
    <3> QED BY <2>2, <3>1, <3>2, <3>4 DEF Follows
  <2> QED BY <2>2, <2>3 DEF Follows
<1>5. ASSUME NEW f
      PROVE  Eq(f) <=> /\ f = [p \in 1..M |-> f[p]]
                       /\ f[M] = AtTheEnd
                       /\ \A p \in 1..N : f[p] = StepAt(archive, p, f[LookAt(archive, p)])
  <2> DEFINE Value(p) == IF archive[p] = ZeroBlock THEN ZeroBefore(f[p + 1])
                         ELSE IF FileAccepted(archive, p)
                           THEN Prepend(archive[p].name, f[NextHeader(archive, p)])
                         ELSE Refused
  <2>1. \A p : Value(p) = StepAt(archive, p, f[LookAt(archive, p)])
    BY DEF StepAt, LookAt
  <2>2. Eq(f) <=> f = [p \in 1..M |-> IF p > N THEN AtTheEnd ELSE Value(p)]
    OBVIOUS
  <2> HIDE DEF Eq, Value, M, N
  <2>3. \A p \in 1..M : (p = M /\ p > N) \/ (p \in 1..N /\ ~(p > N))
    BY <1>1
  <2>4. M \in 1..M /\ \A p \in 1..N : p \in 1..M
    BY <1>1
  <2>5. ASSUME Eq(f)
        PROVE  /\ f = [p \in 1..M |-> f[p]]
               /\ f[M] = AtTheEnd
               /\ \A p \in 1..N : f[p] = Value(p)
    BY <2>2, <2>3, <2>4, <2>5, <1>1
  <2>6. ASSUME /\ f = [p \in 1..M |-> f[p]]
               /\ f[M] = AtTheEnd
               /\ \A p \in 1..N : f[p] = Value(p)
        PROVE  Eq(f)
    <3>1. ASSUME NEW p \in 1..M PROVE f[p] = IF p > N THEN AtTheEnd ELSE Value(p)
      BY <2>3, <2>6
    <3> QED BY <3>1, <2>2, <2>6
  <2> QED BY <2>1, <2>5, <2>6
<1>6. PassFrom(archive) = CHOOSE f : Eq(f)
  BY DEF PassFrom, AtTheEnd, Refused
<1> HIDE DEF Eq, M, N
<1>7. g = [p \in 1..M |-> g[p]]
  OBVIOUS
<1>8. Eq(g)
  BY <1>4, <1>5, <1>7
<1>9. Eq(PassFrom(archive))
  BY <1>6, <1>8
<1> DEFINE h == PassFrom(archive)
<1>10. /\ h = [p \in 1..M |-> h[p]]
       /\ h[M] = AtTheEnd
       /\ \A p \in 1..N : h[p] = StepAt(archive, p, h[LookAt(archive, p)])
  BY <1>5, <1>9
<1> HIDE DEF h
<1>11. \A p \in 1..M : h[p] \in Findings
  <2> DEFINE Good == {p \in 1..M : h[p] \in Findings}
  <2>1. ASSUME NEW p \in 1..M, \A q \in (p + 1)..M : q \in Good PROVE h[p] \in Findings
    <3>1. CASE p = M
      BY <3>1, <1>1, <1>10
    <3>2. CASE p # M
      <4>1. p \in 1..N
        BY <3>2, <1>1
      <4>2. LookAt(archive, p) \in (p + 1)..M
        BY <4>1, StepAtTyped DEF M, N
      <4>3. h[LookAt(archive, p)] \in Findings
        BY <4>2, <2>1
      <4> QED BY <4>1, <4>3, <1>10, StepAtTyped DEF N
    <3> QED BY <3>1, <3>2
  <2>2. ASSUME NEW p \in 1..M, \A q \in (p + 1)..M : q \in Good PROVE p \in Good
    BY <2>1, <2>2
  <2> HIDE DEF Good
  <2>3. \A p \in 1..M : p \in Good
    BY <1>1, <2>2, Downward
  <2> QED BY <2>3 DEF Good
<1> QED BY <1>10, <1>11 DEF M, N, h

---------------------------------------------------------------------------
(* The archive from the block at p on. *)

Stands(archive, p, s) ==
  /\ p + Len(s) = Len(archive) + 1
  /\ \A k \in 1..Len(s) : archive[p + k - 1] = s[k]

LEMMA StandsInParts ==
  ASSUME NEW archive \in Seq(Blocks), NEW p \in Nat,
         NEW s \in Seq(Blocks), NEW t \in Seq(Blocks)
  PROVE  Stands(archive, p, s \o t) <=>
           /\ \A k \in 1..Len(s) : archive[p + k - 1] = s[k]
           /\ Stands(archive, p + Len(s), t)
<1>1. /\ s \o t \in Seq(Blocks) /\ Len(s \o t) = Len(s) + Len(t)
      /\ Len(s) \in Nat /\ Len(t) \in Nat
      /\ \A k \in 1..Len(s) : (s \o t)[k] = s[k]
      /\ \A k \in 1..Len(t) : (s \o t)[Len(s) + k] = t[k]
  OBVIOUS
<1> DEFINE st == s \o t
<1> HIDE DEF st
<1>2. ASSUME Stands(archive, p, st)
      PROVE  /\ \A k \in 1..Len(s) : archive[p + k - 1] = s[k]
             /\ Stands(archive, p + Len(s), t)
  <2>1. ASSUME NEW k \in 1..Len(s) PROVE archive[p + k - 1] = s[k]
    BY <1>1, <1>2 DEF Stands, st
  <2>2. ASSUME NEW k \in 1..Len(t) PROVE archive[p + Len(s) + k - 1] = t[k]
    <3>1. Len(s) + k \in 1..Len(st) /\ p + (Len(s) + k) - 1 = p + Len(s) + k - 1
      BY <1>1 DEF st
    <3> QED BY <1>1, <1>2, <3>1 DEF Stands, st
  <2>3. p + Len(s) + Len(t) = Len(archive) + 1
    BY <1>1, <1>2 DEF Stands, st
  <2> QED BY <2>1, <2>2, <2>3 DEF Stands
<1>3. ASSUME \A k \in 1..Len(s) : archive[p + k - 1] = s[k],
             Stands(archive, p + Len(s), t)
      PROVE  Stands(archive, p, st)
  <2>1. ASSUME NEW k \in 1..Len(st) PROVE archive[p + k - 1] = st[k]
    <3>1. CASE k <= Len(s)
      BY <1>1, <1>3, <3>1 DEF st
    <3>2. CASE k > Len(s)
      <4>1. k - Len(s) \in 1..Len(t) /\ Len(s) + (k - Len(s)) = k
            /\ p + Len(s) + (k - Len(s)) - 1 = p + k - 1
        <5>1. Len(st) = Len(s) + Len(t)
          BY <1>1 DEF st
        <5>2. k \in Nat /\ k <= Len(st)
          BY <1>1, <5>1
        <5> QED BY <1>1, <3>2, <5>1, <5>2
      <4>2. archive[p + Len(s) + (k - Len(s)) - 1] = t[k - Len(s)]
        BY <4>1, <1>3 DEF Stands
      <4>3. st[Len(s) + (k - Len(s))] = t[k - Len(s)]
        BY <4>1, <1>1 DEF st
      <4> QED BY <4>1, <4>2, <4>3
    <3>3. k \in Nat
      BY <1>1 DEF st
    <3> QED BY <1>1, <3>1, <3>2, <3>3
  <2>2. p + Len(st) = Len(archive) + 1
    BY <1>1, <1>3 DEF Stands, st
  <2> QED BY <2>1, <2>2 DEF Stands
<1> QED BY <1>2, <1>3 DEF st

(* A file at the head of what stands there is the file the pass finds. *)
LEMMA FileStands ==
  ASSUME NEW archive \in Archives, NEW p \in 1..Len(archive),
         NEW n \in FileNames, NEW file \in Files,
         \A k \in 1..Len(Written(n, file)) : archive[p + k - 1] = Written(n, file)[k],
         p + Len(Written(n, file)) <= Len(archive) + 1
  PROVE  /\ archive[p] # ZeroBlock /\ FileAccepted(archive, p)
         /\ archive[p].name = n /\ NextHeader(archive, p) = p + Len(Written(n, file))
<1> DEFINE w == Written(n, file)
<1>1. /\ Len(w) = 1 + BlocksOf(file.size) /\ BlocksOf(file.size) \in Nat
      /\ w[1] = Header(n, file.size)
      /\ \A k \in 1..BlocksOf(file.size) : w[k + 1] = file.content[k]
  BY WrittenIsSequence
<1>2. /\ file.size \in Nat /\ file.content \in Seq(Blocks)
      /\ Len(file.content) = BlocksOf(file.size)
      /\ file.size % 2 = 1 =>
           /\ BlocksOf(file.size) >= 1
           /\ file.content[BlocksOf(file.size)] \in {ZeroBlock, Block("half")}
  BY FileContent
<1>3. p \in Nat /\ Len(archive) \in Nat
  BY ArchiveIsSequence
<1> HIDE DEF w
<1>4. /\ \A k \in 1..Len(w) : archive[p + k - 1] = w[k]
      /\ p + Len(w) <= Len(archive) + 1
  BY DEF w
<1>5. archive[p] = Header(n, file.size)
  <2>1. 1 \in 1..Len(w) /\ p + 1 - 1 = p
    BY <1>1, <1>3
  <2> QED BY <2>1, <1>1, <1>4
<1>6. /\ archive[p] # ZeroBlock /\ archive[p].kind = "header"
      /\ archive[p].name = n /\ archive[p].size = file.size
  BY <1>5, BlockKinds
<1>7. NextHeader(archive, p) = p + Len(w)
  BY <1>1, <1>3, <1>6 DEF NextHeader
<1>8. PaddingIsZero(archive, p)
  <2> SUFFICES ASSUME file.size % 2 = 1
               PROVE  archive[NextHeader(archive, p) - 1].kind \in {"zero", "half"}
    BY <1>6 DEF PaddingIsZero
  <2> DEFINE b == BlocksOf(file.size)
  <2>1. b \in 1..b /\ b + 1 \in 1..Len(w) /\ p + (b + 1) - 1 = NextHeader(archive, p) - 1
    <3>1. b >= 1 /\ b \in Nat /\ Len(w) = 1 + b
      BY <1>1, <1>2
    <3> HIDE DEF b
    <3> QED BY <3>1, <1>3, <1>7
  <2>2. w[b + 1] = file.content[b] /\ file.content[b] \in {ZeroBlock, Block("half")}
    BY <1>1, <1>2, <2>1
  <2> HIDE DEF b
  <2>3. archive[NextHeader(archive, p) - 1] = w[b + 1]
    BY <2>1, <1>4
  <2>4. Block("half").kind = "half"
    BY DEF Block
  <2> QED BY <2>2, <2>3, <2>4, BlockKinds
<1> QED BY <1>4, <1>6, <1>7, <1>8 DEF FileAccepted, w

(* Where a bundle stands the pass finds the names of its files and its zeros. *)
LEMMA BundleIsFound ==
  ASSUME NEW archive \in Archives
  PROVE  \A p \in 1..(Len(archive) + 1) :
           \A names \in Seq(FileNames) : \A files \in FilesOf(names) : \A zeros \in Nat :
             Stands(archive, p, Bundle(names, files, zeros)) =>
               PassFrom(archive)[p] =
                 [accepted |-> TRUE, names |-> names, zeroBlocks |-> zeros]
<1> DEFINE N == Len(archive)
           Reads(p) == \A names \in Seq(FileNames) : \A files \in FilesOf(names) : \A zeros \in Nat :
             Stands(archive, p, Bundle(names, files, zeros)) =>
               PassFrom(archive)[p] =
                 [accepted |-> TRUE, names |-> names, zeroBlocks |-> zeros]
           Good == {p \in 1..(N + 1) : Reads(p)}
<1>1. archive \in Seq(Blocks) /\ N \in Nat
  BY ArchiveIsSequence
<1>2. ASSUME NEW p \in 1..(N + 1), \A q \in (p + 1)..(N + 1) : q \in Good,
             NEW names \in Seq(FileNames), NEW files \in FilesOf(names), NEW zeros \in Nat,
             Stands(archive, p, Bundle(names, files, zeros))
      PROVE  PassFrom(archive)[p] = [accepted |-> TRUE, names |-> names, zeroBlocks |-> zeros]
  <2> HIDE DEF Reads
  <2>0. \A q \in (p + 1)..(N + 1) : Reads(q)
    BY <1>2
  <2> HIDE DEF Good
  <2>1. CASE Len(names) = 0
    <3>1. names = <<>>
      BY <2>1
    <3>2. Stands(archive, p, ZeroBlocks(zeros))
      BY <1>2, <2>1, NoFiles
    <3>3. Len(ZeroBlocks(zeros)) = zeros /\ \A k \in 1..zeros : ZeroBlocks(zeros)[k] = ZeroBlock
      BY DEF ZeroBlocks
    <3>4. CASE zeros = 0
      <4>1. p = N + 1
        BY <3>2, <3>3, <3>4, <1>1 DEF Stands
      <4> QED BY <3>1, <3>4, <4>1, PassFromEquation DEF AtTheEnd
    <3>5. CASE zeros # 0
      <4>1. p \in 1..N /\ zeros - 1 \in Nat /\ p + 1 \in (p + 1)..(N + 1) /\ p + zeros = N + 1
        BY <3>2, <3>3, <3>5, <1>1 DEF Stands
      <4>2. archive[p] = ZeroBlock
        <5>1. 1 \in 1..zeros /\ p + 1 - 1 = p
          BY <3>5
        <5> QED BY <5>1, <3>2, <3>3 DEF Stands
      <4>3. Stands(archive, p + 1, ZeroBlocks(zeros - 1))
        <5>1. Len(ZeroBlocks(zeros - 1)) = zeros - 1
              /\ \A k \in 1..(zeros - 1) : ZeroBlocks(zeros - 1)[k] = ZeroBlock
          BY <4>1 DEF ZeroBlocks
        <5>2. ASSUME NEW k \in 1..(zeros - 1) PROVE archive[(p + 1) + k - 1] = ZeroBlock
          <6>1. k + 1 \in 1..zeros /\ p + (k + 1) - 1 = (p + 1) + k - 1
            OBVIOUS
          <6> QED BY <6>1, <3>2, <3>3 DEF Stands
        <5> DEFINE s == ZeroBlocks(zeros - 1)
        <5>3. Len(s) = zeros - 1 /\ \A k \in 1..(zeros - 1) : s[k] = ZeroBlock
          BY <5>1
        <5> HIDE DEF s
        <5>4. \A k \in 1..Len(s) : archive[(p + 1) + k - 1] = s[k]
          BY <5>2, <5>3
        <5>5. (p + 1) + Len(s) = N + 1
          BY <5>3, <4>1
        <5>6. Stands(archive, p + 1, s)
          BY <5>4, <5>5 DEF Stands
        <5> QED BY <5>6 DEF s
      <4>4. <<>> \in Seq(FileNames) /\ <<>> \in FilesOf(<<>>) /\ Len(<<>>) = 0
        BY DEF FilesOf
      <4>5. Stands(archive, p + 1, Bundle(<<>>, <<>>, zeros - 1))
        BY <4>1, <4>3, <4>4, NoFiles
      <4>6. PassFrom(archive)[p + 1] =
              [accepted |-> TRUE, names |-> <<>>, zeroBlocks |-> zeros - 1]
        BY <2>0, <4>1, <4>4, <4>5 DEF Reads
      <4>7. PassFrom(archive)[p] = ZeroBefore(PassFrom(archive)[p + 1])
        BY <4>1, <4>2, PassFromEquation DEF StepAt, LookAt
      <4>8. (zeros - 1) + 1 = zeros
        OBVIOUS
      <4> DEFINE r == PassFrom(archive)[p + 1]
      <4>9. r.accepted = TRUE /\ r.names = <<>> /\ r.zeroBlocks = zeros - 1
        BY <4>6
      <4> HIDE DEF r
      <4>10. ZeroBefore(r) = [accepted |-> TRUE, names |-> names, zeroBlocks |-> zeros]
        BY <3>1, <4>8, <4>9 DEF ZeroBefore
      <4> QED BY <4>7, <4>10 DEF r
    <3> QED BY <3>4, <3>5
  <2>2. CASE Len(names) # 0
    <3> DEFINE n == names[1]
               f == files[1]
               w == Written(n, f)
               rest == Bundle(Tail(names), Tail(files), zeros)
    <3>1. /\ Tail(names) \in Seq(FileNames) /\ Tail(files) \in FilesOf(Tail(names))
          /\ n \in FileNames /\ f \in Files
          /\ Bundle(names, files, zeros) = w \o rest
      BY <2>2, FirstOfBundle
    <3>2. w \in Seq(Blocks) /\ Len(w) >= 1 /\ Len(w) \in Nat /\ rest \in Seq(Blocks)
      <4>1. w \in Seq(Blocks) /\ Len(w) = 1 + BlocksOf(f.size) /\ BlocksOf(f.size) \in Nat
        BY <3>1, WrittenIsSequence
      <4>2. rest \in Seq(Blocks)
        BY <3>1, BundleIsSequence
      <4> HIDE DEF w, rest
      <4> QED BY <4>1, <4>2
    <3> HIDE DEF rest, w, n, f
    <3>3. /\ \A k \in 1..Len(w) : archive[p + k - 1] = w[k]
          /\ Stands(archive, p + Len(w), rest)
      BY <1>1, <1>2, <3>1, <3>2, StandsInParts
    <3>4. p + Len(w) <= N + 1 /\ p \in 1..N /\ p + Len(w) \in (p + 1)..(N + 1)
      <4>1. p + Len(w) + Len(rest) = N + 1 /\ Len(rest) \in Nat
        BY <3>2, <3>3 DEF Stands
      <4> QED BY <4>1, <3>2, <1>1
    <3>5. /\ archive[p] # ZeroBlock /\ FileAccepted(archive, p)
          /\ archive[p].name = n /\ NextHeader(archive, p) = p + Len(w)
      BY <3>1, <3>3, <3>4, FileStands DEF w
    <3>6. PassFrom(archive)[p + Len(w)] =
            [accepted |-> TRUE, names |-> Tail(names), zeroBlocks |-> zeros]
      BY <2>0, <3>1, <3>3, <3>4 DEF Reads, rest
    <3>7. PassFrom(archive)[p] = Prepend(n, PassFrom(archive)[p + Len(w)])
      BY <3>4, <3>5, PassFromEquation DEF StepAt, LookAt
    <3>8. <<n>> \o Tail(names) = names
      BY <2>2 DEF n
    <3> DEFINE r == PassFrom(archive)[p + Len(w)]
    <3>9. r.accepted = TRUE /\ r.names = Tail(names) /\ r.zeroBlocks = zeros
      BY <3>6
    <3> HIDE DEF r
    <3>10. Prepend(n, r) = [accepted |-> TRUE, names |-> names, zeroBlocks |-> zeros]
      BY <3>8, <3>9 DEF Prepend
    <3> QED BY <3>7, <3>10 DEF r
  <2> QED BY <2>1, <2>2
<1>3. ASSUME NEW p \in 1..(N + 1), \A q \in (p + 1)..(N + 1) : q \in Good PROVE p \in Good
  BY <1>2, <1>3
<1>4. N + 1 \in Nat
  BY <1>1
<1> HIDE DEF Good
<1>5. \A p \in 1..(N + 1) : p \in Good
  BY <1>3, <1>4, Downward
<1> QED BY <1>5 DEF Good

(* A header the pass takes is followed by the content of a file. *)
LEMMA FileTaken ==
  ASSUME NEW archive \in Archives, NEW p \in 1..Len(archive), FileAccepted(archive, p)
  PROVE  /\ archive[p].name \in FileNames
         /\ NextHeader(archive, p) \in (p + 1)..(Len(archive) + 1)
         /\ \E file \in Files :
              LET w == Written(archive[p].name, file) IN
              /\ p + Len(w) = NextHeader(archive, p)
              /\ \A k \in 1..Len(w) : archive[p + k - 1] = w[k]
<1> DEFINE n == archive[p].name
           s == archive[p].size
           b == BlocksOf(s)
           c == [k \in 1..b |-> archive[p + k]]
           file == [size |-> s, content |-> c]
           w == Written(n, file)
<1>1. archive \in Seq(Blocks) /\ Len(archive) \in Nat /\ archive[p] \in Blocks
  BY ArchiveIsSequence
<1>2. n \in FileNames /\ s \in FileSizes /\ archive[p] = Header(n, s) /\ s \in Nat
  BY <1>1, BlockKinds, BundleAssumption DEF FileAccepted
<1>3. b \in Nat /\ (s % 2 = 1 => b >= 1)
  BY <1>2 DEF BlocksOf
<1>4. NextHeader(archive, p) = p + 1 + b /\ p + 1 + b <= Len(archive) + 1
  BY DEF NextHeader, FileAccepted
<1> HIDE DEF s, b, n
<1>5. c \in Seq(Blocks) /\ Len(c) = b
  <2>1. \A k \in 1..b : archive[p + k] \in Blocks
    BY <1>1, <1>3, <1>4
  <2> QED BY <2>1, <1>3
<1>6. ASSUME s % 2 = 1 PROVE c[Len(c)] \in {ZeroBlock, Block("half")}
  <2>1. b \in 1..b /\ p + 1 + b - 1 = p + b /\ p + b \in 1..Len(archive)
    BY <1>1, <1>3, <1>4, <1>6
  <2>2. archive[NextHeader(archive, p) - 1].kind \in {"zero", "half"}
    BY <1>6 DEF FileAccepted, PaddingIsZero, s
  <2>3. archive[p + b].kind \in {"zero", "half"} /\ archive[p + b] \in Blocks
    BY <2>1, <2>2, <1>1, <1>4
  <2>4. archive[p + b] \in {ZeroBlock, Block("half")}
    BY <2>3, BlockKinds
  <2> QED BY <2>1, <2>4, <1>5
<1> HIDE DEF c
<1>7. file \in Files
  BY <1>2, <1>5, <1>6, FileFromContent DEF b
<1>8. file.size = s /\ file.content = c
  OBVIOUS
<1> HIDE DEF file
<1>9. /\ Len(w) = 1 + b /\ w[1] = Header(n, s)
      /\ \A k \in 1..b : w[k + 1] = c[k]
  BY <1>2, <1>7, <1>8, WrittenIsSequence DEF b
<1> HIDE DEF w
<1>10. ASSUME NEW k \in 1..Len(w) PROVE archive[p + k - 1] = w[k]
  <2>1. CASE k = 1
    BY <2>1, <1>2, <1>9
  <2>2. CASE k # 1
    <3>1. k - 1 \in 1..b /\ (k - 1) + 1 = k /\ p + (k - 1) = p + k - 1
      BY <2>2, <1>3, <1>9
    <3>2. w[(k - 1) + 1] = c[k - 1]
      BY <3>1, <1>9
    <3>3. c[k - 1] = archive[p + (k - 1)]
      BY <3>1 DEF c
    <3> QED BY <3>1, <3>2, <3>3
  <2> QED BY <2>1, <2>2
<1>11. p + Len(w) = NextHeader(archive, p) /\ NextHeader(archive, p) \in (p + 1)..(Len(archive) + 1)
  <2>1. Len(w) = 1 + b
    BY <1>9
  <2>2. p \in Nat
    BY <1>1
  <2> QED BY <2>1, <2>2, <1>1, <1>3, <1>4
<1> QED BY <1>2, <1>7, <1>10, <1>11 DEF n, w

(* What the pass accepts from a block on is a bundle with the names it read. *)
LEMMA FoundIsBundle ==
  ASSUME NEW archive \in Archives
  PROVE  \A p \in 1..(Len(archive) + 1) :
           LET found == PassFrom(archive)[p] IN
           found.accepted =>
             \E files \in FilesOf(found.names) :
               Stands(archive, p, Bundle(found.names, files, found.zeroBlocks))
<1> DEFINE N == Len(archive)
           F(p) == PassFrom(archive)[p]
           Explained(p) == F(p).accepted =>
             \E files \in FilesOf(F(p).names) :
               Stands(archive, p, Bundle(F(p).names, files, F(p).zeroBlocks))
           Good == {p \in 1..(N + 1) : Explained(p)}
<1>1. archive \in Seq(Blocks) /\ N \in Nat
  BY ArchiveIsSequence
<1>2. \A p \in 1..(N + 1) : F(p) \in Findings
  BY PassFromEquation
<1>3. /\ F(N + 1) = AtTheEnd
      /\ \A p \in 1..N : F(p) = StepAt(archive, p, F(LookAt(archive, p)))
  BY PassFromEquation
<1>4. <<>> \in Seq(FileNames) /\ <<>> \in FilesOf(<<>>) /\ Len(<<>>) = 0
  BY DEF FilesOf
<1> HIDE DEF F
<1>5. ASSUME NEW p \in 1..(N + 1), \A q \in (p + 1)..(N + 1) : q \in Good, F(p).accepted
      PROVE  \E files \in FilesOf(F(p).names) :
               Stands(archive, p, Bundle(F(p).names, files, F(p).zeroBlocks))
  <2> HIDE DEF Explained
  <2>1. \A q \in (p + 1)..(N + 1) : Explained(q)
    BY <1>5
  <2> HIDE DEF Good
  <2>2. CASE p = N + 1
    <3>1. F(p).names = <<>> /\ F(p).zeroBlocks = 0
      BY <2>2, <1>3 DEF AtTheEnd
    <3>2. Bundle(<<>>, <<>>, 0) = ZeroBlocks(0)
      BY <1>4, NoFiles
    <3>3. Stands(archive, p, ZeroBlocks(0))
      BY <2>2, <1>1 DEF Stands, ZeroBlocks
    <3> QED BY <1>4, <3>1, <3>2, <3>3
  <2>3. CASE p \in 1..N /\ archive[p] = ZeroBlock
    <3> DEFINE r == F(p + 1)
    <3>1. F(p) = ZeroBefore(r) /\ p + 1 \in (p + 1)..(N + 1) /\ p + 1 \in 1..(N + 1)
      BY <2>3, <1>1, <1>3 DEF StepAt, LookAt
    <3>2. r \in Findings
      BY <3>1, <1>2
    <3>3. Explained(p + 1)
      BY <3>1, <2>1
    <3> DEFINE z == r.zeroBlocks
    <3>4. r.accepted /\ r.names = <<>> /\ z \in Nat /\ F(p).names = <<>> /\ F(p).zeroBlocks = z + 1
      <4> HIDE DEF r
      <4>1. r.zeroBlocks \in Nat
        BY <3>2 DEF Findings
      <4>2. /\ ZeroBefore(r).accepted <=> r.accepted /\ r.names = <<>>
            /\ ZeroBefore(r).names = r.names /\ ZeroBefore(r).zeroBlocks = r.zeroBlocks + 1
        BY <3>2 DEF Findings, ZeroBefore
      <4>3. ZeroBefore(r).accepted
        BY <3>1, <1>5
      <4> QED BY <4>1, <4>2, <4>3, <3>1
    <3>5. PICK files \in FilesOf(<<>>) : Stands(archive, p + 1, Bundle(<<>>, files, z))
      BY <3>3, <3>4 DEF Explained
    <3> HIDE DEF r, z
    <3>6. Bundle(<<>>, files, z) = ZeroBlocks(z) /\ Bundle(<<>>, files, z + 1) = ZeroBlocks(z + 1)
      <4>1. z \in Nat /\ z + 1 \in Nat
        BY <3>4
      <4> QED BY <4>1, <1>4, NoFiles
    <3>7. Stands(archive, p, ZeroBlocks(z + 1))
      <4>1. /\ Len(ZeroBlocks(z)) = z /\ Len(ZeroBlocks(z + 1)) = z + 1
            /\ \A k \in 1..z : ZeroBlocks(z)[k] = ZeroBlock
            /\ \A k \in 1..(z + 1) : ZeroBlocks(z + 1)[k] = ZeroBlock
        BY <3>4 DEF ZeroBlocks
      <4>2. p + 1 + z = N + 1 /\ \A k \in 1..z : archive[p + 1 + k - 1] = ZeroBlock
        <5>1. Stands(archive, p + 1, ZeroBlocks(z))
          BY <3>5, <3>6
        <5>2. (p + 1) + Len(ZeroBlocks(z)) = N + 1
              /\ \A k \in 1..Len(ZeroBlocks(z)) : archive[(p + 1) + k - 1] = ZeroBlocks(z)[k]
          BY <5>1 DEF Stands
        <5> QED BY <5>2, <4>1
      <4>3. ASSUME NEW k \in 1..(z + 1) PROVE archive[p + k - 1] = ZeroBlock
        <5>1. CASE k = 1
          BY <5>1, <2>3
        <5>2. CASE k # 1
          <6>1. k - 1 \in 1..z /\ p + 1 + (k - 1) - 1 = p + k - 1
            BY <5>2, <3>4
          <6> QED BY <6>1, <4>2
        <5> QED BY <5>1, <5>2
      <4>4. p + (z + 1) = N + 1
        BY <4>2, <3>4, <2>3
      <4> DEFINE s == ZeroBlocks(z + 1)
      <4>5. Len(s) = z + 1 /\ \A k \in 1..(z + 1) : s[k] = ZeroBlock
        BY <4>1
      <4> HIDE DEF s
      <4>6. \A k \in 1..Len(s) : archive[p + k - 1] = s[k]
        BY <4>3, <4>5
      <4>7. Stands(archive, p, s)
        BY <4>4, <4>5, <4>6 DEF Stands
      <4> QED BY <4>7 DEF s
    <3> QED BY <3>4, <3>6, <3>7
  <2>4. CASE p \in 1..N /\ archive[p] # ZeroBlock
    <3>1. FileAccepted(archive, p)
      BY <2>4, <1>3, <1>5 DEF StepAt, Refused
    <3> DEFINE n == archive[p].name
               q == NextHeader(archive, p)
               r == F(q)
    <3>2. n \in FileNames /\ q \in (p + 1)..(N + 1) /\ q \in 1..(N + 1) /\ q \in Nat
      <4>1. n \in FileNames /\ q \in (p + 1)..(N + 1)
        BY <2>4, <3>1, FileTaken
      <4> HIDE DEF q
      <4> QED BY <4>1, <1>1
    <3>3. PICK file \in Files :
            /\ p + Len(Written(n, file)) = q
            /\ \A k \in 1..Len(Written(n, file)) : archive[p + k - 1] = Written(n, file)[k]
      BY <2>4, <3>1, FileTaken
    <3>4. F(p) = Prepend(n, r)
      BY <2>4, <3>1, <1>3 DEF StepAt, LookAt
    <3> HIDE DEF q, n
    <3>5. r \in Findings /\ Explained(q)
      BY <3>2, <1>2, <2>1
    <3> DEFINE rn == r.names
               z == r.zeroBlocks
    <3>6. r.accepted /\ rn \in Seq(FileNames) /\ z \in Nat
          /\ F(p).names = <<n>> \o rn /\ F(p).zeroBlocks = z
      <4> HIDE DEF r
      <4>1. rn \in Seq(FileNames) /\ z \in Nat
        BY <3>5 DEF Findings
      <4> QED BY <4>1, <3>4, <1>5 DEF Prepend
    <3>7. PICK files \in FilesOf(rn) : Stands(archive, q, Bundle(rn, files, z))
      BY <3>5, <3>6 DEF Explained
    <3> DEFINE names == <<n>> \o rn
               all == <<file>> \o files
               w == Written(n, file)
               rest == Bundle(rn, files, z)
    <3>8. /\ names \in Seq(FileNames) /\ Len(names) # 0 /\ all \in FilesOf(names)
          /\ names[1] = n /\ all[1] = file /\ Tail(names) = rn /\ Tail(all) = files
      <4>1. files \in Seq(Files) /\ Len(files) = Len(rn)
        BY DEF FilesOf
      <4> HIDE DEF rn
      <4>2. names \in Seq(FileNames) /\ Len(names) = 1 + Len(rn) /\ Len(rn) \in Nat
            /\ names[1] = n /\ Tail(names) = rn
        BY <3>2, <3>6
      <4>3. all \in Seq(Files) /\ Len(all) = 1 + Len(rn) /\ all[1] = file /\ Tail(all) = files
        BY <4>1, <4>2
      <4> HIDE DEF names, all
      <4> QED BY <4>2, <4>3 DEF FilesOf
    <3> HIDE DEF names, all, rn, z, r
    <3>9. Bundle(names, all, z) = w \o rest
      BY <3>6, <3>8, FirstOfBundle
    <3>10. w \in Seq(Blocks) /\ rest \in Seq(Blocks)
      BY <3>2, <3>6, WrittenIsSequence, BundleIsSequence
    <3> HIDE DEF w, rest
    <3>11. Stands(archive, p, w \o rest)
      <4>1. p + Len(w) = q /\ \A k \in 1..Len(w) : archive[p + k - 1] = w[k]
        BY <3>3 DEF w
      <4>2. Stands(archive, p + Len(w), rest)
        BY <3>7, <4>1 DEF rest
      <4>3. p \in Nat
        BY <1>1
      <4> QED BY <4>1, <4>2, <4>3, <3>10, <1>1, StandsInParts
    <3>12. F(p).names = names /\ F(p).zeroBlocks = z
      BY <3>6 DEF names
    <3> QED BY <3>8, <3>9, <3>11, <3>12
  <2> QED BY <2>2, <2>3, <2>4, <1>1
<1>6. ASSUME NEW p \in 1..(N + 1), \A q \in (p + 1)..(N + 1) : q \in Good PROVE p \in Good
  BY <1>5, <1>6
<1>7. N + 1 \in Nat
  BY <1>1
<1> HIDE DEF Good
<1>8. \A p \in 1..(N + 1) : p \in Good
  BY <1>6, <1>7, Downward
<1> QED BY <1>8 DEF Good, F

---------------------------------------------------------------------------
(* Names each greater than the one before are in order altogether. *)
LEMMA SortedIsInOrder ==
  ASSUME NEW names \in Seq(FileNames)
  PROVE  Sorted(names) <=> InOrder(names)
<1>1. Len(names) \in Nat /\ DOMAIN names = 1..Len(names)
      /\ \A i \in 1..Len(names) : names[i] \in Nat
  <2>1. \A i \in 1..Len(names) : names[i] \in FileNames
    OBVIOUS
  <2>2. Len(names) \in Nat /\ DOMAIN names = 1..Len(names)
    OBVIOUS
  <2> QED BY <2>1, <2>2, BundleAssumption
<1>2. ASSUME InOrder(names) PROVE Sorted(names)
  BY <1>1, <1>2 DEF InOrder, Sorted
<1>3. ASSUME Sorted(names), NEW i \in 1..Len(names)
      PROVE  \A j \in 1..Len(names) : i < j => names[i] < names[j]
  <2> DEFINE T == {j \in 1..Len(names) : i < j /\ ~(names[i] < names[j])}
  <2> SUFFICES ASSUME T # {} PROVE FALSE
    OBVIOUS
  <2>1. T \in SUBSET Nat
    BY <1>1
  <2>2. PICK j \in T : \A m \in T : j <= m
    <3> HIDE DEF T
    <3> QED BY <2>1, NatLeast
  <2>3. j \in 1..Len(names) /\ i < j /\ ~(names[i] < names[j]) /\ j - 1 \in 1..(Len(names) - 1)
    BY <1>1, <2>2
  <2>4. names[j - 1] < names[(j - 1) + 1] /\ (j - 1) + 1 = j /\ j - 1 \in 1..Len(names)
    BY <1>1, <1>3, <2>3 DEF Sorted
  <2>5. j - 1 \notin T
    BY <2>2, <2>3
  <2>6. names[i] \in Nat /\ names[j - 1] \in Nat /\ names[j] \in Nat
    BY <1>1, <2>3, <2>4
  <2>7. CASE j - 1 = i
    BY <2>3, <2>4, <2>7
  <2>8. CASE j - 1 # i
    <3>1. names[i] < names[j - 1]
      BY <2>3, <2>4, <2>5, <2>8
    <3>2. names[j - 1] < names[j]
      BY <2>4
    <3> QED BY <2>3, <2>6, <3>1, <3>2
  <2> QED BY <2>7, <2>8
<1>4. ASSUME Sorted(names) PROVE InOrder(names)
  BY <1>1, <1>3, <1>4 DEF InOrder
<1> QED BY <1>2, <1>4

(* From the first block on an archive stands whole. *)
LEMMA StandsWhole ==
  ASSUME NEW archive \in Seq(Blocks), NEW s \in Seq(Blocks)
  PROVE  Stands(archive, 1, s) <=> s = archive
<1>1. ASSUME Stands(archive, 1, s) PROVE s = archive
  <2>1. Len(s) = Len(archive) /\ \A k \in 1..Len(s) : archive[1 + k - 1] = s[k]
    BY <1>1 DEF Stands
  <2>2. \A k \in 1..Len(s) : archive[k] = s[k]
    BY <2>1
  <2> QED BY <2>1, <2>2
<1>2. Stands(archive, 1, archive)
  BY DEF Stands
<1> QED BY <1>1, <1>2

LEMMA NameListsAre ==
  NameLists = {names \in Seq(FileNames) : Len(names) <= MaxBlocks /\ InOrder(names)}
<1>1. ASSUME NEW names \in NameLists
      PROVE  names \in Seq(FileNames) /\ Len(names) <= MaxBlocks /\ InOrder(names)
  BY BundleAssumption DEF NameLists
<1>2. ASSUME NEW names \in Seq(FileNames), Len(names) <= MaxBlocks, InOrder(names)
      PROVE  names \in NameLists
  <2>1. Len(names) \in 0..MaxBlocks /\ names \in [1..Len(names) -> FileNames]
    BY <1>2, BundleAssumption
  <2> QED BY <1>2, <2>1 DEF NameLists
<1> QED BY <1>1, <1>2

LEMMA BundlesAre ==
  ASSUME NEW b
  PROVE  b \in Bundles <=>
           \E names \in NameLists : \E files \in FilesOf(names) : \E zeros \in 2..MaxBlocks :
             /\ b = [archive |-> Bundle(names, files, zeros), names |-> names]
             /\ Len(b.archive) <= MaxBlocks
<1>1. ASSUME NEW names \in NameLists PROVE FilesOf(names) = [1..Len(names) -> Files]
  <2>1. Len(names) \in Nat
    BY NameListsAre
  <2> QED BY <2>1 DEF FilesOf
<1>2. ASSUME b \in Bundles
      PROVE  \E names \in NameLists : \E files \in FilesOf(names) : \E zeros \in 2..MaxBlocks :
               /\ b = [archive |-> Bundle(names, files, zeros), names |-> names]
               /\ Len(b.archive) <= MaxBlocks
  <2>1. PICK names \in NameLists :
          b \in {[archive |-> Bundle(names, files, zeros), names |-> names] :
                   files \in [1..Len(names) -> Files], zeros \in 2..MaxBlocks}
    BY <1>2 DEF Bundles
  <2>2. PICK files \in [1..Len(names) -> Files], zeros \in 2..MaxBlocks :
          b = [archive |-> Bundle(names, files, zeros), names |-> names]
    BY <2>1
  <2>3. Len(b.archive) <= MaxBlocks
    BY <1>2 DEF Bundles
  <2> QED BY <1>1, <2>2, <2>3
<1>3. ASSUME NEW names \in NameLists, NEW files \in FilesOf(names), NEW zeros \in 2..MaxBlocks,
             b = [archive |-> Bundle(names, files, zeros), names |-> names],
             Len(b.archive) <= MaxBlocks
      PROVE  b \in Bundles
  <2>1. files \in [1..Len(names) -> Files]
    BY <1>1
  <2>2. b \in {[archive |-> Bundle(names, fs, zs), names |-> names] :
                 fs \in [1..Len(names) -> Files], zs \in 2..MaxBlocks}
    BY <1>3, <2>1
  <2> QED BY <1>3, <2>2 DEF Bundles
<1> QED BY <1>2, <1>3

(* What the check accepts is a bundle, and the names it read are the names *)
(* of its files, in every archive of at most MaxBlocks blocks              *)
(* (verifySourceBundle, cross-runner.mjs:326-391).                         *)
THEOREM AcceptedIsBundle ==
  ASSUME NEW archive \in Archives, VerifySourceBundle(archive)
  PROVE  [archive |-> archive, names |-> Pass(archive).names] \in Bundles
<1> DEFINE found == PassFrom(archive)[1]
           names == found.names
           zeros == found.zeroBlocks
<1>1. archive \in Seq(Blocks) /\ Len(archive) \in 1..MaxBlocks /\ MaxBlocks \in Nat
  BY ArchiveIsSequence, BundleAssumption
<1>2. found \in Findings
  <2>1. 1 \in 1..(Len(archive) + 1)
    BY <1>1
  <2> QED BY <2>1, PassFromEquation
<1>3. found.accepted /\ zeros >= 2 /\ Sorted(names)
  BY DEF VerifySourceBundle, Pass, EndsInZeros
<1>4. names \in Seq(FileNames) /\ zeros \in Nat
  BY <1>2 DEF Findings
<1>5. PICK files \in FilesOf(names) : Stands(archive, 1, Bundle(names, files, zeros))
  <2>1. 1 \in 1..(Len(archive) + 1)
    BY <1>1
  <2> QED BY <2>1, <1>3, FoundIsBundle
<1> HIDE DEF names, zeros
<1>6. /\ Bundle(names, files, zeros) \in Seq(Blocks)
      /\ Len(Bundle(names, files, zeros)) >= Len(names) + zeros
  BY <1>4, BundleIsSequence
<1>7. Bundle(names, files, zeros) = archive
  BY <1>1, <1>5, <1>6, StandsWhole
<1>8. Len(names) <= MaxBlocks /\ zeros \in 2..MaxBlocks /\ Len(archive) <= MaxBlocks
  <2>1. Len(names) \in Nat
    BY <1>4
  <2> QED BY <2>1, <1>1, <1>3, <1>4, <1>6, <1>7
<1>9. names \in NameLists
  BY <1>3, <1>4, <1>8, NameListsAre, SortedIsInOrder
<1> DEFINE b == [archive |-> archive, names |-> names]
<1>10. b = [archive |-> Bundle(names, files, zeros), names |-> names] /\ Len(b.archive) <= MaxBlocks
  BY <1>7, <1>8
<1> HIDE DEF b
<1>11. b \in Bundles
  BY <1>8, <1>9, <1>10, BundlesAre
<1> QED BY <1>11 DEF b, names, Pass

(* The check accepts every bundle, whatever its files contain: no content  *)
(* is taken for a header or for the end of the archive.                    *)
THEOREM BundleIsAccepted ==
  ASSUME NEW archive \in Archives, archive \in Bundled
  PROVE  VerifySourceBundle(archive)
<1>1. archive \in Seq(Blocks) /\ Len(archive) \in 1..MaxBlocks /\ MaxBlocks \in Nat
  BY ArchiveIsSequence, BundleAssumption
<1>2. PICK b \in Bundles : b.archive = archive
  BY DEF Bundled
<1>3. PICK names \in NameLists : \E fs \in FilesOf(names) : \E zs \in 2..MaxBlocks :
        b = [archive |-> Bundle(names, fs, zs), names |-> names]
  BY <1>2, BundlesAre
<1>4. PICK files \in FilesOf(names), zeros \in 2..MaxBlocks :
        b = [archive |-> Bundle(names, files, zeros), names |-> names]
  BY <1>3
<1>5. names \in Seq(FileNames) /\ InOrder(names) /\ zeros \in Nat /\ zeros >= 2
  BY <1>1, NameListsAre
<1>6. Bundle(names, files, zeros) = archive
  BY <1>2, <1>4
<1>7. Stands(archive, 1, Bundle(names, files, zeros))
  BY <1>1, <1>6, StandsWhole
<1>8. PassFrom(archive)[1] = [accepted |-> TRUE, names |-> names, zeroBlocks |-> zeros]
  <2>1. 1 \in 1..(Len(archive) + 1)
    BY <1>1
  <2> QED BY <2>1, <1>5, <1>7, BundleIsFound
<1>9. Sorted(names)
  BY <1>5, SortedIsInOrder
<1> QED BY <1>5, <1>8, <1>9 DEF VerifySourceBundle, Pass, EndsInZeros

(* Whatever archives the command is handed, one after the other, the check *)
(* of the source bundle takes exactly the bundles among them.              *)
THEOREM BundlesAreAlwaysExact == BundleSpec => []BundlesAreExact
<1> DEFINE Handed == bundle = <<>> \/ bundle \in Archives
<1>1. ASSUME NEW archive \in Archives PROVE BundleIsExact(archive)
  BY AcceptedIsBundle, BundleIsAccepted DEF BundleIsExact
<1>2. bundle = <<>> => Handed
  OBVIOUS
<1>3. Handed /\ [HandBundle \/ ReturnBundle]_bundle => Handed'
  BY DEF HandBundle, ReturnBundle
<1>4. Handed => BundlesAreExact
  BY <1>1 DEF BundlesAreExact
<1> QED BY <1>2, <1>3, <1>4, PTL DEF BundleSpec
=============================================================================
