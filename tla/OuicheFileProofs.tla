-------------------------- MODULE OuicheFileProofs --------------------------
(***************************************************************************)
(* Every block named by an index belongs to one file only and is marked    *)
(* used, and the counter of free blocks agrees with the bitmap, whatever   *)
(* create, open, read, write, unlink and the packing of defrag do, for any *)
(* number of files and blocks and any width of the fields. No call that    *)
(* stays in its buffers changes the bytes of two files. Supported writes   *)
(* stay in their blocks and insert their bytes, so that supported calls    *)
(* implement the store of FileStore. The packing keeps the bytes of its    *)
(* file, leaves full blocks and counts what is left.                       *)
(***************************************************************************)
EXTENDS OuicheDefrag, FiniteSetTheorems, SequenceTheorems, WellFoundedInduction, TLAPS

-----------------------------------------------------------------------------
(* Words: what the four accessors of an index word compute, for every width *)
(* of the two fields.  Each setter changes its own field and keeps the      *)
(* other.                                                                   *)

\* Division with remainder, as the provers need it stated.
LEMMA DivMod ==
  ASSUME NEW e \in Int, NEW m \in Nat \ {0}
  PROVE  /\ e % m \in 0 .. m - 1
         /\ e \div m \in Int
         /\ e = m * (e \div m) + (e % m)
OBVIOUS

\* A word put together from two fields gives the fields back.
LEMMA Unpack ==
  ASSUME NEW m \in Nat \ {0}, NEW q \in Int, NEW r \in 0 .. m - 1
  PROVE  /\ (r + q * m) % m = r
         /\ (r + q * m) \div m = q
<1> DEFINE x == r + q * m
           u == x \div m
<1>1. x \in Int /\ u \in Int OBVIOUS
<1>2. x = m * u + (x % m) /\ x % m \in 0 .. m - 1 BY <1>1
<1>3. m * (u - q) = r - (x % m) BY <1>1, <1>2
<1>4. ~ (u - q >= 1)
  <2> SUFFICES ASSUME u - q >= 1 PROVE FALSE OBVIOUS
  <2> HIDE DEF u, x
  <2>1. m * (u - q) >= m BY <1>1
  <2> QED BY <2>1, <1>3, <1>2, <1>1
<1>5. ~ (q - u >= 1)
  <2> SUFFICES ASSUME q - u >= 1 PROVE FALSE OBVIOUS
  <2> HIDE DEF u, x
  <2>1. m * (u - q) =< -m BY <1>1
  <2> QED BY <2>1, <1>3, <1>2, <1>1
<1>6. u = q BY <1>1, <1>4, <1>5
<1> QED BY <1>1, <1>2, <1>3, <1>6

\* The two fields of a word lie in their ranges.
LEMMA FieldRange ==
  ASSUME NEW e \in Word
  PROVE  /\ get_block_number(e) \in 0 .. NumberMask - 1
         /\ get_block_size(e) \in 0 .. BlockSize - 1
         /\ e = get_block_number(e) + get_block_size(e) * NumberMask
<1> DEFINE q == e \div NumberMask
           r == e % NumberMask
<1>1. e \in Int /\ 0 =< e /\ e < NumberMask * BlockSize
  BY WidthAssumption DEF Word
<1>2. r \in 0 .. NumberMask - 1 /\ q \in Int /\ e = NumberMask * q + r
  BY <1>1, DivMod, WidthAssumption
<1> HIDE DEF q, r
<1>3. q >= 0
  <2> SUFFICES ASSUME q =< -1 PROVE FALSE BY <1>2
  <2>1. NumberMask * q =< - NumberMask BY <1>2, WidthAssumption
  <2> QED BY <2>1, <1>1, <1>2, WidthAssumption
<1>4. q < BlockSize
  <2> SUFFICES ASSUME q >= BlockSize PROVE FALSE
    BY <1>2, WidthAssumption
  <2>1. NumberMask * q >= NumberMask * BlockSize
    BY <1>2, WidthAssumption
  <2>2. NumberMask * q \in Int /\ NumberMask * BlockSize \in Int
    BY <1>2, WidthAssumption
  <2> QED BY <2>1, <2>2, <1>1, <1>2, WidthAssumption
<1>5. NumberMask * q = q * NumberMask BY <1>2, WidthAssumption
<1> QED
  BY <1>2, <1>3, <1>4, <1>5, WidthAssumption
     DEF get_block_number, get_block_size, q, r

\* A number and a size below their limits make a word.
LEMMA Packed ==
  ASSUME NEW n \in 0 .. NumberMask - 1, NEW s \in 0 .. BlockSize - 1
  PROVE  /\ n + s * NumberMask \in Word
         /\ get_block_number(n + s * NumberMask) = n
         /\ get_block_size(n + s * NumberMask) = s
<1>1. s * NumberMask =< (BlockSize - 1) * NumberMask
  BY WidthAssumption
<1>2. (BlockSize - 1) * NumberMask = NumberMask * BlockSize - NumberMask
  BY WidthAssumption
<1>3. s * NumberMask \in Nat /\ NumberMask * BlockSize \in Nat
  BY WidthAssumption
<1>4. n + s * NumberMask \in Word
  BY <1>1, <1>2, <1>3, WidthAssumption DEF Word
<1> QED BY <1>4, Unpack, WidthAssumption DEF get_block_number, get_block_size

\* set_block_number writes the low field, cut to its width, and keeps the size.
THEOREM SetNumber ==
  ASSUME NEW e \in Word, NEW n \in Nat
  PROVE  /\ set_block_number(e, n) \in Word
         /\ get_block_number(set_block_number(e, n)) = n % NumberMask
         /\ get_block_size(set_block_number(e, n)) = get_block_size(e)
<1> DEFINE low == n % NumberMask
           high == get_block_size(e)
<1>1. low \in 0 .. NumberMask - 1 BY DivMod, WidthAssumption
<1>2. high \in 0 .. BlockSize - 1 BY FieldRange
<1>3. set_block_number(e, n) = high * NumberMask + low
  BY DEF set_block_number, get_block_size
<1> HIDE DEF low, high
<1>4. set_block_number(e, n) = low + high * NumberMask
  BY <1>1, <1>2, <1>3, WidthAssumption
<1>5. QED
  BY <1>1, <1>2, <1>4, Packed DEF low, high

\* set_block_size writes the high field, cut to its width (4096 becomes 0), and
\* keeps the number.
THEOREM SetSize ==
  ASSUME NEW e \in Word, NEW s \in Int
  PROVE  /\ set_block_size(e, s) \in Word
         /\ get_block_number(set_block_size(e, s)) = get_block_number(e)
         /\ get_block_size(set_block_size(e, s)) = s % BlockSize
<1> DEFINE low == get_block_number(e)
           high == s % BlockSize
<1>1. low \in 0 .. NumberMask - 1 BY FieldRange
<1>2. high \in 0 .. BlockSize - 1 BY DivMod, WidthAssumption
<1>3. set_block_size(e, s) = low + high * NumberMask
  BY DEF set_block_size, get_block_number
<1>4. QED
  BY <1>1, <1>2, <1>3, Packed

-----------------------------------------------------------------------------
(* Operators *)

\* The smallest element of a set of naturals.
LEMMA MinNat ==
  ASSUME NEW S \in SUBSET Nat, S # {}
  PROVE  /\ Min(S) \in S
         /\ \A y \in S : Min(S) =< y
<1> DEFINE R == OpToRel(<, Nat)
<1>1. IsWellFoundedOn(R, Nat) BY NatLessThanWellFounded
<1>2. \A x, y \in Nat : x < y => <<x, y>> \in R BY DEF OpToRel
<1> HIDE DEF R
<1>3. S \subseteq Nat OBVIOUS
<1>4. PICK x \in S : \A y \in S : ~ (<<y, x>> \in R)
  BY <1>1, <1>3, WFMin
<1>5. ASSUME NEW y \in S PROVE x =< y
  <2>1. x \in Nat /\ y \in Nat /\ ~ (<<y, x>> \in R) BY <1>3, <1>4
  <2>2. ~ (y < x) BY <1>2, <2>1
  <2> QED BY <2>1, <2>2
<1> QED BY <1>5 DEF Min

\* The greater of two integers is an integer.
LEMMA MaxPair ==
  ASSUME NEW a \in Int, NEW b \in Int
  PROVE  Max({a, b}) \in Int
<1>1. \E x \in {a, b} : \A y \in {a, b} : x >= y OBVIOUS
<1> QED BY <1>1 DEF Max

\* A word is zero if its number is not, and its number is itself when put_block
\* accepts it.
LEMMA SmallWord ==
  ASSUME NEW e \in Word
  PROVE  /\ e = 0 => get_block_number(e) = 0
         /\ Accepted(e) => get_block_number(e) = e
<1>1. /\ get_block_number(e) \in 0 .. NumberMask - 1
      /\ get_block_size(e) \in 0 .. BlockSize - 1
      /\ e = get_block_number(e) + get_block_size(e) * NumberMask
  BY FieldRange
<1>2. NumberMask \in Nat /\ NrBlocks < NumberMask /\ NrBlocks \in Nat
  BY WidthAssumption, DiskAssumption
<1> DEFINE n == get_block_number(e)
           s == get_block_size(e)
<1> HIDE DEF n, s
<1>3. s = 0 \/ s >= 1 BY <1>1 DEF s
<1>4. s >= 1 => s * NumberMask >= NumberMask BY <1>1, <1>2 DEF s
<1>5. e < NumberMask => s = 0
  BY <1>1, <1>2, <1>3, <1>4, WidthAssumption DEF n, s
<1>6. e < NumberMask => n = e
  BY <1>1, <1>2, <1>5, WidthAssumption DEF n, s
<1> QED BY <1>2, <1>6, WidthAssumption DEF n, Accepted, Word

\* A copy of bytes into a block leaves a block.
LEMMA CopyTyped ==
  ASSUME NEW dst \in Block, NEW at \in Int, NEW from \in Int, NEW cnt \in Int,
         NEW src,
         \A x \in 0 .. BlockSize - 1 :
           at =< x /\ x < at + cnt => src[x - at + from] \in Byte
  PROVE  Copy(dst, at, src, from, cnt) \in Block
BY DEF Copy, Block

-----------------------------------------------------------------------------
(* The invariant *)

\* The words of the blocks that i_blocks counts are not zero, nor is the first
\* word of a file that has bytes, and a file without bytes has no data block
\* to shift.
Layout(X) ==
  \A f \in Linked \ X :
    /\ \A s \in Slots : s < NrUsed(f) => index[f][s] # 0
    /\ inode[f].size > 0 => index[f][0] # 0
    /\ inode[f].size = 0 => inode[f].blocks =< 1

\* NoSharing, with the index blocks and the words apart.
Separate ==
  /\ \A f \in Linked : inode[f].indexBlock \in DataBlocks \ free
  /\ \A f \in Linked, s \in Slots :
       index[f][s] # 0 => NumberAt(f, s) \in DataBlocks \ free
  /\ \A f, g \in Linked : inode[f].indexBlock = inode[g].indexBlock => f = g
  /\ \A f, g \in Linked, s \in Slots :
       index[g][s] # 0 => inode[f].indexBlock # NumberAt(g, s)
  /\ \A f, g \in Linked, s, t \in Slots :
       /\ index[f][s] # 0 /\ index[g][t] # 0
       /\ NumberAt(f, s) = NumberAt(g, t)
       => f = g /\ s = t

\* NoSharing is not inductive alone: a write gives a size to the word at
\* block_jump, and a word of 0 would then name block 0.
FileInv(X) == TypeOK /\ Separate /\ Layout(X)

\* What keeps index blocks and words apart keeps every place of a file apart.
LEMMA Shared == Separate => NoSharing
<1> SUFFICES ASSUME Separate,
                    NEW f \in Linked, NEW s \in Held(f),
                    NEW g \in Linked, NEW t \in Held(g)
             PROVE  /\ Place(f, s) \in DataBlocks \ free
                    /\ Place(f, s) = Place(g, t) => f = g /\ s = t
  BY DEF NoSharing
<1>1. -1 \notin Slots BY DEF Slots
<1>2. CASE s = -1 /\ t = -1 BY <1>2 DEF Separate, Place
<1>3. CASE s = -1 /\ t # -1
  BY <1>1, <1>3 DEF Separate, Place, Held
<1>4. CASE s # -1 /\ t = -1
  BY <1>1, <1>4 DEF Separate, Place, Held
<1>5. CASE s # -1 /\ t # -1
  <2>1. s \in Slots /\ t \in Slots /\ index[f][s] # 0 /\ index[g][t] # 0
    BY <1>5 DEF Held
  <2>2. Place(f, s) = NumberAt(f, s) /\ Place(g, t) = NumberAt(g, t)
    BY <1>5 DEF Place
  <2> QED BY <2>1, <2>2 DEF Separate
<1> QED BY <1>2, <1>3, <1>4, <1>5

\* What a write that passes the checks knows of its plan.
LEMMA PlanOf ==
  ASSUME NEW f \in Inodes, inode[f].blocks \in 0 .. MaxBlocks + 1,
         NEW off \in Offsets, NEW d \in Payloads,
         NEW w \in Plans(f, off, Len(d))
  PROVE  /\ Live(f)
         /\ w.bj \in Slots /\ w.byj \in Nat /\ w.n \in 1 .. MaxBlocks
         /\ NrUsed(f) \in -1 .. MaxBlocks
         /\ NrUsed(f) + w.n =< MaxBlocks
         /\ w.n =< Needed(w.byj, Len(d))
         /\ NrUsed(f) > 0 => w.bj < NrUsed(f)
         /\ NrUsed(f) =< 0 => w.bj = 0 /\ w.byj = 0
         /\ Len(d) \in Nat \ {0} /\ d \in Seq(Byte)
<1>1. /\ Live(f)
      /\ w.bj = BlockJump(f, off)
      /\ w.byj = ByteJump(f, off, w.bj)
      /\ w.n = NrToAllocate(f, w.byj, Len(d))
      /\ w \in Plan
  BY DEF Plans
<1>2. w.bj \in Slots /\ w.byj \in Nat /\ w.n \in 1 .. MaxBlocks
  <2>1. MaxFileSize \in Int
    BY WidthAssumption, DiskAssumption DEF MaxFileSize, MaxBlockSize
  <2> QED BY <1>1, <2>1 DEF Plan
<1>3. NrUsed(f) \in -1 .. MaxBlocks BY DiskAssumption DEF NrUsed
<1>4. d \in Seq(Byte) /\ Len(d) \in Nat \ {0} BY InputAssumption
<1>5. NrUsed(f) + w.n =< MaxBlocks /\ w.n =< Needed(w.byj, Len(d))
  <2>1. Needed(w.byj, Len(d)) \in Int
    <3>1. MaxBlockSize \in Nat \ {0}
      BY WidthAssumption DEF MaxBlockSize
    <3>2. w.byj + Len(d) + MaxBlockSize - 1 \in Int
      BY <1>2, <1>4, <3>1
    <3> QED BY <3>1, <3>2, DivMod DEF Needed
  <2>2. MaxBlocks \in Nat BY DiskAssumption
  <2> QED BY <1>1, <1>3, <2>1, <2>2 DEF NrToAllocate
<1>6. ASSUME NrUsed(f) > 0 PROVE w.bj < NrUsed(f)
  <2> DEFINE S == {k \in 0 .. NrUsed(f) - 1 : Jumped(f, k) >= off}
                    \cup {NrUsed(f) - 1}
  <2>1. S \subseteq 0 .. NrUsed(f) - 1 BY <1>3, <1>6
  <2>2. S # {} /\ S \in SUBSET Nat BY <1>3, <2>1
  <2>3. w.bj = Min(S) BY <1>1, <1>3, <1>6 DEF BlockJump
  <2> HIDE DEF S
  <2>4. w.bj \in S BY <2>2, <2>3, MinNat
  <2>5. w.bj \in 0 .. NrUsed(f) - 1 BY <2>1, <2>4
  <2> QED BY <1>2, <1>3, <2>5 DEF Slots
<1>7. NrUsed(f) =< 0 => w.bj = 0 /\ w.byj = 0
  BY <1>1, <1>3 DEF BlockJump, ByteJump
<1> QED BY <1>1, <1>2, <1>3, <1>4, <1>5, <1>6, <1>7

\* What holds of a planned write: the file, the slots used, and where it begins.
LEMMA Planned ==
  ASSUME TypeOK, NEW f \in Inodes, NEW off \in Offsets, NEW d \in Payloads,
         NEW w \in Plans(f, off, Len(d))
  PROVE  /\ Live(f)
         /\ w.bj \in Slots /\ w.byj \in Nat /\ w.n \in 1 .. MaxBlocks
         /\ NrUsed(f) \in -1 .. MaxBlocks
         /\ NrUsed(f) + w.n =< MaxBlocks
         /\ w.n =< Needed(w.byj, Len(d))
         /\ NrUsed(f) > 0 => w.bj < NrUsed(f)
         /\ NrUsed(f) =< 0 => w.bj = 0 /\ w.byj = 0
         /\ Len(d) \in Nat \ {0} /\ d \in Seq(Byte)
<1>1. inode[f].blocks \in 0 .. MaxBlocks + 1 BY DEF TypeOK
<1> QED BY <1>1, PlanOf

-----------------------------------------------------------------------------
(* The words that a write leaves *)

Fresh(f, w, s) == First(f, w) =< s /\ s < First(f, w) + w.n

\* The slot that the word of an old block comes from.
From(f, w, s) ==
  IF w.bj + w.n < s /\ s < NrUsed(f) + w.n THEN s - w.n ELSE s

\* The successive results of get_free_block are different free data blocks.
LEMMA FreshBlocks ==
  ASSUME TypeOK, NEW n \in 1 .. MaxBlocks, NEW al \in FirstFree(n)
  PROVE  /\ \A k \in 0 .. n - 1 : al[k] \in free /\ al[k] \in DataBlocks
         /\ \A m, k \in 0 .. n - 1 : al[m] = al[k] => m = k
         /\ Taken(al) = {al[k] : k \in 0 .. n - 1}
BY DEF FirstFree, Taken, TypeOK

\* The number of a data block is not zero and fits the field of a word.
LEMMA DataBlockNumber ==
  ASSUME NEW b \in DataBlocks
  PROVE  /\ b \in Blocks /\ b \in Nat /\ b # 0
         /\ b % NumberMask = b
<1>1. b \in Nat /\ b # 0 /\ b < NumberMask /\ b \in Blocks
  BY DiskAssumption, WidthAssumption DEF DataBlocks, Blocks
<1>2. (b + 0 * NumberMask) % NumberMask = b
  BY <1>1, Unpack, WidthAssumption
<1> QED BY <1>1, <1>2, WidthAssumption

\* The shift and the allocation put a new block in a slot, or the word of an
\* old one.
LEMMA AllocatedWord ==
  ASSUME NEW X, FileInv(X), NEW f \in Inodes, f \notin X,
         NEW off \in Offsets, NEW d \in Payloads,
         NEW w \in Plans(f, off, Len(d)), NEW al \in FirstFree(w.n),
         NEW s \in Slots
  PROVE  /\ From(f, w, s) \in Slots
         /\ Allocated(f, w, w.n, al)[s] \in Word
         /\ get_block_number(Allocated(f, w, w.n, al)[s]) =
              IF Fresh(f, w, s) THEN al[s - First(f, w)]
              ELSE NumberAt(f, From(f, w, s))
         /\ ~ Fresh(f, w, s) =>
              Allocated(f, w, w.n, al)[s] = index[f][From(f, w, s)]
<1> DEFINE a == Allocated(f, w, w.n, al)
<1>1. /\ w.bj \in Slots /\ w.n \in 1 .. MaxBlocks
      /\ NrUsed(f) \in -1 .. MaxBlocks
  BY Planned DEF FileInv
<1>2. From(f, w, s) \in Slots /\ Shifted(f, w)[s] = index[f][From(f, w, s)]
  <2>1. MaxBlocks \in Nat /\ s \in 0 .. MaxBlocks - 1
    BY DiskAssumption DEF Slots
  <2>2. From(f, w, s) \in Slots BY <1>1, <2>1 DEF From, Slots
  <2> QED BY <2>2 DEF From, Shifted
<1>3. index[f][From(f, w, s)] \in Word BY <1>2 DEF FileInv, TypeOK
<1>4. CASE Fresh(f, w, s)
  <2>1. First(f, w) \in Int BY <1>1 DEF First, Slots
  <2>2. s - First(f, w) \in 0 .. w.n - 1
    BY <1>1, <1>4, <2>1 DEF Fresh, Slots
  <2>3. al[s - First(f, w)] \in DataBlocks
    BY <1>1, <2>2, FreshBlocks DEF FileInv
  <2>4. a[s] = set_block_size(set_block_number(Shifted(f, w)[s],
                                al[s - First(f, w)]), 0)
    BY <1>4 DEF Fresh, Allocated
  <2> QED BY <1>2, <1>3, <1>4, <2>3, <2>4, SetNumber, SetSize, DataBlockNumber
<1>5. CASE ~ Fresh(f, w, s)
  <2>1. a[s] = index[f][From(f, w, s)]
    BY <1>2, <1>5 DEF Fresh, Allocated
  <2> QED BY <1>2, <1>3, <1>5, <2>1 DEF NumberAt
<1> QED BY <1>4, <1>5

\* The split changes sizes only, in a fresh slot and at block_jump.
LEMMA SplitWord ==
  ASSUME NEW X, FileInv(X), NEW f \in Inodes, f \notin X,
         NEW off \in Offsets, NEW d \in Payloads,
         NEW w \in Plans(f, off, Len(d)), NEW al \in FirstFree(w.n),
         NEW s \in Slots
  PROVE  /\ SplitIndex(f, w, al)[s] \in Word
         /\ get_block_number(SplitIndex(f, w, al)[s]) =
              get_block_number(Allocated(f, w, w.n, al)[s])
         /\ \/ SplitIndex(f, w, al)[s] = Allocated(f, w, w.n, al)[s]
            \/ Fresh(f, w, s)
            \/ NotNew(f) /\ s = w.bj
<1> DEFINE a == Allocated(f, w, w.n, al)
           sp == SplitIndex(f, w, al)
           rest == Max({0, get_block_size(a[w.bj]) - w.byj})
<1>1. w.bj \in Slots /\ w.byj \in Nat /\ w.n \in 1 .. MaxBlocks
  BY Planned DEF FileInv
<1>2. a[s] \in Word /\ a[w.bj] \in Word /\ DOMAIN a = Slots
  BY <1>1, AllocatedWord DEF Allocated
<1>3. CASE ~ NotNew(f)
  <2>1. sp = a BY <1>3 DEF SplitIndex
  <2> QED BY <1>2, <2>1
<1>4. CASE NotNew(f)
  <2>1. sp = [a EXCEPT ![w.bj] = set_block_size(@, w.byj),
                       ![w.bj + w.n] = set_block_size(@, rest)]
    BY <1>4 DEF SplitIndex
  <2>2. rest \in Int
    <3> DEFINE q == get_block_size(a[w.bj]) - w.byj
    <3>1. q \in Int BY <1>1, <1>2, FieldRange, WidthAssumption
    <3> HIDE DEF q
    <3>2. Max({0, q}) \in Int BY <3>1, MaxPair
    <3> QED BY <3>2 DEF q
  <2>3. w.bj + w.n # w.bj BY <1>1 DEF Slots
  <2> HIDE DEF a, sp, rest
  <2>4. CASE s = w.bj
    <3>1. sp[s] = set_block_size(a[s], w.byj)
      BY <1>2, <2>1, <2>3, <2>4
    <3> QED BY <1>1, <1>2, <1>4, <2>4, <3>1, SetSize DEF a, sp
  <2>5. CASE s = w.bj + w.n
    <3>1. sp[s] = set_block_size(a[s], rest)
      BY <1>2, <2>1, <2>3, <2>5
    <3>2. Fresh(f, w, s)
      BY <1>1, <1>4, <2>5 DEF Fresh, First, Slots
    <3> QED BY <1>2, <2>2, <3>1, <3>2, SetSize DEF a, sp
  <2>6. CASE s # w.bj /\ s # w.bj + w.n
    <3>1. sp[s] = a[s] BY <1>2, <2>1, <2>6
    <3> QED BY <1>2, <3>1 DEF a, sp
  <2> QED BY <2>4, <2>5, <2>6
<1> QED BY <1>3, <1>4

\* So does the copy loop: the number in a slot is the one the shift and the
\* allocation put there, and a slot they leave zero stays zero.
LEMMA WrittenWord ==
  ASSUME NEW X, FileInv(X), NEW f \in Inodes, f \notin X,
         NEW off \in Offsets, NEW d \in Payloads,
         NEW w \in Plans(f, off, Len(d)), NEW al \in FirstFree(w.n),
         NEW c \in 0 .. Copies(f, w), NEW s \in Slots
  PROVE  /\ CopyIndex(f, w, al, Len(d), c)[s] \in Word
         /\ get_block_number(CopyIndex(f, w, al, Len(d), c)[s]) =
              IF Fresh(f, w, s) THEN al[s - First(f, w)]
              ELSE NumberAt(f, From(f, w, s))
         /\ ~ Fresh(f, w, s) /\ CopyIndex(f, w, al, Len(d), c)[s] # 0
              => index[f][From(f, w, s)] # 0
<1> DEFINE sp == SplitIndex(f, w, al)
           ix == CopyIndex(f, w, al, Len(d), c)
           k == s - w.bj
<1>1. /\ w.bj \in Slots /\ w.byj \in Nat /\ w.n \in 1 .. MaxBlocks
      /\ NrUsed(f) \in -1 .. MaxBlocks /\ Len(d) \in Nat
      /\ NrUsed(f) > 0 => w.bj < NrUsed(f)
      /\ NrUsed(f) =< 0 => w.bj = 0
      /\ f \in Linked
  BY Planned DEF FileInv, Live, Linked
<1>2. Copies(f, w) \in 1 .. w.n /\ MaxBlockSize \in Nat
  BY <1>1, WidthAssumption DEF Copies, MaxBlockSize
<1>3. sp[s] \in Word BY SplitWord
<1>4. CASE w.bj =< s /\ s < w.bj + c
  <2>1. Fresh(f, w, s) \/ (NotNew(f) /\ s = w.bj)
    BY <1>1, <1>2, <1>4 DEF Fresh, First, Slots
  <2> DEFINE size == IF k = Copies(f, w) - 1
                     THEN get_block_size(sp[s]) + Amount(f, w, Len(d), k)
                     ELSE MaxBlockSize
  <2>2. ix[s] = set_block_size(sp[s], size) BY <1>4 DEF CopyIndex
  <2>3. size \in Int
    <3>1. k \in Int BY <1>1 DEF Slots
    <3>2. k * MaxBlockSize \in Int BY <1>2, <3>1
    <3>3. Source(w, k) \in Int /\ At(w, k) \in Int
      BY <1>1, <3>2 DEF Source, At
    <3>4. Amount(f, w, Len(d), k) \in Int
      BY <1>1, <1>2, <3>3 DEF Amount
    <3> QED BY <1>2, <1>3, <3>4, FieldRange, WidthAssumption
  <2>4. ix[s] \in Word /\ get_block_number(ix[s]) = get_block_number(sp[s])
    BY <1>3, <2>2, <2>3, SetSize
  <2>5. ASSUME ~ Fresh(f, w, s) PROVE index[f][From(f, w, s)] # 0
    <3>1. NotNew(f) /\ s = w.bj BY <2>1, <2>5
    <3>2. From(f, w, s) = w.bj BY <1>1, <3>1 DEF From, Slots
    <3>3. index[f][w.bj] # 0
      BY <1>1, <3>1 DEF FileInv, Layout, NotNew
    <3> QED BY <3>2, <3>3
  <2> QED BY <2>4, <2>5, SplitWord, AllocatedWord
<1>5. CASE ~ (w.bj =< s /\ s < w.bj + c)
  <2>1. ix[s] = sp[s] BY <1>5 DEF CopyIndex
  <2>2. ASSUME ~ Fresh(f, w, s), ix[s] # 0 PROVE index[f][From(f, w, s)] # 0
    <3>1. CASE NotNew(f) /\ s = w.bj
      <4>1. From(f, w, s) = w.bj BY <1>1, <3>1 DEF From, Slots
      <4>2. index[f][w.bj] # 0
        BY <1>1, <3>1 DEF FileInv, Layout, NotNew
      <4> QED BY <4>1, <4>2
    <3>2. CASE ~ (NotNew(f) /\ s = w.bj)
      BY <2>1, <2>2, <3>2, SplitWord, AllocatedWord
    <3> QED BY <3>1, <3>2
  <2> QED BY <1>3, <2>1, <2>2, SplitWord, AllocatedWord
<1> QED BY <1>4, <1>5

-----------------------------------------------------------------------------
(* The bytes that a write leaves *)

\* Every iteration of the copy loop reads inside the bytes given by the user.
LEMMA ChunkInPayload ==
  ASSUME TypeOK, NEW f \in Inodes, NEW off \in Offsets, NEW d \in Payloads,
         NEW w \in Plans(f, off, Len(d)), w.byj =< MaxBlockSize,
         NEW k \in 0 .. Copies(f, w) - 1
  PROVE  /\ Source(w, k) \in Nat /\ At(w, k) \in Nat
         /\ Amount(f, w, Len(d), k) \in Int
         /\ Source(w, k) + Amount(f, w, Len(d), k) =< Len(d)
<1> DEFINE m == MaxBlockSize
           p == k * m
<1>1. /\ w.byj \in Nat /\ w.n \in 1 .. MaxBlocks /\ Len(d) \in Nat
      /\ w.n =< Needed(w.byj, Len(d))
  BY Planned
<1>2. m \in Nat \ {0} /\ w.byj =< m
  BY WidthAssumption DEF MaxBlockSize
<1>3. Copies(f, w) \in 1 .. w.n /\ k \in Nat BY <1>1 DEF Copies
<1>4. p \in Nat /\ (k >= 1 => p >= m) /\ (k = 0 => p = 0)
  BY <1>2, <1>3
<1> HIDE DEF m, p
<1>5. At(w, k) \in Nat /\ Source(w, k) = (IF k = 0 THEN 0 ELSE p - w.byj)
  BY <1>1 DEF At, Source, m, p
<1>6. Source(w, k) \in Nat BY <1>1, <1>2, <1>3, <1>4, <1>5
<1>7. CASE k = Copies(f, w) - 1
  BY <1>1, <1>5, <1>6, <1>7 DEF Amount
<1>8. CASE k # Copies(f, w) - 1
  <2>1. Copies(f, w) = w.n /\ k + 2 =< w.n
    BY <1>1, <1>3, <1>8 DEF Copies
  <2>2. w.n * m =< w.byj + Len(d) + m - 1
    <3> DEFINE b == w.byj + Len(d) + m - 1
               q == b \div m
    <3>1. b \in Int /\ w.n =< q BY <1>1, <1>2 DEF Needed, m
    <3> HIDE DEF b
    <3>2. q \in Int /\ b = m * q + (b % m) /\ b % m \in 0 .. m - 1
      BY <1>2, <3>1, DivMod
    <3> HIDE DEF q
    <3>3. m * q \in Int /\ w.n * m \in Int
      BY <1>1, <1>2, <3>2, SMTT(60)
    <3>4. w.n * m =< m * q BY <1>1, <1>2, <3>1, <3>2
    <3>5. w.n * m =< b BY <1>2, <3>1, <3>2, <3>3, <3>4
    <3> QED BY <3>5 DEF b
  <2>3. (k + 2) * m =< w.n * m BY <1>1, <1>2, <1>3, <2>1
  <2>4. (k + 2) * m = p + 2 * m BY <1>2, <1>3 DEF p
  <2>5. w.n * m \in Int BY <1>1, <1>2
  <2>6. p + m =< w.byj + Len(d) - 1
    BY <1>1, <1>2, <1>4, <2>2, <2>3, <2>4, <2>5
  <2>7. Amount(f, w, Len(d), k) = m - At(w, k)
    BY <1>8 DEF Amount, m
  <2>8. At(w, k) = IF k = 0 THEN w.byj ELSE 0 BY DEF At
  <2> QED BY <1>1, <1>2, <1>3, <1>4, <1>5, <1>6, <2>6, <2>7, <2>8, SMTT(60)
<1> QED BY <1>7, <1>8

\* The block that a write splits is a block.
LEMMA SplitTyped ==
  ASSUME NEW X, FileInv(X), NEW f \in Inodes, f \notin X,
         NEW off \in Offsets, NEW d \in Payloads,
         NEW w \in Plans(f, off, Len(d)), NEW al \in FirstFree(w.n)
  PROVE  SplitData(f, w, al, Len(d)) \in [Blocks -> Block]
<1> DEFINE a == Allocated(f, w, w.n, al)
           cut == get_block_number(a[IF NotNew(f) THEN w.bj ELSE 0])
           moved == IF NotNew(f)
                    THEN [data EXCEPT ![al[w.n - 1]] =
                            Copy(@, 0, data[cut], w.byj, MaxBlockSize - w.byj)]
                    ELSE data
<1>1. /\ w.bj \in Slots /\ w.byj \in Nat /\ w.n \in 1 .. MaxBlocks
      /\ NrUsed(f) \in -1 .. MaxBlocks /\ Len(d) \in Nat
      /\ NrUsed(f) > 0 => w.bj < NrUsed(f)
      /\ NrUsed(f) =< 0 => w.bj = 0
      /\ f \in Linked
  BY Planned DEF FileInv, Live, Linked
<1>2. data \in [Blocks -> Block] /\ MaxBlockSize \in Nat
      /\ MaxBlockSize < BlockSize
  BY WidthAssumption DEF FileInv, TypeOK, MaxBlockSize
<1>3. ASSUME NotNew(f) PROVE cut \in Blocks
  <2>1. index[f][w.bj] # 0
    BY <1>1, <1>3 DEF FileInv, Layout, NotNew
  <2>2. NumberAt(f, w.bj) \in DataBlocks
    BY <1>1, <2>1 DEF FileInv, Separate
  <2>3. ~ Fresh(f, w, w.bj) /\ From(f, w, w.bj) = w.bj
    BY <1>1, <1>3 DEF Fresh, First, From, Slots
  <2>4. cut = get_block_number(a[w.bj]) BY <1>3
  <2>5. get_block_number(a[w.bj]) = NumberAt(f, w.bj)
    BY <1>1, <2>3, AllocatedWord
  <2> QED BY <2>2, <2>4, <2>5, DataBlockNumber
<1>4. moved \in [Blocks -> Block]
  <2>1. CASE NotNew(f)
    <3>1. data[cut] \in Block BY <1>2, <1>3, <2>1
    <3> HIDE DEF cut
    <3>2. ASSUME NEW b \in Block
          PROVE  Copy(b, 0, data[cut], w.byj, MaxBlockSize - w.byj) \in Block
      <4>1. \A x \in 0 .. BlockSize - 1 :
              0 =< x /\ x < 0 + (MaxBlockSize - w.byj)
                => data[cut][x - 0 + w.byj] \in Byte
        BY <1>1, <1>2, <3>1, WidthAssumption DEF Block
      <4> QED BY <1>1, <1>2, <4>1, CopyTyped, SMTT(60)
    <3> QED BY <1>2, <2>1, <3>2
  <2>2. CASE ~ NotNew(f) BY <1>2, <2>2
  <2> QED BY <2>1, <2>2
<1> HIDE DEF moved
<1>5. ASSUME NEW b \in Block
      PROVE  Copy(b, w.byj + Len(d), Zeros, 0, MaxBlockSize - w.byj - Len(d))
               \in Block
  <2> DEFINE at == w.byj + Len(d)
             cnt == MaxBlockSize - w.byj - Len(d)
  <2>1. at \in Nat /\ cnt \in Int BY <1>1, <1>2
  <2> HIDE DEF at, cnt
  <2>2. \A x \in 0 .. BlockSize - 1 :
          at =< x /\ x < at + cnt => Zeros[x - at + 0] \in Byte
    BY <2>1, WidthAssumption, InputAssumption DEF Zeros
  <2>3. Copy(b, at, Zeros, 0, cnt) \in Block
    BY <2>1, <2>2, CopyTyped
  <2> QED BY <2>3 DEF at, cnt
<1>6. SplitData(f, w, al, Len(d)) =
        IF w.byj + Len(d) < MaxBlockSize
        THEN [moved EXCEPT ![cut] = Copy(@, w.byj + Len(d), Zeros, 0,
                                         MaxBlockSize - w.byj - Len(d))]
        ELSE moved
  BY DEF SplitData, moved
<1> HIDE DEF cut
<1> QED BY <1>4, <1>5, <1>6

\* Every block is made of bytes after any number of iterations.
LEMMA WrittenData ==
  ASSUME NEW X, FileInv(X), NEW f \in Inodes, f \notin X,
         NEW off \in Offsets, NEW d \in Payloads,
         NEW w \in Plans(f, off, Len(d)), NEW al \in FirstFree(w.n),
         w.byj =< MaxBlockSize, NEW c \in 0 .. Copies(f, w)
  PROVE  CopyData(f, w, al, d, c) \in [Blocks -> Block]
<1> DEFINE block(k) == get_block_number(Allocated(f, w, w.n, al)[w.bj + k])
           chunk(dst, k) == Copy(dst, At(w, k), d, Source(w, k) + 1,
                                 Amount(f, w, Len(d), k))
           old == SplitData(f, w, al, Len(d))
           head == IF c = 0 THEN old ELSE [old EXCEPT ![block(0)] = chunk(@, 0)]
<1>1. old \in [Blocks -> Block] BY SplitTyped
<1>2. Len(d) \in Nat /\ d \in Seq(Byte) /\ w.n \in 1 .. MaxBlocks
  BY Planned DEF FileInv
<1>3. c \in Nat /\ Copies(f, w) \in Nat /\ c =< Copies(f, w)
  BY <1>2 DEF Copies
<1>4. ASSUME NEW k \in 0 .. Copies(f, w) - 1, NEW b \in Block
      PROVE  chunk(b, k) \in Block
  <2>1. /\ Source(w, k) \in Nat /\ At(w, k) \in Nat
        /\ Amount(f, w, Len(d), k) \in Int
        /\ Source(w, k) + Amount(f, w, Len(d), k) =< Len(d)
    BY ChunkInPayload DEF FileInv
  <2>2. \A x \in 0 .. BlockSize - 1 :
          At(w, k) =< x /\ x < At(w, k) + Amount(f, w, Len(d), k)
            => d[x - At(w, k) + (Source(w, k) + 1)] \in Byte
    BY <1>2, <2>1, WidthAssumption
  <2> QED BY <2>1, <2>2, CopyTyped, SMTT(60)
<1> HIDE DEF chunk, old, block
<1>5. head \in [Blocks -> Block]
  <2>1. c # 0 => 0 \in 0 .. Copies(f, w) - 1 BY <1>3
  <2>2. ASSUME c # 0, NEW b \in Block PROVE chunk(b, 0) \in Block
    BY <1>4, <2>1, <2>2
  <2> QED BY <1>1, <2>2
<1> HIDE DEF head
<1>6. CopyData(f, w, al, d, c) =
        [b \in Blocks |->
           IF \E k \in 1 .. c - 1 : block(k) = b
           THEN chunk(head[b], CHOOSE k \in 1 .. c - 1 : block(k) = b)
           ELSE head[b]]
  BY DEF CopyData, block, chunk, old, head
<1>7. ASSUME NEW b \in Blocks, \E k \in 1 .. c - 1 : block(k) = b
      PROVE  (CHOOSE k \in 1 .. c - 1 : block(k) = b) \in 0 .. Copies(f, w) - 1
  BY <1>3, <1>7
<1> QED BY <1>4, <1>5, <1>6, <1>7

-----------------------------------------------------------------------------
(* Each operation preserves the invariant *)

\* The partition that mkfs leaves has no regular file and all data blocks free.
LEMMA FileInit == Init => FileInv({})
<1> SUFFICES ASSUME Init PROVE FileInv({}) OBVIOUS
<1>1. 0 \in Word BY Packed, FieldRange, WidthAssumption
<1>2. TypeOK
  <2>1. free \subseteq DataBlocks /\ nrFree \in Int
    BY DiskAssumption DEF Init
  <2>2. inode \in [Inodes -> [linked : BOOLEAN, size : Nat,
                              blocks : 0 .. MaxBlocks + 1,
                              indexBlock : DataBlocks \cup {0}]]
    BY DiskAssumption DEF Init, NoInode
  <2>3. index \in [Inodes -> [Slots -> Word]] BY <1>1 DEF Init
  <2>4. data \in [Blocks -> Block]
    BY InputAssumption DEF Init, Zeros, Block
  <2>5. corrupt \in BOOLEAN /\ ret.errno \in Errnos
    BY DEF Init, Ret, Errnos
  <2> QED BY <2>1, <2>2, <2>3, <2>4, <2>5 DEF TypeOK
<1>3. Linked = {} BY DEF Init, Linked, NoInode
<1> QED BY <1>2, <1>3 DEF FileInv, Separate, Layout

\* A word of zeros names block 0.
LEMMA ZeroWord == 0 \in Word /\ get_block_number(0) = 0
BY Packed, SmallWord, WidthAssumption

\* A new index block was free, so nothing names it.
LEMMA CreateStep ==
  ASSUME NEW X, FileInv(X), NEW f \in Inodes, Create(f)
  PROVE  FileInv(X)'
<1>1. PICK al \in FirstFree(1) :
        /\ free' = free \ {al[0]}
        /\ nrFree' = nrFree - 1
        /\ inode' = [inode EXCEPT ![f] = [linked |-> TRUE, size |-> 0,
                                          blocks |-> 1, indexBlock |-> al[0]]]
        /\ index' = [index EXCEPT ![f] = [s \in Slots |-> 0]]
        /\ data' = [data EXCEPT ![al[0]] = Zeros]
  BY DEF Create
<1>2. ret' = Ret("OK", <<>>) /\ corrupt' = corrupt /\ ~ inode[f].linked
  BY DEF Create
<1>3. TypeOK BY DEF FileInv
<1>4. al[0] \in free /\ al[0] \in DataBlocks
  BY <1>3, FreshBlocks, DiskAssumption
<1>5. TypeOK'
  <2>1. free' \subseteq DataBlocks /\ nrFree' \in Int
    BY <1>1, <1>3 DEF TypeOK
  <2>2. inode' \in [Inodes -> [linked : BOOLEAN, size : Nat,
                               blocks : 0 .. MaxBlocks + 1,
                               indexBlock : DataBlocks \cup {0}]]
    BY <1>1, <1>3, <1>4, DiskAssumption DEF TypeOK
  <2>3. index' \in [Inodes -> [Slots -> Word]]
    BY <1>1, <1>3, ZeroWord DEF TypeOK
  <2>4. data' \in [Blocks -> Block]
    <3>1. Zeros \in Block BY InputAssumption DEF Zeros, Block
    <3> QED BY <1>1, <1>3, <3>1 DEF TypeOK
  <2>5. corrupt' \in BOOLEAN /\ ret'.errno \in Errnos
    BY <1>2, <1>3 DEF TypeOK, Ret, Errnos
  <2> QED BY <2>1, <2>2, <2>3, <2>4, <2>5 DEF TypeOK
<1>6. /\ Linked' = Linked \cup {f} /\ f \notin Linked
      /\ inode'[f].indexBlock = al[0] /\ inode'[f].size = 0
      /\ inode'[f].blocks = 1
      /\ \A s \in Slots : index'[f][s] = 0
      /\ \A g \in Linked : inode'[g] = inode[g] /\ index'[g] = index[g]
  BY <1>1, <1>2, <1>3 DEF TypeOK, Linked
<1>7. Separate'
  BY <1>1, <1>4, <1>6 DEF FileInv, Separate, NumberAt
<1>8. Layout(X)'
  BY <1>6, ZeroWord DEF FileInv, Layout, NrUsed, Slots
<1> QED BY <1>5, <1>7, <1>8 DEF FileInv

\* put_block frees exactly the blocks whose words hold no size.
LEMMA PutBlocks ==
  ASSUME NEW X, FileInv(X), NEW f \in Linked, NEW slots \in SUBSET Slots,
         \A s \in slots : index[f][s] # 0 /\ Accepted(index[f][s])
  PROVE  /\ \A s \in slots : /\ index[f][s] = NumberAt(f, s)
                             /\ index[f][s] \in DataBlocks \ free
         /\ Cardinality(slots) \in Nat
<1>1. IsFiniteSet(Slots) BY FS_Interval, DiskAssumption DEF Slots
<1>2. Cardinality(slots) \in Nat
  BY <1>1, FS_Subset, FS_CardinalityType
<1>3. ASSUME NEW s \in slots PROVE index[f][s] = NumberAt(f, s)
  <2>1. index[f][s] \in Word BY DEF FileInv, TypeOK, Linked
  <2> QED BY <2>1, SmallWord DEF NumberAt
<1> QED BY <1>2, <1>3 DEF FileInv, Separate

\* The fields of an inode.
InodeType == [linked : BOOLEAN, size : Nat, blocks : 0 .. MaxBlocks + 1,
              indexBlock : DataBlocks \cup {0}]

\* O_TRUNC and write assign i_size and i_blocks and leave the rest alone.
LEMMA Resized ==
  ASSUME TypeOK, NEW f \in Inodes,
         NEW size \in Nat, NEW blocks \in 0 .. MaxBlocks + 1,
         inode' = [inode EXCEPT ![f].size = size, ![f].blocks = blocks]
  PROVE  /\ inode' \in [Inodes -> InodeType]
         /\ inode'[f].size = size /\ inode'[f].blocks = blocks
         /\ Linked' = Linked
         /\ \A g \in Inodes : inode'[g].indexBlock = inode[g].indexBlock
         /\ \A g \in Inodes \ {f} : inode'[g] = inode[g]
<1> DEFINE old == inode[f]
           new == [old EXCEPT !.size = size, !.blocks = blocks]
<1>1. inode \in [Inodes -> InodeType] BY DEF TypeOK, InodeType
<1>2. new \in InodeType BY <1>1 DEF InodeType
<1>3. inode' = [inode EXCEPT ![f] = new] BY <1>1 DEF InodeType
<1>4. /\ new.size = size /\ new.blocks = blocks
      /\ new.linked = old.linked /\ new.indexBlock = old.indexBlock
  BY <1>1 DEF InodeType
<1> HIDE DEF new
<1> QED BY <1>1, <1>2, <1>3, <1>4 DEF Linked

\* Truncation keeps no word whose block it frees.
LEMMA OpenTruncStep ==
  ASSUME NEW X, FileInv(X), NEW f \in Inodes, OpenTrunc(f)
  PROVE  FileInv(X)'
<1> DEFINE put == {s \in Prefix(f) : Accepted(index[f][s])}
<1>1. /\ free' = free \cup {index[f][s] : s \in put}
      /\ nrFree' = nrFree + Cardinality(put)
      /\ index' = [index EXCEPT ![f] =
                     [s \in Slots |-> IF s \in Prefix(f) THEN 0 ELSE @[s]]]
      /\ inode' = [inode EXCEPT ![f].size = 0, ![f].blocks = 0]
      /\ ret' = Ret("OK", <<>>) /\ data' = data /\ corrupt' = corrupt
      /\ f \in Linked
  BY DEF OpenTrunc, PutWords, Live, Linked
<1>2. TypeOK BY DEF FileInv
<1>3. /\ put \in SUBSET Slots /\ put \subseteq Prefix(f)
      /\ \A s \in put : index[f][s] # 0 /\ Accepted(index[f][s])
  BY DEF Prefix, Slots
<1>4. /\ \A s \in put : /\ index[f][s] = NumberAt(f, s)
                        /\ index[f][s] \in DataBlocks
      /\ Cardinality(put) \in Nat
  BY <1>1, <1>3, PutBlocks
<1> HIDE DEF put
<1>5. TypeOK'
  <2>1. free' \subseteq DataBlocks /\ nrFree' \in Int
    BY <1>1, <1>2, <1>4 DEF TypeOK
  <2>2. inode' \in [Inodes -> InodeType]
    <3>1. 0 \in Nat /\ 0 \in 0 .. MaxBlocks + 1 BY DiskAssumption
    <3> QED BY <1>1, <1>2, <3>1, Resized
  <2>3. index' \in [Inodes -> [Slots -> Word]]
    BY <1>1, <1>2, ZeroWord DEF TypeOK
  <2>4. corrupt' \in BOOLEAN /\ ret'.errno \in Errnos
    BY <1>1, <1>2 DEF TypeOK, Ret, Errnos
  <2> QED BY <1>1, <1>2, <2>1, <2>2, <2>3, <2>4 DEF TypeOK, InodeType
<1>6. /\ Linked' = Linked
      /\ inode'[f].size = 0 /\ inode'[f].blocks = 0
      /\ \A g \in Linked : inode'[g].indexBlock = inode[g].indexBlock
      /\ \A g \in Linked \ {f} : inode'[g] = inode[g]
      /\ \A g \in Linked, s \in Slots : index'[g][s] # 0 =>
           /\ index'[g][s] = index[g][s]
           /\ g = f => s \notin put
      /\ \A g \in Linked \ {f} : index'[g] = index[g]
  BY <1>1, <1>2, <1>3 DEF TypeOK, Linked
<1>7. Separate'
  <2>1. \A b : b \in free' => b \in free \/ \E s \in put : b = NumberAt(f, s)
    BY <1>1, <1>4
  <2>2. \A g \in Linked, s \in Slots : index'[g][s] # 0 =>
          NumberAt(g, s)' = NumberAt(g, s) /\ index[g][s] # 0
    BY <1>6 DEF NumberAt
  <2>3. \A g \in Linked : inode[g].indexBlock \in DataBlocks \ free'
    BY <1>1, <1>3, <2>1 DEF FileInv, Separate
  <2>4. \A g \in Linked, s \in Slots : index'[g][s] # 0 =>
          NumberAt(g, s) \in DataBlocks \ free'
    BY <1>1, <1>3, <1>6, <2>1, <2>2 DEF FileInv, Separate
  <2> QED BY <1>6, <2>2, <2>3, <2>4 DEF FileInv, Separate
<1>8. Layout(X)' BY <1>6 DEF FileInv, Layout, NrUsed, Slots
<1> QED BY <1>5, <1>7, <1>8 DEF FileInv

\* Nothing but the outcome of the call changes, or a bit that names no block.
LEMMA IdleStep ==
  ASSUME NEW X, FileInv(X), free' \subseteq free, nrFree' \in Int,
         UNCHANGED <<inode, index, data>>,
         corrupt' \in BOOLEAN, ret'.errno \in Errnos
  PROVE  FileInv(X)'
<1>1. TypeOK' BY DEF FileInv, TypeOK
<1>2. Linked' = Linked BY DEF Linked
<1>3. Separate' BY <1>2 DEF FileInv, Separate, NumberAt
<1>4. Layout(X)' BY <1>2 DEF FileInv, Layout, NrUsed
<1> QED BY <1>1, <1>3, <1>4 DEF FileInv

\* The blocks that unlink frees are named by the file that it removes.
LEMMA UnlinkStep ==
  ASSUME NEW X, FileInv(X), NEW f \in Inodes, Unlink(f)
  PROVE  FileInv(X)'
<1> DEFINE words == {s \in Slots : s < NrUsed(f) /\ index[f][s] # 0}
           put == {s \in words : Accepted(index[f][s])}
<1>1. /\ free' = free \cup {index[f][s] : s \in put} \cup {inode[f].indexBlock}
      /\ nrFree' = nrFree + Cardinality(put) + 1
      /\ data' = [b \in Blocks |->
           IF \E s \in words : index[f][s] = b THEN Zeros ELSE data[b]]
  BY DEF Unlink
<1>2. /\ index' = [index EXCEPT ![f] = [s \in Slots |-> 0]]
      /\ inode' = [inode EXCEPT ![f] = NoInode]
      /\ ret' = Ret("OK", <<>>) /\ corrupt' = corrupt
      /\ f \in Linked
  BY DEF Unlink, Live, Linked
<1>3. TypeOK BY DEF FileInv
<1>4. /\ put \in SUBSET Slots
      /\ \A s \in put : index[f][s] # 0 /\ Accepted(index[f][s])
  OBVIOUS
<1>5. /\ \A s \in put : /\ index[f][s] = NumberAt(f, s)
                        /\ index[f][s] \in DataBlocks
      /\ Cardinality(put) \in Nat
  BY <1>2, <1>4, PutBlocks
<1>6. inode[f].indexBlock \in DataBlocks
  BY <1>2 DEF FileInv, Separate
<1> HIDE DEF words, put
<1>7. TypeOK'
  <2>1. free' \subseteq DataBlocks /\ nrFree' \in Int
    BY <1>1, <1>3, <1>5, <1>6 DEF TypeOK
  <2>2. inode' \in [Inodes -> [linked : BOOLEAN, size : Nat,
                               blocks : 0 .. MaxBlocks + 1,
                               indexBlock : DataBlocks \cup {0}]]
    BY <1>2, <1>3, DiskAssumption DEF TypeOK, NoInode
  <2>3. index' \in [Inodes -> [Slots -> Word]]
    BY <1>2, <1>3, ZeroWord DEF TypeOK
  <2>4. data' \in [Blocks -> Block]
    <3>1. Zeros \in Block BY InputAssumption DEF Zeros, Block
    <3> QED BY <1>1, <1>3, <3>1 DEF TypeOK
  <2>5. corrupt' \in BOOLEAN /\ ret'.errno \in Errnos
    BY <1>2, <1>3 DEF TypeOK, Ret, Errnos
  <2> QED BY <2>1, <2>2, <2>3, <2>4, <2>5 DEF TypeOK
<1>8. /\ Linked' = Linked \ {f}
      /\ \A g \in Linked \ {f} : inode'[g] = inode[g] /\ index'[g] = index[g]
  BY <1>2, <1>3 DEF TypeOK, Linked, NoInode
<1>9. Separate'
  <2>1. \A b : b \in free' => \/ b \in free
                              \/ \E s \in put : b = NumberAt(f, s)
                              \/ b = inode[f].indexBlock
    BY <1>1, <1>5
  <2>2. \A g \in Linked \ {f} : inode[g].indexBlock \in DataBlocks \ free'
    BY <1>2, <1>4, <2>1 DEF FileInv, Separate
  <2>3. \A g \in Linked \ {f}, s \in Slots : index[g][s] # 0 =>
          NumberAt(g, s) \in DataBlocks \ free'
    BY <1>2, <1>4, <2>1 DEF FileInv, Separate
  <2>4. \A g \in Linked \ {f}, s \in Slots : NumberAt(g, s)' = NumberAt(g, s)
    BY <1>8 DEF NumberAt
  <2> QED BY <1>8, <2>2, <2>3, <2>4 DEF FileInv, Separate
<1>10. Layout(X)' BY <1>8 DEF FileInv, Layout, NrUsed
<1> QED BY <1>7, <1>9, <1>10 DEF FileInv

\* After a write, a word that is not zero names a new block, or the block of
\* an old word that is not zero, and two words never name the same old one.
LEMMA WrittenFrom ==
  ASSUME NEW X, FileInv(X), NEW f \in Inodes, f \notin X,
         NEW off \in Offsets, NEW d \in Payloads,
         NEW w \in Plans(f, off, Len(d)), NEW s \in Slots, NEW t \in Slots,
         ~ Fresh(f, w, s), ~ Fresh(f, w, t), From(f, w, s) = From(f, w, t)
  PROVE  s = t
<1>1. /\ w.bj \in Slots /\ w.n \in 1 .. MaxBlocks
      /\ NrUsed(f) \in -1 .. MaxBlocks /\ f \in Linked
  BY Planned DEF FileInv, Live, Linked
<1>2. ~ NotNew(f) => NrUsed(f) =< 0
  <2>1. inode[f].size \in Nat /\ inode[f].blocks \in Int
    BY DiskAssumption DEF FileInv, TypeOK
  <2>2. /\ \A r \in Slots : r < NrUsed(f) => index[f][r] # 0
        /\ inode[f].size > 0 => index[f][0] # 0
        /\ inode[f].size = 0 => inode[f].blocks =< 1
    BY <1>1 DEF FileInv, Layout
  <2> QED BY <2>1, <2>2 DEF NotNew, NrUsed
<1>3. /\ w.bj \in Nat /\ w.n \in Nat \ {0} /\ NrUsed(f) \in Int
      /\ s \in Nat /\ t \in Nat
  BY <1>1, DiskAssumption DEF Slots
<1> DEFINE up(r) == w.bj + w.n < r /\ r < NrUsed(f) + w.n
<1>4. ASSUME NEW q \in {s, t}, NEW r \in {s, t}, ~ Fresh(f, w, r), up(q), ~ up(r)
      PROVE  q - w.n # r
  <2>1. q \in Nat /\ r \in Nat BY <1>3
  <2>2. r =< w.bj + w.n \/ NrUsed(f) + w.n =< r
    BY <1>3, <1>4, <2>1
  <2>3. NotNew(f) \/ NrUsed(f) + w.n =< w.n BY <1>2, <1>3
  <2>4. CASE NotNew(f)
    BY <1>3, <1>4, <2>1, <2>2, <2>4 DEF Fresh, First
  <2>5. CASE ~ NotNew(f) BY <1>3, <1>4, <2>1, <2>3, <2>5
  <2> QED BY <2>4, <2>5
<1>5. \A r \in {s, t} : From(f, w, r) = IF up(r) THEN r - w.n ELSE r
  BY DEF From
<1> HIDE DEF up
<1> QED BY <1>3, <1>4, <1>5

\* No slot below the new number of blocks is left without a word.
LEMMA WrittenSlots ==
  ASSUME NEW X, FileInv(X), NEW f \in Inodes, f \notin X,
         NEW off \in Offsets, NEW d \in Payloads,
         NEW w \in Plans(f, off, Len(d)), NEW s \in Slots, ~ Fresh(f, w, s),
         s < NrUsed(f) + w.n \/ s = 0
  PROVE  index[f][From(f, w, s)] # 0
<1>1. /\ w.bj \in Slots /\ w.n \in 1 .. MaxBlocks
      /\ NrUsed(f) \in -1 .. MaxBlocks /\ f \in Linked
      /\ NrUsed(f) > 0 => w.bj < NrUsed(f)
      /\ NrUsed(f) =< 0 => w.bj = 0
  BY Planned DEF FileInv, Live, Linked
<1>2. /\ \A r \in Slots : r < NrUsed(f) => index[f][r] # 0
      /\ NotNew(f) => index[f][0] # 0
      /\ ~ NotNew(f) => NrUsed(f) =< 0
  <2>1. inode[f].size \in Nat /\ inode[f].blocks \in Int
    BY DiskAssumption DEF FileInv, TypeOK
  <2>2. /\ \A r \in Slots : r < NrUsed(f) => index[f][r] # 0
        /\ inode[f].size > 0 => index[f][0] # 0
        /\ inode[f].size = 0 => inode[f].blocks =< 1
    BY <1>1 DEF FileInv, Layout
  <2> QED BY <2>1, <2>2 DEF NotNew, NrUsed
<1>3. /\ w.bj \in Nat /\ w.n \in Nat \ {0} /\ NrUsed(f) \in Int
      /\ s \in Nat /\ MaxBlocks \in Nat /\ s < MaxBlocks
  BY <1>1, DiskAssumption DEF Slots
<1>4. From(f, w, s) \in 0 .. MaxBlocks - 1 BY <1>3 DEF From
<1>5. From(f, w, s) < NrUsed(f) \/ (NotNew(f) /\ From(f, w, s) = 0)
  <2>1. CASE NotNew(f)
    <3>1. s =< w.bj \/ w.bj + w.n < s
      BY <1>3, <2>1 DEF Fresh, First
    <3>2. CASE w.bj + w.n < s /\ s < NrUsed(f) + w.n
      BY <1>3, <3>2 DEF From
    <3>3. CASE ~ (w.bj + w.n < s /\ s < NrUsed(f) + w.n)
      BY <1>1, <1>3, <2>1, <3>1, <3>3 DEF From
    <3> QED BY <3>2, <3>3
  <2>2. CASE ~ NotNew(f)
    BY <1>1, <1>2, <1>3, <2>2 DEF Fresh, First
  <2> QED BY <2>1, <2>2
<1> QED BY <1>2, <1>4, <1>5 DEF Slots

\* The new words name each old block once at most, and fresh blocks.
Rewritten(f, w, al, new) ==
  \A s \in Slots :
    /\ new[s] \in Word
    /\ get_block_number(new[s]) = IF Fresh(f, w, s) THEN al[s - First(f, w)]
                                  ELSE NumberAt(f, From(f, w, s))
    /\ ~ Fresh(f, w, s) /\ new[s] # 0 => index[f][From(f, w, s)] # 0

\* What the words name after a write: fresh blocks and old ones, each once.
Names(f, new, taken) ==
  /\ \A s \in Slots : new[s] # 0 =>
       \/ get_block_number(new[s]) \in taken
       \/ \E r \in Slots : /\ index[f][r] # 0
                           /\ get_block_number(new[s]) = NumberAt(f, r)
  /\ \A s, t \in Slots :
       /\ new[s] # 0 /\ new[t] # 0
       /\ get_block_number(new[s]) = get_block_number(new[t])
       => s = t

\* Insertion moves each word to one slot at most.
LEMMA RewrittenNames ==
  ASSUME NEW X, FileInv(X), NEW f \in Inodes, f \notin X,
         NEW off \in Offsets, NEW d \in Payloads,
         NEW w \in Plans(f, off, Len(d)), NEW al \in FirstFree(w.n),
         NEW new, Rewritten(f, w, al, new)
  PROVE  Names(f, new, Taken(al))
<1>1. TypeOK BY DEF FileInv
<1>2. w.bj \in Slots /\ w.n \in 1 .. MaxBlocks /\ f \in Linked
  BY <1>1, Planned DEF Live, Linked
<1>3. /\ \A k \in 0 .. w.n - 1 : al[k] \in free
      /\ \A m, k \in 0 .. w.n - 1 : al[m] = al[k] => m = k
      /\ Taken(al) = {al[k] : k \in 0 .. w.n - 1}
  BY <1>1, <1>2, FreshBlocks
<1>4. ASSUME NEW s \in Slots, Fresh(f, w, s)
      PROVE  s - First(f, w) \in 0 .. w.n - 1 /\ First(f, w) \in Int
  <2>1. s \in Int /\ w.bj \in Int /\ w.n \in Int
    BY <1>2, DiskAssumption DEF Slots
  <2>2. First(f, w) \in Int BY <2>1 DEF First
  <2> QED BY <1>4, <2>1, <2>2 DEF Fresh
<1>5. ASSUME NEW s \in Slots, new[s] # 0
      PROVE  \/ /\ Fresh(f, w, s)
                /\ get_block_number(new[s]) = al[s - First(f, w)]
                /\ get_block_number(new[s]) \in Taken(al) \cap free
             \/ /\ ~ Fresh(f, w, s)
                /\ get_block_number(new[s]) = NumberAt(f, From(f, w, s))
                /\ index[f][From(f, w, s)] # 0
                /\ From(f, w, s) \in Slots
                /\ get_block_number(new[s]) \notin free
  <2>1. CASE Fresh(f, w, s)
    <3>1. get_block_number(new[s]) = al[s - First(f, w)]
      BY <2>1 DEF Rewritten
    <3> QED BY <1>3, <1>4, <2>1, <3>1
  <2>2. CASE ~ Fresh(f, w, s)
    <3>1. /\ get_block_number(new[s]) = NumberAt(f, From(f, w, s))
          /\ index[f][From(f, w, s)] # 0
      BY <1>5, <2>2 DEF Rewritten
    <3>2. From(f, w, s) \in Slots BY AllocatedWord
    <3> QED BY <1>2, <2>2, <3>1, <3>2 DEF FileInv, Separate
  <2> QED BY <2>1, <2>2
<1>6. ASSUME NEW s \in Slots, NEW t \in Slots, new[s] # 0, new[t] # 0,
             get_block_number(new[s]) = get_block_number(new[t])
      PROVE  s = t
  <2>1. CASE Fresh(f, w, s) /\ Fresh(f, w, t)
    <3>1. al[s - First(f, w)] = al[t - First(f, w)]
      BY <1>5, <1>6, <2>1
    <3>2. s - First(f, w) = t - First(f, w) /\ First(f, w) \in Int
      BY <1>3, <1>4, <2>1, <3>1
    <3> QED BY <3>2 DEF Slots
  <2>2. CASE ~ Fresh(f, w, s) /\ ~ Fresh(f, w, t)
    <3>1. From(f, w, s) = From(f, w, t)
      BY <1>2, <1>5, <1>6, <2>2 DEF FileInv, Separate
    <3> QED BY <2>2, <3>1, WrittenFrom
  <2> QED BY <1>5, <1>6, <2>1, <2>2
<1>7. ASSUME NEW s \in Slots, new[s] # 0
      PROVE  \/ get_block_number(new[s]) \in Taken(al)
             \/ \E r \in Slots : /\ index[f][r] # 0
                                 /\ get_block_number(new[s]) = NumberAt(f, r)
  BY <1>5, <1>7
<1> QED BY <1>6, <1>7 DEF Names

\* Words that name fresh blocks and old ones of their file, each once, keep the
\* files apart.
LEMMA NamesApart ==
  ASSUME TypeOK, Separate, NEW f \in Linked, NEW new, NEW taken \in SUBSET free,
         Names(f, new, taken), free' = free \ taken,
         Linked' = Linked, index'[f] = new,
         \A g \in Linked : inode'[g].indexBlock = inode[g].indexBlock,
         \A g \in Linked \ {f} : index'[g] = index[g]
  PROVE  Separate'
<1>1. \A g \in Linked \ {f}, s \in Slots :
        /\ NumberAt(g, s)' = NumberAt(g, s)
        /\ index'[g][s] = index[g][s]
  BY DEF NumberAt
<1>2. ASSUME NEW s \in Slots, index'[f][s] # 0
      PROVE  \/ NumberAt(f, s)' \in taken
             \/ \E r \in Slots : /\ index[f][r] # 0
                                 /\ NumberAt(f, s)' = NumberAt(f, r)
  BY <1>2 DEF Names, NumberAt
<1>3. \A g \in Linked : inode[g].indexBlock \in DataBlocks \ free'
  BY DEF Separate
<1>4. ASSUME NEW g \in Linked, NEW s \in Slots, index'[g][s] # 0
      PROVE  /\ NumberAt(g, s)' \in DataBlocks \ free'
             /\ \A h \in Linked : inode[h].indexBlock # NumberAt(g, s)'
  <2>1. CASE g # f BY <1>1, <1>4, <2>1 DEF Separate
  <2>2. CASE g = f /\ NumberAt(f, s)' \in taken
    <3>1. NumberAt(f, s)' \in free BY <2>2
    <3> QED BY <2>2, <3>1 DEF Separate, TypeOK
  <2>3. CASE g = f /\ NumberAt(f, s)' \notin taken
    BY <1>2, <1>4, <2>3 DEF Separate
  <2> QED BY <2>1, <2>2, <2>3
<1>5. ASSUME NEW s \in Slots, index'[f][s] # 0,
             NEW h \in Linked \ {f}, NEW t \in Slots, index'[h][t] # 0
      PROVE  NumberAt(f, s)' # NumberAt(h, t)'
  <2>1. /\ NumberAt(h, t)' = NumberAt(h, t) /\ index[h][t] # 0
        /\ NumberAt(h, t) \notin free
    BY <1>1, <1>5 DEF Separate
  <2>2. CASE NumberAt(f, s)' \in taken BY <2>1, <2>2
  <2>3. CASE NumberAt(f, s)' \notin taken
    BY <1>2, <1>5, <2>1, <2>3 DEF Separate
  <2> QED BY <2>2, <2>3
<1>6. ASSUME NEW g \in Linked, NEW h \in Linked, NEW s \in Slots, NEW t \in Slots,
             index'[g][s] # 0, index'[h][t] # 0,
             NumberAt(g, s)' = NumberAt(h, t)'
      PROVE  g = h /\ s = t
  <2>1. CASE g # f /\ h # f BY <1>1, <1>6, <2>1 DEF Separate
  <2>2. CASE g = f /\ h = f BY <1>6, <2>2 DEF Names, NumberAt
  <2>3. CASE g = f /\ h # f BY <1>5, <1>6, <2>3
  <2>4. CASE g # f /\ h = f BY <1>5, <1>6, <2>4
  <2> QED BY <2>1, <2>2, <2>3, <2>4
<1>7. \A g, h \in Linked : inode'[g].indexBlock = inode'[h].indexBlock => g = h
  BY DEF Separate
<1> QED BY <1>3, <1>4, <1>6, <1>7 DEF Separate

\* A step of a write that has allocated all its blocks: the file gets new words and
\* a size.
NewWords(f, w, al, new, size) ==
  /\ Rewritten(f, w, al, new) /\ new = [s \in Slots |-> new[s]]
  /\ size \in Nat \ {0}
  /\ free' = free \ Taken(al) /\ nrFree' = nrFree - w.n
  /\ index' = [index EXCEPT ![f] = new]
  /\ inode' = [inode EXCEPT ![f].size = size,
                            ![f].blocks = inode[f].blocks + w.n]
  /\ data' \in [Blocks -> Block] /\ corrupt' = corrupt /\ ret'.errno \in Errnos

\* Insertion: what the words name is still named once, and the new blocks were
\* free.
LEMMA WordsStep ==
  ASSUME NEW X, FileInv(X), NEW f \in Inodes, f \notin X,
         NEW off \in Offsets, NEW d \in Payloads,
         NEW w \in Plans(f, off, Len(d)), NEW al \in FirstFree(w.n),
         NEW new, NEW size, NewWords(f, w, al, new, size)
  PROVE  FileInv(X)'
<1>0. /\ Rewritten(f, w, al, new) /\ new = [s \in Slots |-> new[s]]
      /\ size \in Nat /\ size # 0
      /\ free' = free \ Taken(al) /\ nrFree' = nrFree - w.n
      /\ index' = [index EXCEPT ![f] = new]
      /\ inode' = [inode EXCEPT ![f].size = size,
                                ![f].blocks = inode[f].blocks + w.n]
      /\ data' \in [Blocks -> Block] /\ corrupt' = corrupt /\ ret'.errno \in Errnos
  BY DEF NewWords
<1>1. TypeOK BY DEF FileInv
<1>2. /\ w.bj \in Slots /\ w.byj \in Nat /\ w.n \in 1 .. MaxBlocks
      /\ NrUsed(f) \in -1 .. MaxBlocks /\ NrUsed(f) + w.n =< MaxBlocks
      /\ NrUsed(f) =< 0 => w.bj = 0
      /\ Len(d) \in Nat \ {0} /\ f \in Linked
  BY <1>1, Planned DEF Live, Linked
<1>3. ASSUME NEW s \in Slots
      PROVE  /\ From(f, w, s) \in Slots
             /\ new[s] \in Word
             /\ get_block_number(new[s]) =
                  IF Fresh(f, w, s) THEN al[s - First(f, w)]
                  ELSE NumberAt(f, From(f, w, s))
             /\ ~ Fresh(f, w, s) /\ new[s] # 0 => index[f][From(f, w, s)] # 0
  BY <1>0, AllocatedWord DEF Rewritten
<1>4. /\ \A k \in 0 .. w.n - 1 : al[k] \in free /\ al[k] \in DataBlocks
      /\ \A m, k \in 0 .. w.n - 1 : al[m] = al[k] => m = k
      /\ Taken(al) = {al[k] : k \in 0 .. w.n - 1}
  BY <1>1, <1>2, FreshBlocks
<1> DEFINE blocks == inode[f].blocks + w.n
<1>5. /\ blocks \in 0 .. MaxBlocks + 1 /\ size \in Nat /\ size # 0
      /\ blocks - 1 = NrUsed(f) + w.n
      /\ inode' = [inode EXCEPT ![f].size = size, ![f].blocks = blocks]
  <2>1. inode[f].blocks \in 0 .. MaxBlocks + 1 BY <1>1 DEF TypeOK
  <2>2. MaxBlocks \in Nat /\ w.n \in Nat /\ inode[f].blocks \in Nat
    BY <1>2, <2>1, DiskAssumption
  <2>3. inode[f].blocks - 1 + w.n =< MaxBlocks BY <1>2 DEF NrUsed
  <2>4. inode' = [inode EXCEPT ![f].size = size, ![f].blocks = blocks]
    BY <1>0
  <2>5. PICK k \in Nat : k = inode[f].blocks BY <2>2
  <2>6. blocks = k + w.n /\ NrUsed(f) = k - 1 /\ k - 1 + w.n =< MaxBlocks
    BY <2>3, <2>5 DEF NrUsed
  <2>7. blocks \in 0 .. MaxBlocks + 1 /\ blocks - 1 = NrUsed(f) + w.n
    BY <2>2, <2>6, SMTT(60)
  <2> QED BY <1>0, <2>4, <2>7
<1>6. /\ index' \in [Inodes -> [Slots -> Word]]
      /\ index'[f] = new /\ \A g \in Inodes \ {f} : index'[g] = index[g]
  <2>1. new \in [Slots -> Word] BY <1>0, <1>3
  <2> QED BY <1>0, <1>1, <2>1 DEF TypeOK
<1> HIDE DEF blocks
<1>7. /\ inode' \in [Inodes -> InodeType]
      /\ inode'[f].size = size /\ inode'[f].blocks = blocks
      /\ Linked' = Linked
      /\ \A g \in Inodes : inode'[g].indexBlock = inode[g].indexBlock
      /\ \A g \in Inodes \ {f} : inode'[g] = inode[g]
  BY <1>1, <1>5, Resized
<1>8. TypeOK'
  <2>1. free' \subseteq DataBlocks /\ nrFree' \in Int
    BY <1>0, <1>1, <1>2 DEF TypeOK
  <2>2. corrupt' \in BOOLEAN /\ ret'.errno \in Errnos
    BY <1>0, <1>1 DEF TypeOK
  <2> QED BY <1>0, <1>6, <1>7, <2>1, <2>2 DEF TypeOK, InodeType
<1>9. ASSUME NEW s \in Slots, Fresh(f, w, s)
      PROVE  s - First(f, w) \in 0 .. w.n - 1 /\ First(f, w) \in Int
  <2>1. s \in Int /\ w.bj \in Int /\ w.n \in Int
    BY <1>2, DiskAssumption DEF Slots
  <2>2. First(f, w) \in Int BY <2>1 DEF First
  <2> QED BY <1>9, <2>1, <2>2 DEF Fresh
<1>10. Separate'
  <2>1. Names(f, new, Taken(al)) BY <1>0, RewrittenNames
  <2>2. Taken(al) \in SUBSET free /\ free' = free \ Taken(al)
    BY <1>0, <1>4
  <2>3. /\ \A g \in Linked : inode'[g].indexBlock = inode[g].indexBlock
        /\ \A g \in Linked \ {f} : index'[g] = index[g]
    BY <1>6, <1>7 DEF Linked
  <2> QED BY <1>1, <1>2, <1>6, <1>7, <2>1, <2>2, <2>3, NamesApart DEF FileInv
<1>11. Layout(X)'
  <2>1. ASSUME NEW s \in Slots, s < NrUsed(f) + w.n \/ s = 0
        PROVE  index'[f][s] # 0
    <3>1. CASE Fresh(f, w, s)
      <4>1. get_block_number(new[s]) \in DataBlocks
        BY <1>3, <1>4, <1>9, <3>1
      <4> QED BY <1>6, <4>1, ZeroWord, DataBlockNumber
    <3>2. CASE ~ Fresh(f, w, s)
      <4>1. index[f][From(f, w, s)] # 0
        BY <2>1, <3>2, WrittenSlots
      <4>2. NumberAt(f, From(f, w, s)) \in DataBlocks
        BY <1>2, <1>3, <4>1 DEF FileInv, Separate
      <4>3. get_block_number(new[s]) \in DataBlocks
        BY <1>3, <3>2, <4>2
      <4> QED BY <1>6, <4>3, ZeroWord, DataBlockNumber
    <3> QED BY <3>1, <3>2
  <2>2. 0 \in Slots /\ \A s \in Slots : s \in Nat
    BY DiskAssumption DEF Slots
  <2>3. NrUsed(f)' = NrUsed(f) + w.n BY <1>5, <1>7 DEF NrUsed
  <2>4. \A g \in Linked \ {f} :
          inode'[g] = inode[g] /\ index'[g] = index[g] /\ NrUsed(g)' = NrUsed(g)
    BY <1>6, <1>7 DEF Linked, NrUsed
  <2>5. inode'[f].size > 0 /\ inode'[f].size # 0 BY <1>5, <1>7
  <2> QED
    <3>1. ASSUME NEW g \in Linked \ X
          PROVE  /\ \A s \in Slots : s < NrUsed(g)' => index'[g][s] # 0
                 /\ inode'[g].size > 0 => index'[g][0] # 0
                 /\ inode'[g].size = 0 => inode'[g].blocks =< 1
      <4>1. CASE g = f BY <2>1, <2>2, <2>3, <2>5, <4>1
      <4>2. CASE g # f BY <2>4, <4>2 DEF FileInv, Layout
      <4> QED BY <4>1, <4>2
    <3> QED BY <1>7, <3>1 DEF Layout
<1> QED BY <1>8, <1>10, <1>11 DEF FileInv

\* The writes that end well.
LEMMA WriteStep ==
  ASSUME NEW X, FileInv(X), NEW f \in Inodes, f \notin X,
         NEW off \in Offsets, NEW d \in Payloads,
         NEW w \in Plans(f, off, Len(d)), Write(f, off, d, w)
  PROVE  FileInv(X)'
<1>1. PICK al \in FirstFree(w.n) :
        /\ free' = free \ Taken(al)
        /\ index' = [index EXCEPT ![f] =
                       CopyIndex(f, w, al, Len(d), Copies(f, w))]
        /\ data' = CopyData(f, w, al, d, Copies(f, w))
  BY DEF Write
<1>2. /\ nrFree' = nrFree - w.n
      /\ inode' = [inode EXCEPT ![f].blocks = @ + w.n,
                                ![f].size = @ + Len(d) + EmptySpace(f, off)]
      /\ ret' = Ret("OK", <<>>) /\ corrupt' = corrupt
      /\ ~ Overruns(f, w, Len(d))
  BY DEF Write
<1>3. TypeOK BY DEF FileInv
<1>4. w.byj \in Nat /\ w.n \in 1 .. MaxBlocks /\ Len(d) \in Nat \ {0}
  BY <1>3, Planned
<1> DEFINE c == Copies(f, w)
           new == CopyIndex(f, w, al, Len(d), c)
           size == inode[f].size + Len(d) + EmptySpace(f, off)
<1>5. c \in 0 .. Copies(f, w) BY <1>4 DEF Copies
<1>6. Rewritten(f, w, al, new) /\ new = [s \in Slots |-> new[s]]
  <2>1. Rewritten(f, w, al, new)
    BY <1>5, WrittenWord DEF Rewritten
  <2>2. new = [s \in Slots |-> new[s]] BY DEF CopyIndex
  <2> QED BY <2>1, <2>2
<1>7. data' \in [Blocks -> Block]
  <2>1. MaxBlockSize \in Nat BY WidthAssumption DEF MaxBlockSize
  <2>2. w.byj =< MaxBlockSize BY <1>2, <1>4, <2>1 DEF Overruns
  <2> QED BY <1>1, <1>5, <2>2, WrittenData
<1>8. size \in Nat \ {0}
  <2>1. inode[f].size \in Nat BY <1>3 DEF TypeOK
  <2>2. EmptySpace(f, off) \in Nat
    BY <2>1, InputAssumption DEF EmptySpace
  <2>3. Len(d) \in Nat /\ Len(d) > 0 BY <1>4
  <2> QED BY <2>1, <2>2, <2>3, SMTT(60)
<1>9. inode' = [inode EXCEPT ![f].size = size,
                             ![f].blocks = inode[f].blocks + w.n]
  BY <1>2, <1>3 DEF TypeOK
<1>10. ret'.errno \in Errnos BY <1>2 DEF Ret, Errnos
<1>11. index' = [index EXCEPT ![f] = new] BY <1>1
<1> HIDE DEF c, new, size
<1>12. NewWords(f, w, al, new, size)
  BY <1>1, <1>2, <1>6, <1>7, <1>8, <1>9, <1>10, <1>11 DEF NewWords
<1> QED BY <1>12, WordsStep

-----------------------------------------------------------------------------
(* Calls that leave their buffers *)

\* O_TRUNC of a full index block clears every word whose block it frees before
\* it goes on after the end.
LEMMA OpenOverrunStep ==
  ASSUME NEW X, FileInv(X), NEW f \in Inodes, OpenOverrun(f)
  PROVE  TypeOK' /\ Separate'
<1> DEFINE put == {s \in Slots : Accepted(index[f][s])}
<1>1. /\ free' = free \cup {index[f][s] : s \in put}
      /\ nrFree' = nrFree + Cardinality(put)
      /\ index' = [index EXCEPT ![f] = [s \in Slots |-> 0]]
      /\ inode' = inode /\ data' = data /\ ret' = ret /\ corrupt' = TRUE
      /\ f \in Linked /\ Prefix(f) = Slots
  BY DEF OpenOverrun, PutWords, Live, Linked
<1>0. ASSUME NEW s \in Slots PROVE index[f][s] # 0
  <2>1. \A t \in 0 .. s : index[f][t] # 0 BY <1>1 DEF Prefix
  <2> QED BY <2>1, DiskAssumption DEF Slots
<1>2. TypeOK BY DEF FileInv
<1>3. /\ put \in SUBSET Slots
      /\ \A s \in put : index[f][s] # 0 /\ Accepted(index[f][s])
  BY <1>0
<1>4. /\ \A s \in put : /\ index[f][s] = NumberAt(f, s)
                        /\ index[f][s] \in DataBlocks
      /\ Cardinality(put) \in Nat
  BY <1>1, <1>3, PutBlocks
<1> HIDE DEF put
<1>5. TypeOK'
  <2>1. free' \subseteq DataBlocks /\ nrFree' \in Int
    BY <1>1, <1>2, <1>4 DEF TypeOK
  <2>2. index' \in [Inodes -> [Slots -> Word]]
    BY <1>1, <1>2, ZeroWord DEF TypeOK
  <2> QED BY <1>1, <1>2, <2>1, <2>2 DEF TypeOK
<1>6. /\ Linked' = Linked
      /\ \A s \in Slots : index'[f][s] = 0
      /\ \A g \in Linked \ {f} : index'[g] = index[g]
  BY <1>1, <1>2 DEF TypeOK, Linked
<1>7. Separate'
  <2>1. \A b : b \in free' => b \in free \/ \E s \in put : b = NumberAt(f, s)
    BY <1>1, <1>4
  <2>2. \A g \in Linked, s \in Slots : index'[g][s] # 0 =>
          g # f /\ NumberAt(g, s)' = NumberAt(g, s) /\ index[g][s] # 0
    BY <1>6 DEF NumberAt
  <2>3. \A g \in Linked : inode[g].indexBlock \in DataBlocks \ free'
    BY <1>1, <1>3, <2>1 DEF FileInv, Separate
  <2>4. \A g \in Linked, s \in Slots : index'[g][s] # 0 =>
          NumberAt(g, s) \in DataBlocks \ free'
    BY <1>1, <1>3, <2>1, <2>2 DEF FileInv, Separate
  <2> QED BY <1>1, <1>6, <2>2, <2>3, <2>4 DEF FileInv, Separate
<1> QED BY <1>5, <1>7

\* i_blocks grows by the blocks allocated.
LEMMA Grown ==
  ASSUME TypeOK, NEW f \in Inodes, NEW n \in 1 .. MaxBlocks,
         NrUsed(f) + n =< MaxBlocks,
         inode' = [inode EXCEPT ![f].blocks = @ + n]
  PROVE  /\ inode' \in [Inodes -> InodeType]
         /\ Linked' = Linked
         /\ \A g \in Inodes : inode'[g].indexBlock = inode[g].indexBlock
<1> DEFINE old == inode[f]
           new == [old EXCEPT !.blocks = @ + n]
<1>1. inode \in [Inodes -> InodeType] BY DEF TypeOK, InodeType
<1>2. inode' = [inode EXCEPT ![f] = new] BY <1>1 DEF InodeType
<1>3. old.blocks + n \in 0 .. MaxBlocks + 1
  BY <1>1, DiskAssumption DEF InodeType, NrUsed
<1>4. /\ new \in InodeType /\ new.linked = old.linked
      /\ new.indexBlock = old.indexBlock
  BY <1>1, <1>3 DEF InodeType
<1> HIDE DEF new
<1> QED BY <1>1, <1>2, <1>4 DEF Linked

\* A write that has used the blocks taken, and only these, for its own words.
LEMMA HalfWritten ==
  ASSUME NEW X, FileInv(X), NEW f \in Linked, NEW taken \in SUBSET free,
         NEW new \in [Slots -> Word], Names(f, new, taken),
         free' = free \ taken, nrFree' \in Int,
         index' = [index EXCEPT ![f] = new],
         inode' \in [Inodes -> InodeType], Linked' = Linked,
         \A g \in Inodes : inode'[g].indexBlock = inode[g].indexBlock,
         data' \in [Blocks -> Block], corrupt' \in BOOLEAN,
         ret'.errno \in Errnos
  PROVE  TypeOK' /\ Separate'
<1>1. TypeOK /\ Separate /\ f \in Inodes BY DEF FileInv, Linked
<1>2. /\ index' \in [Inodes -> [Slots -> Word]]
      /\ index'[f] = new /\ \A g \in Inodes \ {f} : index'[g] = index[g]
  BY <1>1 DEF TypeOK
<1>3. TypeOK' BY <1>1, <1>2 DEF TypeOK, InodeType
<1>4. /\ \A g \in Linked : inode'[g].indexBlock = inode[g].indexBlock
      /\ \A g \in Linked \ {f} : index'[g] = index[g]
  BY <1>2 DEF Linked
<1> QED BY <1>1, <1>2, <1>3, <1>4, NamesApart

\* The loop that reaches the end of the index block has moved no word.
LEMMA IndexOverrunStep ==
  ASSUME NEW X, FileInv(X), NEW f \in Inodes, f \notin X,
         NEW off \in Offsets, NEW d \in Payloads,
         NEW w \in Plans(f, off, Len(d)), WriteOverrun(f, d, w),
         IndexOverrun(f, w)
  PROVE  TypeOK' /\ Separate'
<1>1. TypeOK /\ f \in Linked BY Planned DEF FileInv, Live, Linked
<1>2. /\ w.bj \in Slots /\ w.n \in 1 .. MaxBlocks
      /\ NrUsed(f) \in -1 .. MaxBlocks /\ NrUsed(f) + w.n =< MaxBlocks
  BY <1>1, Planned
<1> DEFINE m == MaxBlocks - First(f, w)
<1>3. PICK al \in FirstFree(m + 1) :
        /\ free' = free \ Taken(al)
        /\ index' = [index EXCEPT ![f] = Allocated(f, w, m, al)]
  BY DEF IndexOverrun
<1>4. /\ m < w.n /\ nrFree' = nrFree - (m + 1)
      /\ inode' = inode /\ data' = data /\ ret' = ret /\ corrupt' = TRUE
  BY DEF IndexOverrun, WriteOverrun
<1>5. PICK first \in 0 .. MaxBlocks : first = First(f, w)
  BY <1>2, DiskAssumption DEF First, Slots
<1>14. /\ first \in 0 .. MaxBlocks /\ m = MaxBlocks - first
       /\ MaxBlocks \in Nat /\ w.n \in 1 .. MaxBlocks
       /\ w.bj \in Int /\ first =< w.bj + 1
  BY <1>2, <1>5, DiskAssumption DEF First, Slots
<1> HIDE DEF m
<1>15. /\ m \in 0 .. MaxBlocks /\ m + 1 \in 1 .. MaxBlocks
       /\ w.bj + w.n >= MaxBlocks
  BY <1>4, <1>14
<1>6. /\ \A k \in 0 .. m : al[k] \in free /\ al[k] \in DataBlocks
      /\ \A k, l \in 0 .. m : al[k] = al[l] => k = l
      /\ Taken(al) = {al[k] : k \in 0 .. m}
  BY <1>1, <1>15, FreshBlocks
<1> DEFINE new == Allocated(f, w, m, al)
<1>7. ASSUME NEW s \in Slots
      PROVE  /\ new[s] \in Word
             /\ \/ /\ s < first /\ new[s] = index[f][s]
                \/ /\ first =< s /\ s - first \in 0 .. m
                   /\ get_block_number(new[s]) = al[s - first]
  <2>1. s \in 0 .. MaxBlocks - 1 BY DEF Slots
  <2>2. Shifted(f, w)[s] = index[f][s]
    BY <1>14, <1>15, <2>1 DEF Shifted
  <2>3. index[f][s] \in Word BY <1>1 DEF TypeOK
  <2>4. CASE s < first
    <3>1. new[s] = Shifted(f, w)[s]
      BY <1>5, <1>14, <2>1, <2>4 DEF Allocated
    <3> QED BY <2>2, <2>3, <2>4, <3>1
  <2>5. CASE first =< s
    <3>1. s < first + m /\ s - first \in 0 .. m
      BY <1>14, <2>1, <2>5
    <3>2. new[s] = set_block_size(set_block_number(index[f][s],
                                    al[s - first]), 0)
      BY <1>5, <2>2, <2>5, <3>1 DEF Allocated
    <3>3. al[s - first] \in DataBlocks BY <1>6, <3>1
    <3> QED BY <2>3, <2>5, <3>1, <3>2, <3>3, SetNumber, SetSize, DataBlockNumber
  <2> QED BY <1>14, <2>1, <2>4, <2>5
<1>8. new = [s \in Slots |-> new[s]] BY DEF Allocated
<1> HIDE DEF new
<1>9. ASSUME NEW s \in Slots, new[s] # 0
      PROVE  \/ get_block_number(new[s]) \in Taken(al)
             \/ \E r \in Slots : /\ index[f][r] # 0
                                 /\ get_block_number(new[s]) = NumberAt(f, r)
  BY <1>6, <1>7, <1>9 DEF NumberAt
<1>10. ASSUME NEW s \in Slots, NEW t \in Slots, new[s] # 0, new[t] # 0,
              get_block_number(new[s]) = get_block_number(new[t])
       PROVE  s = t
  <2>1. \A r \in Slots : index[f][r] # 0 =>
          get_block_number(index[f][r]) \notin free
    BY <1>1 DEF FileInv, Separate, NumberAt
  <2>2. \A q, r \in Slots :
          /\ index[f][q] # 0 /\ index[f][r] # 0
          /\ get_block_number(index[f][q]) = get_block_number(index[f][r])
          => q = r
    BY <1>1 DEF FileInv, Separate, NumberAt
  <2>3. CASE s < first /\ t < first
    BY <1>14, <1>7, <1>10, <2>2, <2>3 DEF Slots
  <2>4. CASE first =< s /\ first =< t
    <3>1. al[s - first] = al[t - first]
      BY <1>14, <1>7, <1>10, <2>4 DEF Slots
    <3>2. s - first = t - first
      BY <1>14, <1>6, <1>7, <2>4, <3>1 DEF Slots
    <3> QED BY <1>14, <3>2 DEF Slots
  <2>5. ASSUME NEW q \in Slots, NEW r \in Slots, new[q] # 0,
               q < first, ~ (r < first)
        PROVE  get_block_number(new[q]) # get_block_number(new[r])
    <3>1. new[q] = index[f][q] BY <1>14, <1>7, <2>5 DEF Slots
    <3>2. get_block_number(new[r]) \in free BY <1>6, <1>7, <2>5
    <3> QED BY <2>1, <2>5, <3>1, <3>2
  <2> QED BY <1>14, <1>10, <2>3, <2>4, <2>5 DEF Slots
<1>11. Names(f, new, Taken(al)) BY <1>9, <1>10 DEF Names
<1>16. index' = [index EXCEPT ![f] = new] BY <1>3 DEF new
<1>12. /\ new \in [Slots -> Word] /\ Taken(al) \in SUBSET free
       /\ index' = [index EXCEPT ![f] = new]
  BY <1>6, <1>7, <1>8, <1>16
<1>13. /\ nrFree' \in Int /\ inode' \in [Inodes -> InodeType] /\ Linked' = Linked
       /\ data' \in [Blocks -> Block] /\ ret'.errno \in Errnos
       /\ \A g \in Inodes : inode'[g].indexBlock = inode[g].indexBlock
       /\ corrupt' \in BOOLEAN
  BY <1>1, <1>4, <1>15 DEF TypeOK, InodeType, Linked
<1> QED BY <1>1, <1>3, <1>11, <1>12, <1>13, HalfWritten

\* The writes that leave a data block have allocated all their own, and split
\* and copied some.
LEMMA BlockOverrunStep ==
  ASSUME NEW X, FileInv(X), NEW f \in Inodes, f \notin X,
         NEW off \in Offsets, NEW d \in Payloads,
         NEW w \in Plans(f, off, Len(d)), WriteOverrun(f, d, w),
         SplitOverrun(f, w) \/ CopyOverrun(f, d, w)
  PROVE  TypeOK' /\ Separate'
<1>1. TypeOK /\ f \in Linked BY Planned DEF FileInv, Live, Linked
<1>2. /\ w.byj \in Nat /\ w.n \in 1 .. MaxBlocks
      /\ NrUsed(f) + w.n =< MaxBlocks
  BY <1>1, Planned
<1>3. /\ nrFree' = nrFree - w.n /\ ret' = ret /\ corrupt' = TRUE
      /\ inode' = [inode EXCEPT ![f].blocks = @ + w.n]
  BY DEF SplitOverrun, CopyOverrun, WriteOverrun
<1>4. /\ inode' \in [Inodes -> InodeType] /\ Linked' = Linked
      /\ \A g \in Inodes : inode'[g].indexBlock = inode[g].indexBlock
  BY <1>1, <1>2, <1>3, Grown
<1>5. ASSUME NEW al \in FirstFree(w.n), NEW new, new = [s \in Slots |-> new[s]],
             Rewritten(f, w, al, new),
             free' = free \ Taken(al), index' = [index EXCEPT ![f] = new],
             data' \in [Blocks -> Block]
      PROVE  TypeOK' /\ Separate'
  <2>1. Names(f, new, Taken(al)) BY <1>5, RewrittenNames
  <2>2. new \in [Slots -> Word] BY <1>5 DEF Rewritten
  <2>3. Taken(al) \in SUBSET free BY <1>1, <1>2, FreshBlocks
  <2>4. nrFree' \in Int /\ corrupt' \in BOOLEAN /\ ret'.errno \in Errnos
    BY <1>1, <1>2, <1>3 DEF TypeOK
  <2> QED BY <1>1, <1>4, <1>5, <2>1, <2>2, <2>3, <2>4, HalfWritten
<1>6. CASE SplitOverrun(f, w)
  <2>1. PICK al \in FirstFree(w.n) :
          /\ free' = free \ Taken(al)
          /\ index' = [index EXCEPT ![f] = Allocated(f, w, w.n, al)]
    BY <1>6 DEF SplitOverrun
  <2> DEFINE new == Allocated(f, w, w.n, al)
  <2>2. new = [s \in Slots |-> new[s]] BY DEF Allocated
  <2>3. Rewritten(f, w, al, new) BY AllocatedWord DEF Rewritten
  <2>4. data' \in [Blocks -> Block]
    BY <1>1, <1>6 DEF SplitOverrun, TypeOK
  <2>5. index' = [index EXCEPT ![f] = new] BY <2>1
  <2> HIDE DEF new
  <2> QED BY <1>5, <2>1, <2>2, <2>3, <2>4, <2>5
<1>7. CASE CopyOverrun(f, d, w)
  <2> DEFINE c == Copies(f, w) - 1
  <2>1. PICK al \in FirstFree(w.n) :
          /\ free' = free \ Taken(al)
          /\ index' = [index EXCEPT ![f] = CopyIndex(f, w, al, Len(d), c)]
          /\ data' = CopyData(f, w, al, d, c)
    BY <1>7 DEF CopyOverrun
  <2>2. c \in 0 .. Copies(f, w) /\ w.byj =< MaxBlockSize
    BY <1>2, <1>7 DEF Copies, CopyOverrun
  <2> DEFINE new == CopyIndex(f, w, al, Len(d), c)
  <2> HIDE DEF c
  <2>3. new = [s \in Slots |-> new[s]] BY DEF CopyIndex
  <2>4. Rewritten(f, w, al, new)
    BY <2>2, WrittenWord DEF Rewritten
  <2>5. data' \in [Blocks -> Block] BY <2>1, <2>2, WrittenData
  <2>6. index' = [index EXCEPT ![f] = new] BY <2>1
  <2> HIDE DEF new
  <2> QED BY <1>5, <2>1, <2>3, <2>4, <2>5, <2>6
<1> QED BY <1>6, <1>7

\* The calls that leave their buffers.
OutOfBuffer ==
  \E f \in Inodes :
    \/ OpenOverrun(f) \/ UnlinkOverrun(f) \/ FileInfoOverrun(f)
    \/ \E off \in Offsets, d \in Payloads :
         \E w \in Plans(f, off, Len(d)) : WriteOverrun(f, d, w)

\* Up to the access that leaves them, such a call keeps the files apart.
LEMMA OverrunStep == FileInv({}) /\ OutOfBuffer => TypeOK' /\ Separate'
<1> SUFFICES ASSUME FileInv({}), OutOfBuffer PROVE TypeOK' /\ Separate'
  OBVIOUS
<1>1. PICK X : X = {} OBVIOUS
<1>2. FileInv(X) BY <1>1
<1>3. ASSUME NEW f \in Inodes, OpenOverrun(f) PROVE TypeOK' /\ Separate'
  BY <1>2, <1>3, OpenOverrunStep
<1>4. ASSUME NEW f \in Inodes, UnlinkOverrun(f) \/ FileInfoOverrun(f)
      PROVE  TypeOK' /\ Separate'
  <2>1. UNCHANGED <<free, nrFree, inode, index, data, ret>> /\ corrupt' = TRUE
    BY <1>4 DEF UnlinkOverrun, FileInfoOverrun, disk
  <2>2. FileInv(X)'
    <3>1. free' \subseteq free /\ nrFree' \in Int /\ ret'.errno \in Errnos
      BY <2>1 DEF FileInv, TypeOK
    <3> QED BY <1>2, <2>1, <3>1, IdleStep
  <2> QED BY <2>2 DEF FileInv
<1>5. ASSUME NEW f \in Inodes, NEW off \in Offsets, NEW d \in Payloads,
             NEW w \in Plans(f, off, Len(d)), WriteOverrun(f, d, w)
      PROVE  TypeOK' /\ Separate'
  <2>1. \/ IndexOverrun(f, w) \/ SplitOverrun(f, w) \/ CopyOverrun(f, d, w)
    BY <1>5 DEF WriteOverrun
  <2>2. f \notin X BY <1>1
  <2> QED BY <1>2, <1>5, <2>1, <2>2, IndexOverrunStep, BlockOverrunStep
<1> QED BY <1>3, <1>4, <1>5 DEF OutOfBuffer

-----------------------------------------------------------------------------
(* The counter of free blocks *)

\* A set listed without repetition has as many elements as the list.
LEMMA ListedOnce ==
  ASSUME NEW S, IsFiniteSet(S), NEW h,
         \A x, y \in S : h[x] = h[y] => x = y
  PROVE  /\ IsFiniteSet({h[x] : x \in S})
         /\ Cardinality({h[x] : x \in S}) = Cardinality(S)
<1> DEFINE T == {h[x] : x \in S}
           m == [x \in S |-> h[x]]
<1>1. m \in Bijection(S, T)
  <2>1. m \in [S -> T] OBVIOUS
  <2>2. m \in Injection(S, T) BY <2>1 DEF Injection, IsInjective
  <2>3. m \in Surjection(S, T) BY <2>1 DEF Surjection
  <2> QED BY <2>2, <2>3 DEF Bijection
<1>2. ExistsBijection(S, T) BY <1>1 DEF ExistsBijection
<1> QED BY <1>2, FS_Bijection

\* The bitmap is a finite set of data blocks.
LEMMA FreeFinite ==
  ASSUME TypeOK
  PROVE  IsFiniteSet(free) /\ Cardinality(free) \in Nat
<1>1. IsFiniteSet(DataBlocks)
  BY FS_Interval, DiskAssumption DEF DataBlocks
<1> QED BY <1>1, FS_Subset, FS_CardinalityType DEF TypeOK

\* get_free_block n times takes n bits.
LEMMA TakenCounted ==
  ASSUME TypeOK, NEW n \in 1 .. MaxBlocks, NEW al \in FirstFree(n)
  PROVE  Cardinality(free \ Taken(al)) = Cardinality(free) - n
<1>1. /\ \A m, k \in 0 .. n - 1 : al[m] = al[k] => m = k
      /\ Taken(al) = {al[k] : k \in 0 .. n - 1}
      /\ Taken(al) \subseteq free
  BY FreshBlocks
<1>2. IsFiniteSet(0 .. n - 1) /\ Cardinality(0 .. n - 1) = n
  BY FS_Interval, DiskAssumption
<1>3. Cardinality(Taken(al)) = n BY <1>1, <1>2, ListedOnce
<1>4. free \cap Taken(al) = Taken(al) BY <1>1
<1> QED BY <1>3, <1>4, FreeFinite, FS_Difference

\* put_block sets as many bits as there are words it accepts.
LEMMA PutCounted ==
  ASSUME NEW X, FileInv(X), NEW f \in Linked, NEW slots \in SUBSET Slots,
         \A s \in slots : index[f][s] # 0 /\ Accepted(index[f][s])
  PROVE  /\ IsFiniteSet(free \cup {index[f][s] : s \in slots})
         /\ Cardinality(free \cup {index[f][s] : s \in slots}) =
              Cardinality(free) + Cardinality(slots)
<1> DEFINE h == index[f]
           T == {h[s] : s \in slots}
<1>1. IsFiniteSet(slots) /\ Cardinality(slots) \in Nat
  <2>1. IsFiniteSet(Slots)
    BY FS_Interval, DiskAssumption DEF Slots
  <2> QED BY <2>1, FS_Subset, FS_CardinalityType
<1>2. \A s \in slots : h[s] = NumberAt(f, s) /\ h[s] \in DataBlocks \ free
  BY PutBlocks
<1>3. \A s, t \in slots : h[s] = h[t] => s = t
  BY <1>2 DEF FileInv, Separate
<1> HIDE DEF h
<1>4. IsFiniteSet(T) /\ Cardinality(T) = Cardinality(slots)
  BY <1>1, <1>3, ListedOnce
<1>5. free \cap T = {} BY <1>2
<1>6. Cardinality({}) = 0 /\ IsFiniteSet(free) /\ Cardinality(free) \in Nat
  BY FS_EmptySet, FreeFinite DEF FileInv
<1> HIDE DEF T
<1>7. /\ IsFiniteSet(free \cup T)
      /\ Cardinality(free \cup T) =
           Cardinality(free) + Cardinality(T) - Cardinality(free \cap T)
  BY <1>4, <1>6, FS_Union
<1>8. Cardinality(free \cup T) = Cardinality(free) + Cardinality(slots)
  <2>1. Cardinality(free \cap T) = 0 BY <1>5, <1>6
  <2> QED BY <1>1, <1>4, <1>6, <1>7, <2>1
<1> QED BY <1>7, <1>8 DEF T, h

\* Each operation moves the counter by the number of bits that it moves.
LEMMA CountStep ==
  ASSUME NEW X, FileInv(X), FreeCountExact, [Next]_vars
  PROVE  FreeCountExact'
<1>1. TypeOK /\ nrFree = Cardinality(free) /\ Cardinality(free) \in Nat
  BY FreeFinite DEF FileInv, FreeCountExact
<1> SUFFICES nrFree' = Cardinality(free') BY DEF FreeCountExact
<1>2. ASSUME NEW f \in Inodes, Create(f) PROVE nrFree' = Cardinality(free')
  <2>1. PICK al \in FirstFree(1) : free' = free \ {al[0]}
    BY <1>2 DEF Create
  <2>2. nrFree' = nrFree - 1 BY <1>2 DEF Create
  <2>3. al[0] \in free BY <1>1, FreshBlocks, DiskAssumption
  <2> QED BY <1>1, <2>1, <2>2, <2>3, FreeFinite, FS_RemoveElement
<1>3. ASSUME NEW f \in Inodes, CreateFails(f)
      PROVE  nrFree' = Cardinality(free')
  <2>1. 0 \notin free
    BY <1>1, DiskAssumption DEF TypeOK, DataBlocks
  <2>2. free' = free /\ nrFree' = nrFree
    BY <1>3, <2>1 DEF CreateFails
  <2> QED BY <1>1, <2>2
<1>4. ASSUME NEW f \in Inodes, OpenTrunc(f) PROVE nrFree' = Cardinality(free')
  <2> DEFINE put == {s \in Prefix(f) : Accepted(index[f][s])}
  <2>1. /\ free' = free \cup {index[f][s] : s \in put}
        /\ nrFree' = nrFree + Cardinality(put)
        /\ f \in Linked
    BY <1>4 DEF OpenTrunc, PutWords, Live, Linked
  <2>2. /\ put \in SUBSET Slots
        /\ \A s \in put : index[f][s] # 0 /\ Accepted(index[f][s])
    BY DEF Prefix, Slots
  <2> HIDE DEF put
  <2> QED BY <1>1, <2>1, <2>2, PutCounted
<1>5. ASSUME NEW f \in Inodes, Unlink(f) PROVE nrFree' = Cardinality(free')
  <2> DEFINE words == {s \in Slots : s < NrUsed(f) /\ index[f][s] # 0}
             put == {s \in words : Accepted(index[f][s])}
             given == free \cup {index[f][s] : s \in put}
             own == inode[f].indexBlock
  <2>1. /\ free' = given \cup {own}
        /\ nrFree' = nrFree + Cardinality(put) + 1
        /\ f \in Linked
    BY <1>5 DEF Unlink, Live, Linked
  <2>2. /\ put \in SUBSET Slots
        /\ \A s \in put : index[f][s] # 0 /\ Accepted(index[f][s])
    OBVIOUS
  <2>3. \A s \in put : index[f][s] = NumberAt(f, s)
    BY <2>1, <2>2, PutBlocks
  <2>4. own \notin given BY <2>1, <2>2, <2>3 DEF FileInv, Separate
  <2> HIDE DEF words, put
  <2>5. /\ IsFiniteSet(given)
        /\ Cardinality(given) = Cardinality(free) + Cardinality(put)
    BY <2>1, <2>2, PutCounted
  <2>6. Cardinality(put) \in Nat BY <2>1, <2>2, PutBlocks
  <2> HIDE DEF given, own
  <2>7. Cardinality(given \cup {own}) = Cardinality(given) + 1
    BY <2>4, <2>5, FS_AddElement
  <2> QED BY <1>1, <2>1, <2>5, <2>6, <2>7
<1>6. ASSUME NEW f \in Inodes, NEW off \in Offsets, NEW d \in Payloads,
             NEW w \in Plans(f, off, Len(d)), Write(f, off, d, w)
      PROVE  nrFree' = Cardinality(free')
  <2>1. PICK al \in FirstFree(w.n) : free' = free \ Taken(al)
    BY <1>6 DEF Write
  <2>2. nrFree' = nrFree - w.n BY <1>6 DEF Write
  <2>3. w.n \in 1 .. MaxBlocks BY <1>1, Planned
  <2> QED BY <1>1, <2>1, <2>2, <2>3, TakenCounted
<1>7. ASSUME NEW f \in Inodes,
             UnlinkOverrun(f) \/ FileInfo(f) \/ FileInfoOverrun(f)
      PROVE  nrFree' = Cardinality(free')
  BY <1>1, <1>7 DEF UnlinkOverrun, FileInfo, FileInfoOverrun, disk
<1>12. ASSUME NEW f \in Inodes, OpenOverrun(f) PROVE nrFree' = Cardinality(free')
  <2> DEFINE put == {s \in Slots : Accepted(index[f][s])}
  <2>1. /\ free' = free \cup {index[f][s] : s \in put}
        /\ nrFree' = nrFree + Cardinality(put)
        /\ f \in Linked /\ Prefix(f) = Slots
    BY <1>12 DEF OpenOverrun, PutWords, Live, Linked
  <2>2. ASSUME NEW s \in Slots PROVE index[f][s] # 0
    <3>1. \A t \in 0 .. s : index[f][t] # 0 BY <2>1 DEF Prefix
    <3> QED BY <3>1, DiskAssumption DEF Slots
  <2>3. /\ put \in SUBSET Slots
        /\ \A s \in put : index[f][s] # 0 /\ Accepted(index[f][s])
    BY <2>2
  <2> HIDE DEF put
  <2> QED BY <1>1, <2>1, <2>3, PutCounted
<1>8. ASSUME NEW f \in Inodes, NEW off \in Offsets, NEW len \in ReadLens,
             Read(f, off, len)
      PROVE  nrFree' = Cardinality(free')
  BY <1>1, <1>8 DEF Read, disk
<1>9. ASSUME NEW f \in Inodes, NEW off \in Offsets, NEW d \in Payloads,
             WriteRejected(f, off, d)
      PROVE  nrFree' = Cardinality(free')
  BY <1>1, <1>9 DEF WriteRejected, disk
<1>10. ASSUME NEW f \in Inodes, NEW off \in Offsets, NEW d \in Payloads,
              NEW w \in Plans(f, off, Len(d)), WriteOverrun(f, d, w)
       PROVE  nrFree' = Cardinality(free')
  <2>1. w.n \in 1 .. MaxBlocks /\ w.bj \in Slots BY <1>1, Planned
  <2>2. ASSUME NEW n \in 1 .. MaxBlocks, nrFree' = nrFree - n,
               \E al \in FirstFree(n) : free' = free \ Taken(al)
        PROVE  nrFree' = Cardinality(free')
    BY <1>1, <2>2, TakenCounted
  <2>3. CASE IndexOverrun(f, w)
    <3>1. PICK m : m = MaxBlocks - First(f, w) OBVIOUS
    <3>2. /\ m < w.n /\ nrFree' = nrFree - (m + 1)
          /\ \E al \in FirstFree(m + 1) : free' = free \ Taken(al)
      BY <2>3, <3>1 DEF IndexOverrun
    <3>3. m + 1 \in 1 .. MaxBlocks
      BY <2>1, <3>1, <3>2, DiskAssumption DEF First, Slots
    <3> QED BY <2>2, <3>2, <3>3
  <2>4. CASE SplitOverrun(f, w) \/ CopyOverrun(f, d, w)
    <3>1. /\ nrFree' = nrFree - w.n
          /\ \E al \in FirstFree(w.n) : free' = free \ Taken(al)
      BY <2>4 DEF SplitOverrun, CopyOverrun
    <3> QED BY <2>1, <2>2, <3>1
  <2> QED BY <1>10, <2>3, <2>4 DEF WriteOverrun
<1>11. CASE UNCHANGED vars BY <1>1, <1>11 DEF vars
<1> QED BY <1>2, <1>3, <1>4, <1>5, <1>6, <1>7, <1>8, <1>9, <1>10, <1>11, <1>12 DEF Next

-----------------------------------------------------------------------------
(* The theorems *)

\* Every call that stays in its buffers preserves the invariant.
LEMMA CallStep == FileInv({}) /\ [Next]_vars => OutOfBuffer \/ FileInv({})'
<1> SUFFICES ASSUME FileInv({}), [Next]_vars, ~ OutOfBuffer
             PROVE  FileInv({})'
  OBVIOUS
<1>1. TypeOK BY DEF FileInv
<1> DEFINE Idle == /\ free' \subseteq free /\ nrFree' \in Int
                   /\ UNCHANGED <<inode, index, data>>
                   /\ corrupt' \in BOOLEAN /\ ret'.errno \in Errnos
<1>2. Idle => FileInv({})' BY IdleStep
<1>3. ASSUME NEW f \in Inodes, Create(f) PROVE FileInv({})'
  BY <1>3, CreateStep
<1>4. ASSUME NEW f \in Inodes, CreateFails(f) PROVE FileInv({})'
  <2>1. Idle BY <1>1, <1>4 DEF CreateFails, TypeOK, Ret, Errnos
  <2> QED BY <1>2, <2>1
<1>5. ASSUME NEW f \in Inodes, OpenTrunc(f) PROVE FileInv({})'
  BY <1>5, OpenTruncStep
<1>6. ASSUME NEW f \in Inodes, FileInfo(f) PROVE FileInv({})'
  <2> DEFINE partly == {s \in 0 .. NrUsed(f) - 1 : Waste(f, s) # 0}
             report == <<NrUsed(f), Cardinality(partly),
                         MapThenSumSet(LAMBDA s : Waste(f, s), partly)>>
  <2>1. ret' = Ret("OK", report) /\ UNCHANGED <<disk, corrupt>>
    BY <1>6 DEF FileInfo
  <2> HIDE DEF report
  <2>2. Idle BY <1>1, <2>1 DEF disk, TypeOK, Ret, Errnos
  <2> QED BY <1>2, <2>2
<1>7. ASSUME NEW f \in Inodes, Unlink(f) PROVE FileInv({})'
  BY <1>7, UnlinkStep
<1>8. ASSUME NEW f \in Inodes, NEW off \in Offsets, NEW len \in ReadLens,
             Read(f, off, len)
      PROVE  FileInv({})'
  <2>1. Idle BY <1>1, <1>8 DEF Read, disk, TypeOK, Ret, Errnos
  <2> QED BY <1>2, <2>1
<1>9. ASSUME NEW f \in Inodes, NEW off \in Offsets, NEW d \in Payloads,
             WriteRejected(f, off, d)
      PROVE  FileInv({})'
  <2>1. ret'.errno \in Errnos
    BY <1>9 DEF WriteRejected, WriteErrno, Ret, Errnos
  <2>2. Idle BY <1>1, <1>9, <2>1 DEF WriteRejected, disk, TypeOK
  <2> QED BY <1>2, <2>2
<1>10. ASSUME NEW f \in Inodes, NEW off \in Offsets, NEW d \in Payloads,
              NEW w \in Plans(f, off, Len(d)), Write(f, off, d, w)
       PROVE  FileInv({})'
  BY <1>10, WriteStep
<1>12. CASE UNCHANGED vars
  <2>1. Idle BY <1>1, <1>12 DEF vars, TypeOK
  <2> QED BY <1>2, <2>1
<1> HIDE DEF Idle
<1> QED BY <1>3, <1>4, <1>5, <1>6, <1>7, <1>8, <1>9, <1>10, <1>12 DEF Next, OutOfBuffer

\* Only the calls that leave their buffers say so, and they are the last.
LEMMA OverrunsLast ==
  ASSUME TypeOK, Next
  PROVE  ~ corrupt /\ (corrupt' <=> OutOfBuffer)
<1> USE DEF Live
<1>1. PICK f \in Inodes :
        \/ Create(f) \/ CreateFails(f)
        \/ OpenTrunc(f) \/ OpenOverrun(f)
        \/ Unlink(f) \/ UnlinkOverrun(f)
        \/ FileInfo(f) \/ FileInfoOverrun(f)
        \/ \E off \in Offsets, len \in ReadLens : Read(f, off, len)
        \/ \E off \in Offsets, d \in Payloads :
             \/ WriteRejected(f, off, d)
             \/ \E w \in Plans(f, off, Len(d)) :
                  Write(f, off, d, w) \/ WriteOverrun(f, d, w)
  BY DEF Next
<1>2. CASE \/ OpenOverrun(f) \/ UnlinkOverrun(f) \/ FileInfoOverrun(f)
  BY <1>2 DEF OpenOverrun, UnlinkOverrun, FileInfoOverrun, OutOfBuffer
<1>3. ASSUME NEW off \in Offsets, NEW d \in Payloads,
             NEW w \in Plans(f, off, Len(d)), WriteOverrun(f, d, w)
      PROVE  ~ corrupt /\ corrupt' /\ OutOfBuffer
  BY <1>3, Planned DEF WriteOverrun, OutOfBuffer
<1>4. ASSUME ~ corrupt, corrupt' = corrupt PROVE ~ corrupt /\ (corrupt' <=> OutOfBuffer)
  BY <1>4 DEF OutOfBuffer, OpenOverrun, UnlinkOverrun, FileInfoOverrun,
              WriteOverrun
<1>5. CASE Create(f) \/ CreateFails(f) \/ OpenTrunc(f) \/ Unlink(f)
  BY <1>4, <1>5 DEF Create, CreateFails, OpenTrunc, Unlink
<1>6. CASE FileInfo(f) BY <1>4, <1>6 DEF FileInfo
<1>7. ASSUME NEW off \in Offsets, NEW len \in ReadLens, Read(f, off, len)
      PROVE  ~ corrupt /\ corrupt' = corrupt
  BY <1>7 DEF Read
<1>8. ASSUME NEW off \in Offsets, NEW d \in Payloads, WriteRejected(f, off, d)
      PROVE  ~ corrupt /\ corrupt' = corrupt
  BY <1>8 DEF WriteRejected
<1>9. ASSUME NEW off \in Offsets, NEW d \in Payloads,
             NEW w \in Plans(f, off, Len(d)), Write(f, off, d, w)
      PROVE  ~ corrupt /\ corrupt' = corrupt
  BY <1>9, Planned DEF Write
<1> QED BY <1>1, <1>2, <1>3, <1>4, <1>5, <1>6, <1>7, <1>8, <1>9

\* After a call has left its buffers its file may count blocks that it has
\* no words for.
Spared == IF corrupt THEN Inodes ELSE {}

LEMMA NextStep == FileInv(Spared) /\ [Next]_vars => FileInv(Spared)'
<1> SUFFICES ASSUME FileInv(Spared), [Next]_vars PROVE FileInv(Spared)'
  OBVIOUS
<1>1. TypeOK BY DEF FileInv
<1>2. CASE UNCHANGED vars
  <2>1. PICK X : X = Spared OBVIOUS
  <2>2. Spared' = X BY <1>2, <2>1 DEF vars, Spared
  <2>3. /\ free' \subseteq free /\ nrFree' \in Int
        /\ UNCHANGED <<inode, index, data>>
        /\ corrupt' \in BOOLEAN /\ ret'.errno \in Errnos
    BY <1>1, <1>2 DEF vars, TypeOK
  <2>4. FileInv(X) BY <2>1
  <2>5. FileInv(X)' BY <2>3, <2>4, IdleStep
  <2> QED BY <2>2, <2>5 DEF FileInv, Layout
<1>3. CASE Next
  <2>1. ~ corrupt /\ (corrupt' <=> OutOfBuffer)
    BY <1>1, <1>3, OverrunsLast
  <2>2. FileInv({}) BY <2>1 DEF Spared
  <2>3. CASE OutOfBuffer
    <3>1. TypeOK' /\ Separate' BY <2>2, <2>3, OverrunStep
    <3>2. Spared' = Inodes BY <2>1, <2>3 DEF Spared
    <3>3. Linked' \ Spared' = {} BY <3>2 DEF Linked
    <3> QED BY <3>1, <3>3 DEF FileInv, Layout
  <2>4. CASE ~ OutOfBuffer
    <3>1. FileInv({})' BY <1>3, <2>2, <2>4, CallStep
    <3>2. Spared' = {} BY <2>1, <2>4 DEF Spared
    <3> QED BY <3>1, <3>2 DEF FileInv, Layout
  <2> QED BY <2>3, <2>4
<1> QED BY <1>2, <1>3

\* At first all is well.
LEMMA FileStart == Init => FileInv(Spared)
<1> SUFFICES ASSUME Init PROVE FileInv(Spared) OBVIOUS
<1>1. Spared = {} BY DEF Init, Spared
<1> QED BY <1>1, FileInit

\* The invariant holds in every state that the operations reach.
LEMMA FileAlways == Spec => []FileInv(Spared)
BY FileStart, NextStep, PTL DEF Spec

\* create, open, read, write and unlink keep the bitmap inside the data blocks,
\* i_blocks inside the index block and every word inside its two fields.
THEOREM FileTyped == Spec => []TypeOK
<1>1. FileInv(Spared) => TypeOK BY DEF FileInv
<1> QED BY <1>1, FileAlways, PTL

\* Whatever those calls insert, shift, split, truncate and remove, no block is
\* named by two words or inodes, and none that is named is free.
THEOREM FileNoSharing == Spec => []NoSharing
<1>1. FileInv(Spared) => NoSharing BY Shared DEF FileInv
<1> QED BY <1>1, FileAlways, PTL

\* sbi->nr_free_blocks and the bitmap, which those calls update one after the
\* other, agree after every call.
THEOREM FileCounts == Spec => []FreeCountExact
<1>1. Init => FreeCountExact
  BY FS_Interval, DiskAssumption DEF Init, FreeCountExact, DataBlocks
<1>2. FileInv(Spared) /\ FreeCountExact /\ [Next]_vars => FreeCountExact'
  <2>1. PICK X : X = Spared OBVIOUS
  <2> QED BY <2>1, CountStep
<1> QED BY <1>1, <1>2, FileAlways, PTL DEF Spec

-----------------------------------------------------------------------------
(* One call, one file *)

\* The blocks that the words of a file name.
Named(f) == {NumberAt(f, s) : s \in {t \in Slots : index[f][t] # 0}}

\* No block of a file is one that a call on another file finds free, or a block
\* of that file.
LEMMA NamedApart ==
  ASSUME NEW X, FileInv(X), NEW f \in Linked, NEW g \in Linked \ {f}
  PROVE  /\ Named(g) \subseteq DataBlocks \ free
         /\ Named(g) \cap Named(f) = {}
<1>1. \A s \in Slots : index[g][s] # 0 => NumberAt(g, s) \in DataBlocks \ free
  BY DEF FileInv, Separate
<1>2. \A s, t \in Slots : index[g][s] # 0 /\ index[f][t] # 0
                            => NumberAt(g, s) # NumberAt(f, t)
  BY DEF FileInv, Separate
<1> QED BY <1>1, <1>2 DEF Named

\* What a file reads as depends on its inode, its words and the bytes of the
\* blocks that these name: the words below i_blocks are never zero.
LEMMA ContentKept ==
  ASSUME FileInv({}), NEW g \in Linked,
         inode'[g] = inode[g], index'[g] = index[g],
         \A b \in Named(g) : data'[b] = data[b]
  PROVE  Content(g)' = Content(g)
<1>1. NrUsed(g) \in -1 .. MaxBlocks /\ NrUsed(g)' = NrUsed(g)
  BY DiskAssumption DEF FileInv, TypeOK, Linked, NrUsed
<1>2. ASSUME NEW k \in 1 .. NrUsed(g)
      PROVE  /\ SizeAt(g, k - 1)' = SizeAt(g, k - 1)
             /\ NumberAt(g, k - 1)' = NumberAt(g, k - 1)
             /\ data'[NumberAt(g, k - 1)] = data[NumberAt(g, k - 1)]
  <2>1. k - 1 \in Slots /\ k - 1 < NrUsed(g)
    BY <1>1, <1>2, DiskAssumption DEF Slots
  <2>2. index[g][k - 1] # 0 BY <2>1 DEF FileInv, Layout
  <2>3. NumberAt(g, k - 1) \in Named(g) BY <2>1, <2>2 DEF Named
  <2> QED BY <2>3 DEF SizeAt, NumberAt
<1> DEFINE bytes(k) == [x \in 1 .. SizeAt(g, k - 1) |->
                          data[NumberAt(g, k - 1)][x - 1]]
           blocks == [k \in 1 .. NrUsed(g) |-> bytes(k)]
<1>3. \A k \in 1 .. NrUsed(g) : bytes(k)' = bytes(k) BY <1>2
<1>4. blocks' = [k \in 1 .. NrUsed(g) |-> bytes(k)'] BY <1>1
<1>5. blocks' = blocks BY <1>3, <1>4
<1>6. Content(g) = FlattenSeq(blocks) BY DEF Content
<1>7. Content(g)' = FlattenSeq(blocks') BY DEF Content
<1> HIDE DEF blocks
<1> QED BY <1>5, <1>6, <1>7

\* The shift, the split and the copies of a write touch new blocks and blocks
\* of the file only.
LEMMA WriteElsewhere ==
  ASSUME NEW X, FileInv(X), NEW f \in Inodes, f \notin X, NEW off \in Offsets, NEW d \in Payloads,
         NEW w \in Plans(f, off, Len(d)), NEW al \in FirstFree(w.n),
         First(f, w) + w.n =< MaxBlocks,
         NEW b \in DataBlocks \ free, b \notin Named(f)
  PROVE  CopyData(f, w, al, d, Copies(f, w))[b] = data[b]
<1> DEFINE a == Allocated(f, w, w.n, al)
           c == Copies(f, w)
           block(k) == get_block_number(a[w.bj + k])
           chunk(dst, k) == Copy(dst, At(w, k), d, Source(w, k) + 1,
                                 Amount(f, w, Len(d), k))
           old == SplitData(f, w, al, Len(d))
           head == IF c = 0 THEN old ELSE [old EXCEPT ![block(0)] = chunk(@, 0)]
           cut == get_block_number(a[IF NotNew(f) THEN w.bj ELSE 0])
           split == Copy(data[al[w.n - 1]], 0, data[cut], w.byj,
                         MaxBlockSize - w.byj)
           moved == IF NotNew(f) THEN [data EXCEPT ![al[w.n - 1]] = split]
                    ELSE data
<1>1. /\ w.bj \in Slots /\ w.n \in 1 .. MaxBlocks
      /\ NrUsed(f) \in -1 .. MaxBlocks
      /\ NrUsed(f) > 0 => w.bj < NrUsed(f)
      /\ NrUsed(f) =< 0 => w.bj = 0
      /\ f \in Linked
  BY Planned DEF FileInv, Live, Linked
<1>2. ~ NotNew(f) => w.bj = 0
  <2>1. inode[f].size \in Nat /\ inode[f].blocks \in Int
    BY DiskAssumption DEF FileInv, TypeOK
  <2>2. inode[f].size = 0 => inode[f].blocks =< 1
    BY <1>1 DEF FileInv, Layout
  <2> QED BY <1>1, <2>1, <2>2 DEF NotNew, NrUsed
<1>3. b \in Blocks /\ DOMAIN data = Blocks /\ b \notin free
  BY DataBlockNumber DEF FileInv, TypeOK
<1>4. \A k \in 0 .. w.n - 1 : al[k] \in free
  BY <1>1, FreshBlocks DEF FileInv
<1>5. ASSUME NEW s \in Slots, Fresh(f, w, s) \/ (NotNew(f) /\ s = w.bj)
      PROVE  get_block_number(a[s]) # b
  <2>1. w.bj \in Nat /\ w.n \in Nat /\ s \in Nat /\ First(f, w) \in Nat
    BY <1>1, DiskAssumption DEF Slots, First
  <2>2. CASE Fresh(f, w, s)
    <3>1. s - First(f, w) \in 0 .. w.n - 1 BY <2>1, <2>2 DEF Fresh
    <3>2. get_block_number(a[s]) \in free
      BY <1>4, <2>2, <3>1, AllocatedWord
    <3> QED BY <1>3, <3>2
  <2>3. CASE ~ Fresh(f, w, s)
    <3>1. NotNew(f) /\ s = w.bj BY <1>5, <2>3
    <3>2. From(f, w, s) = s BY <1>1, <2>1, <3>1 DEF From
    <3>3. index[f][s] # 0
      BY <1>1, <3>1 DEF FileInv, Layout, NotNew
    <3>4. get_block_number(a[s]) \in Named(f)
      BY <2>3, <3>2, <3>3, AllocatedWord DEF Named
    <3> QED BY <3>4
  <2> QED BY <2>2, <2>3
<1>6. ASSUME NEW k \in 0 .. c - 1 PROVE block(k) # b
  <2>1. /\ w.bj \in Nat /\ w.n \in Nat \ {0} /\ MaxBlocks \in Nat /\ k \in Nat
        /\ k < w.n
    BY <1>1, DiskAssumption DEF Slots, Copies
  <2>2. w.bj + k \in Slots BY <2>1 DEF Slots, First
  <2>3. Fresh(f, w, w.bj + k) \/ (NotNew(f) /\ w.bj + k = w.bj)
    BY <2>1 DEF Fresh, First
  <2> QED BY <1>5, <2>2, <2>3
<1>7. cut # b
  <2>1. CASE NotNew(f) BY <1>1, <1>5, <2>1
  <2>2. CASE ~ NotNew(f)
    <3>1. 0 \in Slots /\ Fresh(f, w, 0)
      BY <1>1, <1>2, <2>2 DEF Fresh, First
    <3> QED BY <1>5, <2>2, <3>1
  <2> QED BY <2>1, <2>2
<1>8. al[w.n - 1] # b
  <2>1. w.n - 1 \in 0 .. w.n - 1 BY <1>1
  <2> QED BY <1>3, <1>4, <2>1
<1> HIDE DEF cut, split
<1>9. moved[b] = data[b] /\ DOMAIN moved = Blocks BY <1>3, <1>8
<1>10. old = IF w.byj + Len(d) < MaxBlockSize
             THEN [moved EXCEPT ![cut] = Copy(@, w.byj + Len(d), Zeros, 0,
                                              MaxBlockSize - w.byj - Len(d))]
             ELSE moved
  BY DEF SplitData, moved, cut, split
<1> HIDE DEF moved, old
<1>11. old[b] = data[b] /\ DOMAIN old = Blocks
  BY <1>3, <1>7, <1>9, <1>10
<1> HIDE DEF chunk, block
<1>12. c \in Nat BY <1>1 DEF Copies
<1> HIDE DEF c
<1>13. head[b] = data[b] BY <1>3, <1>6, <1>11, <1>12
<1>14. CopyData(f, w, al, d, c) =
         [x \in Blocks |->
            IF \E k \in 1 .. c - 1 : block(k) = x
            THEN chunk(head[x], CHOOSE k \in 1 .. c - 1 : block(k) = x)
            ELSE head[x]]
  BY DEF CopyData, block, chunk, old, head
<1> HIDE DEF head
<1>15. \A k \in 1 .. c - 1 : block(k) # b BY <1>6, <1>12
<1> QED BY <1>3, <1>13, <1>14, <1>15 DEF c

\* Only what the file f reads as may have changed.
Apart(f) == \A g \in Linked \ {f} : Content(g)' = Content(g)

\* The inodes, the words and the blocks of the other files are as they were.
Untouched(f) ==
  \A g \in Linked \ {f} :
    /\ inode'[g] = inode[g] /\ index'[g] = index[g]
    /\ \A b \in Named(g) : data'[b] = data[b]

\* Then so is what they read as.
LEMMA ApartIf ==
  ASSUME FileInv({}), NEW f, Untouched(f)
  PROVE  Apart(f)
BY ContentKept DEF Apart, Untouched

\* create takes a free block.
LEMMA CreateTouches ==
  ASSUME NEW X, FileInv(X), NEW f \in Inodes, Create(f)
  PROVE  Untouched(f)
<1>0. TypeOK BY DEF FileInv
<1>1. PICK al \in FirstFree(1) :
        /\ inode' = [inode EXCEPT ![f] = [linked |-> TRUE, size |-> 0,
                                          blocks |-> 1, indexBlock |-> al[0]]]
        /\ index' = [index EXCEPT ![f] = [s \in Slots |-> 0]]
        /\ data' = [data EXCEPT ![al[0]] = Zeros]
  BY DEF Create
<1>2. al[0] \in free BY <1>0, FreshBlocks, DiskAssumption
<1>3. ASSUME NEW g \in Linked \ {f}, NEW b \in Named(g)
      PROVE  data'[b] = data[b]
  <2>1. b \in DataBlocks \ free BY DEF FileInv, Separate, Named
  <2>2. b \in Blocks BY <2>1, DataBlockNumber
  <2> QED BY <1>0, <1>1, <1>2, <2>1, <2>2 DEF TypeOK
<1>4. \A g \in Linked \ {f} : inode'[g] = inode[g] /\ index'[g] = index[g]
  BY <1>0, <1>1 DEF TypeOK, Linked
<1> QED BY <1>3, <1>4 DEF Untouched

\* unlink clears the blocks that the words of its file name.
LEMMA UnlinkTouches ==
  ASSUME NEW X, FileInv(X), NEW f \in Inodes, Unlink(f)
  PROVE  Untouched(f)
<1>0. TypeOK BY DEF FileInv
<1> DEFINE words == {s \in Slots : s < NrUsed(f) /\ index[f][s] # 0}
<1>1. /\ data' = [b \in Blocks |->
           IF \E s \in words : index[f][s] = b THEN Zeros ELSE data[b]]
      /\ index' = [index EXCEPT ![f] = [s \in Slots |-> 0]]
      /\ inode' = [inode EXCEPT ![f] = NoInode]
      /\ f \in Linked
  BY DEF Unlink, Live, Linked
<1>2. ASSUME NEW s \in words, index[f][s] \in Blocks
      PROVE  index[f][s] \in Named(f)
  <2>1. index[f][s] \in Word BY <1>0 DEF TypeOK
  <2>2. Accepted(index[f][s])
    BY <1>2, DiskAssumption DEF Accepted, Blocks
  <2> QED BY <2>1, <2>2, SmallWord DEF Named, NumberAt
<1>3. ASSUME NEW g \in Linked \ {f}, NEW b \in Named(g)
      PROVE  data'[b] = data[b]
  <2>1. b \in DataBlocks /\ b \notin Named(f) BY <1>1, NamedApart
  <2>2. b \in Blocks BY <2>1, DataBlockNumber
  <2>3. ~ \E s \in words : index[f][s] = b BY <1>2, <2>1, <2>2
  <2> HIDE DEF words
  <2> QED BY <1>1, <2>2, <2>3
<1>4. \A g \in Linked \ {f} : inode'[g] = inode[g] /\ index'[g] = index[g]
  BY <1>0, <1>1 DEF TypeOK, Linked
<1> QED BY <1>3, <1>4 DEF Untouched

\* write fills new blocks and those of its file.
LEMMA WriteTouches ==
  ASSUME NEW X, FileInv(X), NEW f \in Inodes, f \notin X, NEW off \in Offsets, NEW d \in Payloads,
         NEW w \in Plans(f, off, Len(d)), Write(f, off, d, w)
  PROVE  Untouched(f)
<1>0. TypeOK BY DEF FileInv
<1>1. PICK al \in FirstFree(w.n) :
        /\ index' = [index EXCEPT ![f] =
                       CopyIndex(f, w, al, Len(d), Copies(f, w))]
        /\ data' = CopyData(f, w, al, d, Copies(f, w))
  BY DEF Write
<1>2. /\ inode' = [inode EXCEPT ![f].blocks = @ + w.n,
                                ![f].size = @ + Len(d) + EmptySpace(f, off)]
      /\ ~ Overruns(f, w, Len(d))
      /\ f \in Linked
  BY <1>0, Planned DEF Write, Live, Linked
<1>3. First(f, w) + w.n =< MaxBlocks
  <2>1. w.bj \in Int /\ w.n \in Int /\ MaxBlocks \in Int
    BY <1>0, Planned, DiskAssumption DEF Slots
  <2>2. First(f, w) \in Int BY <2>1 DEF First
  <2> QED BY <1>2, <2>1, <2>2 DEF Overruns
<1>4. ASSUME NEW g \in Linked \ {f}, NEW b \in Named(g)
      PROVE  data'[b] = data[b]
  <2>1. b \in DataBlocks \ free /\ b \notin Named(f)
    BY <1>2, NamedApart
  <2> QED BY <1>1, <1>3, <2>1, WriteElsewhere
<1>5. \A g \in Linked \ {f} : inode'[g] = inode[g] /\ index'[g] = index[g]
  BY <1>0, <1>1, <1>2 DEF TypeOK, Linked
<1> QED BY <1>4, <1>5 DEF Untouched

\* So create, unlink and write change what one file reads as.
LEMMA CreateApart ==
  ASSUME FileInv({}), NEW f \in Inodes, Create(f)
  PROVE  Apart(f)
BY CreateTouches, ApartIf

LEMMA UnlinkApart ==
  ASSUME FileInv({}), NEW f \in Inodes, Unlink(f)
  PROVE  Apart(f)
BY UnlinkTouches, ApartIf

LEMMA WriteApart ==
  ASSUME FileInv({}), NEW f \in Inodes, NEW off \in Offsets, NEW d \in Payloads,
         NEW w \in Plans(f, off, Len(d)), Write(f, off, d, w)
  PROVE  Apart(f)
<1>1. PICK X : X = {} OBVIOUS
<1>2. FileInv(X) /\ f \notin X BY <1>1
<1> QED BY <1>2, WriteTouches, ApartIf

\* No call that stays in its buffers changes a block of another file.
LEMMA OthersKept ==
  ASSUME FileInv(Spared), [Next]_vars
  PROVE  \/ UNCHANGED vars \/ corrupt'
         \/ \E f \in Inodes : \A g \in Linked \ {f} : Content(g)' = Content(g)
<1>1. TypeOK BY DEF FileInv
<1>2. Next => FileInv({})
  <2>1. Next => ~ corrupt BY <1>1, OverrunsLast
  <2> QED BY <2>1 DEF Spared
<1>3. ASSUME FileInv({}), NEW f \in Inodes, Create(f) PROVE Apart(f)
  BY <1>3, CreateApart
<1>4. ASSUME FileInv({}), NEW f \in Inodes, OpenTrunc(f) PROVE Apart(f)
  <2>1. \A g \in Linked \ {f} : inode'[g] = inode[g] /\ index'[g] = index[g]
    BY <1>1, <1>4 DEF OpenTrunc, TypeOK, Linked
  <2>2. data' = data BY <1>4 DEF OpenTrunc
  <2> QED BY ApartIf, <1>4, <2>1, <2>2 DEF Untouched
<1>5. ASSUME FileInv({}), NEW f \in Inodes, Unlink(f) PROVE Apart(f)
  BY <1>5, UnlinkApart
<1>6. ASSUME FileInv({}), NEW f \in Inodes, NEW off \in Offsets, NEW d \in Payloads,
             NEW w \in Plans(f, off, Len(d)), Write(f, off, d, w)
      PROVE  Apart(f)
  BY <1>6, WriteApart
<1>7. ASSUME FileInv({}), NEW f \in Inodes, UNCHANGED <<inode, index, data>>
      PROVE  Apart(f)
  BY ApartIf, <1>7 DEF Untouched
<1>8. ASSUME FileInv({}), NEW f \in Inodes,
             \/ CreateFails(f) \/ UnlinkOverrun(f)
             \/ FileInfo(f) \/ FileInfoOverrun(f)
      PROVE  Apart(f)
  <2>1. UNCHANGED <<inode, index, data>>
    BY <1>8 DEF CreateFails, UnlinkOverrun, FileInfo, FileInfoOverrun, disk
  <2> QED BY <1>7, <1>8, <2>1
<1>9. ASSUME FileInv({}), NEW f \in Inodes, NEW off \in Offsets,
             NEW len \in ReadLens, Read(f, off, len)
      PROVE  Apart(f)
  <2>1. UNCHANGED <<inode, index, data>> BY <1>9 DEF Read, disk
  <2> QED BY <1>7, <1>9, <2>1
<1>10. ASSUME FileInv({}), NEW f \in Inodes, NEW off \in Offsets,
              NEW d \in Payloads, WriteRejected(f, off, d)
       PROVE  Apart(f)
  <2>1. UNCHANGED <<inode, index, data>>
    BY <1>10 DEF WriteRejected, disk
  <2> QED BY <1>7, <1>10, <2>1
<1>11. ASSUME Next PROVE corrupt' \/ \E f \in Inodes : Apart(f)
  <2>1. PICK f \in Inodes :
          \/ Create(f) \/ CreateFails(f)
          \/ OpenTrunc(f) \/ OpenOverrun(f)
          \/ Unlink(f) \/ UnlinkOverrun(f)
          \/ FileInfo(f) \/ FileInfoOverrun(f)
          \/ \E off \in Offsets, len \in ReadLens : Read(f, off, len)
          \/ \E off \in Offsets, d \in Payloads :
               \/ WriteRejected(f, off, d)
               \/ \E w \in Plans(f, off, Len(d)) :
                    Write(f, off, d, w) \/ WriteOverrun(f, d, w)
    BY <1>11 DEF Next
  <2>2. FileInv({}) BY <1>2, <1>11
  <2>3. CASE Create(f) \/ OpenTrunc(f) \/ Unlink(f)
    BY <1>3, <1>4, <1>5, <2>2, <2>3
  <2>4. CASE \/ CreateFails(f) \/ UnlinkOverrun(f)
             \/ FileInfo(f) \/ FileInfoOverrun(f)
    BY <1>8, <2>2, <2>4
  <2>5. CASE OpenOverrun(f) BY <2>5 DEF OpenOverrun
  <2>6. CASE \E off \in Offsets, len \in ReadLens : Read(f, off, len)
    BY <1>9, <2>2, <2>6
  <2>7. ASSUME NEW off \in Offsets, NEW d \in Payloads, WriteRejected(f, off, d)
        PROVE  Apart(f)
    BY <1>10, <2>2, <2>7
  <2>8. ASSUME NEW off \in Offsets, NEW d \in Payloads,
               NEW w \in Plans(f, off, Len(d)), Write(f, off, d, w)
        PROVE  Apart(f)
    BY <1>6, <2>2, <2>8
  <2>9. ASSUME NEW d \in Payloads, NEW w, WriteOverrun(f, d, w)
        PROVE  corrupt'
    BY <2>9 DEF WriteOverrun
  <2> QED BY <2>1, <2>3, <2>4, <2>5, <2>6, <2>7, <2>8, <2>9
<1>12. Next \/ UNCHANGED vars OBVIOUS
<1>13. ASSUME NEW f \in Inodes, Apart(f)
       PROVE  \E h \in Inodes : \A g \in Linked \ {h} : Content(g)' = Content(g)
  BY <1>13 DEF Apart
<1> QED BY <1>11, <1>12, <1>13

\* One call changes what one file reads as, at most: the blocks that create
\* clears, unlink scrubs and write shifts, splits and fills are never those of
\* another file.  A call that leaves its buffers is not spoken of.
THEOREM FileOneChanges == Spec => OneFileChanges
<1>1. FileInv(Spared) /\ [Next]_vars =>
        [~ corrupt' => \E f \in Inodes : \A g \in Linked \ {f} :
                         Content(g)' = Content(g)]_vars
  BY OthersKept
<1> QED BY <1>1, FileAlways, PTL DEF Spec, OneFileChanges

-----------------------------------------------------------------------------
(* Supported writes                                                         *)

\* A file has its index block, and one with bytes has a data block too.
Positive == \A f \in Linked : inode[f].blocks >= 1
SizedType == [linked : BOOLEAN, size : Nat, blocks : 0 .. MaxBlocks + 1, indexBlock : Blocks]
Sized ==
  /\ inode \in [Inodes -> SizedType]
  /\ Positive
  /\ \A f \in Linked : inode[f].size > 0 => inode[f].blocks >= 2

\* What a write gives to an inode.
LEMMA SizedGrows ==
  ASSUME Sized, NEW f \in Linked, NEW size \in Nat, NEW blocks \in 2 .. MaxBlocks + 1,
         inode' = [inode EXCEPT ![f].size = size, ![f].blocks = blocks]
  PROVE  Sized'
<1> DEFINE T == SizedType
           new == [inode[f] EXCEPT !.size = size, !.blocks = blocks]
<1>1. f \in Inodes /\ inode[f] \in T /\ inode \in [Inodes -> T]
  BY DEF Sized, Linked
<1>2. new \in T /\ new.blocks = blocks
  <2>1. blocks \in 0 .. MaxBlocks + 1 OBVIOUS
  <2> QED BY <1>1, <2>1 DEF SizedType
<1>3. inode' = [inode EXCEPT ![f] = new] BY <1>1 DEF SizedType
<1> HIDE DEF new
<1>4. inode' \in [Inodes -> T] /\ inode'[f].blocks = blocks /\ \A g \in Inodes \ {f} : inode'[g] = inode[g]
  BY <1>1, <1>2, <1>3
<1>5. \A g \in Linked' : g = f \/ (g \in Linked /\ inode'[g] = inode[g])
  BY <1>4 DEF Linked
<1>6. blocks >= 2 /\ blocks >= 1 OBVIOUS
<1>7. \A g \in Linked' : inode'[g].blocks >= 1 /\ (inode'[g].size > 0 => inode'[g].blocks >= 2)
  BY <1>4, <1>5, <1>6 DEF Sized, Positive
<1> QED BY <1>4, <1>7 DEF Sized, Positive

\* The plan of a write, and the size that it leaves.
LEMMA SizedWrite ==
  ASSUME Sized, NEW f \in Inodes, NEW off \in Offsets, NEW d \in Payloads,
         NEW w \in Plans(f, off, Len(d))
  PROVE  /\ f \in Linked
         /\ inode[f].blocks + w.n \in 2 .. MaxBlocks + 1
         /\ inode[f].size \in Nat
         /\ inode[f].size + Len(d) + EmptySpace(f, off) \in Nat
<1>1. inode[f].blocks \in 0 .. MaxBlocks + 1 /\ inode[f].size \in Nat
  BY DEF Sized, SizedType
<1>2. /\ f \in Linked /\ w.n \in 1 .. MaxBlocks /\ NrUsed(f) + w.n =< MaxBlocks
      /\ Len(d) \in Nat
  BY <1>1, PlanOf DEF Live, Linked
<1>3. inode[f].blocks >= 1 BY <1>2 DEF Sized, Positive
<1>4. EmptySpace(f, off) \in Nat
  BY <1>1, InputAssumption DEF EmptySpace
<1>5. inode[f].blocks + w.n \in 2 .. MaxBlocks + 1
  <2> DEFINE b == inode[f].blocks
  <2>1. b \in Int /\ b >= 1 /\ b - 1 + w.n =< MaxBlocks /\ w.n \in Int /\ w.n >= 1 /\ MaxBlocks \in Int
    BY <1>1, <1>2, <1>3, DiskAssumption DEF NrUsed
  <2> HIDE DEF b
  <2>2. b + w.n \in 2 .. MaxBlocks + 1 BY <2>1
  <2> QED BY <2>2 DEF b
<1> QED BY <1>1, <1>2, <1>4, <1>5, SMTT(60)

\* No file has a size at first.
LEMMA SizedInit == Init => Sized
BY DiskAssumption DEF Init, Sized, SizedType, Positive, Linked, NoInode, Blocks

\* A file without bytes has no words but index_block, whatever supported call comes.
LEMMA SizedNext == Sized /\ [SupportedNext]_vars => Sized'
<1> SUFFICES ASSUME Sized, [SupportedNext]_vars PROVE Sized'
  OBVIOUS
<1> DEFINE T == SizedType
<1>1. inode \in [Inodes -> T] BY DEF Sized
<1>2. inode' = inode => Sized' BY DEF Sized, Positive, Linked
<1>3. ASSUME NEW f \in Inodes, NEW r \in T, inode' = [inode EXCEPT ![f] = r],
             r.linked => r.blocks >= 1 /\ r.size = 0
      PROVE  Sized'
  <2>1. inode' \in [Inodes -> T] /\ inode'[f] = r /\ \A g \in Inodes \ {f} : inode'[g] = inode[g]
    BY <1>1, <1>3
  <2>2. \A g \in Linked' : g = f \/ (g \in Linked /\ inode'[g] = inode[g])
    BY <2>1 DEF Linked
  <2> QED BY <1>3, <2>1, <2>2 DEF Sized, Positive, Linked
<1>4. ASSUME NEW f \in Inodes, Create(f) PROVE Sized'
  <2>1. PICK al \in FirstFree(1) :
          inode' = [inode EXCEPT ![f] = [linked |-> TRUE, size |-> 0,
                                         blocks |-> 1, indexBlock |-> al[0]]]
    BY <1>4 DEF Create
  <2>2. al[0] \in Blocks BY DEF FirstFree
  <2> DEFINE r == [linked |-> TRUE, size |-> 0, blocks |-> 1, indexBlock |-> al[0]]
  <2>3. r \in T /\ r.blocks >= 1 /\ r.size = 0
    BY <2>2, DiskAssumption DEF SizedType
  <2>4. inode' = [inode EXCEPT ![f] = r] BY <2>1
  <2> HIDE DEF r
  <2> QED BY <1>3, <2>3, <2>4
<1>5. ASSUME NEW f \in Inodes, Unlink(f) PROVE Sized'
  <2>1. inode' = [inode EXCEPT ![f] = NoInode] BY <1>5 DEF Unlink
  <2>2. NoInode \in T /\ ~ NoInode.linked
    BY DiskAssumption DEF NoInode, Blocks, SizedType
  <2> QED BY <1>3, <2>1, <2>2
<1>6. ASSUME NEW f \in Inodes, CreateFails(f) \/ \E off \in Offsets, len \in ReadLens : Read(f, off, len)
      PROVE  Sized'
  BY <1>2, <1>6 DEF CreateFails, Read, disk
<1>7. ASSUME NEW f \in Inodes, NEW off \in Offsets, NEW d \in Payloads, WriteRejected(f, off, d)
      PROVE  Sized'
  BY <1>2, <1>7 DEF WriteRejected, disk
<1>8. ASSUME NEW f \in Inodes, NEW off \in Offsets, NEW d \in Payloads, NEW w \in Plans(f, off, Len(d)),
             \/ Write(f, off, d, w) \/ WriteAllocFails(f, w)
             \/ WriteSplitFails(f, w) \/ WriteCopyFails(f, d, w, 0)
      PROVE  Sized'
  <2>1. /\ f \in Linked /\ inode[f].blocks + w.n \in 2 .. MaxBlocks + 1 /\ inode[f].size \in Nat
        /\ inode[f].size + Len(d) + EmptySpace(f, off) \in Nat
    BY SizedWrite
  <2>2. \/ inode' = inode
        \/ inode' = [inode EXCEPT ![f].blocks = @ + w.n]
        \/ inode' = [inode EXCEPT ![f].blocks = @ + w.n, ![f].size = @ + Len(d) + EmptySpace(f, off)]
    BY <1>8 DEF Write, WriteAllocFails, WriteSplitFails, WriteCopyFails
  <2> DEFINE grown == inode[f].size + Len(d) + EmptySpace(f, off)
             b == inode[f].blocks + w.n
  <2>3. [inode EXCEPT ![f].blocks = @ + w.n] = [inode EXCEPT ![f].size = inode[f].size, ![f].blocks = b]
    BY <1>1 DEF SizedType
  <2>4. [inode EXCEPT ![f].blocks = @ + w.n, ![f].size = @ + Len(d) + EmptySpace(f, off)] =
          [inode EXCEPT ![f].size = grown, ![f].blocks = b]
    BY <1>1 DEF SizedType
  <2>5. grown \in Nat /\ b \in 2 .. MaxBlocks + 1 BY <2>1
  <2> HIDE DEF grown, b
  <2>6. inode' = inode \/ \E z \in Nat : inode' = [inode EXCEPT ![f].size = z, ![f].blocks = b]
    BY <2>1, <2>2, <2>3, <2>4, <2>5
  <2>7. ASSUME NEW z \in Nat, inode' = [inode EXCEPT ![f].size = z, ![f].blocks = b] PROVE Sized'
    BY <2>1, <2>5, <2>7, SizedGrows
  <2> QED BY <1>2, <2>6, <2>7
<1>9. CASE UNCHANGED vars BY <1>2, <1>9 DEF vars
<1> QED BY <1>4, <1>5, <1>6, <1>7, <1>8, <1>9 DEF SupportedNext

\* The blocks of a write are as many as its bytes need, so that its last copy ends
\* in the last of them.
LEMMA NeededEnough ==
  ASSUME NEW byj \in Nat, NEW len \in Nat, NEW n \in Nat \ {0}, n = Needed(byj, len)
  PROVE  byj + len - (n - 1) * MaxBlockSize =< MaxBlockSize
<1> DEFINE m == MaxBlockSize
           b == byj + len + m - 1
<1>1. m \in Nat \ {0} /\ b \in Int
  BY WidthAssumption DEF MaxBlockSize
<1>2. n = b \div m BY DEF Needed
<1> HIDE DEF m, b
<1>3. b = m * n + (b % m) /\ b % m \in 0 .. m - 1
  BY <1>1, <1>2, DivMod
<1>4. (n - 1) * m = m * n - m /\ m * n \in Int BY <1>1
<1>5. b = byj + len + m - 1 BY DEF b, m
<1>6. byj + len - (n - 1) * m =< m BY <1>1, <1>3, <1>4, <1>5
<1> QED BY <1>6 DEF m

\* Sizes that fit their blocks are all that a supported write needs to stay in them.
LEMMA SupportedFits == Sized => SupportedInBounds
<1> SUFFICES ASSUME Sized, NEW f \in Inodes, NEW off \in Offsets, NEW d \in Payloads,
                    NEW w \in Plans(f, off, Len(d)), Supported(f, off, Len(d), w)
             PROVE  ~ Overruns(f, w, Len(d))
  BY DEF SupportedInBounds
<1>1. inode[f].blocks \in 0 .. MaxBlocks + 1 /\ inode[f].size \in Nat
  BY DEF Sized, SizedType
<1>2. /\ f \in Linked /\ w.n \in 1 .. MaxBlocks /\ NrUsed(f) + w.n =< MaxBlocks
      /\ w.bj \in Slots /\ w.byj \in Nat /\ NrUsed(f) \in -1 .. MaxBlocks
      /\ NrUsed(f) > 0 => w.bj < NrUsed(f)
      /\ NrUsed(f) =< 0 => w.bj = 0
      /\ Len(d) \in Nat
  BY <1>1, PlanOf DEF Live, Linked
<1>3. inode[f].blocks >= 1 /\ (inode[f].size > 0 => inode[f].blocks >= 2)
  BY <1>2 DEF Sized, Positive
<1>4. w.n = Needed(w.byj, Len(d)) /\ (NrUsed(f) = 1 => w.n = 1) /\ w.byj =< MaxBlockSize
  BY DEF Supported
<1>5. MaxBlockSize \in Nat /\ MaxBlockSize < BlockSize /\ MaxBlocks \in Nat
  BY WidthAssumption, DiskAssumption DEF MaxBlockSize
<1>6. First(f, w) + w.n =< MaxBlocks
  <2> DEFINE u == NrUsed(f)
  <2>1. u >= 0 /\ (NotNew(f) => u > 0) /\ w.bj \in Nat
    BY <1>1, <1>2, <1>3 DEF NotNew, NrUsed, Slots
  <2>2. First(f, w) = IF NotNew(f) THEN w.bj + 1 ELSE w.bj
    BY DEF First
  <2>3. u \in Int /\ (u > 0 => w.bj < u) /\ (u =< 0 => w.bj = 0) /\ u + w.n =< MaxBlocks
    BY <1>2
  <2> HIDE DEF u
  <2> QED BY <1>2, <1>5, <2>1, <2>2, <2>3, SMTT(60)
<1>7. Copies(f, w) = w.n BY <1>4 DEF Copies
<1> DEFINE k == w.n - 1
<1>8. w.byj + Len(d) - k * MaxBlockSize =< MaxBlockSize
  BY <1>2, <1>4, NeededEnough
<1>9. At(w, k) + Amount(f, w, Len(d), k) = w.byj + Len(d) - k * MaxBlockSize
  <2>1. Amount(f, w, Len(d), k) = Len(d) - Source(w, k)
    BY <1>7 DEF Amount
  <2>2. CASE k = 0 BY <1>2, <1>5, <2>1, <2>2 DEF At, Source
  <2>3. CASE k # 0
    <3> DEFINE p == k * MaxBlockSize
    <3>1. p \in Int BY <1>2, <1>5
    <3>2. Source(w, k) = p - w.byj /\ At(w, k) = 0
      BY <2>3 DEF Source, At
    <3> HIDE DEF p
    <3>3. At(w, k) + Amount(f, w, Len(d), k) = w.byj + Len(d) - p
      BY <1>2, <2>1, <3>1, <3>2
    <3> QED BY <3>3 DEF p
  <2> QED BY <2>2, <2>3
<1>10. At(w, k) + Amount(f, w, Len(d), k) =< BlockSize
  <2> DEFINE e == w.byj + Len(d) - k * MaxBlockSize
  <2>1. e \in Int BY <1>2, <1>5, SMTT(60)
  <2>2. e =< MaxBlockSize /\ At(w, k) + Amount(f, w, Len(d), k) = e
    BY <1>8, <1>9
  <2> HIDE DEF e
  <2> QED BY <1>5, <2>1, <2>2, WidthAssumption
<1>11. ~ (w.byj > MaxBlockSize) /\ ~ (First(f, w) + w.n > MaxBlocks)
  <2>1. First(f, w) \in Int BY <1>2 DEF First, Slots
  <2> QED BY <1>2, <1>4, <1>5, <1>6, <2>1
<1>12. ~ (At(w, k) + Amount(f, w, Len(d), k) > BlockSize)
  <2>1. At(w, k) + Amount(f, w, Len(d), k) \in Int
    BY <1>2, <1>5, <1>9
  <2> QED BY <1>10, <2>1, WidthAssumption
<1> QED BY <1>7, <1>11, <1>12 DEF Overruns

\* A write of the kinds that the insertion is right for never copies before the
\* beginning or past the end of a block and never goes on after the last word of the
\* index block, whatever writes, failures and removals came before it.
THEOREM FileSupportedFits == SupportedSpec => []SupportedInBounds
BY SizedInit, SizedNext, SupportedFits, PTL DEF SupportedSpec

-----------------------------------------------------------------------------
(* The packing of defrag, beside calls on other files                       *)

\* The file whose words the packing takes apart, against Layout.
Busy == IF pc = "idle" THEN {} ELSE {df}

PackTyped ==
  /\ pc \in {"idle", "pack", "merge", "shift", "crashed"}
  /\ Active => /\ df \in Linked /\ inode[df].blocks = nr + 1 /\ nr \in 0 .. MaxBlocks
               /\ i \in Nat /\ j \in Nat /\ left \in Nat /\ removed \in Nat

\* The blocks before that of the outer loop are full.
FullBelow == \A s \in Kept : s < i => SizeAt(df, s) = MaxBlockSize
\* What PackFills says of the end.
Fills == \A s \in Kept, t \in Kept : s < t /\ SizeAt(df, t) > 0 => SizeAt(df, s) = MaxBlockSize

\* What the outer loop knows: the blocks from its own on are there.  It ends
\* when the inner loop has emptied all that follow, which leaves one that may not
\* be full.
PackLoop ==
  /\ \A s \in Slots : i =< s /\ s < nr => index[df][s] # 0
  /\ IF i < nr THEN FullBelow ELSE Fills

\* What the inner loop knows: all between its block and that of the outer loop
\* are gone, and all from its block on are there.
MergeLoop ==
  /\ i < nr /\ i < j
  /\ index[df][i] # 0
  /\ \A s \in Slots : j =< s /\ s < nr => index[df][s] # 0
  /\ \A s \in Slots : i < s /\ s < j => index[df][s] = 0
  /\ left = MaxBlockSize - SizeAt(df, i)
  /\ FullBelow

PackInv ==
  /\ FileInv(Busy) /\ FreeCountExact /\ Positive /\ PackTyped
  /\ pc = "pack" => PackLoop
  /\ pc = "merge" => MergeLoop
  /\ Active => Cardinality(Kept) + removed = nr
  /\ pc = "shift" => Fills /\ NrUsed(df) = Cardinality(Kept)

\* The lesser of two numbers.
LEMMA MinOfTwo ==
  ASSUME NEW a \in Nat, NEW b \in Nat
  PROVE  Min({a, b}) \in {a, b} /\ Min({a, b}) =< a /\ Min({a, b}) =< b
BY MinNat

\* A slot of the first nr, and its word while it names a block.
LEMMA WordOf ==
  ASSUME PackInv, Active, NEW s \in Slots
  PROVE  /\ index[df][s] \in Word
         /\ SizeAt(df, s) \in 0 .. MaxBlockSize
         /\ index[df][s] # 0 => NumberAt(df, s) \in DataBlocks \ free
<1>1. df \in Linked /\ df \in Inodes
  BY DEF PackInv, PackTyped, Linked
<1>2. index[df][s] \in Word BY <1>1 DEF PackInv, FileInv, TypeOK
<1>3. SizeAt(df, s) \in 0 .. MaxBlockSize
  BY <1>2, FieldRange, WidthAssumption DEF SizeAt, MaxBlockSize
<1> QED BY <1>1, <1>2, <1>3 DEF PackInv, FileInv, Separate

\* The slots that are kept are finitely many.
LEMMA KeptFinite == IsFiniteSet(Kept) /\ Cardinality(Kept) \in Nat
<1>1. IsFiniteSet(Slots) BY FS_Interval, DiskAssumption DEF Slots
<1> QED BY <1>1, FS_Subset, FS_CardinalityType DEF Kept

\* Words that keep their numbers, but for one that is given up, and may name a
\* free block instead, leave every block with one name.
LEMMA Reworded ==
  ASSUME NEW X, FileInv(X), NEW f \in Linked, f \in X, NEW new \in [Slots -> Word],
         NEW p \in Slots, index[f][p] # 0, NEW b,
         inode' = inode, index' = [index EXCEPT ![f] = new],
         \A s \in Slots \ {p} : new[s] # 0 => index[f][s] # 0 /\ get_block_number(new[s]) = NumberAt(f, s),
         new[p] # 0 => get_block_number(new[p]) = b /\ b \in free /\ b \notin free',
         free' \subseteq free \cup {NumberAt(f, p)}
  PROVE  Separate' /\ Layout(X)'
<1>1. /\ Linked' = Linked /\ f \in Inodes /\ index \in [Inodes -> [Slots -> Word]]
      /\ free \subseteq DataBlocks
  BY DEF Linked, FileInv, TypeOK
<1>2. index'[f] = new /\ \A g \in Linked \ {f} : index'[g] = index[g]
  BY <1>1 DEF Linked
<1>3. \A g \in Linked \ {f}, s \in Slots : NumberAt(g, s)' = NumberAt(g, s)
  BY <1>2 DEF NumberAt
<1>4. \A s \in Slots \ {p} : index'[f][s] # 0 => index[f][s] # 0 /\ NumberAt(f, s)' = NumberAt(f, s)
  BY <1>2 DEF NumberAt
<1>5. index'[f][p] # 0 => NumberAt(f, p)' = b /\ b \in free /\ b \notin free'
  BY <1>2 DEF NumberAt
<1> DEFINE Old(g, s) == index[g][s] # 0 /\ ~ (g = f /\ s = p) /\ NumberAt(g, s)' = NumberAt(g, s)
           New(g, s) == g = f /\ s = p /\ NumberAt(g, s)' = b /\ b \in free /\ b \notin free'
<1>6. \A g \in Linked, s \in Slots : index'[g][s] # 0 => Old(g, s) \/ New(g, s)
  BY <1>2, <1>3, <1>4, <1>5
<1>7. \A g \in Linked, s \in Slots : Old(g, s) => NumberAt(g, s) \in DataBlocks \ free /\ NumberAt(g, s) # NumberAt(f, p)
  BY DEF FileInv, Separate
<1>8. \A g \in Linked : inode[g].indexBlock \in DataBlocks \ free /\ inode[g].indexBlock # NumberAt(f, p)
  BY DEF FileInv, Separate
<1>9. \A g \in Linked : inode'[g].indexBlock = inode[g].indexBlock
  OBVIOUS
<1>10. \A g \in Linked, s \in Slots : index'[g][s] # 0 => NumberAt(g, s)' \in DataBlocks \ free'
  BY <1>1, <1>6, <1>7
<1>11. \A g, h \in Linked, s \in Slots : index'[h][s] # 0 => inode[g].indexBlock # NumberAt(h, s)'
  <2> SUFFICES ASSUME NEW g \in Linked, NEW h \in Linked, NEW s \in Slots, index'[h][s] # 0
               PROVE  inode[g].indexBlock # NumberAt(h, s)'
    OBVIOUS
  <2>1. CASE Old(h, s) BY <2>1 DEF FileInv, Separate
  <2>2. CASE New(h, s) BY <1>8, <2>2
  <2> QED BY <1>6, <2>1, <2>2
<1>12. \A g, h \in Linked, s, t \in Slots :
         index'[g][s] # 0 /\ index'[h][t] # 0 /\ NumberAt(g, s)' = NumberAt(h, t)' => g = h /\ s = t
  <2> SUFFICES ASSUME NEW g \in Linked, NEW h \in Linked, NEW s \in Slots, NEW t \in Slots,
                      index'[g][s] # 0, index'[h][t] # 0, NumberAt(g, s)' = NumberAt(h, t)'
               PROVE  g = h /\ s = t
    OBVIOUS
  <2>1. CASE Old(g, s) /\ Old(h, t)
    <3>1. index[g][s] # 0 /\ index[h][t] # 0 /\ NumberAt(g, s) = NumberAt(h, t)
      BY <2>1
    <3>2. Separate BY DEF FileInv
    <3> QED BY <3>1, <3>2 DEF Separate
  <2>2. CASE New(g, s) /\ New(h, t) BY <2>2
  <2>3. CASE (New(g, s) /\ Old(h, t)) \/ (Old(g, s) /\ New(h, t))
    <3>1. (New(g, s) => NumberAt(g, s)' \in free) /\ (Old(g, s) => NumberAt(g, s)' \notin free)
      BY <1>7
    <3>2. (New(h, t) => NumberAt(h, t)' \in free) /\ (Old(h, t) => NumberAt(h, t)' \notin free)
      BY <1>7
    <3> HIDE DEF Old, New
    <3> QED BY <2>3, <3>1, <3>2
  <2> QED BY <1>6, <2>1, <2>2, <2>3
<1>13. \A g \in Linked : inode[g].indexBlock \in DataBlocks \ free'
  BY <1>8
<1>14. Separate'
  <2>1. \A g, h \in Linked : inode[g].indexBlock = inode[h].indexBlock => g = h
    BY DEF FileInv, Separate
  <2> HIDE DEF Old, New
  <2> QED BY <1>1, <1>9, <1>10, <1>11, <1>12, <1>13, <2>1 DEF Separate
<1>15. Layout(X)'
  <2>1. \A g \in Linked \ X : index'[g] = index[g] /\ NrUsed(g)' = NrUsed(g)
    BY <1>2 DEF NrUsed
  <2> QED BY <1>1, <2>1 DEF FileInv, Layout
<1> QED BY <1>14, <1>15

\* What the loops of the packing work on.
LEMMA PackFacts ==
  ASSUME PackInv, Active
  PROVE  /\ df \in Linked /\ df \in Inodes /\ Busy = {df}
         /\ nr \in 0 .. MaxBlocks /\ NrUsed(df) = nr
         /\ i \in Nat /\ j \in Nat /\ left \in Nat /\ removed \in Nat
         /\ MaxBlocks \in Nat \ {0} /\ MaxBlockSize \in Nat \ {0}
         /\ \A k \in Nat : k < nr => k \in Slots
         /\ TypeOK /\ index[df] \in [Slots -> Word]
<1>1. df \in Linked /\ inode[df].blocks = nr + 1 /\ nr \in 0 .. MaxBlocks
      /\ i \in Nat /\ j \in Nat /\ left \in Nat /\ removed \in Nat
  BY DEF PackInv, PackTyped
<1>2. MaxBlocks \in Nat \ {0} /\ MaxBlockSize \in Nat \ {0}
  BY DiskAssumption, WidthAssumption DEF MaxBlockSize
<1>3. NrUsed(df) = nr BY <1>1, <1>2 DEF NrUsed
<1>4. \A k \in Nat : k < nr => k \in Slots BY <1>1, <1>2 DEF Slots
<1>5. df \in Inodes /\ TypeOK /\ index[df] \in [Slots -> Word]
  BY <1>1 DEF Linked, PackInv, FileInv, TypeOK
<1>6. Busy = {df} BY DEF Active, Busy
<1> QED BY <1>1, <1>2, <1>3, <1>4, <1>5, <1>6

\* A step of defrag that leaves disk and memory alone.
LEMMA QuietStep ==
  ASSUME PackInv, UNCHANGED disk, ret' = ret, corrupt' \in BOOLEAN, Busy \subseteq Busy'
  PROVE  FileInv(Busy)' /\ FreeCountExact' /\ Positive'
<1>1. Linked' = Linked BY DEF disk, Linked
<1>2. TypeOK' /\ Separate'
  BY <1>1 DEF disk, PackInv, FileInv, TypeOK, Separate, NumberAt
<1>3. Layout(Busy)'
  <2>1. Linked' \ Busy' \subseteq Linked \ Busy BY <1>1
  <2> QED BY <1>1, <2>1 DEF disk, PackInv, FileInv, Layout, NrUsed
<1>4. FreeCountExact' /\ Positive'
  BY <1>1 DEF disk, PackInv, FreeCountExact, Positive
<1> QED BY <1>2, <1>3, <1>4 DEF FileInv

\* The words of the file and their number stay.
LEMMA SameWords ==
  ASSUME index'[df] = index[df], df' = df, nr' = nr
  PROVE  /\ Kept' = Kept
         /\ \A s \in Slots : SizeAt(df, s)' = SizeAt(df, s)
         /\ Fills' = Fills
<1>1. Kept' = Kept /\ \A s \in Slots : SizeAt(df, s)' = SizeAt(df, s)
  BY DEF Kept, SizeAt
<1>2. Kept \subseteq Slots BY DEF Kept
<1>3. Fills' = Fills BY <1>1, <1>2 DEF Fills
<1> QED BY <1>1, <1>3

\* DEFRAG starts on a file that no other call is in.
LEMMA BeginStep ==
  ASSUME PackInv, NEW f \in Inodes, DefragBegin(f)
  PROVE  PackInv'
<1>1. /\ pc = "idle" /\ f \in Linked /\ pc' = "pack" /\ df' = f
      /\ i' = 0 /\ j' = 1 /\ left' = 0 /\ removed' = 0 /\ nr' = NrUsed(f)
      /\ UNCHANGED vars
  BY DEF DefragBegin, Live, Linked
<1>2. FileInv(Busy)' /\ FreeCountExact' /\ Positive'
  <2>1. Busy = {} BY <1>1 DEF Busy
  <2>2. UNCHANGED disk /\ ret' = ret /\ corrupt' \in BOOLEAN
    BY <1>1 DEF vars, disk, PackInv, FileInv, TypeOK
  <2> QED BY <2>1, <2>2, QuietStep
<1>3. /\ Linked' = Linked /\ inode' = inode /\ index' = index
  BY <1>1 DEF vars, Linked
<1>4. inode[f].blocks = NrUsed(f) + 1 /\ NrUsed(f) \in 0 .. MaxBlocks
  <2>1. inode[f].blocks \in 0 .. MaxBlocks + 1 /\ inode[f].blocks >= 1 /\ MaxBlocks \in Nat
    BY <1>1, DiskAssumption DEF PackInv, FileInv, TypeOK, Positive
  <2> QED BY <2>1 DEF NrUsed
<1>5. PackTyped' BY <1>1, <1>3, <1>4 DEF PackTyped, Active
<1>6. \A s \in Slots : s < nr' => index'[f][s] # 0
  BY <1>1, <1>3 DEF PackInv, FileInv, Layout, Busy
<1>7. Kept' = 0 .. nr' - 1
  <2>1. Kept' = {s \in Slots : s < nr' /\ index'[f][s] # 0}
    BY <1>1 DEF Kept
  <2>2. \A s : s \in Slots /\ s < nr' <=> s \in 0 .. nr' - 1
    BY <1>1, <1>4, DiskAssumption DEF Slots
  <2> QED BY <1>6, <2>1, <2>2
<1>8. Cardinality(Kept') = nr'
  <2>1. PICK n \in Nat : n = nr' BY <1>1, <1>4, DiskAssumption
  <2>2. Cardinality(0 .. n - 1) = n BY FS_Interval
  <2> QED BY <1>7, <2>1, <2>2
<1>9. PackLoop'
  <2>1. FullBelow' BY <1>1, <1>7 DEF FullBelow
  <2>2. nr' =< 0 => Fills'
    BY <1>1, <1>4, <1>7, DiskAssumption DEF Fills
  <2>3. nr' \in Int /\ i' = 0 BY <1>1, <1>4, DiskAssumption
  <2> QED BY <1>1, <1>6, <2>1, <2>2, <2>3 DEF PackLoop
<1>10. Cardinality(Kept)' + removed' = nr'
  BY <1>1, <1>4, <1>8, DiskAssumption
<1> QED BY <1>1, <1>2, <1>5, <1>9, <1>10 DEF PackInv

\* A call on another file, or on any before defrag begins.
LEMMA OtherStep ==
  ASSUME PackInv, NEW f \in Inodes, pc # "shift", FileStep(f)
  PROVE  PackInv'
<1>1. /\ pc = "idle" \/ f # df
      /\ Create(f) \/ Unlink(f) \/ \E off \in Offsets, d \in Payloads : OtherWrite(f, off, d)
      /\ UNCHANGED <<pc, df, i, j, left, removed, nr>>
  BY DEF FileStep, locals
<1>2. PICK X : X = Busy OBVIOUS
<1>3. FileInv(X) /\ f \notin X /\ Busy' = X
  BY <1>1, <1>2 DEF PackInv, Busy
<1>4. \/ Create(f) \/ Unlink(f)
      \/ \E off \in Offsets, d \in Payloads : \E w \in Plans(f, off, Len(d)) : Write(f, off, d, w)
  BY <1>1 DEF OtherWrite
<1>5. FileInv(X)' BY <1>3, <1>4, CreateStep, UnlinkStep, WriteStep
<1>6. FreeCountExact'
  <2>1. Next BY <1>4 DEF Next
  <2> QED BY <1>3, <2>1, CountStep DEF PackInv
<1>7. inode' \in [Inodes -> InodeType] /\ inode \in [Inodes -> InodeType]
  BY <1>3, <1>5 DEF FileInv, TypeOK, InodeType
<1>8. /\ \A g \in Inodes \ {f} : inode'[g] = inode[g] /\ index'[g] = index[g]
      /\ inode'[f].linked => inode'[f].blocks >= 1
  <2>1. CASE Create(f)
    BY <1>7, <2>1, <1>3 DEF Create, FileInv, TypeOK
  <2>2. CASE Unlink(f)
    BY <1>7, <2>2, <1>3 DEF Unlink, NoInode, FileInv, TypeOK
  <2>3. ASSUME NEW off \in Offsets, NEW d \in Payloads, NEW w \in Plans(f, off, Len(d)), Write(f, off, d, w)
        PROVE  /\ \A g \in Inodes \ {f} : inode'[g] = inode[g] /\ index'[g] = index[g]
               /\ inode'[f].blocks >= 1
    <3>1. f \in Linked /\ w.n \in 1 .. MaxBlocks
      BY <1>3, Planned DEF FileInv, Live, Linked
    <3>2. inode[f].blocks \in Nat /\ inode[f].blocks >= 1
      BY <1>7, <3>1, DiskAssumption DEF InodeType, PackInv, Positive
    <3>3. /\ index' = [index EXCEPT ![f] = index'[f]]
          /\ \E z : inode' = [inode EXCEPT ![f].blocks = @ + w.n, ![f].size = z]
      BY <1>3, <2>3 DEF Write, FileInv, TypeOK
    <3>4. PICK z : inode' = [inode EXCEPT ![f].blocks = @ + w.n, ![f].size = z]
      BY <3>3
    <3>5. inode'[f].blocks = inode[f].blocks + w.n /\ \A g \in Inodes \ {f} : inode'[g] = inode[g]
      BY <1>7, <3>4 DEF InodeType
    <3>6. \A g \in Inodes \ {f} : index'[g] = index[g]
      BY <1>3, <3>3 DEF FileInv, TypeOK
    <3> QED BY <3>1, <3>2, <3>5, <3>6, DiskAssumption
  <2> QED BY <1>4, <2>1, <2>2, <2>3
<1>9. Positive' BY <1>7, <1>8 DEF PackInv, Positive, Linked
<1>10. FileInv(Busy)' BY <1>3, <1>5 DEF FileInv, Layout
<1>11. CASE ~ Active
  BY <1>1, <1>6, <1>9, <1>10, <1>11 DEF PackInv, PackTyped, Active
<1>12. CASE Active
  <2>1. f # df /\ df \in Linked /\ df \in Inodes
    BY <1>1, <1>12, PackFacts DEF Active
  <2>2. inode'[df] = inode[df] /\ index'[df] = index[df]
    BY <1>8, <2>1
  <2>3. /\ Kept' = Kept /\ Fills' = Fills
        /\ \A s \in Slots : SizeAt(df, s)' = SizeAt(df, s)
    BY <1>1, <2>2, SameWords
  <2>4. PackTyped'
    BY <1>1, <2>1, <2>2 DEF PackInv, PackTyped, Active, Linked
  <2>5. FullBelow' = FullBelow
    <3>1. Kept \subseteq Slots BY DEF Kept
    <3> QED BY <1>1, <2>3, <3>1 DEF FullBelow
  <2>6. pc' = "pack" => PackLoop'
    BY <1>1, <2>2, <2>3, <2>5 DEF PackInv, PackLoop
  <2>7. pc' = "merge" => MergeLoop'
    <3>1. pc = "merge" => i \in Slots
      BY <1>12, PackFacts DEF PackInv, MergeLoop
    <3>2. i \in Slots => SizeAt(df, i)' = SizeAt(df, i)
      BY <1>1, <2>2 DEF SizeAt
    <3> QED BY <1>1, <2>2, <2>3, <2>5, <3>1, <3>2 DEF PackInv, MergeLoop
  <2>8. Cardinality(Kept)' + removed' = nr'
    BY <1>1, <1>12, <2>3 DEF PackInv
  <2> QED BY <1>1, <1>6, <1>9, <1>10, <1>12, <2>4, <2>6, <2>7, <2>8 DEF PackInv, Active
<1> QED BY <1>11, <1>12

\* The steps of the outer loop and the end of the inner one.
LEMMA OuterStep ==
  ASSUME PackInv, PackSkip \/ PackEnter \/ MergeEnd
  PROVE  PackInv'
<1>1. /\ UNCHANGED <<vars, df, removed, nr>> /\ pc \in {"pack", "merge"} /\ pc' \in {"pack", "merge"}
  BY DEF PackSkip, PackEnter, MergeEnd
<1>2. /\ df \in Linked /\ df \in Inodes /\ Busy = {df} /\ nr \in 0 .. MaxBlocks
      /\ i \in Nat /\ j \in Nat /\ left \in Nat /\ MaxBlocks \in Nat \ {0} /\ MaxBlockSize \in Nat \ {0}
      /\ \A k \in Nat : k < nr => k \in Slots
  BY <1>1, PackFacts DEF Active
<1>3. FileInv(Busy)' /\ FreeCountExact' /\ Positive'
  <2>1. Busy \subseteq Busy' BY <1>1 DEF Busy
  <2>2. UNCHANGED disk /\ ret' = ret /\ corrupt' \in BOOLEAN
    BY <1>1 DEF vars, disk, PackInv, FileInv, TypeOK
  <2> QED BY <2>1, <2>2, QuietStep
<1>4. inode' = inode /\ index' = index /\ Linked' = Linked
  BY <1>1 DEF vars, Linked
<1>5. /\ Kept' = Kept /\ Fills' = Fills
      /\ \A s \in Slots : SizeAt(df, s)' = SizeAt(df, s)
  BY <1>1, <1>4, SameWords
<1>6. Kept \subseteq Slots /\ \A s \in Kept : s < nr /\ s \in Nat /\ index[df][s] # 0
  BY DEF Kept, Slots
<1>7. Cardinality(Kept)' + removed' = nr'
  BY <1>1, <1>5 DEF PackInv, Active
<1>8. \A s \in Slots : s \in Nat BY DEF Slots
<1>9. CASE PackSkip
  <2>1. /\ pc = "pack" /\ pc' = "pack" /\ i < nr /\ i' = i + 1 /\ j' = i + 1 /\ left' = left
        /\ MaxBlockSize - SizeAt(df, i) = 0
    BY <1>9 DEF PackSkip
  <2>2. i \in Slots /\ SizeAt(df, i) = MaxBlockSize
    <3>1. i \in Slots BY <1>2, <2>1
    <3>2. SizeAt(df, i) \in 0 .. MaxBlockSize
      BY <2>1, <3>1, WordOf DEF Active
    <3> QED BY <1>2, <2>1, <3>1, <3>2
  <2>3. /\ \A s \in Slots : i =< s /\ s < nr => index[df][s] # 0
        /\ FullBelow
    BY <2>1 DEF PackInv, PackLoop
  <2>4. \A s \in Kept : s < i + 1 => SizeAt(df, s) = MaxBlockSize
    BY <1>2, <1>6, <2>2, <2>3 DEF FullBelow
  <2>5. FullBelow' BY <1>1, <1>5, <1>6, <2>1, <2>4 DEF FullBelow
  <2>6. ~ (i + 1 < nr) => Fills BY <1>2, <1>6, <2>4 DEF Fills
  <2>7. PackLoop'
    BY <1>1, <1>2, <1>4, <1>5, <1>8, <2>1, <2>3, <2>5, <2>6 DEF PackLoop
  <2>8. PackTyped'
    BY <1>1, <1>2, <1>4, <2>1 DEF PackInv, PackTyped, Active
  <2> QED BY <1>3, <1>7, <2>1, <2>7, <2>8 DEF PackInv
<1>10. CASE PackEnter
  <2>1. /\ pc = "pack" /\ pc' = "merge" /\ i < nr /\ i' = i /\ j' = i + 1
        /\ left' = MaxBlockSize - SizeAt(df, i)
    BY <1>10 DEF PackEnter
  <2>2. i \in Slots /\ SizeAt(df, i) \in 0 .. MaxBlockSize
    BY <1>2, <2>1, WordOf DEF Active
  <2>3. /\ \A s \in Slots : i =< s /\ s < nr => index[df][s] # 0
        /\ FullBelow
    BY <2>1 DEF PackInv, PackLoop
  <2>4. FullBelow' BY <1>1, <1>5, <1>6, <2>1, <2>3 DEF FullBelow
  <2>5. index[df][i] # 0 /\ SizeAt(df, i)' = SizeAt(df, i)
    BY <1>2, <1>5, <2>1, <2>2, <2>3 DEF SizeAt
  <2>6. MergeLoop'
    BY <1>1, <1>2, <1>4, <1>8, <2>1, <2>3, <2>4, <2>5 DEF MergeLoop, SizeAt
  <2>7. PackTyped'
    BY <1>1, <1>2, <1>4, <2>1, <2>2 DEF PackInv, PackTyped, Active
  <2> QED BY <1>3, <1>7, <2>1, <2>6, <2>7 DEF PackInv
<1>11. CASE MergeEnd
  <2>1. /\ pc = "merge" /\ pc' = "pack" /\ j >= nr /\ i' = j /\ j' = j /\ left' = left
    BY <1>11 DEF MergeEnd
  <2>2. /\ \A s \in Slots : i < s /\ s < j => index[df][s] = 0
        /\ FullBelow
    BY <2>1 DEF PackInv, MergeLoop
  <2>3. \A s \in Kept : s =< i BY <1>2, <1>6, <2>1, <2>2
  <2>4. Fills BY <1>2, <1>6, <2>2, <2>3 DEF Fills, FullBelow
  <2>5. PackLoop'
    BY <1>1, <1>2, <1>5, <1>8, <2>1, <2>4 DEF PackLoop
  <2>6. PackTyped'
    BY <1>1, <1>2, <1>4, <2>1 DEF PackInv, PackTyped, Active
  <2> QED BY <1>3, <1>7, <2>1, <2>5, <2>6 DEF PackInv
<1> QED BY <1>9, <1>10, <1>11

\* The end of the outer loop, where i_blocks gets its new value.
LEMMA EndStep ==
  ASSUME PackInv, PackEnd
  PROVE  PackInv'
<1>1. /\ pc = "pack" /\ pc' = "shift" /\ i >= nr
      /\ inode' = [inode EXCEPT ![df].blocks = @ - removed]
      /\ UNCHANGED <<free, nrFree, index, data, corrupt, ret, df, removed, nr>>
  BY DEF PackEnd
<1>2. /\ df \in Linked /\ df \in Inodes /\ Busy = {df} /\ nr \in 0 .. MaxBlocks
      /\ i \in Nat /\ removed \in Nat /\ MaxBlocks \in Nat \ {0} /\ TypeOK
      /\ inode[df].blocks = nr + 1
  BY <1>1, PackFacts DEF Active, PackInv, PackTyped
<1>3. Cardinality(Kept) + removed = nr /\ Cardinality(Kept) \in Nat
  BY <1>1, KeptFinite DEF PackInv, Active
<1>4. Kept' = Kept /\ Fills' = Fills BY <1>1, SameWords
<1>5. Fills BY <1>1, <1>2 DEF PackInv, PackLoop
<1> DEFINE b == nr + 1 - removed
<1>6. b \in 0 .. MaxBlocks + 1 /\ b >= 1 /\ b - 1 = Cardinality(Kept)
  BY <1>2, <1>3
<1> DEFINE new == [inode[df] EXCEPT !.blocks = b]
<1>7. inode' = [inode EXCEPT ![df] = new]
  <2>1. inode' = [inode EXCEPT ![df].blocks = inode[df].blocks - removed]
    BY <1>1
  <2>2. inode[df].blocks - removed = b BY <1>2
  <2> QED BY <2>1, <2>2
<1> HIDE DEF b
<1>8. /\ inode' \in [Inodes -> InodeType]
      /\ inode'[df].blocks = b /\ Linked' = Linked
      /\ \A g \in Inodes : inode'[g].indexBlock = inode[g].indexBlock
      /\ \A g \in Inodes \ {df} : inode'[g] = inode[g]
  <2>1. inode \in [Inodes -> InodeType] /\ inode[df] \in InodeType
    BY <1>2 DEF TypeOK, InodeType
  <2>2. new \in InodeType BY <1>6, <2>1 DEF InodeType
  <2>3. /\ new.blocks = b
        /\ new.linked = inode[df].linked /\ new.indexBlock = inode[df].indexBlock
    BY <2>1 DEF InodeType
  <2> HIDE DEF new
  <2> QED BY <1>2, <1>7, <2>1, <2>2, <2>3 DEF Linked
<1>9. TypeOK' BY <1>1, <1>2, <1>8 DEF TypeOK, InodeType
<1>10. Separate'
  <2>1. \A g \in Linked : g \in Inodes BY DEF Linked
  <2>2. \A g \in Linked, s \in Slots : NumberAt(g, s)' = NumberAt(g, s)
    BY <1>1 DEF NumberAt
  <2> QED BY <1>1, <1>8, <2>1, <2>2 DEF PackInv, FileInv, Separate
<1>11. Layout(Busy)'
  <2>1. Busy' = {df} BY <1>1 DEF Busy
  <2>2. \A g \in Linked \ {df} : inode'[g] = inode[g] /\ NrUsed(g)' = NrUsed(g)
    BY <1>8 DEF Linked, NrUsed
  <2> QED BY <1>1, <1>2, <1>8, <2>1, <2>2 DEF PackInv, FileInv, Layout
<1>12. FreeCountExact' BY <1>1 DEF PackInv, FreeCountExact
<1>13. Positive' BY <1>6, <1>8 DEF PackInv, Positive, Linked
<1>14. NrUsed(df)' = Cardinality(Kept)'
  BY <1>1, <1>4, <1>6, <1>8 DEF NrUsed
<1>15. PackTyped' BY <1>1 DEF PackTyped, Active
<1> QED
  BY <1>1, <1>4, <1>5, <1>9, <1>10, <1>11, <1>12, <1>13, <1>14, <1>15 DEF PackInv, FileInv, Active

\* No free block: defrag writes to the superblock.
LEMMA StarvedStep ==
  ASSUME PackInv, MergeStarved
  PROVE  PackInv'
<1>1. pc = "merge" /\ pc' = "crashed" /\ corrupt' = TRUE /\ UNCHANGED <<disk, ret, df>>
  BY DEF MergeStarved, locals
<1>2. FileInv(Busy)' /\ FreeCountExact' /\ Positive'
  <2>1. Busy \subseteq Busy' BY <1>1 DEF Busy
  <2> QED BY <1>1, <2>1, QuietStep
<1> QED BY <1>1, <1>2 DEF PackInv, PackTyped, Active

\* What moves from the block of the inner loop, and what block and word get.
LEMMA MoveFacts ==
  ASSUME PackInv, pc = "merge", j < nr
  PROVE  /\ i \in Slots /\ j \in Slots /\ i # j
         /\ index[df][i] # 0 /\ index[df][j] # 0
         /\ NumberAt(df, i) \in DataBlocks /\ NumberAt(df, j) \in DataBlocks \ free
         /\ Moved \in Nat /\ Moved =< left /\ Moved =< SizeAt(df, j) /\ Moved \in {left, SizeAt(df, j)}
         /\ SizeAt(df, i) \in 0 .. MaxBlockSize /\ SizeAt(df, j) \in 0 .. MaxBlockSize
         /\ left = MaxBlockSize - SizeAt(df, i)
         /\ GrownWord \in Word /\ get_block_number(GrownWord) = NumberAt(df, i)
         /\ get_block_size(GrownWord) = SizeAt(df, i) + Moved
         /\ GrownBlock \in Block
<1>1. Active BY DEF Active
<1>2. MergeLoop BY DEF PackInv
<1>3. /\ nr \in 0 .. MaxBlocks /\ i \in Nat /\ j \in Nat /\ left \in Nat
      /\ MaxBlocks \in Nat \ {0} /\ MaxBlockSize \in Nat \ {0}
      /\ \A k \in Nat : k < nr => k \in Slots
      /\ TypeOK
  BY <1>1, PackFacts
<1>4. /\ i \in Slots /\ j \in Slots /\ i # j
      /\ index[df][i] # 0 /\ index[df][j] # 0
      /\ left = MaxBlockSize - SizeAt(df, i)
  BY <1>2, <1>3 DEF MergeLoop
<1>5. /\ NumberAt(df, i) \in DataBlocks /\ NumberAt(df, j) \in DataBlocks \ free
      /\ SizeAt(df, i) \in 0 .. MaxBlockSize /\ SizeAt(df, j) \in 0 .. MaxBlockSize
      /\ index[df][i] \in Word
  BY <1>1, <1>4, WordOf
<1>6. Moved \in Nat /\ Moved =< left /\ Moved =< SizeAt(df, j) /\ Moved \in {left, SizeAt(df, j)}
  <2>1. SizeAt(df, j) \in Nat BY <1>3, <1>5
  <2> QED BY <1>3, <2>1, MinOfTwo DEF Moved
<1>7. SizeAt(df, i) + Moved \in 0 .. MaxBlockSize
  BY <1>3, <1>4, <1>5, <1>6
<1> DEFINE z == SizeAt(df, i) + Moved
<1>8. z \in Int /\ z % BlockSize = z
  <2>1. z \in Nat /\ z < BlockSize /\ BlockSize \in Nat \ {0}
    BY <1>3, <1>7, WidthAssumption DEF MaxBlockSize
  <2> HIDE DEF z
  <2>2. (z + 0 * BlockSize) % BlockSize = z BY <2>1, Unpack
  <2> QED BY <2>1, <2>2
<1>9. GrownWord = set_block_size(index[df][i], z) BY DEF GrownWord
<1> HIDE DEF z
<1>10. GrownWord \in Word /\ get_block_number(GrownWord) = NumberAt(df, i) /\ get_block_size(GrownWord) = z
  BY <1>5, <1>8, <1>9, SetSize DEF NumberAt
<1>11. GrownBlock \in Block
  <2>1. data[NumberAt(df, i)] \in Block /\ data[NumberAt(df, j)] \in Block
    BY <1>3, <1>5, DataBlockNumber DEF TypeOK
  <2>2. \A x \in 0 .. BlockSize - 1 :
          SizeAt(df, i) =< x /\ x < SizeAt(df, i) + Moved
            => data[NumberAt(df, j)][x - SizeAt(df, i) + 0] \in Byte
    BY <1>3, <1>5, <1>6, <2>1, WidthAssumption DEF Block, MaxBlockSize
  <2> QED BY <1>5, <1>6, <2>1, <2>2, CopyTyped DEF GrownBlock
<1> QED BY <1>4, <1>5, <1>6, <1>10, <1>11 DEF z

\* A block whose bytes are all somewhere else is given back, with its slot.
LEMMA DropStep ==
  ASSUME PackInv, pc = "merge", j < nr, NEW word \in Word,
         get_block_number(word) = NumberAt(df, i), Drop(word),
         data' \in [Blocks -> Block],
         UNCHANGED <<inode, corrupt, ret, pc, df, i, nr>>,
         left' = MaxBlockSize - get_block_size(word), left' \in Nat
  PROVE  PackInv'
<1>1. Active /\ MergeLoop BY DEF Active, PackInv
<1>2. /\ df \in Linked /\ df \in Inodes /\ Busy = {df} /\ nr \in 0 .. MaxBlocks
      /\ i \in Nat /\ j \in Nat /\ removed \in Nat /\ TypeOK /\ index[df] \in [Slots -> Word]
      /\ MaxBlocks \in Nat \ {0}
  BY <1>1, PackFacts
<1>3. /\ i \in Slots /\ j \in Slots /\ i # j
      /\ index[df][i] # 0 /\ index[df][j] # 0
      /\ NumberAt(df, i) \in DataBlocks /\ NumberAt(df, j) \in DataBlocks \ free
  BY MoveFacts
<1> DEFINE old == NumberAt(df, j)
           new == [index[df] EXCEPT ![i] = word, ![j] = 0]
<1>4. /\ free' = free \cup {old} /\ nrFree' = nrFree + 1
      /\ removed' = removed + 1 /\ j' = j + 1
      /\ index' = [index EXCEPT ![df][i] = word, ![df][j] = 0]
  <2>1. Accepted(old)
    BY <1>3, DiskAssumption DEF Accepted, DataBlocks
  <2> QED BY <2>1 DEF Drop
<1>5. index' = [index EXCEPT ![df] = new] BY <1>2, <1>4 DEF TypeOK
<1>6. /\ new \in [Slots -> Word] /\ new[j] = 0 /\ new[i] = word
      /\ \A s \in Slots \ {i, j} : new[s] = index[df][s]
  BY <1>2, <1>3, ZeroWord
<1>7. word # 0 BY <1>3, ZeroWord, DataBlockNumber
<1> HIDE DEF new
<1>8. index'[df] = new /\ index' \in [Inodes -> [Slots -> Word]]
  BY <1>2, <1>5, <1>6 DEF TypeOK
<1>9. Linked' = Linked /\ Busy' = {df} /\ df' = df
  BY <1>2 DEF Linked, Busy
<1>10. Separate' /\ Layout({df})'
  <2>1. PICK X : X = {df} OBVIOUS
  <2>2. FileInv(X) /\ df \in X BY <1>2, <2>1 DEF PackInv
  <2>3. \A s \in Slots \ {j} : new[s] # 0 => index[df][s] # 0 /\ get_block_number(new[s]) = NumberAt(df, s)
    BY <1>3, <1>6 DEF NumberAt
  <2>4. PICK e : e = df OBVIOUS
  <2>5. Separate' /\ Layout(X)'
    BY <1>2, <1>3, <1>4, <1>5, <1>6, <2>2, <2>3, Reworded, ZenonT(60)
  <2>6. Layout({df})' BY <1>9, <2>1, <2>5 DEF Layout
  <2> QED BY <2>5, <2>6
<1>11. TypeOK'
  <2>1. free' \subseteq DataBlocks /\ nrFree' \in Int
    BY <1>2, <1>3, <1>4 DEF TypeOK
  <2> QED BY <1>2, <1>8, <2>1 DEF TypeOK
<1>12. FreeCountExact'
  <2>1. IsFiniteSet(free) /\ Cardinality(free) \in Nat /\ nrFree = Cardinality(free)
    BY <1>2, FreeFinite DEF PackInv, FreeCountExact
  <2>2. Cardinality(free \cup {old}) = Cardinality(free) + 1
    BY <1>3, <2>1, FS_AddElement
  <2> QED BY <1>4, <2>1, <2>2 DEF FreeCountExact
<1>13. Positive' BY <1>9 DEF PackInv, Positive
<1>14. \A s \in Slots : s \in Nat BY DEF Slots
<1>15. Kept' = Kept \ {j} /\ j \in Kept
  <2>1. Kept' = {s \in Slots : s < nr /\ new[s] # 0}
    BY <1>8, <1>9 DEF Kept
  <2>2. \A s \in Slots \ {j} : new[s] # 0 <=> index[df][s] # 0
    BY <1>3, <1>6, <1>7
  <2> QED BY <1>3, <1>6, <2>1, <2>2 DEF Kept
<1>16. Cardinality(Kept)' + removed' = nr'
  <2>1. Cardinality(Kept \ {j}) = Cardinality(Kept) - 1 /\ Cardinality(Kept) \in Nat
    BY <1>15, KeptFinite, FS_RemoveElement
  <2>2. Cardinality(Kept) + removed = nr BY <1>1 DEF PackInv
  <2> QED BY <1>2, <1>4, <1>15, <2>1, <2>2
<1>17. MergeLoop'
  <2>1. /\ i < nr /\ i < j
        /\ \A s \in Slots : j =< s /\ s < nr => index[df][s] # 0
        /\ \A s \in Slots : i < s /\ s < j => index[df][s] = 0
        /\ FullBelow
    BY <1>1 DEF MergeLoop
  <2>2. /\ \A s \in Slots : j + 1 =< s /\ s < nr => new[s] # 0
        /\ \A s \in Slots : i < s /\ s < j + 1 => new[s] = 0
    BY <1>2, <1>6, <1>14, <2>1
  <2>3. SizeAt(df, i)' = get_block_size(word)
    BY <1>6, <1>8, <1>9 DEF SizeAt
  <2>4. FullBelow'
    <3>1. \A s \in Kept' : s \in Kept /\ s \in Slots /\ s \in Nat /\ s # j
      BY <1>14, <1>15 DEF Kept
    <3>2. \A s \in Kept' : s < i => SizeAt(df, s)' = SizeAt(df, s)
      BY <1>2, <1>6, <1>8, <1>9, <3>1 DEF SizeAt
    <3> QED BY <2>1, <3>1, <3>2 DEF FullBelow
  <2> QED BY <1>2, <1>4, <1>6, <1>7, <1>8, <1>9, <2>1, <2>2, <2>3, <2>4 DEF MergeLoop
<1>18. PackTyped'
  BY <1>1, <1>2, <1>4, <1>9 DEF PackInv, PackTyped, Active
<1> QED BY <1>9, <1>10, <1>11, <1>12, <1>13, <1>16, <1>17, <1>18 DEF PackInv, FileInv

\* An emptied block, or one that fits as a whole into the block before it.
LEMMA MergeStep ==
  ASSUME PackInv, MergeEmpty \/ MergeWhole
  PROVE  PackInv'
<1>1. pc = "merge" /\ j < nr BY DEF MergeEmpty, MergeWhole
<1>2. Active /\ MergeLoop BY <1>1 DEF Active, PackInv
<1>3. TypeOK /\ index[df] \in [Slots -> Word] /\ MaxBlockSize \in Nat \ {0} /\ left \in Nat
  BY <1>2, PackFacts
<1>4. CASE MergeEmpty
  <2>1. /\ Drop(index[df][i])
        /\ UNCHANGED <<inode, data, corrupt, ret, pc, df, i, left, nr>>
    BY <1>4 DEF MergeEmpty
  <2>2. index[df][i] \in Word /\ get_block_number(index[df][i]) = NumberAt(df, i)
        /\ left = MaxBlockSize - get_block_size(index[df][i])
    BY <1>1, <1>3, MoveFacts DEF NumberAt, SizeAt
  <2>3. data' \in [Blocks -> Block] BY <1>3, <2>1 DEF TypeOK
  <2> QED BY <1>1, <1>3, <2>1, <2>2, <2>3, DropStep
<1>5. CASE MergeWhole
  <2>1. /\ data' = [data EXCEPT ![NumberAt(df, i)] = GrownBlock]
        /\ Drop(GrownWord) /\ left' = left - Moved
        /\ UNCHANGED <<inode, corrupt, ret, pc, df, i, nr>>
    BY <1>5 DEF MergeWhole
  <2>2. /\ GrownWord \in Word /\ get_block_number(GrownWord) = NumberAt(df, i)
        /\ get_block_size(GrownWord) = SizeAt(df, i) + Moved
        /\ left = MaxBlockSize - SizeAt(df, i) /\ Moved \in Nat /\ Moved =< left
        /\ SizeAt(df, i) \in 0 .. MaxBlockSize
        /\ GrownBlock \in Block
    BY <1>1, MoveFacts
  <2>3. left' = MaxBlockSize - get_block_size(GrownWord) /\ left' \in Nat
    BY <1>3, <2>1, <2>2
  <2>4. data' \in [Blocks -> Block] BY <1>3, <2>1, <2>2 DEF TypeOK
  <2> QED BY <1>1, <2>1, <2>2, <2>3, <2>4, DropStep
<1> QED BY <1>4, <1>5

\* What does not fit into the block before goes to a new block, and the outer
\* loop goes on with that one.
LEMMA PartStep ==
  ASSUME PackInv, MergePart
  PROVE  PackInv'
<1>1. /\ pc = "merge" /\ j < nr /\ SizeAt(df, j) > Moved
      /\ left' = left - Moved
      /\ UNCHANGED <<nrFree, inode, corrupt, ret, df, removed, nr>>
  BY DEF MergePart
<1>2. Active /\ MergeLoop BY <1>1 DEF Active, PackInv
<1>3. /\ df \in Linked /\ df \in Inodes /\ Busy = {df} /\ nr \in 0 .. MaxBlocks
      /\ i \in Nat /\ j \in Nat /\ left \in Nat /\ removed \in Nat
      /\ TypeOK /\ index[df] \in [Slots -> Word]
      /\ MaxBlocks \in Nat \ {0} /\ MaxBlockSize \in Nat \ {0}
  BY <1>2, PackFacts
<1>4. /\ i \in Slots /\ j \in Slots /\ i # j /\ index[df][j] # 0
      /\ NumberAt(df, i) \in DataBlocks /\ NumberAt(df, j) \in DataBlocks \ free
      /\ Moved \in Nat /\ Moved =< left /\ Moved \in {left, SizeAt(df, j)}
      /\ SizeAt(df, i) \in 0 .. MaxBlockSize /\ SizeAt(df, j) \in 0 .. MaxBlockSize
      /\ left = MaxBlockSize - SizeAt(df, i)
      /\ GrownWord \in Word /\ get_block_number(GrownWord) = NumberAt(df, i)
      /\ get_block_size(GrownWord) = SizeAt(df, i) + Moved
      /\ GrownBlock \in Block
  BY <1>1, MoveFacts
\* The block of the outer loop is full: only a block that fits goes on.
<1>5. Moved = left /\ get_block_size(GrownWord) = MaxBlockSize /\ left' = 0
  BY <1>1, <1>3, <1>4
<1>6. pc' = "pack" /\ i' = j /\ j' = j BY <1>5 DEF MergePart
<1> DEFINE old == NumberAt(df, j)
           rest == SizeAt(df, j) - Moved
           grown == [data EXCEPT ![NumberAt(df, i)] = GrownBlock]
<1>7. PICK al \in FirstFree(1) :
        /\ data' = [grown EXCEPT ![al[0]] = Copy(@, 0, grown[old], Moved, rest)]
        /\ index' = [index EXCEPT
             ![df][i] = GrownWord,
             ![df][j] = set_block_number(set_block_size(@, rest), al[0])]
        /\ free' = (free \ {al[0]}) \cup {old}
  BY DEF MergePart
<1> DEFINE b == al[0]
           word == set_block_number(set_block_size(index[df][j], rest), b)
           new == [index[df] EXCEPT ![i] = GrownWord, ![j] = word]
<1>8. b \in free /\ b \in DataBlocks /\ b # old
  <2>1. 1 \in 1 .. MaxBlocks /\ 0 \in 0 .. 1 - 1 BY <1>3
  <2> QED BY <1>3, <1>4, <2>1, FreshBlocks
<1> HIDE DEF b
<1>9. rest \in 1 .. MaxBlockSize BY <1>1, <1>3, <1>4
<1>10. /\ word \in Word /\ get_block_number(word) = b
  <2>1. rest \in Int /\ b \in Nat /\ b % NumberMask = b
    BY <1>3, <1>8, <1>9, DataBlockNumber
  <2>2. index[df][j] \in Word BY <1>3, <1>4
  <2> HIDE DEF rest
  <2>3. set_block_size(index[df][j], rest) \in Word
    BY <2>1, <2>2, SetSize
  <2> QED BY <2>1, <2>3, SetNumber
<1>11. index' = [index EXCEPT ![df] = new]
  BY <1>3, <1>4, <1>7 DEF TypeOK, b
<1> HIDE DEF word
<1>12. /\ new \in [Slots -> Word] /\ new[j] = word /\ new[i] = GrownWord
       /\ \A s \in Slots \ {i, j} : new[s] = index[df][s]
  BY <1>3, <1>4, <1>10
<1>13. word # 0 /\ GrownWord # 0
  BY <1>4, <1>8, <1>10, ZeroWord, DataBlockNumber
<1> HIDE DEF new
<1>14. index'[df] = new /\ index' \in [Inodes -> [Slots -> Word]]
  BY <1>3, <1>11, <1>12 DEF TypeOK
<1>15. Linked' = Linked /\ Busy' = {df} /\ df' = df
  BY <1>1, <1>6 DEF Linked, Busy
<1>16. free' = (free \ {b}) \cup {old} BY <1>7 DEF b
<1>17. Separate' /\ Layout({df})'
  <2>1. PICK X : X = {df} OBVIOUS
  <2>2. FileInv(X) /\ df \in X BY <1>3, <2>1 DEF PackInv
  <2>3. \A s \in Slots \ {j} : new[s] # 0 => index[df][s] # 0 /\ get_block_number(new[s]) = NumberAt(df, s)
    BY <1>2, <1>4, <1>12 DEF NumberAt, MergeLoop
  <2>4. PICK e : e = df OBVIOUS
  <2>5. new[j] # 0 => get_block_number(new[j]) = b /\ b \in free /\ b \notin free'
    BY <1>8, <1>10, <1>12, <1>16
  <2>6. free' \subseteq free \cup {NumberAt(df, j)} /\ inode' = inode
    BY <1>1, <1>16
  <2>7. Separate' /\ Layout(X)'
    <3> HIDE DEF old
    <3> QED BY <1>3, <1>4, <1>11, <1>12, <2>2, <2>3, <2>5, <2>6, Reworded
  <2>8. Layout({df})' BY <1>15, <2>1, <2>7 DEF Layout
  <2> QED BY <2>7, <2>8
<1>18. data' \in [Blocks -> Block]
  <2>1. /\ NumberAt(df, i) \in Blocks /\ old \in Blocks /\ b \in Blocks
    BY <1>4, <1>8, DataBlockNumber
  <2>2. grown \in [Blocks -> Block] BY <1>3, <1>4, <2>1 DEF TypeOK
  <2>3. grown[b] \in Block /\ grown[old] \in Block BY <2>1, <2>2
  <2>4. \A x \in 0 .. BlockSize - 1 :
          0 =< x /\ x < 0 + rest => grown[old][x - 0 + Moved] \in Byte
    BY <1>3, <1>4, <2>3, WidthAssumption DEF Block, MaxBlockSize
  <2>5. rest \in Int /\ Moved \in Int BY <1>4, <1>9, <1>3
  <2> HIDE DEF grown, old, rest
  <2>6. Copy(grown[b], 0, grown[old], Moved, rest) \in Block
    BY <2>3, <2>4, <2>5, CopyTyped
  <2>7. data' = [grown EXCEPT ![b] = Copy(grown[b], 0, grown[old], Moved, rest)]
    BY <1>7 DEF b
  <2> QED BY <2>1, <2>2, <2>6, <2>7
<1>19. TypeOK'
  <2>1. free' \subseteq DataBlocks BY <1>3, <1>4, <1>16 DEF TypeOK
  <2> QED BY <1>1, <1>3, <1>14, <1>18, <2>1 DEF TypeOK
<1>20. FreeCountExact'
  <2>1. IsFiniteSet(free) /\ Cardinality(free) \in Nat /\ nrFree = Cardinality(free)
    BY <1>3, FreeFinite DEF PackInv, FreeCountExact
  <2>2. IsFiniteSet(free \ {b}) /\ Cardinality(free \ {b}) = Cardinality(free) - 1
    BY <1>8, <2>1, FS_RemoveElement
  <2>3. Cardinality((free \ {b}) \cup {old}) = Cardinality(free \ {b}) + 1
    BY <1>4, <2>2, FS_AddElement
  <2> QED BY <1>1, <1>16, <2>1, <2>2, <2>3 DEF FreeCountExact
<1>21. Positive' BY <1>1, <1>15 DEF PackInv, Positive
<1>22. \A s \in Slots : s \in Nat BY DEF Slots
<1>23. Kept' = Kept
  <2>1. Kept' = {s \in Slots : s < nr /\ new[s] # 0}
    BY <1>1, <1>14, <1>15 DEF Kept
  <2>2. \A s \in Slots : new[s] # 0 <=> index[df][s] # 0
    BY <1>2, <1>4, <1>12, <1>13 DEF MergeLoop
  <2> QED BY <2>1, <2>2 DEF Kept
<1>24. Cardinality(Kept)' + removed' = nr'
  BY <1>1, <1>2, <1>23 DEF PackInv
<1>25. PackLoop'
  <2>1. /\ i < nr /\ i < j
        /\ \A s \in Slots : j =< s /\ s < nr => index[df][s] # 0
        /\ \A s \in Slots : i < s /\ s < j => index[df][s] = 0
        /\ FullBelow
    BY <1>2 DEF MergeLoop
  <2>2. \A s \in Slots : j =< s /\ s < nr => new[s] # 0
    BY <1>4, <1>12, <1>13, <2>1
  <2>3. FullBelow'
    <3>1. \A s \in Kept : s \in Slots /\ s \in Nat /\ index[df][s] # 0
      BY <1>22 DEF Kept
    <3>2. \A s \in Kept : s < j => s =< i BY <1>3, <2>1, <3>1
    <3>3. \A s \in Kept : s = i => SizeAt(df, s)' = MaxBlockSize
      BY <1>1, <1>5, <1>12, <1>14 DEF SizeAt
    <3>4. \A s \in Kept : s < i => SizeAt(df, s)' = MaxBlockSize
      <4>1. \A s \in Kept : s < i => SizeAt(df, s)' = SizeAt(df, s)
        BY <1>1, <1>3, <1>12, <1>14, <2>1, <3>1 DEF SizeAt
      <4> QED BY <2>1, <4>1 DEF FullBelow
    <3>5. \A s \in Kept : s < j => SizeAt(df, s)' = MaxBlockSize
      <4> SUFFICES ASSUME NEW s \in Slots, s \in Kept, s < j
                   PROVE  SizeAt(df, s)' = MaxBlockSize
        BY <3>1
      <4>1. s < i \/ s = i BY <1>3, <3>1, <3>2
      <4> QED BY <3>3, <3>4, <4>1
    <3> QED BY <1>6, <1>23, <3>1, <3>5 DEF FullBelow
  <2> QED BY <1>1, <1>6, <1>14, <1>15, <2>2, <2>3 DEF PackLoop
<1>26. PackTyped'
  BY <1>1, <1>2, <1>3, <1>5, <1>6, <1>15 DEF PackInv, PackTyped, Active
<1> QED
  BY <1>6, <1>15, <1>17, <1>19, <1>20, <1>21, <1>24, <1>25, <1>26 DEF PackInv, FileInv

\* The invariant of the packing holds at first.
LEMMA PackInit == DefragInit => PackInv
<1> SUFFICES ASSUME DefragInit PROVE PackInv OBVIOUS
<1>1. pc = "idle" /\ Init BY DEF DefragInit
<1>2. FileInv({}) /\ Busy = {} BY <1>1, FileInit DEF Busy
<1>3. FreeCountExact
  BY <1>1, FS_Interval, DiskAssumption DEF Init, FreeCountExact, DataBlocks
<1>4. Positive BY <1>1 DEF Init, NoInode, Positive, Linked
<1> QED BY <1>1, <1>2, <1>3, <1>4 DEF PackInv, PackTyped, Active

\* Every step of the packing, and of the other calls meanwhile, keeps its invariant.
LEMMA PackNextStep == PackInv /\ [PackNext]_dvars => PackInv'
<1> SUFFICES ASSUME PackInv, [PackNext]_dvars PROVE PackInv'
  OBVIOUS
<1>1. CASE UNCHANGED dvars
  <2>1. UNCHANGED <<vars, pc, df, i, j, left, removed, nr>>
    BY <1>1 DEF dvars, locals
  <2>2. UNCHANGED disk /\ ret' = ret /\ corrupt' \in BOOLEAN /\ Busy' = Busy
    BY <2>1 DEF vars, disk, PackInv, FileInv, TypeOK, Busy
  <2>3. FileInv(Busy)' /\ FreeCountExact' /\ Positive'
    BY <2>2, QuietStep
  <2>4. inode' = inode /\ index' = index /\ Linked' = Linked
    BY <2>1 DEF vars, Linked
  <2>5. /\ Kept' = Kept /\ Fills' = Fills /\ FullBelow' = FullBelow /\ Active' = Active
        /\ NrUsed(df)' = NrUsed(df) /\ SizeAt(df, i)' = SizeAt(df, i)
    BY <2>1, <2>4 DEF Kept, Fills, FullBelow, SizeAt, NrUsed, Active
  <2>6. PackTyped' = PackTyped /\ PackLoop' = PackLoop /\ MergeLoop' = MergeLoop
    BY <2>1, <2>4, <2>5 DEF PackTyped, PackLoop, MergeLoop
  <2> QED BY <2>1, <2>3, <2>5, <2>6 DEF PackInv
<1>2. ASSUME NEW f \in Inodes, pc # "shift", FileStep(f) PROVE PackInv'
  BY <1>2, OtherStep
<1>3. ASSUME NEW f \in Inodes, DefragBegin(f) PROVE PackInv'
  BY <1>3, BeginStep
<1>4. CASE PackStep
  BY <1>4, OuterStep, MergeStep, PartStep, StarvedStep, EndStep DEF PackStep
<1> QED BY <1>1, <1>2, <1>3, <1>4 DEF PackNext

\* The invariant of the packing holds in every state.
LEMMA PackAlways == PackSpec => []PackInv
BY PackInit, PackNextStep, PTL DEF PackSpec

\* When the packing ends i_blocks counts the words that are left, whatever the
\* order in which blocks were emptied, cut and skipped and other files changed.
THEOREM PackCountsBlocks == PackSpec => []PackCounts
<1>1. PackInv => PackCounts BY DEF PackInv, PackCounts
<1> QED BY <1>1, PackAlways, PTL

\* When the packing ends every block but the last one with bytes is full.
THEOREM PackFillsBlocks == PackSpec => []PackFills
<1>1. PackInv => PackFills BY DEF PackInv, PackFills, Fills
<1> QED BY <1>1, PackAlways, PTL

\* The packing gives back a block and takes another one between the calls on the
\* other files, and no block gets two owners or is both free and named.
THEOREM PackNoSharing == PackSpec => []NoSharing
<1>1. PackInv => NoSharing BY Shared DEF PackInv, FileInv
<1> QED BY <1>1, PackAlways, PTL

\* nr_free_blocks is the number of bits set in the bitmap after every iteration of
\* the packing too, also of one that takes a block and gives another one back.
THEOREM PackFreeCount == PackSpec => []FreeCountExact
<1>1. PackInv => FreeCountExact BY DEF PackInv
<1> QED BY <1>1, PackAlways, PTL


-----------------------------------------------------------------------------
(* What a file reads as. The bytes of a file as slots after slots: sums     *)
(* over slots, and the parts of a sequence one after the other.             *)

\* Induction between two bounds, for a set.
LEMMA UpTo ==
  ASSUME NEW lo \in Nat, NEW hi \in Int, NEW S,
         lo \in S, \A k \in lo .. hi - 1 : k \in S => k + 1 \in S
  PROVE  \A k \in lo .. hi : k \in S
<1> DEFINE missing == {k \in lo .. hi : k \notin S}
           m == Min(missing)
<1> SUFFICES ASSUME missing # {} PROVE FALSE OBVIOUS
<1>1. m \in missing /\ \A y \in missing : m =< y
  <2>1. missing \in SUBSET Nat OBVIOUS
  <2> HIDE DEF missing
  <2> QED BY <2>1, MinNat
<1>2. m \in lo .. hi /\ m \notin S BY <1>1
<1>3. m # lo /\ m - 1 \in lo .. hi - 1 BY <1>2
<1>4. m - 1 \notin S BY <1>2, <1>3
<1>5. m - 1 \in missing BY <1>3, <1>4
<1>6. m =< m - 1 BY <1>1, <1>5
<1> QED BY <1>2, <1>6

\* What the slots before each one add up to.
Total(h) ==
  CHOOSE P \in [0 .. MaxBlocks -> Int] :
    P[0] = 0 /\ \A s \in Slots : P[s + 1] = P[s] + h[s]

\* There is such a function: its beginnings are built one slot at a time.
LEMMA TotalOf ==
  ASSUME NEW h \in [Slots -> Int]
  PROVE  /\ Total(h) \in [0 .. MaxBlocks -> Int]
         /\ Total(h)[0] = 0
         /\ \A s \in Slots : Total(h)[s + 1] = Total(h)[s] + h[s]
<1> DEFINE Sums(m, P) == /\ P \in [0 .. m -> Int]
                         /\ P[0] = 0
                         /\ \A s \in 0 .. m - 1 : P[s + 1] = P[s] + h[s]
           Summed == {m \in Nat : \E P \in [0 .. m -> Int] : Sums(m, P)}
<1>1. MaxBlocks \in Nat /\ Slots = 0 .. MaxBlocks - 1
  BY DiskAssumption DEF Slots
<1>2. 0 \in Summed
  <2>1. Sums(0, [k \in 0 .. 0 |-> 0]) OBVIOUS
  <2> QED BY <2>1
<1>3. ASSUME NEW m \in 0 .. MaxBlocks - 1, m \in Summed PROVE m + 1 \in Summed
  <2>1. PICK P \in [0 .. m -> Int] : Sums(m, P) BY <1>3
  <2> DEFINE Q == [k \in 0 .. m + 1 |-> IF k = m + 1 THEN P[m] + h[m] ELSE P[k]]
  <2>2. h[m] \in Int /\ P[m] \in Int BY <1>1
  <2>3. Q \in [0 .. m + 1 -> Int] BY <2>2
  <2>4. Q[0] = 0 BY <2>1
  <2>5. ASSUME NEW s \in 0 .. (m + 1) - 1 PROVE Q[s + 1] = Q[s] + h[s]
    BY <2>1
  <2>6. Sums(m + 1, Q) BY <2>3, <2>4, <2>5
  <2> HIDE DEF Q, Sums
  <2>7. \E R \in [0 .. m + 1 -> Int] : Sums(m + 1, R)
    BY <2>3, <2>6
  <2>8. m + 1 \in Nat OBVIOUS
  <2> QED BY <2>7, <2>8
<1>4. MaxBlocks \in Summed
  <2> HIDE DEF Summed
  <2>1. 0 \in Nat /\ MaxBlocks \in Int /\ MaxBlocks \in 0 .. MaxBlocks
    BY <1>1
  <2>2. \A k \in 0 .. MaxBlocks - 1 : k \in Summed => k + 1 \in Summed
    BY <1>3
  <2>3. \A k \in 0 .. MaxBlocks : k \in Summed
    BY <1>2, <2>1, <2>2, UpTo
  <2> QED BY <2>1, <2>3
<1>5. \E P \in [0 .. MaxBlocks -> Int] :
        P[0] = 0 /\ \A s \in Slots : P[s + 1] = P[s] + h[s]
  BY <1>1, <1>4
<1> QED BY <1>5 DEF Total

\* The slots from lo to hi of h are those of g n places further on.
Follows(g, h, lo, hi, n) == \A s \in lo .. hi - 1 : g[s + n] = h[s]

\* Slots of the same sizes, n places further on, add the same.
LEMMA TotalShift ==
  ASSUME NEW h \in [Slots -> Int], NEW g \in [Slots -> Int],
         NEW lo \in Nat, NEW hi \in Nat, NEW n \in Nat, hi + n =< MaxBlocks,
         Follows(g, h, lo, hi, n)
  PROVE  \A k \in lo .. hi :
           Total(g)[k + n] - Total(g)[lo + n] = Total(h)[k] - Total(h)[lo]
<1> DEFINE S == {k \in lo .. hi :
             Total(g)[k + n] - Total(g)[lo + n] = Total(h)[k] - Total(h)[lo]}
<1> SUFFICES ASSUME lo =< hi PROVE \A k \in lo .. hi : k \in S
  OBVIOUS
<1>1. MaxBlocks \in Nat /\ Slots = 0 .. MaxBlocks - 1
  BY DiskAssumption DEF Slots
<1>2. /\ \A k \in lo .. hi : Total(h)[k] \in Int /\ Total(g)[k + n] \in Int
      /\ \A k \in lo .. hi - 1 : /\ Total(h)[k + 1] = Total(h)[k] + h[k]
                                 /\ Total(g)[k + n + 1] = Total(g)[k + n] + g[k + n]
                                 /\ h[k] \in Int
  <2>1. \A k \in lo .. hi : k \in 0 .. MaxBlocks /\ k + n \in 0 .. MaxBlocks
    BY <1>1
  <2>2. \A k \in lo .. hi - 1 : k \in Slots /\ k + n \in Slots
    BY <1>1
  <2> QED BY <2>1, <2>2, TotalOf
<1>3. lo \in S BY <1>2
<1>4. ASSUME NEW k \in lo .. hi - 1, k \in S PROVE k + 1 \in S
  <2>1. k + 1 \in lo .. hi /\ k + 1 + n = k + n + 1 /\ k \in lo .. hi
    OBVIOUS
  <2>2. g[k + n] = h[k] BY DEF Follows
  <2>3. Total(g)[lo + n] \in Int /\ Total(h)[lo] \in Int BY <1>2
  <2>4. Total(g)[k + n] - Total(g)[lo + n] = Total(h)[k] - Total(h)[lo]
    BY <1>4
  <2> DEFINE gk == Total(g)[k + n]
             hk == Total(h)[k]
  <2>5. Total(g)[k + 1 + n] = gk + h[k] /\ Total(h)[k + 1] = hk + h[k]
    BY <1>2, <2>1, <2>2
  <2>6. gk \in Int /\ hk \in Int /\ h[k] \in Int BY <1>2, <2>1
  <2>7. Total(g)[k + 1 + n] - Total(g)[lo + n] = Total(h)[k + 1] - Total(h)[lo]
    BY <2>3, <2>4, <2>5, <2>6
  <2> QED BY <2>1, <2>7
<1> HIDE DEF S
<1> QED BY <1>3, <1>4, UpTo

\* Slots of one size add a multiple of it.
LEMMA TotalEven ==
  ASSUME NEW h \in [Slots -> Int], NEW e \in Int,
         NEW lo \in Nat, NEW hi \in Nat, hi =< MaxBlocks,
         \A s \in lo .. hi - 1 : h[s] = e
  PROVE  \A k \in lo .. hi : Total(h)[k] = Total(h)[lo] + (k - lo) * e
<1> DEFINE S == {k \in lo .. hi : Total(h)[k] = Total(h)[lo] + (k - lo) * e}
<1> SUFFICES ASSUME lo =< hi PROVE \A k \in lo .. hi : k \in S
  OBVIOUS
<1>1. MaxBlocks \in Nat /\ Slots = 0 .. MaxBlocks - 1
  BY DiskAssumption DEF Slots
<1>2. /\ \A k \in lo .. hi : Total(h)[k] \in Int
      /\ \A k \in lo .. hi - 1 : Total(h)[k + 1] = Total(h)[k] + h[k]
  <2>1. \A k \in lo .. hi : k \in 0 .. MaxBlocks BY <1>1
  <2>2. \A k \in lo .. hi - 1 : k \in Slots BY <1>1
  <2> QED BY <2>1, <2>2, TotalOf
<1>3. lo \in S
  <2>1. Total(h)[lo] \in Int /\ (lo - lo) * e = 0 BY <1>2
  <2> QED BY <2>1
<1>4. ASSUME NEW k \in lo .. hi - 1, k \in S PROVE k + 1 \in S
  <2>1. k + 1 \in lo .. hi OBVIOUS
  <2>2. Total(h)[k + 1] = Total(h)[k] + e BY <1>2
  <2>3. Total(h)[k] = Total(h)[lo] + (k - lo) * e BY <1>4
  <2>4. (k + 1 - lo) * e = (k - lo) * e + e OBVIOUS
  <2>5. (k - lo) * e \in Int /\ Total(h)[lo] \in Int BY <1>2
  <2>6. Total(h)[k + 1] = Total(h)[lo] + (k + 1 - lo) * e
    BY <2>2, <2>3, <2>4, <2>5
  <2> QED BY <2>1, <2>6
<1> HIDE DEF S
<1> QED BY <1>3, <1>4, UpTo, SMTT(60)

\* Sizes are not negative, so the sums never fall.
LEMMA TotalGrows ==
  ASSUME NEW h \in [Slots -> Nat]
  PROVE  /\ Total(h) \in [0 .. MaxBlocks -> Nat]
         /\ \A a, b \in 0 .. MaxBlocks : a =< b => Total(h)[a] =< Total(h)[b]
<1>1. MaxBlocks \in Nat /\ Slots = 0 .. MaxBlocks - 1 /\ h \in [Slots -> Int]
  BY DiskAssumption DEF Slots
<1>2. /\ Total(h) \in [0 .. MaxBlocks -> Int] /\ Total(h)[0] = 0
      /\ \A s \in Slots : Total(h)[s + 1] = Total(h)[s] + h[s]
  BY <1>1, TotalOf
<1>3. ASSUME NEW a \in 0 .. MaxBlocks
      PROVE  \A b \in a .. MaxBlocks : Total(h)[a] =< Total(h)[b]
  <2> DEFINE S == {b \in a .. MaxBlocks : Total(h)[a] =< Total(h)[b]}
  <2>1. a \in S
    <3>1. Total(h)[a] \in Int /\ a \in a .. MaxBlocks
      BY <1>1, <1>2
    <3> QED BY <3>1
  <2>2. ASSUME NEW b \in a .. MaxBlocks - 1, b \in S PROVE b + 1 \in S
    <3>1. b \in Slots /\ b + 1 \in a .. MaxBlocks /\ b \in 0 .. MaxBlocks
      BY <1>1
    <3>2. Total(h)[b + 1] = Total(h)[b] + h[b] /\ h[b] \in Nat
      BY <1>2, <3>1
    <3>3. Total(h)[b] \in Int /\ Total(h)[a] \in Int /\ Total(h)[a] =< Total(h)[b]
      BY <1>2, <2>2, <3>1
    <3>4. Total(h)[a] =< Total(h)[b + 1] BY <3>2, <3>3
    <3> QED BY <3>1, <3>4
  <2> HIDE DEF S
  <2>3. a \in Nat /\ MaxBlocks \in Int BY <1>1
  <2>4. \A b \in a .. MaxBlocks : b \in S
    BY <2>1, <2>2, <2>3, UpTo
  <2> QED BY <2>4 DEF S
<1>4. \A a, b \in 0 .. MaxBlocks : a =< b => Total(h)[a] =< Total(h)[b]
  BY <1>1, <1>3
<1>5. ASSUME NEW a \in 0 .. MaxBlocks PROVE Total(h)[a] \in Nat
  <2>1. 0 \in 0 .. MaxBlocks /\ Total(h)[0] =< Total(h)[a]
    BY <1>1, <1>4
  <2> QED BY <1>2, <2>1
<1> QED BY <1>2, <1>4, <1>5

\* Every byte lies in one slot.
LEMMA TotalLocates ==
  ASSUME NEW h \in [Slots -> Nat], NEW n \in 0 .. MaxBlocks,
         NEW p \in 1 .. Total(h)[n]
  PROVE  \E s \in 0 .. n - 1 : \E x \in 1 .. h[s] : p = Total(h)[s] + x
<1> DEFINE S == {k \in 0 .. n : p =< Total(h)[k]}
           m == Min(S)
<1>1. MaxBlocks \in Nat /\ Slots = 0 .. MaxBlocks - 1 /\ h \in [Slots -> Int]
  BY DiskAssumption DEF Slots
<1>2. /\ Total(h) \in [0 .. MaxBlocks -> Nat] /\ Total(h)[0] = 0
      /\ \A s \in Slots : Total(h)[s + 1] = Total(h)[s] + h[s]
  BY <1>1, TotalOf, TotalGrows
<1>3. n \in S /\ S \in SUBSET Nat BY <1>1, <1>2
<1>4. m \in S /\ \A y \in S : m =< y
  <2> HIDE DEF S
  <2> QED BY <1>3, MinNat
<1> HIDE DEF m
<1>5. m \in 0 .. n /\ m # 0 /\ p =< Total(h)[m] BY <1>2, <1>4
<1>6. m - 1 \in 0 .. n - 1 /\ m - 1 \in Slots /\ m - 1 \in 0 .. n /\ (m - 1) + 1 = m
  BY <1>1, <1>5
<1>7. m - 1 \notin S
  <2>1. ~ (m =< m - 1) BY <1>5
  <2> QED BY <1>4, <2>1
<1>8. ~ (p =< Total(h)[m - 1]) BY <1>6, <1>7
<1>9. /\ Total(h)[m] = Total(h)[m - 1] + h[m - 1]
      /\ Total(h)[m - 1] \in Nat /\ h[m - 1] \in Nat
  <2>1. m - 1 \in 0 .. MaxBlocks BY <1>1, <1>6
  <2> QED BY <1>2, <1>6, <2>1
<1>10. p - Total(h)[m - 1] \in 1 .. h[m - 1] /\ p = Total(h)[m - 1] + (p - Total(h)[m - 1])
  BY <1>5, <1>8, <1>9
<1> QED BY <1>6, <1>10

\* ss is a sequence of n parts, and h gives their lengths.
Parts(T, n, ss, h) ==
  /\ ss = [k \in 1 .. n |-> ss[k]]
  /\ \A k \in 1 .. n : ss[k] \in Seq(T) /\ Len(ss[k]) = h[k - 1]

\* The bytes of the parts lie one after the other in the whole.
LEMMA Flattened ==
  ASSUME NEW T, NEW n \in 0 .. MaxBlocks, NEW ss, NEW h \in [Slots -> Nat],
         Parts(T, n, ss, h)
  PROVE  /\ FlattenSeq(ss) \in Seq(T)
         /\ Len(FlattenSeq(ss)) = Total(h)[n]
         /\ \A s \in 0 .. n - 1 : \A x \in 1 .. h[s] :
              FlattenSeq(ss)[Total(h)[s] + x] = ss[s + 1][x]
<1>0. /\ ss = [k \in 1 .. n |-> ss[k]]
      /\ \A k \in 1 .. n : ss[k] \in Seq(T) /\ Len(ss[k]) = h[k - 1]
  BY DEF Parts
<1>1. MaxBlocks \in Nat /\ Slots = 0 .. MaxBlocks - 1 /\ h \in [Slots -> Int]
      /\ n \in Nat
  BY DiskAssumption DEF Slots
<1>2. /\ Total(h)[0] = 0
      /\ \A s \in Slots : Total(h)[s + 1] = Total(h)[s] + h[s]
      /\ \A k \in 0 .. MaxBlocks : Total(h)[k] \in Nat
      /\ \A a, b \in 0 .. MaxBlocks : a =< b => Total(h)[a] =< Total(h)[b]
  BY <1>1, TotalOf, TotalGrows
<1>3. ss \in Seq(Seq(T)) /\ Len(ss) = n BY <1>0, <1>1, SMTT(60)
<1>4. CASE n = 0
  <2>1. FlattenSeq(ss) = ss BY <1>3, <1>4 DEF FlattenSeq
  <2>2. ss \in Seq(T) BY <1>0, <1>4
  <2>3. Len(FlattenSeq(ss)) = Total(h)[n]
    BY <1>2, <1>3, <1>4, <2>1
  <2>4. 0 .. n - 1 = {} BY <1>4
  <2> QED BY <2>1, <2>2, <2>3, <2>4
<1>5. CASE n # 0
  <2> DEFINE Step(m, F) == /\ F[1] = ss[1]
                           /\ \A k \in 2 .. m : F[k] = F[k - 1] \o ss[k]
             Built == {m \in Nat : \E F \in [1 .. m -> Seq(T)] : Step(m, F)}
             Whole == CHOOSE F : F = [k \in 1 .. n |->
                        IF k = 1 THEN ss[k] ELSE F[k - 1] \o ss[k]]
  <2>1. FlattenSeq(ss) = Whole[n]
    BY <1>1, <1>3, <1>5 DEF FlattenSeq
  <2>2. 1 \in Built
    <3>1. ss[1] \in Seq(T) BY <1>0, <1>1, <1>5
    <3>2. [k \in 1 .. 1 |-> ss[1]] \in [1 .. 1 -> Seq(T)] BY <3>1
    <3>3. Step(1, [k \in 1 .. 1 |-> ss[1]]) OBVIOUS
    <3> HIDE DEF Step
    <3> QED BY <3>2, <3>3
  <2>3. ASSUME NEW m \in 1 .. n - 1, m \in Built PROVE m + 1 \in Built
    <3>1. PICK F \in [1 .. m -> Seq(T)] : Step(m, F) BY <2>3
    <3> DEFINE G == [k \in 1 .. m + 1 |->
                       IF k = m + 1 THEN F[m] \o ss[k] ELSE F[k]]
    <3>2. F[m] \in Seq(T) /\ ss[m + 1] \in Seq(T) BY <1>0, <1>1
    <3>3. F[m] \o ss[m + 1] \in Seq(T) BY <3>2, ConcatProperties
    <3>4. G \in [1 .. m + 1 -> Seq(T)] BY <3>3
    <3>5. ASSUME NEW k \in 2 .. m + 1 PROVE G[k] = G[k - 1] \o ss[k]
      <4>1. k - 1 \in 1 .. m /\ k \in 1 .. m + 1 /\ k - 1 # m + 1
            /\ k - 1 \in 1 .. m + 1
        OBVIOUS
      <4>2. G[k - 1] = F[k - 1] BY <4>1
      <4>3. CASE k = m + 1
        <5>1. G[k] = F[m] \o ss[k] BY <4>1, <4>3
        <5>3. k - 1 = m BY <4>3
        <5> QED BY <4>2, <5>1, <5>3
      <4>4. CASE k # m + 1
        <5>1. G[k] = F[k] /\ k \in 2 .. m BY <4>1, <4>4
        <5>2. F[k] = F[k - 1] \o ss[k] BY <3>1, <5>1
        <5> QED BY <4>2, <5>1, <5>2
      <4> QED BY <4>3, <4>4
    <3>6. G[1] = ss[1] BY <3>1
    <3>7. Step(m + 1, G) BY <3>5, <3>6
    <3> HIDE DEF G, Step
    <3>8. \E R \in [1 .. m + 1 -> Seq(T)] : Step(m + 1, R)
      BY <3>4, <3>7
    <3> QED BY <3>8
  <2>4. n \in Built
    <3> HIDE DEF Built
    <3>1. 1 \in Nat /\ n \in Int /\ n \in 1 .. n BY <1>1, <1>5
    <3>2. \A k \in 1 .. n : k \in Built BY <2>2, <2>3, <3>1, UpTo
    <3> QED BY <3>1, <3>2
  <2>5. Whole = [k \in 1 .. n |->
                   IF k = 1 THEN ss[k] ELSE Whole[k - 1] \o ss[k]]
    <3>1. PICK F \in [1 .. n -> Seq(T)] : Step(n, F) BY <2>4
    <3>2. ASSUME NEW k \in 1 .. n
          PROVE  F[k] = IF k = 1 THEN ss[k] ELSE F[k - 1] \o ss[k]
      <4>1. k = 1 \/ k \in 2 .. n OBVIOUS
      <4> QED BY <3>1, <4>1
    <3>3. F = [k \in 1 .. n |-> IF k = 1 THEN ss[k] ELSE F[k - 1] \o ss[k]]
      BY <3>2
    <3> QED BY <3>3
  <2> HIDE DEF Whole
  <2> DEFINE Good(m) == /\ Whole[m] \in Seq(T)
                        /\ Len(Whole[m]) = Total(h)[m]
                        /\ \A s \in 0 .. m - 1 : \A x \in 1 .. h[s] :
                             Whole[m][Total(h)[s] + x] = ss[s + 1][x]
             S == {m \in 1 .. n : Good(m)}
  <2>6. 1 \in S
    <3>1. Whole[1] = ss[1] /\ 1 \in 1 .. n BY <1>1, <1>5, <2>5
    <3>2. Total(h)[1] = h[0] /\ h[0] \in Nat
      <4>1. 0 \in Slots /\ 0 + 1 = 1 BY <1>1, <1>5
      <4> QED BY <1>2, <4>1
    <3>3. ss[1] \in Seq(T) /\ Len(ss[1]) = h[0]
      <4>1. 1 \in 1 .. n /\ 1 - 1 = 0 BY <1>1, <1>5
      <4>2. Len(ss[1]) = h[1 - 1] /\ ss[1] \in Seq(T)
        BY <1>0, <4>1
      <4> QED BY <4>1, <4>2
    <3>4. ASSUME NEW s \in 0 .. 1 - 1, NEW x \in 1 .. h[s]
          PROVE  Whole[1][Total(h)[s] + x] = ss[s + 1][x]
      <4>1. s = 0 /\ x \in Int BY <3>2
      <4>2. Total(h)[s] + x = x /\ s + 1 = 1 BY <1>2, <4>1
      <4> QED BY <3>1, <4>2
    <3> QED BY <3>1, <3>2, <3>3, <3>4
  <2>7. ASSUME NEW m \in 1 .. n - 1, m \in S PROVE m + 1 \in S
    <3> DEFINE e == m + 1
    <3>0. e \in 1 .. n /\ e # 1 /\ e - 1 = m /\ m \in Slots
      BY <1>1
    <3> HIDE DEF e
    <3>1. Whole[e] = Whole[m] \o ss[e] BY <2>5, <3>0
    <3>2. /\ ss[e] \in Seq(T) /\ Len(ss[e]) = h[m]
          /\ m \in Slots /\ h[m] \in Nat
      BY <1>0, <3>0
    <3>3. Whole[m] \in Seq(T) /\ Len(Whole[m]) = Total(h)[m]
      BY <2>7
    <3>4. /\ Whole[e] \in Seq(T)
          /\ Len(Whole[e]) = Total(h)[m] + h[m]
          /\ \A p \in 1 .. Total(h)[m] + h[m] :
               Whole[e][p] = IF p =< Total(h)[m] THEN Whole[m][p]
                             ELSE ss[e][p - Total(h)[m]]
      <4> DEFINE u == Whole[m]
                 v == ss[e]
      <4>1. u \in Seq(T) /\ v \in Seq(T) BY <3>2, <3>3
      <4>2. Len(u) = Total(h)[m] /\ Len(v) = h[m] /\ Whole[e] = u \o v
        BY <3>1, <3>2, <3>3
      <4> HIDE DEF u, v
      <4>3. /\ u \o v \in Seq(T)
            /\ Len(u \o v) = Len(u) + Len(v)
            /\ \A p \in 1 .. Len(u) + Len(v) :
                 (u \o v)[p] = IF p =< Len(u) THEN u[p] ELSE v[p - Len(u)]
        BY <4>1, ConcatProperties
      <4> QED BY <4>2, <4>3 DEF u, v
    <3>5. Total(h)[m + 1] = Total(h)[m] + h[m] /\ Total(h)[m] \in Nat
      BY <1>1, <1>2, <3>2
    <3>6. ASSUME NEW s \in 0 .. (m + 1) - 1, NEW x \in 1 .. h[s]
          PROVE  Whole[m + 1][Total(h)[s] + x] = ss[s + 1][x]
      <4>1. s \in Slots /\ s \in 0 .. MaxBlocks /\ s + 1 \in 0 .. MaxBlocks
            /\ m \in 0 .. MaxBlocks
        BY <1>1
      <4>2. /\ h[s] \in Nat /\ Total(h)[s] \in Nat
            /\ Total(h)[s + 1] = Total(h)[s] + h[s]
        BY <1>2, <4>1
      <4>3. CASE s = m
        <5> DEFINE t == Total(h)[m]
                   p == t + x
        <5>1. t \in Nat /\ h[m] \in Nat /\ x \in 1 .. h[m]
          BY <3>5, <4>2, <4>3
        <5>2. ~ (p =< t) /\ p \in 1 .. t + h[m] /\ p - t = x
          BY <5>1
        <5> HIDE DEF p
        <5>3. Whole[e][p] = ss[e][p - t] BY <3>4, <5>2
        <5> QED BY <4>3, <5>2, <5>3 DEF p, e
      <4>4. CASE s # m
        <5>1. s + 1 =< m /\ s \in 0 .. m - 1 BY <4>4
        <5>2. Total(h)[s + 1] =< Total(h)[m] BY <1>2, <4>1, <5>1
        <5> DEFINE p == Total(h)[s] + x
        <5>3. p \in 1 .. Total(h)[m] + h[m] /\ p =< Total(h)[m]
          <6> DEFINE t == Total(h)[s]
                     u == Total(h)[m]
          <6>1. t \in Nat /\ u \in Nat /\ h[m] \in Nat /\ x \in 1 .. h[s]
                /\ h[s] \in Nat /\ t + h[s] =< u
            BY <3>2, <3>5, <4>2, <5>2
          <6> HIDE DEF t, u
          <6>2. t + x \in 1 .. u + h[m] /\ t + x =< u BY <6>1
          <6> QED BY <6>2 DEF t, u
        <5> HIDE DEF p
        <5>4. Whole[e][p] = Whole[m][p] BY <3>4, <5>3
        <5>5. Whole[m][Total(h)[s] + x] = ss[s + 1][x]
          BY <2>7, <5>1
        <5> QED BY <5>4, <5>5 DEF p, e
      <4> QED BY <4>3, <4>4
    <3>7. Good(m + 1) BY <3>4, <3>5, <3>6 DEF e
    <3> HIDE DEF Good
    <3> QED BY <3>0, <3>7 DEF e
  <2>8. n \in S
    <3> HIDE DEF S
    <3>1. 1 \in Nat /\ n \in Int /\ n \in 1 .. n BY <1>1, <1>5
    <3>2. \A k \in 1 .. n : k \in S BY <2>6, <2>7, <3>1, UpTo
    <3> QED BY <3>1, <3>2
  <2> QED BY <2>1, <2>8
<1> QED BY <1>4, <1>5

\* The same without a shift, and between the same slots.
LEMMA TotalSame ==
  ASSUME NEW h \in [Slots -> Int], NEW g \in [Slots -> Int],
         NEW lo \in Nat, NEW hi \in Nat, hi =< MaxBlocks,
         \A s \in lo .. hi - 1 : g[s] = h[s]
  PROVE  \A k \in lo .. hi : Total(g)[k] - Total(g)[lo] = Total(h)[k] - Total(h)[lo]
<1>1. PICK n \in Nat : n = 0 OBVIOUS
<1>2. hi + n =< MaxBlocks BY <1>1, DiskAssumption
<1>3. Follows(g, h, lo, hi, n) BY <1>1 DEF Follows
<1>4. \A k \in lo .. hi :
        Total(g)[k + n] - Total(g)[lo + n] = Total(h)[k] - Total(h)[lo]
  BY <1>2, <1>3, TotalShift
<1> QED BY <1>1, <1>4

\* Slots without bytes add nothing.
LEMMA TotalNone ==
  ASSUME NEW h \in [Slots -> Int], NEW lo \in Nat, NEW hi \in Nat, hi =< MaxBlocks,
         \A s \in lo .. hi - 1 : h[s] = 0
  PROVE  \A k \in lo .. hi : Total(h)[k] = Total(h)[lo]
<1>1. PICK e \in Int : e = 0 OBVIOUS
<1>2. \A s \in lo .. hi - 1 : h[s] = e BY <1>1
<1>3. \A k \in lo .. hi : Total(h)[k] = Total(h)[lo] + (k - lo) * e
  BY <1>2, TotalEven, ZenonT(60)
<1>4. ASSUME NEW k \in lo .. hi PROVE Total(h)[k] = Total(h)[lo]
  <2>1. (k - lo) * e = 0 BY <1>1
  <2>2. lo \in 0 .. MaxBlocks /\ Total(h)[lo] \in Int
    <3>1. lo \in 0 .. MaxBlocks BY <1>4, DiskAssumption
    <3> QED BY <3>1, TotalOf
  <2> QED BY <1>3, <2>1, <2>2
<1> QED BY <1>4

\* nr_jumped_bytes, which is defined by a fold over the slots as a set, is what the
\* slots up to that one add up to.
LEMMA JumpedTotal ==
  ASSUME NEW f, NEW k \in Slots, NEW h \in [Slots -> Int],
         \A s \in Slots : h[s] = SizeAt(f, s)
  PROVE  Jumped(f, k) = Total(h)[k + 1]
<1> DEFINE Masked(t) == [s \in Slots |-> IF s \in t THEN h[s] ELSE 0]
           SumIn(t) == Total(Masked(t))[MaxBlocks]
           One(t) == CHOOSE x \in t : TRUE
           Iter(I) == I = [t \in SUBSET (0 .. k) |->
                             IF t = {} THEN 0 ELSE h[One(t)] + I[t \ {One(t)}]]
           J == CHOOSE I : Iter(I)
<1>1. MaxBlocks \in Nat /\ Slots = 0 .. MaxBlocks - 1 /\ 0 .. k \subseteq Slots
      /\ k + 1 \in 0 .. MaxBlocks /\ k \in Nat
  BY DiskAssumption DEF Slots
<1>2. ASSUME NEW t
      PROVE  /\ Masked(t) \in [Slots -> Int]
             /\ \A s \in Slots : Masked(t)[s] = IF s \in t THEN h[s] ELSE 0
             /\ \A s \in 0 .. MaxBlocks : Total(Masked(t))[s] \in Int
             /\ Total(Masked(t))[0] = 0
             /\ \A s \in Slots : Total(Masked(t))[s + 1] =
                                   Total(Masked(t))[s] + Masked(t)[s]
  <2>1. Masked(t) \in [Slots -> Int] OBVIOUS
  <2> QED BY <2>1, TotalOf
<1> HIDE DEF Masked
<1>3. SumIn({}) = 0
  <2>1. \A s \in 0 .. MaxBlocks - 1 : Masked({})[s] = 0
    BY <1>1, <1>2
  <2> DEFINE g == Masked({})
  <2>2. g \in [Slots -> Int] /\ Total(g)[0] = 0 BY <1>2
  <2>3. \A s \in 0 .. MaxBlocks - 1 : g[s] = 0 BY <2>1
  <2> HIDE DEF g
  <2>4. 0 \in Nat /\ MaxBlocks \in Nat /\ MaxBlocks =< MaxBlocks
        /\ MaxBlocks \in 0 .. MaxBlocks
    BY <1>1
  <2>5. \A q \in 0 .. MaxBlocks : Total(g)[q] = Total(g)[0]
    BY <2>2, <2>3, <2>4, TotalNone
  <2> QED BY <2>2, <2>4, <2>5 DEF g
<1>4. ASSUME NEW t \in SUBSET (0 .. k), NEW x \in t
      PROVE  SumIn(t) = h[x] + SumIn(t \ {x})
  <2> DEFINE g == Masked(t)
             e == Masked(t \ {x})
  <2>1. x \in Slots /\ x \in 0 .. MaxBlocks /\ x + 1 \in 0 .. MaxBlocks /\ x \in Nat
    BY <1>1
  <2>2. g \in [Slots -> Int] /\ e \in [Slots -> Int] BY <1>2
  <2>3. \A s \in Slots : s # x => g[s] = e[s] BY <1>2
  <2>4. g[x] = h[x] /\ e[x] = 0 /\ h[x] \in Int BY <1>2, <2>1
  <2>5. /\ \A s \in 0 .. MaxBlocks : Total(g)[s] \in Int /\ Total(e)[s] \in Int
        /\ Total(g)[0] = 0 /\ Total(e)[0] = 0
        /\ Total(g)[x + 1] = Total(g)[x] + g[x]
        /\ Total(e)[x + 1] = Total(e)[x] + e[x]
    BY <1>2, <2>1
  <2> HIDE DEF g, e
  <2>6. Total(e)[x] - Total(e)[0] = Total(g)[x] - Total(g)[0]
    <3>1. \A s \in 0 .. x - 1 : e[s] = g[s] BY <1>1, <2>1, <2>3
    <3>2. 0 \in Nat /\ x =< MaxBlocks /\ x \in 0 .. x
      BY <1>1, <2>1
    <3>3. \A q \in 0 .. x : Total(e)[q] - Total(e)[0] = Total(g)[q] - Total(g)[0]
      BY <2>1, <2>2, <3>1, <3>2, TotalSame
    <3> QED BY <3>2, <3>3
  <2>7. Total(e)[MaxBlocks] - Total(e)[x + 1] =
          Total(g)[MaxBlocks] - Total(g)[x + 1]
    <3> DEFINE y == x + 1
    <3>1. \A s \in y .. MaxBlocks - 1 : e[s] = g[s]
      BY <1>1, <2>1, <2>3
    <3>2. y \in Nat /\ MaxBlocks \in Nat /\ MaxBlocks =< MaxBlocks
          /\ MaxBlocks \in y .. MaxBlocks
      BY <1>1, <2>1
    <3> HIDE DEF y
    <3>3. \A q \in y .. MaxBlocks : Total(e)[q] - Total(e)[y] = Total(g)[q] - Total(g)[y]
      BY <2>2, <3>1, <3>2, TotalSame
    <3> QED BY <3>2, <3>3 DEF y
  <2>8. Total(g)[MaxBlocks] = h[x] + Total(e)[MaxBlocks]
    <3>1. /\ Total(g)[MaxBlocks] \in Int /\ Total(e)[MaxBlocks] \in Int
          /\ Total(g)[x] \in Int /\ Total(e)[x] \in Int
      BY <1>1, <2>1, <2>5
    <3> QED BY <2>4, <2>5, <2>6, <2>7, <3>1
  <2> QED BY <2>8 DEF g, e
<1>5. SumIn(0 .. k) = Total(h)[k + 1]
  <2> DEFINE g == Masked(0 .. k)
  <2>1. g \in [Slots -> Int] /\ Total(g)[0] = 0
        /\ \A s \in 0 .. MaxBlocks : Total(g)[s] \in Int
    BY <1>2
  <2> DEFINE y == k + 1
  <2>2. y \in Nat /\ y =< MaxBlocks /\ 0 \in Nat /\ MaxBlocks \in Nat
        /\ MaxBlocks =< MaxBlocks /\ 0 \in Int /\ y \in 0 .. y
        /\ MaxBlocks \in y .. MaxBlocks
    BY <1>1
  <2>3. (\A s \in 0 .. y - 1 : g[s] = h[s])
        /\ \A s \in y .. MaxBlocks - 1 : g[s] = 0
    <3>1. \A s \in 0 .. y - 1 : s \in Slots /\ s \in 0 .. k
      BY <1>1
    <3>2. \A s \in y .. MaxBlocks - 1 : s \in Slots /\ s \notin 0 .. k
      BY <1>1
    <3> HIDE DEF y
    <3>3. \A s \in Slots : g[s] = IF s \in 0 .. k THEN h[s] ELSE 0
      BY <1>2
    <3> HIDE DEF g
    <3>4. \A s \in 0 .. y - 1 : g[s] = h[s] BY <3>1, <3>3
    <3>5. \A s \in y .. MaxBlocks - 1 : g[s] = 0 BY <3>2, <3>3
    <3> QED BY <3>4, <3>5
  <2> HIDE DEF g, y
  <2>4. \A q \in 0 .. y : Total(g)[q] - Total(g)[0] = Total(h)[q] - Total(h)[0]
    BY <2>1, <2>2, <2>3, TotalSame
  <2>5. \A q \in y .. MaxBlocks : Total(g)[q] = Total(g)[y]
    BY <2>1, <2>2, <2>3, TotalNone
  <2>6. Total(g)[y] = Total(h)[y]
    <3>1. Total(h)[0] = 0 /\ Total(h)[y] \in Int /\ Total(g)[y] \in Int
      BY <2>1, <2>2, TotalOf
    <3> QED BY <2>1, <2>2, <2>4, <3>1
  <2>7. Total(g)[MaxBlocks] = Total(g)[y] BY <2>2, <2>5
  <2> QED BY <2>6, <2>7 DEF g, y
<1> HIDE DEF SumIn
<1>6. \A t \in SUBSET (0 .. k) : t # {} => One(t) \in t OBVIOUS
<1> HIDE DEF One
<1>7. Iter(J)
  <2> DEFINE Sums == [t \in SUBSET (0 .. k) |-> SumIn(t)]
  <2>1. ASSUME NEW t \in SUBSET (0 .. k)
        PROVE  Sums[t] = IF t = {} THEN 0 ELSE h[One(t)] + Sums[t \ {One(t)}]
    <3>1. t \ {One(t)} \in SUBSET (0 .. k) OBVIOUS
    <3> QED BY <1>3, <1>4, <1>6, <3>1
  <2>2. Sums = [t \in SUBSET (0 .. k) |->
                  IF t = {} THEN 0 ELSE h[One(t)] + Sums[t \ {One(t)}]]
    BY <2>1
  <2> HIDE DEF Sums
  <2>3. Iter(Sums) BY <2>2
  <2> HIDE DEF Iter
  <2> QED BY <2>3
<1> HIDE DEF J
<1>8. J[0 .. k] = SumIn(0 .. k)
  <2> DEFINE wrong == {t \in SUBSET (0 .. k) : J[t] # SumIn(t)}
             sizes == {Cardinality(t) : t \in wrong}
  <2> SUFFICES ASSUME wrong # {} PROVE FALSE OBVIOUS
  <2>1. \A t \in SUBSET (0 .. k) : IsFiniteSet(t) /\ Cardinality(t) \in Nat
    <3>1. IsFiniteSet(0 .. k)
      <4>1. 0 \in Int /\ k \in Int BY <1>1
      <4> QED BY <4>1, FS_Interval
    <3> QED BY <3>1, FS_Subset, FS_CardinalityType
  <2>2. sizes \in SUBSET Nat /\ sizes # {} BY <2>1
  <2>3. PICK t \in wrong : \A e \in wrong : Cardinality(t) =< Cardinality(e)
    <3> HIDE DEF wrong
    <3>1. Min(sizes) \in sizes /\ \A y \in sizes : Min(sizes) =< y
      <4> HIDE DEF sizes
      <4> QED BY <2>2, MinNat
    <3> QED BY <3>1
  <2>4. t \in SUBSET (0 .. k) /\ J[t] # SumIn(t) BY <2>3
  <2>5. J[t] = IF t = {} THEN 0 ELSE h[One(t)] + J[t \ {One(t)}]
    BY <1>7, <2>4
  <2>6. t # {} BY <1>3, <2>4, <2>5
  <2>7. One(t) \in t /\ t \ {One(t)} \in SUBSET (0 .. k)
    BY <1>6, <2>4, <2>6
  <2>8. Cardinality(t \ {One(t)}) = Cardinality(t) - 1
    BY <2>1, <2>4, <2>7, FS_RemoveElement
  <2>9. t \ {One(t)} \notin wrong
    <3>1. ~ (Cardinality(t) =< Cardinality(t \ {One(t)}))
      BY <2>1, <2>4, <2>8
    <3> QED BY <2>3, <3>1
  <2>10. J[t \ {One(t)}] = SumIn(t \ {One(t)}) BY <2>7, <2>9
  <2> QED BY <1>4, <2>4, <2>5, <2>6, <2>7, <2>10
<1>9. Jumped(f, k) = J[0 .. k]
  <2> DEFINE Fold(I) == I = [t \in SUBSET (0 .. k) |->
               IF t = {} THEN 0 ELSE SizeAt(f, One(t)) + I[t \ {One(t)}]]
  <2>1. Jumped(f, k) = (CHOOSE I : Fold(I))[0 .. k]
    BY DEF Jumped, MapThenSumSet, MapThenFoldSet, One
  <2>2. ASSUME NEW I PROVE Fold(I) <=> Iter(I)
    <3>1. ASSUME NEW t \in SUBSET (0 .. k)
          PROVE  (IF t = {} THEN 0 ELSE SizeAt(f, One(t)) + I[t \ {One(t)}]) =
                 (IF t = {} THEN 0 ELSE h[One(t)] + I[t \ {One(t)}])
      BY <1>1, <1>6
    <3>2. [t \in SUBSET (0 .. k) |->
             IF t = {} THEN 0 ELSE SizeAt(f, One(t)) + I[t \ {One(t)}]] =
          [t \in SUBSET (0 .. k) |->
             IF t = {} THEN 0 ELSE h[One(t)] + I[t \ {One(t)}]]
      BY <3>1
    <3> QED BY <3>2
  <2> HIDE DEF Fold, Iter
  <2>3. (CHOOSE I : Fold(I)) = (CHOOSE I : Iter(I)) BY <2>2
  <2> QED BY <2>1, <2>3 DEF J
<1> QED BY <1>5, <1>8, <1>9

\* The sizes in the words of a file.
Sizes(f) == [s \in Slots |-> SizeAt(f, s)]

\* A size fits a block.
LEMMA SizesFit ==
  ASSUME TypeOK, NEW f \in Inodes
  PROVE  /\ Sizes(f) \in [Slots -> Nat] /\ Sizes(f) \in [Slots -> Int]
         /\ \A s \in Slots : Sizes(f)[s] = SizeAt(f, s)
         /\ \A s \in Slots : SizeAt(f, s) \in 0 .. MaxBlockSize
<1>1. ASSUME NEW s \in Slots PROVE SizeAt(f, s) \in 0 .. MaxBlockSize
  <2>1. index[f][s] \in Word BY DEF TypeOK
  <2>2. get_block_size(index[f][s]) \in 0 .. BlockSize - 1
    BY <2>1, FieldRange
  <2> QED BY <2>2 DEF SizeAt, MaxBlockSize
<1>2. 0 .. MaxBlockSize \subseteq Nat OBVIOUS
<1> QED BY <1>1, <1>2 DEF Sizes

\* Where the bytes of a file are.
Located(f) ==
  /\ NrUsed(f) \in 0 .. MaxBlocks
  /\ Sizes(f) \in [Slots -> Nat]
  /\ Content(f) \in Seq(Byte)
  /\ Len(Content(f)) = Total(Sizes(f))[NrUsed(f)]
  /\ \A s \in 0 .. NrUsed(f) - 1 :
       /\ s \in Slots /\ index[f][s] # 0
       /\ \A x \in 1 .. SizeAt(f, s) :
            Content(f)[Total(Sizes(f))[s] + x] = data[NumberAt(f, s)][x - 1]

\* The bytes of a file are those of its blocks, each after those of the slots before.
LEMMA ContentBytes ==
  FileInv({}) /\ Positive => \A f \in Linked : Located(f)
<1> SUFFICES ASSUME FileInv({}), Positive, NEW f \in Linked PROVE Located(f)
  OBVIOUS
<1>1. TypeOK /\ f \in Inodes BY DEF FileInv, Linked
<1>2. NrUsed(f) \in 0 .. MaxBlocks
  <2>1. inode[f].blocks \in 0 .. MaxBlocks + 1 /\ inode[f].blocks >= 1
    BY <1>1 DEF TypeOK, Positive
  <2> QED BY <2>1, DiskAssumption DEF NrUsed
<1>3. MaxBlocks \in Nat /\ MaxBlockSize \in Nat /\ MaxBlockSize = BlockSize - 1
  BY DiskAssumption, WidthAssumption DEF MaxBlockSize
<1>4. ASSUME NEW s \in 0 .. NrUsed(f) - 1
      PROVE  /\ s \in Slots /\ index[f][s] # 0
             /\ data[NumberAt(f, s)] \in Block
             /\ SizeAt(f, s) \in 0 .. MaxBlockSize
  <2>1. s \in Slots /\ s < NrUsed(f) BY <1>2, <1>3 DEF Slots
  <2>2. index[f][s] # 0 BY <2>1 DEF FileInv, Layout
  <2>3. NumberAt(f, s) \in DataBlocks
    BY <2>1, <2>2 DEF FileInv, Separate
  <2>4. data[NumberAt(f, s)] \in Block
    BY <1>1, <2>3, DataBlockNumber DEF TypeOK
  <2> QED BY <1>1, <2>1, <2>2, <2>4, SizesFit
<1> DEFINE u == NrUsed(f)
           part(k) == [x \in 1 .. SizeAt(f, k - 1) |-> data[NumberAt(f, k - 1)][x - 1]]
           ss == [k \in 1 .. u |-> part(k)]
           h == Sizes(f)
<1>5. ASSUME NEW k \in 1 .. u
      PROVE  part(k) \in Seq(Byte) /\ Len(part(k)) = h[k - 1]
  <2>1. k - 1 \in 0 .. u - 1 BY <1>2
  <2>2. /\ k - 1 \in Slots /\ data[NumberAt(f, k - 1)] \in Block
        /\ SizeAt(f, k - 1) \in 0 .. MaxBlockSize /\ SizeAt(f, k - 1) \in Nat
    BY <1>3, <1>4, <2>1
  <2>3. ASSUME NEW x \in 1 .. SizeAt(f, k - 1)
        PROVE  data[NumberAt(f, k - 1)][x - 1] \in Byte
    <3>1. x - 1 \in 0 .. BlockSize - 1 BY <1>3, <2>2
    <3> QED BY <2>2, <3>1 DEF Block
  <2>4. part(k) \in Seq(Byte) /\ Len(part(k)) = SizeAt(f, k - 1)
    <3> DEFINE z == SizeAt(f, k - 1)
               e(x) == data[NumberAt(f, k - 1)][x - 1]
    <3>1. z \in Nat /\ \A x \in 1 .. z : e(x) \in Byte
      BY <2>2, <2>3
    <3> HIDE DEF z, e
    <3>2. [x \in 1 .. z |-> e(x)] \in Seq(Byte) /\ Len([x \in 1 .. z |-> e(x)]) = z
      BY <3>1
    <3> QED BY <3>2 DEF z, e
  <2> QED BY <2>2, <2>4 DEF Sizes
<1>6. Content(f) = FlattenSeq(ss) BY DEF Content
<1> HIDE DEF part
<1>7. \A k \in 1 .. u : ss[k] = part(k) OBVIOUS
<1>8. ss = [k \in 1 .. u |-> ss[k]] OBVIOUS
<1>9. h \in [Slots -> Nat] BY <1>1, SizesFit
<1> HIDE DEF ss, h, u
<1>10. u \in 0 .. MaxBlocks BY <1>2 DEF u
<1>11. /\ FlattenSeq(ss) \in Seq(Byte)
       /\ Len(FlattenSeq(ss)) = Total(h)[u]
       /\ \A s \in 0 .. u - 1 : \A x \in 1 .. h[s] :
            FlattenSeq(ss)[Total(h)[s] + x] = ss[s + 1][x]
  <2>1. Parts(Byte, u, ss, h) BY <1>5, <1>7, <1>8 DEF Parts
  <2>2. PICK n, g, parts : n = u /\ g = h /\ parts = ss OBVIOUS
  <2>3. n \in 0 .. MaxBlocks /\ g \in [Slots -> Nat] /\ Parts(Byte, n, parts, g)
    BY <1>9, <1>10, <2>1, <2>2
  <2>4. /\ FlattenSeq(parts) \in Seq(Byte)
        /\ Len(FlattenSeq(parts)) = Total(g)[n]
        /\ \A s \in 0 .. n - 1 : \A x \in 1 .. g[s] :
             FlattenSeq(parts)[Total(g)[s] + x] = parts[s + 1][x]
    BY <2>3, Flattened
  <2> QED BY <2>2, <2>4
<1>12. ASSUME NEW s \in 0 .. u - 1, NEW x \in 1 .. SizeAt(f, s)
       PROVE  Content(f)[Total(h)[s] + x] = data[NumberAt(f, s)][x - 1]
  <2>1. s \in Slots BY <1>4 DEF u
  <2>2. h[s] = SizeAt(f, s) BY <2>1 DEF h, Sizes
  <2>3. s + 1 \in 1 .. u /\ s + 1 - 1 = s BY <1>10
  <2>4. ss[s + 1][x] = part(s + 1)[x] BY <1>7, <2>3
  <2>5. part(s + 1)[x] = data[NumberAt(f, s)][x - 1]
    BY <2>3 DEF part
  <2> QED BY <1>6, <1>11, <2>2, <2>4, <2>5
<1> QED BY <1>2, <1>4, <1>6, <1>9, <1>11, <1>12 DEF Located, u, h

\* The same after a step.
LEMMA ContentBytesNext ==
  ASSUME FileInv({})', Positive' PROVE \A f \in Linked' : Located(f)'
<1>1. (FileInv({}) /\ Positive => \A f \in Linked : Located(f))'
  BY ContentBytes, PTL
<1> QED BY <1>1

-----------------------------------------------------------------------------
(* Insertion. A write of a supported kind is an insertion of its bytes into *)
(* those of the file: first the sizes and their sums, then the bytes of     *)
(* every slot.                                                              *)

\* n slots from b on have A bytes, and all but the last one have e bytes.
Evenly(g, b, n, A, e) ==
  /\ \A s \in b .. b + n - 2 : g[s] = e
  /\ g[b + n - 1] = A - (n - 1) * e

\* The totals over slots that are full but the last one.
LEMMA FullHead ==
  ASSUME NEW g \in [Slots -> Int], NEW b \in Nat, NEW n \in Nat \ {0},
         b + n =< MaxBlocks, NEW A \in Int, NEW e \in Int, Evenly(g, b, n, A, e)
  PROVE  /\ \A k \in 0 .. n - 1 : Total(g)[b + k] = Total(g)[b] + k * e
         /\ Total(g)[b + n] = Total(g)[b] + A
<1>1. MaxBlocks \in Nat /\ Slots = 0 .. MaxBlocks - 1
  BY DiskAssumption DEF Slots
<1> DEFINE hi == b + n - 1
<1>2. hi \in Nat /\ hi =< MaxBlocks /\ hi \in Slots /\ hi + 1 = b + n
      /\ hi \in b .. hi /\ hi - b = n - 1
  BY <1>1
<1>3. \A s \in b .. hi - 1 : g[s] = e
  <2>1. hi - 1 = b + n - 2 OBVIOUS
  <2> QED BY <2>1 DEF Evenly
<1>4. g[hi] = A - (n - 1) * e BY DEF Evenly
<1>5. \A k \in 0 .. n - 1 : b + k \in b .. hi /\ b + k - b = k
  OBVIOUS
<1> HIDE DEF hi
<1>6. \A k \in b .. hi : Total(g)[k] = Total(g)[b] + (k - b) * e
  BY <1>2, <1>3, TotalEven
<1>7. ASSUME NEW k \in 0 .. n - 1 PROVE Total(g)[b + k] = Total(g)[b] + k * e
  <2> DEFINE p == b + k
  <2>1. p \in b .. hi /\ p - b = k BY <1>5
  <2> HIDE DEF p
  <2>2. Total(g)[p] = Total(g)[b] + (p - b) * e BY <1>6, <2>1
  <2> QED BY <2>1, <2>2 DEF p
<1>8. Total(g)[b + n] = Total(g)[b] + A
  <2> DEFINE q == (n - 1) * e
             z == n - 1
  <2>1. Total(g)[hi] = Total(g)[b] + q BY <1>2, <1>6
  <2>2. q \in Int
    <3>1. z \in Int OBVIOUS
    <3> HIDE DEF z
    <3>2. z * e \in Int BY <3>1
    <3> QED BY <3>2 DEF z
  <2>3. Total(g)[hi + 1] = Total(g)[hi] + g[hi] /\ Total(g)[b] \in Int
    <3>1. b \in 0 .. MaxBlocks BY <1>1
    <3> QED BY <1>2, <3>1, TotalOf
  <2>4. g[hi] = A - q BY <1>4
  <2> HIDE DEF q
  <2> QED BY <1>2, <2>1, <2>2, <2>3, <2>4
<1> QED BY <1>7, <1>8

\* n slots of which all but the first one are empty.
LEMMA EmptyHead ==
  ASSUME NEW g \in [Slots -> Int], NEW b \in Nat, NEW n \in Nat \ {0},
         b + n =< MaxBlocks,
         \A s \in b + 1 .. b + n - 1 : g[s] = 0
  PROVE  Total(g)[b + n] = Total(g)[b] + g[b]
<1>1. MaxBlocks \in Nat /\ Slots = 0 .. MaxBlocks - 1
  BY DiskAssumption DEF Slots
<1> DEFINE lo == b + 1
           hi == b + n
<1>2. lo \in Nat /\ hi \in Nat /\ hi =< MaxBlocks /\ hi \in lo .. hi
      /\ \A s \in lo .. hi - 1 : g[s] = 0
  OBVIOUS
<1>3. b \in Slots BY <1>1
<1>4. Total(g)[lo] = Total(g)[b] + g[b] BY <1>3, TotalOf
<1> HIDE DEF lo, hi
<1>5. Total(g)[hi] = Total(g)[lo] BY <1>2, TotalNone
<1> QED BY <1>4, <1>5 DEF hi

\* The slots of h up to b stay, those after b follow n places further on, and slot
\* b + n has what is left of slot b.
Splices(g, h, b, n, u) ==
  /\ \A s \in 0 .. b - 1 : g[s] = h[s]
  /\ Follows(g, h, b + 1, u, n)

\* What comes before the slots after b is n slots, and a difference, further on.
Later(g, h, b, n, u) ==
  \A k \in b + 1 .. u :
    Total(g)[k + n] = Total(h)[k] + Total(g)[b + n] + g[b + n] - Total(h)[b] - h[b]

\* The totals when slot b of h gives way to slots b to b + n of g.
LEMMA TotalSplice ==
  ASSUME NEW h \in [Slots -> Int], NEW g \in [Slots -> Int],
         NEW u \in Nat, NEW b \in Nat, b < u, NEW n \in Nat \ {0}, u + n =< MaxBlocks,
         Splices(g, h, b, n, u)
  PROVE  /\ \A k \in 0 .. b : Total(g)[k] = Total(h)[k]
         /\ Later(g, h, b, n, u)
<1>1. MaxBlocks \in Nat /\ Slots = 0 .. MaxBlocks - 1
  BY DiskAssumption DEF Slots
<1>2. /\ b \in Nat /\ b =< MaxBlocks /\ b \in Slots /\ b + n \in Slots
      /\ b + 1 \in Nat /\ 0 \in Nat /\ n \in Nat /\ 0 \in 0 .. MaxBlocks
  BY <1>1
<1>3. \A k \in 0 .. b : Total(g)[k] = Total(h)[k]
  <2>1. \A s \in 0 .. b - 1 : g[s] = h[s] BY DEF Splices
  <2>2. \A k \in 0 .. b : Total(g)[k] - Total(g)[0] = Total(h)[k] - Total(h)[0]
    BY <1>2, <2>1, TotalSame
  <2>3. /\ Total(g)[0] = 0 /\ Total(h)[0] = 0
        /\ \A k \in 0 .. b : Total(g)[k] \in Int /\ Total(h)[k] \in Int
    <3>1. \A k \in 0 .. b : k \in 0 .. MaxBlocks BY <1>1, <1>2
    <3> QED BY <3>1, TotalOf
  <2> QED BY <2>2, <2>3
<1>4. /\ Total(g)[b + n + 1] = Total(g)[b + n] + g[b + n]
      /\ Total(h)[b + 1] = Total(h)[b] + h[b]
  BY <1>2, TotalOf
<1>5. ASSUME NEW k \in b + 1 .. u
      PROVE  Total(g)[k + n] = Total(h)[k] + Total(g)[b + n] + g[b + n]
                                 - Total(h)[b] - h[b]
  <2> DEFINE lo == b + 1
  <2>1. Follows(g, h, lo, u, n) BY DEF Splices
  <2>2. lo \in Nat /\ lo + n = b + n + 1 /\ lo \in 0 .. MaxBlocks /\ lo + n \in 0 .. MaxBlocks
        /\ k \in 0 .. MaxBlocks /\ k + n \in 0 .. MaxBlocks
        /\ b \in 0 .. MaxBlocks /\ b + n \in 0 .. MaxBlocks
    BY <1>1, <1>2
  <2> HIDE DEF lo
  <2>3. Total(g)[k + n] - Total(g)[lo + n] = Total(h)[k] - Total(h)[lo]
    <3>1. k \in lo .. u BY DEF lo
    <3> QED BY <1>2, <2>1, <2>2, <3>1, TotalShift
  <2> DEFINE p == k + n
             q == lo + n
             r == b + n
  <2>4. /\ Total(g)[p] \in Int /\ Total(g)[q] \in Int /\ Total(h)[k] \in Int
        /\ Total(h)[lo] \in Int /\ Total(g)[r] \in Int /\ Total(h)[b] \in Int
        /\ g[r] \in Int /\ h[b] \in Int
    <3>1. p \in 0 .. MaxBlocks /\ q \in 0 .. MaxBlocks /\ r \in 0 .. MaxBlocks
          /\ r \in Slots
      BY <1>2, <2>2
    <3> HIDE DEF p, q, r
    <3> QED BY <1>2, <2>2, <3>1, TotalOf
  <2>5. Total(g)[q] = Total(g)[r] + g[r] /\ Total(h)[lo] = Total(h)[b] + h[b]
    BY <1>4, <2>2 DEF lo
  <2>6. Total(g)[p] - Total(g)[q] = Total(h)[k] - Total(h)[lo]
    BY <2>3
  <2> HIDE DEF p, q, r
  <2>7. Total(g)[p] = Total(h)[k] + Total(g)[r] + g[r] - Total(h)[b] - h[b]
    BY <2>4, <2>5, <2>6
  <2> QED BY <2>7 DEF p, r
<1> QED BY <1>3, <1>5 DEF Later

\* Where a supported write begins: in a file without bytes at its first slot, else in
\* the block where the offset lies, or in the last one when it lies after the end.
LEMMA WhereJump ==
  ASSUME FileInv({}), Sized, NEW f \in Inodes, NEW off \in Offsets, NEW d \in Payloads,
         NEW w \in Plans(f, off, Len(d)), Supported(f, off, Len(d), w)
  PROVE  /\ f \in Linked /\ off \in Nat
         /\ NotNew(f) =>
              /\ NrUsed(f) \in 1 .. MaxBlocks /\ w.bj \in 0 .. NrUsed(f) - 1
              /\ w.byj = off - Total(Sizes(f))[w.bj]
              /\ off =< Total(Sizes(f))[NrUsed(f)] => w.byj =< SizeAt(f, w.bj)
              /\ off > Total(Sizes(f))[NrUsed(f)] => w.bj = NrUsed(f) - 1
         /\ ~ NotNew(f) =>
              /\ NrUsed(f) = 0 /\ w.bj = 0 /\ w.byj = 0
              /\ off = 0 /\ inode[f].size = 0
<1> DEFINE u == NrUsed(f)
           h == Sizes(f)
<1>1. TypeOK /\ f \in Linked /\ off \in Nat
  BY Planned, InputAssumption DEF FileInv, Live, Linked
<1>2. inode[f].blocks \in 0 .. MaxBlocks + 1 /\ inode[f].size \in Nat
      /\ inode[f].blocks >= 1 /\ (inode[f].size > 0 => inode[f].blocks >= 2)
      /\ (inode[f].size = 0 => inode[f].blocks =< 1)
  BY <1>1 DEF TypeOK, Sized, Positive, FileInv, Layout
<1>3. MaxBlocks \in Nat /\ Slots = 0 .. MaxBlocks - 1
  BY DiskAssumption DEF Slots
<1>4. u \in 0 .. MaxBlocks /\ (NotNew(f) => u >= 1) /\ (~ NotNew(f) => u = 0 /\ inode[f].size = 0)
  BY <1>2, <1>3 DEF NotNew, NrUsed
<1>5. w.bj = BlockJump(f, off) /\ w.byj = ByteJump(f, off, w.bj)
  BY DEF Plans
<1>6. ~ NotNew(f) => u = 0 /\ w.bj = 0 /\ w.byj = 0 /\ off = 0 /\ inode[f].size = 0
  BY <1>4, <1>5 DEF BlockJump, ByteJump, Supported
<1>7. h \in [Slots -> Nat] /\ h \in [Slots -> Int] /\ \A s \in Slots : h[s] = SizeAt(f, s)
  BY <1>1, SizesFit
<1>8. /\ \A k \in 0 .. MaxBlocks : Total(h)[k] \in Nat
      /\ \A a, b \in 0 .. MaxBlocks : a =< b => Total(h)[a] =< Total(h)[b]
      /\ \A s \in Slots : Total(h)[s + 1] = Total(h)[s] + h[s]
  BY <1>7, TotalOf, TotalGrows
<1> HIDE DEF h, u
<1>9. ASSUME NEW k \in 0 .. u - 1
      PROVE  Jumped(f, k) = Total(h)[k + 1] /\ Total(h)[k + 1] \in Nat
  <2>1. k \in Slots /\ k + 1 \in 0 .. MaxBlocks BY <1>3, <1>4
  <2> QED BY <1>7, <1>8, <2>1, JumpedTotal
<1>10. ASSUME NotNew(f)
       PROVE  /\ u \in 1 .. MaxBlocks /\ w.bj \in 0 .. u - 1
              /\ w.byj = off - Total(h)[w.bj]
              /\ off =< Total(h)[u] => w.byj =< SizeAt(f, w.bj)
              /\ off > Total(h)[u] => w.bj = u - 1
  <2>1. u \in 1 .. MaxBlocks BY <1>4, <1>10
  <2> DEFINE reach == {k \in 0 .. u - 1 : Jumped(f, k) >= off}
             S == reach \cup {u - 1}
  <2>2. w.bj = Min(S) BY <1>5, <2>1 DEF BlockJump, u
  <2>3. S \in SUBSET Nat /\ S # {} /\ S \subseteq 0 .. u - 1
    BY <2>1
  <2>4. w.bj \in S /\ w.bj \in 0 .. u - 1
    <3> HIDE DEF S
    <3> QED BY <2>2, <2>3, MinNat
  <2>5. w.bj \in Slots /\ w.bj \in 0 .. MaxBlocks /\ Total(h)[w.bj] \in Nat
        /\ Total(h)[w.bj + 1] = Total(h)[w.bj] + h[w.bj]
        /\ h[w.bj] = SizeAt(f, w.bj) /\ h[w.bj] \in Nat
        /\ Jumped(f, w.bj) = Total(h)[w.bj + 1]
    <3>1. w.bj \in Slots /\ w.bj \in 0 .. MaxBlocks
      BY <1>3, <2>1, <2>4
    <3> QED BY <1>7, <1>8, <1>9, <2>4, <3>1
  <2>6. w.byj = SizeAt(f, w.bj) - (Jumped(f, w.bj) - off)
    BY <1>5, <2>1 DEF ByteJump, u
  <2>7. w.byj = off - Total(h)[w.bj] BY <1>1, <2>5, <2>6
  <2>8. (u - 1) + 1 = u /\ u - 1 \in 0 .. u - 1 /\ Total(h)[u] \in Nat
    BY <1>8, <2>1
  <2>9. ASSUME off =< Total(h)[u] PROVE w.byj =< SizeAt(f, w.bj)
    <3>1. Jumped(f, u - 1) >= off BY <1>1, <1>9, <2>8, <2>9
    <3>2. w.bj \in reach BY <2>4, <2>8, <3>1
    <3>3. Total(h)[w.bj + 1] >= off BY <2>5, <3>2
    <3> QED BY <1>1, <2>5, <2>7, <3>3
  <2>10. ASSUME off > Total(h)[u] PROVE w.bj = u - 1
    <3>1. ASSUME NEW k \in 0 .. u - 1 PROVE ~ (Jumped(f, k) >= off)
      <4>1. k + 1 \in 0 .. MaxBlocks /\ u \in 0 .. MaxBlocks /\ k + 1 =< u
        BY <1>3, <2>1
      <4>2. Total(h)[k + 1] =< Total(h)[u] BY <1>8, <4>1
      <4> QED BY <1>1, <1>9, <2>8, <2>10, <4>2
    <3> QED BY <2>4, <3>1
  <2> QED BY <2>1, <2>4, <2>7, <2>9, <2>10
<1> QED BY <1>1, <1>6, <1>10 DEF u, h

\* The bytes in the last block of a write are more than none and fit in it.
LEMMA NeededTight ==
  ASSUME NEW byj \in Nat, NEW len \in Nat \ {0}, NEW n \in Nat \ {0}, n = Needed(byj, len)
  PROVE  byj + len - (n - 1) * MaxBlockSize \in 1 .. MaxBlockSize
<1> DEFINE m == MaxBlockSize
           b == byj + len + m - 1
<1>1. m \in Nat \ {0} /\ b \in Int
  BY WidthAssumption DEF MaxBlockSize
<1>2. n = b \div m BY DEF Needed
<1> HIDE DEF m, b
<1>3. b = m * n + (b % m) /\ b % m \in 0 .. m - 1
  BY <1>1, <1>2, DivMod
<1>4. (n - 1) * m = m * n - m /\ m * n \in Int BY <1>1
<1>5. b = byj + len + m - 1 BY DEF b, m
<1>6. byj + len - (n - 1) * m \in 1 .. m BY <1>1, <1>3, <1>4, <1>5
<1> QED BY <1>6 DEF m

\* A size that fits a block is kept as it is.
LEMMA SizeKept ==
  ASSUME NEW e \in Word, NEW s \in 0 .. MaxBlockSize
  PROVE  /\ set_block_size(e, s) \in Word
         /\ get_block_size(set_block_size(e, s)) = s
<1>1. s \in Nat /\ s \in 0 .. BlockSize - 1 /\ BlockSize \in Nat \ {0}
  BY WidthAssumption DEF MaxBlockSize
<1>2. s % BlockSize = s
  <2>1. (s + 0 * BlockSize) % BlockSize = s BY <1>1, Unpack
  <2>2. s + 0 * BlockSize = s BY <1>1
  <2> QED BY <2>1, <2>2
<1>3. s \in Int BY <1>1
<1>4. /\ set_block_size(e, s) \in Word
      /\ get_block_size(set_block_size(e, s)) = s % BlockSize
  BY <1>3, SetSize
<1> QED BY <1>2, <1>4

\* New blocks are empty, and the others keep their sizes.
LEMMA AllocatedSize ==
  ASSUME FileInv({}), NEW f \in Inodes, NEW off \in Offsets, NEW d \in Payloads,
         NEW w \in Plans(f, off, Len(d)), NEW al \in FirstFree(w.n), NEW s \in Slots
  PROVE  /\ From(f, w, s) \in Slots /\ Allocated(f, w, w.n, al)[s] \in Word
         /\ get_block_size(Allocated(f, w, w.n, al)[s]) =
              IF Fresh(f, w, s) THEN 0 ELSE SizeAt(f, From(f, w, s))
<1>1. PICK X : X = {} OBVIOUS
<1>2. FileInv(X) /\ f \notin X BY <1>1
<1>3. /\ From(f, w, s) \in Slots /\ Allocated(f, w, w.n, al)[s] \in Word
      /\ ~ Fresh(f, w, s) =>
           Allocated(f, w, w.n, al)[s] = index[f][From(f, w, s)]
  BY <1>2, AllocatedWord
<1>4. CASE ~ Fresh(f, w, s) BY <1>3, <1>4 DEF SizeAt
<1>5. CASE Fresh(f, w, s)
  <2> DEFINE e == set_block_number(Shifted(f, w)[s], al[s - First(f, w)])
  <2>1. Allocated(f, w, w.n, al)[s] = set_block_size(e, 0)
    BY <1>5 DEF Fresh, Allocated
  <2>2. e \in Word
    <3>1. w.bj \in Slots /\ w.n \in 1 .. MaxBlocks /\ TypeOK
      BY Planned DEF FileInv
    <3>2. Shifted(f, w)[s] = index[f][From(f, w, s)]
      BY DEF Shifted, From
    <3>3. Shifted(f, w)[s] \in Word BY <1>3, <3>1, <3>2 DEF TypeOK
    <3>4. s - First(f, w) \in 0 .. w.n - 1
      <4>1. First(f, w) \in Int /\ s \in Int
        BY <3>1 DEF First, Slots
      <4> QED BY <1>5, <3>1, <4>1 DEF Fresh
    <3>5. al[s - First(f, w)] \in DataBlocks
      BY <3>1, <3>4, FreshBlocks
    <3> QED BY <3>3, <3>5, SetNumber, DataBlockNumber
  <2> HIDE DEF e
  <2>3. 0 \in 0 .. MaxBlockSize
    BY WidthAssumption DEF MaxBlockSize
  <2> QED BY <1>3, <1>5, <2>1, <2>2, <2>3, SizeKept
<1> QED BY <1>3, <1>4, <1>5

\* The greater of two integers.
LEMMA MaxOf ==
  ASSUME NEW a \in Int, NEW b \in Int
  PROVE  Max({a, b}) = IF a >= b THEN a ELSE b
<1>1. PICK m \in {a, b} : m = IF a >= b THEN a ELSE b OBVIOUS
<1>2. m \in {a, b} /\ \A y \in {a, b} : m >= y BY <1>1
<1>3. \A x \in {a, b} : (\A y \in {a, b} : x >= y) => x = m
  BY <1>2
<1> QED BY <1>1, <1>2, <1>3 DEF Max

\* The sizes after the split.
LEMMA SplitSize ==
  ASSUME FileInv({}), NEW f \in Inodes, NEW off \in Offsets, NEW d \in Payloads,
         NEW w \in Plans(f, off, Len(d)), w.byj =< MaxBlockSize,
         NEW al \in FirstFree(w.n), NEW s \in Slots
  PROVE  /\ SplitIndex(f, w, al)[s] \in Word
         /\ NotNew(f) /\ s = w.bj => get_block_size(SplitIndex(f, w, al)[s]) = w.byj
         /\ NotNew(f) /\ s = w.bj + w.n =>
              get_block_size(SplitIndex(f, w, al)[s]) =
                IF SizeAt(f, w.bj) >= w.byj THEN SizeAt(f, w.bj) - w.byj ELSE 0
         /\ ~ NotNew(f) \/ (s # w.bj /\ s # w.bj + w.n) =>
              get_block_size(SplitIndex(f, w, al)[s]) =
                IF Fresh(f, w, s) THEN 0 ELSE SizeAt(f, From(f, w, s))
<1> DEFINE a == Allocated(f, w, w.n, al)
           sp == SplitIndex(f, w, al)
           rest == Max({0, get_block_size(a[w.bj]) - w.byj})
<1>1. /\ w.bj \in Slots /\ w.byj \in Nat /\ w.n \in 1 .. MaxBlocks /\ TypeOK
      /\ NrUsed(f) \in -1 .. MaxBlocks
  BY Planned DEF FileInv
<1>2. /\ a[s] \in Word /\ a[w.bj] \in Word /\ DOMAIN a = Slots
      /\ get_block_size(a[s]) = IF Fresh(f, w, s) THEN 0 ELSE SizeAt(f, From(f, w, s))
  BY <1>1, AllocatedSize DEF Allocated
<1>3. SizeAt(f, w.bj) \in 0 .. MaxBlockSize /\ MaxBlockSize \in Nat
  BY <1>1, SizesFit, WidthAssumption DEF MaxBlockSize
<1>4. CASE ~ NotNew(f)
  <2>1. sp = a BY <1>4 DEF SplitIndex
  <2> QED BY <1>2, <1>4, <2>1
<1>5. CASE NotNew(f)
  <2>1. sp = [a EXCEPT ![w.bj] = set_block_size(@, w.byj),
                       ![w.bj + w.n] = set_block_size(@, rest)]
    BY <1>5 DEF SplitIndex
  <2>2. ~ Fresh(f, w, w.bj) /\ From(f, w, w.bj) = w.bj
    BY <1>1, <1>5 DEF Fresh, First, From, Slots
  <2>3. get_block_size(a[w.bj]) = SizeAt(f, w.bj)
    BY <1>1, <2>2, AllocatedSize
  <2>4. rest = IF SizeAt(f, w.bj) >= w.byj THEN SizeAt(f, w.bj) - w.byj ELSE 0
    <3> DEFINE e == SizeAt(f, w.bj)
               q == e - w.byj
    <3>1. e \in Int /\ w.byj \in Int BY <1>1, <1>3
    <3> HIDE DEF e
    <3>2. q \in Int /\ (0 >= q <=> e =< w.byj) BY <3>1
    <3>3. Max({0, q}) = IF 0 >= q THEN 0 ELSE q BY <3>2, MaxOf
    <3>4. Max({0, q}) = IF e >= w.byj THEN e - w.byj ELSE 0
      BY <3>1, <3>3
    <3> QED BY <2>3, <3>4 DEF e
  <2>5. rest \in 0 .. MaxBlockSize /\ w.byj \in 0 .. MaxBlockSize
    BY <1>1, <1>3, <2>4
  <2>6. w.bj + w.n # w.bj BY <1>1 DEF Slots
  <2> HIDE DEF a, sp, rest
  <2>7. CASE s = w.bj
    <3>1. sp[s] = set_block_size(a[s], w.byj)
      BY <1>2, <2>1, <2>6, <2>7
    <3>2. sp[s] \in Word /\ get_block_size(sp[s]) = w.byj
      BY <1>2, <2>5, <3>1, SizeKept
    <3> QED BY <1>5, <2>6, <2>7, <3>2 DEF sp
  <2>8. CASE s = w.bj + w.n
    <3>1. sp[s] = set_block_size(a[s], rest)
      BY <1>2, <2>1, <2>6, <2>8
    <3>2. sp[s] \in Word /\ get_block_size(sp[s]) = rest
      BY <1>2, <2>5, <3>1, SizeKept
    <3> QED BY <1>5, <2>4, <2>6, <2>8, <3>2 DEF sp
  <2>9. CASE s # w.bj /\ s # w.bj + w.n
    <3>1. sp[s] = a[s] BY <1>2, <2>1, <2>9
    <3> QED BY <1>2, <1>5, <2>9, <3>1 DEF sp
  <2> QED BY <2>7, <2>8, <2>9
<1> QED BY <1>4, <1>5

\* A slot before block_jump and a slot that the shift fills keep their words.
LEMMA Unshifted ==
  ASSUME NEW f, NEW w, w.bj \in Slots, w.n \in 1 .. MaxBlocks,
         NrUsed(f) \in 0 .. MaxBlocks, NotNew(f), NEW s \in Slots
  PROVE  /\ s =< w.bj => ~ Fresh(f, w, s) /\ From(f, w, s) = s
         /\ w.bj < s /\ s =< w.bj + w.n => Fresh(f, w, s)
         /\ w.bj < s /\ s < NrUsed(f) =>
              ~ Fresh(f, w, s + w.n) /\ From(f, w, s + w.n) = s
BY DiskAssumption DEF Fresh, First, From, Slots

\* The word in slot s has a size.
HasSize(new, s, z) == get_block_size(new[s]) = z

\* The sizes that a write of L bytes leaves: all but the last of the n first blocks
\* are full, and what followed the offset comes after them.
NewSizes(f, new, b, n, u, byj, L) ==
  /\ \A s \in b .. b + n - 2 : HasSize(new, s, MaxBlockSize)
  /\ HasSize(new, b + n - 1, byj + L - (n - 1) * MaxBlockSize)
  /\ NotNew(f) =>
       /\ \A s \in 0 .. b - 1 : HasSize(new, s, SizeAt(f, s))
       /\ HasSize(new, b + n, IF SizeAt(f, b) >= byj THEN SizeAt(f, b) - byj ELSE 0)
       /\ \A s \in b + 1 .. u - 1 : HasSize(new, s + n, SizeAt(f, s))

\* The sizes when the last copy is done.
LEMMA WrittenSizes ==
  ASSUME FileInv({}), NEW f \in Inodes, NEW off \in Offsets, NEW d \in Payloads,
         NEW w \in Plans(f, off, Len(d)), Supported(f, off, Len(d), w),
         NEW al \in FirstFree(w.n), First(f, w) + w.n =< MaxBlocks,
         ~ NotNew(f) => w.byj = 0, NotNew(f) => NrUsed(f) \in 1 .. MaxBlocks,
         NEW new, new = CopyIndex(f, w, al, Len(d), w.n)
  PROVE  NewSizes(f, new, w.bj, w.n, NrUsed(f), w.byj, Len(d))
<1> DEFINE sp == SplitIndex(f, w, al)
           M == MaxBlockSize
           z == w.byj + Len(d) - (w.n - 1) * M
<1>1. /\ w.bj \in Slots /\ w.byj \in Nat /\ w.n \in 1 .. MaxBlocks /\ TypeOK
      /\ NrUsed(f) \in -1 .. MaxBlocks /\ NrUsed(f) + w.n =< MaxBlocks
      /\ Len(d) \in Nat \ {0}
  BY Planned DEF FileInv
<1>2. w.n = Needed(w.byj, Len(d)) /\ (NrUsed(f) = 1 => w.n = 1) /\ w.byj =< M
  BY DEF Supported
<1>3. Copies(f, w) = w.n BY <1>2 DEF Copies
<1>4. z \in 1 .. M /\ M \in Nat \ {0}
  <2>1. w.n \in Nat \ {0} BY <1>1
  <2>2. z \in 1 .. MaxBlockSize BY <1>1, <1>2, <2>1, NeededTight
  <2>3. M \in Nat \ {0} BY WidthAssumption DEF MaxBlockSize
  <2> QED BY <2>2, <2>3
<1>5. MaxBlocks \in Nat /\ Slots = 0 .. MaxBlocks - 1
  BY DiskAssumption DEF Slots
<1>6. w.bj + w.n =< MaxBlocks /\ (NotNew(f) => w.bj + w.n < MaxBlocks)
  BY <1>1, <1>5 DEF First
<1>7. ASSUME NEW s \in Slots, ~ (w.bj =< s /\ s < w.bj + w.n) PROVE new[s] = sp[s]
  BY <1>7 DEF CopyIndex
<1>8. ASSUME NEW s \in w.bj .. w.bj + w.n - 2 PROVE HasSize(new, s, M)
  <2>1. s \in Slots /\ w.bj =< s /\ s < w.bj + w.n /\ s - w.bj # w.n - 1
    BY <1>1, <1>5, <1>6, SMTT(60)
  <2>2. new[s] = set_block_size(sp[s], M)
    BY <1>3, <2>1 DEF CopyIndex
  <2>3. sp[s] \in Word BY <1>2, <2>1, SplitSize
  <2>4. M \in 0 .. MaxBlockSize BY <1>4
  <2> QED BY <2>2, <2>3, <2>4, SizeKept DEF HasSize
<1> DEFINE last == w.bj + w.n - 1
<1>9. HasSize(new, last, z)
  <2> DEFINE k == w.n - 1
             p == k * M
  <2>1. last \in Slots /\ w.bj =< last /\ last < w.bj + w.n /\ last - w.bj = k
        /\ k \in Nat /\ (k = 0 => last = w.bj)
        /\ (k # 0 => last # w.bj) /\ last # w.bj + w.n
    <3>1. w.bj \in Nat /\ w.n \in Nat \ {0} BY <1>1, <1>5
    <3> QED BY <1>5, <1>6, <3>1, SMTT(60)
  <2>2. new[last] = set_block_size(sp[last], get_block_size(sp[last]) + Amount(f, w, Len(d), k))
    BY <1>3, <2>1 DEF CopyIndex
  <2>3. sp[last] \in Word BY <1>2, <2>1, SplitSize
  <2>4. p \in Int /\ (k = 0 => p = 0) /\ z = w.byj + Len(d) - p
    BY <1>4, <2>1
  <2>5. Amount(f, w, Len(d), k) = Len(d) - (IF k = 0 THEN 0 ELSE p - w.byj)
    BY <1>3 DEF Amount, Source
  <2>6. Fresh(f, w, last) \/ (NotNew(f) /\ last = w.bj)
    <3>0. w.bj \in Nat /\ w.n \in Nat \ {0} BY <1>1, <1>5
    <3>1. last \in Int /\ w.bj \in Int /\ w.n \in Int /\ w.bj =< last /\ last < w.bj + w.n
      BY <3>0
    <3>2. CASE NotNew(f)
      <4>1. First(f, w) = w.bj + 1 BY <3>2 DEF First
      <4>2. PICK l \in Int, a \in Int, m \in Int : l = last /\ a = w.bj /\ m = w.n
        BY <3>1
      <4>3. l = a \/ (a + 1 =< l /\ l < a + 1 + m) BY <3>1, <4>2
      <4> HIDE DEF last
      <4>4. last = w.bj \/ (First(f, w) =< last /\ last < First(f, w) + w.n)
        BY <4>1, <4>2, <4>3
      <4> QED BY <3>2, <4>4 DEF Fresh
    <3>3. CASE ~ NotNew(f)
      <4>1. First(f, w) = w.bj BY <3>3 DEF First
      <4> QED BY <3>1, <4>1 DEF Fresh
    <3> QED BY <3>2, <3>3
  <2>7. get_block_size(sp[last]) = IF k = 0 THEN w.byj ELSE 0
    <3>1. CASE NotNew(f) /\ k = 0 BY <1>2, <2>1, <3>1, SplitSize
    <3>2. CASE NotNew(f) /\ k # 0
      BY <1>2, <2>1, <2>6, <3>2, SplitSize
    <3>3. CASE ~ NotNew(f) BY <1>2, <2>1, <2>6, <3>3, SplitSize
    <3> QED BY <3>1, <3>2, <3>3
  <2> HIDE DEF p, last, z
  <2>8. get_block_size(sp[last]) + Amount(f, w, Len(d), k) = z
    BY <1>1, <2>4, <2>5, <2>7
  <2>9. z \in 0 .. MaxBlockSize BY <1>4
  <2> QED BY <2>2, <2>3, <2>8, <2>9, SizeKept DEF HasSize
<1>10. ASSUME NotNew(f)
       PROVE  /\ \A s \in 0 .. w.bj - 1 : HasSize(new, s, SizeAt(f, s))
              /\ HasSize(new, w.bj + w.n,
                       IF SizeAt(f, w.bj) >= w.byj THEN SizeAt(f, w.bj) - w.byj ELSE 0)
              /\ \A s \in w.bj + 1 .. NrUsed(f) - 1 :
                   HasSize(new, s + w.n, SizeAt(f, s))
  <2>1. NrUsed(f) \in 0 .. MaxBlocks BY <1>10
  <2>2. ASSUME NEW s \in 0 .. w.bj - 1 PROVE HasSize(new, s, SizeAt(f, s))
    <3>1. s \in Slots /\ s =< w.bj /\ s # w.bj /\ s # w.bj + w.n
          /\ ~ (w.bj =< s /\ s < w.bj + w.n)
      BY <1>1, <1>5
    <3>2. ~ Fresh(f, w, s) /\ From(f, w, s) = s
      BY <1>1, <1>10, <2>1, <3>1, Unshifted
    <3> QED BY <1>2, <1>7, <3>1, <3>2, SplitSize DEF HasSize
  <2>3. HasSize(new, w.bj + w.n,
               IF SizeAt(f, w.bj) >= w.byj THEN SizeAt(f, w.bj) - w.byj ELSE 0)
    <3> DEFINE s == w.bj + w.n
    <3>1. s \in Slots /\ ~ (w.bj =< s /\ s < w.bj + w.n)
      BY <1>1, <1>5, <1>6, <1>10
    <3> QED BY <1>2, <1>7, <1>10, <3>1, SplitSize DEF HasSize
  <2>4. ASSUME NEW s \in w.bj + 1 .. NrUsed(f) - 1 PROVE HasSize(new, s + w.n, SizeAt(f, s))
    <3> DEFINE t == s + w.n
    <3>1. s \in Slots /\ w.bj < s /\ s < NrUsed(f) /\ t \in Slots /\ t # w.bj
          /\ t # w.bj + w.n /\ ~ (w.bj =< t /\ t < w.bj + w.n)
      <4>1. w.bj \in Nat /\ w.n \in Nat \ {0} /\ NrUsed(f) \in Nat /\ s \in Nat
            /\ w.bj < s /\ s < NrUsed(f)
        BY <1>1, <1>5, <2>1, SMTT(60)
      <4> QED BY <1>1, <1>5, <4>1, SMTT(60)
    <3>2. ~ Fresh(f, w, t) /\ From(f, w, t) = s
      BY <1>1, <1>10, <2>1, <3>1, Unshifted
    <3> HIDE DEF t
    <3>3. new[t] = sp[t] BY <1>7, <3>1
    <3>4. get_block_size(sp[t]) = SizeAt(f, s)
      BY <1>2, <3>1, <3>2, SplitSize
    <3> QED BY <3>3, <3>4 DEF HasSize, t
  <2> QED BY <2>2, <2>3, <2>4
<1> QED BY <1>8, <1>9, <1>10 DEF NewSizes

\* The bytes that lie between the end of a file of size bytes and an offset.
Gap(off, size) == IF off > size THEN off - size ELSE 0

\* Where the slots of a file begin after a write of L bytes, y bytes into slot b: at
\* off, which may be after the end.
TotalsAfter(f, g, h, b, n, y, L, u, off) ==
  /\ \A k \in 0 .. b : Total(g)[k] = Total(h)[k]
  /\ \A k \in 0 .. n - 1 : Total(g)[b + k] = Total(h)[b] + k * MaxBlockSize
  /\ Total(g)[b + n] = Total(h)[b] + y + L
  /\ NotNew(f) => \A k \in b + 1 .. u :
       Total(g)[k + n] = Total(h)[k] + L + Gap(off, Total(h)[u])
  /\ Total(g)[u + n] = Total(h)[u] + L + Gap(off, Total(h)[u])

\* So a supported write moves them.
LEMMA WrittenTotals ==
  ASSUME FileInv({}), Sized, NEW f \in Inodes, NEW off \in Offsets, NEW d \in Payloads,
         NEW w \in Plans(f, off, Len(d)), Supported(f, off, Len(d), w),
         NEW al \in FirstFree(w.n), First(f, w) + w.n =< MaxBlocks,
         NEW new, new = CopyIndex(f, w, al, Len(d), w.n),
         NEW g \in [Slots -> Nat], \A s \in Slots : HasSize(new, s, g[s]),
         NEW h, h = Sizes(f), NEW u, u = NrUsed(f)
  PROVE  TotalsAfter(f, g, h, w.bj, w.n, w.byj, Len(d), u, off)
<1> SUFFICES /\ \A k \in 0 .. w.bj : Total(g)[k] = Total(h)[k]
             /\ \A k \in 0 .. w.n - 1 : Total(g)[w.bj + k] = Total(h)[w.bj] + k * MaxBlockSize
             /\ Total(g)[w.bj + w.n] = Total(h)[w.bj] + w.byj + Len(d)
             /\ NotNew(f) => \A k \in w.bj + 1 .. u :
                  Total(g)[k + w.n] = Total(h)[k] + Len(d) + Gap(off, Total(h)[u])
             /\ Total(g)[u + w.n] = Total(h)[u] + Len(d) + Gap(off, Total(h)[u])
  BY DEF TotalsAfter
<1>0. PICK M, b, n, L, byj, A :
        /\ M = MaxBlockSize /\ b = w.bj /\ n = w.n /\ L = Len(d) /\ byj = w.byj
        /\ A = byj + L
  OBVIOUS
<1>1. /\ b \in Slots /\ byj \in Nat /\ n \in 1 .. MaxBlocks /\ TypeOK
      /\ u + n =< MaxBlocks /\ L \in Nat \ {0}
  BY <1>0, Planned DEF FileInv
<1>2. /\ off \in Nat
      /\ NotNew(f) =>
           /\ u \in 1 .. MaxBlocks /\ b \in 0 .. u - 1
           /\ byj = off - Total(h)[b]
           /\ off =< Total(h)[u] => byj =< SizeAt(f, b)
           /\ off > Total(h)[u] => b = u - 1
      /\ ~ NotNew(f) => u = 0 /\ b = 0 /\ byj = 0 /\ off = 0
  BY <1>0, WhereJump
<1>3. MaxBlocks \in Nat /\ Slots = 0 .. MaxBlocks - 1 /\ M \in Nat
  BY <1>0, DiskAssumption, WidthAssumption DEF Slots, MaxBlockSize
<1>4. /\ h \in [Slots -> Nat] /\ h \in [Slots -> Int] /\ g \in [Slots -> Int]
      /\ \A s \in Slots : h[s] = SizeAt(f, s)
  BY <1>1, SizesFit
<1>5. \A s \in Slots : \A z : HasSize(new, s, z) <=> g[s] = z
  BY DEF HasSize
<1>6. /\ \A s \in b .. b + n - 2 : HasSize(new, s, M)
      /\ HasSize(new, b + n - 1, A - (n - 1) * M)
      /\ NotNew(f) =>
           /\ \A s \in 0 .. b - 1 : HasSize(new, s, SizeAt(f, s))
           /\ HasSize(new, b + n, IF SizeAt(f, b) >= byj THEN SizeAt(f, b) - byj ELSE 0)
           /\ \A s \in b + 1 .. u - 1 : HasSize(new, s + n, SizeAt(f, s))
  <2>1. ~ NotNew(f) => w.byj = 0 BY <1>0, <1>2
  <2>2. NotNew(f) => NrUsed(f) \in 1 .. MaxBlocks BY <1>2
  <2>3. NewSizes(f, new, b, n, u, byj, L)
    BY <1>0, <2>1, <2>2, WrittenSizes
  <2>4. A = byj + L /\ M = MaxBlockSize BY <1>0
  <2>5. HasSize(new, b + n - 1, byj + L - (n - 1) * MaxBlockSize)
    BY <2>3 DEF NewSizes
  <2>6. HasSize(new, b + n - 1, A - (n - 1) * M)
    BY <1>1, <1>3, <2>4, <2>5
  <2>7. \A s \in b .. b + n - 2 : HasSize(new, s, MaxBlockSize)
    BY <2>3 DEF NewSizes
  <2>8. NotNew(f) =>
          /\ \A s \in 0 .. b - 1 : HasSize(new, s, SizeAt(f, s))
          /\ HasSize(new, b + n, IF SizeAt(f, b) >= byj THEN SizeAt(f, b) - byj ELSE 0)
          /\ \A s \in b + 1 .. u - 1 : HasSize(new, s + n, SizeAt(f, s))
    BY <2>3 DEF NewSizes
  <2> QED BY <2>4, <2>6, <2>7, <2>8
<1>7. /\ b \in Nat /\ n \in Nat \ {0} /\ A = byj + L /\ A \in Int
      /\ b + n =< MaxBlocks
      /\ NotNew(f) => b + n \in Slots /\ b + n =< u + n - 1
  <2>1. b \in Nat /\ n \in Nat \ {0} /\ u \in Nat /\ b + n =< u + n
    BY <1>1, <1>2, <1>3, SMTT(60)
  <2>2. NotNew(f) => b + n < u + n BY <1>2, <2>1
  <2>3. A = byj + L /\ A \in Int /\ b + n =< MaxBlocks
    BY <1>0, <1>1, <1>3, <2>1, SMTT(60)
  <2>4. NotNew(f) => b + n \in Slots /\ b + n =< u + n - 1
    BY <1>1, <1>3, <2>1, <2>2
  <2> QED BY <2>1, <2>3, <2>4
<1>8. /\ \A k \in 0 .. n - 1 : Total(g)[b + k] = Total(g)[b] + k * M
      /\ Total(g)[b + n] = Total(g)[b] + A
  <2>1. \A s \in b .. b + n - 2 : g[s] = M
    <3>1. \A s \in b .. b + n - 2 : s \in Slots BY <1>3, <1>7
    <3> QED BY <1>5, <1>6, <3>1
  <2>2. g[b + n - 1] = A - (n - 1) * M
    <3>1. b + n - 1 \in Slots BY <1>3, <1>7
    <3> QED BY <1>5, <1>6, <3>1
  <2>3. Evenly(g, b, n, A, M) /\ M \in Int
    BY <1>3, <2>1, <2>2 DEF Evenly
  <2>4. g \in [Slots -> Int] /\ b \in Nat /\ n \in Nat \ {0} /\ A \in Int
        /\ b + n =< MaxBlocks
    BY <1>4, <1>7
  <2> QED BY <2>3, <2>4, FullHead, ZenonT(60)
<1>9. Total(h)[0] = 0 /\ Total(g)[0] = 0 /\ \A k \in 0 .. MaxBlocks : Total(h)[k] \in Nat
  BY <1>4, TotalOf, TotalGrows
<1>10. CASE ~ NotNew(f)
  <2>1. b = 0 /\ u = 0 /\ A = L /\ off = 0 /\ byj = 0
    BY <1>0, <1>1, <1>2, <1>10
  <2>2. Gap(off, Total(h)[u]) = 0 BY <1>9, <2>1 DEF Gap
  <2>3. \A k \in 0 .. b : Total(g)[k] = Total(h)[k] BY <1>9, <2>1
  <2>4. Total(g)[u + n] = Total(h)[u] + L + Gap(off, Total(h)[u])
    BY <1>1, <1>8, <1>9, <2>1, <2>2
  <2>5. Total(g)[b + n] = Total(h)[b] + byj + L
    BY <1>0, <1>1, <1>8, <1>9, <2>1
  <2> QED BY <1>0, <1>8, <1>9, <1>10, <2>1, <2>3, <2>4, <2>5
<1>11. CASE NotNew(f)
  <2>1. u \in 1 .. MaxBlocks /\ b \in 0 .. u - 1 BY <1>2, <1>11
  <2>2. /\ \A s \in 0 .. b - 1 : g[s] = h[s]
        /\ g[b + n] = IF h[b] >= byj THEN h[b] - byj ELSE 0
        /\ \A s \in b + 1 .. u - 1 : g[s + n] = h[s]
    <3>1. b \in Slots /\ b + n \in Slots BY <1>1, <1>7, <1>11
    <3>2. \A s \in 0 .. b - 1 : s \in Slots BY <1>3, <2>1
    <3>3. \A s \in b + 1 .. u - 1 : s \in Slots /\ s + n \in Slots
      BY <1>1, <1>3, <2>1
    <3>4. ASSUME NEW s \in 0 .. b - 1 PROVE g[s] = h[s]
      <4>1. s \in Slots /\ HasSize(new, s, SizeAt(f, s))
        BY <1>6, <1>11, <3>2
      <4> QED BY <1>4, <1>5, <4>1
    <3>5. ASSUME NEW s \in b + 1 .. u - 1 PROVE g[s + n] = h[s]
      <4>1. s \in Slots /\ s + n \in Slots /\ HasSize(new, s + n, SizeAt(f, s))
        BY <1>6, <1>11, <3>3
      <4> QED BY <1>4, <1>5, <4>1
    <3>6. g[b + n] = IF SizeAt(f, b) >= byj THEN SizeAt(f, b) - byj ELSE 0
      BY <1>5, <1>6, <1>11, <3>1
    <3> QED BY <1>4, <3>1, <3>4, <3>5, <3>6
  <2>3. Splices(g, h, b, n, u) BY <2>2 DEF Splices, Follows
  <2>4. /\ \A k \in 0 .. b : Total(g)[k] = Total(h)[k]
        /\ \A k \in b + 1 .. u :
             Total(g)[k + n] = Total(h)[k] + Total(g)[b + n] + g[b + n]
                                 - Total(h)[b] - h[b]
    <3>1. /\ h \in [Slots -> Int] /\ g \in [Slots -> Int]
          /\ u \in Nat /\ b \in Nat /\ b < u /\ n \in Nat \ {0}
          /\ u + n =< MaxBlocks
      BY <1>1, <1>4, <1>7, <2>1
    <3>2. \A k \in 0 .. b : Total(g)[k] = Total(h)[k]
      BY <2>3, <3>1, TotalSplice, SMTT(60)
    <3>3. \A k \in b + 1 .. u :
            Total(g)[k + n] = Total(h)[k] + Total(g)[b + n] + g[b + n]
                                - Total(h)[b] - h[b]
      <4>1. Later(g, h, b, n, u) BY <2>3, <3>1, TotalSplice
      <4> QED BY <4>1 DEF Later
    <3> QED BY <3>2, <3>3
  <2>5. b \in 0 .. b /\ b \in 0 .. MaxBlocks /\ u \in 0 .. MaxBlocks /\ b \in Slots
    BY <1>1, <1>3, <1>7, <2>1
  <2>6. Total(g)[b] = Total(h)[b] /\ Total(h)[b] \in Nat /\ Total(h)[u] \in Nat
    BY <1>9, <2>4, <2>5
  <2>7. Total(g)[b + n] = Total(h)[b] + byj + L
    BY <1>0, <1>1, <1>7, <1>8, <2>6
  <2>8. byj + g[b + n] - h[b] = Gap(off, Total(h)[u])
    <3>1. h[b] \in Nat /\ h[b] = SizeAt(f, b) /\ byj = off - Total(h)[b]
      BY <1>2, <1>4, <1>11, <2>5
    <3>2. CASE off =< Total(h)[u]
      <4>1. byj =< h[b] BY <1>2, <1>11, <3>1, <3>2
      <4>2. g[b + n] = h[b] - byj BY <1>1, <2>2, <3>1, <4>1
      <4>3. Gap(off, Total(h)[u]) = 0 BY <1>2, <2>6, <3>2 DEF Gap
      <4> QED BY <1>1, <3>1, <4>2, <4>3
    <3>3. CASE off > Total(h)[u]
      <4>1. b = u - 1 /\ b + 1 = u BY <1>2, <1>11, <2>1, <3>3
      <4>2. Total(h)[u] = Total(h)[b] + h[b]
        BY <1>4, <2>5, <4>1, TotalOf
      <4>3. byj > h[b] BY <1>2, <2>6, <3>1, <3>3, <4>2
      <4>4. g[b + n] = 0 BY <1>1, <2>2, <3>1, <4>3
      <4>5. Gap(off, Total(h)[u]) = off - Total(h)[u]
        BY <3>3 DEF Gap
      <4> QED BY <1>1, <1>2, <2>6, <3>1, <4>2, <4>4, <4>5
    <3> QED BY <1>2, <2>6, <3>2, <3>3
  <2>9. ASSUME NEW k \in b + 1 .. u
        PROVE  Total(g)[k + n] = Total(h)[k] + L + Gap(off, Total(h)[u])
    <3> DEFINE q == b + n
               G == Gap(off, Total(h)[u])
               t == k + n
    <3>1. k \in 0 .. MaxBlocks /\ Total(h)[k] \in Nat
      <4>1. k \in 0 .. MaxBlocks BY <1>3, <1>7, <2>1
      <4> QED BY <1>9, <4>1
    <3>2. g[q] \in Int /\ h[b] \in Int BY <1>4, <1>7, <1>11, <2>5
    <3>3. Total(g)[t] = Total(h)[k] + Total(g)[q] + g[q] - Total(h)[b] - h[b]
      BY <2>4
    <3>4. Total(g)[q] = Total(h)[b] + byj + L /\ byj + g[q] - h[b] = G
      BY <2>7, <2>8
    <3> HIDE DEF q, G, t
    <3>5. Total(g)[t] = Total(h)[k] + L + G
      <4> DEFINE e == Total(h)[b]
                 y == g[q]
                 z == h[b]
                 v == Total(h)[k]
      <4>1. e \in Int /\ y \in Int /\ z \in Int /\ v \in Int /\ byj \in Int /\ L \in Int
        BY <1>1, <2>6, <3>1, <3>2
      <4>2. Total(g)[t] = v + (e + byj + L) + y - e - z /\ byj + y - z = G
        BY <3>3, <3>4
      <4> HIDE DEF e, y, z, v
      <4>3. Total(g)[t] = v + L + (byj + y - z) BY <4>1, <4>2
      <4>4. byj + y - z \in Int BY <4>1
      <4> QED BY <4>1, <4>2, <4>3, <4>4 DEF v
    <3> QED BY <3>5 DEF G, t
  <2>10. ASSUME NEW k \in 0 .. n - 1 PROVE Total(g)[b + k] = Total(h)[b] + k * M
    BY <1>8, <2>6
  <2>11. u \in b + 1 .. u BY <1>7, <2>1
  <2>12. Total(g)[u + n] = Total(h)[u] + L + Gap(off, Total(h)[u])
    BY <2>9, <2>11
  <2> QED BY <1>0, <2>4, <2>7, <2>9, <2>10, <2>12
<1> QED BY <1>10, <1>11

\* c is what the first u slots read as when h gives their sizes and D their blocks.
Laid(c, h, u, D) ==
  /\ u \in 0 .. MaxBlocks /\ h \in [Slots -> Nat] /\ c \in Seq(Byte)
  /\ Len(c) = Total(h)[u]
  /\ \A s \in 0 .. u - 1 : \A x \in 1 .. h[s] : c[Total(h)[s] + x] = D[s][x - 1]

\* z bytes of a block are those of another one, from a position on.
SameBytes(new, old, z, from) == \A x \in 1 .. z : new[x - 1] = old[from + x - 1]

\* The slots before b are as they were.
Ahead(g, h, E, D, b) ==
  \A s \in 0 .. b - 1 : g[s] = h[s] /\ SameBytes(E[s], D[s], h[s], 0)

\* n slots from b on: y bytes of slot b, as far as it had them, then bytes of d.
Middle(g, h, E, D, d, b, n, y, u) ==
  \A s \in b .. b + n - 1 : \A x \in 1 .. g[s] :
    \/ /\ s = b /\ x =< y
       /\ b < u /\ x =< h[b] => E[b][x - 1] = D[b][x - 1]
    \/ /\ Total(g)[s] + x > Total(h)[b] + y
       /\ E[s][x - 1] = d[Total(g)[s] + x - (Total(h)[b] + y)]

\* Slot b + n has the remainder of slot b, and the other slots follow.
Behind(g, h, E, D, b, n, y, u) ==
  /\ b < u =>
       /\ g[b + n] = IF h[b] >= y THEN h[b] - y ELSE 0
       /\ SameBytes(E[b + n], D[b], g[b + n], y)
       /\ h[b] < y => b = u - 1
  /\ \A s \in b + 1 .. u - 1 : g[s + n] = h[s] /\ SameBytes(E[s + n], D[s], h[s], 0)

\* e is c with L bytes of d inserted at o, which may lie after the end of c.
Insertion(e, c, d, L, o) ==
  /\ Len(e) = Len(c) + L + Gap(o, Len(c))
  /\ \A p \in 1 .. Len(e) :
       /\ p =< o /\ p =< Len(c) => e[p] = c[p]
       /\ o < p /\ p =< o + L => e[p] = d[p - o]
       /\ o + L < p => p - L \in 1 .. Len(c) /\ e[p] = c[p - L]

\* Where the slots begin before and after.
Placed(g, h, b, n, y, L, u) ==
  /\ \A k \in 0 .. b : Total(g)[k] = Total(h)[k]
  /\ Total(g)[b + n] = Total(h)[b] + y + L
  /\ b < u => \A k \in b + 1 .. u :
       Total(g)[k + n] = Total(h)[k] + L + Gap(Total(h)[b] + y, Total(h)[u])
  /\ Total(g)[u + n] = Total(h)[u] + L + Gap(Total(h)[b] + y, Total(h)[u])

\* Slots that agree with the old ones before, within and behind a write hold the file with
\* the bytes of the write inserted.
LEMMA Inserts ==
  ASSUME NEW c, NEW e, NEW h, NEW g, NEW D, NEW E, NEW d,
         NEW u \in Nat, NEW b \in 0 .. u, NEW n \in Nat \ {0},
         NEW y \in Nat, NEW L \in Nat,
         Laid(c, h, u, D), Laid(e, g, u + n, E), b = u => u = 0 /\ y = 0,
         Placed(g, h, b, n, y, L, u),
         Ahead(g, h, E, D, b), Middle(g, h, E, D, d, b, n, y, u),
         Behind(g, h, E, D, b, n, y, u)
  PROVE  Insertion(e, c, d, L, Total(h)[b] + y)
<1> DEFINE P == Total(h)
           Q == Total(g)
           o == P[b] + y
           z == P[u]
<1>1. /\ u + n =< MaxBlocks /\ MaxBlocks \in Nat /\ Slots = 0 .. MaxBlocks - 1
      /\ h \in [Slots -> Nat] /\ g \in [Slots -> Nat]
      /\ h \in [Slots -> Int] /\ g \in [Slots -> Int]
      /\ Len(c) = P[u] /\ Len(e) = Q[u + n]
  BY DiskAssumption, SMTT(60) DEF Laid, Slots
<1>2. /\ \A k \in 0 .. MaxBlocks : P[k] \in Nat /\ Q[k] \in Nat
      /\ \A k, m \in 0 .. MaxBlocks : k =< m => P[k] =< P[m]
      /\ \A s \in Slots : P[s + 1] = P[s] + h[s] /\ Q[s + 1] = Q[s] + g[s]
      /\ \A s \in Slots : h[s] \in Nat /\ g[s] \in Nat
      /\ P[0] = 0
  BY <1>1, TotalOf, TotalGrows
<1>3. /\ \A k \in 0 .. b : Q[k] = P[k]
      /\ Q[b + n] = P[b] + y + L
      /\ b < u => \A k \in b + 1 .. u : Q[k + n] = P[k] + L + Gap(o, z)
      /\ Q[u + n] = P[u] + L + Gap(o, z)
  BY DEF Placed
<1>4. \A s \in 0 .. u - 1 : \A x \in 1 .. h[s] : c[P[s] + x] = D[s][x - 1]
  BY DEF Laid
<1>5. \A s \in 0 .. u + n - 1 : \A x \in 1 .. g[s] : e[Q[s] + x] = E[s][x - 1]
  BY DEF Laid
<1> HIDE DEF P, Q
<1>6. /\ b \in 0 .. MaxBlocks /\ u \in 0 .. MaxBlocks /\ P[b] \in Nat /\ P[u] \in Nat
      /\ b \in 0 .. b /\ Q[b] = P[b] /\ P[b] =< z
  <2>1. b \in 0 .. MaxBlocks /\ u \in 0 .. MaxBlocks /\ b \in 0 .. b
    BY <1>1
  <2> QED BY <1>2, <1>3, <2>1
<1>7. o \in Nat /\ z \in Nat /\ Gap(o, z) \in Nat /\ o = P[b] + y
  BY <1>6 DEF Gap
<1> HIDE DEF o, z
<1>8. ASSUME NEW p, p \in 1 .. Q[u + n]
      PROVE  /\ p =< o /\ p =< z => e[p] = c[p]
             /\ o < p /\ p =< o + L => e[p] = d[p - o]
             /\ o + L < p => p - L \in 1 .. z /\ e[p] = c[p - L]
  <2>a. PICK s : /\ s \in 0 .. u + n - 1
                 /\ \E y1 \in 1 .. g[s] : p = Q[s] + y1
    <3>1. u + n \in 0 .. MaxBlocks /\ p \in 1 .. Total(g)[u + n]
      BY <1>1, <1>8 DEF Q
    <3>2. PICK m : m = u + n OBVIOUS
    <3>3. m \in 0 .. MaxBlocks /\ p \in 1 .. Total(g)[m]
      BY <3>1, <3>2
    <3>4. \E s \in 0 .. m - 1 : \E y1 \in 1 .. g[s] : p = Total(g)[s] + y1
      BY <1>1, <3>3, TotalLocates, ZenonT(60)
    <3> QED BY <3>2, <3>4 DEF Q
  <2>1. PICK x : x \in 1 .. g[s] /\ p = Q[s] + x BY <2>a
  <2>2. /\ s \in Slots /\ s \in 0 .. MaxBlocks /\ g[s] \in Nat /\ Q[s] \in Nat
        /\ e[p] = E[s][x - 1]
        /\ Q[s + 1] = Q[s] + g[s]
    <3>1. s \in Slots /\ s \in 0 .. MaxBlocks /\ s \in 0 .. u + n - 1
      BY <1>1, <2>a
    <3>2. g[s] \in Nat /\ Q[s] \in Nat /\ Q[s + 1] = Q[s] + g[s]
      BY <1>2, <3>1
    <3>3. e[p] = E[s][x - 1] BY <1>5, <2>1, <3>1
    <3> QED BY <3>1, <3>2, <3>3
  <2>b. p = Q[s] + x /\ p \in Nat /\ x \in Nat \ {0} /\ x =< g[s] /\ Q[s] \in Nat
        /\ s \in Nat /\ s =< u + n - 1 /\ o \in Nat /\ z \in Nat /\ P[b] \in Nat
    <3>1. g[s] \in Nat BY <2>2
    <3>2. Q[s] \in Nat BY <2>2
    <3>3. x \in Nat \ {0} /\ x =< g[s] BY <2>1, <3>1
    <3>4. p = Q[s] + x BY <2>1
    <3>5. p \in Nat BY <3>2, <3>3, <3>4
    <3>6. s \in Nat /\ s =< u + n - 1 BY <2>a
    <3>7. o \in Nat /\ z \in Nat BY <1>7
    <3>8. P[b] \in Nat BY <1>6
    <3> QED BY <3>2, <3>3, <3>4, <3>5, <3>6, <3>7, <3>8
  <2>3. CASE s < b
    <3>1. s \in 0 .. b - 1 /\ s \in 0 .. b /\ s \in 0 .. u - 1 /\ s + 1 \in 0 .. MaxBlocks
          /\ s + 1 =< b
      BY <1>1, <2>b, <2>3
    <3>2. g[s] = h[s] /\ SameBytes(E[s], D[s], h[s], 0)
      BY <3>1 DEF Ahead
    <3>3. E[s][x - 1] = D[s][x - 1]
      <4>1. x \in 1 .. h[s] /\ 0 + x - 1 = x - 1
        BY <2>2, <2>b, <3>2
      <4> QED BY <3>2, <4>1 DEF SameBytes
    <3>4. c[P[s] + x] = D[s][x - 1] /\ Q[s] = P[s]
      BY <1>3, <1>4, <2>1, <3>1, <3>2
    <3>5. p =< P[b]
      <4>1. P[s + 1] = P[s] + h[s] /\ P[s + 1] =< P[b] /\ h[s] \in Nat /\ P[s] \in Nat
        BY <1>2, <1>6, <2>2, <2>b, <3>1
      <4> QED BY <1>6, <2>1, <2>b, <3>2, <3>4, <4>1
    <3>6. e[p] = c[p] /\ p =< o
      BY <1>6, <1>7, <2>1, <2>2, <2>b, <3>3, <3>4, <3>5
    <3> QED BY <1>7, <2>b, <2>3, <3>6
  <2>4. CASE b =< s /\ s < b + n
    <3>1. s \in b .. b + n - 1 BY <2>b, <2>4
    <3>2. \/ s = b /\ x =< y /\ (b < u /\ x =< h[b] => E[b][x - 1] = D[b][x - 1])
          \/ Q[s] + x > P[b] + y /\ E[s][x - 1] = d[Q[s] + x - (P[b] + y)]
      BY <2>1, <3>1 DEF Middle, P, Q
    <3>3. p =< o + L
      <4>1. s + 1 \in 0 .. MaxBlocks /\ b + n \in 0 .. MaxBlocks /\ s + 1 =< b + n
        <5>1. s + 1 \in Nat /\ s + 1 =< MaxBlocks /\ s + 1 =< b + n
          BY <1>1, <2>b, <2>4
        <5>2. b + n \in Nat /\ b + n =< MaxBlocks BY <1>1
        <5> QED BY <1>1, <5>1, <5>2
      <4>2. Q[s + 1] =< Q[b + n] BY <1>1, <4>1, TotalGrows DEF Q
      <4>3. Q[s + 1] \in Nat /\ Q[b + n] \in Nat BY <1>2, <4>1
      <4> QED BY <1>3, <1>6, <1>7, <2>1, <2>2, <2>b, <4>2, <4>3
    <3>4. CASE s = b /\ x =< y /\ (b < u /\ x =< h[b] => E[b][x - 1] = D[b][x - 1])
      <4>1. p = P[b] + x /\ p =< o BY <1>6, <1>7, <2>1, <2>b, <3>4
      <4>2. ASSUME p =< z PROVE e[p] = c[p]
        <5>1. b < u
          <6>1. b # u
            BY <1>1, <1>6, <1>7, <2>2, <2>b, <3>4, <4>1, <4>2 DEF z
          <6> QED BY <6>1
        <5>2. x =< h[b]
          <6>1. CASE h[b] >= y BY <3>4, <6>1, <2>2, <2>b, <1>2
          <6>2. CASE h[b] < y
            <7>1. b = u - 1 /\ b + 1 = u BY <5>1, <6>2 DEF Behind
            <7>2. P[u] = P[b] + h[b] /\ h[b] \in Nat
              <8>1. b \in Slots BY <1>1, <7>1
              <8>2. P[b + 1] = P[b] + h[b] /\ h[b] \in Nat
                BY <1>2, <8>1
              <8> QED BY <7>1, <8>2
            <7> QED BY <1>6, <2>2, <2>b, <4>1, <4>2, <7>2 DEF z
          <6> QED BY <1>1, <1>2, <5>1, <6>1, <6>2
        <5>3. c[P[b] + x] = D[b][x - 1]
          <6>1. b \in 0 .. u - 1 /\ h[b] \in Nat /\ x \in 1 .. h[b]
            BY <1>1, <1>2, <2>2, <2>b, <5>1, <5>2
          <6> QED BY <1>4, <6>1
        <5> QED BY <2>2, <2>b, <3>4, <4>1, <5>1, <5>2, <5>3
      <4> QED BY <1>7, <4>1, <4>2
    <3>5. CASE Q[s] + x > P[b] + y /\ E[s][x - 1] = d[Q[s] + x - (P[b] + y)]
      BY <1>7, <2>1, <2>2, <2>b, <3>3, <3>5
    <3> QED BY <3>2, <3>4, <3>5
  <2>5. CASE s = b + n
    <3>1. b < u /\ b \in 0 .. u - 1 /\ b \in Slots
      BY <1>1, <2>b, <2>5
    <3>2. /\ g[s] = IF h[b] >= y THEN h[b] - y ELSE 0
          /\ SameBytes(E[s], D[b], g[s], y)
      BY <2>5, <3>1 DEF Behind
    <3>3. h[b] \in Nat /\ h[b] >= y /\ g[s] = h[b] - y
      BY <1>2, <2>2, <2>b, <3>1, <3>2
    <3>4. E[s][x - 1] = D[b][y + x - 1]
      BY <2>1, <3>2 DEF SameBytes
    <3>5. y + x \in 1 .. h[b] /\ P[b] + (y + x) = o + x
      BY <1>6, <1>7, <3>3, <2>b
    <3>6. c[P[b] + (y + x)] = D[b][(y + x) - 1]
      BY <1>4, <3>1, <3>5
    <3>7. p = o + L + x /\ Q[s] = o + L
      BY <1>3, <1>6, <1>7, <2>1, <2>b, <2>5
    <3>8. o + x =< z
      <4>1. P[b + 1] = P[b] + h[b] /\ P[b + 1] =< P[u] /\ P[b + 1] \in Nat
        <5>1. b + 1 \in 0 .. MaxBlocks /\ b + 1 =< u BY <1>1, <3>1
        <5> QED BY <1>2, <1>6, <3>1, <5>1
      <4> QED BY <1>6, <1>7, <3>3, <3>5, <4>1 DEF z
    <3>9. p - L = o + x /\ p - L \in 1 .. z /\ ~ (p =< o + L) /\ ~ (p =< o)
      BY <1>7, <2>2, <2>b, <3>7, <3>8
    <3>10. e[p] = c[p - L] BY <2>2, <2>b, <3>4, <3>5, <3>6, <3>9
    <3> QED BY <3>9, <3>10
  <2>6. CASE b + n < s
    <3> DEFINE t == s - n
    <3>1. /\ t \in b + 1 .. u - 1 /\ t \in 0 .. u - 1 /\ t \in b + 1 .. u
          /\ b < u /\ t \in Slots /\ t \in 0 .. MaxBlocks
          /\ t + n = s /\ t + 1 \in 0 .. MaxBlocks /\ t + 1 =< u /\ b + 1 =< t
          /\ b + 1 \in 0 .. MaxBlocks /\ b \in Slots
      BY <1>1, <2>b, <2>6
    <3> HIDE DEF t
    <3>2. g[s] = h[t] /\ SameBytes(E[s], D[t], h[t], 0)
      BY <3>1 DEF Behind
    <3>3. E[s][x - 1] = D[t][x - 1] /\ x \in 1 .. h[t]
      <4>1. x \in 1 .. h[t] /\ 0 + x - 1 = x - 1
        BY <2>2, <2>b, <3>2
      <4> QED BY <3>2, <4>1 DEF SameBytes
    <3>4. c[P[t] + x] = D[t][x - 1] BY <1>4, <3>1, <3>3
    <3>5. /\ P[b + 1] = P[b] + h[b] /\ P[b + 1] =< P[t] /\ P[t + 1] =< P[u]
          /\ P[t + 1] = P[t] + h[t] /\ h[b] \in Nat /\ h[t] \in Nat /\ P[t] \in Nat
          /\ P[b + 1] \in Nat
      BY <1>2, <1>6, <3>1
    \* A slot follows, so the offset lies in slot b.
    <3>6. h[b] >= y /\ Gap(o, z) = 0
      <4>1. ~ (h[b] < y)
        <5>1. b # u - 1 BY <3>1
        <5> QED BY <3>1, <5>1 DEF Behind
      <4>2. o =< z BY <1>6, <1>7, <3>5, <4>1 DEF z
      <4> QED BY <1>7, <3>5, <4>1, <4>2 DEF Gap
    <3>7. Q[s] = P[t] + L
      <4>1. Q[t + n] = P[t] + L + Gap(o, z) BY <1>3, <3>1
      <4> QED BY <3>1, <3>5, <3>6, <4>1
    <3>8. p - L = P[t] + x /\ p - L \in 1 .. z /\ ~ (p =< o + L) /\ ~ (p =< o)
      BY <1>6, <1>7, <2>1, <2>2, <2>b, <3>3, <3>5, <3>6, <3>7 DEF z
    <3> QED BY <2>2, <2>b, <3>3, <3>4, <3>8
  <2> QED BY <2>2, <2>b, <2>3, <2>4, <2>5, <2>6
<1>9. Len(e) = z + L + Gap(o, z) BY <1>1, <1>3 DEF z
<1>10. \A p \in 1 .. Len(e) :
        /\ p =< o /\ p =< z => e[p] = c[p]
        /\ o < p /\ p =< o + L => e[p] = d[p - o]
        /\ o + L < p => p - L \in 1 .. z /\ e[p] = c[p - L]
  BY <1>1, <1>8
<1> QED BY <1>1, <1>9, <1>10 DEF Insertion, o, z, P

\* The block of slot s after the shift and the allocation.
BlockOf(f, w, al, s) ==
  IF Fresh(f, w, s) THEN al[s - First(f, w)] ELSE NumberAt(f, From(f, w, s))

\* The blocks of the slots after the allocation: no two are the same.
OneEach(B, last) ==
  /\ \A s \in 0 .. last : s \in Slots /\ B[s] \in Blocks
  /\ \A s, t \in 0 .. last : B[s] = B[t] => s = t

\* Where they come from.
FromOld(B, f, b, n, u) ==
  NotNew(f) => /\ \A s \in 0 .. b : B[s] = NumberAt(f, s)
               /\ \A s \in b + 1 .. u - 1 : B[s + n] = NumberAt(f, s)

\* The blocks of a file after the allocation are its old ones and the new ones.
LEMMA BlocksApart ==
  ASSUME FileInv({}), Sized, NEW f \in Inodes, NEW off \in Offsets, NEW d \in Payloads,
         NEW w \in Plans(f, off, Len(d)), Supported(f, off, Len(d), w),
         NEW al \in FirstFree(w.n), First(f, w) + w.n =< MaxBlocks,
         NEW B, B = [s \in Slots |-> BlockOf(f, w, al, s)]
  PROVE  /\ OneEach(B, NrUsed(f) + w.n - 1)
         /\ FromOld(B, f, w.bj, w.n, NrUsed(f))
         /\ \A s \in Slots : get_block_number(Allocated(f, w, w.n, al)[s]) = B[s]
         /\ NotNew(f) => B[w.bj + w.n] = al[w.n - 1] /\ w.bj + w.n \in Slots
         /\ ~ NotNew(f) => w.bj = 0
         /\ \A b \in DataBlocks \ free, s \in 0 .. NrUsed(f) + w.n - 1 :
              b \notin Named(f) => b # B[s]
<1>0. PICK u, b, n, last : u = NrUsed(f) /\ b = w.bj /\ n = w.n /\ last = u + n - 1
  OBVIOUS
<1>1. /\ TypeOK /\ f \in Linked /\ b \in Slots /\ n \in 1 .. MaxBlocks
      /\ u + n =< MaxBlocks
  BY <1>0, Planned DEF FileInv, Live, Linked
<1>2. /\ NotNew(f) => u \in 1 .. MaxBlocks /\ b \in 0 .. u - 1
      /\ ~ NotNew(f) => u = 0 /\ b = 0
  BY <1>0, WhereJump
<1>3. MaxBlocks \in Nat /\ Slots = 0 .. MaxBlocks - 1
  BY DiskAssumption DEF Slots
<1>4. u \in 0 .. MaxBlocks /\ n \in Nat \ {0} /\ b \in Nat
  BY <1>1, <1>2, <1>3
<1>5. \A s \in Slots : get_block_number(Allocated(f, w, w.n, al)[s]) = B[s]
  <2>1. PICK X : X = {} OBVIOUS
  <2>2. FileInv(X) /\ f \notin X BY <2>1
  <2>3. ASSUME NEW s \in Slots
        PROVE  get_block_number(Allocated(f, w, w.n, al)[s]) = BlockOf(f, w, al, s)
    BY <2>2, AllocatedWord DEF BlockOf
  <2> QED BY <2>3
<1>6. /\ \A k \in 0 .. n - 1 : al[k] \in free /\ al[k] \in DataBlocks
      /\ \A m, k \in 0 .. n - 1 : al[m] = al[k] => m = k
  BY <1>0, <1>1, FreshBlocks
<1>7. First(f, w) \in Nat BY <1>0, <1>4 DEF First
<1>8. ASSUME NEW s \in 0 .. last PROVE s \in Slots /\ s < u + n
  BY <1>0, <1>1, <1>3, <1>4
<1>9. ASSUME NEW s \in 0 .. last, Fresh(f, w, s)
      PROVE  s - First(f, w) \in 0 .. n - 1 /\ B[s] = al[s - First(f, w)]
  <2>1. s - First(f, w) \in 0 .. n - 1
    BY <1>0, <1>4, <1>7, <1>9 DEF Fresh
  <2>2. B[s] = al[s - First(f, w)] BY <1>8, <1>9 DEF BlockOf
  <2> QED BY <2>1, <2>2
<1>10. ASSUME NEW s \in 0 .. last, ~ Fresh(f, w, s)
       PROVE  /\ From(f, w, s) \in Slots /\ index[f][From(f, w, s)] # 0
              /\ B[s] = NumberAt(f, From(f, w, s)) /\ B[s] \in DataBlocks \ free
              /\ B[s] \in Named(f)
  <2>0. PICK X : X = {} OBVIOUS
  <2>1. FileInv(X) /\ f \notin X /\ s \in Slots /\ s < NrUsed(f) + w.n
    BY <1>0, <1>8, <2>0
  <2>2. From(f, w, s) \in Slots BY <2>1, AllocatedWord
  <2>3. index[f][From(f, w, s)] # 0 BY <1>10, <2>1, WrittenSlots
  <2>4. B[s] = NumberAt(f, From(f, w, s))
    BY <1>8, <1>10 DEF BlockOf
  <2>5. B[s] \in DataBlocks \ free
    BY <1>1, <2>2, <2>3, <2>4 DEF FileInv, Separate
  <2>6. B[s] \in Named(f) BY <2>2, <2>3, <2>4 DEF Named
  <2> QED BY <2>2, <2>3, <2>4, <2>5, <2>6
<1>11. ASSUME NEW s \in 0 .. last PROVE B[s] \in DataBlocks /\ B[s] \in Blocks
  <2>1. B[s] \in DataBlocks BY <1>6, <1>9, <1>10
  <2> QED BY <2>1, DataBlockNumber
<1>12. ASSUME NEW s \in 0 .. last, NEW t \in 0 .. last, B[s] = B[t] PROVE s = t
  <2>1. CASE Fresh(f, w, s) /\ Fresh(f, w, t)
    <3>1. s - First(f, w) = t - First(f, w)
      BY <1>6, <1>9, <1>12, <2>1
    <3> QED BY <1>7, <3>1
  <2>2. CASE ~ Fresh(f, w, s) /\ ~ Fresh(f, w, t)
    <3>1. From(f, w, s) = From(f, w, t)
      <4> DEFINE p == From(f, w, s)
                 q == From(f, w, t)
      <4>1. /\ p \in Slots /\ q \in Slots /\ index[f][p] # 0 /\ index[f][q] # 0
            /\ NumberAt(f, p) = NumberAt(f, q)
        BY <1>10, <1>12, <2>2
      <4> HIDE DEF p, q
      <4>2. p = q BY <1>1, <4>1 DEF FileInv, Separate
      <4> QED BY <4>2 DEF p, q
    <3>2. PICK X : X = {} OBVIOUS
    <3>3. FileInv(X) /\ f \notin X /\ s \in Slots /\ t \in Slots
      BY <1>8, <3>2
    <3> QED BY <2>2, <3>1, <3>3, WrittenFrom
  <2>3. CASE Fresh(f, w, s) /\ ~ Fresh(f, w, t)
    BY <1>6, <1>9, <1>10, <1>12, <2>3
  <2>4. CASE ~ Fresh(f, w, s) /\ Fresh(f, w, t)
    BY <1>6, <1>9, <1>10, <1>12, <2>4
  <2> QED BY <2>1, <2>2, <2>3, <2>4
<1>13. OneEach(B, last) BY <1>8, <1>11, <1>12 DEF OneEach
<1>14. ASSUME NotNew(f)
       PROVE  /\ \A s \in 0 .. b : B[s] = NumberAt(f, s)
              /\ \A s \in b + 1 .. u - 1 : B[s + n] = NumberAt(f, s)
              /\ B[b + n] = al[n - 1] /\ b + n \in Slots
  <2>1. u \in 1 .. MaxBlocks /\ b \in 0 .. u - 1 BY <1>2, <1>14
  <2>2. /\ w.bj \in Slots /\ w.n \in 1 .. MaxBlocks /\ NrUsed(f) \in 0 .. MaxBlocks
    BY <1>0, <1>1, <1>4
  <2>3. ASSUME NEW s \in 0 .. b PROVE B[s] = NumberAt(f, s)
    <3>1. s \in Slots /\ s =< w.bj BY <1>0, <1>1, <1>3, <1>4, <2>1
    <3>2. ~ Fresh(f, w, s) /\ From(f, w, s) = s
      BY <1>14, <2>2, <3>1, Unshifted
    <3> QED BY <3>1, <3>2 DEF BlockOf
  <2>4. ASSUME NEW s \in b + 1 .. u - 1 PROVE B[s + n] = NumberAt(f, s)
    <3>0. s \in Nat /\ s < u /\ s + n < MaxBlocks /\ b < s
      BY <1>1, <1>3, <1>4, <2>1
    <3>1. s \in Slots /\ w.bj < s /\ s < NrUsed(f) /\ s + w.n \in Slots /\ s + w.n = s + n
      <4>1. s \in Slots /\ s + n \in Slots BY <1>3, <1>4, <3>0
      <4> QED BY <1>0, <3>0, <4>1
    <3>2. ~ Fresh(f, w, s + w.n) /\ From(f, w, s + w.n) = s
      BY <1>14, <2>2, <3>1, Unshifted
    <3> QED BY <3>1, <3>2 DEF BlockOf
  <2>5. b + n \in Slots BY <1>1, <1>3, <1>4, <2>1
  <2>6. B[b + n] = al[n - 1]
    <3>0. PICK t : t = b + n OBVIOUS
    <3>1. t \in Slots /\ w.bj < t /\ t =< w.bj + w.n
      BY <1>0, <1>4, <2>5, <3>0
    <3>2. Fresh(f, w, t) BY <1>14, <2>2, <3>1, Unshifted
    <3>3. t - First(f, w) = n - 1
      BY <1>0, <1>4, <1>14, <3>0 DEF First
    <3>4. B[t] = al[t - First(f, w)] BY <3>1, <3>2 DEF BlockOf
    <3> QED BY <3>0, <3>3, <3>4
  <2> QED BY <2>3, <2>4, <2>5, <2>6
<1>15. FromOld(B, f, b, n, u) BY <1>14 DEF FromOld
<1>16. ASSUME NEW e \in DataBlocks \ free, NEW s \in 0 .. last, e \notin Named(f)
       PROVE  e # B[s]
  <2>1. CASE Fresh(f, w, s)
    <3> DEFINE k == s - First(f, w)
    <3>1. k \in 0 .. n - 1 /\ B[s] = al[k] BY <1>9, <2>1
    <3> HIDE DEF k
    <3>2. B[s] \in free BY <1>6, <3>1
    <3> QED BY <3>2
  <2>2. CASE ~ Fresh(f, w, s)
    <3>1. B[s] \in Named(f) BY <1>10, <2>2
    <3> QED BY <1>16, <3>1
  <2> QED BY <2>1, <2>2
<1> QED BY <1>0, <1>2, <1>5, <1>13, <1>14, <1>15, <1>16

\* A byte of a block after a copy into it.
LEMMA CopiedByte ==
  ASSUME NEW dst, NEW at \in Int, NEW src, NEW from \in Int, NEW cnt \in Int,
         NEW x \in 1 .. BlockSize
  PROVE  Copy(dst, at, src, from, cnt)[x - 1] =
           IF at < x /\ x =< at + cnt THEN src[x - 1 - at + from] ELSE dst[x - 1]
<1>1. BlockSize \in Nat /\ x - 1 \in 0 .. BlockSize - 1
  BY WidthAssumption
<1>2. (at =< x - 1 /\ x - 1 < at + cnt) <=> (at < x /\ x =< at + cnt)
  BY <1>1
<1>3. \A y \in 0 .. BlockSize - 1 :
        Copy(dst, at, src, from, cnt)[y] =
          IF at =< y /\ y < at + cnt THEN src[y - at + from] ELSE dst[y]
  BY DEF Copy
<1> QED BY <1>1, <1>2, <1>3

\* What the split leaves of the other blocks, of the block at block_jump and in the
\* last new block.
Split(S, f, y, cut, to) ==
  /\ \A e \in Blocks : e # cut /\ (NotNew(f) => e # to) => S[e] = data[e]
  /\ NotNew(f) => /\ SameBytes(S[cut], data[cut], y, 0)
                  /\ SameBytes(S[to], data[cut], MaxBlockSize - y, y)

\* The memcpy and the memset of a write.
LEMMA SplitBytes ==
  ASSUME FileInv({}), Sized, NEW f \in Inodes, NEW off \in Offsets, NEW d \in Payloads,
         NEW w \in Plans(f, off, Len(d)), Supported(f, off, Len(d), w),
         NEW al \in FirstFree(w.n), First(f, w) + w.n =< MaxBlocks,
         NEW B, B = [s \in Slots |-> BlockOf(f, w, al, s)],
         NEW S, S = SplitData(f, w, al, Len(d))
  PROVE  /\ S = [e \in Blocks |-> S[e]]
         /\ Split(S, f, w.byj, B[w.bj], B[w.bj + w.n])
<1>0. PICK u, b, n, y, cut, to, last :
        /\ u = NrUsed(f) /\ b = w.bj /\ n = w.n /\ y = w.byj
        /\ cut = B[b] /\ to = B[b + n] /\ last = u + n - 1
  OBVIOUS
<1>1. /\ b \in Slots /\ n \in 1 .. MaxBlocks /\ y \in Nat /\ TypeOK
      /\ Len(d) \in Nat \ {0} /\ y =< MaxBlockSize
  BY <1>0, Planned DEF FileInv, Supported
<1>2. /\ NotNew(f) => u \in 1 .. MaxBlocks /\ b \in 0 .. u - 1
      /\ ~ NotNew(f) => u = 0 /\ b = 0 /\ y = 0
  BY <1>0, WhereJump
<1>3. /\ OneEach(B, last)
      /\ \A s \in Slots : get_block_number(Allocated(f, w, w.n, al)[s]) = B[s]
      /\ NotNew(f) => to = al[w.n - 1]
  BY <1>0, BlocksApart
<1>4. MaxBlocks \in Nat /\ Slots = 0 .. MaxBlocks - 1 /\ n \in Nat \ {0} /\ b \in Nat
      /\ u \in Nat /\ b \in 0 .. last
  BY <1>0, <1>1, <1>2, DiskAssumption, SMTT(60) DEF Slots
<1>5. cut \in Blocks /\ (NotNew(f) => to \in Blocks /\ to # cut)
  <2>1. cut \in Blocks BY <1>0, <1>3, <1>4 DEF OneEach
  <2>2. ASSUME NotNew(f) PROVE to \in Blocks /\ to # cut
    <3>1. b + n \in 0 .. last /\ b + n # b
      BY <1>0, <1>2, <1>4, <2>2, SMTT(60)
    <3> QED BY <1>0, <1>3, <1>4, <3>1 DEF OneEach
  <2> QED BY <2>1, <2>2
<1> DEFINE split == Copy(data[to], 0, data[cut], y, MaxBlockSize - y)
           moved == IF NotNew(f) THEN [data EXCEPT ![to] = split] ELSE data
           clear(e) == Copy(e, y + Len(d), Zeros, 0, MaxBlockSize - y - Len(d))
<1>6. get_block_number(Allocated(f, w, w.n, al)[IF NotNew(f) THEN w.bj ELSE 0]) = cut
  <2>1. (IF NotNew(f) THEN w.bj ELSE 0) = b BY <1>0, <1>2
  <2> QED BY <1>0, <1>1, <1>3, <2>1
<1>7. S = IF y + Len(d) < MaxBlockSize THEN [moved EXCEPT ![cut] = clear(@)] ELSE moved
  BY <1>0, <1>3, <1>6 DEF SplitData
<1>8. data = [e \in Blocks |-> data[e]] /\ DOMAIN data = Blocks
  BY <1>1 DEF TypeOK
<1> HIDE DEF split, clear
<1>9. /\ moved = [e \in Blocks |-> moved[e]] /\ DOMAIN moved = Blocks
      /\ \A e \in Blocks : (NotNew(f) => e # to) => moved[e] = data[e]
      /\ NotNew(f) => moved[to] = split
  BY <1>5, <1>8
<1> HIDE DEF moved
<1>10. /\ S = [e \in Blocks |-> S[e]]
       /\ \A e \in Blocks \ {cut} : S[e] = moved[e]
       /\ S[cut] = moved[cut] \/ S[cut] = clear(moved[cut])
  BY <1>5, <1>7, <1>9
<1>11. MaxBlockSize \in Nat /\ BlockSize \in Nat /\ MaxBlockSize =< BlockSize
  BY WidthAssumption DEF MaxBlockSize
<1>12. \A e \in Blocks : e # cut /\ (NotNew(f) => e # to) => S[e] = data[e]
  BY <1>9, <1>10
<1>13. ASSUME NotNew(f), NEW x \in 1 .. y PROVE S[cut][x - 1] = data[cut][0 + x - 1]
  <2>1. moved[cut] = data[cut] BY <1>5, <1>9, <1>13
  <2>2. x \in 1 .. BlockSize /\ x - 1 = 0 + x - 1 BY <1>1, <1>11
  <2>3. clear(data[cut])[x - 1] = data[cut][x - 1]
    <3> DEFINE at == y + Len(d)
               cnt == MaxBlockSize - y - Len(d)
    <3>1. at \in Int /\ cnt \in Int /\ ~ (at < x) BY <1>1, <1>11
    <3>2. clear(data[cut]) = Copy(data[cut], at, Zeros, 0, cnt)
      BY DEF clear
    <3> HIDE DEF at, cnt
    <3>3. clear(data[cut])[x - 1] =
            IF at < x /\ x =< at + cnt THEN Zeros[x - 1 - at + 0] ELSE data[cut][x - 1]
      BY <2>2, <3>1, <3>2, CopiedByte
    <3> QED BY <3>1, <3>3
  <2> QED BY <1>10, <2>1, <2>2, <2>3
<1>14. ASSUME NotNew(f), NEW x \in 1 .. MaxBlockSize - y
       PROVE  S[to][x - 1] = data[cut][y + x - 1]
  <2>1. S[to] = split BY <1>5, <1>9, <1>10, <1>14
  <2> DEFINE cnt == MaxBlockSize - y
  <2>2. x \in 1 .. BlockSize /\ cnt \in Int /\ 0 < x /\ x =< 0 + cnt /\ x - 1 - 0 + y = y + x - 1
    BY <1>1, <1>11
  <2>3. split = Copy(data[to], 0, data[cut], y, cnt) BY DEF split
  <2> HIDE DEF cnt
  <2>4. split[x - 1] = IF 0 < x /\ x =< 0 + cnt THEN data[cut][x - 1 - 0 + y] ELSE data[to][x - 1]
    BY <1>1, <2>2, <2>3, CopiedByte
  <2> QED BY <2>1, <2>2, <2>4
<1>15. NotNew(f) => /\ SameBytes(S[cut], data[cut], y, 0)
                    /\ SameBytes(S[to], data[cut], MaxBlockSize - y, y)
  BY <1>13, <1>14 DEF SameBytes
<1>16. Split(S, f, y, cut, to) BY <1>12, <1>15 DEF Split
<1> QED BY <1>0, <1>10, <1>16

\* What iteration k of the copy makes of a block.
Chunk(f, w, d, k, e) ==
  Copy(e, At(w, k), d, Source(w, k) + 1, Amount(f, w, Len(d), k))

\* The byte of d that iteration k puts in place x of its block, when y bytes of the
\* first block stay.
Nth(d, k, x, y) == d[k * MaxBlockSize + x - y]

\* A byte of the block of iteration k.
LEMMA ChunkByte ==
  ASSUME TypeOK, NEW f \in Inodes, NEW off \in Offsets, NEW d \in Payloads,
         NEW w \in Plans(f, off, Len(d)), Supported(f, off, Len(d), w),
         NEW k \in 0 .. w.n - 1, NEW e, NEW g \in [Slots -> Nat],
         Evenly(g, w.bj, w.n, w.byj + Len(d), MaxBlockSize),
         w.bj + k \in Slots, NEW x \in 1 .. BlockSize
  PROVE  /\ k = 0 /\ x =< w.byj => Chunk(f, w, d, k, e)[x - 1] = e[x - 1]
         /\ (k = 0 => w.byj < x) /\ x =< g[w.bj + k] =>
              Chunk(f, w, d, k, e)[x - 1] = Nth(d, k, x, w.byj)
<1>0. PICK b, n, y, L, M, at, cnt, src, p :
        /\ b = w.bj /\ n = w.n /\ y = w.byj /\ L = Len(d) /\ M = MaxBlockSize
        /\ at = At(w, k) /\ cnt = Amount(f, w, Len(d), k) /\ src = Source(w, k)
        /\ p = k * M
  OBVIOUS
<1>1. /\ b \in Slots /\ n \in 1 .. MaxBlocks /\ y \in Nat /\ L \in Nat \ {0}
      /\ Copies(f, w) = n /\ y =< M /\ M \in Nat \ {0}
  BY <1>0, Planned, WidthAssumption DEF Supported, Copies, MaxBlockSize
<1>2. b \in Nat /\ n \in Nat \ {0} /\ k \in Nat /\ k < n
  <2>1. k \in 0 .. n - 1 BY <1>0
  <2>2. b \in Nat /\ n \in Nat \ {0}
    BY <1>1, DiskAssumption DEF Slots
  <2> QED BY <2>1, <2>2
<1>3. p \in Int /\ (k = 0 => p = 0) /\ (k # 0 => p >= M)
  <2>1. p \in Int /\ (k = 0 => p = 0) BY <1>0, <1>1, <1>2
  <2>2. ASSUME k # 0 PROVE p >= M
    <3>1. PICK q \in Nat : k = q + 1 BY <1>2, <2>2
    <3>2. p = q * M + M /\ q * M \in Nat BY <1>0, <1>1, <3>1
    <3> QED BY <1>1, <3>2
  <2> QED BY <2>1, <2>2
<1>4. /\ at = IF k = 0 THEN y ELSE 0
      /\ src = IF k = 0 THEN 0 ELSE p - y
      /\ cnt = IF k = n - 1 THEN L - src ELSE M - at
  BY <1>0, <1>1 DEF At, Source, Amount
<1>5. at \in Int /\ src \in Int /\ cnt \in Int /\ src + 1 \in Int /\ src - at = p - y
  BY <1>1, <1>3, <1>4
<1>6. g[b + k] = at + cnt
  <2>1. CASE k = n - 1
    <3>1. g[b + n - 1] = (y + L) - (n - 1) * M BY <1>0 DEF Evenly
    <3>2. b + n - 1 = b + k /\ n - 1 = k BY <1>2, <2>1
    <3>3. at + cnt = (y + L) - p BY <1>1, <1>3, <1>4, <1>5, <2>1
    <3>4. g[b + k] = (y + L) - k * M BY <3>1, <3>2
    <3> QED BY <1>0, <3>3, <3>4
  <2>2. CASE k # n - 1
    <3>1. b + k \in b .. b + n - 2 BY <1>2, <2>2
    <3>2. g[b + k] = M BY <1>0, <3>1 DEF Evenly
    <3> QED BY <1>1, <1>4, <1>5, <2>2, <3>2
  <2> QED BY <2>1, <2>2
<1>7. Chunk(f, w, d, k, e)[x - 1] =
        IF at < x /\ x =< at + cnt THEN d[x - 1 - at + (src + 1)] ELSE e[x - 1]
  <2>1. Chunk(f, w, d, k, e) = Copy(e, at, d, src + 1, cnt)
    BY <1>0 DEF Chunk
  <2>2. PICK fr : fr = src + 1 OBVIOUS
  <2>3. Copy(e, at, d, fr, cnt)[x - 1] =
          IF at < x /\ x =< at + cnt THEN d[x - 1 - at + fr] ELSE e[x - 1]
    BY <1>5, <2>2, CopiedByte
  <2> QED BY <2>1, <2>2, <2>3
<1>8. x \in Nat \ {0} BY WidthAssumption
<1>9. ASSUME k = 0, x =< y PROVE Chunk(f, w, d, k, e)[x - 1] = e[x - 1]
  BY <1>1, <1>4, <1>7, <1>8, <1>9
<1>10. ASSUME k = 0 => y < x, x =< g[b + k]
       PROVE  Chunk(f, w, d, k, e)[x - 1] = d[p + x - y]
  <2>1. at < x /\ x =< at + cnt BY <1>4, <1>6, <1>8, <1>10
  <2>2. x - 1 - at + (src + 1) = p + x - y
    BY <1>1, <1>3, <1>5, <1>8
  <2> QED BY <1>7, <2>1, <2>2
<1> QED BY <1>0, <1>9, <1>10 DEF Nth

\* The bytes of d lie in the blocks of n slots from b on, after the first y bytes.
Filled(N, B, d, b, n, y, g) ==
  \A k \in 0 .. n - 1 : \A x \in 1 .. g[b + k] :
    (k = 0 => y < x) => N[B[b + k]][x - 1] = Nth(d, k, x, y)

\* The slots that a write neither splits nor copies to.
Aside(N, B, b, n, last) ==
  \A s \in 0 .. last : s < b \/ s > b + n => N[B[s]] = data[B[s]]

\* The bytes when the last copy is done.
LEMMA CopyBytes ==
  ASSUME FileInv({}), Sized, NEW f \in Inodes, NEW off \in Offsets, NEW d \in Payloads,
         NEW w \in Plans(f, off, Len(d)), Supported(f, off, Len(d), w),
         NEW al \in FirstFree(w.n), First(f, w) + w.n =< MaxBlocks,
         NEW B, B = [s \in Slots |-> BlockOf(f, w, al, s)],
         NEW N, N = CopyData(f, w, al, d, w.n),
         NEW g \in [Slots -> Nat],
         Evenly(g, w.bj, w.n, w.byj + Len(d), MaxBlockSize),
         \A s \in Slots : g[s] =< MaxBlockSize
  PROVE  /\ Aside(N, B, w.bj, w.n, NrUsed(f) + w.n - 1)
         /\ NotNew(f) =>
              /\ SameBytes(N[B[w.bj]], data[B[w.bj]], w.byj, 0)
              /\ SameBytes(N[B[w.bj + w.n]], data[B[w.bj]], MaxBlockSize - w.byj, w.byj)
         /\ Filled(N, B, d, w.bj, w.n, w.byj, g)
<1>0. PICK u, b, n, y, cut, to, last :
        /\ u = NrUsed(f) /\ b = w.bj /\ n = w.n /\ y = w.byj
        /\ cut = B[b] /\ to = B[b + n] /\ last = u + n - 1
  OBVIOUS
<1>1. /\ b \in Slots /\ n \in 1 .. MaxBlocks /\ y \in Nat /\ TypeOK /\ y =< MaxBlockSize
  BY <1>0, Planned DEF FileInv, Supported
<1>2. /\ NotNew(f) => u \in 1 .. MaxBlocks /\ b \in 0 .. u - 1
      /\ ~ NotNew(f) => u = 0 /\ b = 0 /\ y = 0
  BY <1>0, WhereJump
<1>3. /\ OneEach(B, last)
      /\ \A s \in Slots : get_block_number(Allocated(f, w, w.n, al)[s]) = B[s]
  BY <1>0, BlocksApart, SMTT(60)
<1>4. MaxBlocks \in Nat /\ Slots = 0 .. MaxBlocks - 1 /\ n \in Nat \ {0} /\ b \in Nat
      /\ u \in Nat /\ last \in Nat /\ b \in 0 .. last /\ b + n - 1 =< last
      /\ (NotNew(f) => b + n =< last)
  <2>1. MaxBlocks \in Nat /\ Slots = 0 .. MaxBlocks - 1
    BY DiskAssumption DEF Slots
  <2>2. n \in Nat \ {0} /\ b \in Nat /\ u \in Nat /\ (NotNew(f) => b < u) /\ (~ NotNew(f) => b = 0 /\ u = 0)
    BY <1>1, <1>2, <2>1
  <2>3. last = u + n - 1 BY <1>0
  <2> QED BY <2>1, <2>2, <2>3
<1>5. PICK S : S = SplitData(f, w, al, Len(d)) OBVIOUS
<1>6. S = [e \in Blocks |-> S[e]] /\ Split(S, f, y, cut, to)
  BY <1>0, <1>5, SplitBytes
<1>7. ASSUME NEW k \in 0 .. n - 1 PROVE b + k \in 0 .. last /\ b + k \in Slots
  <2>1. b + k \in 0 .. last BY <1>4
  <2> QED BY <1>3, <2>1 DEF OneEach
<1> DEFINE block(k) == get_block_number(Allocated(f, w, w.n, al)[w.bj + k])
           head == [S EXCEPT ![block(0)] = Chunk(f, w, d, 0, @)]
<1>8. N = [e \in Blocks |->
             IF \E k \in 1 .. n - 1 : block(k) = e
             THEN Chunk(f, w, d, CHOOSE k \in 1 .. n - 1 : block(k) = e, head[e])
             ELSE head[e]]
  <2>1. w.n # 0 /\ w.n = n BY <1>0, <1>4
  <2> QED BY <1>5, <2>1 DEF CopyData, Chunk
<1>9. \A k \in 0 .. n - 1 : block(k) = B[b + k]
  BY <1>0, <1>3, <1>7
<1> HIDE DEF block
<1>10. block(0) = cut /\ cut \in Blocks
  <2>1. 0 \in 0 .. n - 1 /\ b + 0 = b BY <1>4
  <2> QED BY <1>0, <1>3, <1>4, <1>9, <2>1, ZenonT(60) DEF OneEach
<1>11. head[cut] = Chunk(f, w, d, 0, S[cut]) /\ \A e \in Blocks \ {cut} : head[e] = S[e]
  BY <1>6, <1>10
<1> HIDE DEF head
<1>12. ASSUME NEW e \in Blocks, \A k \in 1 .. n - 1 : B[b + k] # e
       PROVE  N[e] = head[e]
  <2>1. \A k \in 1 .. n - 1 : k \in 0 .. n - 1 BY <1>4
  <2>2. ~ \E k \in 1 .. n - 1 : block(k) = e BY <1>9, <1>12, <2>1
  <2> QED BY <1>8, <2>2
<1>13. ASSUME NEW k \in 1 .. n - 1 PROVE N[B[b + k]] = Chunk(f, w, d, k, S[B[b + k]])
  <2>0. PICK e : e = B[b + k] OBVIOUS
  <2>1. k \in 0 .. n - 1 /\ b + k \in 0 .. last /\ b + k # b
    BY <1>4, <1>7
  <2>2. e \in Blocks /\ e # cut
    BY <1>0, <1>3, <1>4, <2>0, <2>1 DEF OneEach
  <2>3. block(k) = e BY <1>9, <2>0, <2>1
  <2>4. ASSUME NEW m \in 1 .. n - 1, block(m) = e PROVE m = k
    <3>1. m \in 0 .. n - 1 /\ b + m \in 0 .. last BY <1>4, <1>7
    <3>2. B[b + m] = B[b + k] BY <1>9, <2>0, <2>4, <3>1
    <3>3. b + m = b + k BY <1>3, <2>1, <3>1, <3>2 DEF OneEach
    <3> QED BY <1>4, <3>3
  <2>5. (CHOOSE m \in 1 .. n - 1 : block(m) = e) = k BY <2>3, <2>4
  <2>6. N[e] = Chunk(f, w, d, k, head[e])
    BY <1>8, <2>2, <2>3, <2>5
  <2>7. head[e] = S[e] BY <1>11, <2>2
  <2> QED BY <2>0, <2>6, <2>7
<1>14. N[cut] = Chunk(f, w, d, 0, S[cut])
  <2>1. ASSUME NEW k \in 1 .. n - 1 PROVE B[b + k] # cut
    <3>1. k \in 0 .. n - 1 /\ b + k \in 0 .. last /\ b + k # b
      BY <1>4, <1>7
    <3> QED BY <1>0, <1>3, <1>4, <3>1 DEF OneEach
  <2> QED BY <1>10, <1>11, <1>12, <2>1
<1>15. ASSUME NEW s \in 0 .. last, s < b \/ s > b + n - 1 PROVE N[B[s]] = S[B[s]]
  <2>1. B[s] \in Blocks /\ s # b
    <3>1. s # b BY <1>4, <1>15
    <3> QED BY <1>3, <3>1 DEF OneEach
  <2>2. B[s] # cut BY <1>0, <1>3, <1>4, <2>1 DEF OneEach
  <2>3. ASSUME NEW k \in 1 .. n - 1 PROVE B[b + k] # B[s]
    <3>1. k \in 0 .. n - 1 /\ b + k \in 0 .. last /\ b + k # s
      BY <1>4, <1>7, <1>15
    <3> QED BY <1>3, <3>1 DEF OneEach
  <2> QED BY <1>11, <1>12, <2>1, <2>2, <2>3
<1>16. Aside(N, B, b, n, last)
  <2>1. ASSUME NEW s \in 0 .. last, s < b \/ s > b + n PROVE N[B[s]] = data[B[s]]
    <3>1. B[s] \in Blocks /\ s # b /\ s # b + n /\ (s < b \/ s > b + n - 1)
      <4>1. s # b /\ s # b + n /\ (s < b \/ s > b + n - 1)
        BY <1>4, <2>1
      <4> QED BY <1>3, <4>1 DEF OneEach
    <3>2. B[s] # cut BY <1>0, <1>3, <1>4, <3>1 DEF OneEach
    <3>3. NotNew(f) => B[s] # to
      <4>1. NotNew(f) => b + n \in 0 .. last BY <1>4
      <4> QED BY <1>0, <1>3, <3>1, <4>1 DEF OneEach
    <3>4. S[B[s]] = data[B[s]] BY <1>6, <3>1, <3>2, <3>3 DEF Split
    <3> QED BY <1>15, <3>1, <3>4
  <2> QED BY <2>1 DEF Aside
<1>17. MaxBlockSize \in Nat \ {0} /\ BlockSize \in Nat /\ MaxBlockSize =< BlockSize
  BY WidthAssumption DEF MaxBlockSize
<1>18. Evenly(g, w.bj, w.n, w.byj + Len(d), MaxBlockSize) OBVIOUS
<1>19. ASSUME NotNew(f), NEW x \in 1 .. y PROVE N[cut][x - 1] = data[cut][0 + x - 1]
  <2>1. x \in 1 .. BlockSize /\ x =< w.byj BY <1>0, <1>1, <1>17
  <2>2. PICK k, e : k = 0 /\ e = S[cut] OBVIOUS
  <2>3. k \in 0 .. w.n - 1 /\ w.bj + k \in Slots
    <3>1. k \in 0 .. n - 1 BY <1>4, <2>2
    <3>2. b + k \in Slots BY <1>7, <3>1
    <3> QED BY <1>0, <3>1, <3>2
  <2>4. Chunk(f, w, d, k, e)[x - 1] = e[x - 1]
    BY <1>1, <1>18, <2>1, <2>2, <2>3, ChunkByte
  <2>5. S[cut][x - 1] = data[cut][0 + x - 1]
    BY <1>6, <1>19 DEF Split, SameBytes
  <2> QED BY <1>14, <2>2, <2>4, <2>5
<1>20. ASSUME NotNew(f) PROVE SameBytes(N[to], data[cut], MaxBlockSize - y, y)
  <2>1. b + n \in 0 .. last /\ b + n > b + n - 1 BY <1>4, <1>20
  <2>2. N[to] = S[to] BY <1>0, <1>15, <2>1
  <2> QED BY <1>6, <1>20, <2>2 DEF Split
<1>21. ASSUME NEW k \in 0 .. n - 1, NEW x \in 1 .. g[b + k], k = 0 => y < x
       PROVE  N[B[b + k]][x - 1] = Nth(d, k, x, y)
  <2>1. PICK e : e = S[B[b + k]] OBVIOUS
  <2>2. N[B[b + k]] = Chunk(f, w, d, k, e)
    <3>1. CASE k = 0
      <4>1. b + k = b BY <1>4, <3>1
      <4> QED BY <1>0, <1>14, <2>1, <3>1, <4>1
    <3>2. CASE k # 0
      <4>1. k \in 1 .. n - 1 BY <1>4, <3>2
      <4> QED BY <1>13, <2>1, <4>1
    <3> QED BY <3>1, <3>2
  <2>3. x \in 1 .. BlockSize /\ x =< g[b + k]
    <3>1. g[b + k] \in Nat /\ g[b + k] =< MaxBlockSize BY <1>7
    <3> QED BY <1>17, <3>1
  <2>4. k \in 0 .. w.n - 1 /\ w.bj + k \in Slots /\ x =< g[w.bj + k] /\ (k = 0 => w.byj < x)
    BY <1>0, <1>7, <1>21, <2>3
  <2>5. Chunk(f, w, d, k, e)[x - 1] = Nth(d, k, x, w.byj)
    <3>1. PICK v, at : v = x /\ at = k OBVIOUS
    <3>2. /\ v \in 1 .. BlockSize /\ at \in 0 .. w.n - 1 /\ w.bj + at \in Slots
          /\ x =< g[w.bj + k]
      BY <2>3, <2>4, <3>1
    <3>3. (at = 0 => w.byj < v) /\ v =< g[w.bj + at] =>
             Chunk(f, w, d, at, e)[v - 1] = Nth(d, at, v, w.byj)
      BY <1>1, <1>18, <3>2, ChunkByte, SMTT(60)
    <3>4. (at = 0 => w.byj < v) /\ v =< g[w.bj + at] BY <2>4, <3>1
    <3> QED BY <3>1, <3>3, <3>4
  <2> QED BY <1>0, <2>2, <2>5
<1>22. Filled(N, B, d, b, n, y, g) BY <1>21 DEF Filled
<1>23. NotNew(f) => SameBytes(N[cut], data[cut], y, 0)
  BY <1>19 DEF SameBytes
<1> QED BY <1>0, <1>16, <1>20, <1>22, <1>23

\* The bytes of the blocks that the words of a file name.
BytesOf(f) == [s \in Slots |-> data[NumberAt(f, s)]]
FileLaid(f) == Laid(Content(f), Sizes(f), NrUsed(f), BytesOf(f))

\* What a file reads as is laid out over its blocks.
LEMMA FilesLaid == FileInv({}) /\ Positive => \A f \in Linked : FileLaid(f)
<1> SUFFICES ASSUME FileInv({}), Positive, NEW f \in Linked PROVE FileLaid(f)
  OBVIOUS
<1>1. Located(f) /\ TypeOK /\ f \in Inodes
  BY ContentBytes DEF FileInv, Linked
<1>2. \A s \in Slots : Sizes(f)[s] = SizeAt(f, s) /\ BytesOf(f)[s] = data[NumberAt(f, s)]
  BY <1>1, SizesFit DEF BytesOf
<1> QED BY <1>1, <1>2 DEF Located, Laid, FileLaid

\* Every file is laid out in its slots after a step.
LEMMA FilesLaidNext ==
  ASSUME FileInv({})', Positive' PROVE \A f \in Linked' : FileLaid(f)'
<1>1. (FileInv({}) /\ Positive => \A f \in Linked : FileLaid(f))'
  BY FilesLaid, PTL
<1> QED BY <1>1

\* The sizes of the slots that no byte of a write goes to.
EndSizes(g, h, b, n, y, u) ==
  /\ \A s \in 0 .. b - 1 : g[s] = h[s]
  /\ g[b + n] = IF h[b] >= y THEN h[b] - y ELSE 0
  /\ \A s \in b + 1 .. u - 1 : g[s + n] = h[s]
  /\ h[b] < y => b = u - 1

\* Fewer bytes are the same too.
LEMMA SameFewer ==
  ASSUME NEW new, NEW old, NEW z \in Int, NEW m \in Int, m =< z, NEW from,
         SameBytes(new, old, z, from)
  PROVE  SameBytes(new, old, m, from)
BY DEF SameBytes

\* Their bytes.
LEMMA Ends ==
  ASSUME NEW f, NotNew(f), NEW u \in 1 .. MaxBlocks, NEW b \in 0 .. u - 1,
         NEW n \in Nat \ {0}, u + n =< MaxBlocks, NEW y \in 0 .. MaxBlockSize,
         NEW h \in [Slots -> Nat], h[b] =< MaxBlockSize, NEW g, NEW B, NEW N, NEW D, NEW E,
         D = BytesOf(f), E = [s \in Slots |-> N[B[s]]],
         EndSizes(g, h, b, n, y, u), FromOld(B, f, b, n, u), Aside(N, B, b, n, u + n - 1),
         SameBytes(N[B[b + n]], data[B[b]], g[b + n], y)
  PROVE  Ahead(g, h, E, D, b) /\ Behind(g, h, E, D, b, n, y, u)
<1>1. MaxBlocks \in Nat /\ Slots = 0 .. MaxBlocks - 1 /\ u \in Nat /\ b \in Nat /\ b < u
      /\ MaxBlockSize \in Nat /\ y \in Nat
  <2>1. MaxBlocks \in Nat /\ Slots = 0 .. MaxBlocks - 1
    BY DiskAssumption DEF Slots
  <2>2. MaxBlockSize \in Nat BY WidthAssumption DEF MaxBlockSize
  <2> QED BY <2>1, <2>2
<1>2. /\ \A s \in 0 .. b : B[s] = NumberAt(f, s)
      /\ \A s \in b + 1 .. u - 1 : B[s + n] = NumberAt(f, s)
  BY DEF FromOld
<1>3. ASSUME NEW s \in 0 .. b - 1 PROVE g[s] = h[s] /\ SameBytes(E[s], D[s], h[s], 0)
  <2>1. s \in Slots /\ s \in 0 .. u + n - 1 /\ s < b /\ s \in 0 .. b
    BY <1>1
  <2>2. N[B[s]] = data[NumberAt(f, s)] BY <1>2, <2>1 DEF Aside
  <2>3. E[s] = D[s] BY <2>1, <2>2 DEF BytesOf
  <2>4. g[s] = h[s] BY DEF EndSizes
  <2>5. \A x \in 1 .. h[s] : x - 1 = 0 + x - 1 BY <2>1
  <2> QED BY <2>3, <2>4, <2>5 DEF SameBytes
<1>4. ASSUME NEW s \in b + 1 .. u - 1
      PROVE  g[s + n] = h[s] /\ SameBytes(E[s + n], D[s], h[s], 0)
  <2>0. PICK t : t = s + n OBVIOUS
  <2>1. s \in Slots /\ t \in Slots /\ t \in 0 .. u + n - 1 /\ t > b + n
    BY <1>1, <2>0
  <2>2. N[B[t]] = data[NumberAt(f, s)]
    BY <1>2, <2>0, <2>1 DEF Aside
  <2>3. E[t] = D[s] BY <2>1, <2>2 DEF BytesOf
  <2>4. g[t] = h[s] BY <2>0 DEF EndSizes
  <2>5. \A x \in 1 .. h[s] : x - 1 = 0 + x - 1 BY <2>1
  <2> QED BY <2>0, <2>3, <2>4, <2>5 DEF SameBytes
<1>5. /\ g[b + n] = IF h[b] >= y THEN h[b] - y ELSE 0
      /\ h[b] < y => b = u - 1
  BY DEF EndSizes
<1>6. SameBytes(E[b + n], D[b], g[b + n], y)
  <2>0. PICK t : t = b + n OBVIOUS
  <2>1. t \in Slots /\ b \in Slots /\ b \in 0 .. b BY <1>1, <2>0
  <2>2. E[t] = N[B[t]] /\ D[b] = data[B[b]]
    BY <1>2, <2>1 DEF BytesOf
  <2> QED BY <2>0, <2>2
<1> QED BY <1>3, <1>4, <1>5, <1>6 DEF Ahead, Behind

\* The bytes that a write puts between them.
LEMMA Between ==
  ASSUME NEW f, NEW u \in 0 .. MaxBlocks, NEW b \in 0 .. u, NEW n \in Nat \ {0},
         u + n =< MaxBlocks, NEW y \in Nat, y =< MaxBlockSize, b < u => NotNew(f),
         b = u => u = 0,
         NEW h \in [Slots -> Nat], NEW g \in [Slots -> Nat],
         NEW B, NEW N, NEW D, NEW E, NEW d,
         D = BytesOf(f), E = [s \in Slots |-> N[B[s]]],
         Total(h)[b] \in Nat,
         \A k \in 0 .. n - 1 : Total(g)[b + k] = Total(h)[b] + k * MaxBlockSize,
         FromOld(B, f, b, n, u), Filled(N, B, d, b, n, y, g),
         NotNew(f) => SameBytes(N[B[b]], data[B[b]], y, 0)
  PROVE  Middle(g, h, E, D, d, b, n, y, u)
<1>1. MaxBlocks \in Nat /\ Slots = 0 .. MaxBlocks - 1 /\ u \in Nat /\ b \in Nat /\ b =< u
      /\ MaxBlockSize \in Nat
  BY DiskAssumption, WidthAssumption DEF Slots, MaxBlockSize
<1> SUFFICES ASSUME NEW s \in b .. b + n - 1, NEW x \in 1 .. g[s]
             PROVE  \/ /\ s = b /\ x =< y
                       /\ b < u /\ x =< h[b] => E[b][x - 1] = D[b][x - 1]
                    \/ /\ Total(g)[s] + x > Total(h)[b] + y
                       /\ E[s][x - 1] = d[Total(g)[s] + x - (Total(h)[b] + y)]
  BY DEF Middle
<1>2. PICK k : k = s - b OBVIOUS
<1>3. k \in 0 .. n - 1 /\ s = b + k /\ s \in Slots /\ b \in Slots /\ g[s] \in Nat
  BY <1>1, <1>2
<1>4. x \in Nat \ {0} BY <1>3
<1>5. CASE s = b /\ x =< y
  <2>1. ASSUME b < u PROVE E[b][x - 1] = D[b][x - 1]
    <3>1. b \in 0 .. b /\ NotNew(f) BY <1>1, <2>1
    <3>2. B[b] = NumberAt(f, b) BY <3>1 DEF FromOld
    <3>3. x \in 1 .. y /\ 0 + x - 1 = x - 1 BY <1>4, <1>5
    <3>4. N[B[b]][x - 1] = data[B[b]][x - 1]
      BY <3>1, <3>3 DEF SameBytes
    <3> QED BY <1>3, <3>2, <3>4 DEF BytesOf
  <2> QED BY <1>5, <2>1
<1>6. CASE ~ (s = b /\ x =< y)
  <2>1. k = 0 => y < x BY <1>1, <1>3, <1>4, <1>6
  <2>2. N[B[s]][x - 1] = Nth(d, k, x, y) BY <1>3, <2>1 DEF Filled
  <2>3. PICK p, t, o : p = k * MaxBlockSize /\ t = Total(g)[s] /\ o = Total(h)[b]
    OBVIOUS
  <2>4. t = o + p /\ o \in Nat BY <1>3, <2>3
  <2>5. p \in Int /\ (k = 0 => p = 0) /\ (k # 0 => p >= MaxBlockSize)
    <3>1. p \in Int /\ (k = 0 => p = 0) BY <1>1, <1>3, <2>3
    <3>2. ASSUME k # 0 PROVE p >= MaxBlockSize
      <4>1. PICK q \in Nat : k = q + 1 BY <1>3, <3>2
      <4>2. PICK M : M = MaxBlockSize OBVIOUS
      <4>3. p = q * M + M /\ q * M \in Nat
        BY <1>1, <2>3, <4>1, <4>2
      <4> QED BY <1>1, <4>2, <4>3
    <3> QED BY <3>1, <3>2
  <2>6. t + x > o + y /\ t + x - (o + y) = p + x - y
    BY <1>1, <1>4, <2>1, <2>4, <2>5
  <2>7. E[s][x - 1] = d[t + x - (o + y)]
    BY <1>3, <2>2, <2>3, <2>6 DEF Nth
  <2> QED BY <2>3, <2>6, <2>7
<1> QED BY <1>5, <1>6

\* What an allocation leaves of a file: its words, the blocks of its slots, their
\* sizes and their bytes.
Leaves(f, w, al, new, N, B, g, E) ==
  /\ Rewritten(f, w, al, new) /\ index'[f] = new /\ data' = N
  /\ B = [s \in Slots |-> BlockOf(f, w, al, s)]
  /\ g = Sizes(f)' /\ E = BytesOf(f)'

\* What the words and blocks that a write leaves say of every slot.
LEMMA NewSlots ==
  ASSUME NEW f \in Inodes, NEW w, NEW al, NEW new, NEW N, NEW B, NEW g, NEW E,
         Leaves(f, w, al, new, N, B, g, E)
  PROVE  /\ g \in [Slots -> Nat]
         /\ \A s \in Slots : HasSize(new, s, g[s]) /\ g[s] =< MaxBlockSize
         /\ E = [s \in Slots |-> N[B[s]]]
<1>0. /\ Rewritten(f, w, al, new) /\ index'[f] = new /\ data' = N
      /\ B = [s \in Slots |-> BlockOf(f, w, al, s)]
      /\ g = Sizes(f)' /\ E = BytesOf(f)'
  BY DEF Leaves
<1>1. g = [s \in Slots |-> get_block_size(new[s])]
  BY <1>0 DEF Sizes, SizeAt
<1>2. ASSUME NEW s \in Slots
      PROVE  get_block_size(new[s]) \in Nat /\ get_block_size(new[s]) =< MaxBlockSize
  <2>1. new[s] \in Word BY <1>0 DEF Rewritten
  <2>2. get_block_size(new[s]) \in 0 .. BlockSize - 1
    BY <2>1, FieldRange
  <2>3. BlockSize \in Nat BY WidthAssumption
  <2> QED BY <2>2, <2>3 DEF MaxBlockSize
<1>3. E = [s \in Slots |-> N[get_block_number(new[s])]]
  BY <1>0 DEF BytesOf, NumberAt
<1>4. \A s \in Slots : get_block_number(new[s]) = B[s]
  BY <1>0 DEF Rewritten, BlockOf
<1> QED BY <1>1, <1>2, <1>3, <1>4 DEF HasSize

\* What a write of d at off makes of a file: the bytes of the file with those of d
\* inserted, whatever blocks they are in.
LEMMA WriteInserts ==
  ASSUME FileInv({}), Sized, FileInv({})', Sized', NEW f \in Inodes,
         NEW off \in Offsets, NEW d \in Payloads, NEW w \in Plans(f, off, Len(d)),
         Supported(f, off, Len(d), w), Write(f, off, d, w)
  PROVE  f \in Linked' /\ Insertion(Content(f)', Content(f), d, Len(d), off)
<1>1. PICK al \in FirstFree(w.n) :
        /\ index' = [index EXCEPT ![f] = CopyIndex(f, w, al, Len(d), Copies(f, w))]
        /\ data' = CopyData(f, w, al, d, Copies(f, w))
  BY DEF Write
<1>2. /\ inode' = [inode EXCEPT ![f].blocks = @ + w.n,
                                ![f].size = @ + Len(d) + EmptySpace(f, off)]
      /\ ~ Overruns(f, w, Len(d))
  BY DEF Write
<1>0. PICK u, b, n, y, L, c, e, h, g, new, N, B, D, E :
        /\ u = NrUsed(f) /\ b = w.bj /\ n = w.n /\ y = w.byj /\ L = Len(d)
        /\ c = Content(f) /\ e = Content(f)' /\ h = Sizes(f) /\ g = Sizes(f)'
        /\ new = CopyIndex(f, w, al, Len(d), w.n) /\ N = data'
        /\ B = [s \in Slots |-> BlockOf(f, w, al, s)]
        /\ D = BytesOf(f) /\ E = BytesOf(f)'
  OBVIOUS
<1>3. /\ b \in Slots /\ n \in 1 .. MaxBlocks /\ y \in Nat /\ TypeOK /\ L \in Nat \ {0}
      /\ y =< MaxBlockSize /\ f \in Linked /\ u + n =< MaxBlocks
  BY <1>0, Planned DEF FileInv, Supported, Live, Linked
<1>4. /\ off \in Nat
      /\ NotNew(f) =>
           /\ u \in 1 .. MaxBlocks /\ b \in 0 .. u - 1 /\ y = off - Total(h)[b]
           /\ off =< Total(h)[u] => y =< SizeAt(f, b)
           /\ off > Total(h)[u] => b = u - 1
      /\ ~ NotNew(f) => u = 0 /\ b = 0 /\ y = 0 /\ off = 0
  BY <1>0, WhereJump
<1>5. /\ MaxBlocks \in Nat /\ Slots = 0 .. MaxBlocks - 1 /\ MaxBlockSize \in Nat
      /\ n \in Nat \ {0} /\ b \in Nat /\ u \in 0 .. MaxBlocks /\ b \in 0 .. u
      /\ (b = u => u = 0 /\ y = 0) /\ (b < u => NotNew(f)) /\ (NotNew(f) => b < u)
  <2>1. MaxBlocks \in Nat /\ Slots = 0 .. MaxBlocks - 1
    BY DiskAssumption DEF Slots
  <2>2. MaxBlockSize \in Nat BY WidthAssumption DEF MaxBlockSize
  <2>3. n \in Nat \ {0} /\ b \in Nat /\ u \in 0 .. MaxBlocks
    BY <1>3, <1>4, <2>1
  <2> QED BY <1>4, <2>1, <2>2, <2>3
<1>6. Copies(f, w) = w.n BY DEF Supported, Copies
<1>7. index'[f] = new /\ N = CopyData(f, w, al, d, w.n) /\ data' = N
  BY <1>0, <1>1, <1>3, <1>6 DEF TypeOK
<1>8. f \in Linked' /\ NrUsed(f)' = u + n
  <2>1. inode'[f].blocks = inode[f].blocks + w.n /\ inode'[f].linked = inode[f].linked
    BY <1>2, <1>3 DEF TypeOK
  <2>2. inode[f].blocks \in Int /\ w.n \in Int
    <3>1. inode[f].blocks \in 0 .. MaxBlocks + 1
      BY <1>3 DEF TypeOK
    <3> QED BY <1>0, <1>5, <3>1
  <2> QED BY <1>0, <1>3, <2>1, <2>2 DEF NrUsed, Linked
<1>9. First(f, w) + w.n =< MaxBlocks
  <2>1. First(f, w) \in Int /\ w.n \in Int BY <1>0, <1>5 DEF First
  <2> QED BY <1>2, <1>5, <2>1 DEF Overruns
<1>10. Rewritten(f, w, al, new)
  <2>1. PICK X, k : X = {} /\ k = w.n OBVIOUS
  <2>2. FileInv(X) /\ f \notin X /\ k \in 0 .. Copies(f, w)
    BY <1>0, <1>5, <1>6, <2>1
  <2> QED BY <1>0, <2>1, <2>2, WrittenWord DEF Rewritten
<1>11. /\ g \in [Slots -> Nat]
       /\ \A s \in Slots : HasSize(new, s, g[s]) /\ g[s] =< MaxBlockSize
       /\ E = [s \in Slots |-> N[B[s]]]
  <2>1. Leaves(f, w, al, new, N, B, g, E)
    BY <1>0, <1>7, <1>10 DEF Leaves
  <2> QED BY <2>1, NewSlots
<1>12. Laid(c, h, u, D) /\ Laid(e, g, u + n, E)
  <2>1. Positive /\ Positive' BY DEF Sized
  <2>2. FileLaid(f) /\ FileLaid(f)'
    BY <1>3, <1>8, <2>1, FilesLaid, FilesLaidNext
  <2>3. FileLaid(f)' = Laid(Content(f)', Sizes(f)', NrUsed(f)', BytesOf(f)')
    BY DEF FileLaid
  <2> QED BY <1>0, <1>8, <2>2, <2>3 DEF FileLaid
<1>13. h \in [Slots -> Nat] /\ h \in [Slots -> Int]
       /\ \A s \in Slots : h[s] = SizeAt(f, s) /\ h[s] =< MaxBlockSize
  BY <1>0, <1>3, <1>5, SizesFit
<1>14. NewSizes(f, new, b, n, u, y, L)
  <2>1. ~ NotNew(f) => w.byj = 0 BY <1>0, <1>4
  <2>2. NotNew(f) => NrUsed(f) \in 1 .. MaxBlocks BY <1>0, <1>4
  <2> QED BY <1>0, <1>9, <2>1, <2>2, WrittenSizes
<1>15. \A s \in Slots : \A z : HasSize(new, s, z) <=> g[s] = z
  BY <1>11 DEF HasSize
<1>16. Evenly(g, b, n, y + L, MaxBlockSize)
  <2>1. \A s \in b .. b + n - 2 : s \in Slots BY <1>3, <1>5
  <2>2. b + n - 1 \in Slots BY <1>3, <1>5
  <2>3. \A s \in b .. b + n - 2 : g[s] = MaxBlockSize
    <3>1. \A s \in b .. b + n - 2 : HasSize(new, s, MaxBlockSize)
      BY <1>14 DEF NewSizes
    <3> QED BY <1>15, <2>1, <3>1
  <2>4. PICK A, M : A = y + L /\ M = MaxBlockSize OBVIOUS
  <2>5. HasSize(new, b + n - 1, y + L - (n - 1) * MaxBlockSize)
    BY <1>14 DEF NewSizes
  <2>6. HasSize(new, b + n - 1, A - (n - 1) * M)
    BY <1>3, <1>5, <2>4, <2>5
  <2>7. g[b + n - 1] = A - (n - 1) * M BY <1>15, <2>2, <2>6
  <2>8. \A s \in b .. b + n - 2 : g[s] = M BY <2>3, <2>4
  <2>9. Evenly(g, b, n, A, M) BY <2>7, <2>8 DEF Evenly
  <2> QED BY <2>4, <2>9
<1>17. /\ \A k \in 0 .. b : Total(g)[k] = Total(h)[k]
       /\ \A k \in 0 .. n - 1 : Total(g)[b + k] = Total(h)[b] + k * MaxBlockSize
       /\ Total(g)[b + n] = Total(h)[b] + y + L
       /\ NotNew(f) => \A k \in b + 1 .. u :
            Total(g)[k + n] = Total(h)[k] + L + Gap(off, Total(h)[u])
       /\ Total(g)[u + n] = Total(h)[u] + L + Gap(off, Total(h)[u])
  <2>1. \A s \in Slots : HasSize(new, s, g[s]) BY <1>11
  <2>2. /\ First(f, w) + w.n =< MaxBlocks /\ new = CopyIndex(f, w, al, Len(d), w.n)
        /\ g \in [Slots -> Nat] /\ h = Sizes(f) /\ u = NrUsed(f)
    BY <1>0, <1>9, <1>11
  <2>3. TotalsAfter(f, g, h, w.bj, w.n, w.byj, Len(d), u, off)
    BY <2>1, <2>2, WrittenTotals
  <2>4. TotalsAfter(f, g, h, b, n, y, L, u, off) BY <1>0, <2>3
  <2> QED BY <2>4 DEF TotalsAfter
<1>18. /\ \A k \in 0 .. MaxBlocks : Total(h)[k] \in Nat
       /\ Total(h)[0] = 0 /\ Total(h)[b] \in Nat /\ Total(h)[u] \in Nat
  <2>1. b \in 0 .. MaxBlocks BY <1>5
  <2> QED BY <1>5, <1>13, <2>1, TotalOf, TotalGrows
<1>19. off = Total(h)[b] + y BY <1>4, <1>5, <1>18
<1>20. Placed(g, h, b, n, y, L, u)
  BY <1>5, <1>17, <1>19 DEF Placed
<1>21. OneEach(B, u + n - 1) /\ FromOld(B, f, b, n, u)
  BY <1>0, <1>9, BlocksApart
<1>22. /\ Aside(N, B, b, n, u + n - 1)
       /\ NotNew(f) => SameBytes(N[B[b]], data[B[b]], y, 0)
       /\ NotNew(f) => SameBytes(N[B[b + n]], data[B[b]], MaxBlockSize - y, y)
       /\ Filled(N, B, d, b, n, y, g)
  <2>1. Evenly(g, w.bj, w.n, w.byj + Len(d), MaxBlockSize)
    BY <1>0, <1>16
  <2>2. \A s \in Slots : g[s] =< MaxBlockSize BY <1>11
  <2>3. /\ Aside(N, B, w.bj, w.n, NrUsed(f) + w.n - 1)
        /\ NotNew(f) =>
             /\ SameBytes(N[B[w.bj]], data[B[w.bj]], w.byj, 0)
             /\ SameBytes(N[B[w.bj + w.n]], data[B[w.bj]], MaxBlockSize - w.byj, w.byj)
        /\ Filled(N, B, d, w.bj, w.n, w.byj, g)
    BY <1>0, <1>7, <1>9, <1>11, <2>1, <2>2, CopyBytes
  <2> QED BY <1>0, <2>3
<1>23. Middle(g, h, E, D, d, b, n, y, u)
  <2>1. /\ u \in 0 .. MaxBlocks /\ b \in 0 .. u /\ n \in Nat \ {0} /\ u + n =< MaxBlocks
        /\ y \in Nat /\ y =< MaxBlockSize /\ (b < u => NotNew(f)) /\ (b = u => u = 0)
        /\ h \in [Slots -> Nat] /\ g \in [Slots -> Nat] /\ D = BytesOf(f)
        /\ E = [s \in Slots |-> N[B[s]]] /\ Total(h)[b] \in Nat
    BY <1>0, <1>3, <1>5, <1>11, <1>13, <1>18
  <2>2. \A k \in 0 .. n - 1 : Total(g)[b + k] = Total(h)[b] + k * MaxBlockSize
    BY <1>17
  <2>3. /\ FromOld(B, f, b, n, u) /\ Filled(N, B, d, b, n, y, g)
        /\ NotNew(f) => SameBytes(N[B[b]], data[B[b]], y, 0)
    BY <1>21, <1>22
  <2> QED BY <2>1, <2>2, <2>3, Between
<1>24. Ahead(g, h, E, D, b) /\ Behind(g, h, E, D, b, n, y, u)
  <2>1. CASE NotNew(f)
    <3>1. u \in 1 .. MaxBlocks /\ b \in 0 .. u - 1 /\ y \in 0 .. MaxBlockSize
      BY <1>3, <1>4, <1>5, <2>1
    <3>2. b \in Slots /\ h[b] \in Nat /\ h[b] =< MaxBlockSize /\ h[b] = SizeAt(f, b)
      BY <1>3, <1>13
    <3>3. EndSizes(g, h, b, n, y, u)
      <4>1. \A s \in 0 .. b - 1 : s \in Slots BY <1>3, <1>5
      <4>2. b + n \in Slots BY <1>3, <1>5, <3>1
      <4>3. \A s \in b + 1 .. u - 1 : s \in Slots /\ s + n \in Slots
        BY <1>3, <1>5
      <4>4. \A s \in 0 .. b - 1 : g[s] = h[s]
        BY <1>13, <1>14, <1>15, <2>1, <4>1 DEF NewSizes
      <4>5. g[b + n] = IF h[b] >= y THEN h[b] - y ELSE 0
        BY <1>14, <1>15, <2>1, <3>2, <4>2 DEF NewSizes
      <4>6. \A s \in b + 1 .. u - 1 : g[s + n] = h[s]
        BY <1>13, <1>14, <1>15, <2>1, <4>3 DEF NewSizes
      <4>7. h[b] < y => b = u - 1 BY <1>3, <1>4, <1>18, <2>1, <3>2
      <4> QED BY <4>4, <4>5, <4>6, <4>7 DEF EndSizes
    <3>4. SameBytes(N[B[b + n]], data[B[b]], g[b + n], y)
      <4>1. SameBytes(N[B[b + n]], data[B[b]], MaxBlockSize - y, y)
        BY <1>22, <2>1
      <4>2. PICK z : z = g[b + n] OBVIOUS
      <4>3. z \in Int /\ z =< MaxBlockSize - y /\ MaxBlockSize - y \in Int
        BY <1>3, <1>5, <3>2, <3>3, <4>2 DEF EndSizes
      <4> QED BY <4>1, <4>2, <4>3, SameFewer
    <3>5. /\ n \in Nat \ {0} /\ u + n =< MaxBlocks /\ h \in [Slots -> Nat]
          /\ D = BytesOf(f) /\ E = [s \in Slots |-> N[B[s]]]
          /\ FromOld(B, f, b, n, u) /\ Aside(N, B, b, n, u + n - 1)
      BY <1>0, <1>3, <1>5, <1>11, <1>13, <1>21, <1>22
    <3> QED BY <2>1, <3>1, <3>2, <3>3, <3>4, <3>5, Ends
  <2>2. CASE ~ NotNew(f) BY <1>4, <2>2 DEF Ahead, Behind
  <2> QED BY <2>1, <2>2
<1>25. Insertion(e, c, d, L, Total(h)[b] + y)
  <2>1. u \in Nat /\ b \in 0 .. u /\ (b = u => u = 0 /\ y = 0)
    BY <1>5
  <2> QED BY <1>3, <1>5, <1>12, <1>20, <1>23, <1>24, <2>1, Inserts
<1> QED BY <1>0, <1>8, <1>19, <1>25

-----------------------------------------------------------------------------
(* Supported writes that fail. What is done when one stops is left as it    *)
(* is, and no file reads otherwise.                                         *)

\* Nothing inserted in a file leaves it as it was.
LEMMA NothingInserted ==
  ASSUME NEW c \in Seq(Byte), NEW e \in Seq(Byte), NEW d, NEW o \in Nat, o =< Len(c),
         NEW L, L = 0, Insertion(e, c, d, L, o)
  PROVE  e = c
<1>1. Len(c) \in Nat /\ Len(e) \in Nat OBVIOUS
<1>2. Gap(o, Len(c)) = 0 BY <1>1 DEF Gap
<1>3. Len(e) = Len(c) BY <1>1, <1>2 DEF Insertion
<1>4. ASSUME NEW p \in 1 .. Len(e) PROVE e[p] = c[p]
  <2>1. /\ p =< o /\ p =< Len(c) => e[p] = c[p]
        /\ o + L < p => e[p] = c[p - L]
    BY DEF Insertion
  <2>2. p - L = p /\ o + L = o /\ p =< Len(c) BY <1>1, <1>3
  <2> QED BY <1>1, <2>1, <2>2
<1> QED BY <1>3, <1>4, SeqEqual

\* The sizes and the bytes of a file whose block b is cut at y, with n - 1 empty slots
\* between its two parts.
Halved(f, b, n, y, new, N, B) ==
  /\ \A s \in 0 .. b - 1 : HasSize(new, s, SizeAt(f, s))
  /\ HasSize(new, b, y)
  /\ \A s \in b + 1 .. b + n - 1 : HasSize(new, s, 0)
  /\ HasSize(new, b + n, SizeAt(f, b) - y)
  /\ \A s \in b + 1 .. NrUsed(f) - 1 : HasSize(new, s + n, SizeAt(f, s))
  /\ Aside(N, B, b, n, NrUsed(f) + n - 1)
  /\ SameBytes(N[B[b]], data[B[b]], y, 0)
  /\ SameBytes(N[B[b + n]], data[B[b]], SizeAt(f, b) - y, y)

\* Where its slots begin.
LEMMA HalvedTotals ==
  ASSUME NEW h \in [Slots -> Nat], NEW g \in [Slots -> Nat],
         NEW u \in Nat, NEW b \in Nat, b < u, NEW n \in Nat \ {0}, u + n =< MaxBlocks,
         NEW y \in Nat, y =< h[b], EndSizes(g, h, b, n, y, u), g[b] = y,
         \A s \in b + 1 .. b + n - 1 : g[s] = 0, NEW L, L = 0
  PROVE  Placed(g, h, b, n, y, L, u) /\ Total(h)[b] + y =< Total(h)[u]
<1>1. /\ MaxBlocks \in Nat /\ Slots = 0 .. MaxBlocks - 1
      /\ h \in [Slots -> Int] /\ g \in [Slots -> Int] /\ h[b] \in Nat
  BY DiskAssumption DEF Slots
<1>2. Splices(g, h, b, n, u) BY DEF Splices, EndSizes, Follows
<1>3. /\ \A k \in 0 .. b : Total(g)[k] = Total(h)[k]
      /\ Later(g, h, b, n, u)
  BY <1>1, <1>2, TotalSplice
<1>4. Total(g)[b + n] = Total(g)[b] + g[b]
  <2>1. b + n =< MaxBlocks BY <1>1
  <2>2. g \in [Slots -> Int] BY <1>1
  <2> QED BY <2>1, <2>2, EmptyHead
<1>5. g[b + n] = h[b] - y BY <1>1 DEF EndSizes
<1> DEFINE P == Total(h)
           Q == Total(g)
<1>6. /\ \A k \in 0 .. MaxBlocks : P[k] \in Nat
      /\ \A k, m \in 0 .. MaxBlocks : k =< m => P[k] =< P[m]
      /\ P[b + 1] = P[b] + h[b]
  <2>1. b \in Slots BY <1>1
  <2> QED BY <1>1, <2>1, TotalOf, TotalGrows
<1>7. \A k \in b + 1 .. u : Q[k + n] = P[k] + Q[b + n] + g[b + n] - P[b] - h[b]
  BY <1>3 DEF Later
<1>8. Q[b] = P[b] /\ Q[b + n] = Q[b] + g[b] BY <1>3, <1>4
<1> HIDE DEF P, Q
<1>9. /\ b \in 0 .. MaxBlocks /\ b + 1 \in 0 .. MaxBlocks /\ u \in 0 .. MaxBlocks
      /\ b + 1 =< u /\ u \in b + 1 .. u
  BY <1>1
<1>10. P[b] \in Nat /\ P[u] \in Nat /\ P[b + 1] =< P[u] /\ P[b + 1] \in Nat
  BY <1>6, <1>9
<1>11. P[b] + y =< P[u]
  <2>1. P[b + 1] = P[b] + h[b] /\ h[b] \in Nat /\ P[b] \in Nat /\ P[u] \in Nat /\ P[b + 1] =< P[u]
    BY <1>1, <1>6, <1>10
  <2> QED BY <2>1
<1>12. Gap(P[b] + y, P[u]) = 0 BY <1>10, <1>11 DEF Gap
<1>13. Q[b + n] = P[b] + y + L BY <1>8, <1>10
<1>14. ASSUME NEW k \in b + 1 .. u PROVE Q[k + n] = P[k] + L + Gap(P[b] + y, P[u])
  <2>1. k \in 0 .. MaxBlocks BY <1>1
  <2>2. P[k] \in Nat BY <1>6, <2>1
  <2>3. PICK t : t = k + n OBVIOUS
  <2>4. Q[t] = P[k] + Q[b + n] + g[b + n] - P[b] - h[b]
    BY <1>7, <2>3
  <2>5. PICK q : q = h[b] OBVIOUS
  <2>6. q \in Nat /\ g[b + n] = q - y /\ Q[b + n] = P[b] + y + L
    BY <1>1, <1>5, <1>13, <2>5
  <2>7. Q[t] = P[k] + (P[b] + y + L) + (q - y) - P[b] - q
    BY <2>4, <2>5, <2>6
  <2>8. Q[t] = P[k] + L BY <1>10, <2>2, <2>6, <2>7
  <2> QED BY <1>12, <2>2, <2>3, <2>8
<1>15. Q[u + n] = P[u] + L + Gap(P[b] + y, P[u]) BY <1>9, <1>14
<1>16. \A k \in 0 .. b : Q[k] = P[k] BY <1>3 DEF P, Q
<1> QED BY <1>11, <1>13, <1>14, <1>15, <1>16 DEF Placed, P, Q

\* A write that has not copied anything leaves the file as it was.
LEMMA SplitKept ==
  ASSUME FileInv({}), Sized, FileInv({})', Sized', NEW f \in Inodes,
         NEW off \in Offsets, NEW d \in Payloads, NEW w \in Plans(f, off, Len(d)),
         Supported(f, off, Len(d), w), NotNew(f),
         NEW al \in FirstFree(w.n), First(f, w) + w.n =< MaxBlocks,
         NEW new, NEW N, NEW B, B = [s \in Slots |-> BlockOf(f, w, al, s)],
         NEW y \in 0 .. SizeAt(f, w.bj),
         Rewritten(f, w, al, new), index'[f] = new, data' = N,
         inode'[f].linked = inode[f].linked,
         inode'[f].blocks = inode[f].blocks + w.n,
         Halved(f, w.bj, w.n, y, new, N, B)
  PROVE  f \in Linked' /\ Content(f)' = Content(f)
<1>0. PICK u, b, n, L, c, e, h, g, D, E :
        /\ u = NrUsed(f) /\ b = w.bj /\ n = w.n /\ L = 0
        /\ c = Content(f) /\ e = Content(f)' /\ h = Sizes(f) /\ g = Sizes(f)'
        /\ D = BytesOf(f) /\ E = BytesOf(f)'
  OBVIOUS
<1>1. b \in Slots /\ n \in 1 .. MaxBlocks /\ TypeOK /\ f \in Linked
  BY <1>0, Planned DEF FileInv, Live, Linked
<1>2. u \in 1 .. MaxBlocks /\ b \in 0 .. u - 1 BY <1>0, WhereJump
<1>3. /\ MaxBlocks \in Nat /\ Slots = 0 .. MaxBlocks - 1 /\ MaxBlockSize \in Nat
      /\ n \in Nat \ {0} /\ b \in Nat /\ u \in Nat /\ b < u
  <2>1. MaxBlocks \in Nat /\ Slots = 0 .. MaxBlocks - 1
    BY DiskAssumption DEF Slots
  <2>2. MaxBlockSize \in Nat BY WidthAssumption DEF MaxBlockSize
  <2>3. n \in Nat \ {0} /\ b \in Nat /\ u \in Nat /\ b < u
    BY <1>1, <1>2, <2>1
  <2> QED BY <2>1, <2>2, <2>3
<1>4. u + n =< MaxBlocks
  <2>1. First(f, w) = b + 1 BY <1>0 DEF First
  <2>2. NrUsed(f) + w.n =< MaxBlocks BY <1>1, Planned
  <2> QED BY <1>0, <2>2
<1>5. f \in Linked' /\ NrUsed(f)' = u + n
  <2>1. inode[f].blocks \in Int /\ w.n \in Int
    <3>1. inode[f].blocks \in 0 .. MaxBlocks + 1
      BY <1>1 DEF TypeOK
    <3> QED BY <1>0, <1>3, <3>1
  <2> QED BY <1>0, <1>1, <2>1 DEF NrUsed, Linked
<1>6. /\ g \in [Slots -> Nat]
      /\ \A s \in Slots : HasSize(new, s, g[s]) /\ g[s] =< MaxBlockSize
      /\ E = [s \in Slots |-> N[B[s]]]
  <2>1. Leaves(f, w, al, new, N, B, g, E) BY <1>0 DEF Leaves
  <2> QED BY <2>1, NewSlots
<1>7. Laid(c, h, u, D) /\ Laid(e, g, u + n, E)
  <2>1. Positive /\ Positive' BY DEF Sized
  <2>2. FileLaid(f) /\ FileLaid(f)'
    BY <1>1, <1>5, <2>1, FilesLaid, FilesLaidNext
  <2>3. FileLaid(f)' = Laid(Content(f)', Sizes(f)', NrUsed(f)', BytesOf(f)')
    BY DEF FileLaid
  <2> QED BY <1>0, <1>5, <2>2, <2>3 DEF FileLaid
<1>8. h \in [Slots -> Nat] /\ \A s \in Slots : h[s] = SizeAt(f, s) /\ h[s] =< MaxBlockSize
  BY <1>0, <1>1, <1>3, SizesFit, SMTT(60)
<1>9. \A s \in Slots : \A z : HasSize(new, s, z) <=> g[s] = z
  BY <1>6 DEF HasSize
<1>10. Halved(f, b, n, y, new, N, B) /\ y \in 0 .. h[b] /\ y \in Nat /\ y =< h[b] /\ h[b] \in Nat
       /\ y \in 0 .. MaxBlockSize /\ h[b] =< MaxBlockSize
  <2>1. h[b] \in Nat /\ h[b] = SizeAt(f, b) /\ h[b] =< MaxBlockSize
    BY <1>1, <1>8
  <2>2. y \in 0 .. h[b] BY <1>0, <2>1
  <2> QED BY <1>0, <1>3, <2>1, <2>2
<1>11. EndSizes(g, h, b, n, y, u) /\ g[b] = y /\ \A s \in b + 1 .. b + n - 1 : g[s] = 0
  <2>1. \A s \in 0 .. b - 1 : g[s] = h[s]
    <3>1. \A s \in 0 .. b - 1 : s \in Slots BY <1>3, <1>4
    <3>2. \A s \in 0 .. b - 1 : HasSize(new, s, SizeAt(f, s))
      BY <1>10 DEF Halved
    <3> QED BY <1>8, <1>9, <3>1, <3>2
  <2>2. g[b] = y BY <1>1, <1>9, <1>10 DEF Halved
  <2>3. \A s \in b + 1 .. b + n - 1 : g[s] = 0
    <3>1. \A s \in b + 1 .. b + n - 1 : s \in Slots BY <1>3, <1>4
    <3>2. \A s \in b + 1 .. b + n - 1 : HasSize(new, s, 0)
      BY <1>10 DEF Halved
    <3> QED BY <1>9, <3>1, <3>2
  <2>4. g[b + n] = h[b] - y
    <3>1. b + n \in Slots BY <1>3, <1>4
    <3>2. HasSize(new, b + n, SizeAt(f, b) - y)
      BY <1>10 DEF Halved
    <3> QED BY <1>1, <1>8, <1>9, <3>1, <3>2
  <2>5. \A s \in b + 1 .. u - 1 : g[s + n] = h[s]
    <3>1. \A s \in b + 1 .. u - 1 : s \in Slots /\ s + n \in Slots
      BY <1>3, <1>4
    <3>2. \A s \in b + 1 .. u - 1 : HasSize(new, s + n, SizeAt(f, s))
      BY <1>0, <1>10 DEF Halved
    <3> QED BY <1>8, <1>9, <3>1, <3>2
  <2>6. g[b + n] = IF h[b] >= y THEN h[b] - y ELSE 0
    BY <1>10, <2>4
  <2>7. ~ (h[b] < y) BY <1>10
  <2>8. EndSizes(g, h, b, n, y, u)
    BY <2>1, <2>5, <2>6, <2>7 DEF EndSizes
  <2> QED BY <2>2, <2>3, <2>8
<1>12. Placed(g, h, b, n, y, L, u) /\ Total(h)[b] + y =< Total(h)[u]
  BY <1>0, <1>3, <1>4, <1>6, <1>8, <1>10, <1>11, HalvedTotals, ZenonT(60)
<1>13. FromOld(B, f, b, n, u) BY <1>0, BlocksApart
<1>14. Ahead(g, h, E, D, b) /\ Behind(g, h, E, D, b, n, y, u)
  <2>1. Aside(N, B, b, n, u + n - 1) BY <1>0, <1>10 DEF Halved
  <2>2. SameBytes(N[B[b + n]], data[B[b]], g[b + n], y)
    <3>1. g[b + n] = SizeAt(f, b) - y
      BY <1>1, <1>8, <1>10, <1>11 DEF EndSizes
    <3> QED BY <1>10, <3>1 DEF Halved
  <2>3. u \in 1 .. MaxBlocks /\ b \in 0 .. u - 1 /\ n \in Nat \ {0} /\ u + n =< MaxBlocks
    BY <1>2, <1>3, <1>4
  <2>4. /\ y \in 0 .. MaxBlockSize /\ h \in [Slots -> Nat] /\ h[b] =< MaxBlockSize
        /\ D = BytesOf(f) /\ E = [s \in Slots |-> N[B[s]]]
        /\ EndSizes(g, h, b, n, y, u) /\ FromOld(B, f, b, n, u)
    BY <1>0, <1>6, <1>8, <1>10, <1>11, <1>13
  <2> QED BY <2>1, <2>2, <2>3, <2>4, Ends
<1>15. Middle(g, h, E, D, d, b, n, y, u)
  <2> SUFFICES ASSUME NEW s, s \in b .. b + n - 1, NEW x, x \in 1 .. g[s]
               PROVE  s = b /\ x =< y /\ E[b][x - 1] = D[b][x - 1]
    BY DEF Middle
  <2>1. s \in b + 1 .. b + n - 1 => g[s] = 0 BY <1>11
  <2>2. s = b BY <1>3, <2>1
  <2>3. x \in 1 .. y BY <1>11, <2>2
  <2>4. SameBytes(N[B[b]], data[B[b]], y, 0) BY <1>10 DEF Halved
  <2>5. 0 + x - 1 = x - 1 /\ x =< y BY <1>10, <2>3
  <2>6. N[B[b]][x - 1] = data[B[b]][x - 1]
    BY <2>3, <2>4, <2>5 DEF SameBytes
  <2>7. B[b] = NumberAt(f, b)
    <3>1. b \in 0 .. b BY <1>3
    <3> QED BY <1>13, <3>1 DEF FromOld
  <2> QED BY <1>0, <1>1, <1>6, <2>2, <2>5, <2>6, <2>7 DEF BytesOf
<1>16. Insertion(e, c, d, L, Total(h)[b] + y)
  <2>1. b \in 0 .. u /\ (b = u => u = 0 /\ y = 0) /\ L \in Nat
    BY <1>0, <1>3
  <2> QED BY <1>3, <1>7, <1>10, <1>12, <1>14, <1>15, <2>1, Inserts
<1>17. e = c
  <2>1. c \in Seq(Byte) /\ e \in Seq(Byte) /\ Len(c) = Total(h)[u]
    BY <1>7 DEF Laid
  <2>2. Total(h)[b] \in Nat
    <3>1. b \in 0 .. MaxBlocks BY <1>3, <1>4
    <3> QED BY <1>8, <3>1, TotalGrows
  <2>3. Total(h)[b] + y \in Nat /\ Total(h)[b] + y =< Len(c)
    BY <1>10, <1>12, <2>1, <2>2
  <2> QED BY <1>0, <1>16, <2>1, <2>3, NothingInserted
<1> QED BY <1>0, <1>5, <1>17

\* A write that stops between the allocation and the end of the first copy has given
\* the file new words and cut the block at block_jump after y bytes.
Stop(f, w, al, new, N, y) ==
  /\ First(f, w) + w.n =< MaxBlocks
  /\ Rewritten(f, w, al, new) /\ new = [s \in Slots |-> new[s]]
  /\ N \in [Blocks -> Block]
  /\ \A b \in DataBlocks \ free : b \notin Named(f) => N[b] = data[b]
  /\ y \in 0 .. SizeAt(f, w.bj)
  /\ Halved(f, w.bj, w.n, y, new, N, [s \in Slots |-> BlockOf(f, w, al, s)])
  /\ free' = free \ Taken(al) /\ nrFree' = nrFree - w.n
  /\ index' = [index EXCEPT ![f] = new]
  /\ inode' = [inode EXCEPT ![f].blocks = @ + w.n]
  /\ data' = N /\ corrupt' = corrupt /\ ret'.errno \in Errnos

\* The block at block_jump cannot be read: the cut is at its end.
LEMMA SplitStops ==
  ASSUME FileInv({}), NEW f \in Inodes, NEW off \in Offsets, NEW d \in Payloads,
         NEW w \in Plans(f, off, Len(d)), NotNew(f), NrUsed(f) \in 0 .. MaxBlocks,
         WriteSplitFails(f, w)
  PROVE  \E al \in FirstFree(w.n) : \E new, N, y : Stop(f, w, al, new, N, y)
<1>1. PICK al \in FirstFree(w.n) :
        /\ free' = free \ Taken(al)
        /\ index' = [index EXCEPT ![f] = Allocated(f, w, w.n, al)]
  BY DEF WriteSplitFails
<1>2. /\ First(f, w) + w.n =< MaxBlocks /\ nrFree' = nrFree - w.n
      /\ inode' = [inode EXCEPT ![f].blocks = @ + w.n]
      /\ data' = data /\ corrupt' = corrupt /\ ret'.errno \in Errnos
  BY DEF WriteSplitFails, Ret, Errnos
<1>0. PICK u, b, n, new, B, y :
        /\ u = NrUsed(f) /\ b = w.bj /\ n = w.n /\ new = Allocated(f, w, w.n, al)
        /\ B = [s \in Slots |-> BlockOf(f, w, al, s)] /\ y = SizeAt(f, w.bj)
  OBVIOUS
<1>3. b \in Slots /\ n \in 1 .. MaxBlocks /\ TypeOK
  BY <1>0, Planned DEF FileInv
<1>4. MaxBlocks \in Nat /\ Slots = 0 .. MaxBlocks - 1 /\ n \in Nat \ {0} /\ b \in Nat
      /\ u \in Nat /\ u =< MaxBlocks /\ b + 1 + n =< MaxBlocks
  <2>1. MaxBlocks \in Nat /\ Slots = 0 .. MaxBlocks - 1
    BY DiskAssumption DEF Slots
  <2>2. First(f, w) = b + 1 BY <1>0 DEF First
  <2>3. u \in 0 .. MaxBlocks BY <1>0
  <2> QED BY <1>0, <1>2, <1>3, <2>1, <2>2, <2>3
<1>5. u + n =< MaxBlocks
  <2>1. NrUsed(f) + w.n =< MaxBlocks BY <1>3, Planned
  <2> QED BY <1>0, <2>1
<1>6. Rewritten(f, w, al, new) /\ new = [s \in Slots |-> new[s]]
  <2>1. PICK X : X = {} OBVIOUS
  <2>2. FileInv(X) /\ f \notin X BY <2>1
  <2>3. \A s \in Slots :
          /\ new[s] \in Word
          /\ get_block_number(new[s]) = IF Fresh(f, w, s) THEN al[s - First(f, w)]
                                        ELSE NumberAt(f, From(f, w, s))
          /\ ~ Fresh(f, w, s) => new[s] = index[f][From(f, w, s)]
    BY <1>0, <2>2, AllocatedWord
  <2>4. new = [s \in Slots |-> new[s]] BY <1>0 DEF Allocated
  <2> QED BY <2>3, <2>4 DEF Rewritten
<1>7. y \in Nat
  <2>1. index[f][b] \in Word BY <1>3 DEF TypeOK
  <2> QED BY <1>0, <2>1, FieldRange, WidthAssumption DEF SizeAt
<1>8. \A s \in Slots : HasSize(new, s, IF Fresh(f, w, s) THEN 0 ELSE SizeAt(f, From(f, w, s)))
  BY <1>0, AllocatedSize DEF HasSize
<1>9. \A s \in Slots :
        /\ s =< b => ~ Fresh(f, w, s) /\ From(f, w, s) = s
        /\ b < s /\ s =< b + n => Fresh(f, w, s)
        /\ b < s /\ s < u => ~ Fresh(f, w, s + n) /\ From(f, w, s + n) = s
  BY <1>0, <1>3, Unshifted
<1>10. /\ \A s \in 0 .. b : HasSize(new, s, SizeAt(f, s))
       /\ \A s \in b + 1 .. b + n : HasSize(new, s, 0)
       /\ \A s \in b + 1 .. u - 1 : HasSize(new, s + n, SizeAt(f, s))
  <2>1. \A s \in 0 .. b : s \in Slots /\ s =< b BY <1>4
  <2>2. \A s \in b + 1 .. b + n : s \in Slots /\ b < s /\ s =< b + n
    BY <1>4
  <2>3. \A s \in b + 1 .. u - 1 : s \in Slots /\ s + n \in Slots /\ b < s /\ s < u
    BY <1>4, <1>5
  <2>4. \A s \in 0 .. b : HasSize(new, s, SizeAt(f, s))
    BY <1>8, <1>9, <2>1
  <2>5. \A s \in b + 1 .. b + n : HasSize(new, s, 0)
    BY <1>8, <1>9, <2>2
  <2>6. \A s \in b + 1 .. u - 1 : HasSize(new, s + n, SizeAt(f, s))
    <3> SUFFICES ASSUME NEW s \in b + 1 .. u - 1 PROVE HasSize(new, s + n, SizeAt(f, s))
      OBVIOUS
    <3>1. PICK t : t = s + n OBVIOUS
    <3>2. s \in Slots /\ t \in Slots /\ ~ Fresh(f, w, t) /\ From(f, w, t) = s
      BY <1>9, <2>3, <3>1
    <3>3. HasSize(new, t, SizeAt(f, s)) BY <1>8, <3>2
    <3> QED BY <3>1, <3>3
  <2> QED BY <2>4, <2>5, <2>6
<1>11. Halved(f, b, n, y, new, data, B)
  <2>1. \A s \in 0 .. b - 1 : HasSize(new, s, SizeAt(f, s))
    BY <1>4, <1>10
  <2>2. HasSize(new, b, y) BY <1>0, <1>4, <1>10
  <2>3. \A s \in b + 1 .. b + n - 1 : HasSize(new, s, 0)
    BY <1>4, <1>10
  <2>4. SizeAt(f, b) - y = 0 BY <1>0, <1>7
  <2>5. HasSize(new, b + n, SizeAt(f, b) - y) BY <1>4, <1>10, <2>4
  <2>6. Aside(data, B, b, n, NrUsed(f) + n - 1) BY DEF Aside
  <2>7. SameBytes(data[B[b]], data[B[b]], y, 0)
    BY <1>7 DEF SameBytes
  <2>8. SameBytes(data[B[b + n]], data[B[b]], SizeAt(f, b) - y, y)
    BY <2>4 DEF SameBytes
  <2>9. \A s \in b + 1 .. NrUsed(f) - 1 : HasSize(new, s + n, SizeAt(f, s))
    BY <1>0, <1>10
  <2> QED BY <2>1, <2>2, <2>3, <2>5, <2>6, <2>7, <2>8, <2>9 DEF Halved
<1>12. y \in 0 .. SizeAt(f, w.bj) /\ data \in [Blocks -> Block]
  BY <1>0, <1>3, <1>7 DEF TypeOK
<1>13. Halved(f, w.bj, w.n, y, new, data, [s \in Slots |-> BlockOf(f, w, al, s)])
  BY <1>0, <1>11
<1>14. Stop(f, w, al, new, data, y)
  BY <1>0, <1>1, <1>2, <1>6, <1>12, <1>13 DEF Stop
<1> QED BY <1>14

\* copy_from_user, and the zeroes it leaves when it fails, begin at byte_jump.
LEMMA CopyBegun ==
  ASSUME FileInv({}), NEW f \in Inodes, NEW off \in Offsets, NEW d \in Payloads,
         NEW w \in Plans(f, off, Len(d)), w.byj =< MaxBlockSize,
         NEW cnt, cnt = Amount(f, w, Len(d), 0), NEW p \in 0 .. cnt - 1, NEW e \in Block,
         NEW N, N = Copy(Copy(e, At(w, 0), Zeros, 0, cnt), At(w, 0), d, Source(w, 0) + 1, p)
  PROVE  N \in Block /\ SameBytes(N, e, w.byj, 0)
<1>1. /\ w.byj \in Nat /\ w.n \in 1 .. MaxBlocks /\ Len(d) \in Nat /\ d \in Seq(Byte) /\ TypeOK
  BY Planned DEF FileInv
<1>2. /\ Source(w, 0) = 0 /\ At(w, 0) = w.byj /\ cnt \in Int /\ cnt =< Len(d)
  <2>1. 0 \in 0 .. Copies(f, w) - 1 BY <1>1 DEF Copies
  <2>2. PICK k : k = 0 OBVIOUS
  <2>3. Source(w, k) = 0 /\ At(w, k) = w.byj
    BY <2>2 DEF Source, At
  <2>4. /\ Source(w, k) \in Nat /\ Amount(f, w, Len(d), k) \in Int
        /\ Source(w, k) + Amount(f, w, Len(d), k) =< Len(d)
    BY <1>1, <2>1, <2>2, ChunkInPayload
  <2> QED BY <2>2, <2>3, <2>4
<1>3. p \in Nat /\ p =< Len(d) /\ BlockSize \in Nat
  BY <1>1, <1>2, WidthAssumption
<1> DEFINE M == Copy(e, w.byj, Zeros, 0, cnt)
<1>4. N = Copy(M, w.byj, d, 1, p) BY <1>2
<1>5. M \in Block
  <2>1. \A x \in 0 .. BlockSize - 1 : w.byj =< x => Zeros[x - w.byj + 0] \in Byte
    BY <1>1, <1>3, InputAssumption DEF Zeros
  <2> QED BY <1>1, <1>2, <2>1, CopyTyped
<1>6. \A x \in 0 .. BlockSize - 1 :
        w.byj =< x /\ x < w.byj + p => d[x - w.byj + 1] \in Byte
  BY <1>1, <1>3
<1>7. ASSUME NEW x \in 1 .. w.byj PROVE N[x - 1] = e[0 + x - 1]
  <2>1. x \in 1 .. BlockSize
    BY <1>1, WidthAssumption DEF MaxBlockSize
  <2>2. ~ (w.byj < x) BY <1>1
  <2>3. M[x - 1] = e[x - 1] BY <1>1, <1>2, <2>1, <2>2, CopiedByte
  <2> HIDE DEF M
  <2>4. N[x - 1] = M[x - 1]
    BY <1>1, <1>3, <1>4, <2>1, <2>2, CopiedByte
  <2>5. 0 + x - 1 = x - 1 BY <1>1
  <2> QED BY <2>3, <2>4, <2>5
<1> HIDE DEF M
<1>8. N \in Block BY <1>1, <1>3, <1>4, <1>5, <1>6, CopyTyped
<1> QED BY <1>7, <1>8 DEF SameBytes

\* The first copy does not begin, or stops after p bytes.
Tried(w, d, N, done, cut, cnt) ==
  \/ N = done
  \/ \E p \in 0 .. cnt - 1 :
       N = [done EXCEPT ![cut] =
              Copy(Copy(@, At(w, 0), Zeros, 0, cnt), At(w, 0), d, Source(w, 0) + 1, p)]

\* What it leaves of the blocks.
Begun(w, N, S, cut) ==
  /\ N \in [Blocks -> Block]
  /\ \A e \in Blocks : e # cut => N[e] = S[e]
  /\ SameBytes(N[cut], S[cut], w.byj, 0)

\* A copy that fails in its first block changes no block but that one, and in it only
\* bytes that no file has.
LEMMA CopyLeaves ==
  ASSUME FileInv({}), NEW f \in Inodes, NEW off \in Offsets, NEW d \in Payloads,
         NEW w \in Plans(f, off, Len(d)), w.byj =< MaxBlockSize, NEW al \in FirstFree(w.n),
         NEW S, S = SplitData(f, w, al, Len(d)), S = [e \in Blocks |-> S[e]],
         NEW done, done = CopyData(f, w, al, d, 0), NEW cut \in Blocks,
         NEW cnt, cnt = Amount(f, w, Len(d), 0), NEW N, Tried(w, d, N, done, cut, cnt)
  PROVE  Begun(w, N, S, cut)
<1>1. w.byj \in Nat BY Planned DEF FileInv
<1>2. done = S
  <2>1. ~ \E k \in 1 .. 0 - 1 : TRUE OBVIOUS
  <2>2. done = [b \in Blocks |-> S[b]] BY <2>1 DEF CopyData
  <2> QED BY <2>2
<1>3. done \in [Blocks -> Block]
  <2>1. PICK X, c : X = {} /\ c = 0 OBVIOUS
  <2>2. FileInv(X) /\ f \notin X /\ c \in 0 .. Copies(f, w)
    <3>1. w.n \in 1 .. MaxBlocks BY Planned DEF FileInv
    <3> QED BY <2>1, <3>1, DiskAssumption DEF Copies
  <2>3. CopyData(f, w, al, d, c) \in [Blocks -> Block]
    BY <2>2, WrittenData
  <2> QED BY <2>1, <2>3
<1>4. SameBytes(S[cut], S[cut], w.byj, 0) BY <1>1 DEF SameBytes
<1>5. CASE N = done BY <1>2, <1>3, <1>4, <1>5 DEF Begun
<1>6. ASSUME NEW p \in 0 .. cnt - 1,
             N = [done EXCEPT ![cut] =
                    Copy(Copy(@, At(w, 0), Zeros, 0, cnt), At(w, 0),
                         d, Source(w, 0) + 1, p)]
      PROVE  Begun(w, N, S, cut)
  <2>1. PICK M : M = Copy(Copy(done[cut], At(w, 0), Zeros, 0, cnt), At(w, 0),
                          d, Source(w, 0) + 1, p)
    OBVIOUS
  <2>2. done[cut] \in Block BY <1>3
  <2>3. M \in Block /\ SameBytes(M, done[cut], w.byj, 0)
    BY <2>1, <2>2, CopyBegun
  <2>4. N = [done EXCEPT ![cut] = M] BY <1>6, <2>1
  <2>5. N \in [Blocks -> Block] /\ N[cut] = M /\ \A e \in Blocks : e # cut => N[e] = done[e]
    BY <1>3, <2>3, <2>4
  <2> QED BY <1>2, <2>3, <2>5 DEF Begun
<1> QED BY <1>5, <1>6 DEF Tried

\* The first block cannot be copied: the cut is at byte_jump.
LEMMA CopyStops ==
  ASSUME FileInv({}), Sized, NEW f \in Inodes, NEW off \in Offsets, NEW d \in Payloads,
         NEW w \in Plans(f, off, Len(d)), Supported(f, off, Len(d), w), NotNew(f),
         NrUsed(f) \in 0 .. MaxBlocks, w.byj =< SizeAt(f, w.bj), WriteCopyFails(f, d, w, 0)
  PROVE  \E al \in FirstFree(w.n) : \E new, N, y : Stop(f, w, al, new, N, y)
<1>1. PICK al \in FirstFree(w.n) :
        /\ free' = free \ Taken(al)
        /\ index' = [index EXCEPT ![f] = CopyIndex(f, w, al, Len(d), 0)]
        /\ \/ data' = CopyData(f, w, al, d, 0)
           \/ \E p \in 0 .. Amount(f, w, Len(d), 0) - 1 :
                data' = [CopyData(f, w, al, d, 0)
                  EXCEPT ![get_block_number(CopyIndex(f, w, al, Len(d), 0)[w.bj + 0])] =
                    Copy(Copy(@, At(w, 0), Zeros, 0, Amount(f, w, Len(d), 0)), At(w, 0),
                         d, Source(w, 0) + 1, p)]
        /\ ret' = Ret("EIO", <<>>) \/ ret' = Ret("EFAULT", <<>>)
  BY DEF WriteCopyFails
<1>2. /\ nrFree' = nrFree - w.n /\ ~ Overruns(f, w, Len(d))
      /\ inode' = [inode EXCEPT ![f].blocks = @ + w.n]
      /\ corrupt' = corrupt
  BY DEF WriteCopyFails
<1>0. PICK u, b, n, new, B, y, S, N :
        /\ u = NrUsed(f) /\ b = w.bj /\ n = w.n /\ y = w.byj
        /\ new = CopyIndex(f, w, al, Len(d), 0)
        /\ B = [s \in Slots |-> BlockOf(f, w, al, s)]
        /\ S = SplitData(f, w, al, Len(d)) /\ N = data'
  OBVIOUS
<1>3. b \in Slots /\ n \in 1 .. MaxBlocks /\ TypeOK /\ y \in Nat /\ y =< MaxBlockSize
  BY <1>0, Planned DEF FileInv, Supported
<1>4. First(f, w) + w.n =< MaxBlocks
  <2>1. MaxBlocks \in Nat /\ First(f, w) \in Int /\ w.n \in Int
    BY <1>0, <1>3, DiskAssumption DEF First, Slots
  <2> QED BY <1>2, <2>1 DEF Overruns
<1>5. MaxBlocks \in Nat /\ Slots = 0 .. MaxBlocks - 1 /\ n \in Nat \ {0} /\ b \in Nat
      /\ u \in Nat /\ u =< MaxBlocks /\ b + 1 + n =< MaxBlocks /\ b < u
  <2>1. MaxBlocks \in Nat /\ Slots = 0 .. MaxBlocks - 1
    BY DiskAssumption DEF Slots
  <2>2. First(f, w) = b + 1 BY <1>0 DEF First
  <2>3. u \in 0 .. MaxBlocks /\ b \in 0 .. u - 1
    BY <1>0, WhereJump
  <2> QED BY <1>0, <1>3, <1>4, <2>1, <2>2, <2>3
<1>6. u + n =< MaxBlocks
  <2>1. NrUsed(f) + w.n =< MaxBlocks BY <1>3, Planned
  <2> QED BY <1>0, <2>1
<1>7. Rewritten(f, w, al, new) /\ new = [s \in Slots |-> new[s]]
  <2>1. PICK X, c : X = {} /\ c = 0 OBVIOUS
  <2>2. FileInv(X) /\ f \notin X /\ c \in 0 .. Copies(f, w)
    BY <1>0, <1>5, <2>1 DEF Copies
  <2>3. \A s \in Slots :
          /\ new[s] \in Word
          /\ get_block_number(new[s]) = IF Fresh(f, w, s) THEN al[s - First(f, w)]
                                        ELSE NumberAt(f, From(f, w, s))
          /\ ~ Fresh(f, w, s) /\ new[s] # 0 => index[f][From(f, w, s)] # 0
    BY <1>0, <2>1, <2>2, WrittenWord
  <2>4. new = [s \in Slots |-> new[s]] BY <1>0 DEF CopyIndex
  <2> QED BY <2>3, <2>4 DEF Rewritten
<1>8. \A s \in Slots : new[s] = SplitIndex(f, w, al)[s]
  <2>1. \A s \in Slots : ~ (w.bj =< s /\ s < w.bj + 0)
    BY <1>0, <1>5
  <2> QED BY <1>0, <2>1 DEF CopyIndex
<1>9. SizeAt(f, b) \in Nat /\ y =< SizeAt(f, b)
  <2>1. index[f][b] \in Word BY <1>3 DEF TypeOK
  <2> QED BY <1>0, <2>1, FieldRange, WidthAssumption DEF SizeAt
<1>10. \A s \in Slots :
         /\ s = b => HasSize(new, s, y)
         /\ s = b + n => HasSize(new, s, SizeAt(f, b) - y)
         /\ s # b /\ s # b + n =>
              HasSize(new, s, IF Fresh(f, w, s) THEN 0 ELSE SizeAt(f, From(f, w, s)))
  <2> SUFFICES ASSUME NEW s \in Slots
               PROVE  /\ s = b => HasSize(new, s, y)
                      /\ s = b + n => HasSize(new, s, SizeAt(f, b) - y)
                      /\ s # b /\ s # b + n =>
                           HasSize(new, s, IF Fresh(f, w, s) THEN 0
                                           ELSE SizeAt(f, From(f, w, s)))
    OBVIOUS
  <2>1. /\ NotNew(f) /\ s = w.bj => get_block_size(SplitIndex(f, w, al)[s]) = w.byj
        /\ NotNew(f) /\ s = w.bj + w.n =>
             get_block_size(SplitIndex(f, w, al)[s]) =
               IF SizeAt(f, w.bj) >= w.byj THEN SizeAt(f, w.bj) - w.byj ELSE 0
        /\ ~ NotNew(f) \/ (s # w.bj /\ s # w.bj + w.n) =>
             get_block_size(SplitIndex(f, w, al)[s]) =
               IF Fresh(f, w, s) THEN 0 ELSE SizeAt(f, From(f, w, s))
    BY <1>0, <1>3, SplitSize
  <2>2. new[s] = SplitIndex(f, w, al)[s] BY <1>8
  <2>3. SizeAt(f, b) >= y BY <1>3, <1>9
  <2> QED BY <1>0, <2>1, <2>2, <2>3 DEF HasSize
<1>11. \A s \in Slots :
         /\ s =< b => ~ Fresh(f, w, s) /\ From(f, w, s) = s
         /\ b < s /\ s =< b + n => Fresh(f, w, s)
         /\ b < s /\ s < u => ~ Fresh(f, w, s + n) /\ From(f, w, s + n) = s
  BY <1>0, <1>3, Unshifted
<1>12. /\ \A s \in 0 .. b - 1 : HasSize(new, s, SizeAt(f, s))
       /\ HasSize(new, b, y) /\ HasSize(new, b + n, SizeAt(f, b) - y)
       /\ \A s \in b + 1 .. b + n - 1 : HasSize(new, s, 0)
       /\ \A s \in b + 1 .. u - 1 : HasSize(new, s + n, SizeAt(f, s))
  <2>1. \A s \in 0 .. b - 1 : s \in Slots /\ s =< b /\ s # b /\ s # b + n
    BY <1>5
  <2>2. \A s \in b + 1 .. b + n - 1 :
          s \in Slots /\ b < s /\ s =< b + n /\ s # b /\ s # b + n
    BY <1>5
  <2>3. \A s \in b + 1 .. u - 1 :
          s \in Slots /\ s + n \in Slots /\ b < s /\ s < u /\ s + n # b /\ s + n # b + n
    BY <1>5, <1>6
  <2>4. \A s \in 0 .. b - 1 : HasSize(new, s, SizeAt(f, s))
    BY <1>10, <1>11, <2>1
  <2>5. \A s \in b + 1 .. b + n - 1 : HasSize(new, s, 0)
    BY <1>10, <1>11, <2>2
  <2>6. \A s \in b + 1 .. u - 1 : HasSize(new, s + n, SizeAt(f, s))
    <3> SUFFICES ASSUME NEW s \in b + 1 .. u - 1 PROVE HasSize(new, s + n, SizeAt(f, s))
      OBVIOUS
    <3>1. PICK t : t = s + n OBVIOUS
    <3>2. s \in Slots /\ t \in Slots /\ ~ Fresh(f, w, t) /\ From(f, w, t) = s
          /\ t # b /\ t # b + n
      BY <1>11, <2>3, <3>1
    <3>3. HasSize(new, t, SizeAt(f, s)) BY <1>10, <3>2
    <3> QED BY <3>1, <3>3
  <2>7. b + n \in Slots BY <1>5
  <2>8. HasSize(new, b, y) /\ HasSize(new, b + n, SizeAt(f, b) - y)
    BY <1>3, <1>10, <2>7
  <2> QED BY <2>4, <2>5, <2>6, <2>8
<1>13. /\ OneEach(B, u + n - 1)
       /\ B[b + n] = al[n - 1] /\ b + n \in Slots
       /\ \A e \in DataBlocks \ free, s \in 0 .. u + n - 1 : e \notin Named(f) => e # B[s]
  <2>1. B = [s \in Slots |-> BlockOf(f, w, al, s)] BY <1>0
  <2>2. /\ OneEach(B, NrUsed(f) + w.n - 1)
        /\ B[w.bj + w.n] = al[w.n - 1] /\ w.bj + w.n \in Slots
        /\ \A e \in DataBlocks \ free, s \in 0 .. NrUsed(f) + w.n - 1 :
             e \notin Named(f) => e # B[s]
    BY <1>4, <2>1, BlocksApart
  <2> QED BY <1>0, <2>2
<1>14. b \in 0 .. u + n - 1 /\ b + n \in 0 .. u + n - 1 /\ b # b + n
  BY <1>5
<1>15. B[b] \in Blocks /\ B[b + n] \in Blocks /\ B[b] # B[b + n]
  BY <1>13, <1>14 DEF OneEach
<1>16. S = [e \in Blocks |-> S[e]] /\ Split(S, f, y, B[b], B[b + n])
  BY <1>0, <1>4, SplitBytes
<1>17. get_block_number(new[b + 0]) = B[b]
  <2>1. b + 0 = b BY <1>5
  <2>2. get_block_number(new[b]) = BlockOf(f, w, al, b)
    BY <1>3, <1>7 DEF Rewritten, BlockOf
  <2> QED BY <1>0, <1>3, <2>1, <2>2
<1>18. Begun(w, N, S, B[b])
  <2>1. PICK cut, cnt, done : cut = B[b] /\ cnt = Amount(f, w, Len(d), 0)
                              /\ done = CopyData(f, w, al, d, 0)
    OBVIOUS
  <2>2. Tried(w, d, N, done, cut, cnt)
    <3>1. get_block_number(CopyIndex(f, w, al, Len(d), 0)[w.bj + 0]) = cut
      BY <1>0, <1>17, <2>1
    <3> QED BY <1>0, <1>1, <2>1, <3>1 DEF Tried
  <2>3. cut \in Blocks /\ w.byj =< MaxBlockSize
    BY <1>0, <1>3, <1>15, <2>1
  <2>4. Begun(w, N, S, cut)
    <3>1. S = SplitData(f, w, al, Len(d)) /\ S = [e \in Blocks |-> S[e]]
      BY <1>0, <1>16
    <3>2. cnt = Amount(f, w, Len(d), 0) /\ done = CopyData(f, w, al, d, 0)
      BY <2>1
    <3> QED BY <2>2, <2>3, <3>1, <3>2, CopyLeaves
  <2> QED BY <2>1, <2>4
<1>19. /\ \A e \in Blocks : e # B[b] /\ e # B[b + n] => N[e] = data[e]
       /\ SameBytes(N[B[b]], data[B[b]], y, 0)
       /\ SameBytes(N[B[b + n]], data[B[b]], MaxBlockSize - y, y)
  <2>1. \A e \in Blocks : e # B[b] /\ e # B[b + n] => N[e] = data[e]
    BY <1>16, <1>18 DEF Split, Begun
  <2>2. SameBytes(N[B[b + n]], data[B[b]], MaxBlockSize - y, y)
    BY <1>15, <1>16, <1>18 DEF Split, Begun
  <2>3. SameBytes(N[B[b]], S[B[b]], y, 0) /\ SameBytes(S[B[b]], data[B[b]], y, 0)
    BY <1>0, <1>16, <1>18 DEF Split, Begun
  <2>4. SameBytes(N[B[b]], data[B[b]], y, 0)
    <3>1. \A x \in 1 .. y : 0 + x - 1 = x - 1 BY <1>3
    <3> QED BY <2>3, <3>1 DEF SameBytes
  <2> QED BY <2>1, <2>2, <2>4
<1>20. Aside(N, B, b, n, u + n - 1)
  <2> SUFFICES ASSUME NEW s, s \in 0 .. u + n - 1, s < b \/ s > b + n
               PROVE  N[B[s]] = data[B[s]]
    BY DEF Aside
  <2>1. s # b /\ s # b + n BY <1>5
  <2>2. B[s] \in Blocks /\ B[s] # B[b] /\ B[s] # B[b + n]
    BY <1>13, <1>14, <2>1 DEF OneEach
  <2> QED BY <1>19, <2>2
<1>21. SameBytes(N[B[b + n]], data[B[b]], SizeAt(f, b) - y, y)
  <2>1. SizeAt(f, b) =< MaxBlockSize /\ MaxBlockSize \in Nat
    <3>1. index[f][b] \in Word BY <1>3 DEF TypeOK
    <3>2. get_block_size(index[f][b]) \in 0 .. BlockSize - 1 /\ BlockSize \in Nat \ {0}
      BY <3>1, FieldRange, WidthAssumption
    <3> QED BY <3>2 DEF SizeAt, MaxBlockSize
  <2>2. SizeAt(f, b) - y \in Int /\ MaxBlockSize - y \in Int
        /\ SizeAt(f, b) - y =< MaxBlockSize - y
    BY <1>3, <1>9, <2>1
  <2> QED BY <1>19, <2>2, SameFewer
<1>22. Halved(f, b, n, y, new, N, B)
  BY <1>0, <1>12, <1>19, <1>20, <1>21 DEF Halved
<1>23. \A e \in DataBlocks \ free : e \notin Named(f) => N[e] = data[e]
  <2> SUFFICES ASSUME NEW e \in DataBlocks \ free, e \notin Named(f) PROVE N[e] = data[e]
    OBVIOUS
  <2>1. e # B[b] /\ e # B[b + n] BY <1>13, <1>14
  <2>2. e \in Blocks BY DataBlockNumber
  <2> QED BY <1>19, <2>1, <2>2
<1>24. N \in [Blocks -> Block] /\ y \in 0 .. SizeAt(f, w.bj)
  BY <1>0, <1>3, <1>9, <1>18 DEF Begun
<1>25. ret'.errno \in Errnos BY <1>1 DEF Ret, Errnos
<1>26. index' = [index EXCEPT ![f] = new] BY <1>0, <1>1
<1>27. Halved(f, w.bj, w.n, y, new, N, [s \in Slots |-> BlockOf(f, w, al, s)])
  BY <1>0, <1>22
<1>28. Stop(f, w, al, new, N, y)
  BY <1>0, <1>1, <1>2, <1>4, <1>7, <1>23, <1>24, <1>25, <1>26, <1>27 DEF Stop
<1> QED BY <1>28

\* A call that leaves every file as it was.
AllKept ==
  /\ Linked' = Linked
  /\ \A g \in Linked : Content(g)' = Content(g) /\ inode'[g].size = inode[g].size

\* A write that stops half way leaves every file as it was.
LEMMA StopKeeps ==
  ASSUME FileInv({}), Sized, Sized', NEW f \in Inodes, NEW off \in Offsets,
         NEW d \in Payloads, NEW w \in Plans(f, off, Len(d)),
         Supported(f, off, Len(d), w), NotNew(f),
         NEW al \in FirstFree(w.n), NEW new, NEW N, NEW y, Stop(f, w, al, new, N, y)
  PROVE  FileInv({})' /\ AllKept
<1>1. /\ First(f, w) + w.n =< MaxBlocks
      /\ Rewritten(f, w, al, new) /\ new = [s \in Slots |-> new[s]]
      /\ N \in [Blocks -> Block]
      /\ \A b \in DataBlocks \ free : b \notin Named(f) => N[b] = data[b]
      /\ y \in 0 .. SizeAt(f, w.bj)
      /\ Halved(f, w.bj, w.n, y, new, N, [s \in Slots |-> BlockOf(f, w, al, s)])
  BY DEF Stop
<1>2. /\ free' = free \ Taken(al) /\ nrFree' = nrFree - w.n
      /\ index' = [index EXCEPT ![f] = new]
      /\ inode' = [inode EXCEPT ![f].blocks = @ + w.n]
      /\ data' = N /\ corrupt' = corrupt /\ ret'.errno \in Errnos
  BY DEF Stop
<1>3. TypeOK /\ f \in Linked BY Planned DEF FileInv, Live, Linked
<1>4. inode[f].size \in Nat \ {0} BY <1>3 DEF TypeOK, NotNew
<1>5. FileInv({})'
  <2>1. inode' = [inode EXCEPT ![f].size = inode[f].size,
                               ![f].blocks = inode[f].blocks + w.n]
    BY <1>2, <1>3 DEF TypeOK
  <2>2. NewWords(f, w, al, new, inode[f].size)
    BY <1>1, <1>2, <1>4, <2>1 DEF NewWords
  <2>3. PICK X : X = {} OBVIOUS
  <2>4. FileInv(X) /\ f \notin X BY <2>3
  <2>5. PICK size : size = inode[f].size OBVIOUS
  <2>6. NewWords(f, w, al, new, size) BY <2>2, <2>5
  <2>7. FileInv({})' BY <2>6, WordsStep
  <2> QED BY <2>7
<1>6. /\ inode'[f].linked = inode[f].linked
      /\ inode'[f].blocks = inode[f].blocks + w.n
      /\ \A g \in Inodes : inode'[g].size = inode[g].size /\ inode'[g].linked = inode[g].linked
      /\ index'[f] = new
      /\ \A g \in Inodes \ {f} : inode'[g] = inode[g] /\ index'[g] = index[g]
  BY <1>2, <1>3 DEF TypeOK
<1>7. Linked' = Linked BY <1>6 DEF Linked
<1>8. Content(f)' = Content(f)
  <2>1. PICK B : B = [s \in Slots |-> BlockOf(f, w, al, s)]
    OBVIOUS
  <2>2. Halved(f, w.bj, w.n, y, new, N, B) BY <1>1, <2>1
  <2> QED BY <1>1, <1>2, <1>5, <1>6, <2>1, <2>2, SplitKept
<1>9. ASSUME NEW g \in Linked, g # f PROVE Content(g)' = Content(g)
  <2>1. inode'[g] = inode[g] /\ index'[g] = index[g]
    BY <1>6, <1>9 DEF Linked
  <2>2. g \in Linked \ {f} BY <1>9
  <2>3. \A b \in Named(g) : b \in DataBlocks \ free /\ b \notin Named(f)
    BY <1>3, <2>2, NamedApart
  <2>4. \A b \in Named(g) : data'[b] = data[b] BY <1>1, <1>2, <2>3
  <2> QED BY <2>1, <2>4, ContentKept
<1>10. \A g \in Linked : inode'[g].size = inode[g].size
  BY <1>6 DEF Linked
<1> QED BY <1>5, <1>7, <1>8, <1>9, <1>10 DEF AllKept

\* What an allocation of m blocks has got.
LEMMA FreshSome ==
  ASSUME TypeOK, NEW m \in Nat, NEW al \in FirstFree(m)
  PROVE  /\ \A k \in 0 .. m - 1 : al[k] \in free /\ al[k] \in DataBlocks
         /\ \A l, k \in 0 .. m - 1 : al[l] = al[k] => l = k
         /\ Taken(al) = {al[k] : k \in 0 .. m - 1}
BY DEF FirstFree, Taken, TypeOK

\* The words that an allocation of m blocks leaves when no word has to move.
LEMMA AllocWords ==
  ASSUME FileInv({}), Sized, NEW f \in Inodes, NEW off \in Offsets, NEW d \in Payloads,
         NEW w \in Plans(f, off, Len(d)), w.bj >= NrUsed(f) - 1,
         NEW m \in Nat, First(f, w) + m =< MaxBlocks, NEW al \in FirstFree(m),
         NEW new, new = Allocated(f, w, m, al)
  PROVE  /\ new \in [Slots -> Word]
         /\ First(f, w) \in Nat /\ First(f, w) >= NrUsed(f)
         /\ NotNew(f) => First(f, w) # 0
         /\ \A s \in Slots :
              IF First(f, w) =< s /\ s < First(f, w) + m
              THEN /\ s - First(f, w) \in 0 .. m - 1
                   /\ get_block_number(new[s]) = al[s - First(f, w)]
              ELSE new[s] = index[f][s]
<1>1. /\ TypeOK /\ w.bj \in Slots /\ w.n \in 1 .. MaxBlocks
      /\ NrUsed(f) \in -1 .. MaxBlocks /\ f \in Linked
      /\ NrUsed(f) > 0 => w.bj < NrUsed(f)
  BY Planned DEF FileInv, Live, Linked
<1>2. /\ w.bj \in Nat /\ w.n \in Nat \ {0} /\ NrUsed(f) \in Int /\ MaxBlocks \in Nat
      /\ \A s \in Slots : s \in Nat
  BY <1>1, DiskAssumption DEF Slots
<1>3. First(f, w) \in Nat /\ First(f, w) >= NrUsed(f) /\ (NotNew(f) => First(f, w) # 0)
  <2>1. CASE NotNew(f) BY <1>2, <2>1 DEF First
  <2>2. CASE ~ NotNew(f)
    <3>1. inode[f].size \in Nat /\ inode[f].blocks \in Int
      BY <1>1, DiskAssumption DEF TypeOK
    <3>2. inode[f].size = 0 => inode[f].blocks =< 1
      BY <1>1 DEF FileInv, Layout
    <3> QED BY <1>2, <2>2, <3>1, <3>2, SMTT(60) DEF First, NotNew, NrUsed
  <2> QED BY <2>1, <2>2
<1>4. \A s \in Slots : Shifted(f, w)[s] = index[f][s]
  <2>1. \A s \in Slots : ~ (w.bj + w.n < s /\ s < NrUsed(f) + w.n)
    BY <1>2
  <2> QED BY <2>1 DEF Shifted
<1> DEFINE a == First(f, w)
<1>5. \A s \in Slots :
        new[s] = IF a =< s /\ s < a + m
                 THEN set_block_size(set_block_number(index[f][s], al[s - a]), 0)
                 ELSE index[f][s]
  BY <1>4 DEF Allocated
<1>6. new = [s \in Slots |-> new[s]] BY DEF Allocated
<1>7. \A s \in Slots : index[f][s] \in Word BY <1>1 DEF TypeOK
<1>8. a \in Nat BY <1>3
<1> HIDE DEF a
<1>9. ASSUME NEW s \in Slots
      PROVE  /\ new[s] \in Word
             /\ IF a =< s /\ s < a + m
                THEN /\ s - a \in 0 .. m - 1
                     /\ get_block_number(new[s]) = al[s - a]
                ELSE new[s] = index[f][s]
  <2>1. CASE a =< s /\ s < a + m
    <3>1. s - a \in 0 .. m - 1 BY <1>2, <1>8, <2>1
    <3>2. al[s - a] \in DataBlocks BY <1>1, <3>1, FreshSome
    <3> QED BY <1>5, <1>7, <2>1, <3>1, <3>2, SetNumber, SetSize, DataBlockNumber, SMTT(60)
  <2>2. CASE ~ (a =< s /\ s < a + m) BY <1>5, <1>7, <2>2
  <2> QED BY <2>1, <2>2
<1>10. new \in [Slots -> Word] BY <1>6, <1>9
<1> QED BY <1>3, <1>9, <1>10 DEF a

\* An allocation that stops half way, when no word has to move, leaves blocks that no
\* file counts.
LEMMA AllocKeeps ==
  ASSUME FileInv({}), Sized, NEW f \in Inodes, NEW off \in Offsets, NEW d \in Payloads,
         NEW w \in Plans(f, off, Len(d)), w.bj >= NrUsed(f) - 1, WriteAllocFails(f, w)
  PROVE  FileInv({})' /\ AllKept
<1>1. /\ TypeOK /\ f \in Linked /\ w.n \in 1 .. MaxBlocks /\ f \in Inodes
      /\ NrUsed(f) \in -1 .. MaxBlocks
  BY Planned DEF FileInv, Live, Linked
<1>2. Available \in Nat
  <2>1. IsFiniteSet(free \cap Blocks)
    BY <1>1, FreeFinite, FS_Subset
  <2> QED BY <2>1, FS_CardinalityType DEF Available
<1>3. PICK m \in Nat :
        /\ First(f, w) + m =< MaxBlocks
        /\ \E al \in FirstFree(m) :
             /\ free' = (IF m < w.n /\ m = Available THEN free \ {0} ELSE free) \ Taken(al)
             /\ index' = [index EXCEPT ![f] = Allocated(f, w, m, al)]
        /\ nrFree' = nrFree - m
  <2>1. Min({w.n, Available}) \in Nat
    <3>1. {w.n, Available} \in SUBSET Nat /\ {w.n, Available} # {}
      BY <1>1, <1>2, DiskAssumption
    <3> QED BY <3>1, MinNat
  <2>2. (1 .. Min({w.n, Available}))
               \cup (IF Available < w.n THEN {Available} ELSE {}) \subseteq Nat
    BY <1>2, <2>1
  <2> QED BY <2>2 DEF WriteAllocFails
<1>4. PICK al \in FirstFree(m) :
        /\ free' = (IF m < w.n /\ m = Available THEN free \ {0} ELSE free) \ Taken(al)
        /\ index' = [index EXCEPT ![f] = Allocated(f, w, m, al)]
  BY <1>3
<1>5. inode' = inode /\ data' = data /\ corrupt' = corrupt /\ ret'.errno \in Errnos
  BY DEF WriteAllocFails, Ret, Errnos
<1>6. PICK new, a : new = Allocated(f, w, m, al) /\ a = First(f, w)
  OBVIOUS
<1>7. /\ new \in [Slots -> Word]
      /\ a \in Nat /\ a >= NrUsed(f) /\ (NotNew(f) => a # 0)
      /\ \A s \in Slots :
           IF a =< s /\ s < a + m
           THEN s - a \in 0 .. m - 1 /\ get_block_number(new[s]) = al[s - a]
           ELSE new[s] = index[f][s]
  <2>1. First(f, w) + m =< MaxBlocks BY <1>3
  <2>2. /\ new \in [Slots -> Word]
        /\ First(f, w) \in Nat /\ First(f, w) >= NrUsed(f)
        /\ NotNew(f) => First(f, w) # 0
        /\ \A s \in Slots :
             IF First(f, w) =< s /\ s < First(f, w) + m
             THEN /\ s - First(f, w) \in 0 .. m - 1
                  /\ get_block_number(new[s]) = al[s - First(f, w)]
             ELSE new[s] = index[f][s]
    BY <1>6, <2>1, AllocWords
  <2> QED BY <1>6, <2>2
<1>8. /\ \A k \in 0 .. m - 1 : al[k] \in free /\ al[k] \in DataBlocks
      /\ \A l, k \in 0 .. m - 1 : al[l] = al[k] => l = k
      /\ Taken(al) = {al[k] : k \in 0 .. m - 1}
  BY <1>1, FreshSome
<1>9. /\ free' \subseteq free
      /\ \A k \in 0 .. m - 1 : al[k] \notin free'
  BY <1>4, <1>8
<1>10. /\ index' \in [Inodes -> [Slots -> Word]]
       /\ index'[f] = new /\ \A g \in Inodes \ {f} : index'[g] = index[g]
  BY <1>1, <1>4, <1>6, <1>7 DEF TypeOK
<1>11. Linked' = Linked /\ Linked \subseteq Inodes
  BY <1>5 DEF Linked
<1>12. TypeOK'
  <2>1. nrFree' \in Int BY <1>1, <1>3 DEF TypeOK
  <2> QED BY <1>1, <1>5, <1>9, <1>10, <2>1 DEF TypeOK
<1>13. \A g \in Linked \ {f}, s \in Slots :
         index'[g][s] = index[g][s] /\ NumberAt(g, s)' = NumberAt(g, s)
  BY <1>10, <1>11 DEF NumberAt
<1>14. ASSUME NEW s \in Slots
       PROVE  \/ s - a \in 0 .. m - 1 /\ NumberAt(f, s)' = al[s - a]
              \/ index'[f][s] = index[f][s] /\ NumberAt(f, s)' = NumberAt(f, s)
  BY <1>7, <1>10 DEF NumberAt
<1>15. \A s \in Slots : s \in Int BY DEF Slots
<1>16. Separate'
  <2>1. \A g \in Linked : inode[g].indexBlock \in DataBlocks \ free'
    BY <1>9 DEF FileInv, Separate
  <2>2. ASSUME NEW g \in Linked, NEW s \in Slots, index'[g][s] # 0
        PROVE  /\ NumberAt(g, s)' \in DataBlocks \ free'
               /\ \A h \in Linked : inode[h].indexBlock # NumberAt(g, s)'
    <3>1. CASE g # f
      BY <1>9, <1>13, <2>2, <3>1 DEF FileInv, Separate
    <3>2. CASE g = f /\ s - a \in 0 .. m - 1 /\ NumberAt(f, s)' = al[s - a]
      BY <1>8, <1>9, <3>2 DEF FileInv, Separate
    <3>3. CASE g = f /\ index'[f][s] = index[f][s] /\ NumberAt(f, s)' = NumberAt(f, s)
      BY <1>9, <2>2, <3>3 DEF FileInv, Separate
    <3> QED BY <1>14, <3>1, <3>2, <3>3
  <2>3. ASSUME NEW g \in Linked, NEW s \in Slots, index'[g][s] # 0
        PROVE  \/ g = f /\ s - a \in 0 .. m - 1 /\ NumberAt(g, s)' = al[s - a]
               \/ index[g][s] # 0 /\ NumberAt(g, s)' = NumberAt(g, s)
    <3>1. CASE g = f BY <1>14, <2>3, <3>1
    <3>2. CASE g # f BY <1>13, <2>3, <3>2
    <3> QED BY <3>1, <3>2
  <2>4. ASSUME NEW g \in Linked, NEW h \in Linked, NEW s \in Slots, NEW t \in Slots,
               index'[g][s] # 0, index'[h][t] # 0, NumberAt(g, s)' = NumberAt(h, t)'
        PROVE  g = h /\ s = t
    <3>1. CASE /\ g = f /\ s - a \in 0 .. m - 1 /\ NumberAt(g, s)' = al[s - a]
               /\ h = f /\ t - a \in 0 .. m - 1 /\ NumberAt(h, t)' = al[t - a]
      <4>1. s - a = t - a BY <1>8, <2>4, <3>1
      <4> QED BY <1>7, <1>15, <3>1, <4>1
    <3>2. CASE /\ index[g][s] # 0 /\ NumberAt(g, s)' = NumberAt(g, s)
               /\ index[h][t] # 0 /\ NumberAt(h, t)' = NumberAt(h, t)
      <4>1. NumberAt(g, s) = NumberAt(h, t) /\ index[g][s] # 0 /\ index[h][t] # 0
        BY <2>4, <3>2
      <4> QED BY <4>1 DEF FileInv, Separate
    <3>3. CASE /\ s - a \in 0 .. m - 1 /\ NumberAt(g, s)' = al[s - a]
               /\ index[h][t] # 0 /\ NumberAt(h, t)' = NumberAt(h, t)
      <4>1. NumberAt(g, s)' \in free BY <1>8, <3>3
      <4>2. NumberAt(h, t)' \notin free
        BY <3>3 DEF FileInv, Separate
      <4> QED BY <2>4, <4>1, <4>2
    <3>4. CASE /\ t - a \in 0 .. m - 1 /\ NumberAt(h, t)' = al[t - a]
               /\ index[g][s] # 0 /\ NumberAt(g, s)' = NumberAt(g, s)
      <4>1. NumberAt(h, t)' \in free BY <1>8, <3>4
      <4>2. NumberAt(g, s)' \notin free
        BY <3>4 DEF FileInv, Separate
      <4> QED BY <2>4, <4>1, <4>2
    <3> QED BY <2>3, <2>4, <3>1, <3>2, <3>3, <3>4
  <2>5. /\ \A g, h \in Linked : inode[g].indexBlock = inode[h].indexBlock => g = h
    BY DEF FileInv, Separate
  <2> QED BY <1>5, <1>11, <2>1, <2>2, <2>4, <2>5 DEF Separate
<1>17. ASSUME NEW g \in Linked, NEW s \in Slots, s < NrUsed(g)
       PROVE  index'[g][s] = index[g][s]
  <2>1. CASE g = f
    <3>1. ~ (a =< s) BY <1>1, <1>7, <1>15, <1>17, <2>1
    <3> QED BY <1>7, <1>10, <2>1, <3>1
  <2>2. CASE g # f BY <1>13, <2>2
  <2> QED BY <2>1, <2>2
<1>18. \A g \in Linked : inode[g].size > 0 => index'[g][0] # 0
  <2> SUFFICES ASSUME NEW g \in Linked, inode[g].size > 0 PROVE index'[g][0] # 0
    OBVIOUS
  <2>1. 0 \in Slots /\ index[g][0] # 0
    BY DiskAssumption DEF FileInv, Layout, Slots
  <2>2. g = f => ~ (a =< 0) BY <1>7 DEF NotNew
  <2> QED BY <1>7, <1>10, <1>13, <2>1, <2>2
<1>19. \A g \in Linked : NrUsed(g)' = NrUsed(g) BY <1>5 DEF NrUsed
<1>20. Layout({})'
  <2>1. ASSUME NEW g \in Linked
        PROVE  /\ \A s \in Slots : s < NrUsed(g)' => index'[g][s] # 0
               /\ inode[g].size > 0 => index'[g][0] # 0
               /\ inode[g].size = 0 => inode[g].blocks =< 1
    <3>1. \A s \in Slots : s < NrUsed(g) => index[g][s] # 0
      BY DEF FileInv, Layout
    <3>2. inode[g].size = 0 => inode[g].blocks =< 1
      BY DEF FileInv, Layout
    <3> QED BY <1>17, <1>18, <1>19, <3>1, <3>2
  <2> QED BY <1>5, <1>11, <2>1 DEF Layout
<1>21. ASSUME NEW g \in Linked PROVE Content(g)' = Content(g)
  <2>1. NrUsed(g) \in -1 .. MaxBlocks
    BY <1>1, DiskAssumption, SMTT(60) DEF TypeOK, Linked, NrUsed
  <2>2. ASSUME NEW k \in 1 .. NrUsed(g)
        PROVE  /\ SizeAt(g, k - 1)' = SizeAt(g, k - 1)
               /\ NumberAt(g, k - 1)' = NumberAt(g, k - 1)
    <3>1. k - 1 \in Slots /\ k - 1 < NrUsed(g)
      BY <2>1, DiskAssumption DEF Slots
    <3>2. index'[g][k - 1] = index[g][k - 1] BY <1>17, <3>1
    <3> QED BY <3>2 DEF SizeAt, NumberAt
  <2> DEFINE bytes(k) == [x \in 1 .. SizeAt(g, k - 1) |->
                            data[NumberAt(g, k - 1)][x - 1]]
             blocks == [k \in 1 .. NrUsed(g) |-> bytes(k)]
  <2>3. \A k \in 1 .. NrUsed(g) : bytes(k)' = bytes(k)
    BY <1>5, <2>2
  <2>4. blocks' = [k \in 1 .. NrUsed(g) |-> bytes(k)'] BY <1>19
  <2>5. blocks' = blocks BY <2>3, <2>4
  <2>6. Content(g) = FlattenSeq(blocks) BY DEF Content
  <2>7. Content(g)' = FlattenSeq(blocks') BY DEF Content
  <2> HIDE DEF blocks
  <2> QED BY <2>5, <2>6, <2>7
<1> QED BY <1>5, <1>11, <1>12, <1>16, <1>20, <1>21 DEF FileInv, AllKept

-----------------------------------------------------------------------------
(* The sizes of files. What every supported call makes of the files, and    *)
(* their sizes.                                                             *)

\* The calls that change neither an inode nor a word nor a block.
LEMMA QuietKeeps ==
  ASSUME FileInv({}), free' \subseteq free, nrFree' \in Int,
         UNCHANGED <<inode, index, data>>, corrupt' \in BOOLEAN, ret'.errno \in Errnos
  PROVE  FileInv({})' /\ AllKept
<1>1. FileInv({})'
  <2>1. PICK X : X = {} OBVIOUS
  <2>2. FileInv(X) BY <2>1
  <2>3. FileInv(X)' BY <2>2, IdleStep
  <2> QED BY <2>1, <2>3
<1>2. Linked' = Linked BY DEF Linked
<1>3. \A g \in Linked : inode'[g] = inode[g] /\ Content(g)' = Content(g)
  BY ContentKept
<1> QED BY <1>1, <1>2, <1>3 DEF AllKept

\* The supported failures.
Fails(f, off, d, w) ==
  \/ w.bj >= NrUsed(f) - 1 /\ WriteAllocFails(f, w)
  \/ NotNew(f) /\ WriteSplitFails(f, w)
  \/ NotNew(f) /\ off =< inode[f].size /\ WriteCopyFails(f, d, w, 0)

\* A supported write that fails leaves every file as it was.
LEMMA FailKeeps ==
  ASSUME FileInv({}), Sized, Sized', SizeIsSum, NEW f \in Inodes, NEW off \in Offsets,
         NEW d \in Payloads, NEW w \in Plans(f, off, Len(d)),
         Supported(f, off, Len(d), w), Fails(f, off, d, w)
  PROVE  FileInv({})' /\ AllKept
<1>1. f \in Linked /\ TypeOK BY Planned DEF FileInv, Live, Linked
<1>2. Located(f) /\ NrUsed(f) \in 0 .. MaxBlocks
  BY <1>1, ContentBytes DEF Sized, Located
<1>3. CASE w.bj >= NrUsed(f) - 1 /\ WriteAllocFails(f, w)
  BY <1>3, AllocKeeps
<1>4. CASE NotNew(f) /\ WriteSplitFails(f, w)
  <2>1. PICK al \in FirstFree(w.n) : \E new, N, y : Stop(f, w, al, new, N, y)
    BY <1>2, <1>4, SplitStops
  <2>2. PICK new, N, y : Stop(f, w, al, new, N, y) BY <2>1
  <2> QED BY <1>4, <2>2, StopKeeps
<1>5. CASE NotNew(f) /\ off =< inode[f].size /\ WriteCopyFails(f, d, w, 0)
  <2>1. off =< Total(Sizes(f))[NrUsed(f)]
    BY <1>1, <1>2, <1>5 DEF SizeIsSum, Located
  <2>2. w.byj =< SizeAt(f, w.bj) BY <1>5, <2>1, WhereJump
  <2>3. PICK al \in FirstFree(w.n) : \E new, N, y : Stop(f, w, al, new, N, y)
    BY <1>2, <1>5, <2>2, CopyStops
  <2>4. PICK new, N, y : Stop(f, w, al, new, N, y) BY <2>3
  <2> QED BY <1>5, <2>4, StopKeeps
<1> QED BY <1>3, <1>4, <1>5 DEF Fails

\* create makes a file without bytes.
LEMMA CreateMakes ==
  ASSUME FileInv({}), Sized', NEW f \in Inodes, Create(f)
  PROVE  /\ FileInv({})' /\ Apart(f)
         /\ f \notin Linked /\ Linked' = Linked \cup {f}
         /\ Content(f)' = <<>> /\ inode'[f].size = 0
         /\ \A g \in Inodes \ {f} : inode'[g] = inode[g]
<1>1. FileInv({})'
  <2>1. PICK X : X = {} OBVIOUS
  <2>2. FileInv(X) BY <2>1
  <2>3. FileInv(X)' BY <2>2, CreateStep
  <2> QED BY <2>1, <2>3
<1>2. /\ ~ inode[f].linked
      /\ \E b : inode' = [inode EXCEPT ![f] = [linked |-> TRUE, size |-> 0,
                                               blocks |-> 1, indexBlock |-> b]]
  BY DEF Create
<1>3. /\ inode'[f].linked /\ inode'[f].size = 0 /\ inode'[f].blocks = 1
      /\ \A g \in Inodes \ {f} : inode'[g] = inode[g]
  BY <1>2 DEF FileInv, TypeOK
<1>4. f \notin Linked /\ Linked' = Linked \cup {f}
  BY <1>2, <1>3 DEF Linked
<1>5. Content(f)' = <<>>
  <2>1. Located(f)' BY <1>1, <1>4, ContentBytesNext DEF Sized
  <2>2. NrUsed(f)' = 0 BY <1>3 DEF NrUsed
  <2>3. /\ Content(f)' \in Seq(Byte) /\ Sizes(f)' \in [Slots -> Nat]
        /\ Len(Content(f)') = Total(Sizes(f)')[NrUsed(f)']
    BY <2>1 DEF Located
  <2>4. PICK h : h = Sizes(f)' OBVIOUS
  <2>5. Total(h)[0] = 0
    <3>1. h \in [Slots -> Int] BY <2>3, <2>4
    <3> QED BY <3>1, TotalOf
  <2>6. Len(Content(f)') = 0 BY <2>2, <2>3, <2>4, <2>5
  <2> QED BY <2>3, <2>6
<1> QED BY <1>1, <1>3, <1>4, <1>5, CreateApart

\* unlink removes a file.
LEMMA UnlinkMakes ==
  ASSUME FileInv({}), NEW f \in Inodes, Unlink(f)
  PROVE  /\ FileInv({})' /\ Apart(f)
         /\ f \in Linked /\ Linked' = Linked \ {f}
         /\ \A g \in Inodes \ {f} : inode'[g] = inode[g]
<1>1. FileInv({})'
  <2>1. PICK X : X = {} OBVIOUS
  <2>2. FileInv(X) BY <2>1
  <2>3. FileInv(X)' BY <2>2, UnlinkStep
  <2> QED BY <2>1, <2>3
<1>2. f \in Linked /\ inode' = [inode EXCEPT ![f] = NoInode]
  BY DEF Unlink, Live, Linked
<1>3. ~ inode'[f].linked /\ \A g \in Inodes \ {f} : inode'[g] = inode[g]
  BY <1>2 DEF FileInv, TypeOK, NoInode
<1>4. Linked' = Linked \ {f} BY <1>3 DEF Linked
<1> QED BY <1>1, <1>2, <1>3, <1>4, UnlinkApart

\* write inserts.
LEMMA WriteMakes ==
  ASSUME FileInv({}), Sized, Sized', SizeIsSum, NEW f \in Inodes, NEW off \in Offsets,
         NEW d \in Payloads, NEW w \in Plans(f, off, Len(d)),
         Supported(f, off, Len(d), w), Write(f, off, d, w)
  PROVE  /\ FileInv({})' /\ Apart(f)
         /\ f \in Linked /\ Linked' = Linked
         /\ Content(f) \in Seq(Byte) /\ Content(f)' \in Seq(Byte)
         /\ off \in Nat /\ d \in Seq(Byte) /\ Len(d) \in Nat
         /\ Insertion(Content(f)', Content(f), d, Len(d), off)
         /\ inode'[f].size = Len(Content(f)')
         /\ \A g \in Inodes \ {f} : inode'[g] = inode[g]
<1>1. FileInv({})'
  <2>1. PICK X : X = {} OBVIOUS
  <2>2. FileInv(X) /\ f \notin X BY <2>1
  <2>3. FileInv(X)' BY <2>2, WriteStep
  <2> QED BY <2>1, <2>3
<1>2. f \in Linked /\ d \in Seq(Byte) /\ Len(d) \in Nat /\ off \in Nat
  BY Planned, InputAssumption DEF FileInv, Live, Linked
<1>3. inode' = [inode EXCEPT ![f].blocks = @ + w.n,
                             ![f].size = @ + Len(d) + EmptySpace(f, off)]
  BY DEF Write
<1>4. /\ inode'[f].linked = inode[f].linked
      /\ inode'[f].size = inode[f].size + Len(d) + EmptySpace(f, off)
      /\ \A g \in Inodes \ {f} : inode'[g] = inode[g]
  BY <1>3 DEF FileInv, TypeOK
<1>5. Linked' = Linked BY <1>4 DEF Linked
<1>6. f \in Linked' /\ Insertion(Content(f)', Content(f), d, Len(d), off)
  BY <1>1, WriteInserts
<1>7. Content(f) \in Seq(Byte) /\ Content(f)' \in Seq(Byte)
  <2>1. Located(f) /\ Located(f)'
    BY <1>1, <1>2, <1>6, ContentBytes, ContentBytesNext DEF Sized
  <2> QED BY <2>1 DEF Located
<1>8. inode'[f].size = Len(Content(f)')
  <2>1. inode[f].size = Len(Content(f)) BY <1>2 DEF SizeIsSum
  <2>2. EmptySpace(f, off) = Gap(off, Len(Content(f)))
    BY <2>1 DEF EmptySpace, Gap
  <2> QED BY <1>4, <1>6, <2>1, <2>2 DEF Insertion
<1> QED BY <1>1, <1>2, <1>4, <1>5, <1>6, <1>7, <1>8, WriteApart

\* What the supported calls keep: nothing is shared, every size is that of its file.
StoreInv == FileInv({}) /\ Sized /\ SizeIsSum

\* The calls that change no file.
Quiet(f) ==
  \/ CreateFails(f)
  \/ \E off \in Offsets, len \in ReadLens : Read(f, off, len)
  \/ \E off \in Offsets, d \in Payloads : WriteRejected(f, off, d)

\* A supported step is a call that changes no file, a failure, or one of the three that
\* create, remove and fill a file.
LEMMA SupportedCases ==
  ASSUME SupportedNext
  PROVE  \E f \in Inodes :
           \/ Create(f) \/ Unlink(f) \/ Quiet(f)
           \/ \E off \in Offsets, d \in Payloads : \E w \in Plans(f, off, Len(d)) :
                Supported(f, off, Len(d), w) /\ (Write(f, off, d, w) \/ Fails(f, off, d, w))
BY DEF SupportedNext, Quiet, Fails

\* A call that changes no file leaves every file as it was.
LEMMA QuietCalls ==
  ASSUME FileInv({}), NEW f \in Inodes, Quiet(f)
  PROVE  FileInv({})' /\ AllKept
<1>1. TypeOK BY DEF FileInv
<1>2. free' \subseteq free /\ nrFree' \in Int /\ UNCHANGED <<inode, index, data>>
      /\ corrupt' \in BOOLEAN
  BY <1>1 DEF Quiet, CreateFails, Read, WriteRejected, disk, TypeOK
<1>3. ret'.errno \in Errnos
  <2>1. CASE CreateFails(f) BY <2>1 DEF CreateFails, Ret, Errnos
  <2>2. ASSUME NEW off \in Offsets, NEW len \in ReadLens, Read(f, off, len)
        PROVE  ret'.errno \in Errnos
    BY <2>2 DEF Read, Ret, Errnos
  <2>3. ASSUME NEW off \in Offsets, NEW d \in Payloads, WriteRejected(f, off, d)
        PROVE  ret'.errno \in Errnos
    BY <2>3 DEF WriteRejected, WriteErrno, Ret, Errnos
  <2> QED BY <2>1, <2>2, <2>3 DEF Quiet
<1> QED BY <1>2, <1>3, QuietKeeps

\* Nothing is shared and no file has a size at first.
LEMMA StoreInit == Init => StoreInv
<1>1. Init => SizeIsSum BY DEF Init, SizeIsSum, Linked, NoInode
<1> QED BY <1>1, FileInit, SizedInit DEF StoreInv

\* A file keeps its size and its bytes, or has both from the call.
LEMMA StoreNext == StoreInv /\ [SupportedNext]_vars => StoreInv'
<1> SUFFICES ASSUME StoreInv, [SupportedNext]_vars PROVE StoreInv'
  OBVIOUS
<1>1. FileInv({}) /\ Sized /\ SizeIsSum BY DEF StoreInv
<1>2. Sized' BY <1>1, SizedNext
<1>3. AllKept => SizeIsSum' BY <1>1 DEF AllKept, SizeIsSum
<1>4. ASSUME NEW f \in Inodes, Apart(f), \A g \in Inodes \ {f} : inode'[g] = inode[g],
             Linked' \subseteq Linked \cup {f},
             f \in Linked' => inode'[f].size = Len(Content(f)')
      PROVE  SizeIsSum'
  <2>1. ASSUME NEW g \in Linked', g # f PROVE inode'[g].size = Len(Content(g)')
    <3>1. g \in Linked \ {f} /\ g \in Inodes \ {f}
      BY <1>4, <2>1 DEF Linked
    <3>2. Content(g)' = Content(g) /\ inode'[g] = inode[g]
      BY <1>4, <3>1 DEF Apart
    <3> QED BY <1>1, <3>1, <3>2 DEF SizeIsSum
  <2> QED BY <1>4, <2>1 DEF SizeIsSum
<1>5. CASE UNCHANGED vars
  <2>1. AllKept /\ FileInv({})'
    BY <1>1, <1>5, QuietKeeps DEF vars, FileInv, TypeOK
  <2> QED BY <1>2, <1>3, <2>1 DEF StoreInv
<1>6. ASSUME NEW f \in Inodes, Create(f) PROVE StoreInv'
  <2>1. /\ FileInv({})' /\ Apart(f) /\ Linked' = Linked \cup {f}
        /\ Content(f)' = <<>> /\ inode'[f].size = 0
        /\ \A g \in Inodes \ {f} : inode'[g] = inode[g]
    BY <1>1, <1>2, <1>6, CreateMakes
  <2>2. SizeIsSum' BY <1>4, <2>1
  <2> QED BY <1>2, <2>1, <2>2 DEF StoreInv
<1>7. ASSUME NEW f \in Inodes, Unlink(f) PROVE StoreInv'
  <2>1. /\ FileInv({})' /\ Apart(f) /\ Linked' = Linked \ {f}
        /\ \A g \in Inodes \ {f} : inode'[g] = inode[g]
    BY <1>1, <1>7, UnlinkMakes
  <2>2. SizeIsSum' BY <1>4, <2>1
  <2> QED BY <1>2, <2>1, <2>2 DEF StoreInv
<1>8. ASSUME NEW f \in Inodes, Quiet(f) PROVE StoreInv'
  BY <1>1, <1>2, <1>3, <1>8, QuietCalls DEF StoreInv
<1>9. ASSUME NEW f \in Inodes, NEW off \in Offsets, NEW d \in Payloads,
             NEW w \in Plans(f, off, Len(d)), Supported(f, off, Len(d), w),
             Write(f, off, d, w)
      PROVE  StoreInv'
  <2>1. /\ FileInv({})' /\ Apart(f) /\ f \in Linked /\ Linked' = Linked
        /\ inode'[f].size = Len(Content(f)')
        /\ \A g \in Inodes \ {f} : inode'[g] = inode[g]
    BY <1>1, <1>2, <1>9, WriteMakes
  <2>2. SizeIsSum' BY <1>4, <2>1
  <2> QED BY <1>2, <2>1, <2>2 DEF StoreInv
<1>10. ASSUME NEW f \in Inodes, NEW off \in Offsets, NEW d \in Payloads,
              NEW w \in Plans(f, off, Len(d)), Supported(f, off, Len(d), w),
              Fails(f, off, d, w)
       PROVE  StoreInv'
  BY <1>1, <1>2, <1>3, <1>10, FailKeeps DEF StoreInv
<1> QED BY <1>5, <1>6, <1>7, <1>8, <1>9, <1>10, SupportedCases

\* The invariant of the supported calls holds in every state.
LEMMA StoreAlways == SupportedSpec => []StoreInv
BY StoreInit, StoreNext, PTL DEF SupportedSpec

\* As long as the calls are those that the insertion is right for, the size in the inode
\* is what the sizes in the words of the index block add up to: what write adds to the
\* one, a gap after the end included, it puts in the others.
THEOREM FileSizes == SupportedSpec => []SizeIsSum
<1>1. StoreInv => SizeIsSum BY DEF StoreInv
<1> QED BY <1>1, StoreAlways, PTL

-----------------------------------------------------------------------------
(* Refinement of FileStore. Every supported call is one of the abstract     *)
(* store, or changes nothing there.                                         *)

\* The lesser of two integers.
Least(a, b) == IF a =< b THEN a ELSE b

\* Min picks it.
LEMMA MinOf ==
  ASSUME NEW a \in Int, NEW b \in Int
  PROVE  Min({a, b}) = Least(a, b)
<1>1. PICK m \in {a, b} : m = Least(a, b) BY DEF Least
<1>2. m \in {a, b} /\ \A y \in {a, b} : m =< y BY <1>1 DEF Least
<1>3. \A x \in {a, b} : (\A y \in {a, b} : x =< y) => x = m
  BY <1>2
<1> QED BY <1>1, <1>2, <1>3 DEF Min

\* How many bytes a read from off in slot r has passed before its part k.
Passed(h, r, off, k) == IF k = 0 THEN 0 ELSE Total(h)[r + k] - off

\* A read of at most M bytes from off in slot r takes from every slot what it has, as
\* long as there are bytes to read; ss are the parts and g their lengths.
Pieces(h, D, r, off, M, n, ss, g) ==
  /\ ss = [k \in 1 .. n |-> ss[k]] /\ g \in [Slots -> Nat]
  /\ \A s \in 0 .. n - 1 :
       /\ ss[s + 1] \in Seq(Byte) /\ Len(ss[s + 1]) = g[s]
       /\ g[s] = Least(M, Passed(h, r, off, s + 1)) - Least(M, Passed(h, r, off, s))
       /\ \A x \in 1 .. g[s] :
            ss[s + 1][x] = D[r + s][(IF s = 0 THEN off - Total(h)[r] ELSE 0) + x - 1]

\* The parts together are the bytes from off on.
LEMMA ReadPieces ==
  ASSUME NEW c, NEW h, NEW D, NEW u, Laid(c, h, u, D), NEW M \in Nat, NEW off \in Nat,
         NEW r \in 0 .. u - 1, Total(h)[r] =< off, off =< Total(h)[r + 1],
         NEW n \in Nat, n = u - r, NEW ss, NEW g, Pieces(h, D, r, off, M, n, ss, g)
  PROVE  /\ FlattenSeq(ss) \in Seq(Byte)
         /\ Len(FlattenSeq(ss)) = Least(M, Total(h)[u] - off)
         /\ \A p \in 1 .. Len(FlattenSeq(ss)) : FlattenSeq(ss)[p] = c[off + p]
<1> DEFINE P(k) == Passed(h, r, off, k)
           W == FlattenSeq(ss)
<1>1. /\ u \in 0 .. MaxBlocks /\ h \in [Slots -> Nat] /\ c \in Seq(Byte)
      /\ Len(c) = Total(h)[u]
      /\ \A s \in 0 .. u - 1 : \A x \in 1 .. h[s] : c[Total(h)[s] + x] = D[s][x - 1]
  BY DEF Laid
<1>2. /\ MaxBlocks \in Nat /\ Slots = 0 .. MaxBlocks - 1 /\ u \in Nat /\ u =< MaxBlocks
      /\ r \in Nat /\ r < u /\ n \in 1 .. MaxBlocks /\ r + n = u
      /\ n \in 0 .. MaxBlocks /\ h \in [Slots -> Int]
  BY <1>1, DiskAssumption DEF Slots
<1>0. /\ MaxBlocks \in Nat /\ u \in Nat /\ u =< MaxBlocks /\ r \in Nat /\ n \in Nat
      /\ 1 =< n /\ r + n = u
  BY <1>2
<1>3. /\ \A k \in 0 .. MaxBlocks : Total(h)[k] \in Nat
      /\ \A a, b \in 0 .. MaxBlocks : a =< b => Total(h)[a] =< Total(h)[b]
      /\ \A s \in Slots : Total(h)[s + 1] = Total(h)[s] + h[s]
  BY <1>1, <1>2, TotalGrows, TotalOf
<1>4. /\ ss = [k \in 1 .. n |-> ss[k]] /\ g \in [Slots -> Nat]
      /\ \A s \in 0 .. n - 1 :
           /\ ss[s + 1] \in Seq(Byte) /\ Len(ss[s + 1]) = g[s]
           /\ g[s] = Least(M, P(s + 1)) - Least(M, P(s))
           /\ \A x \in 1 .. g[s] :
                ss[s + 1][x] = D[r + s][(IF s = 0 THEN off - Total(h)[r] ELSE 0) + x - 1]
  BY DEF Pieces
<1>5. /\ P(0) = 0
      /\ \A k \in 1 .. n : P(k) = Total(h)[r + k] - off /\ P(k) \in Nat
  <2>1. P(0) = 0 BY DEF Passed
  <2>2. ASSUME NEW k \in 1 .. n PROVE P(k) = Total(h)[r + k] - off /\ P(k) \in Nat
    <3>1. r + k \in 0 .. MaxBlocks /\ r + 1 \in 0 .. MaxBlocks /\ r + 1 =< r + k
      <4>1. k \in Nat /\ 1 =< k /\ k =< n BY <1>0
      <4> QED BY <1>0, <4>1
    <3>2. Total(h)[r + 1] =< Total(h)[r + k] /\ Total(h)[r + k] \in Nat
          /\ Total(h)[r + 1] \in Nat
      BY <1>3, <3>1
    <3> QED BY <3>2 DEF Passed
  <2> QED BY <2>1, <2>2
<1> HIDE DEF P
<1>6. /\ FlattenSeq(ss) \in Seq(Byte) /\ Len(W) = Total(g)[n]
      /\ \A s \in 0 .. n - 1 : \A x \in 1 .. g[s] : W[Total(g)[s] + x] = ss[s + 1][x]
  <2>1. \A k \in 1 .. n : ss[k] \in Seq(Byte) /\ Len(ss[k]) = g[k - 1]
    <3>1. ASSUME NEW k \in 1 .. n PROVE ss[k] \in Seq(Byte) /\ Len(ss[k]) = g[k - 1]
      <4>1. PICK s \in 0 .. n - 1 : s + 1 = k /\ s = k - 1 BY <1>2
      <4> QED BY <1>4, <4>1
    <3> QED BY <3>1
  <2>2. Parts(Byte, n, ss, g) BY <1>4, <2>1 DEF Parts
  <2>3. PICK m, e, parts : m = n /\ e = g /\ parts = ss OBVIOUS
  <2>4. m \in 0 .. MaxBlocks /\ e \in [Slots -> Nat] /\ Parts(Byte, m, parts, e)
    BY <1>2, <1>4, <2>2, <2>3
  <2>5. /\ FlattenSeq(parts) \in Seq(Byte)
        /\ Len(FlattenSeq(parts)) = Total(e)[m]
        /\ \A s \in 0 .. m - 1 : \A x \in 1 .. e[s] :
              FlattenSeq(parts)[Total(e)[s] + x] = parts[s + 1][x]
    BY <2>4, Flattened, SMTT(120)
  <2> QED BY <2>3, <2>5
<1>7. \A k \in 0 .. n : Total(g)[k] = Least(M, P(k))
  <2> DEFINE S == {k \in 0 .. n : Total(g)[k] = Least(M, P(k))}
  <2>1. g \in [Slots -> Int] BY <1>4
  <2>2. Total(g)[0] = 0 /\ \A s \in Slots : Total(g)[s + 1] = Total(g)[s] + g[s]
    BY <2>1, TotalOf
  <2>3. 0 \in S BY <1>2, <1>5, <2>2 DEF Least
  <2>4. ASSUME NEW k \in 0 .. n - 1, k \in S PROVE k + 1 \in S
    <3>0. k \in Nat /\ k + 1 =< n BY <1>0
    <3>1. k \in Slots /\ k + 1 \in 0 .. n /\ k \in Nat /\ k + 1 \in 1 .. n
          /\ k \in 0 .. n /\ (k # 0 => k \in 1 .. n)
      BY <1>0, <3>0 DEF Slots
    <3>2. Total(g)[k + 1] = Total(g)[k] + g[k] /\ Total(g)[k] = Least(M, P(k))
      BY <2>2, <2>4, <3>1
    <3>3. g[k] = Least(M, P(k + 1)) - Least(M, P(k)) BY <1>4
    <3>4. P(k) \in Nat /\ P(k + 1) \in Nat
      <4>1. CASE k = 0 BY <1>5, <3>1, <4>1
      <4>2. CASE k # 0 BY <1>5, <3>1, <4>2
      <4> QED BY <4>1, <4>2
    <3>5. Least(M, P(k)) \in Int /\ Least(M, P(k + 1)) \in Int
      BY <3>4 DEF Least
    <3>6. Total(g)[k + 1] = Least(M, P(k + 1)) BY <3>2, <3>3, <3>5
    <3> QED BY <3>1, <3>6
  <2> HIDE DEF S
  <2>5. \A k \in 0 .. n - 1 : k \in S => k + 1 \in S BY <2>4
  <2>6. n \in Int /\ 0 \in Nat BY <1>2
  <2>7. \A k \in 0 .. n : k \in S BY <2>3, <2>5, <2>6, UpTo
  <2> QED BY <2>7 DEF S
<1>8. Len(W) = Least(M, Total(h)[u] - off)
  <2>1. n \in 0 .. n /\ n \in 1 .. n BY <1>2
  <2> QED BY <1>2, <1>5, <1>6, <1>7, <2>1
<1>9. ASSUME NEW p \in 1 .. Len(W) PROVE W[p] = c[off + p]
  <2>1. p \in 1 .. Total(g)[n] BY <1>6
  <2>2. PICK s \in 0 .. n - 1 : \E x \in 1 .. g[s] : p = Total(g)[s] + x
    BY <1>2, <1>4, <2>1, TotalLocates
  <2>3. PICK x \in 1 .. g[s] : p = Total(g)[s] + x BY <2>2
  <2>4. s \in Nat /\ s < n /\ s \in Slots /\ s \in 0 .. n /\ s + 1 \in 1 .. n
        /\ r + s \in Slots /\ r + s \in 0 .. u - 1 /\ r \in 0 .. MaxBlocks
        /\ r + s \in 0 .. MaxBlocks /\ (s # 0 => s \in 1 .. n)
    <3>1. s \in Nat /\ s < n BY <1>0
    <3>2. s + 1 =< n /\ 1 =< s + 1 /\ r + s \in Nat /\ r + s < u /\ s < MaxBlocks
      BY <1>0, <3>1
    <3>3. s \in Slots /\ r + s \in Slots
      BY <1>0, <3>1, <3>2 DEF Slots
    <3> QED BY <1>0, <3>1, <3>2, <3>3
  <2>5. g[s] \in Nat /\ x \in Nat /\ 1 =< x /\ x =< g[s]
    BY <1>4, <2>4
  <2>6. W[p] = D[r + s][(IF s = 0 THEN off - Total(h)[r] ELSE 0) + x - 1]
    <3>1. W[Total(g)[s] + x] = ss[s + 1][x] BY <1>6
    <3>2. ss[s + 1][x] = D[r + s][(IF s = 0 THEN off - Total(h)[r] ELSE 0) + x - 1]
      BY <1>4
    <3> QED BY <2>3, <3>1, <3>2
  <2>7. /\ P(s) \in Nat /\ P(s + 1) \in Nat
        /\ s # 0 => P(s) = Total(h)[r + s] - off
        /\ s = 0 => P(s) = 0
    <3>1. CASE s = 0 BY <1>5, <2>4, <3>1
    <3>2. CASE s # 0 BY <1>5, <2>4, <3>2
    <3> QED BY <3>1, <3>2
  <2>8. Total(g)[s] = Least(M, P(s)) /\ g[s] = Least(M, P(s + 1)) - Least(M, P(s))
    BY <1>4, <1>7, <2>4
  <2>9. Total(g)[s] = P(s) /\ x =< P(s + 1) - P(s)
    BY <2>5, <2>7, <2>8, SMTT(60) DEF Least
  <2>11. Total(h)[r] \in Nat /\ Total(h)[r + s] \in Nat /\ h[r + s] \in Nat
    BY <1>1, <1>3, <2>4
  <2>10. P(s + 1) = Total(h)[r + s] + h[r + s] - off
    <3>1. P(s + 1) = Total(h)[r + (s + 1)] - off BY <1>5, <2>4
    <3>2. PICK q \in Nat : q = r + s BY <1>0, <2>4
    <3>3. r + (s + 1) = q + 1 BY <1>0, <2>4, <3>2
    <3>4. Total(h)[q + 1] = Total(h)[q] + h[q] BY <1>3, <2>4, <3>2
    <3>5. PICK t \in Nat : t = Total(h)[q] BY <2>11, <3>2
    <3>6. PICK z \in Nat : z = h[q] BY <2>11, <3>2
    <3>7. Total(h)[q + 1] = t + z BY <3>4, <3>5, <3>6
    <3>8. P(s + 1) = t + z - off
      <4>1. PICK v : v = r + (s + 1) OBVIOUS
      <4>2. Total(h)[v] = t + z BY <3>3, <3>7, <4>1
      <4> QED BY <3>1, <4>1, <4>2
    <3> QED BY <3>2, <3>5, <3>6, <3>8
  <2>14. PICK o \in Int : o = off - Total(h)[r] /\ 0 =< o BY <2>11
  <2>12. CASE s = 0
    <3>1. r + s = r BY <1>0, <2>12
    <3>2. PICK t \in Nat : t = Total(h)[r] BY <2>11
    <3>3. PICK z \in Nat : z = h[r] BY <2>11, <3>1
    <3>4. o = off - t /\ P(s) = 0 /\ P(s + 1) = t + z - off
      BY <2>7, <2>10, <2>12, <2>14, <3>1, <3>2, <3>3
    <3>5. PICK q \in Int : q = o + x BY <2>5
    <3>6. p = x /\ x =< z - o BY <2>3, <2>5, <2>9, <3>4
    <3>7. 1 =< q /\ q =< z /\ off + p = t + q
      <4>1. x \in Int /\ p \in Int /\ off \in Int /\ o \in Int /\ z \in Int /\ t \in Int
            /\ q \in Int
        BY <2>5, <3>6
      <4>2. 1 =< x /\ 0 =< o /\ o = off - t BY <2>5, <2>14, <3>4
      <4> QED BY <3>5, <3>6, <4>1, <4>2
    <3>8. q \in 1 .. h[r] /\ off + p = Total(h)[r] + q
      BY <3>2, <3>3, <3>7
    <3>9. c[Total(h)[r] + q] = D[r][q - 1] BY <1>1, <1>2, <3>8
    <3>10. W[p] = D[r][o + x - 1] BY <2>6, <2>12, <2>14, <3>1
    <3>11. o + x - 1 = q - 1 BY <2>5, <3>5
    <3> QED BY <3>8, <3>9, <3>10, <3>11
  <2>13. CASE s # 0
    <3>4. PICK t \in Nat : t = Total(h)[r + s] BY <2>11
    <3>5. PICK z \in Nat : z = h[r + s] BY <2>11
    <3>6. P(s) = t - off /\ P(s + 1) = t + z - off
      BY <2>7, <2>10, <2>13, <3>4, <3>5
    <3>7. x =< z /\ off + p = t + x BY <2>3, <2>5, <2>9, <3>6
    <3>1. x \in 1 .. h[r + s] /\ off + p = Total(h)[r + s] + x
      BY <2>5, <3>4, <3>5, <3>7
    <3>2. c[Total(h)[r + s] + x] = D[r + s][x - 1]
      BY <1>1, <2>4, <3>1
    <3>3. W[p] = D[r + s][x - 1] BY <2>5, <2>6, <2>13
    <3> QED BY <3>1, <3>2, <3>3
  <2> QED BY <2>12, <2>13
<1> QED BY <1>6, <1>8, <1>9

\* What read does in the slot s places after the one where it begins: o bytes of it are
\* before the offset, l bytes are left to read, and z of them are here.
Takes(h, D, r, off, M, s, o, l, z, piece) ==
  /\ o = IF s = 0 THEN off - Total(h)[r] ELSE 0
  /\ l = Max({0, M - Passed(h, r, off, s)})
  /\ z = Min({l, h[r + s] - o})
  /\ piece = [x \in 1 .. z |-> D[r + s][o + x - 1]]

\* What it takes there is what brings the sum of all to the lesser of the bytes that it
\* wants and those that there are.
LEMMA PieceOf ==
  ASSUME NEW c, NEW h, NEW D, NEW u, Laid(c, h, u, D), NEW M \in Nat, NEW off \in Nat,
         NEW r \in 0 .. u - 1, Total(h)[r] =< off, off =< Total(h)[r + 1],
         NEW s \in Nat, r + s < u,
         NEW o, NEW l, NEW z, NEW piece, Takes(h, D, r, off, M, s, o, l, z, piece)
  PROVE  /\ z \in Nat
         /\ z = Least(M, Passed(h, r, off, s + 1)) - Least(M, Passed(h, r, off, s))
         /\ piece \in Seq(Byte) /\ Len(piece) = z
         /\ \A x \in 1 .. z : piece[x] = D[r + s][o + x - 1]
<1>1. /\ u \in 0 .. MaxBlocks /\ h \in [Slots -> Nat] /\ c \in Seq(Byte)
      /\ Len(c) = Total(h)[u]
      /\ \A t \in 0 .. u - 1 : \A x \in 1 .. h[t] : c[Total(h)[t] + x] = D[t][x - 1]
  BY DEF Laid
<1>0. /\ o = IF s = 0 THEN off - Total(h)[r] ELSE 0
      /\ l = Max({0, M - Passed(h, r, off, s)})
      /\ z = Min({l, h[r + s] - o})
      /\ piece = [x \in 1 .. z |-> D[r + s][o + x - 1]]
  BY DEF Takes
<1>2. MaxBlocks \in Nat /\ u \in Nat /\ u =< MaxBlocks /\ r \in Nat /\ r < u
  BY <1>1, DiskAssumption
<1>3. PICK j0 \in Nat : j0 = r + s BY <1>2
<1>4. j0 \in Slots /\ j0 < u /\ r \in Slots /\ h \in [Slots -> Int] /\ j0 \in 0 .. u - 1
      /\ r + 1 \in 0 .. MaxBlocks /\ j0 \in 0 .. MaxBlocks /\ j0 + 1 \in 0 .. MaxBlocks
      /\ r \in 0 .. MaxBlocks /\ u \in 0 .. MaxBlocks /\ j0 + 1 =< u
      /\ (s # 0 => r + 1 =< j0) /\ r + (s + 1) = j0 + 1
  BY <1>1, <1>2, <1>3 DEF Slots
<1>5. /\ \A k \in 0 .. MaxBlocks : Total(h)[k] \in Nat
      /\ \A a, b \in 0 .. MaxBlocks : a =< b => Total(h)[a] =< Total(h)[b]
      /\ \A t \in Slots : Total(h)[t + 1] = Total(h)[t] + h[t]
  BY <1>1, <1>4, TotalGrows, TotalOf
<1>6. PICK T \in Nat : T = Total(h)[r] BY <1>4, <1>5
<1>7. PICK U \in Nat : U = Total(h)[j0] BY <1>4, <1>5
<1>8. PICK y \in Nat : y = h[j0] BY <1>1, <1>4
<1>9. Total(h)[j0 + 1] = U + y BY <1>4, <1>5, <1>7, <1>8
<1>10. Total(h)[r + 1] = T + h[r] /\ h[r] \in Nat
  BY <1>1, <1>4, <1>5, <1>6
<1>11. /\ T =< off
       /\ s = 0 => U = T /\ off =< U + y
       /\ s # 0 => off =< U
  <2>1. T =< off BY <1>6
  <2>2. s = 0 => U = T /\ off =< U + y
    <3>1. SUFFICES ASSUME s = 0 PROVE U = T /\ off =< U + y
      OBVIOUS
    <3>2. j0 = r BY <1>2, <1>3, <3>1
    <3> QED BY <1>6, <1>7, <1>9, <3>2
  <2>3. s # 0 => off =< U
    <3>1. SUFFICES ASSUME s # 0 PROVE off =< U OBVIOUS
    <3>2. Total(h)[r + 1] =< Total(h)[j0] BY <1>4, <1>5, <3>1
    <3>3. PICK V \in Nat : V = Total(h)[r + 1] BY <1>4, <1>5
    <3> QED BY <1>7, <3>2, <3>3
  <2> QED BY <2>1, <2>2, <2>3
<1>12. PICK P : P = Passed(h, r, off, s) OBVIOUS
<1>13. PICK Q : Q = Passed(h, r, off, s + 1) OBVIOUS
<1>14. P = IF s = 0 THEN 0 ELSE U - off
  BY <1>3, <1>7, <1>12 DEF Passed
<1>15. Q = U + y - off
  <2>1. s + 1 # 0 OBVIOUS
  <2>2. Q = Total(h)[j0 + 1] - off BY <1>4, <1>13, <2>1 DEF Passed
  <2> QED BY <1>9, <2>2
<1>16. P \in Nat /\ Q \in Nat /\ P =< Q /\ o \in Nat /\ y - o = Q - P
  <2>1. CASE s = 0 BY <1>0, <1>6, <1>11, <1>14, <1>15, <2>1
  <2>2. CASE s # 0 BY <1>0, <1>11, <1>14, <1>15, <2>2
  <2> QED BY <2>1, <2>2
<1>17. l = IF 0 >= M - P THEN 0 ELSE M - P
  <2>1. M - P \in Int /\ 0 \in Int BY <1>16
  <2>2. PICK e \in Int : e = M - P BY <2>1
  <2>3. Max({0, e}) = IF 0 >= e THEN 0 ELSE e BY MaxOf
  <2> QED BY <1>0, <1>12, <2>2, <2>3
<1>18. z = Least(l, Q - P)
  <2>1. PICK e \in Int : e = Q - P BY <1>16
  <2>2. PICK a \in Int : a = l BY <1>16, <1>17
  <2>3. Min({a, e}) = Least(a, e) BY MinOf
  <2>4. h[r + s] - o = e BY <1>3, <1>8, <1>16, <2>1
  <2> QED BY <1>0, <2>1, <2>2, <2>3, <2>4
<1>19. z \in Nat /\ z = Least(M, Q) - Least(M, P) /\ z =< y - o
  <2>1. M \in Int /\ P \in Int /\ Q \in Int /\ 0 =< M /\ 0 =< P /\ P =< Q /\ y - o = Q - P
        /\ o \in Int /\ y \in Int
    BY <1>8, <1>16
  <2>2. CASE M =< P
    <3>1. l = 0 /\ z = 0 BY <1>17, <1>18, <2>1, <2>2 DEF Least
    <3>2. Least(M, P) = M /\ Least(M, Q) = M
      BY <2>1, <2>2 DEF Least
    <3> QED BY <2>1, <3>1, <3>2
  <2>3. CASE P < M /\ M =< Q
    <3>1. l = M - P /\ z = M - P
      BY <1>17, <1>18, <2>1, <2>3 DEF Least
    <3>2. Least(M, P) = P /\ Least(M, Q) = M
      BY <2>1, <2>3 DEF Least
    <3> QED BY <2>1, <2>3, <3>1, <3>2
  <2>4. CASE Q < M
    <3>1. l = M - P BY <1>17, <2>1, <2>4
    <3>2. z = Q - P
      <4>1. ~ (l =< Q - P) BY <2>1, <2>4, <3>1
      <4> QED BY <1>18, <4>1 DEF Least
    <3>3. Least(M, P) = P /\ Least(M, Q) = Q
      BY <2>1, <2>4 DEF Least
    <3> QED BY <2>1, <3>2, <3>3
  <2> QED BY <2>1, <2>2, <2>3, <2>4
<1>20. \A x \in 1 .. z : D[r + s][o + x - 1] \in Byte
  <2> SUFFICES ASSUME NEW x \in 1 .. z PROVE D[r + s][o + x - 1] \in Byte
    OBVIOUS
  <2>1. PICK q \in Int : q = o + x BY <1>16, <1>19
  <2>2. q \in 1 .. y /\ o + x - 1 = q - 1
    <3>1. x \in Int /\ 1 =< x /\ x =< z BY <1>19
    <3>2. o \in Int /\ z \in Int /\ y \in Int /\ 0 =< o /\ z =< y - o
      BY <1>8, <1>16, <1>19
    <3>3. 1 =< q /\ q =< y /\ o + x - 1 = q - 1
      BY <2>1, <3>1, <3>2
    <3> QED BY <2>1, <3>2, <3>3
  <2>3. c[U + q] = D[j0][q - 1] BY <1>1, <1>4, <1>7, <1>8, <2>2
  <2>4. U + y =< Len(c)
    <3>1. Total(h)[j0 + 1] =< Total(h)[u] BY <1>4, <1>5
    <3> QED BY <1>1, <1>9, <3>1
  <2>5. U + q \in 1 .. Len(c) BY <1>1, <2>2, <2>4, SMTT(60)
  <2>6. c[U + q] \in Byte BY <1>1, <2>5
  <2> QED BY <1>3, <2>2, <2>3, <2>6
<1>21. piece \in Seq(Byte) /\ Len(piece) = z
  <2>1. z \in Nat BY <1>19
  <2>3. PICK t \in Nat : t = z BY <2>1
  <2>4. \A x \in 1 .. t : D[r + s][o + x - 1] \in Byte
    BY <1>20, <2>3
  <2>5. piece = [x \in 1 .. t |-> D[r + s][o + x - 1]]
    BY <1>0, <2>3
  <2> DEFINE e(x) == D[r + s][o + x - 1]
  <2> HIDE DEF e
  <2>6. [x \in 1 .. t |-> e(x)] \in Seq(Byte) /\ Len([x \in 1 .. t |-> e(x)]) = t
    <3>1. \A x \in 1 .. t : e(x) \in Byte BY <2>4 DEF e
    <3> QED BY <3>1
  <2> QED BY <2>3, <2>5, <2>6 DEF e
<1> QED BY <1>0, <1>12, <1>13, <1>19, <1>21

\* A read begins in the first slot whose end is not before the offset.
LEMMA ReadBegins ==
  ASSUME NEW h \in [Slots -> Nat], NEW u \in 0 .. MaxBlocks, NEW off \in Nat,
         off < Total(h)[u], NEW r,
         r = Min({k \in 0 .. u - 1 : off =< Total(h)[k + 1]} \cup {u})
  PROVE  r \in 0 .. u - 1 /\ Total(h)[r] =< off /\ off =< Total(h)[r + 1]
<1> DEFINE reach == {k \in 0 .. u - 1 : off =< Total(h)[k + 1]}
           S == reach \cup {u}
<1>1. MaxBlocks \in Nat /\ u \in Nat /\ u =< MaxBlocks /\ h \in [Slots -> Int]
  BY DiskAssumption
<1>2. /\ \A k \in 0 .. MaxBlocks : Total(h)[k] \in Nat
      /\ Total(h)[0] = 0
  BY <1>1, TotalGrows, TotalOf
<1>3. u # 0 BY <1>2
<1>4. S \in SUBSET Nat /\ S # {} BY <1>1
<1>5. r \in S /\ \A y \in S : r =< y
  <2> HIDE DEF S
  <2>1. Min(S) \in S /\ \A y \in S : Min(S) =< y BY <1>4, MinNat
  <2> QED BY <2>1 DEF S
<1>6. u - 1 \in S
  <2>1. u - 1 \in 0 .. u - 1 /\ u - 1 + 1 = u BY <1>1, <1>3
  <2>2. off =< Total(h)[(u - 1) + 1]
    <3>1. Total(h)[u] \in Nat BY <1>1, <1>2
    <3> QED BY <2>1, <3>1
  <2> QED BY <2>1, <2>2
<1>7. r \in 0 .. u - 1
  <2>1. r =< u - 1 /\ r \in Nat BY <1>4, <1>5, <1>6
  <2> QED BY <1>1, <2>1
<1>8. off =< Total(h)[r + 1]
  <2>1. r # u BY <1>1, <1>7
  <2> QED BY <1>5, <2>1
<1>9. Total(h)[r] =< off
  <2>1. CASE r = 0 BY <1>2, <2>1
  <2>2. CASE r # 0
    <3>0. r \in Nat /\ r # 0 BY <1>1, <1>7, <2>2
    <3>1. PICK q \in Nat : q = r - 1
      <4>1. PICK t \in Nat \ {0} : t = r BY <3>0
      <4>2. t - 1 \in Nat OBVIOUS
      <4> QED BY <4>1, <4>2
    <3>2. q \in 0 .. u - 1 /\ q + 1 = r /\ ~ (r =< q) /\ r \in 0 .. MaxBlocks
      BY <1>1, <1>7, <2>2, <3>1
    <3>3. q \notin S BY <1>5, <3>2
    <3>4. ~ (off =< Total(h)[q + 1]) BY <3>2, <3>3
    <3>5. ~ (off =< Total(h)[r]) /\ Total(h)[r] \in Nat
      BY <1>2, <3>2, <3>4
    <3> QED BY <3>5
  <2> QED BY <2>1, <2>2
<1> QED BY <1>7, <1>8, <1>9

\* A read before the end of a file returns its bytes from the offset on.
LEMMA ReadFetches ==
  ASSUME FileInv({}), Sized, SizeIsSum, NEW f \in Linked, NEW off \in Nat,
         off < inode[f].size, NEW len \in Nat
  PROVE  ReadBytes(f, off, len) =
           SubSeq(Content(f), off + 1, Least(off + len, Len(Content(f))))
<1>1. PICK h : h = Sizes(f) OBVIOUS
<1>2. PICK D : D = BytesOf(f) OBVIOUS
<1>3. PICK u : u = NrUsed(f) OBVIOUS
<1>4. PICK c : c = Content(f) OBVIOUS
<1>5. Laid(c, h, u, D)
  <2>1. FileLaid(f) BY FilesLaid DEF Sized
  <2> QED BY <1>1, <1>2, <1>3, <1>4, <2>1 DEF FileLaid
<1>6. /\ u \in 0 .. MaxBlocks /\ h \in [Slots -> Nat] /\ c \in Seq(Byte)
      /\ Len(c) = Total(h)[u]
  BY <1>5 DEF Laid
<1>7. MaxBlocks \in Nat /\ u \in Nat /\ u =< MaxBlocks /\ h \in [Slots -> Int]
      /\ Slots = 0 .. MaxBlocks - 1
  BY <1>6, DiskAssumption DEF Slots
<1>8. \A k \in 0 .. MaxBlocks : Total(h)[k] \in Nat
  BY <1>6, TotalGrows
<1>9. PICK V \in Nat : V = Total(h)[u] BY <1>6, <1>8
<1>10. inode[f].size = V /\ Len(c) = V /\ off < V
  BY <1>4, <1>6, <1>9 DEF SizeIsSum
<1>11. /\ \A s \in Slots : h[s] = SizeAt(f, s) /\ D[s] = data[NumberAt(f, s)]
  BY <1>1, <1>2, SizesFit DEF BytesOf, FileInv, Linked
<1>12. \A k \in 0 .. u - 1 : Jumped(f, k) = Total(h)[k + 1]
  <2> SUFFICES ASSUME NEW k \in 0 .. u - 1 PROVE Jumped(f, k) = Total(h)[k + 1]
    OBVIOUS
  <2>1. k \in Slots BY <1>7
  <2> QED BY <1>7, <1>11, <2>1, JumpedTotal
<1> DEFINE Start == Min({k \in 0 .. u - 1 : off =< Jumped(f, k)} \cup {u})
<1>13. PICK r : r = Start OBVIOUS
<1>14. r \in 0 .. u - 1 /\ Total(h)[r] =< off /\ off =< Total(h)[r + 1]
  <2>1. {k \in 0 .. u - 1 : off =< Jumped(f, k)} = {k \in 0 .. u - 1 : off =< Total(h)[k + 1]}
    BY <1>12
  <2>2. r = Min({k \in 0 .. u - 1 : off =< Total(h)[k + 1]} \cup {u})
    BY <1>13, <2>1
  <2>3. off < Total(h)[u] BY <1>9, <1>10
  <2> QED BY <1>6, <2>2, <2>3, ReadBegins
<1>15. PICK M \in Nat : M = Least(len, V) /\ M = Min({len, inode[f].size})
  <2>1. len \in Int /\ V \in Int BY <1>9
  <2>2. Min({len, V}) = Least(len, V) BY <2>1, MinOf
  <2> QED BY <1>9, <1>10, <2>2 DEF Least
<1> DEFINE jump(e) == IF e = r THEN SizeAt(f, e) - (Jumped(f, e) - off) ELSE 0
           ahead(e) == IF e = r THEN 0 ELSE Jumped(f, e - 1) - off
           rest(e) == Max({0, M - ahead(e)})
           count(e) == Min({rest(e), SizeAt(f, e) - jump(e)})
           part(e) == [x \in 1 .. count(e) |-> data[NumberAt(f, e)][jump(e) + x - 1]]
<1>16. ReadBytes(f, off, len) = FlattenSeq([k \in 1 .. u - r |-> part(r + k - 1)])
  BY <1>3, <1>13, <1>15, Zenon DEF ReadBytes
<1>17. PICK n \in Nat : n = u - r /\ n =< MaxBlocks BY <1>7, <1>14
<1> DEFINE Got(s) == Least(M, Passed(h, r, off, s + 1)) - Least(M, Passed(h, r, off, s))
<1>18. ASSUME NEW s \in 0 .. n - 1
       PROVE  /\ count(r + s) \in Nat /\ count(r + s) = Got(s)
              /\ part(r + s) \in Seq(Byte) /\ Len(part(r + s)) = count(r + s)
              /\ \A x \in 1 .. count(r + s) : part(r + s)[x] =
                   D[r + s][(IF s = 0 THEN off - Total(h)[r] ELSE 0) + x - 1]
  <2>0. s \in Nat /\ r \in Nat /\ r + s < u /\ s < n
    BY <1>7, <1>14, <1>17
  <2>1. PICK e \in Nat : e = r + s BY <2>0
  <2>2. e \in 0 .. u - 1 /\ e \in Slots /\ (e = r <=> s = 0) /\ r \in 0 .. u - 1 /\ r \in Slots
        /\ e - 1 + 1 = e /\ (s # 0 => e - 1 \in 0 .. u - 1)
    BY <1>7, <2>0, <2>1
  <2>3. h[e] = SizeAt(f, e) /\ h[e] \in Nat /\ D[e] = data[NumberAt(f, e)]
    BY <1>6, <1>11, <2>2
  <2>4. jump(e) = IF s = 0 THEN off - Total(h)[r] ELSE 0
    <3>1. CASE s = 0
      <4>1. e = r /\ Jumped(f, r) = Total(h)[r + 1]
        BY <1>12, <2>2, <3>1
      <4>2. Total(h)[r + 1] = Total(h)[r] + h[r]
        BY <1>7, <2>2, TotalOf
      <4>3. PICK t \in Nat : t = Total(h)[r] BY <1>7, <1>8, <2>2
      <4>4. PICK z \in Nat : z = h[r] BY <2>3, <4>1
      <4>5. Jumped(f, e) = t + z /\ SizeAt(f, e) = z
        BY <2>3, <4>1, <4>2, <4>3, <4>4
      <4>6. jump(e) = z - ((t + z) - off) BY <4>1, <4>5
      <4>7. jump(e) = off - t BY <4>3, <4>4, <4>6
      <4> QED BY <3>1, <4>3, <4>7
    <3>2. CASE s # 0 BY <2>2, <3>2
    <3> QED BY <3>1, <3>2
  <2>5. ahead(e) = Passed(h, r, off, s)
    <3>1. CASE s = 0 BY <2>2, <3>1 DEF Passed
    <3>2. CASE s # 0
      <4>1. Jumped(f, e - 1) = Total(h)[(e - 1) + 1]
        BY <1>12, <2>2, <3>2
      <4>2. Jumped(f, e - 1) = Total(h)[r + s] BY <2>1, <2>2, <4>1
      <4> QED BY <2>2, <3>2, <4>2 DEF Passed
    <3> QED BY <3>1, <3>2
  <2>6. rest(e) = Max({0, M - Passed(h, r, off, s)}) BY <2>5
  <2>7. count(e) = Min({rest(e), h[e] - jump(e)}) BY <2>3
  <2>8. part(e) = [x \in 1 .. count(e) |-> D[e][jump(e) + x - 1]]
    BY <2>3
  <2> HIDE DEF jump, ahead, rest, count, part
  <2>9. PICK o, l, z, piece : o = jump(e) /\ l = rest(e) /\ z = count(e) /\ piece = part(e)
    OBVIOUS
  <2>10. /\ r + s < u
         /\ o = IF s = 0 THEN off - Total(h)[r] ELSE 0
         /\ l = Max({0, M - Passed(h, r, off, s)})
         /\ z = Min({l, h[r + s] - o})
         /\ piece = [x \in 1 .. z |-> D[r + s][o + x - 1]]
    BY <2>0, <2>1, <2>4, <2>6, <2>7, <2>8, <2>9
  <2>11. /\ z \in Nat
         /\ z = Least(M, Passed(h, r, off, s + 1)) - Least(M, Passed(h, r, off, s))
         /\ piece \in Seq(Byte) /\ Len(piece) = z
         /\ \A x \in 1 .. z : piece[x] = D[r + s][o + x - 1]
    <3>1. /\ Laid(c, h, u, D) /\ M \in Nat /\ off \in Nat /\ r \in 0 .. u - 1
          /\ Total(h)[r] =< off /\ off =< Total(h)[r + 1] /\ s \in Nat
      BY <1>5, <1>14, <1>15, <2>0
    <3>2. Takes(h, D, r, off, M, s, o, l, z, piece)
      BY <2>10 DEF Takes
    <3> QED BY <2>0, <3>1, <3>2, PieceOf
  <2> QED BY <2>1, <2>4, <2>9, <2>11
<1> HIDE DEF jump, ahead, rest, count, part
<1>19. PICK ss : ss = [k \in 1 .. n |-> part(r + k - 1)] OBVIOUS
<1>20. PICK g : g = [s \in Slots |-> IF s < n THEN count(r + s) ELSE 0]
  OBVIOUS
<1>21. Pieces(h, D, r, off, M, n, ss, g)
  <2>1. g \in [Slots -> Nat]
    <3>1. ASSUME NEW s \in Slots PROVE (IF s < n THEN count(r + s) ELSE 0) \in Nat
      <4>1. s \in Nat BY <1>7
      <4>2. CASE s < n BY <1>17, <1>18, <4>1, <4>2
      <4>3. CASE ~ (s < n) BY <4>3
      <4> QED BY <4>2, <4>3
    <3> QED BY <1>20, <3>1
  <2>2. ASSUME NEW s \in 0 .. n - 1
        PROVE  /\ ss[s + 1] \in Seq(Byte) /\ Len(ss[s + 1]) = g[s]
               /\ g[s] = Got(s)
               /\ \A x \in 1 .. g[s] : ss[s + 1][x] =
                    D[r + s][(IF s = 0 THEN off - Total(h)[r] ELSE 0) + x - 1]
    <3>0. s \in Nat /\ r \in Nat /\ s < n /\ n \in Nat /\ n =< MaxBlocks
      BY <1>7, <1>14, <1>17
    <3>1. s \in Slots /\ s < n /\ s + 1 \in 1 .. n /\ r + (s + 1) - 1 = r + s
      BY <1>7, <3>0
    <3>2. g[s] = count(r + s) /\ ss[s + 1] = part(r + s)
      BY <1>19, <1>20, <3>1
    <3> QED BY <1>18, <3>2
  <2>3. ss = [k \in 1 .. n |-> ss[k]] BY <1>19
  <2> QED BY <2>1, <2>2, <2>3 DEF Pieces
<1>22. /\ FlattenSeq(ss) \in Seq(Byte)
       /\ Len(FlattenSeq(ss)) = Least(M, Total(h)[u] - off)
       /\ \A p \in 1 .. Len(FlattenSeq(ss)) : FlattenSeq(ss)[p] = c[off + p]
  BY <1>5, <1>14, <1>17, <1>21, ReadPieces
<1>23. PICK m \in Int : m = Least(off + len, V) BY <1>9 DEF Least
<1>24. Len(FlattenSeq(ss)) = m - off /\ off =< m /\ m =< V
  <2>1. Least(M, V - off) = m - off /\ off =< m /\ m =< V
    BY <1>9, <1>10, <1>15, <1>23 DEF Least
  <2> QED BY <1>9, <1>22, <2>1
<1>25. FlattenSeq(ss) = SubSeq(c, off + 1, m)
  <2>1. \A p \in off + 1 .. m : c[p] \in Byte
    BY <1>6, <1>10, <1>24
  <2>2. off + 1 \in Int OBVIOUS
  <2>3. PICK q \in Int : q = off + 1 BY <2>2
  <2>4. /\ SubSeq(c, q, m) \in Seq(Byte)
        /\ Len(SubSeq(c, q, m)) = IF q =< m THEN m - q + 1 ELSE 0
        /\ \A p \in 1 .. m - q + 1 : SubSeq(c, q, m)[p] = c[q + p - 1]
    BY <1>23, <2>1, <2>3, SubSeqProperties
  <2>5. Len(SubSeq(c, q, m)) = Len(FlattenSeq(ss))
    BY <1>23, <1>24, <2>3, <2>4
  <2>6. \A p \in 1 .. Len(FlattenSeq(ss)) : FlattenSeq(ss)[p] = SubSeq(c, q, m)[p]
    <3> SUFFICES ASSUME NEW p \in 1 .. Len(FlattenSeq(ss))
                 PROVE  FlattenSeq(ss)[p] = SubSeq(c, q, m)[p]
      OBVIOUS
    <3>1. p \in 1 .. m - q + 1 /\ q + p - 1 = off + p
      BY <1>23, <1>24, <2>3
    <3> QED BY <1>22, <2>4, <3>1
  <2>7. FlattenSeq(ss) = SubSeq(c, q, m)
    BY <1>22, <2>4, <2>5, <2>6, SeqEqual
  <2> QED BY <2>3, <2>7
<1> QED BY <1>4, <1>10, <1>16, <1>17, <1>19, <1>23, <1>25

\* The lesser of two integers in the abstract store.
LEMMA StoreMin ==
  ASSUME NEW a \in Int, NEW b \in Int
  PROVE  Store!Min({a, b}) = Least(a, b)
<1>1. Store!Min({a, b}) = Min({a, b}) BY DEF Store!Min, Min
<1> QED BY <1>1, MinOf

\* What write does to the bytes of a file is the insertion that the store promises.
LEMMA InsertionInserts ==
  ASSUME NEW c \in Seq(Byte), NEW e \in Seq(Byte), NEW d \in Seq(Byte), NEW off \in Nat,
         Insertion(e, c, d, Len(d), off)
  PROVE  Store!Inserted(c, off, d, e)
<1>1. PICK C \in Nat : C = Len(c) OBVIOUS
<1>2. PICK L \in Nat : L = Len(d) OBVIOUS
<1>3. /\ Len(e) = C + L + Gap(off, C)
      /\ \A p \in 1 .. Len(e) :
           /\ p =< off /\ p =< C => e[p] = c[p]
           /\ off < p /\ p =< off + L => e[p] = d[p - off]
           /\ off + L < p => p - L \in 1 .. C /\ e[p] = c[p - L]
  BY <1>1, <1>2 DEF Insertion
<1>0. Len(e) = C + L + Gap(off, C) BY <1>3
<1>4. CASE off =< C
  <2>1. Len(e) = C + L BY <1>3, <1>4 DEF Gap
  <2>2. PICK a : a = SubSeq(c, 1, off) OBVIOUS
  <2>3. a \in Seq(Byte) /\ Len(a) = off /\ \A p \in 1 .. off : a[p] = c[p]
    <3>1. \A p \in 1 .. off : c[p] \in Byte BY <1>1, <1>4
    <3>2. off \in Int /\ 1 \in Int OBVIOUS
    <3>3. /\ SubSeq(c, 1, off) \in Seq(Byte)
          /\ Len(SubSeq(c, 1, off)) = IF 1 =< off THEN off - 1 + 1 ELSE 0
          /\ \A p \in 1 .. off - 1 + 1 : SubSeq(c, 1, off)[p] = c[1 + p - 1]
      BY <3>1, <3>2, SubSeqProperties
    <3> QED BY <2>2, <3>3
  <2>4. PICK q \in Int : q = off + 1 OBVIOUS
  <2>5. PICK b : b = SubSeq(c, q, C) OBVIOUS
  <2>6. b \in Seq(Byte) /\ Len(b) = C - off /\ \A p \in 1 .. C - off : b[p] = c[off + p]
    <3>1. \A p \in q .. C : c[p] \in Byte BY <1>1, <1>4, <2>4
    <3>2. /\ SubSeq(c, q, C) \in Seq(Byte)
          /\ Len(SubSeq(c, q, C)) = IF q =< C THEN C - q + 1 ELSE 0
          /\ \A p \in 1 .. C - q + 1 : SubSeq(c, q, C)[p] = c[q + p - 1]
      BY <1>1, <2>4, <3>1, SubSeqProperties
    <3>3. Len(b) = C - off BY <1>1, <1>4, <2>4, <2>5, <3>2
    <3>4. ASSUME NEW p \in 1 .. C - off PROVE b[p] = c[off + p]
      <4>1. p \in 1 .. C - q + 1 /\ q + p - 1 = off + p
        BY <1>1, <2>4
      <4> QED BY <2>5, <3>2, <4>1
    <3> QED BY <2>5, <3>2, <3>3, <3>4
  <2>7. PICK h : h = a \o d OBVIOUS
  <2>8. /\ h \in Seq(Byte) /\ Len(h) = off + L
        /\ \A p \in 1 .. off + L : h[p] = IF p =< off THEN a[p] ELSE d[p - off]
    BY <1>2, <2>3, <2>7, ConcatProperties
  <2>9. /\ h \o b \in Seq(Byte) /\ Len(h \o b) = off + L + (C - off)
        /\ \A p \in 1 .. off + L + (C - off) :
             (h \o b)[p] = IF p =< off + L THEN h[p] ELSE b[p - (off + L)]
    <3>1. h \in Seq(Byte) /\ b \in Seq(Byte) BY <2>6, <2>8
    <3>2. /\ h \o b \in Seq(Byte) /\ Len(h \o b) = Len(h) + Len(b)
          /\ \A p \in 1 .. Len(h) + Len(b) :
               (h \o b)[p] = IF p =< Len(h) THEN h[p] ELSE b[p - Len(h)]
      BY <3>1, ConcatProperties
    <3>3. PICK x, y : x = Len(h) /\ y = Len(b) OBVIOUS
    <3>4. x = off + L /\ y = C - off BY <2>6, <2>8, <3>3
    <3>5. /\ h \o b \in Seq(Byte) /\ Len(h \o b) = x + y
          /\ \A p \in 1 .. x + y : (h \o b)[p] = IF p =< x THEN h[p] ELSE b[p - x]
      BY <3>2, <3>3
    <3> QED BY <3>4, <3>5
  <2>10. Len(h \o b) = Len(e) BY <1>1, <1>2, <2>1, <2>9
  <2>11. ASSUME NEW p \in 1 .. Len(e) PROVE e[p] = (h \o b)[p]
    <3>1. p \in 1 .. off + L + (C - off) /\ p \in Int /\ 1 =< p /\ p =< C + L
      BY <1>1, <1>2, <2>1
    <3>2. (h \o b)[p] = IF p =< off + L THEN h[p] ELSE b[p - (off + L)]
      BY <2>9, <3>1
    <3>3. CASE p =< off
      <4>1. (h \o b)[p] = a[p] BY <1>2, <2>8, <3>1, <3>2, <3>3
      <4>2. a[p] = c[p] BY <2>3, <3>1, <3>3
      <4>3. e[p] = c[p] BY <1>1, <1>3, <1>4, <3>1, <3>3
      <4> QED BY <4>1, <4>2, <4>3
    <3>4. CASE off < p /\ p =< off + L
      <4>1. (h \o b)[p] = d[p - off]
        BY <1>2, <2>8, <3>1, <3>2, <3>4
      <4> QED BY <1>3, <3>4, <4>1
    <3>5. CASE off + L < p
      <4>1. (h \o b)[p] = b[p - (off + L)]
        BY <1>2, <3>1, <3>2, <3>5
      <4>0. p - (off + L) \in Int BY <1>2, <3>1
      <4>2. PICK x \in Int : x = p - (off + L) BY <4>0
      <4>3. x \in 1 .. C - off /\ off + x = p - L
        BY <1>1, <1>2, <3>1, <3>5, <4>2
      <4>4. b[x] = c[off + x] BY <2>6, <4>3
      <4> QED BY <1>3, <3>5, <4>1, <4>2, <4>3, <4>4
    <3>6. p \in Int OBVIOUS
    <3>7. p =< off \/ (off < p /\ p =< off + L) \/ off + L < p
      BY <1>2, <3>6
    <3> QED BY <3>3, <3>4, <3>5, <3>7
  <2>12. e = h \o b BY <2>9, <2>10, <2>11, SeqEqual
  <2> QED BY <1>1, <1>4, <2>2, <2>4, <2>5, <2>7, <2>12 DEF Store!Inserted
<1>5. CASE ~ (off =< C)
  <2>1. Len(e) = off + L
    <3>1. off > C BY <1>1, <1>5
    <3>2. Gap(off, C) = off - C BY <3>1 DEF Gap
    <3> QED BY <1>0, <1>1, <1>2, <3>2
  <2>2. SubSeq(e, 1, C) = c
    <3>1. \A p \in 1 .. C : e[p] \in Byte
      BY <1>1, <1>2, <1>5, <2>1
    <3>2. C \in Int /\ 1 \in Int BY <1>1
    <3>3. /\ SubSeq(e, 1, C) \in Seq(Byte)
          /\ Len(SubSeq(e, 1, C)) = IF 1 =< C THEN C - 1 + 1 ELSE 0
          /\ \A p \in 1 .. C - 1 + 1 : SubSeq(e, 1, C)[p] = e[1 + p - 1]
      BY <3>1, <3>2, SubSeqProperties
    <3>4. Len(SubSeq(e, 1, C)) = Len(c) BY <1>1, <3>3
    <3>5. ASSUME NEW p \in 1 .. Len(c) PROVE SubSeq(e, 1, C)[p] = c[p]
      <4>1. p \in 1 .. C - 1 + 1 /\ 1 + p - 1 = p /\ p \in 1 .. Len(e) /\ p =< off /\ p =< C
        BY <1>1, <1>2, <1>5, <2>1
      <4> QED BY <1>3, <3>3, <4>1
    <3> QED BY <3>3, <3>4, <3>5, SeqEqual
  <2>3. PICK q \in Int : q = off + 1 OBVIOUS
  <2>4. PICK m \in Int : m = off + L BY <1>2
  <2>5. SubSeq(e, q, m) = d
    <3>1. \A p \in q .. m : e[p] \in Byte BY <2>1, <2>3, <2>4
    <3>2. /\ SubSeq(e, q, m) \in Seq(Byte)
          /\ Len(SubSeq(e, q, m)) = IF q =< m THEN m - q + 1 ELSE 0
          /\ \A p \in 1 .. m - q + 1 : SubSeq(e, q, m)[p] = e[q + p - 1]
      BY <2>3, <2>4, <3>1, SubSeqProperties
    <3>3. Len(SubSeq(e, q, m)) = Len(d) BY <1>2, <2>3, <2>4, <3>2
    <3>4. ASSUME NEW p \in 1 .. Len(d) PROVE SubSeq(e, q, m)[p] = d[p]
      <4>1. PICK x \in Int : x = off + p OBVIOUS
      <4>2. /\ p \in 1 .. m - q + 1 /\ q + p - 1 = x /\ x \in 1 .. Len(e)
            /\ off < x /\ x =< off + L /\ x - off = p
        BY <1>2, <2>1, <2>3, <2>4, <4>1
      <4> QED BY <1>3, <3>2, <4>2
    <3> QED BY <3>2, <3>3, <3>4, SeqEqual
  <2> QED BY <1>1, <1>2, <1>5, <2>1, <2>2, <2>3, <2>4, <2>5 DEF Store!Inserted
<1> QED BY <1>4, <1>5

\* The files as the programs see them.
FilesSeen == [f \in Linked |-> Content(f)]

\* The codes with which a call refuses.
Refusals == {"EIO", "ENOSPC", "ESPIPE", "EFBIG", "EFAULT"}

\* At first there are no files.
LEMMA FilesInit == Init => Store!Init
<1> SUFFICES ASSUME Init PROVE Store!Init OBVIOUS
<1>1. Linked = {} BY DEF Init, Linked, NoInode
<1>2. FilesSeen = <<>> BY <1>1, SMT DEF FilesSeen
<1>3. ret = Store!Ret("OK", <<>>) BY DEF Init, Ret, Store!Ret
<1> QED BY <1>2, <1>3 DEF Store!Init, FilesSeen

\* A call that leaves every file as it was.
LEMMA KeptSeen == AllKept => FilesSeen' = FilesSeen
BY DEF AllKept, FilesSeen

\* A call that refuses changes no file, in the abstract store too.
LEMMA RefuseSeen ==
  ASSUME AllKept, NEW e \in Refusals, ret' = Ret(e, <<>>)
  PROVE  Store!Refuse
<1>1. FilesSeen' = FilesSeen BY KeptSeen
<1>2. ret' = Store!Ret(e, <<>>) BY DEF Ret, Store!Ret
<1> QED BY <1>1, <1>2 DEF Store!Refuse, FilesSeen, Refusals

\* The calls that refuse say so.
LEMMA FailsRet ==
  ASSUME NEW f, NEW off, NEW d, NEW w, Fails(f, off, d, w)
  PROVE  \E e \in Refusals : ret' = Ret(e, <<>>)
<1>1. CASE WriteAllocFails(f, w)
  BY <1>1 DEF WriteAllocFails, Refusals
<1>2. CASE WriteSplitFails(f, w)
  BY <1>2 DEF WriteSplitFails, Refusals
<1>3. CASE WriteCopyFails(f, d, w, 0)
  BY <1>3 DEF WriteCopyFails, Refusals
<1> QED BY <1>1, <1>2, <1>3 DEF Fails

\* create adds a file without bytes.
LEMMA CreateSeen ==
  ASSUME StoreInv, Sized', NEW f \in Inodes, Create(f)
  PROVE  Store!Create(f)
<1>1. /\ Apart(f) /\ f \notin Linked /\ Linked' = Linked \cup {f} /\ Content(f)' = <<>>
  BY CreateMakes DEF StoreInv
<1>2. f \notin DOMAIN FilesSeen /\ DOMAIN FilesSeen = Linked
  BY <1>1 DEF FilesSeen
<1>3. \A g \in Linked : g # f /\ Content(g)' = FilesSeen[g]
  BY <1>1 DEF Apart, FilesSeen
<1>4. FilesSeen' = [g \in Linked \cup {f} |-> IF g = f THEN <<>> ELSE FilesSeen[g]]
  <2>1. FilesSeen' = [g \in Linked' |-> Content(g)']
    BY DEF FilesSeen
  <2>2. \A g \in Linked' : Content(g)' = IF g = f THEN <<>> ELSE FilesSeen[g]
    BY <1>1, <1>3
  <2> QED BY <1>1, <2>1, <2>2
<1>5. ret' = Store!Ret("OK", <<>>) BY DEF Create, Ret, Store!Ret
<1> QED BY <1>2, <1>4, <1>5 DEF Store!Create, FilesSeen

\* unlink removes a file.
LEMMA UnlinkSeen ==
  ASSUME StoreInv, NEW f \in Inodes, Unlink(f)
  PROVE  Store!Remove(f)
<1>1. /\ Apart(f) /\ f \in Linked /\ Linked' = Linked \ {f}
  BY UnlinkMakes DEF StoreInv
<1>2. f \in DOMAIN FilesSeen /\ DOMAIN FilesSeen = Linked
  BY <1>1 DEF FilesSeen
<1>3. \A g \in Linked \ {f} : Content(g)' = FilesSeen[g]
  BY <1>1 DEF Apart, FilesSeen
<1>4. FilesSeen' = [g \in Linked \ {f} |-> FilesSeen[g]]
  <2>1. FilesSeen' = [g \in Linked' |-> Content(g)']
    BY DEF FilesSeen
  <2> QED BY <1>1, <1>3, <2>1
<1>5. ret' = Store!Ret("OK", <<>>) BY DEF Unlink, Ret, Store!Ret
<1> QED BY <1>2, <1>4, <1>5 DEF Store!Remove, FilesSeen

\* A supported write inserts.
LEMMA WriteSeen ==
  ASSUME StoreInv, Sized', NEW f \in Inodes, NEW off \in Offsets, NEW d \in Payloads,
         NEW w \in Plans(f, off, Len(d)), Supported(f, off, Len(d), w), Write(f, off, d, w)
  PROVE  Store!Insert(f, off, d)
<1>1. /\ Apart(f) /\ f \in Linked /\ Linked' = Linked
      /\ Content(f) \in Seq(Byte) /\ Content(f)' \in Seq(Byte)
      /\ off \in Nat /\ d \in Seq(Byte)
      /\ Insertion(Content(f)', Content(f), d, Len(d), off)
  BY WriteMakes DEF StoreInv
<1>2. PICK c, e : c = Content(f) /\ e = Content(f)' OBVIOUS
<1>3. c \in Seq(Byte) /\ e \in Seq(Byte) /\ Insertion(e, c, d, Len(d), off)
  BY <1>1, <1>2
<1>4. Store!Inserted(c, off, d, e) BY <1>1, <1>3, InsertionInserts
<1>5. f \in DOMAIN FilesSeen /\ DOMAIN FilesSeen = Linked /\ FilesSeen[f] = c
  BY <1>1, <1>2 DEF FilesSeen
<1>6. DOMAIN FilesSeen' = Linked' /\ FilesSeen'[f] = e
  BY <1>1, <1>2 DEF FilesSeen
<1>7. \A g \in Linked \ {f} : FilesSeen'[g] = FilesSeen[g]
  BY <1>1 DEF Apart, FilesSeen
<1>8. ret' = Store!Ret("OK", <<>>) BY DEF Write, Ret, Store!Ret
<1>9. Store!Inserted(FilesSeen[f], off, d, FilesSeen'[f])
  BY <1>4, <1>5, <1>6
<1> QED BY <1>1, <1>5, <1>6, <1>7, <1>8, <1>9 DEF Store!Insert, FilesSeen

\* read fetches the bytes from the offset on, or refuses.
LEMMA ReadSeen ==
  ASSUME StoreInv, NEW f \in Inodes, NEW off \in Offsets, NEW len \in ReadLens,
         Read(f, off, len), AllKept
  PROVE  Store!Fetch(f, off, len) \/ Store!Refuse
<1>1. f \in Linked /\ off \in Nat /\ len \in Nat
  BY InputAssumption DEF Read, Live, Linked
<1>2. CASE off > MaxFileSize \/ off >= inode[f].size
  <2>1. ret' = Ret("ESPIPE", <<>>) BY <1>2 DEF Read
  <2> QED BY <2>1, RefuseSeen DEF Refusals
<1>3. CASE ~ (off > MaxFileSize \/ off >= inode[f].size)
  <2>1. ret' = Ret("OK", ReadBytes(f, off, len)) BY <1>3 DEF Read
  <2>2. inode[f].size \in Nat /\ inode[f].size = Len(Content(f))
    BY <1>1 DEF StoreInv, FileInv, TypeOK, SizeIsSum
  <2>3. off < inode[f].size BY <1>1, <1>3, <2>2
  <2>4. FileInv({}) /\ Sized /\ SizeIsSum BY DEF StoreInv
  <2>5. ReadBytes(f, off, len) =
          SubSeq(Content(f), off + 1, Least(off + len, Len(Content(f))))
    BY <1>1, <2>3, <2>4, ReadFetches
  <2>6. Store!Min({off + len, Len(Content(f))}) = Least(off + len, Len(Content(f)))
    <3>1. PICK a \in Int : a = off + len BY <1>1
    <3>2. PICK b \in Int : b = Len(Content(f)) BY <2>2
    <3> QED BY <3>1, <3>2, StoreMin
  <2>7. f \in DOMAIN FilesSeen /\ FilesSeen[f] = Content(f) /\ FilesSeen' = FilesSeen
    BY <1>1, KeptSeen DEF FilesSeen
  <2>8. ret' = Store!Ret("OK", SubSeq(FilesSeen[f], off + 1,
                                      Store!Min({off + len, Len(FilesSeen[f])})))
    BY <2>1, <2>5, <2>6, <2>7 DEF Ret, Store!Ret
  <2>9. off < Len(FilesSeen[f]) BY <2>2, <2>3, <2>7
  <2> QED BY <2>7, <2>8, <2>9 DEF Store!Fetch, FilesSeen
<1> QED BY <1>2, <1>3

\* Every supported step is a call of the store, or leaves the files and the answer alone.
LEMMA StepSeen ==
  ASSUME StoreInv, Sized', [SupportedNext]_vars
  PROVE  [Store!Next]_<<FilesSeen, ret>>
<1> DEFINE Step == [Store!Next]_<<FilesSeen, ret>>
<1>1. FileInv({}) /\ Sized /\ SizeIsSum BY DEF StoreInv
<1>2. Store!Refuse => Step BY DEF Store!Next
<1>3. CASE UNCHANGED vars
  <2>1. AllKept /\ ret' = ret
    BY <1>1, <1>3, QuietKeeps DEF vars, FileInv, TypeOK
  <2> QED BY <2>1, KeptSeen
<1>4. ASSUME NEW f \in Inodes, Create(f) PROVE Step
  <2>1. Store!Create(f) BY <1>4, CreateSeen
  <2> QED BY <2>1 DEF Store!Next
<1>5. ASSUME NEW f \in Inodes, Unlink(f) PROVE Step
  <2>1. Store!Remove(f) BY <1>5, UnlinkSeen
  <2> QED BY <2>1 DEF Store!Next
<1>6. ASSUME NEW f \in Inodes, Quiet(f) PROVE Step
  <2>1. AllKept BY <1>1, <1>6, QuietCalls
  <2>2. CASE CreateFails(f)
    <3>1. ret' = Ret("ENOSPC", <<>>) BY <2>2 DEF CreateFails
    <3> QED BY <1>2, <2>1, <3>1, RefuseSeen DEF Refusals
  <2>3. ASSUME NEW off \in Offsets, NEW len \in ReadLens, Read(f, off, len) PROVE Step
    <3>1. Store!Fetch(f, off, len) \/ Store!Refuse
      BY <2>1, <2>3, ReadSeen
    <3>2. Store!Fetch(f, off, len) => Step BY DEF Store!Next
    <3> QED BY <1>2, <3>1, <3>2
  <2>4. ASSUME NEW off \in Offsets, NEW d \in Payloads, WriteRejected(f, off, d) PROVE Step
    <3>1. \E e \in Refusals : ret' = Ret(e, <<>>)
      BY <2>4 DEF WriteRejected, WriteErrno, Refusals
    <3> QED BY <1>2, <2>1, <3>1, RefuseSeen
  <2> QED BY <1>6, <2>2, <2>3, <2>4 DEF Quiet
<1>7. ASSUME NEW f \in Inodes, NEW off \in Offsets, NEW d \in Payloads,
             NEW w \in Plans(f, off, Len(d)), Supported(f, off, Len(d), w),
             Write(f, off, d, w)
      PROVE  Step
  <2>1. Store!Insert(f, off, d) BY <1>7, WriteSeen
  <2> QED BY <2>1 DEF Store!Next
<1>8. ASSUME NEW f \in Inodes, NEW off \in Offsets, NEW d \in Payloads,
             NEW w \in Plans(f, off, Len(d)), Supported(f, off, Len(d), w),
             Fails(f, off, d, w)
      PROVE  Step
  <2>1. AllKept BY <1>1, <1>8, FailKeeps
  <2>2. \E e \in Refusals : ret' = Ret(e, <<>>) BY <1>8, FailsRet
  <2> QED BY <1>2, <2>1, <2>2, RefuseSeen
<1> QED BY <1>3, <1>4, <1>5, <1>6, <1>7, <1>8, SupportedCases

\* Used as its contract says, ouichefs is a store of byte sequences: write inserts at the
\* offset, read returns the bytes from the offset on, a call that fails, half way in the
\* shift, the split or the first copy too, changes no file.
THEOREM FileRefinesStore == SupportedSpec => RefinesStore
<1>1. Init => Store!Init BY FilesInit
<1>2. StoreInv /\ StoreInv' /\ [SupportedNext]_vars => [Store!Next]_<<FilesSeen, ret>>
  <2>1. StoreInv' => Sized' BY DEF StoreInv
  <2> QED BY <2>1, StepSeen
<1> QED
  BY <1>1, <1>2, StoreAlways, PTL DEF SupportedSpec, RefinesStore, Store!Spec, FilesSeen

-----------------------------------------------------------------------------
(* The bytes of a file while defrag packs it                                *)

\* z bytes of a block, from one position on, are those of another block, from
\* another position on.
MovedBytes(new, to, old, from, z) ==
  \A x \in 1 .. z : new[to + x - 1] = old[from + x - 1]

\* m bytes go from the beginning of slot b to the end of slot a; no slot in
\* between has bytes, and all others keep theirs.
Regroups(g, h, E, D, a, b, m, u) ==
  /\ \A s \in Slots \ {a, b} : g[s] = h[s]
  /\ \A s \in 0 .. u - 1 : s # a /\ s # b => MovedBytes(E[s], 0, D[s], 0, h[s])
  /\ \A s \in a + 1 .. b - 1 : h[s] = 0
  /\ g[a] = h[a] + m /\ g[b] = h[b] - m
  /\ MovedBytes(E[a], 0, D[a], 0, h[a])
  /\ MovedBytes(E[a], h[a], D[b], 0, m)
  /\ MovedBytes(E[b], 0, D[b], m, h[b] - m)

\* The sums of the sizes change between the two slots only.
LEMMA RegroupedTotals ==
  ASSUME NEW h \in [Slots -> Nat], NEW g \in [Slots -> Nat], NEW E, NEW D,
         NEW u \in 0 .. MaxBlocks, NEW b \in 0 .. u - 1, NEW a \in 0 .. b - 1,
         NEW m \in 0 .. h[b], Regroups(g, h, E, D, a, b, m, u)
  PROVE  /\ \A k \in 0 .. a : Total(g)[k] = Total(h)[k]
         /\ Total(g)[b] = Total(h)[b] + m
         /\ Total(h)[b] = Total(h)[a] + h[a]
         /\ \A k \in b + 1 .. u : Total(g)[k] = Total(h)[k]
<1>0. h \in [Slots -> Int] /\ g \in [Slots -> Int] OBVIOUS
<1>1. /\ MaxBlocks \in Nat /\ Slots = 0 .. MaxBlocks - 1 /\ u \in Nat /\ b \in Nat
      /\ a \in Nat /\ a < b /\ b < u /\ u =< MaxBlocks
      /\ a \in Slots /\ b \in Slots
  <2>1. MaxBlocks \in Nat /\ Slots = 0 .. MaxBlocks - 1
    BY DiskAssumption DEF Slots
  <2>2. u \in Nat /\ u =< MaxBlocks BY <2>1
  <2>3. b \in Nat /\ b < u BY <2>2
  <2>4. a \in Nat /\ a < b BY <2>3
  <2> QED BY <2>1, <2>2, <2>3, <2>4
<1>2. h[a] \in Nat /\ h[b] \in Nat /\ m \in Nat /\ m =< h[b]
  BY <1>1
<1>3. /\ \A s \in Slots \ {a, b} : g[s] = h[s]
      /\ \A s \in a + 1 .. b - 1 : h[s] = 0
      /\ g[a] = h[a] + m /\ g[b] = h[b] - m
  BY DEF Regroups
<1>4. /\ \A k \in 0 .. MaxBlocks : Total(h)[k] \in Int /\ Total(g)[k] \in Int
      /\ Total(h)[0] = 0 /\ Total(g)[0] = 0
      /\ Total(h)[a + 1] = Total(h)[a] + h[a] /\ Total(g)[a + 1] = Total(g)[a] + g[a]
      /\ Total(h)[b + 1] = Total(h)[b] + h[b] /\ Total(g)[b + 1] = Total(g)[b] + g[b]
  BY <1>0, <1>1, TotalOf
<1>5. \A k \in 0 .. a : Total(g)[k] = Total(h)[k]
  <2>1. \A s \in 0 .. a - 1 : g[s] = h[s] BY <1>1, <1>3
  <2>2. 0 \in Nat /\ a \in Nat /\ a =< MaxBlocks BY <1>1
  <2>3. \A k \in 0 .. a : Total(g)[k] - Total(g)[0] = Total(h)[k] - Total(h)[0]
    BY <1>0, <2>1, <2>2, TotalSame
  <2>4. \A k \in 0 .. a : k \in 0 .. MaxBlocks BY <1>1
  <2> QED BY <1>4, <2>3, <2>4
<1>6. Total(h)[b] = Total(h)[a + 1] /\ Total(g)[b] = Total(g)[a + 1]
  <2>1. PICK lo \in Nat : lo = a + 1 BY <1>1
  <2>2. (\A s \in lo .. b - 1 : h[s] = 0) /\ b =< MaxBlocks /\ b \in lo .. b
    BY <1>1, <1>3, <2>1
  <2>3. \A s \in lo .. b - 1 : g[s] = 0
    <3>1. \A s \in lo .. b - 1 : s \in Slots \ {a, b}
      BY <1>1, <2>1
    <3> QED BY <1>3, <2>2, <3>1
  <2>4. \A k \in lo .. b : Total(h)[k] = Total(h)[lo]
    BY <1>0, <1>1, <2>2, TotalNone
  <2>5. \A k \in lo .. b : Total(g)[k] = Total(g)[lo]
    BY <1>0, <1>1, <2>2, <2>3, TotalNone
  <2> QED BY <2>1, <2>2, <2>4, <2>5
<1>7. Total(g)[a] = Total(h)[a] BY <1>1, <1>5
<1>8. PICK q \in Int : q = Total(h)[a]
  <2>1. a \in 0 .. MaxBlocks BY <1>1
  <2>2. Total(h)[a] \in Int BY <1>4, <2>1
  <2> QED BY <2>2
<1>9. Total(h)[b] = q + h[a] /\ Total(g)[b] = q + h[a] + m
  BY <1>2, <1>3, <1>4, <1>6, <1>7, <1>8
<1>10. Total(g)[b + 1] = Total(h)[b + 1]
  BY <1>2, <1>3, <1>4, <1>8, <1>9
<1>11. \A k \in b + 1 .. u : Total(g)[k] = Total(h)[k]
  <2>1. PICK lo \in Nat : lo = b + 1 BY <1>1
  <2>2. \A s \in lo .. u - 1 : g[s] = h[s] BY <1>1, <1>3, <2>1
  <2>3. \A k \in lo .. u : Total(g)[k] - Total(g)[lo] = Total(h)[k] - Total(h)[lo]
    <3>1. u \in Nat /\ u =< MaxBlocks BY <1>1
    <3> QED BY <1>0, <2>2, <3>1, TotalSame
  <2>4. \A k \in lo .. u : k \in 0 .. MaxBlocks BY <1>1, <2>1
  <2>5. Total(g)[lo] = Total(h)[lo] /\ Total(h)[lo] \in Int
    BY <1>1, <1>4, <1>10, <2>1
  <2> QED BY <1>4, <2>1, <2>3, <2>4, <2>5
<1> QED BY <1>2, <1>5, <1>8, <1>9, <1>11

\* What the slots read as stays.
LEMMA Regrouped ==
  ASSUME NEW c, NEW h, NEW g \in [Slots -> Nat], NEW D, NEW E, NEW u, Laid(c, h, u, D),
         NEW b \in 0 .. u - 1, NEW a \in 0 .. b - 1, NEW m \in 0 .. h[b],
         Regroups(g, h, E, D, a, b, m, u)
  PROVE  Laid(c, g, u, E)
<1>1. /\ u \in 0 .. MaxBlocks /\ h \in [Slots -> Nat] /\ c \in Seq(Byte)
      /\ Len(c) = Total(h)[u]
      /\ \A s \in 0 .. u - 1 : \A x \in 1 .. h[s] : c[Total(h)[s] + x] = D[s][x - 1]
  BY DEF Laid
<1>2. /\ \A k \in 0 .. a : Total(g)[k] = Total(h)[k]
      /\ Total(g)[b] = Total(h)[b] + m
      /\ Total(h)[b] = Total(h)[a] + h[a]
      /\ \A k \in b + 1 .. u : Total(g)[k] = Total(h)[k]
  <2>1. h \in [Slots -> Nat] /\ u \in 0 .. MaxBlocks BY <1>1
  <2> QED BY <2>1, RegroupedTotals
<1>3. /\ MaxBlocks \in Nat /\ Slots = 0 .. MaxBlocks - 1 /\ u \in Nat /\ b \in Nat
      /\ a \in Nat /\ a < b /\ b < u /\ u =< MaxBlocks
      /\ a \in Slots /\ b \in Slots
      /\ h[a] \in Nat /\ h[b] \in Nat /\ m \in Nat /\ m =< h[b]
  <2>1. MaxBlocks \in Nat /\ Slots = 0 .. MaxBlocks - 1
    BY DiskAssumption DEF Slots
  <2>2. u \in Nat /\ u =< MaxBlocks BY <1>1, <2>1
  <2>3. b \in Nat /\ b < u BY <2>2
  <2>4. a \in Nat /\ a < b BY <2>3
  <2>5. a \in Slots /\ b \in Slots BY <2>1, <2>2, <2>3, <2>4
  <2>6. h[a] \in Nat /\ h[b] \in Nat BY <1>1, <2>5
  <2> QED BY <2>1, <2>2, <2>3, <2>4, <2>5, <2>6
<1>4. \A k \in 0 .. MaxBlocks : Total(h)[k] \in Int
  <2>1. h \in [Slots -> Int] BY <1>1
  <2> QED BY <2>1, TotalOf
<1>5. Len(c) = Total(g)[u] BY <1>1, <1>2, <1>3
<1>6. ASSUME NEW s \in 0 .. u - 1, NEW x \in 1 .. g[s]
      PROVE  c[Total(g)[s] + x] = E[s][x - 1]
  <2>1. s \in Slots /\ s \in Nat /\ g[s] \in Nat /\ h[s] \in Nat /\ x \in Nat
        /\ s \in 0 .. MaxBlocks /\ Total(h)[s] \in Int
    <3>1. s \in Slots /\ s \in Nat /\ s \in 0 .. MaxBlocks BY <1>3
    <3>2. g[s] \in Nat /\ h[s] \in Nat /\ Total(h)[s] \in Int
      BY <1>1, <1>4, <3>1
    <3> QED BY <3>1, <3>2
  <2>2. CASE s # a /\ s # b
    <3>1. g[s] = h[s] /\ MovedBytes(E[s], 0, D[s], 0, h[s])
      BY <2>1, <2>2 DEF Regroups
    <3>2. s < a \/ s > b
      <4> SUFFICES ASSUME a < s, s < b PROVE FALSE
        BY <1>3, <2>1, <2>2
      <4>1. h[s] = 0 BY <1>3, <2>1 DEF Regroups
      <4> QED BY <3>1, <4>1
    <3>3. s \in 0 .. a \/ s \in b + 1 .. u BY <1>3, <2>1, <3>2
    <3>4. Total(g)[s] = Total(h)[s] BY <1>2, <3>3
    <3>5. c[Total(h)[s] + x] = D[s][x - 1] BY <1>1, <3>1
    <3>6. E[s][0 + x - 1] = D[s][0 + x - 1] /\ 0 + x - 1 = x - 1
      BY <2>1, <3>1 DEF MovedBytes
    <3> QED BY <3>4, <3>5, <3>6
  <2>3. CASE s = a
    <3>1. Total(g)[a] = Total(h)[a] /\ Total(h)[a] \in Int
      BY <1>2, <1>3, <2>1, <2>3
    <3>2. CASE x =< h[a]
      <4>1. x \in 1 .. h[a] /\ 0 + x - 1 = x - 1
        BY <1>3, <2>1, <3>2
      <4>2. c[Total(h)[a] + x] = D[a][x - 1] BY <1>1, <2>3, <4>1
      <4>3. E[a][0 + x - 1] = D[a][0 + x - 1]
        BY <4>1 DEF MovedBytes, Regroups
      <4> QED BY <2>3, <3>1, <4>1, <4>2, <4>3
    <3>3. CASE ~ (x =< h[a])
      <4>1. PICK y \in Int : y = x - h[a] BY <1>3, <2>1
      <4>2. g[a] = h[a] + m BY DEF Regroups
      <4>3. y \in 1 .. m /\ y \in 1 .. h[b] /\ h[a] + y - 1 = x - 1 /\ 0 + y - 1 = y - 1
        <5>1. x =< h[a] + m /\ x > h[a]
          BY <1>3, <2>1, <2>3, <3>3, <4>2
        <5>2. h[a] \in Nat /\ h[b] \in Nat /\ m \in Nat /\ m =< h[b] /\ x \in Nat
          BY <1>3, <2>1
        <5> QED BY <4>1, <5>1, <5>2
      <4>4. b \in 0 .. u - 1 BY <1>3
      <4>5. c[Total(h)[b] + y] = D[b][y - 1] BY <1>1, <4>3, <4>4
      <4>6. Total(h)[b] + y = Total(h)[a] + x
        <5>1. Total(h)[b] = Total(h)[a] + h[a] BY <1>2
        <5>2. h[a] \in Nat /\ x \in Nat BY <1>3, <2>1
        <5>3. PICK q \in Int : q = Total(h)[a] BY <3>1
        <5> QED BY <4>1, <5>1, <5>2, <5>3
      <4>7. E[a][h[a] + y - 1] = D[b][0 + y - 1]
        BY <4>3 DEF MovedBytes, Regroups
      <4> QED BY <2>3, <3>1, <4>3, <4>5, <4>6, <4>7
    <3> QED BY <3>2, <3>3
  <2>4. CASE s = b
    <3>1. g[b] = h[b] - m BY DEF Regroups
    <3>2. PICK y \in Int : y = m + x BY <1>3, <2>1
    <3>3. y \in 1 .. h[b] /\ x \in 1 .. h[b] - m /\ m + x - 1 = y - 1 /\ 0 + x - 1 = x - 1
      BY <1>3, <2>1, <2>4, <3>1, <3>2
    <3>4. b \in 0 .. u - 1 BY <1>3
    <3>5. c[Total(h)[b] + y] = D[b][y - 1] BY <1>1, <3>3, <3>4
    <3>6. Total(g)[b] + x = Total(h)[b] + y
      BY <1>2, <1>3, <2>1, <2>4, <3>2
    <3>7. E[b][0 + x - 1] = D[b][m + x - 1]
      BY <3>3 DEF MovedBytes, Regroups
    <3> QED BY <2>4, <3>3, <3>5, <3>6, <3>7
  <2> QED BY <2>2, <2>3, <2>4
<1> QED BY <1>1, <1>5, <1>6 DEF Laid

\* Blocks with the same bytes below the sizes read as the same.
LEMMA LaidAs ==
  ASSUME NEW c, NEW h, NEW D, NEW E, NEW u, Laid(c, h, u, D),
         \A s \in 0 .. u - 1 : MovedBytes(E[s], 0, D[s], 0, h[s])
  PROVE  Laid(c, h, u, E)
<1>1. /\ u \in 0 .. MaxBlocks /\ h \in [Slots -> Nat]
      /\ \A s \in 0 .. u - 1 : \A x \in 1 .. h[s] : c[Total(h)[s] + x] = D[s][x - 1]
  BY DEF Laid
<1>2. ASSUME NEW s \in 0 .. u - 1, NEW x \in 1 .. h[s]
      PROVE  c[Total(h)[s] + x] = E[s][x - 1]
  <2>1. s \in Slots BY <1>1, DiskAssumption DEF Slots
  <2>2. x \in Int /\ 0 + x - 1 = x - 1 BY <1>1, <2>1
  <2>3. E[s][0 + x - 1] = D[s][0 + x - 1] BY DEF MovedBytes
  <2> QED BY <1>1, <2>2, <2>3
<1> QED BY <1>2 DEF Laid

\* The slots of the file that is packed read as what it was before.
PackLaid == Laid(before, Sizes(df), nr, BytesOf(df))

KeepInv == PackInv /\ (Active \/ pc = "shift" => df \in Linked /\ PackLaid)

\* A word of zero has no bytes.
LEMMA NoBytes == get_block_size(0) = 0
<1>1. 0 \in 0 .. NumberMask - 1 /\ 0 \in 0 .. BlockSize - 1 /\ 0 + 0 * NumberMask = 0
  BY WidthAssumption
<1>2. get_block_size(0 + 0 * NumberMask) = 0 BY <1>1, Packed
<1> QED BY <1>1, <1>2

\* SlotBytes is what the slots read as, those without a block included.
LEMMA SlotsRead ==
  ASSUME TypeOK, Separate, df \in Linked, nr \in 0 .. MaxBlocks
  PROVE  Laid(SlotBytes, Sizes(df), nr, BytesOf(df))
<1>1. df \in Inodes BY DEF Linked
<1>2. PICK h : h = Sizes(df) OBVIOUS
<1>3. h \in [Slots -> Nat] /\ \A s \in Slots : h[s] = SizeAt(df, s) /\ h[s] \in 0 .. MaxBlockSize
  BY <1>1, <1>2, SizesFit
<1>4. PICK u \in 0 .. MaxBlocks : u = nr OBVIOUS
<1>5. MaxBlocks \in Nat /\ MaxBlockSize \in Nat /\ MaxBlockSize = BlockSize - 1 /\ u \in Nat
      /\ Slots = 0 .. MaxBlocks - 1
  BY DiskAssumption, WidthAssumption DEF MaxBlockSize, Slots
<1> DEFINE part(k) == [x \in 1 .. SizeAt(df, k - 1) |-> data[NumberAt(df, k - 1)][x - 1]]
           ss == [k \in 1 .. nr |-> part(k)]
<1>6. ASSUME NEW s \in 0 .. u - 1, NEW x \in 1 .. SizeAt(df, s)
      PROVE  data[NumberAt(df, s)][x - 1] \in Byte
  <2>1. s \in Slots BY <1>5
  <2>2. SizeAt(df, s) \in 0 .. MaxBlockSize BY <1>3, <2>1
  <2>3. SizeAt(df, s) # 0 BY <2>2
  <2>4. index[df][s] # 0 BY <2>3, NoBytes DEF SizeAt
  <2>5. NumberAt(df, s) \in DataBlocks BY <2>1, <2>4 DEF Separate
  <2>6. data[NumberAt(df, s)] \in Block
    BY <2>5, DataBlockNumber DEF TypeOK
  <2>7. x - 1 \in 0 .. BlockSize - 1 BY <1>5, <2>2
  <2> QED BY <2>6, <2>7 DEF Block
<1>7. ASSUME NEW k \in 1 .. u
      PROVE  part(k) \in Seq(Byte) /\ Len(part(k)) = h[k - 1]
  <2>1. k - 1 \in 0 .. u - 1 /\ k - 1 \in Slots BY <1>5
  <2>2. SizeAt(df, k - 1) \in Nat /\ h[k - 1] = SizeAt(df, k - 1)
    BY <1>3, <1>5, <2>1
  <2> DEFINE z == SizeAt(df, k - 1)
             e(x) == data[NumberAt(df, k - 1)][x - 1]
  <2>3. z \in Nat /\ \A x \in 1 .. z : e(x) \in Byte
    BY <1>6, <2>1, <2>2
  <2> HIDE DEF z, e
  <2>4. [x \in 1 .. z |-> e(x)] \in Seq(Byte) /\ Len([x \in 1 .. z |-> e(x)]) = z
    BY <2>3
  <2> QED BY <2>2, <2>4 DEF z, e
<1>8. SlotBytes = FlattenSeq(ss) BY DEF SlotBytes
<1> HIDE DEF part
<1>9. \A k \in 1 .. u : ss[k] = part(k) BY <1>4
<1>10. ss = [k \in 1 .. u |-> ss[k]] BY <1>4
<1>11. PICK parts : parts = ss OBVIOUS
<1> HIDE DEF ss
<1>12. Parts(Byte, u, parts, h)
  BY <1>7, <1>9, <1>10, <1>11 DEF Parts
<1>13. /\ FlattenSeq(parts) \in Seq(Byte)
       /\ Len(FlattenSeq(parts)) = Total(h)[u]
       /\ \A s \in 0 .. u - 1 : \A x \in 1 .. h[s] :
            FlattenSeq(parts)[Total(h)[s] + x] = parts[s + 1][x]
  BY <1>3, <1>12, Flattened, SMTT(60)
<1>14. PICK c : c = SlotBytes OBVIOUS
<1>15. c = FlattenSeq(parts) BY <1>8, <1>11, <1>14
<1>16. ASSUME NEW s \in 0 .. u - 1, NEW x \in 1 .. h[s]
       PROVE  c[Total(h)[s] + x] = BytesOf(df)[s][x - 1]
  <2>1. s \in Slots /\ s + 1 \in 1 .. u /\ s + 1 - 1 = s BY <1>5
  <2>2. c[Total(h)[s] + x] = part(s + 1)[x]
    BY <1>9, <1>11, <1>13, <1>15, <2>1
  <2>3. h[s] = SizeAt(df, s) BY <1>3, <2>1
  <2>4. part(s + 1)[x] = data[NumberAt(df, s)][x - 1]
    BY <2>1, <2>3 DEF part
  <2>5. BytesOf(df)[s] = data[NumberAt(df, s)] BY <2>1 DEF BytesOf
  <2> QED BY <2>2, <2>4, <2>5
<1>17. Laid(c, h, u, BytesOf(df))
  BY <1>3, <1>13, <1>15, <1>16 DEF Laid
<1> QED BY <1>2, <1>4, <1>14, <1>17

\* What the same slots read as is one sequence.
LEMMA LaidOnce ==
  ASSUME NEW c, NEW e, NEW h, NEW u, NEW D, Laid(c, h, u, D), Laid(e, h, u, D)
  PROVE  c = e
<1>1. /\ u \in 0 .. MaxBlocks /\ h \in [Slots -> Nat]
      /\ c \in Seq(Byte) /\ e \in Seq(Byte)
      /\ Len(c) = Total(h)[u] /\ Len(e) = Total(h)[u]
      /\ \A s \in 0 .. u - 1 : \A x \in 1 .. h[s] :
           c[Total(h)[s] + x] = D[s][x - 1] /\ e[Total(h)[s] + x] = D[s][x - 1]
  BY DEF Laid
<1>2. ASSUME NEW p \in 1 .. Len(c) PROVE c[p] = e[p]
  <2>1. h \in [Slots -> Nat] /\ u \in 0 .. MaxBlocks /\ p \in 1 .. Total(h)[u]
    BY <1>1
  <2>2. \E s \in 0 .. u - 1 : \E x \in 1 .. h[s] : p = Total(h)[s] + x
    BY <2>1, TotalLocates
  <2> QED BY <1>1, <2>2
<1>3. Len(c) = Len(e) /\ c \in Seq(Byte) /\ e \in Seq(Byte)
  BY <1>1
<1> QED BY <1>2, <1>3, SeqEqual

\* So the invariant says what PackKeepsContent does.
LEMMA KeepsBytes == KeepInv => PackKeepsContent
<1> SUFFICES ASSUME KeepInv, Active \/ pc = "shift" PROVE SlotBytes = before
  BY DEF PackKeepsContent
<1>1. df \in Linked /\ PackLaid /\ TypeOK /\ Separate
  BY DEF KeepInv, PackInv, FileInv
<1>2. nr \in 0 .. MaxBlocks BY <1>1 DEF PackLaid, Laid
<1> QED BY <1>1, <1>2, SlotsRead, LaidOnce DEF PackLaid

\* At first nothing is packed.
LEMMA KeepBegins == DefragInit => KeepInv
<1>1. DefragInit => PackInv BY PackInit
<1>2. DefragInit => pc = "idle" BY DEF DefragInit
<1> QED BY <1>1, <1>2 DEF KeepInv, Active

\* A step that leaves words, blocks and history.
LEMMA KeepQuiet ==
  ASSUME KeepInv, PackInv', UNCHANGED <<index, data, df, nr, before>>, Linked' = Linked,
         Active \/ pc = "shift"
  PROVE  KeepInv'
<1>1. df \in Linked /\ PackLaid BY DEF KeepInv
<1>2. Sizes(df)' = Sizes(df) /\ BytesOf(df)' = BytesOf(df)
  BY DEF Sizes, SizeAt, BytesOf, NumberAt
<1>3. PackLaid' BY <1>1, <1>2 DEF PackLaid
<1> QED BY <1>1, <1>3 DEF KeepInv

\* What the file reads as when defrag begins.
LEMMA KeepBegin ==
  ASSUME KeepInv, PackInv', NEW f \in Inodes, DefragBegin(f)
  PROVE  KeepInv'
<1>1. /\ pc = "idle" /\ f \in Linked /\ df' = f /\ nr' = NrUsed(f) /\ before' = Content(f)
      /\ index' = index /\ data' = data /\ inode' = inode
  BY DEF DefragBegin, Live, Linked, vars
<1>2. FileInv({}) /\ Positive BY <1>1 DEF KeepInv, PackInv, Busy
<1>3. FileLaid(f) BY <1>1, <1>2, FilesLaid
<1>4. Linked' = Linked BY <1>1 DEF Linked
<1>5. Sizes(df)' = Sizes(f) /\ BytesOf(df)' = BytesOf(f)
  BY <1>1 DEF Sizes, SizeAt, BytesOf, NumberAt
<1>6. PackLaid' BY <1>1, <1>3, <1>5 DEF PackLaid, FileLaid
<1> QED BY <1>1, <1>4, <1>6 DEF KeepInv

\* A call on another file.
LEMMA KeepElse ==
  ASSUME KeepInv, PackInv', NEW f \in Inodes, pc # "shift", FileStep(f)
  PROVE  KeepInv'
<1>1. /\ pc = "idle" \/ f # df
      /\ UNCHANGED <<pc, df, nr, before>>
      /\ \/ Create(f) \/ Unlink(f)
         \/ \E off \in Offsets, d \in Payloads :
              \E w \in Plans(f, off, Len(d)) : Write(f, off, d, w)
  BY DEF FileStep, locals, OtherWrite
<1>2. CASE ~ Active BY <1>1, <1>2 DEF KeepInv, Active
<1>3. CASE Active
  <2>1. f # df /\ df \in Linked /\ PackLaid /\ PackInv
    BY <1>1, <1>3 DEF KeepInv, Active
  <2>2. PICK X : X = Busy OBVIOUS
  <2>3. FileInv(X) /\ f \notin X
    BY <1>1, <1>3, <2>1, <2>2 DEF PackInv, Busy, Active
  <2>4. Untouched(f)
    BY <1>1, <2>3, CreateTouches, UnlinkTouches, WriteTouches
  <2>5. /\ inode'[df] = inode[df] /\ index'[df] = index[df]
        /\ \A b \in Named(df) : data'[b] = data[b]
    BY <2>1, <2>4 DEF Untouched
  <2>6. df \in Linked' BY <2>1, <2>5 DEF Linked
  <2>7. PICK h : h = Sizes(df) OBVIOUS
  <2>8. Sizes(df)' = h /\ \A s \in Slots : h[s] = SizeAt(df, s)
    BY <1>1, <2>5, <2>7 DEF Sizes, SizeAt
  <2>9. PICK D : D = BytesOf(df) OBVIOUS
  <2>10. PICK E : E = BytesOf(df)' OBVIOUS
  <2>11. Laid(before, h, nr, D) /\ nr \in 0 .. MaxBlocks
    BY <2>1, <2>7, <2>9 DEF PackLaid, Laid
  <2>12. ASSUME NEW s \in 0 .. nr - 1 PROVE MovedBytes(E[s], 0, D[s], 0, h[s])
    <3>1. s \in Slots BY <2>11, DiskAssumption DEF Slots
    <3>2. CASE index[df][s] = 0
      <4>1. h[s] = 0 BY <2>8, <3>1, <3>2, NoBytes DEF SizeAt
      <4> QED BY <4>1 DEF MovedBytes
    <3>3. CASE index[df][s] # 0
      <4>1. NumberAt(df, s) \in Named(df) BY <3>1, <3>3 DEF Named
      <4>2. D[s] = data[NumberAt(df, s)] BY <2>9, <3>1 DEF BytesOf
      <4>3. E[s] = data'[NumberAt(df, s)]
        BY <1>1, <2>5, <2>10, <3>1 DEF BytesOf, NumberAt
      <4> QED BY <2>5, <4>1, <4>2, <4>3 DEF MovedBytes
    <3> QED BY <3>2, <3>3
  <2>13. Laid(before, h, nr, E) BY <2>11, <2>12, LaidAs
  <2>14. PackLaid' BY <1>1, <2>8, <2>10, <2>13 DEF PackLaid
  <2> QED BY <1>1, <2>6, <2>14 DEF KeepInv
<1> QED BY <1>2, <1>3

\* An empty block is given back with its slot.
LEMMA KeepEmpty ==
  ASSUME KeepInv, PackInv', MergeEmpty
  PROVE  KeepInv'
<1>1. /\ pc = "merge" /\ j < nr /\ SizeAt(df, j) = 0
      /\ UNCHANGED <<inode, data, df, nr, before>>
      /\ index' = [index EXCEPT ![df][i] = index[df][i], ![df][j] = 0]
  BY DEF MergeEmpty, Drop
<1>2. PackInv /\ Active /\ df \in Linked /\ PackLaid
  BY <1>1 DEF KeepInv, Active
<1>3. i \in Slots /\ j \in Slots /\ i # j BY <1>1, <1>2, MoveFacts
<1>4. TypeOK /\ df \in Inodes BY <1>2, PackFacts
<1>5. index'[df] = [index[df] EXCEPT ![j] = 0]
  BY <1>1, <1>3, <1>4 DEF TypeOK
<1>6. index'[df][j] = 0 /\ \A s \in Slots \ {j} : index'[df][s] = index[df][s]
  BY <1>3, <1>4, <1>5 DEF TypeOK
<1>7. PICK h : h = Sizes(df) OBVIOUS
<1>8. \A s \in Slots : h[s] = SizeAt(df, s) BY <1>7 DEF Sizes
<1>9. \A s \in Slots : SizeAt(df, s)' = SizeAt(df, s)
  <2>1. get_block_size(index'[df][j]) = SizeAt(df, j)
    BY <1>1, <1>6, NoBytes
  <2>2. \A s \in Slots : get_block_size(index'[df][s]) = SizeAt(df, s)
    BY <1>6, <2>1 DEF SizeAt
  <2> QED BY <1>1, <2>2 DEF SizeAt
<1>10. Sizes(df)' = h BY <1>1, <1>7, <1>9 DEF Sizes
<1>11. PICK D : D = BytesOf(df) OBVIOUS
<1>12. PICK E : E = BytesOf(df)' OBVIOUS
<1>13. Laid(before, h, nr, D) /\ nr \in 0 .. MaxBlocks
  BY <1>2, <1>7, <1>11 DEF PackLaid, Laid
<1>14. ASSUME NEW s \in 0 .. nr - 1 PROVE MovedBytes(E[s], 0, D[s], 0, h[s])
  <2>1. s \in Slots BY <1>13, DiskAssumption DEF Slots
  <2>2. CASE s = j
    <3>1. h[s] = 0 BY <1>1, <1>8, <2>1, <2>2
    <3> QED BY <3>1 DEF MovedBytes
  <2>3. CASE s # j
    <3>1. E[s] = data[get_block_number(index'[df][s])]
      BY <1>1, <1>12, <2>1 DEF BytesOf, NumberAt
    <3>2. D[s] = data[get_block_number(index[df][s])]
      BY <1>11, <2>1 DEF BytesOf, NumberAt
    <3>3. E[s] = D[s] BY <1>6, <2>1, <2>3, <3>1, <3>2
    <3> QED BY <3>3 DEF MovedBytes
  <2> QED BY <2>2, <2>3
<1>15. Laid(before, h, nr, E) BY <1>13, <1>14, LaidAs
<1>16. PackLaid' BY <1>1, <1>10, <1>12, <1>15 DEF PackLaid
<1>17. df' \in Linked' BY <1>1, <1>2 DEF Linked
<1> QED BY <1>16, <1>17 DEF KeepInv

\* The block of the outer loop keeps its bytes and gets those that move.
LEMMA GrownBytes ==
  ASSUME PackInv, pc = "merge", j < nr
  PROVE  /\ MovedBytes(GrownBlock, 0, data[NumberAt(df, i)], 0, SizeAt(df, i))
         /\ MovedBytes(GrownBlock, SizeAt(df, i), data[NumberAt(df, j)], 0, Moved)
<1>1. /\ SizeAt(df, i) \in 0 .. MaxBlockSize /\ Moved \in Nat /\ Moved =< left
      /\ left = MaxBlockSize - SizeAt(df, i)
  BY MoveFacts
<1>2. PICK z \in Nat : z = SizeAt(df, i) BY <1>1
<1>3. PICK m \in Nat : m = Moved BY <1>1
<1>4. BlockSize \in Nat /\ z + m < BlockSize
  <2>1. MaxBlockSize \in Nat /\ MaxBlockSize = BlockSize - 1 /\ BlockSize \in Nat
    BY WidthAssumption DEF MaxBlockSize
  <2> QED BY <1>1, <1>2, <1>3, <2>1
<1>5. PICK old : old = data[NumberAt(df, i)] OBVIOUS
<1>6. PICK from : from = data[NumberAt(df, j)] OBVIOUS
<1>7. GrownBlock = Copy(old, z, from, 0, m)
  BY <1>2, <1>3, <1>5, <1>6 DEF GrownBlock
<1>8. ASSUME NEW x \in 1 .. z PROVE GrownBlock[0 + x - 1] = old[0 + x - 1]
  <2>1. x \in 1 .. BlockSize /\ ~ (z < x) /\ 0 + x - 1 = x - 1
    BY <1>4
  <2>2. Copy(old, z, from, 0, m)[x - 1] =
          IF z < x /\ x =< z + m THEN from[x - 1 - z + 0] ELSE old[x - 1]
    BY <2>1, CopiedByte
  <2> QED BY <1>7, <2>1, <2>2
<1>9. ASSUME NEW x \in 1 .. m PROVE GrownBlock[z + x - 1] = from[0 + x - 1]
  <2>1. PICK y \in 1 .. BlockSize : y = z + x BY <1>4
  <2>2. z < y /\ y =< z + m /\ y - 1 - z + 0 = x - 1 /\ z + x - 1 = y - 1 /\ 0 + x - 1 = x - 1
    BY <1>4, <2>1
  <2>3. Copy(old, z, from, 0, m)[y - 1] =
          IF z < y /\ y =< z + m THEN from[y - 1 - z + 0] ELSE old[y - 1]
    BY CopiedByte
  <2> QED BY <1>7, <2>2, <2>3
<1> QED BY <1>2, <1>3, <1>5, <1>6, <1>8, <1>9 DEF MovedBytes

\* No other slot names the blocks of the two loops.
LEMMA LoopsApart ==
  ASSUME PackInv, pc = "merge", j < nr, NEW s \in Slots, s # i, index[df][s] # 0
  PROVE  /\ NumberAt(df, s) # NumberAt(df, i)
         /\ NumberAt(df, s) \in Blocks \ free /\ NumberAt(df, i) \in Blocks \ free
<1>1. i \in Slots /\ index[df][i] # 0 BY MoveFacts
<1>2. df \in Linked /\ Separate /\ TypeOK
  BY PackFacts DEF PackInv, FileInv, Active
<1>3. NumberAt(df, s) \in DataBlocks \ free /\ NumberAt(df, i) \in DataBlocks \ free
  BY <1>1, <1>2 DEF Separate
<1>4. NumberAt(df, s) # NumberAt(df, i) BY <1>1, <1>2 DEF Separate
<1> QED BY <1>3, <1>4, DataBlockNumber

\* What a move does to the words and the blocks of the file.
Moves(rest) ==
  /\ index'[df][i] = GrownWord
  /\ \A s \in Slots \ {i, j} : index'[df][s] = index[df][s]
  /\ get_block_size(index'[df][j]) = rest
  /\ data'[NumberAt(df, i)] = GrownBlock
  /\ \A s \in Slots \ {i, j} :
       index[df][s] # 0 => data'[NumberAt(df, s)] = data[NumberAt(df, s)]
  /\ MovedBytes(data'[get_block_number(index'[df][j])], 0,
                data[NumberAt(df, j)], Moved, rest)

\* A move regroups the bytes of two slots.
LEMMA KeepMove ==
  ASSUME KeepInv, PackInv', pc = "merge", j < nr, UNCHANGED <<inode, df, nr, before>>,
         Moves(SizeAt(df, j) - Moved)
  PROVE  KeepInv'
<1>1. PackInv /\ Active /\ df \in Linked /\ PackLaid
  BY DEF KeepInv, Active
<1>2. /\ i \in Slots /\ j \in Slots /\ i # j
      /\ Moved \in Nat /\ Moved =< SizeAt(df, j)
      /\ get_block_number(GrownWord) = NumberAt(df, i)
      /\ get_block_size(GrownWord) = SizeAt(df, i) + Moved
  BY <1>1, MoveFacts
<1>3. df \in Inodes /\ i \in Nat /\ j \in Nat /\ nr \in 0 .. MaxBlocks
  BY <1>1, PackFacts
<1>4. i < j /\ \A s \in Slots : i < s /\ s < j => index[df][s] = 0
  BY <1>1 DEF PackInv, MergeLoop
<1>5. PICK h : h = Sizes(df) OBVIOUS
<1>6. PICK g : g = Sizes(df)' OBVIOUS
<1>7. PICK D : D = BytesOf(df) OBVIOUS
<1>8. PICK E : E = BytesOf(df)' OBVIOUS
<1>9. PICK m : m = Moved OBVIOUS
<1>10. PICK a, b, u : a = i /\ b = j /\ u = nr OBVIOUS
<1>11. \A s \in Slots : h[s] = SizeAt(df, s) /\ D[s] = data[NumberAt(df, s)]
  BY <1>5, <1>7 DEF Sizes, BytesOf
<1>12. g \in [Slots -> Nat] /\ \A s \in Slots : g[s] = get_block_size(index'[df][s])
  <2>1. TypeOK' BY DEF PackInv, FileInv
  <2>2. Sizes(df)' = [s \in Slots |-> get_block_size(index'[df][s])]
    BY DEF Sizes, SizeAt
  <2>3. PICK f \in Inodes : f = df BY <1>3
  <2>4. \A s \in Slots : index'[f][s] \in Word BY <2>1 DEF TypeOK
  <2>5. \A s \in Slots : get_block_size(index'[f][s]) \in 0 .. BlockSize - 1
    BY <2>4, FieldRange
  <2>6. \A y \in 0 .. BlockSize - 1 : y \in Nat BY WidthAssumption
  <2> QED BY <1>6, <2>2, <2>3, <2>5, <2>6
<1>13. \A s \in Slots : E[s] = data'[get_block_number(index'[df][s])]
  BY <1>8 DEF BytesOf, NumberAt
<1>14. Laid(before, h, u, D) /\ u \in 0 .. MaxBlocks
  BY <1>1, <1>3, <1>5, <1>7, <1>10 DEF PackLaid
<1>15. b \in 0 .. u - 1 /\ a \in 0 .. b - 1 /\ m \in 0 .. h[b] /\ a \in Slots /\ b \in Slots
  <2>1. b \in 0 .. u - 1 /\ a \in 0 .. b - 1
    BY <1>3, <1>4, <1>10, DiskAssumption
  <2>2. h[b] = SizeAt(df, j) /\ h[b] \in Nat
    BY <1>2, <1>10, <1>11, <1>14 DEF Laid
  <2> QED BY <1>2, <1>9, <1>10, <2>1, <2>2
<1>16. Regroups(g, h, E, D, a, b, m, u)
  <2>1. \A s \in Slots \ {a, b} : g[s] = h[s]
    BY <1>10, <1>11, <1>12 DEF Moves, SizeAt
  <2>2. ASSUME NEW s \in 0 .. u - 1, s # a, s # b PROVE MovedBytes(E[s], 0, D[s], 0, h[s])
    <3>1. s \in Slots BY <1>14, DiskAssumption DEF Slots
    <3>2. s \in Slots \ {i, j} BY <1>10, <2>2, <3>1
    <3>3. CASE index[df][s] = 0
      <4>1. h[s] = 0 BY <1>11, <3>1, <3>3, NoBytes DEF SizeAt
      <4> QED BY <4>1 DEF MovedBytes
    <3>4. CASE index[df][s] # 0
      <4>1. E[s] = data'[NumberAt(df, s)]
        BY <1>13, <3>1, <3>2 DEF Moves, NumberAt
      <4>2. data'[NumberAt(df, s)] = data[NumberAt(df, s)]
        BY <3>2, <3>4 DEF Moves
      <4>3. E[s] = D[s] BY <1>11, <3>1, <4>1, <4>2
      <4> QED BY <4>3 DEF MovedBytes
    <3> QED BY <3>3, <3>4
  <2>3. ASSUME NEW s \in a + 1 .. b - 1 PROVE h[s] = 0
    <3>1. s \in Slots /\ i < s /\ s < j
      BY <1>3, <1>10, <1>14, <1>15, DiskAssumption DEF Slots
    <3>2. index[df][s] = 0 BY <1>4, <3>1
    <3> QED BY <1>11, <3>1, <3>2, NoBytes DEF SizeAt
  <2>4. g[a] = h[a] + m /\ g[b] = h[b] - m
    BY <1>2, <1>9, <1>10, <1>11, <1>12 DEF Moves
  <2>5. E[a] = GrownBlock /\ D[a] = data[NumberAt(df, i)] /\ D[b] = data[NumberAt(df, j)]
    <3>1. E[a] = data'[get_block_number(index'[df][i])]
      BY <1>2, <1>10, <1>13
    <3>2. E[a] = data'[NumberAt(df, i)] BY <1>2, <3>1 DEF Moves
    <3> QED BY <1>2, <1>10, <1>11, <3>2 DEF Moves
  <2>6. h[a] = SizeAt(df, i) /\ h[b] = SizeAt(df, j)
    BY <1>2, <1>10, <1>11
  <2>7. MovedBytes(E[a], 0, D[a], 0, h[a]) /\ MovedBytes(E[a], h[a], D[b], 0, m)
    BY <1>1, <1>9, <2>5, <2>6, GrownBytes
  <2>8. MovedBytes(E[b], 0, D[b], m, h[b] - m)
    <3>1. E[b] = data'[get_block_number(index'[df][j])]
      BY <1>2, <1>10, <1>13
    <3> QED BY <1>9, <2>5, <2>6, <3>1 DEF Moves
  <2> QED BY <2>1, <2>2, <2>3, <2>4, <2>7, <2>8 DEF Regroups
<1>17. Laid(before, g, u, E)
  BY <1>12, <1>14, <1>15, <1>16, Regrouped
<1>18. PackLaid' BY <1>6, <1>8, <1>10, <1>17 DEF PackLaid
<1>19. df' \in Linked' BY <1>1 DEF Linked
<1> QED BY <1>18, <1>19 DEF KeepInv

\* A block that moves as a whole.
LEMMA KeepWhole ==
  ASSUME KeepInv, PackInv', MergeWhole
  PROVE  KeepInv'
<1>1. /\ pc = "merge" /\ j < nr /\ SizeAt(df, j) = Moved
      /\ UNCHANGED <<inode, df, nr, before>>
      /\ data' = [data EXCEPT ![NumberAt(df, i)] = GrownBlock]
      /\ index' = [index EXCEPT ![df][i] = GrownWord, ![df][j] = 0]
  BY DEF MergeWhole, Drop
<1>2. PackInv /\ Active BY <1>1 DEF KeepInv, Active
<1>3. i \in Slots /\ j \in Slots /\ i # j /\ index[df][j] # 0 /\ Moved \in Nat
  BY <1>1, <1>2, MoveFacts
<1>4. TypeOK /\ df \in Inodes BY <1>2, PackFacts
<1>5. index'[df] = [index[df] EXCEPT ![i] = GrownWord, ![j] = 0]
  BY <1>1, <1>3, <1>4 DEF TypeOK
<1>6. /\ index'[df][i] = GrownWord /\ index'[df][j] = 0
      /\ \A s \in Slots \ {i, j} : index'[df][s] = index[df][s]
  BY <1>3, <1>4, <1>5 DEF TypeOK
<1>7. data'[NumberAt(df, i)] = GrownBlock
  <2>1. NumberAt(df, i) \in Blocks BY <1>1, <1>2, <1>3, LoopsApart
  <2> QED BY <1>1, <1>4, <2>1 DEF TypeOK
<1>8. ASSUME NEW s \in Slots \ {i, j}, index[df][s] # 0
      PROVE  data'[NumberAt(df, s)] = data[NumberAt(df, s)]
  <2>1. NumberAt(df, s) # NumberAt(df, i) /\ NumberAt(df, s) \in Blocks
    BY <1>1, <1>2, <1>8, LoopsApart
  <2> QED BY <1>1, <1>4, <2>1 DEF TypeOK
<1>9. SizeAt(df, j) - Moved = 0 BY <1>1, <1>3
<1>10. Moves(SizeAt(df, j) - Moved)
  BY <1>6, <1>7, <1>8, <1>9, NoBytes DEF Moves, MovedBytes
<1> QED BY <1>1, <1>10, KeepMove

\* A block whose remainder goes to a new block.
LEMMA KeepPart ==
  ASSUME KeepInv, PackInv', MergePart
  PROVE  KeepInv'
<1>1. /\ pc = "merge" /\ j < nr /\ SizeAt(df, j) > Moved
      /\ UNCHANGED <<inode, df, nr, before>>
  BY DEF MergePart
<1>2. PackInv /\ Active BY <1>1 DEF KeepInv, Active
<1>3. /\ i \in Slots /\ j \in Slots /\ i # j /\ index[df][j] # 0
      /\ Moved \in Nat /\ SizeAt(df, j) \in 0 .. MaxBlockSize
      /\ NumberAt(df, j) \in DataBlocks \ free
  BY <1>1, <1>2, MoveFacts
<1>4. TypeOK /\ df \in Inodes /\ MaxBlocks \in Nat \ {0} /\ MaxBlockSize \in Nat
      /\ index[df] \in [Slots -> Word]
  BY <1>2, PackFacts
<1> DEFINE old == NumberAt(df, j)
           rest == SizeAt(df, j) - Moved
           grown == [data EXCEPT ![NumberAt(df, i)] = GrownBlock]
<1>5. PICK al \in FirstFree(1) :
        /\ data' = [grown EXCEPT ![al[0]] = Copy(@, 0, grown[old], Moved, rest)]
        /\ index' = [index EXCEPT
             ![df][i] = GrownWord,
             ![df][j] = set_block_number(set_block_size(@, rest), al[0])]
  BY DEF MergePart
<1>6. PICK b : b = al[0] OBVIOUS
<1>7. b \in free /\ b \in DataBlocks /\ b \in Blocks /\ b \in Nat /\ b % NumberMask = b
  <2>1. 1 \in 1 .. MaxBlocks /\ 0 \in 0 .. 1 - 1 BY <1>4
  <2>2. b \in free /\ b \in DataBlocks
    BY <1>4, <1>6, <2>1, FreshBlocks
  <2> QED BY <2>2, DataBlockNumber
<1>8. rest \in 0 .. MaxBlockSize /\ rest \in Nat
  BY <1>1, <1>3, <1>4
<1>9. PICK z \in 0 .. MaxBlockSize : z = rest BY <1>8
<1>10. PICK word : word = set_block_number(set_block_size(index[df][j], z), b)
  OBVIOUS
<1>11. get_block_number(word) = b /\ get_block_size(word) = z
  <2>1. index[df][j] \in Word BY <1>3, <1>4
  <2>2. set_block_size(index[df][j], z) \in Word
        /\ get_block_size(set_block_size(index[df][j], z)) = z
    BY <2>1, SizeKept
  <2> QED BY <1>7, <1>10, <2>2, SetNumber
<1>12. index' = [index EXCEPT ![df][i] = GrownWord, ![df][j] = word]
  <2> HIDE DEF rest
  <2>1. index' = [index EXCEPT ![df][i] = GrownWord,
                               ![df][j] = set_block_number(set_block_size(@, z), b)]
    BY <1>5, <1>6, <1>9
  <2> QED BY <1>3, <1>4, <1>10, <2>1 DEF TypeOK
<1>13. index'[df] = [index[df] EXCEPT ![i] = GrownWord, ![j] = word]
  BY <1>3, <1>4, <1>12 DEF TypeOK
<1>14. /\ index'[df][i] = GrownWord /\ index'[df][j] = word
       /\ \A s \in Slots \ {i, j} : index'[df][s] = index[df][s]
  BY <1>3, <1>4, <1>13
<1>15. /\ NumberAt(df, i) \in Blocks \ free /\ old \in Blocks \ free /\ old # NumberAt(df, i)
  BY <1>1, <1>2, <1>3, LoopsApart
<1>16. DOMAIN data = Blocks BY <1>4 DEF TypeOK
<1>17. /\ grown[old] = data[old] /\ grown[b] = data[b] /\ DOMAIN grown = Blocks
       /\ grown[NumberAt(df, i)] = GrownBlock
       /\ \A e \in Blocks \ {NumberAt(df, i)} : grown[e] = data[e]
  BY <1>7, <1>15, <1>16
<1> HIDE DEF grown
<1>18. data' = [grown EXCEPT ![b] = Copy(data[b], 0, data[old], Moved, z)]
  BY <1>5, <1>6, <1>9, <1>17
<1>19. data'[NumberAt(df, i)] = GrownBlock
  BY <1>7, <1>15, <1>17, <1>18
<1>20. ASSUME NEW s \in Slots \ {i, j}, index[df][s] # 0
       PROVE  data'[NumberAt(df, s)] = data[NumberAt(df, s)]
  <2>1. NumberAt(df, s) # NumberAt(df, i) /\ NumberAt(df, s) \in Blocks \ free
    BY <1>1, <1>2, <1>20, LoopsApart
  <2> QED BY <1>7, <1>17, <1>18, <2>1
<1>21. data'[b] = Copy(data[b], 0, data[old], Moved, z)
  BY <1>7, <1>17, <1>18
<1>22. MovedBytes(data'[b], 0, data[old], Moved, z)
  <2>1. PICK m \in Nat : m = Moved BY <1>3
  <2>2. PICK to, from : to = data[b] /\ from = data[old] OBVIOUS
  <2>3. z \in Nat /\ z < BlockSize /\ BlockSize \in Nat
    BY WidthAssumption DEF MaxBlockSize
  <2>4. ASSUME NEW x \in 1 .. z
        PROVE  Copy(to, 0, from, m, z)[0 + x - 1] = from[m + x - 1]
    <3>1. x \in 1 .. BlockSize /\ 0 < x /\ x =< 0 + z /\ 0 + x - 1 = x - 1
          /\ x - 1 - 0 + m = m + x - 1 /\ z \in Int
      BY <2>3
    <3>2. Copy(to, 0, from, m, z)[x - 1] =
            IF 0 < x /\ x =< 0 + z THEN from[x - 1 - 0 + m] ELSE to[x - 1]
      BY <3>1, CopiedByte
    <3> QED BY <3>1, <3>2
  <2> QED BY <1>21, <2>1, <2>2, <2>4 DEF MovedBytes
<1>23. Moves(z) BY <1>11, <1>14, <1>19, <1>20, <1>22 DEF Moves
<1>24. Moves(SizeAt(df, j) - Moved) BY <1>9, <1>23
<1> QED BY <1>1, <1>24, KeepMove

\* Every step of the packing, and of the other calls meanwhile, keeps the bytes.
LEMMA KeepNext == KeepInv /\ [PackNext]_dvars => KeepInv'
<1> SUFFICES ASSUME KeepInv, [PackNext]_dvars PROVE KeepInv'
  OBVIOUS
<1>0. PackInv' BY PackNextStep DEF KeepInv
<1>1. CASE UNCHANGED dvars
  <2>1. UNCHANGED <<inode, index, data, pc, df, nr, before>>
    BY <1>1 DEF dvars, vars, locals
  <2>2. Linked' = Linked BY <2>1 DEF Linked
  <2>3. CASE Active \/ pc = "shift"
    BY <1>0, <2>1, <2>2, <2>3, KeepQuiet
  <2>4. CASE ~ (Active \/ pc = "shift")
    BY <1>0, <2>1, <2>4 DEF KeepInv, Active
  <2> QED BY <2>3, <2>4
<1>2. ASSUME NEW f \in Inodes, pc # "shift", FileStep(f) PROVE KeepInv'
  BY <1>0, <1>2, KeepElse
<1>3. ASSUME NEW f \in Inodes, DefragBegin(f) PROVE KeepInv'
  BY <1>0, <1>3, KeepBegin
<1>4. CASE PackSkip \/ PackEnter \/ MergeEnd
  <2>1. UNCHANGED <<inode, index, data, df, nr, before>> /\ Active
    BY <1>4 DEF PackSkip, PackEnter, MergeEnd, vars, Active
  <2>2. Linked' = Linked BY <2>1 DEF Linked
  <2> QED BY <1>0, <2>1, <2>2, KeepQuiet
<1>5. CASE PackEnd
  <2>1. /\ UNCHANGED <<index, data, df, nr, before>> /\ Active
        /\ inode' = [inode EXCEPT ![df].blocks = @ - removed]
    BY <1>5 DEF PackEnd, Active
  <2>2. inode \in [Inodes -> InodeType]
    BY DEF KeepInv, PackInv, FileInv, TypeOK, InodeType
  <2>3. \A g \in Inodes : inode'[g].linked = inode[g].linked
    BY <2>1, <2>2 DEF InodeType
  <2>4. Linked' = Linked BY <2>3 DEF Linked
  <2> QED BY <1>0, <2>1, <2>4, KeepQuiet
<1>6. CASE MergeStarved
  <2>1. pc' = "crashed" BY <1>6 DEF MergeStarved
  <2> QED BY <1>0, <2>1 DEF KeepInv, Active
<1>7. CASE PackStep
  BY <1>0, <1>4, <1>5, <1>6, <1>7, KeepEmpty, KeepWhole, KeepPart DEF PackStep
<1> QED BY <1>1, <1>2, <1>3, <1>7 DEF PackNext

\* Between any two steps of the packing, in whatever order blocks are skipped,
\* emptied, given back and cut and other files are made, removed and written, the
\* slots of the file hold the bytes it had when defrag began, in the same order.
THEOREM PackKeepsBytes == PackSpec => []PackKeepsContent
BY KeepBegins, KeepNext, KeepsBytes, PTL DEF PackSpec

=============================================================================
