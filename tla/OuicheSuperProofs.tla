-------------------------- MODULE OuicheSuperProofs --------------------------
(***************************************************************************)
(* What the partition of ouichefs keeps through mkfs, mount, writeback,    *)
(* sync, unmount and crashes, for an image of any size: every block holds  *)
(* what the layout puts there, what a quiet sync has saved is on the       *)
(* device, and counters, bitmaps and inodes agree.                         *)
(***************************************************************************)
EXTENDS OuicheSuper, SequenceTheorems, WellFoundedInduction, FiniteSetTheorems, TLAPS

-----------------------------------------------------------------------------
(* The layout.                                                             *)

\* What the assumptions say of the sizes of the regions.
LEMMA Sizes ==
  /\ NrBlocks \in Nat /\ BitsPerBlock \in Nat \ {0} /\ InodesPerBlock \in Nat /\ InodesPerBlock > 1
  /\ NrInodes \in Nat /\ NrInodes >= NrBlocks
  /\ NrIstore \in Nat \ {0} /\ NrIfree \in Nat \ {0} /\ NrBfree \in Nat \ {0}
  /\ RootBlock = 1 + NrIstore + NrIfree + NrBfree
  /\ RootBlock + 1 < NrBlocks /\ RootBlock + 1 <= BitsPerBlock
<1>1. /\ NrBlocks \in Nat \ {0} /\ BitsPerBlock \in Nat \ {0} /\ InodesPerBlock \in Nat \ {0}
      /\ InodesPerBlock > 1 /\ NrData > 1 /\ NrIstore + NrIfree + NrBfree + 2 <= BitsPerBlock
  BY SuperAssumption
<1>2. \A a, b \in Nat \ {0} : Ceil(a, b) \in Nat \ {0}
  BY DEF Ceil
<1>3. NrInodes \in Nat \ {0} /\ NrInodes >= NrBlocks
  BY <1>1 DEF NrInodes
<1>4. NrIstore \in Nat \ {0} /\ NrIfree \in Nat \ {0} /\ NrBfree \in Nat \ {0}
  BY <1>1, <1>2, <1>3 DEF NrIstore, NrIfree, NrBfree
<1>5. NrData = NrBlocks - 1 - NrIstore - NrIfree - NrBfree
  BY DEF NrData
<1> QED
  BY <1>1, <1>3, <1>4, <1>5 DEF RootBlock

\* The regions of the layout follow one another.
LEMMA Regions ==
  /\ 0 \in Blocks /\ RootBlock \in Blocks /\ RootBlock \notin 0 .. NrIstore
  /\ \A i \in 0 .. NrIfree - 1 :
       IfreeBlock(i) \in Blocks /\ IfreeBlock(i) \in NrIstore + 1 .. NrIstore + NrIfree
  /\ \A i \in 0 .. NrBfree - 1 :
       BfreeBlock(i) \in Blocks /\ BfreeBlock(i) \in NrIstore + NrIfree + 1 .. RootBlock - 1
  /\ \A i, j \in Nat : IfreeBlock(i) = IfreeBlock(j) => i = j
  /\ \A i, j \in Nat : BfreeBlock(i) = BfreeBlock(j) => i = j
  /\ 1 .. NrIstore \subseteq Blocks
BY Sizes DEF Blocks, IfreeBlock, BfreeBlock

\* An inode has a place of its own in the store.
LEMMA InodePlaces ==
  /\ \A i \in Inos \cup {Root} :
       i \in Nat /\ InodeBlock(i) \in 1 .. NrIstore /\ InodeShift(i) \in Slot
  /\ \A i, j \in Inos \cup {Root} :
       InodeBlock(i) = InodeBlock(j) /\ InodeShift(i) = InodeShift(j) => i = j
<1>1. \A i \in Inos \cup {Root} : i \in Nat /\ i < NrInodes
  BY Sizes DEF Inos, Root
<1>2. \A i \in 0 .. NrInodes - 1 : i \div InodesPerBlock \in 0 .. NrIstore - 1
  <2>1. NrInodes \in Nat \ {0} /\ InodesPerBlock \in Nat \ {0}
    BY Sizes
  <2> QED
    BY <2>1 DEF NrIstore, Ceil
<1>3. \A i \in Nat : i % InodesPerBlock \in Slot
  BY Sizes DEF Slot
<1>4. \A i, j \in Nat : i \div InodesPerBlock = j \div InodesPerBlock
                          /\ i % InodesPerBlock = j % InodesPerBlock => i = j
  BY Sizes
<1>5. \A i \in Inos \cup {Root} : InodeBlock(i) \in 1 .. NrIstore
  BY <1>1, <1>2, Sizes DEF InodeBlock
<1>6. \A i \in Inos \cup {Root} : InodeShift(i) \in Slot
  BY <1>1, <1>3 DEF InodeShift
<1>7. ASSUME NEW i \in Inos \cup {Root}, NEW j \in Inos \cup {Root},
             InodeBlock(i) = InodeBlock(j), InodeShift(i) = InodeShift(j)
      PROVE  i = j
  <2>1. i \div InodesPerBlock \in Int /\ j \div InodesPerBlock \in Int
    BY <1>1, Sizes
  <2> QED
    BY <1>1, <1>4, <1>7, <2>1 DEF InodeBlock, InodeShift
<1> QED
  BY <1>1, <1>5, <1>6, <1>7

\* A bit is in one part of a bitmap.
LEMMA BitPlaces ==
  /\ \A n \in Nat : n \div BitsPerBlock \in Nat /\ n \in AllBits(n \div BitsPerBlock)
  /\ \A j \in Nat : \A n \in AllBits(j) : n \in Nat /\ n \div BitsPerBlock = j
  /\ \A n \in 0 .. NrInodes - 1 : n \div BitsPerBlock < NrIfree
  /\ \A n \in 0 .. NrBlocks - 1 : n \div BitsPerBlock < NrBfree
<1>1. BitsPerBlock \in Nat \ {0} /\ NrInodes \in Nat /\ NrBlocks \in Nat
  BY Sizes
<1>2. \A n \in Nat : n \div BitsPerBlock \in Nat /\ n \in AllBits(n \div BitsPerBlock)
  BY <1>1 DEF AllBits
<1>3. \A j \in Nat : \A n \in AllBits(j) : n \in Nat /\ n \div BitsPerBlock = j
  BY <1>1 DEF AllBits
<1>4. \A m \in Nat : \A n \in 0 .. m - 1 : n \div BitsPerBlock < Ceil(m, BitsPerBlock)
  BY <1>1 DEF Ceil
<1> QED
  BY <1>1, <1>2, <1>3, <1>4 DEF NrIfree, NrBfree

\* A set of naturals has a least element.
LEMMA LeastOf ==
  ASSUME NEW S \in SUBSET Nat, S # {}
  PROVE  Min(S) \in S
<1> DEFINE R == OpToRel(<, Nat)
<1>1. IsWellFoundedOn(R, Nat)
  BY NatLessThanWellFounded
<1>2. \A x, y \in Nat : <<x, y>> \in R <=> x < y
  BY DEF OpToRel
<1> HIDE DEF R
<1>3. PICK x \in S : \A y \in S : ~ (<<y, x>> \in R)
  BY <1>1, WFMin
<1>4. ASSUME NEW y \in S PROVE x =< y
  <2>1. x \in Nat /\ y \in Nat /\ ~ (y < x)
    BY <1>2, <1>3
  <2> QED
    BY <2>1
<1> QED
  BY <1>4 DEF Min

-----------------------------------------------------------------------------
(* The contents of a block.                                                *)

\* What block b may hold: nothing yet, or what its region is for.
Holds(b, c) ==
  \/ c = Blank
  \/ b = 0 /\ \E n, k \in Int : c = Super(n, k)
  \/ b \in 1 .. NrIstore /\ \E s \in [Slot -> Record] : c = Store(s)
  \/ \E j \in 0 .. NrIfree - 1 : b = IfreeBlock(j) /\ \E s \in SUBSET AllBits(j) : c = Bits(s)
  \/ \E j \in 0 .. NrBfree - 1 : b = BfreeBlock(j) /\ \E s \in SUBSET AllBits(j) : c = Bits(s)
  \/ b = RootBlock /\ \E e \in SUBSET Inos : c = Dir(e)
  \/ b \in RootBlock + 1 .. NrBlocks - 1 /\ c = EmptyIndex

\* The inodes of a block that nobody has written are all zero.
LEMMA ZeroSlots == [s \in Slot |-> Zero] \in [Slot -> Record] /\ Zero \in Record /\ Out \notin Record
BY Sizes DEF Zero, Record, Out, Blocks

\* A superblock that somebody has written has two counters.
LEMMA HeldSuper ==
  ASSUME NEW c, Holds(0, c), c # Blank
  PROVE  \E n, k \in Int : c = Super(n, k)
BY Regions, Sizes DEF Holds

\* A block of the inode store reads as a row of inodes.
LEMMA HeldStore ==
  ASSUME NEW b \in 1 .. NrIstore, NEW c, Holds(b, c)
  PROVE  Slots(c) \in [Slot -> Record] /\ c.kind \in {"store", "blank"}
<1>1. c = Blank \/ \E s \in [Slot -> Record] : c = Store(s)
  BY Regions, Sizes DEF Holds
<1> QED
  BY <1>1, ZeroSlots DEF Slots, Store, Blank

\* A block of the inode bitmap has the bits of its part only.
LEMMA HeldIfree ==
  ASSUME NEW j \in 0 .. NrIfree - 1, NEW c, Holds(IfreeBlock(j), c)
  PROVE  /\ Free(c) \subseteq AllBits(j) /\ c.kind \in {"bits", "blank"}
         /\ c # Blank => c = Bits(Free(c))
<1>1. c = Blank \/ \E s \in SUBSET AllBits(j) : c = Bits(s)
  BY Regions, Sizes DEF Holds
<1> QED
  BY <1>1 DEF Free, Bits, Blank

\* The same of the block bitmap.
LEMMA HeldBfree ==
  ASSUME NEW j \in 0 .. NrBfree - 1, NEW c, Holds(BfreeBlock(j), c)
  PROVE  /\ Free(c) \subseteq AllBits(j) /\ c.kind \in {"bits", "blank"}
         /\ c # Blank => c = Bits(Free(c))
<1>1. c = Blank \/ \E s \in SUBSET AllBits(j) : c = Bits(s)
  BY Regions, Sizes DEF Holds
<1> QED
  BY <1>1 DEF Free, Bits, Blank

\* The block of the root directory lists files.
LEMMA HeldDir ==
  ASSUME NEW c, Holds(RootBlock, c)
  PROVE  Listed(c) \subseteq Inos /\ c.kind \in {"dir", "blank"}
<1>1. c = Blank \/ \E e \in SUBSET Inos : c = Dir(e)
  BY Regions, Sizes DEF Holds
<1> QED
  BY <1>1 DEF Listed, Dir, Blank

-----------------------------------------------------------------------------
(* The inductive invariant.                                                *)

\* The device and the buffers: a clean buffer is what the device has.
Devices ==
  /\ disk = [b \in Blocks |-> disk[b]] /\ buf = [b \in Blocks |-> buf[b]]
  /\ \A b \in Blocks : Holds(b, disk[b]) /\ Holds(b, buf[b])
  /\ dirty \subseteq Blocks
  /\ \A b \in Blocks \ dirty : buf[b] = disk[b]

\* What the kernel holds of the superblock.
SuperType == [inodes : Int, blocks : Int, ifree : SUBSET Nat, bfree : SUBSET Nat]

\* The inode cache; all is empty when nothing is mounted.
Caches ==
  /\ Mounted => sbi \in SuperType
  /\ inode \in [Inos \cup {Root} -> Record \cup {Out}]
  /\ idirty \subseteq Inos
  /\ \A i \in idirty : inode[i] # Out
  /\ ~ Mounted => idirty = {} /\ dirty = {} /\ inode = [i \in Inos \cup {Root} |-> Out]

\* How far a sync is.
Phases == {"idle", "super", "ifree", "bfree", "inodes", "blocks"}
SyncType ==
  [phase : Phases, at : Nat, wait : BOOLEAN, todo : SUBSET Nat, quiet : BOOLEAN, umount : BOOLEAN]
Syncing ==
  /\ sync \in SyncType
  /\ ~ Mounted => sync = Idle
  /\ sync.phase = "idle" => sync = Idle
  /\ sync.phase = "ifree" => sync.at < NrIfree
  /\ sync.phase = "bfree" => sync.at < NrBfree
  /\ sync.phase = "inodes" => sync.todo \subseteq Inos
  /\ sync.phase = "blocks" => sync.todo \subseteq Blocks

\* mkfs runs on a partition that is not mounted and not whole.
Making ==
  /\ mkfs \in -1 .. Len(Image) - 1
  /\ mkfs # -1 => ~ Mounted /\ torn
  /\ \A b \in 0 .. mkfs - 1 : disk[b] = Image[b + 1]

\* A view of the partition in which counters, bitmaps and inodes agree.
Sound(v) ==
  /\ \A n \in v.super.ifree : n \in Nat /\ n > Root /\ n \div BitsPerBlock < NrIfree
  /\ \A n \in v.super.bfree : n \in Nat /\ n > RootBlock /\ n \div BitsPerBlock < NrBfree
  /\ v.super.blocks = Cardinality({n \in v.super.bfree : n < NrBlocks})
  /\ v.super.inodes = Cardinality({n \in v.super.ifree : n < NrInodes}) + 1
  /\ v.entries \subseteq Inos \ v.super.ifree
  /\ \A i \in v.entries : /\ v.inodes[i] \in Record
                          /\ v.inodes[i].index > RootBlock
                          /\ v.inodes[i].index \notin v.super.bfree
  /\ \A i, j \in v.entries : v.inodes[i].index = v.inodes[j].index => i = j

\* The cache holds files only, and a clean inode is what the store has.
Clean ==
  /\ \A i \in Inos : inode[i] # Out => i \in Entries
  /\ \A i \in Entries \ idirty : inode[i] # Out => inode[i] = Iget(buf, i)

\* The buffers hold the superblock, and the first parts of the bitmaps.
SavedSuper == buf[0] = Super(sbi.inodes, sbi.blocks)
SavedIfree(n) == \A j \in 0 .. n - 1 : buf[IfreeBlock(j)] = Bits(Part(sbi.ifree, j))
SavedBfree(n) == \A j \in 0 .. n - 1 : buf[BfreeBlock(j)] = Bits(Part(sbi.bfree, j))

\* A quiet sync: what it has passed is written, and nothing new is dirty.
Progress ==
  /\ sync.phase \in {"ifree", "bfree", "inodes", "blocks"} => SavedSuper
  /\ sync.phase = "ifree" => SavedIfree(sync.at)
  /\ sync.phase \in {"bfree", "inodes", "blocks"} => SavedIfree(NrIfree)
  /\ sync.phase = "bfree" => SavedBfree(sync.at)
  /\ sync.phase \in {"inodes", "blocks"} => SavedBfree(NrBfree)
  /\ sync.phase = "inodes" => idirty \subseteq sync.todo
  /\ sync.wait => idirty = {}
  /\ sync.phase = "blocks" => sync.wait /\ dirty \subseteq sync.todo

\* A partition that is not torn.
Whole ==
  /\ \A b \in 0 .. RootBlock : disk[b] # Blank /\ buf[b] # Blank
  /\ Mounted => Sound(InMemory) /\ Clean
  /\ ~ Mounted => synced # Nothing
  /\ sync.umount => sync.quiet
  /\ sync.quiet => Progress

\* Nothing has changed since all was saved.
Safe ==
  /\ ~ torn
  /\ Saved(disk) = synced
  /\ Sound(synced)
  /\ idirty = {} /\ dirty = {}
  /\ Mounted => /\ InMemory = synced
                /\ SavedSuper /\ SavedIfree(NrIfree) /\ SavedBfree(NrBfree)

SuperInv ==
  /\ Devices
  /\ Caches
  /\ Syncing
  /\ Making
  /\ ~ torn => Whole
  /\ synced # Nothing => Safe

-----------------------------------------------------------------------------
(* Views of the device.                                                    *)

\* Two devices with the same metadata read the same.
LEMMA SameView ==
  ASSUME NEW d, NEW e, \A b \in 0 .. RootBlock : d[b] = e[b]
  PROVE  /\ FillSuper(d) = FillSuper(e)
         /\ Listed(d[RootBlock]) \subseteq Inos => Saved(d) = Saved(e)
         /\ \A i \in Inos \cup {Root} : Iget(d, i) = Iget(e, i)
<1>1. d[0] = e[0] /\ d[RootBlock] = e[RootBlock]
  BY Sizes
<1>2. \A b \in IfreeBlocks \cup BfreeBlocks : d[b] = e[b]
  BY Regions, Sizes DEF IfreeBlocks, BfreeBlocks
<1>3. {Free(d[b]) : b \in IfreeBlocks} = {Free(e[b]) : b \in IfreeBlocks}
  BY <1>2
<1>4. {Free(d[b]) : b \in BfreeBlocks} = {Free(e[b]) : b \in BfreeBlocks}
  BY <1>2
<1>5. FillSuper(d) = FillSuper(e)
  BY <1>1, <1>3, <1>4 DEF FillSuper
<1>6. \A i \in Nat : InodeBlock(i) \in 1 .. NrIstore => Iget(d, i) = Iget(e, i)
  BY Sizes DEF Iget
<1>7. \A i \in Inos \cup {Root} : Iget(d, i) = Iget(e, i)
  BY <1>6, InodePlaces
<1>8. ASSUME Listed(d[RootBlock]) \subseteq Inos PROVE Saved(d) = Saved(e)
  <2>1. [i \in Listed(d[RootBlock]) |-> Iget(d, i)] = [i \in Listed(e[RootBlock]) |-> Iget(e, i)]
    BY <1>1, <1>7, <1>8
  <2> QED
    BY <1>1, <1>5, <2>1 DEF Saved
<1> QED
  BY <1>5, <1>7, <1>8

\* What the parts of a bitmap hold together.
LEMMA FilledIfree ==
  ASSUME NEW d, \A j \in 0 .. NrIfree - 1 : Free(d[IfreeBlock(j)]) \subseteq AllBits(j)
  PROVE  /\ \A n : n \in FillSuper(d).ifree <=>
                     \E j \in 0 .. NrIfree - 1 : n \in Free(d[IfreeBlock(j)])
         /\ FillSuper(d).ifree \subseteq Nat
         /\ \A j \in 0 .. NrIfree - 1 : Part(FillSuper(d).ifree, j) = Free(d[IfreeBlock(j)])
<1> DEFINE F == FillSuper(d).ifree
<1>1. F = UNION {Free(d[b]) : b \in IfreeBlocks}
  BY DEF FillSuper
<1> HIDE DEF F
<1>2. \A n : n \in F <=> \E j \in 0 .. NrIfree - 1 : n \in Free(d[IfreeBlock(j)])
  BY <1>1 DEF IfreeBlocks
<1>3. \A n \in F : n \in Nat
  BY <1>2, BitPlaces
<1>4. ASSUME NEW j \in 0 .. NrIfree - 1 PROVE Part(F, j) = Free(d[IfreeBlock(j)])
  <2>1. \A n \in Free(d[IfreeBlock(j)]) : n \in F /\ n \div BitsPerBlock = j
    BY <1>2, BitPlaces
  <2>2. ASSUME NEW n \in F, n \div BitsPerBlock = j PROVE n \in Free(d[IfreeBlock(j)])
    <3>1. PICK k \in 0 .. NrIfree - 1 : n \in Free(d[IfreeBlock(k)])
      BY <1>2
    <3>2. n \div BitsPerBlock = k
      BY <3>1, BitPlaces
    <3> QED
      BY <2>2, <3>1, <3>2
  <2> QED
    BY <2>1, <2>2 DEF Part
<1> QED
  BY <1>2, <1>3, <1>4 DEF F

\* The same of the block bitmap.
LEMMA FilledBfree ==
  ASSUME NEW d, \A j \in 0 .. NrBfree - 1 : Free(d[BfreeBlock(j)]) \subseteq AllBits(j)
  PROVE  /\ \A n : n \in FillSuper(d).bfree <=>
                     \E j \in 0 .. NrBfree - 1 : n \in Free(d[BfreeBlock(j)])
         /\ FillSuper(d).bfree \subseteq Nat
         /\ \A j \in 0 .. NrBfree - 1 : Part(FillSuper(d).bfree, j) = Free(d[BfreeBlock(j)])
<1> DEFINE F == FillSuper(d).bfree
<1>1. F = UNION {Free(d[b]) : b \in BfreeBlocks}
  BY DEF FillSuper
<1> HIDE DEF F
<1>2. \A n : n \in F <=> \E j \in 0 .. NrBfree - 1 : n \in Free(d[BfreeBlock(j)])
  BY <1>1 DEF BfreeBlocks
<1>3. \A n \in F : n \in Nat
  BY <1>2, BitPlaces
<1>4. ASSUME NEW j \in 0 .. NrBfree - 1 PROVE Part(F, j) = Free(d[BfreeBlock(j)])
  <2>1. \A n \in Free(d[BfreeBlock(j)]) : n \in F /\ n \div BitsPerBlock = j
    BY <1>2, BitPlaces
  <2>2. ASSUME NEW n \in F, n \div BitsPerBlock = j PROVE n \in Free(d[BfreeBlock(j)])
    <3>1. PICK k \in 0 .. NrBfree - 1 : n \in Free(d[BfreeBlock(k)])
      BY <1>2
    <3>2. n \div BitsPerBlock = k
      BY <3>1, BitPlaces
    <3> QED
      BY <2>2, <3>1, <3>2
  <2> QED
    BY <2>1, <2>2 DEF Part
<1> QED
  BY <1>2, <1>3, <1>4 DEF F

\* When the buffers hold all that sbi has, a mount would find it there.
LEMMA SavedFills ==
  ASSUME sbi \in SuperType, SavedSuper, SavedIfree(NrIfree), SavedBfree(NrBfree),
         \A n \in sbi.ifree : n \div BitsPerBlock < NrIfree,
         \A n \in sbi.bfree : n \div BitsPerBlock < NrBfree
  PROVE  FillSuper(buf) = sbi
<1>0. \A s : Free(Bits(s)) = s
  BY DEF Free, Bits
<1>1. \A j \in 0 .. NrIfree - 1 : Free(buf[IfreeBlock(j)]) = Part(sbi.ifree, j)
  BY <1>0 DEF SavedIfree
<1>2. \A j \in 0 .. NrBfree - 1 : Free(buf[BfreeBlock(j)]) = Part(sbi.bfree, j)
  BY <1>0 DEF SavedBfree
<1>3. sbi.ifree \subseteq Nat /\ sbi.bfree \subseteq Nat
  BY DEF SuperType
<1>4. \A j \in Nat : Part(sbi.ifree, j) \subseteq AllBits(j) /\ Part(sbi.bfree, j) \subseteq AllBits(j)
  BY <1>3, BitPlaces DEF Part
<1>5. FillSuper(buf).ifree = sbi.ifree
  <2>1. \A n : n \in FillSuper(buf).ifree <=> \E j \in 0 .. NrIfree - 1 : n \in Part(sbi.ifree, j)
    BY <1>1, <1>4, FilledIfree
  <2>2. \A n \in sbi.ifree : n \div BitsPerBlock \in 0 .. NrIfree - 1
    BY <1>3, BitPlaces, Sizes
  <2> QED
    BY <2>1, <2>2 DEF Part
<1>6. FillSuper(buf).bfree = sbi.bfree
  <2>1. \A n : n \in FillSuper(buf).bfree <=> \E j \in 0 .. NrBfree - 1 : n \in Part(sbi.bfree, j)
    BY <1>2, <1>4, FilledBfree
  <2>2. \A n \in sbi.bfree : n \div BitsPerBlock \in 0 .. NrBfree - 1
    BY <1>3, BitPlaces, Sizes
  <2> QED
    BY <2>1, <2>2 DEF Part
<1>7. FillSuper(buf).inodes = sbi.inodes /\ FillSuper(buf).blocks = sbi.blocks
  BY DEF SavedSuper, Super, FillSuper
<1>8. FillSuper(buf) = [inodes |-> FillSuper(buf).inodes, blocks |-> FillSuper(buf).blocks,
                        ifree |-> FillSuper(buf).ifree, bfree |-> FillSuper(buf).bfree]
  BY DEF FillSuper
<1> QED
  BY <1>5, <1>6, <1>7, <1>8 DEF SuperType

\* What a mount copies is typed, and the buffers hold it.
LEMMA FillTyped ==
  ASSUME Devices, buf[0].kind = "super"
  PROVE  FillSuper(buf) \in SuperType
<1>1. \A b \in Blocks : Holds(b, buf[b])
  BY DEF Devices
<1>2. \A j \in 0 .. NrIfree - 1 : Free(buf[IfreeBlock(j)]) \subseteq AllBits(j)
  BY <1>1, HeldIfree, Regions
<1>3. \A j \in 0 .. NrBfree - 1 : Free(buf[BfreeBlock(j)]) \subseteq AllBits(j)
  BY <1>1, HeldBfree, Regions
<1>4. buf[0] # Blank
  BY DEF Blank
<1>5. PICK n, k \in Int : buf[0] = Super(n, k)
  BY <1>1, <1>4, HeldSuper, Regions
<1>6. FillSuper(buf).ifree \subseteq Nat /\ FillSuper(buf).bfree \subseteq Nat
  BY <1>2, <1>3, FilledIfree, FilledBfree
<1>7. FillSuper(buf).inodes \in Int /\ FillSuper(buf).blocks \in Int
  BY <1>5 DEF FillSuper, Super
<1>8. FillSuper(buf) = [inodes |-> FillSuper(buf).inodes, blocks |-> FillSuper(buf).blocks,
                        ifree |-> FillSuper(buf).ifree, bfree |-> FillSuper(buf).bfree]
  BY DEF FillSuper
<1> QED
  BY <1>6, <1>7, <1>8 DEF SuperType

\* When mkfs has written every block, mount copies exactly what is there.
LEMMA FillSaves ==
  ASSUME Devices, \A b \in 0 .. RootBlock : buf[b] # Blank
  PROVE  /\ buf[0] = Super(FillSuper(buf).inodes, FillSuper(buf).blocks)
         /\ \A j \in 0 .. NrIfree - 1 : buf[IfreeBlock(j)] = Bits(Part(FillSuper(buf).ifree, j))
         /\ \A j \in 0 .. NrBfree - 1 : buf[BfreeBlock(j)] = Bits(Part(FillSuper(buf).bfree, j))
<1>1. \A b \in Blocks : Holds(b, buf[b])
  BY DEF Devices
<1>2. ASSUME NEW j \in 0 .. NrIfree - 1
      PROVE  /\ Free(buf[IfreeBlock(j)]) \subseteq AllBits(j)
             /\ buf[IfreeBlock(j)] = Bits(Free(buf[IfreeBlock(j)]))
  BY <1>1, HeldIfree, Regions, Sizes
<1>3. ASSUME NEW j \in 0 .. NrBfree - 1
      PROVE  /\ Free(buf[BfreeBlock(j)]) \subseteq AllBits(j)
             /\ buf[BfreeBlock(j)] = Bits(Free(buf[BfreeBlock(j)]))
  BY <1>1, HeldBfree, Regions, Sizes
<1>4. PICK n, k \in Int : buf[0] = Super(n, k)
  BY <1>1, HeldSuper, Regions, Sizes
<1>5. buf[0] = Super(FillSuper(buf).inodes, FillSuper(buf).blocks)
  BY <1>4 DEF FillSuper, Super
<1> QED
  BY <1>2, <1>3, <1>5, FilledIfree, FilledBfree

\* What is read of an inode is a record.
LEMMA IgetRecord ==
  ASSUME Devices
  PROVE  /\ \A i \in Inos \cup {Root} : Iget(buf, i) \in Record /\ Iget(disk, i) \in Record
         /\ Entries \subseteq Inos /\ Listed(disk[RootBlock]) \subseteq Inos
<1>1. \A b \in Blocks : Holds(b, disk[b]) /\ Holds(b, buf[b])
  BY DEF Devices
<1>2. ASSUME NEW i \in Inos \cup {Root}
      PROVE  Iget(buf, i) \in Record /\ Iget(disk, i) \in Record
  <2>1. InodeBlock(i) \in 1 .. NrIstore /\ InodeShift(i) \in Slot /\ InodeBlock(i) \in Blocks
    BY InodePlaces, Regions
  <2>2. Slots(buf[InodeBlock(i)]) \in [Slot -> Record] /\ Slots(disk[InodeBlock(i)]) \in [Slot -> Record]
    BY <1>1, <2>1, HeldStore
  <2> QED
    BY <2>1, <2>2 DEF Iget
<1> QED
  BY <1>1, <1>2, HeldDir, Regions DEF Entries

-----------------------------------------------------------------------------
(* What mkfs writes.                                                       *)

\* Sequences one after the other.
LEMMA Joined ==
  ASSUME NEW s, NEW t, NEW m \in Nat, NEW n \in Nat, NEW p, p = m + n,
         s = [k \in 1 .. m |-> s[k]], t = [k \in 1 .. n |-> t[k]]
  PROVE  /\ s \o t = [k \in 1 .. p |-> (s \o t)[k]] /\ Len(s \o t) = p
         /\ \A k \in 1 .. m : (s \o t)[k] = s[k]
         /\ \A k \in 1 .. n : (s \o t)[m + k] = t[k]
<1> DEFINE S == {s[k] : k \in 1 .. m} \cup {t[k] : k \in 1 .. n}
<1>1. s \in [1 .. m -> S] /\ t \in [1 .. n -> S]
  <2>1. s \in [1 .. m -> {s[k] : k \in 1 .. m}]
    OBVIOUS
  <2>2. t \in [1 .. n -> {t[k] : k \in 1 .. n}]
    OBVIOUS
  <2> QED
    BY <2>1, <2>2
<1> HIDE DEF S
<1>2. s \in Seq(S) /\ t \in Seq(S) /\ Len(s) = m /\ Len(t) = n
  BY <1>1
<1> QED
  BY <1>2, ConcatProperties

\* Where the image has the blocks of each region.
LEMMA ImageParts ==
  /\ Len(Image) = RootBlock + 1 /\ DOMAIN Image = 1 .. RootBlock + 1
  /\ Image[1] = Super(NrInodes - 1, NrData - 1)
  /\ \A k \in 1 .. NrIstore : Image[1 + k] = write_inode_store[k]
  /\ \A k \in 1 .. NrIfree : Image[1 + NrIstore + k] = write_ifree_blocks[k]
  /\ \A k \in 1 .. NrBfree : Image[1 + NrIstore + NrIfree + k] = write_bfree_blocks[k]
  /\ Image[RootBlock + 1] = Dir({})
<1> DEFINE s1 == write_superblock
           s2 == write_inode_store
           s3 == write_ifree_blocks
           s4 == write_bfree_blocks
           s5 == write_root_index_block
           t2 == s1 \o s2
           t3 == t2 \o s3
           t4 == t3 \o s4
           t5 == t4 \o s5
           n1 == 1
           n2 == 1 + NrIstore
           n3 == 1 + NrIstore + NrIfree
           n4 == 1 + NrIstore + NrIfree + NrBfree
<1>1. s1 = [k \in 1 .. n1 |-> s1[k]] /\ s1[1] = Super(NrInodes - 1, NrData - 1)
  BY DEF write_superblock
<1>2. s2 = [k \in 1 .. NrIstore |-> s2[k]]
  BY DEF write_inode_store
<1>3. s3 = [k \in 1 .. NrIfree |-> s3[k]]
  BY DEF write_ifree_blocks
<1>4. s4 = [k \in 1 .. NrBfree |-> s4[k]]
  BY DEF write_bfree_blocks
<1>5. s5 = [k \in 1 .. 1 |-> s5[k]] /\ s5[1] = Dir({})
  BY DEF write_root_index_block
<1>6. Image = t5
  BY DEF Image
<1>7. n1 \in Nat /\ n2 \in Nat /\ n3 \in Nat /\ n4 \in Nat /\ 1 \in Nat
      /\ NrIstore \in Nat /\ NrIfree \in Nat /\ NrBfree \in Nat
      /\ n1 + NrIstore = n2 /\ n2 + NrIfree = n3 /\ n3 + NrBfree = n4 /\ n4 = RootBlock
  BY Sizes
<1> HIDE DEF s1, s2, s3, s4, s5, n1, n2, n3, n4
<1>8. /\ t2 = [k \in 1 .. n2 |-> t2[k]]
      /\ \A k \in 1 .. n1 : t2[k] = s1[k]
      /\ \A k \in 1 .. NrIstore : t2[n1 + k] = s2[k]
  <2>1. n1 \in Nat /\ NrIstore \in Nat /\ n2 = n1 + NrIstore
    BY <1>7
  <2> QED
    BY <2>1, <1>1, <1>2, Joined
<1> HIDE DEF t2
<1>9. /\ t3 = [k \in 1 .. n3 |-> t3[k]]
      /\ \A k \in 1 .. n2 : t3[k] = t2[k]
      /\ \A k \in 1 .. NrIfree : t3[n2 + k] = s3[k]
  <2>1. n2 \in Nat /\ NrIfree \in Nat /\ n3 = n2 + NrIfree
    BY <1>7
  <2> QED
    BY <2>1, <1>3, <1>8, Joined
<1> HIDE DEF t3
<1>10. /\ t4 = [k \in 1 .. n4 |-> t4[k]]
       /\ \A k \in 1 .. n3 : t4[k] = t3[k]
       /\ \A k \in 1 .. NrBfree : t4[n3 + k] = s4[k]
  <2>1. n3 \in Nat /\ NrBfree \in Nat /\ n4 = n3 + NrBfree
    BY <1>7
  <2> QED
    BY <2>1, <1>4, <1>9, Joined
<1> HIDE DEF t4
<1>11. /\ Len(t5) = n4 + 1 /\ DOMAIN t5 = 1 .. n4 + 1
       /\ \A k \in 1 .. n4 : t5[k] = t4[k]
       /\ \A k \in 1 .. 1 : t5[n4 + k] = s5[k]
  <2> DEFINE p == n4 + 1
  <2>1. n4 \in Nat /\ 1 \in Nat /\ p = n4 + 1
    BY <1>7
  <2> HIDE DEF p
  <2>2. /\ t5 = [k \in 1 .. p |-> t5[k]] /\ Len(t5) = p
        /\ \A k \in 1 .. n4 : t5[k] = t4[k]
        /\ \A k \in 1 .. 1 : t5[n4 + k] = s5[k]
    BY <2>1, <1>5, <1>10, Joined DEF t5
  <2>3. DOMAIN t5 = 1 .. p
    BY <2>2
  <2> QED
    BY <2>1, <2>2, <2>3
<1> HIDE DEF t5
<1>12. /\ \A k \in 1 .. n1 : t5[k] = s1[k]
       /\ \A k \in 1 .. NrIstore : t5[n1 + k] = s2[k]
       /\ \A k \in 1 .. NrIfree : t5[n2 + k] = s3[k]
       /\ \A k \in 1 .. NrBfree : t5[n3 + k] = s4[k]
       /\ t5[n4 + 1] = s5[1]
  <2>1. /\ \A k \in 1 .. n1 : k \in 1 .. n2 /\ k \in 1 .. n3 /\ k \in 1 .. n4
        /\ \A k \in 1 .. NrIstore : n1 + k \in 1 .. n2 /\ n1 + k \in 1 .. n3 /\ n1 + k \in 1 .. n4
        /\ \A k \in 1 .. NrIfree : n2 + k \in 1 .. n3 /\ n2 + k \in 1 .. n4
        /\ \A k \in 1 .. NrBfree : n3 + k \in 1 .. n4
    BY <1>7
  <2>2. \A k \in 1 .. n1 : t5[k] = s1[k]
    BY <2>1, <1>8, <1>9, <1>10, <1>11, Zenon
  <2>3. \A k \in 1 .. NrIstore : t5[n1 + k] = s2[k]
    <3> TAKE k \in 1 .. NrIstore
    <3>1. t2[n1 + k] = s2[k]
      BY <1>8
    <3>2. n1 + k \in 1 .. n2 /\ n1 + k \in 1 .. n3 /\ n1 + k \in 1 .. n4
      BY <2>1
    <3> QED
      BY <3>1, <3>2, <1>9, <1>10, <1>11, Zenon
  <2>4. \A k \in 1 .. NrIfree : t5[n2 + k] = s3[k]
    BY <2>1, <1>9, <1>10, <1>11, Zenon
  <2>5. \A k \in 1 .. NrBfree : t5[n3 + k] = s4[k]
    BY <2>1, <1>10, <1>11, Zenon
  <2>6. t5[n4 + 1] = s5[1]
    BY <1>11
  <2> QED
    BY <2>2, <2>3, <2>4, <2>5, <2>6
<1> QED
  BY <1>1, <1>5, <1>6, <1>7, <1>11, <1>12 DEF n1, n2, n3, n4, s1, s2, s3, s4, s5

\* The contents that mkfs gives each region.
LEMMA ImageRegions ==
  ASSUME NEW d, \A b \in 0 .. RootBlock : d[b] = Image[b + 1]
  PROVE  /\ d[0] = Super(NrInodes - 1, NrData - 1)
         /\ \A b \in 1 .. NrIstore : d[b] = write_inode_store[b]
         /\ \A j \in 0 .. NrIfree - 1 : d[IfreeBlock(j)] = write_ifree_blocks[j + 1]
         /\ \A j \in 0 .. NrBfree - 1 : d[BfreeBlock(j)] = write_bfree_blocks[j + 1]
         /\ d[RootBlock] = Dir({})
<1>1. d[0] = Super(NrInodes - 1, NrData - 1) /\ d[RootBlock] = Dir({})
  BY ImageParts, Sizes
<1>2. \A b \in 1 .. NrIstore : d[b] = write_inode_store[b]
  <2> TAKE b \in 1 .. NrIstore
  <2>1. b \in 0 .. RootBlock /\ b + 1 = 1 + b
    BY Sizes
  <2> QED
    BY <2>1, ImageParts
<1>3. \A j \in 0 .. NrIfree - 1 : d[IfreeBlock(j)] = write_ifree_blocks[j + 1]
  <2> TAKE j \in 0 .. NrIfree - 1
  <2>1. /\ IfreeBlock(j) \in 0 .. RootBlock /\ j + 1 \in 1 .. NrIfree
        /\ IfreeBlock(j) + 1 = 1 + NrIstore + (j + 1)
    BY Sizes DEF IfreeBlock
  <2> QED
    BY <2>1, ImageParts
<1>4. \A j \in 0 .. NrBfree - 1 : d[BfreeBlock(j)] = write_bfree_blocks[j + 1]
  <2> TAKE j \in 0 .. NrBfree - 1
  <2>1. /\ BfreeBlock(j) \in 0 .. RootBlock /\ j + 1 \in 1 .. NrBfree
        /\ BfreeBlock(j) + 1 = 1 + NrIstore + NrIfree + (j + 1)
    BY Sizes DEF BfreeBlock
  <2> QED
    BY <2>1, ImageParts
<1> QED
  BY <1>1, <1>2, <1>3, <1>4

\* What mkfs writes as bitmaps.
LEMMA ImageBits ==
  /\ \A j \in 0 .. NrIfree - 1 :
       write_ifree_blocks[j + 1] = Bits({n \in AllBits(j) : n > Root})
  /\ \A j \in 0 .. NrBfree - 1 :
       write_bfree_blocks[j + 1] = Bits({n \in AllBits(j) : n > RootBlock})
<1>1. \A j \in Nat : j # 0 => \A n \in AllBits(j) : n >= BitsPerBlock
  BY Sizes DEF AllBits
<1>2. \A j \in Nat : \A n \in AllBits(j) : n \in Nat
  BY BitPlaces
<1>3. BitsPerBlock > Root /\ BitsPerBlock > RootBlock /\ RootBlock \in Nat
  BY Sizes DEF Root
<1>4. ASSUME NEW j \in 0 .. NrIfree - 1
      PROVE  write_ifree_blocks[j + 1] = Bits({n \in AllBits(j) : n > Root})
  <2>1. j + 1 \in 1 .. NrIfree /\ j + 1 - 1 = j /\ j \in Nat /\ (j + 1 = 1 <=> j = 0)
    BY Sizes
  <2>2. AllBits(j) \ (IF j = 0 THEN {0, 1} ELSE {}) = {n \in AllBits(j) : n > Root}
    <3>1. ASSUME NEW n \in AllBits(j)
          PROVE  n \in (IF j = 0 THEN {0, 1} ELSE {}) <=> ~ (n > Root)
      <4>1. n \in Nat /\ (j # 0 => n >= BitsPerBlock)
        BY <1>1, <1>2, <2>1
      <4> QED
        BY <1>3, <4>1, Sizes DEF Root
    <3> QED
      BY <3>1
  <2>3. write_ifree_blocks[j + 1] = Bits(AllBits(j + 1 - 1) \ (IF j + 1 = 1 THEN {0, 1} ELSE {}))
    BY <2>1 DEF write_ifree_blocks
  <2> QED
    BY <2>1, <2>2, <2>3
<1>5. ASSUME NEW j \in 0 .. NrBfree - 1
      PROVE  write_bfree_blocks[j + 1] = Bits({n \in AllBits(j) : n > RootBlock})
  <2> DEFINE used == NrIstore + NrIfree + NrBfree + 2
  <2>1. j + 1 \in 1 .. NrBfree /\ j + 1 - 1 = j /\ j \in Nat /\ (j + 1 = 1 <=> j = 0)
        /\ used = RootBlock + 1
    BY Sizes
  <2>2. AllBits(j) \ (IF j = 0 THEN 0 .. used - 1 ELSE {}) = {n \in AllBits(j) : n > RootBlock}
    <3>1. ASSUME NEW n \in AllBits(j)
          PROVE  n \in (IF j = 0 THEN 0 .. used - 1 ELSE {}) <=> ~ (n > RootBlock)
      <4>1. n \in Nat /\ (j # 0 => n >= BitsPerBlock)
        BY <1>1, <1>2, <2>1
      <4>2. used = RootBlock + 1
        BY <2>1
      <4> HIDE DEF used
      <4> QED
        BY <1>3, <4>1, <4>2, Sizes
    <3> QED
      BY <3>1
  <2>3. write_bfree_blocks[j + 1] = Bits(AllBits(j + 1 - 1) \ (IF j + 1 = 1 THEN 0 .. used - 1 ELSE {}))
    BY <2>1 DEF write_bfree_blocks
  <2> QED
    BY <2>1, <2>2, <2>3
<1> QED
  BY <1>4, <1>5

\* mkfs keeps to the layout.
LEMMA ImageHolds ==
  ASSUME NEW b \in 0 .. RootBlock
  PROVE  Holds(b, Image[b + 1]) /\ Image[b + 1] # Blank
<1> DEFINE d == [x \in 0 .. RootBlock |-> Image[x + 1]]
<1>1. /\ d[0] = Super(NrInodes - 1, NrData - 1)
      /\ \A x \in 1 .. NrIstore : d[x] = write_inode_store[x]
      /\ \A j \in 0 .. NrIfree - 1 : d[IfreeBlock(j)] = write_ifree_blocks[j + 1]
      /\ \A j \in 0 .. NrBfree - 1 : d[BfreeBlock(j)] = write_bfree_blocks[j + 1]
      /\ d[RootBlock] = Dir({})
  BY ImageRegions
<1>2. d[b] = Image[b + 1]
  OBVIOUS
<1> HIDE DEF d
<1>3. CASE b = 0
  <2>1. NrInodes - 1 \in Int /\ NrData - 1 \in Int
    BY Sizes DEF NrData
  <2> QED
    BY <1>1, <1>2, <1>3, <2>1 DEF Holds, Super, Blank
<1>4. CASE b \in 1 .. NrIstore
  <2> DEFINE root == [nlink |-> 2, index |-> RootBlock]
             f == [s \in Slot |-> IF b = 1 /\ s = Root THEN root ELSE Zero]
  <2>1. root \in Record /\ Zero \in Record
    BY ZeroSlots, Regions DEF Record
  <2>2. f \in [Slot -> Record]
    BY <2>1
  <2>3. d[b] = Store(f)
    BY <1>1, <1>4 DEF write_inode_store
  <2> HIDE DEF f
  <2>4. Store(f) # Blank
    BY DEF Store, Blank
  <2> QED
    BY <1>2, <1>4, <2>2, <2>3, <2>4 DEF Holds
<1>5. CASE b \in NrIstore + 1 .. NrIstore + NrIfree
  <2> DEFINE j == b - NrIstore - 1
             s == {n \in AllBits(j) : n > Root}
  <2>1. j \in 0 .. NrIfree - 1 /\ b = IfreeBlock(j)
    BY <1>5, Sizes DEF IfreeBlock
  <2>2. s \in SUBSET AllBits(j)
    OBVIOUS
  <2>3. d[b] = Bits(s)
    BY <1>1, <2>1, ImageBits
  <2> HIDE DEF s, j
  <2>4. Bits(s) # Blank
    BY DEF Bits, Blank
  <2> QED
    BY <1>2, <2>1, <2>2, <2>3, <2>4 DEF Holds
<1>6. CASE b \in NrIstore + NrIfree + 1 .. RootBlock - 1
  <2> DEFINE j == b - NrIstore - NrIfree - 1
             s == {n \in AllBits(j) : n > RootBlock}
  <2>1. j \in 0 .. NrBfree - 1 /\ b = BfreeBlock(j)
    BY <1>6, Sizes DEF BfreeBlock
  <2>2. s \in SUBSET AllBits(j)
    OBVIOUS
  <2>3. d[b] = Bits(s)
    BY <1>1, <2>1, ImageBits
  <2> HIDE DEF s, j
  <2>4. Bits(s) # Blank
    BY DEF Bits, Blank
  <2> QED
    BY <1>2, <2>1, <2>2, <2>3, <2>4 DEF Holds
<1>7. CASE b = RootBlock
  BY <1>1, <1>2, <1>7 DEF Holds, Dir, Blank
<1> QED
  BY <1>3, <1>4, <1>5, <1>6, <1>7, Sizes

\* The partition that mkfs leaves is sound.
LEMMA ImageSound ==
  ASSUME NEW d, \A b \in 0 .. RootBlock : d[b] = Image[b + 1]
  PROVE  Sound(Saved(d))
<1> DEFINE v == Saved(d)
           F == v.super.ifree
           G == v.super.bfree
<1>1. /\ d[0] = Super(NrInodes - 1, NrData - 1)
      /\ \A j \in 0 .. NrIfree - 1 : d[IfreeBlock(j)] = Bits({n \in AllBits(j) : n > Root})
      /\ \A j \in 0 .. NrBfree - 1 : d[BfreeBlock(j)] = Bits({n \in AllBits(j) : n > RootBlock})
      /\ d[RootBlock] = Dir({})
  BY ImageRegions, ImageBits
<1>2. v.super = FillSuper(d) /\ v.entries = Listed(d[RootBlock])
  BY DEF Saved
<1>3. v.entries = {} /\ v.super.inodes = NrInodes - 1 /\ v.super.blocks = NrData - 1
  BY <1>1, <1>2 DEF Listed, Dir, FillSuper, Super
<1> HIDE DEF v, F, G
<1>0. \A s : Free(Bits(s)) = s
  BY DEF Free, Bits
<1>4. \A n : n \in F <=> \E j \in 0 .. NrIfree - 1 : n \in AllBits(j) /\ n > Root
  <2>1. \A j \in 0 .. NrIfree - 1 : Free(d[IfreeBlock(j)]) = {n \in AllBits(j) : n > Root}
    BY <1>0, <1>1
  <2>2. \A n : n \in F <=> \E j \in 0 .. NrIfree - 1 : n \in Free(d[IfreeBlock(j)])
    BY <1>2, <2>1, FilledIfree DEF F
  <2> QED
    BY <2>1, <2>2
<1>5. \A n : n \in G <=> \E j \in 0 .. NrBfree - 1 : n \in AllBits(j) /\ n > RootBlock
  <2>1. \A j \in 0 .. NrBfree - 1 : Free(d[BfreeBlock(j)]) = {n \in AllBits(j) : n > RootBlock}
    BY <1>0, <1>1
  <2>2. \A n : n \in G <=> \E j \in 0 .. NrBfree - 1 : n \in Free(d[BfreeBlock(j)])
    BY <1>2, <2>1, FilledBfree DEF G
  <2> QED
    BY <2>1, <2>2
<1>6. \A n \in F : n \in Nat /\ n > Root /\ n \div BitsPerBlock < NrIfree
  <2> TAKE n \in F
  <2>1. PICK j \in 0 .. NrIfree - 1 : n \in AllBits(j) /\ n > Root
    BY <1>4
  <2>2. n \in Nat /\ n \div BitsPerBlock = j
    BY <2>1, BitPlaces
  <2> QED
    BY <2>1, <2>2, Sizes
<1>7. \A n \in G : n \in Nat /\ n > RootBlock /\ n \div BitsPerBlock < NrBfree
  <2> TAKE n \in G
  <2>1. PICK j \in 0 .. NrBfree - 1 : n \in AllBits(j) /\ n > RootBlock
    BY <1>5
  <2>2. n \in Nat /\ n \div BitsPerBlock = j
    BY <2>1, BitPlaces
  <2> QED
    BY <2>1, <2>2, Sizes
<1>8. {n \in F : n < NrInodes} = 2 .. NrInodes - 1
  <2>1. ASSUME NEW n \in 2 .. NrInodes - 1 PROVE n \in F /\ n < NrInodes
    <3>1. n \in 0 .. NrInodes - 1 /\ n \in Nat /\ n > Root
      BY Sizes DEF Root
    <3>3. n \div BitsPerBlock \in Nat /\ n \div BitsPerBlock < NrIfree /\ n \in AllBits(n \div BitsPerBlock)
      BY <3>1, BitPlaces
    <3>2. n \div BitsPerBlock \in 0 .. NrIfree - 1 /\ n \in AllBits(n \div BitsPerBlock)
      BY <3>3, Sizes
    <3> QED
      BY <1>4, <3>1, <3>2, Sizes
  <2>2. \A n \in F : n < NrInodes => n \in 2 .. NrInodes - 1
    BY <1>6, Sizes DEF Root
  <2> QED
    BY <2>1, <2>2
<1>9. {n \in G : n < NrBlocks} = RootBlock + 1 .. NrBlocks - 1
  <2>1. ASSUME NEW n \in RootBlock + 1 .. NrBlocks - 1 PROVE n \in G /\ n < NrBlocks
    <3>1. n \in 0 .. NrBlocks - 1 /\ n \in Nat /\ n > RootBlock
      BY Sizes
    <3>3. n \div BitsPerBlock \in Nat /\ n \div BitsPerBlock < NrBfree /\ n \in AllBits(n \div BitsPerBlock)
      BY <3>1, BitPlaces
    <3>2. n \div BitsPerBlock \in 0 .. NrBfree - 1 /\ n \in AllBits(n \div BitsPerBlock)
      BY <3>3, Sizes
    <3> QED
      BY <1>5, <3>1, <3>2, Sizes
  <2>2. \A n \in G : n < NrBlocks => n \in RootBlock + 1 .. NrBlocks - 1
    BY <1>7, Sizes
  <2> QED
    BY <2>1, <2>2
<1>10. v.super.inodes = Cardinality({n \in F : n < NrInodes}) + 1
  <2>1. 2 \in Int /\ NrInodes \in Nat /\ NrInodes - 1 \in Int /\ NrInodes >= 3
    BY Sizes
  <2> DEFINE a == 2
             b == NrInodes - 1
  <2>3. a \in Int /\ b \in Int /\ ~ (a > b) /\ b - a + 1 = NrInodes - 2
    BY <2>1
  <2> HIDE DEF a, b
  <2>4. Cardinality(a .. b) = NrInodes - 2
    BY <2>3, FS_Interval
  <2>2. Cardinality(2 .. NrInodes - 1) = NrInodes - 2
    BY <2>4 DEF a, b
  <2> QED
    <3>1. Cardinality({n \in F : n < NrInodes}) = NrInodes - 2
      BY <1>8, <2>2
    <3> QED
      BY <1>3, <2>1, <3>1
<1>11. v.super.blocks = Cardinality({n \in G : n < NrBlocks})
  <2>1. RootBlock + 1 \in Int /\ NrBlocks - 1 \in Int /\ RootBlock + 1 =< NrBlocks - 1
    BY Sizes
  <2> DEFINE a == RootBlock + 1
             b == NrBlocks - 1
  <2>4. a \in Int /\ b \in Int /\ ~ (a > b) /\ b - a + 1 = NrBlocks - 1 - RootBlock
    BY <2>1, Sizes
  <2> HIDE DEF a, b
  <2>5. Cardinality(a .. b) = NrBlocks - 1 - RootBlock
    BY <2>4, FS_Interval
  <2>2. Cardinality(RootBlock + 1 .. NrBlocks - 1) = NrBlocks - 1 - RootBlock
    BY <2>5 DEF a, b
  <2>3. NrData - 1 = NrBlocks - 1 - RootBlock
    BY Sizes DEF NrData
  <2> QED
    BY <1>3, <1>9, <2>2, <2>3
<1>12. Sound(v)
  BY <1>3, <1>6, <1>7, <1>10, <1>11 DEF Sound, F, G
<1> QED
  BY <1>12 DEF v

-----------------------------------------------------------------------------
(* Steps.                                                                  *)

\* Before mkfs nothing is written.
LEMMA SuperInit == Init => SuperInv
<1> SUFFICES ASSUME Init PROVE SuperInv
  OBVIOUS
<1>1. Devices
  BY DEF Init, Devices, Holds
<1>2. Caches
  BY DEF Init, Caches, Mounted, Nothing
<1>3. Syncing
  BY DEF Init, Syncing, SyncType, Phases, Idle
<1>4. Making
  BY Sizes, ImageParts DEF Init, Making
<1> QED
  BY <1>1, <1>2, <1>3, <1>4 DEF Init, SuperInv, Nothing

\* A state of sync that is not idle belongs to a mounted partition.
LEMMA SyncMounted == SuperInv /\ sync.phase # "idle" => Mounted /\ sbi \in SuperType /\ mkfs = -1
BY DEF SuperInv, Syncing, Caches, Making, Idle

\* Marking a block dirty.
LEMMA PutDevices ==
  ASSUME Devices, NEW b \in Blocks, NEW c, Holds(b, c), NEW wait \in BOOLEAN, Put(b, c, wait)
  PROVE  /\ Devices'
         /\ \A x \in Blocks : buf'[x] = IF x = b THEN c ELSE buf[x]
         /\ \A x \in Blocks : disk'[x] = IF wait /\ x = b THEN c ELSE disk[x]
         /\ dirty' \subseteq dirty \cup {b}
         /\ dirty = {} /\ buf[b] = c => UNCHANGED <<disk, buf, dirty>>
<1>1. /\ disk = [x \in Blocks |-> disk[x]] /\ buf = [x \in Blocks |-> buf[x]]
      /\ \A x \in Blocks : Holds(x, disk[x]) /\ Holds(x, buf[x])
      /\ dirty \subseteq Blocks
      /\ \A x \in Blocks \ dirty : buf[x] = disk[x]
  BY DEF Devices
<1>2. buf' = [buf EXCEPT ![b] = c]
  BY DEF Put
<1>3. disk' = IF wait THEN [disk EXCEPT ![b] = c] ELSE disk
  BY DEF Put
<1>4. dirty' = {x \in dirty \cup {b} : buf'[x] # disk'[x]}
  BY DEF Put, Marked
<1>5. buf' = [x \in Blocks |-> buf'[x]] /\ \A x \in Blocks : buf'[x] = IF x = b THEN c ELSE buf[x]
  BY <1>1, <1>2
<1>6. disk' = [x \in Blocks |-> disk'[x]]
      /\ \A x \in Blocks : disk'[x] = IF wait /\ x = b THEN c ELSE disk[x]
  BY <1>1, <1>3
<1>7. \A x \in Blocks : Holds(x, disk'[x]) /\ Holds(x, buf'[x])
  BY <1>1, <1>5, <1>6
<1>8. \A x \in Blocks \ dirty' : buf'[x] = disk'[x]
  BY <1>1, <1>4, <1>5, <1>6
<1>9. Devices'
  BY <1>1, <1>4, <1>5, <1>6, <1>7, <1>8 DEF Devices
<1>10. ASSUME dirty = {}, buf[b] = c PROVE UNCHANGED <<disk, buf, dirty>>
  <2>1. buf[b] = disk[b]
    BY <1>1, <1>10
  <2>2. buf' = buf /\ disk' = disk
    BY <1>1, <1>2, <1>3, <1>10, <2>1
  <2>3. dirty' = {}
    BY <1>1, <1>4, <1>10, <2>1, <2>2
  <2> QED
    BY <1>10, <2>2, <2>3
<1> QED
  BY <1>4, <1>5, <1>6, <1>9, <1>10

\* A step that changes no inode and no entry leaves the tree as it was.
LEMMA ViewStays ==
  ASSUME Devices, UNCHANGED <<sbi, inode>>,
         \A b \in 1 .. NrIstore \cup {RootBlock} : buf'[b] = buf[b]
  PROVE  /\ InMemory' = InMemory /\ Entries' = Entries
         /\ \A i \in Inos \cup {Root} : Iget(buf', i) = Iget(buf, i)
         /\ Clean /\ idirty' = idirty => Clean'
<1>1. Entries' = Entries /\ Entries \subseteq Inos
  BY IgetRecord DEF Entries
<1>2. \A i \in Inos \cup {Root} : Iget(buf', i) = Iget(buf, i)
  BY InodePlaces DEF Iget
<1>3. InMemory' = InMemory
  <2>1. [i \in Entries |-> IF inode[i] = Out THEN Iget(buf, i) ELSE inode[i]]'
          = [i \in Entries |-> IF inode[i] = Out THEN Iget(buf, i) ELSE inode[i]]
    BY <1>1, <1>2
  <2> QED
    BY <1>1, <2>1 DEF InMemory
<1>4. ASSUME Clean, idirty' = idirty PROVE Clean'
  BY <1>1, <1>2, <1>4 DEF Clean
<1> QED
  BY <1>1, <1>2, <1>3, <1>4

\* A block of the superblock or of a bitmap is written.
LEMMA MetaStep ==
  ASSUME SuperInv, Mounted, NEW b \in 0 .. RootBlock - 1, b \notin 1 .. NrIstore,
         NEW c, Holds(b, c), c # Blank, Put(b, c, sync.wait),
         UNCHANGED <<cache, mkfs, history>>,
         synced # Nothing => buf[b] = c, Syncing', sync.umount' = sync.umount,
         sync.quiet' = sync.quiet, ~ torn /\ sync.quiet => Progress'
  PROVE  SuperInv'
<1>1. /\ Devices /\ Caches /\ Syncing /\ Making /\ (~ torn => Whole)
      /\ (synced # Nothing => Safe) /\ sync.wait \in BOOLEAN /\ b \in Blocks
      /\ sbi' = sbi /\ inode' = inode /\ idirty' = idirty /\ torn' = torn /\ synced' = synced
      /\ mkfs' = mkfs
  BY Sizes DEF SuperInv, Syncing, SyncType, Blocks, cache, history
<1>2. /\ Devices'
      /\ \A x \in Blocks : buf'[x] = IF x = b THEN c ELSE buf[x]
      /\ \A x \in Blocks : disk'[x] = IF sync.wait /\ x = b THEN c ELSE disk[x]
      /\ dirty = {} /\ buf[b] = c => UNCHANGED <<disk, buf, dirty>>
  BY <1>1, PutDevices
<1>3. InMemory' = InMemory /\ (Clean => Clean')
  <2>1. \A x \in 1 .. NrIstore \cup {RootBlock} : buf'[x] = buf[x]
    BY <1>2, Sizes, Regions
  <2> QED
    BY <1>1, <2>1, ViewStays
<1>4. Caches' /\ Making'
  BY <1>1, Sizes DEF Caches, Making, Mounted
<1>5. ASSUME ~ torn PROVE Whole'
  <2>1. \A x \in 0 .. RootBlock : disk'[x] # Blank /\ buf'[x] # Blank
    BY <1>1, <1>2, <1>5, Sizes DEF Whole, Blocks
  <2>2. Sound(InMemory)'
    BY <1>1, <1>3, <1>5 DEF Whole, Sound
  <2> QED
    BY <1>1, <1>3, <1>5, <2>1, <2>2 DEF Whole, Mounted
<1>6. ASSUME synced # Nothing PROVE Safe'
  <2>1. UNCHANGED <<disk, buf, dirty>>
    BY <1>1, <1>2, <1>6 DEF Safe
  <2> QED
    BY <1>1, <1>3, <1>6, <2>1
       DEF Safe, Sound, Saved, SavedSuper, SavedIfree, SavedBfree, Mounted
<1> QED
  BY <1>1, <1>2, <1>4, <1>5, <1>6 DEF SuperInv

\* sync_fs writes the superblock's counters.
LEMMA SyncSuperKeeps ==
  ASSUME SuperInv, SyncSuper
  PROVE  SuperInv'
<1> DEFINE c == Super(sbi.inodes, sbi.blocks)
<1>1. Mounted /\ sbi \in SuperType /\ sync \in SyncType
  BY SyncMounted DEF SyncSuper, SuperInv, Syncing
<1>2. Holds(0, c) /\ c # Blank
  BY <1>1 DEF Holds, Super, Blank, SuperType
<1>3. sync' = [sync EXCEPT !.phase = "ifree", !.at = 0]
  BY DEF SyncSuper, Goes
<1>4. /\ sync'.phase = "ifree" /\ sync'.at = 0 /\ sync'.wait = sync.wait
      /\ sync'.quiet = sync.quiet /\ sync'.umount = sync.umount /\ sync' \in SyncType
  BY <1>1, <1>3 DEF SyncType, Phases
<1>5. /\ Put(0, c, sync.wait) /\ UNCHANGED <<cache, mkfs, history>>
      /\ sbi' = sbi /\ idirty' = idirty
  BY DEF SyncSuper, cache
<1>6. Syncing'
  BY <1>1, <1>4, <1>5, Sizes DEF Syncing, Mounted
<1>7. buf'[0] = c
  BY <1>5, Regions DEF Put, SuperInv, Devices
<1>8. ASSUME ~ torn, sync.quiet PROVE Progress'
  <2>1. sync.wait => idirty = {}
    BY <1>8 DEF SuperInv, Whole, Progress
  <2> QED
    BY <1>4, <1>5, <1>7, <2>1 DEF Progress, SavedSuper, SavedIfree
<1>9. synced # Nothing => buf[0] = c
  BY <1>1 DEF SuperInv, Safe, SavedSuper
<1> QED
  BY <1>1, <1>2, <1>4, <1>5, <1>6, <1>8, <1>9, Sizes, MetaStep

\* sync_ifree writes one part of the inode bitmap.
LEMMA SyncIfreeKeeps ==
  ASSUME SuperInv, SyncIfree
  PROVE  SuperInv'
<1> DEFINE a == sync.at
           b == IfreeBlock(a)
           c == Bits(Part(sbi.ifree, a))
           last == ~ (a + 1 < NrIfree)
<1>1. Mounted /\ sbi \in SuperType /\ sync \in SyncType /\ sync.phase = "ifree"
      /\ a \in 0 .. NrIfree - 1 /\ a \in Nat
  BY SyncMounted, Sizes DEF SyncIfree, SuperInv, Syncing, SyncType
<1>2. Holds(b, c) /\ c # Blank
  <2>1. Part(sbi.ifree, a) \in SUBSET AllBits(a)
    BY <1>1, BitPlaces DEF SuperType, Part
  <2> QED
    BY <1>1, <2>1 DEF Holds, Bits, Blank
<1>3. /\ sync' = [sync EXCEPT !.phase = IF last THEN "bfree" ELSE "ifree",
                              !.at = IF last THEN 0 ELSE a + 1]
      /\ Put(b, c, sync.wait) /\ UNCHANGED <<cache, mkfs, history>>
      /\ sbi' = sbi /\ idirty' = idirty
  BY DEF SyncIfree, Goes, cache
<1>4. /\ sync'.phase = IF last THEN "bfree" ELSE "ifree"
      /\ sync'.at = (IF last THEN 0 ELSE a + 1) /\ sync'.wait = sync.wait
      /\ sync'.quiet = sync.quiet /\ sync'.umount = sync.umount /\ sync' \in SyncType
  <2> DEFINE p == IF last THEN "bfree" ELSE "ifree"
             n == IF last THEN 0 ELSE a + 1
  <2>1. p \in Phases /\ n \in Nat
    BY <1>1 DEF Phases
  <2>2. sync' = [sync EXCEPT !.phase = p, !.at = n]
    BY <1>3
  <2> HIDE DEF p, n
  <2>3. /\ sync'.phase = p /\ sync'.at = n /\ sync'.wait = sync.wait
        /\ sync'.quiet = sync.quiet /\ sync'.umount = sync.umount /\ sync' \in SyncType
    BY <1>1, <2>1, <2>2 DEF SyncType
  <2> QED
    BY <2>3 DEF p, n
<1>5. /\ b \in Blocks /\ b \in 0 .. RootBlock - 1 /\ b \notin 1 .. NrIstore /\ b # 0
      /\ \A j \in Nat : IfreeBlock(j) = b => j = a
  BY <1>1, Regions, Sizes
<1> HIDE DEF b, c
<1>6. Syncing'
  BY <1>1, <1>3, <1>4, Sizes DEF Syncing, Mounted
<1>7. \A x \in Blocks : buf'[x] = IF x = b THEN c ELSE buf[x]
  BY <1>1, <1>2, <1>3, <1>5, PutDevices DEF SuperInv, SyncType
<1>8. ASSUME ~ torn, sync.quiet PROVE Progress'
  <2>1. Progress
    BY <1>8 DEF SuperInv, Whole
  <2>2. SavedSuper'
    BY <1>1, <1>3, <1>5, <1>7, <2>1, Regions DEF Progress, SavedSuper
  <2>3. \A j \in 0 .. a : buf'[IfreeBlock(j)] = Bits(Part(sbi.ifree, j))
    <3> TAKE j \in 0 .. a
    <3>1. j \in Nat /\ j \in 0 .. NrIfree - 1 /\ IfreeBlock(j) \in Blocks
      BY <1>1, Regions, Sizes
    <3>2. CASE j = a
      BY <1>5, <1>7, <3>2 DEF b, c
    <3>3. CASE j # a
      <4>1. j \in 0 .. a - 1 /\ IfreeBlock(j) # b
        BY <1>1, <1>5, <3>1, <3>3
      <4>2. buf[IfreeBlock(j)] = Bits(Part(sbi.ifree, j))
        BY <1>1, <2>1, <4>1 DEF Progress, SavedIfree
      <4> QED
        BY <1>7, <3>1, <4>1, <4>2
    <3> QED
      BY <3>2, <3>3
  <2>4. ASSUME last PROVE SavedIfree(NrIfree)' /\ SavedBfree(0)'
    <3>1. \A j \in 0 .. NrIfree - 1 : j \in 0 .. a
      BY <1>1, <2>4, Sizes
    <3> QED
      BY <1>3, <2>3, <3>1 DEF SavedIfree, SavedBfree
  <2>5. ASSUME ~ last PROVE SavedIfree(sync.at)'
    <3>1. sync'.at = a + 1
      BY <1>1, <1>4, <2>5
    <3>2. \A j \in 0 .. sync'.at - 1 : j \in 0 .. a
      BY <1>1, <3>1
    <3>3. \A j \in 0 .. sync'.at - 1 : buf'[IfreeBlock(j)] = Bits(Part(sbi'.ifree, j))
      BY <1>3, <2>3, <3>2
    <3> QED
      BY <3>3 DEF SavedIfree
  <2>6. sync'.wait => idirty' = {}
    BY <1>3, <1>4, <2>1 DEF Progress
  <2> HIDE DEF last
  <2> QED
    BY <1>4, <2>2, <2>4, <2>5, <2>6 DEF Progress, SavedBfree
<1>9. synced # Nothing => buf[b] = c
  BY <1>1 DEF SuperInv, Safe, SavedIfree, b, c
<1> QED
  BY <1>1, <1>2, <1>3, <1>4, <1>5, <1>6, <1>8, <1>9, MetaStep

\* sync_bfree writes one part, and after the last goes on or turns to the inodes.
LEMMA SyncBfreeKeeps ==
  ASSUME SuperInv, SyncBfree
  PROVE  SuperInv'
<1> DEFINE a == sync.at
           b == BfreeBlock(a)
           c == Bits(Part(sbi.bfree, a))
           t == CASE BfreeNext = "inodes" -> idirty
                  [] BfreeNext = "blocks" -> dirty'
                  [] OTHER -> {}
           n == IF BfreeNext = "bfree" THEN (a + 1) % NrBfree ELSE 0
<1>1. Mounted /\ sbi \in SuperType /\ sync \in SyncType /\ sync.phase = "bfree"
      /\ a \in 0 .. NrBfree - 1 /\ a \in Nat /\ sync.wait \in BOOLEAN
  BY SyncMounted, Sizes DEF SyncBfree, SuperInv, Syncing, SyncType
<1>2. Holds(b, c) /\ c # Blank
  <2>1. Part(sbi.bfree, a) \in SUBSET AllBits(a)
    BY <1>1, BitPlaces DEF SuperType, Part
  <2> QED
    BY <1>1, <2>1 DEF Holds, Bits, Blank
<1>3. /\ sync' = [sync EXCEPT !.phase = BfreeNext, !.at = n, !.todo = t]
      /\ Put(b, c, sync.wait) /\ UNCHANGED <<cache, mkfs, history>>
      /\ sbi' = sbi /\ idirty' = idirty
  BY DEF SyncBfree, cache
<1>5. /\ b \in Blocks /\ b \in 0 .. RootBlock - 1 /\ b \notin 1 .. NrIstore /\ b # 0
      /\ \A j \in Nat : BfreeBlock(j) = b => j = a
      /\ \A j \in 0 .. NrIfree - 1 : IfreeBlock(j) # b /\ IfreeBlock(j) \in Blocks
  BY <1>1, Regions, Sizes
<1> HIDE DEF b, c
<1>7. Devices' /\ \A x \in Blocks : buf'[x] = IF x = b THEN c ELSE buf[x]
  BY <1>1, <1>2, <1>3, <1>5, PutDevices DEF SuperInv, SyncType
<1>10. /\ BfreeNext \in {"bfree", "inodes", "blocks"}
       /\ BfreeNext = "bfree" => a + 1 < NrBfree /\ n = a + 1
       /\ BfreeNext # "bfree" => ~ (a + 1 < NrBfree)
       /\ BfreeNext = "inodes" => ~ sync.wait /\ t = idirty
       /\ BfreeNext = "blocks" => sync.wait /\ t = dirty'
  BY <1>1, Sizes DEF BfreeNext
<1>11. n \in Nat /\ idirty \subseteq Inos /\ dirty' \subseteq Blocks /\ t \in SUBSET Nat
  <2>1. idirty \subseteq Inos /\ dirty' \subseteq Blocks
    BY <1>7 DEF SuperInv, Caches, Devices
  <2>2. Inos \subseteq Nat /\ Blocks \subseteq Nat
    BY Sizes DEF Inos, Blocks
  <2>3. n \in Nat
    BY <1>1, <1>10
  <2>4. t \in {idirty, dirty', {}}
    OBVIOUS
  <2> HIDE DEF t, n
  <2> QED
    BY <2>1, <2>2, <2>3, <2>4
<1> HIDE DEF t, n
<1>4. /\ sync'.phase = BfreeNext /\ sync'.todo = t
      /\ sync'.at = n /\ sync'.wait = sync.wait
      /\ sync'.quiet = sync.quiet /\ sync'.umount = sync.umount /\ sync' \in SyncType
  <2> DEFINE p == BfreeNext
  <2>1. p \in Phases
    BY <1>10 DEF Phases
  <2>2. sync' = [sync EXCEPT !.phase = p, !.at = n, !.todo = t]
    BY <1>3
  <2> HIDE DEF p
  <2>3. /\ sync'.phase = p /\ sync'.todo = t
        /\ sync'.at = n /\ sync'.wait = sync.wait
        /\ sync'.quiet = sync.quiet /\ sync'.umount = sync.umount /\ sync' \in SyncType
    BY <1>1, <1>11, <2>1, <2>2 DEF SyncType
  <2> QED
    BY <2>3 DEF p
<1>6. Syncing'
  BY <1>1, <1>3, <1>4, <1>10, <1>11, Sizes DEF Syncing, Mounted
<1>8. ASSUME ~ torn, sync.quiet PROVE Progress'
  <2>1. Progress
    BY <1>8 DEF SuperInv, Whole
  <2>2. SavedSuper'
    BY <1>1, <1>3, <1>5, <1>7, <2>1, Regions DEF Progress, SavedSuper
  <2>3. \A j \in 0 .. a : buf'[BfreeBlock(j)] = Bits(Part(sbi.bfree, j))
    <3> TAKE j \in 0 .. a
    <3>1. j \in Nat /\ j \in 0 .. NrBfree - 1 /\ BfreeBlock(j) \in Blocks
      BY <1>1, Regions, Sizes
    <3>2. CASE j = a
      BY <1>5, <1>7, <3>2 DEF b, c
    <3>3. CASE j # a
      <4>1. j \in 0 .. a - 1 /\ BfreeBlock(j) # b
        BY <1>1, <1>5, <3>1, <3>3
      <4>2. buf[BfreeBlock(j)] = Bits(Part(sbi.bfree, j))
        BY <1>1, <2>1, <4>1 DEF Progress, SavedBfree
      <4> QED
        BY <1>7, <3>1, <4>1, <4>2
    <3> QED
      BY <3>2, <3>3
  <2>4. ASSUME BfreeNext # "bfree" PROVE SavedBfree(NrBfree)'
    <3>1. \A j \in 0 .. NrBfree - 1 : j \in 0 .. a
      BY <1>1, <1>10, <2>4, Sizes
    <3> QED
      BY <1>3, <2>3, <3>1 DEF SavedBfree
  <2>5. ASSUME BfreeNext = "bfree" PROVE SavedBfree(sync.at)'
    <3>1. sync'.at = a + 1
      BY <1>1, <1>4, <1>10, <2>5
    <3>2. \A j \in 0 .. sync'.at - 1 : j \in 0 .. a
      BY <1>1, <3>1
    <3>3. \A j \in 0 .. sync'.at - 1 : buf'[BfreeBlock(j)] = Bits(Part(sbi'.bfree, j))
      BY <1>3, <2>3, <3>2
    <3> QED
      BY <3>3 DEF SavedBfree
  <2>6. sync'.wait => idirty' = {}
    BY <1>3, <1>4, <2>1 DEF Progress
  <2>7. SavedIfree(NrIfree)'
    <3>1. SavedIfree(NrIfree)
      BY <1>1, <2>1 DEF Progress
    <3>2. \A j \in 0 .. NrIfree - 1 : buf'[IfreeBlock(j)] = buf[IfreeBlock(j)]
      BY <1>5, <1>7
    <3>3. \A j \in 0 .. NrIfree - 1 : buf'[IfreeBlock(j)] = Bits(Part(sbi.ifree, j))
      BY <3>1, <3>2 DEF SavedIfree
    <3>4. sbi' = sbi
      BY <1>3
    <3> QED
      BY <3>3, <3>4 DEF SavedIfree
  <2>8. sync'.phase # "ifree"
    BY <1>4, <1>10
  <2> QED
    BY <1>3, <1>4, <1>10, <2>2, <2>4, <2>5, <2>6, <2>7, <2>8 DEF Progress
<1>9. synced # Nothing => buf[b] = c
  BY <1>1 DEF SuperInv, Safe, SavedBfree, b, c
<1> QED
  BY <1>1, <1>2, <1>3, <1>4, <1>5, <1>6, <1>8, <1>9, MetaStep

\* Only the place in sync changes.
LEMMA SyncStep1 ==
  ASSUME SuperInv, UNCHANGED <<device, cache, mkfs, history>>, Syncing',
         ~ torn /\ sync'.umount => sync'.quiet, ~ torn /\ sync'.quiet => Progress'
  PROVE  SuperInv'
<1>1. /\ disk' = disk /\ buf' = buf /\ dirty' = dirty /\ sbi' = sbi /\ inode' = inode
      /\ idirty' = idirty /\ mkfs' = mkfs /\ torn' = torn /\ calls' = calls /\ synced' = synced
  BY DEF device, cache, history
<1>2. Devices' /\ Caches' /\ Making'
  BY <1>1 DEF SuperInv, Devices, Caches, Making, Mounted
<1>3. InMemory' = InMemory /\ Entries' = Entries
  BY <1>1 DEF InMemory, Entries
<1>4. ASSUME ~ torn PROVE Whole'
  <2>1. Whole
    BY <1>4 DEF SuperInv
  <2>2. Mounted => Sound(InMemory)' /\ Clean'
    BY <1>1, <1>3, <2>1 DEF Whole, Sound, Clean
  <2> QED
    BY <1>1, <1>4, <2>1, <2>2 DEF Whole, Mounted
<1>5. ASSUME synced # Nothing PROVE Safe'
  BY <1>1, <1>3, <1>5
     DEF SuperInv, Safe, Sound, Saved, SavedSuper, SavedIfree, SavedBfree, Mounted
<1> QED
  BY <1>1, <1>2, <1>4, <1>5 DEF SuperInv

\* What a sync that begins leaves to do.
LEMMA SyncBeginKeeps ==
  ASSUME SuperInv, NEW u \in BOOLEAN, SyncBegin(u)
  PROVE  SuperInv'
<1>1. /\ sync' = [Idle EXCEPT !.phase = "super", !.quiet = TRUE, !.umount = u]
      /\ UNCHANGED <<device, cache, mkfs, history>> /\ Mounted /\ sbi' = sbi
  BY DEF SyncBegin, Usable, cache
<1>2. sync' = [phase |-> "super", at |-> 0, wait |-> FALSE, todo |-> {}, quiet |-> TRUE, umount |-> u]
  BY <1>1 DEF Idle
<1>3. sync' \in SyncType
  BY <1>2 DEF SyncType, Phases
<1>4. Syncing'
  BY <1>1, <1>2, <1>3 DEF Syncing, Mounted
<1>5. Progress'
  BY <1>2 DEF Progress
<1> QED
  BY <1>1, <1>2, <1>4, <1>5, SyncStep1

\* The second call of sync_fs, which waits.
LEMMA SyncAgainKeeps ==
  ASSUME SuperInv, SyncAgain
  PROVE  SuperInv'
<1>1. /\ sync' = [sync EXCEPT !.phase = "super", !.at = 0, !.wait = TRUE]
      /\ UNCHANGED <<device, cache, mkfs, history>> /\ Mounted /\ sbi' = sbi /\ idirty' = idirty
      /\ sync \in SyncType /\ sync.phase = "inodes" /\ sync.todo = {}
  BY SyncMounted DEF SyncAgain, cache, SuperInv, Syncing
<1>2. /\ sync'.phase = "super" /\ sync'.wait = TRUE /\ sync'.quiet = sync.quiet
      /\ sync'.umount = sync.umount /\ sync' \in SyncType
  BY <1>1 DEF SyncType, Phases
<1>3. Syncing'
  BY <1>1, <1>2 DEF Syncing, Mounted
<1>4. ~ torn => (sync.umount => sync.quiet)
  BY DEF SuperInv, Whole
<1>5. ASSUME ~ torn, sync.quiet PROVE Progress'
  <2>1. idirty = {}
    BY <1>1, <1>5 DEF SuperInv, Whole, Progress
  <2> QED
    BY <1>1, <1>2, <2>1 DEF Progress
<1> QED
  BY <1>1, <1>2, <1>3, <1>4, <1>5, SyncStep1

\* A quiet sync that has no block left to write has saved what is in memory.
LEMMA QuietSaved ==
  ASSUME SuperInv, ~ torn, sync.quiet, sync.phase = "blocks", sync.todo = {}
  PROVE  /\ dirty = {} /\ idirty = {} /\ buf = disk
         /\ SavedSuper /\ SavedIfree(NrIfree) /\ SavedBfree(NrBfree)
         /\ Saved(disk) = InMemory /\ Sound(InMemory)
<1>1. Whole /\ Progress /\ Mounted /\ sbi \in SuperType /\ Devices
  BY SyncMounted DEF SuperInv, Whole
<1>2. /\ dirty = {} /\ idirty = {} /\ SavedSuper /\ SavedIfree(NrIfree) /\ SavedBfree(NrBfree)
  BY <1>1 DEF Progress
<1>3. Sound(InMemory) /\ Clean
  BY <1>1 DEF Whole
<1>4. buf = disk
  BY <1>1, <1>2 DEF Devices
<1>5. InMemory.super = sbi
  BY DEF InMemory
<1>6. FillSuper(buf) = sbi
  BY <1>1, <1>2, <1>3, <1>5, SavedFills DEF Sound
<1>7. \A i \in Entries : Iget(buf, i) = IF inode[i] = Out THEN Iget(buf, i) ELSE inode[i]
  BY <1>2, <1>3 DEF Clean
<1>8. Saved(disk) = InMemory
  BY <1>4, <1>6, <1>7 DEF Saved, InMemory, Entries
<1> QED
  BY <1>2, <1>3, <1>4, <1>8

\* A quiet sync ends with all that is in memory on the device.
LEMMA SyncEndKeeps ==
  ASSUME SuperInv, SyncEnd
  PROVE  SuperInv'
<1>1. /\ sync' = Idle /\ UNCHANGED <<device, cache, mkfs, torn>> /\ Mounted
      /\ sync.phase = "blocks" /\ sync.todo = {} /\ Settle
  BY SyncMounted DEF SyncEnd
<1>2. /\ disk' = disk /\ buf' = buf /\ dirty' = dirty /\ sbi' = sbi /\ inode' = inode
      /\ idirty' = idirty /\ mkfs' = mkfs /\ torn' = torn /\ Mounted'
  BY <1>1 DEF device, cache, Mounted
<1>3. Devices' /\ Caches' /\ Making'
  BY <1>2 DEF SuperInv, Devices, Caches, Making, Mounted
<1>4. InMemory' = InMemory /\ Entries' = Entries
  BY <1>2 DEF InMemory, Entries
<1>5. Syncing'
  BY <1>1, <1>2 DEF Syncing, SyncType, Phases, Idle
<1>6. ASSUME ~ torn PROVE Whole'
  <2>1. Whole
    BY <1>6 DEF SuperInv
  <2>2. Sound(InMemory)' /\ Clean'
    BY <1>1, <1>2, <1>4, <2>1 DEF Whole, Sound, Clean
  <2>3. ~ sync'.umount /\ ~ sync'.quiet
    BY <1>1 DEF Idle
  <2> QED
    BY <1>2, <1>6, <2>1, <2>2, <2>3 DEF Whole
<1>7. CASE sync.quiet /\ ~ torn
  <2>1. synced' = InMemory
    BY <1>1, <1>7 DEF Settle
  <2>2. Safe'
    BY <1>2, <1>4, <1>7, <1>1, <2>1, QuietSaved
       DEF Safe, Sound, Saved, SavedSuper, SavedIfree, SavedBfree
  <2> QED
    BY <1>2, <1>3, <1>5, <1>6, <2>2 DEF SuperInv
<1>8. CASE ~ (sync.quiet /\ ~ torn)
  <2>1. synced' = synced
    BY <1>1, <1>8 DEF Settle
  <2>2. synced # Nothing => Safe'
    BY <1>2, <1>4, <2>1
       DEF SuperInv, Safe, Sound, Saved, SavedSuper, SavedIfree, SavedBfree, Mounted
  <2> QED
    BY <1>2, <1>3, <1>5, <1>6, <2>1, <2>2 DEF SuperInv
<1> QED
  BY <1>7, <1>8

\* sync_fs cannot read a block.
LEMMA SyncFailsKeeps ==
  ASSUME SuperInv, SyncFails
  PROVE  SuperInv'
<1>1. /\ UNCHANGED <<device, cache, mkfs>> /\ Mounted /\ sbi' = sbi /\ sync \in SyncType
  BY SyncMounted DEF SyncFails, cache, SuperInv, Syncing
<1>2. CASE ~ sync.umount
  <2>1. sync' = Idle /\ UNCHANGED history
    BY <1>2 DEF SyncFails
  <2>2. Syncing' /\ ~ sync'.umount /\ ~ sync'.quiet
    BY <1>1, <2>1 DEF Syncing, SyncType, Phases, Idle
  <2> QED
    BY <1>1, <2>1, <2>2, SyncStep1
<1>3. CASE sync.umount
  <2>1. /\ sync' = [sync EXCEPT !.phase = "blocks", !.quiet = FALSE, !.todo = {}]
        /\ torn' = TRUE /\ synced' = Nothing
    BY <1>3 DEF SyncFails
  <2>2. /\ sync'.phase = "blocks" /\ sync'.todo = {} /\ sync' \in SyncType
    BY <1>1, <2>1 DEF SyncType, Phases
  <2>3. Syncing'
    BY <1>1, <2>2 DEF Syncing, Mounted
  <2>4. Devices' /\ Caches' /\ Making'
    BY <1>1, <2>1 DEF SuperInv, Devices, Caches, Making, Mounted, device, cache
  <2> QED
    BY <2>1, <2>3, <2>4 DEF SuperInv
<1> QED
  BY <1>2, <1>3

\* A sync that has not begun is not quiet.
LEMMA IdleQuiet == [Idle EXCEPT !.quiet = FALSE] = Idle
<1>1. Idle \in SyncType /\ Idle.quiet = FALSE
  BY DEF Idle, SyncType, Phases
<1>2. \A s \in SyncType : s.quiet = FALSE => [s EXCEPT !.quiet = FALSE] = s
  BY DEF SyncType
<1> QED
  BY <1>1, <1>2

\* The store cannot be read.
LEMMA FlushInodeFailsKeeps ==
  ASSUME SuperInv, NEW i \in idirty, FlushInodeFails(i)
  PROVE  SuperInv'
<1>1. /\ idirty' = idirty \ {i} /\ sync' = [sync EXCEPT !.quiet = FALSE]
      /\ torn' = TRUE /\ synced' = Nothing
      /\ UNCHANGED <<device, sbi, inode, mkfs, calls>> /\ Mounted
  BY DEF FlushInodeFails, Usable
<1>2. Devices' /\ Caches' /\ Making'
  BY <1>1 DEF SuperInv, Devices, Caches, Making, Mounted, device
<1>3. /\ sync'.phase = sync.phase /\ sync'.todo = sync.todo /\ sync'.at = sync.at
      /\ sync' \in SyncType
  BY <1>1 DEF SuperInv, Syncing, SyncType
<1>4. sync.phase # "idle" \/ sync' = [Idle EXCEPT !.quiet = FALSE]
  BY <1>1 DEF SuperInv, Syncing
<1>5. [Idle EXCEPT !.quiet = FALSE] = Idle
  BY IdleQuiet
<1>6. Syncing'
  BY <1>1, <1>3, <1>4, <1>5 DEF SuperInv, Syncing, Mounted
<1> QED
  BY <1>1, <1>2, <1>6 DEF SuperInv

\* A buffer reaches the device.
LEMMA BufferStep ==
  ASSUME SuperInv, Mounted, NEW b \in Blocks,
         disk' = (IF b \in dirty THEN [disk EXCEPT ![b] = buf[b]] ELSE disk),
         dirty' = dirty \ {b}, UNCHANGED <<buf, cache, mkfs, history>>, Syncing',
         sync'.umount = sync.umount, sync'.quiet = sync.quiet,
         ~ torn /\ sync.quiet => Progress'
  PROVE  SuperInv'
<1>1. /\ Devices /\ Caches /\ Making /\ (~ torn => Whole) /\ (synced # Nothing => Safe)
      /\ buf' = buf /\ sbi' = sbi /\ inode' = inode /\ idirty' = idirty /\ mkfs' = mkfs
      /\ torn' = torn /\ synced' = synced /\ Mounted' /\ mkfs = -1
  BY DEF SuperInv, cache, history, Mounted, Making
<1>2. disk' = [x \in Blocks |-> disk'[x]]
      /\ \A x \in Blocks : disk'[x] = IF x = b /\ b \in dirty THEN buf[b] ELSE disk[x]
  BY <1>1 DEF Devices
<1>3. Devices'
  <2>1. \A x \in Blocks : Holds(x, disk'[x]) /\ Holds(x, buf'[x])
    BY <1>1, <1>2 DEF Devices
  <2>2. \A x \in Blocks \ dirty' : buf'[x] = disk'[x]
    BY <1>1, <1>2 DEF Devices
  <2> QED
    BY <1>1, <1>2, <2>1, <2>2 DEF Devices
<1>4. Caches' /\ Making'
  BY <1>1, ImageParts, Sizes DEF Caches, Making, Mounted
<1>5. InMemory' = InMemory /\ Entries' = Entries
  BY <1>1 DEF InMemory, Entries
<1>6. ASSUME ~ torn PROVE Whole'
  <2>1. \A x \in 0 .. RootBlock : disk'[x] # Blank /\ buf'[x] # Blank
    BY <1>1, <1>2, <1>6, Sizes DEF Whole, Blocks
  <2>2. Sound(InMemory)' /\ Clean'
    BY <1>1, <1>5, <1>6 DEF Whole, Sound, Clean
  <2> QED
    BY <1>1, <1>6, <2>1, <2>2 DEF Whole
<1>7. ASSUME synced # Nothing PROVE Safe'
  <2>1. disk' = disk /\ dirty' = {}
    BY <1>1, <1>7 DEF Safe
  <2> QED
    BY <1>1, <1>5, <1>7, <2>1
       DEF Safe, Sound, Saved, SavedSuper, SavedIfree, SavedBfree
<1> QED
  BY <1>1, <1>3, <1>4, <1>6, <1>7 DEF SuperInv

\* The flusher writes a buffer.
LEMMA FlushBufferKeeps ==
  ASSUME SuperInv, NEW b \in Blocks, FlushBuffer(b)
  PROVE  SuperInv'
<1>1. /\ Mounted /\ disk' = (IF b \in dirty THEN [disk EXCEPT ![b] = buf[b]] ELSE disk)
      /\ dirty' = dirty \ {b} /\ UNCHANGED <<buf, cache, mkfs, history>>
      /\ sync' = sync /\ buf' = buf /\ sbi' = sbi /\ idirty' = idirty
  BY DEF FlushBuffer, Usable, cache
<1>2. Syncing'
  BY <1>1 DEF SuperInv, Syncing, Mounted
<1>3. ASSUME ~ torn, sync.quiet PROVE Progress'
  <2>1. Progress
    BY <1>3 DEF SuperInv, Whole
  <2> QED
    BY <1>1, <2>1 DEF Progress, SavedSuper, SavedIfree, SavedBfree
<1> QED
  BY <1>1, <1>2, <1>3, BufferStep

\* The end of a sync writes a buffer.
LEMMA SyncBlockKeeps ==
  ASSUME SuperInv, NEW b \in sync.todo, SyncBlock(b)
  PROVE  SuperInv'
<1>1. Mounted /\ sync.phase = "blocks" /\ sync \in SyncType /\ b \in Blocks
      /\ sync.todo \subseteq Blocks /\ dirty \subseteq Blocks
  BY SyncMounted DEF SyncBlock, SuperInv, Syncing, Devices
<1> DEFINE t == (sync.todo \ {b}) \cap dirty
<1>2. /\ disk' = (IF b \in dirty THEN [disk EXCEPT ![b] = buf[b]] ELSE disk)
      /\ dirty' = dirty \ {b} /\ UNCHANGED <<buf, cache, mkfs, history>>
      /\ sync' = [sync EXCEPT !.todo = t] /\ buf' = buf /\ sbi' = sbi /\ idirty' = idirty
  BY DEF SyncBlock, cache
<1>3. t \in SUBSET Nat /\ t \subseteq Blocks /\ (dirty \subseteq sync.todo => dirty' \subseteq t)
  BY <1>1, <1>2 DEF Blocks
<1> HIDE DEF t
<1>4. /\ sync'.phase = "blocks" /\ sync'.todo = t /\ sync'.wait = sync.wait
      /\ sync'.quiet = sync.quiet /\ sync'.umount = sync.umount /\ sync' \in SyncType
  BY <1>1, <1>2, <1>3 DEF SyncType
<1>5. Syncing'
  BY <1>1, <1>2, <1>3, <1>4 DEF Syncing, Mounted
<1>6. ASSUME ~ torn, sync.quiet PROVE Progress'
  <2>1. Progress
    BY <1>6 DEF SuperInv, Whole
  <2> QED
    BY <1>1, <1>2, <1>3, <1>4, <2>1 DEF Progress, SavedSuper, SavedIfree, SavedBfree
<1> QED
  BY <1>1, <1>2, <1>4, <1>5, <1>6, BufferStep

\* write_inode changes one place of the store.
LEMMA InodeStep ==
  ASSUME SuperInv, Mounted, NEW i \in idirty, write_inode(i),
         UNCHANGED <<sbi, inode, mkfs, history>>, Syncing',
         sync'.umount = sync.umount, sync'.quiet = sync.quiet,
         ~ torn /\ sync.quiet => Progress'
  PROVE  SuperInv'
<1> DEFINE b == InodeBlock(i)
           f == Slots(buf[b])
           g == [f EXCEPT ![InodeShift(i)] = inode[i]]
           c == Store(g)
<1>1. /\ Devices /\ Caches /\ Making /\ (~ torn => Whole) /\ (synced # Nothing => Safe)
      /\ sbi' = sbi /\ inode' = inode /\ idirty' = idirty \ {i} /\ mkfs' = mkfs
      /\ torn' = torn /\ synced' = synced /\ Mounted' /\ mkfs = -1 /\ Put(b, c, TRUE)
  BY DEF SuperInv, history, Mounted, Making, write_inode, Written
<1>2. i \in Inos /\ inode[i] \in Record /\ inode[i] # Out
  BY <1>1 DEF Caches
<1>3. /\ b \in 1 .. NrIstore /\ b \in Blocks /\ InodeShift(i) \in Slot
      /\ b # RootBlock /\ b # 0
  BY <1>2, InodePlaces, Regions, Sizes
<1>4. f \in [Slot -> Record]
  BY <1>1, <1>3, HeldStore DEF Devices
<1> HIDE DEF f, b
<1>5. g \in [Slot -> Record] /\ g[InodeShift(i)] = inode[i]
      /\ \A s \in Slot : s # InodeShift(i) => g[s] = f[s]
  BY <1>2, <1>3, <1>4
<1> HIDE DEF g
<1>6. Holds(b, c) /\ c # Blank /\ Slots(c) = g
  BY <1>3, <1>5 DEF Holds, Store, Blank, Slots
<1> HIDE DEF c
<1>7. /\ Devices'
      /\ \A x \in Blocks : buf'[x] = IF x = b THEN c ELSE buf[x]
      /\ \A x \in Blocks : disk'[x] = IF x = b THEN c ELSE disk[x]
  <2> DEFINE w == TRUE
  <2>1. w \in BOOLEAN /\ Put(b, c, w)
    BY <1>1
  <2> HIDE DEF w
  <2>2. /\ Devices'
        /\ \A x \in Blocks : buf'[x] = IF x = b THEN c ELSE buf[x]
        /\ \A x \in Blocks : disk'[x] = IF w /\ x = b THEN c ELSE disk[x]
    BY <1>1, <1>3, <1>6, <2>1, PutDevices
  <2> QED
    BY <2>2 DEF w
<1>8. \A j \in Inos \cup {Root} : Iget(buf', j) = IF j = i THEN inode[i] ELSE Iget(buf, j)
  <2> TAKE j \in Inos \cup {Root}
  <2>1. InodeBlock(j) \in 1 .. NrIstore /\ InodeBlock(j) \in Blocks /\ InodeShift(j) \in Slot
    BY InodePlaces, Regions
  <2>2. CASE j = i
    BY <1>3, <1>5, <1>6, <1>7, <2>2 DEF Iget, b
  <2>3. CASE InodeBlock(j) # b
    BY <1>7, <2>1, <2>3 DEF Iget, b
  <2>4. CASE InodeBlock(j) = b /\ j # i
    <3>1. InodeShift(j) # InodeShift(i)
      BY <1>2, <2>4, InodePlaces DEF b
    <3>2. Slots(buf'[InodeBlock(j)])[InodeShift(j)] = f[InodeShift(j)]
      BY <1>3, <1>5, <1>6, <1>7, <2>1, <2>4, <3>1
    <3> QED
      BY <2>4, <3>2 DEF Iget, f
  <2> QED
    BY <2>2, <2>3, <2>4
<1>9. Entries' = Entries /\ Entries \subseteq Inos
  BY <1>1, <1>3, <1>7, Regions, IgetRecord DEF Entries
<1>10. InMemory' = InMemory
  <2>1. \A j \in Entries : (IF inode'[j] = Out THEN Iget(buf', j) ELSE inode'[j])
                             = (IF inode[j] = Out THEN Iget(buf, j) ELSE inode[j])
    BY <1>1, <1>2, <1>8, <1>9
  <2>2. [j \in Entries |-> IF inode[j] = Out THEN Iget(buf, j) ELSE inode[j]]'
          = [j \in Entries |-> IF inode[j] = Out THEN Iget(buf, j) ELSE inode[j]]
    BY <1>9, <2>1
  <2> QED
    BY <1>1, <1>9, <2>2 DEF InMemory
<1>11. Caches' /\ Making'
  BY <1>1, ImageParts, Sizes DEF Caches, Making, Mounted
<1>12. ASSUME ~ torn PROVE Whole'
  <2>1. Whole
    BY <1>1, <1>12
  <2>2. \A x \in 0 .. RootBlock : disk'[x] # Blank /\ buf'[x] # Blank
    BY <1>6, <1>7, <2>1, Sizes DEF Whole, Blocks
  <2>3. Clean'
    BY <1>1, <1>8, <1>9, <2>1 DEF Whole, Clean
  <2>4. Sound(InMemory)'
    BY <1>10, <2>1 DEF Whole, Sound
  <2> QED
    BY <1>1, <1>12, <2>1, <2>2, <2>3, <2>4 DEF Whole
<1>13. synced = Nothing
  BY <1>1 DEF Safe
<1> QED
  BY <1>1, <1>7, <1>11, <1>12, <1>13 DEF SuperInv

\* Which buffers it may change.
LEMMA InodeBuffers ==
  ASSUME SuperInv, NEW i \in idirty, write_inode(i)
  PROVE  \A x \in Blocks \ (1 .. NrIstore) : buf'[x] = buf[x]
<1>1. i \in Inos /\ buf = [x \in Blocks |-> buf[x]]
  BY DEF SuperInv, Caches, Devices
<1>2. InodeBlock(i) \in 1 .. NrIstore
  BY <1>1, InodePlaces
<1> QED
  BY <1>1, <1>2 DEF write_inode, Put

\* A quiet sync that has inodes to write is not yet at the blocks.
LEMMA InodeProgress ==
  ASSUME SuperInv, ~ torn, sync.quiet, NEW i \in idirty, write_inode(i), sbi' = sbi,
         sync'.phase = sync.phase, sync'.at = sync.at, sync'.wait = sync.wait,
         sync.phase = "inodes" => idirty' \subseteq sync'.todo
  PROVE  Progress'
<1>1. Progress
  BY DEF SuperInv, Whole
<1>2. ~ sync.wait /\ sync.phase # "blocks"
  BY <1>1 DEF Progress
<1>3. \A x \in Blocks \ (1 .. NrIstore) : buf'[x] = buf[x]
  BY InodeBuffers
<1>4. /\ buf'[0] = buf[0]
      /\ \A j \in 0 .. NrIfree - 1 : buf'[IfreeBlock(j)] = buf[IfreeBlock(j)]
      /\ \A j \in 0 .. NrBfree - 1 : buf'[BfreeBlock(j)] = buf[BfreeBlock(j)]
  BY <1>3, Regions, Sizes
<1>5. sync.phase = "ifree" => sync.at \in Nat /\ sync.at < NrIfree
  BY DEF SuperInv, Syncing, SyncType
<1>6. sync.phase = "bfree" => sync.at \in Nat /\ sync.at < NrBfree
  BY DEF SuperInv, Syncing, SyncType
<1>7. \A n \in Nat : n <= NrIfree /\ SavedIfree(n) => SavedIfree(n)'
  BY <1>4, Sizes DEF SavedIfree
<1>8. \A n \in Nat : n <= NrBfree /\ SavedBfree(n) => SavedBfree(n)'
  BY <1>4, Sizes DEF SavedBfree
<1> QED
  BY <1>1, <1>2, <1>4, <1>5, <1>6, <1>7, <1>8, Sizes
     DEF Progress, SavedSuper, SavedIfree, SavedBfree

\* The flusher writes an inode into the store.
LEMMA FlushInodeKeeps ==
  ASSUME SuperInv, NEW i \in idirty, FlushInode(i)
  PROVE  SuperInv'
<1>1. /\ Mounted /\ write_inode(i) /\ UNCHANGED <<sbi, inode, mkfs, history>> /\ sync' = sync
      /\ sbi' = sbi /\ idirty' = idirty \ {i}
  BY DEF FlushInode, Usable, write_inode
<1>2. Syncing'
  BY <1>1 DEF SuperInv, Syncing, Mounted
<1>3. ASSUME ~ torn, sync.quiet PROVE Progress'
  <2>1. sync.phase = "inodes" => idirty' \subseteq sync'.todo
    BY <1>1, <1>3 DEF SuperInv, Whole, Progress
  <2> QED
    BY <1>1, <1>3, <2>1, InodeProgress
<1> QED
  BY <1>1, <1>2, <1>3, InodeStep

\* A sync writes an inode, if nobody has written it before.
LEMMA SyncInodeKeeps ==
  ASSUME SuperInv, NEW i \in sync.todo, SyncInode(i)
  PROVE  SuperInv'
<1> DEFINE t == (sync.todo \ {i}) \cap idirty
<1>1. /\ sync.phase = "inodes" /\ Mounted /\ UNCHANGED <<sbi, inode, mkfs, history>>
      /\ sbi' = sbi /\ sync' = [sync EXCEPT !.todo = t]
      /\ sync \in SyncType /\ idirty \subseteq Inos
  BY SyncMounted DEF SyncInode, SuperInv, Syncing, Caches
<1>2. t \subseteq Inos /\ t \in SUBSET Nat
  BY <1>1, Sizes DEF Inos
<1>3. idirty \subseteq sync.todo => idirty \ {i} \subseteq t
  OBVIOUS
<1> HIDE DEF t
<1>4. /\ sync'.phase = sync.phase /\ sync'.at = sync.at /\ sync'.todo = t
      /\ sync'.wait = sync.wait /\ sync'.quiet = sync.quiet /\ sync'.umount = sync.umount
      /\ sync' \in SyncType
  BY <1>1, <1>2 DEF SyncType
<1>5. Syncing'
  BY <1>1, <1>2, <1>4 DEF Syncing, Mounted
<1>6. CASE i \in idirty
  <2>1. write_inode(i) /\ idirty' = idirty \ {i}
    BY <1>6 DEF SyncInode, write_inode
  <2>2. ASSUME ~ torn, sync.quiet PROVE Progress'
    <3>1. idirty' \subseteq sync'.todo
      BY <1>1, <1>3, <1>4, <2>1, <2>2 DEF SuperInv, Whole, Progress
    <3> QED
      BY <1>1, <1>4, <1>6, <2>1, <2>2, <3>1, InodeProgress
  <2> QED
    BY <1>1, <1>4, <1>5, <1>6, <2>1, <2>2, InodeStep
<1>7. CASE i \notin idirty
  <2>1. UNCHANGED <<device, cache, mkfs, history>> /\ idirty' = idirty /\ buf' = buf
    BY <1>1, <1>7 DEF SyncInode, cache, device
  <2>2. ~ torn => (sync.umount => sync.quiet)
    BY DEF SuperInv, Whole
  <2>3. ASSUME ~ torn, sync.quiet PROVE Progress'
    <3>1. Progress
      BY <2>3 DEF SuperInv, Whole
    <3>2. idirty' \subseteq sync'.todo
      BY <1>1, <1>3, <1>4, <1>7, <2>1, <3>1 DEF Progress
    <3>3. SavedSuper' /\ SavedIfree(NrIfree)' /\ SavedBfree(NrBfree)'
      BY <1>1, <2>1, <3>1 DEF Progress, SavedSuper, SavedIfree, SavedBfree
    <3>4. sync'.wait => idirty' = {}
      BY <1>1, <1>4, <2>1, <3>1 DEF Progress
    <3> QED
      BY <1>1, <1>4, <3>2, <3>3, <3>4 DEF Progress
  <2> QED
    BY <1>1, <1>4, <1>5, <2>1, <2>2, <2>3, SyncStep1
<1> QED
  BY <1>6, <1>7

\* The inode cache takes a file in, or lets a clean one go.
LEMMA CacheStep ==
  ASSUME SuperInv, Mounted, ~ torn, NEW i \in Inos, NEW v,
         inode' = [inode EXCEPT ![i] = v],
         UNCHANGED <<device, sbi, idirty, sync, mkfs, history>>,
         \/ i \in Entries /\ inode[i] = Out /\ v = Iget(buf, i)
         \/ i \notin idirty /\ v = Out
  PROVE  SuperInv'
<1>1. /\ Devices /\ Caches /\ Making /\ Whole /\ Clean /\ Sound(InMemory)
      /\ (synced # Nothing => Safe) /\ disk' = disk /\ buf' = buf /\ dirty' = dirty
      /\ sbi' = sbi /\ idirty' = idirty /\ sync' = sync /\ mkfs' = mkfs /\ torn' = torn
      /\ synced' = synced /\ Mounted'
  BY DEF SuperInv, history, device, Mounted, Whole
<1>2. v \in Record \cup {Out} /\ i \in Inos \cup {Root}
  BY <1>1, IgetRecord
<1>3. /\ inode' \in [Inos \cup {Root} -> Record \cup {Out}]
      /\ \A j \in Inos : inode'[j] = IF j = i THEN v ELSE inode[j]
  BY <1>1, <1>2 DEF Caches
<1>4. Caches'
  <2>1. \A j \in idirty : inode'[j] # Out
    <3> TAKE j \in idirty
    <3>1. j \in Inos /\ inode[j] # Out
      BY <1>1 DEF Caches
    <3> QED
      BY <1>3, <3>1
  <2> QED
    BY <1>1, <1>3, <2>1 DEF Caches
<1>5. Devices' /\ Syncing' /\ Making'
  BY <1>1 DEF SuperInv, Devices, Syncing, Making, Mounted
<1>6. Entries' = Entries /\ Entries \subseteq Inos /\ Out \notin Record
  BY <1>1, IgetRecord, ZeroSlots DEF Entries
<1>7. \A j \in Entries : (IF inode'[j] = Out THEN Iget(buf, j) ELSE inode'[j])
                           = (IF inode[j] = Out THEN Iget(buf, j) ELSE inode[j])
  <2> TAKE j \in Entries
  <2>1. CASE j # i
    BY <1>3, <1>6, <2>1
  <2>2. CASE j = i /\ v = Iget(buf, i) /\ inode[i] = Out
    BY <1>3, <1>6, <2>2
  <2>3. CASE j = i /\ i \notin idirty /\ v = Out
    BY <1>1, <1>3, <1>6, <2>3 DEF Clean
  <2> QED
    BY <2>1, <2>2, <2>3
<1>8. InMemory' = InMemory
  <2>1. [j \in Entries |-> IF inode[j] = Out THEN Iget(buf, j) ELSE inode[j]]'
          = [j \in Entries |-> IF inode[j] = Out THEN Iget(buf, j) ELSE inode[j]]
    BY <1>1, <1>6, <1>7
  <2> QED
    BY <1>1, <1>6, <2>1 DEF InMemory
<1>9. Clean'
  BY <1>1, <1>3, <1>6 DEF Clean
<1>10. Whole'
  <2>1. sync.quiet => Progress'
    BY <1>1 DEF Whole, Progress, SavedSuper, SavedIfree, SavedBfree
  <2> QED
    BY <1>1, <1>8, <1>9, <2>1 DEF Whole, Sound
<1>11. ASSUME synced # Nothing PROVE Safe'
  BY <1>1, <1>8, <1>11
     DEF Safe, Sound, Saved, SavedSuper, SavedIfree, SavedBfree
<1> QED
  BY <1>1, <1>4, <1>5, <1>10, <1>11 DEF SuperInv

\* Everything in memory is dropped.
LEMMA DropStep ==
  ASSUME SuperInv, buf' = disk', disk' = [b \in Blocks |-> disk'[b]],
         \A b \in Blocks : Holds(b, disk'[b]), dirty' = {}, sbi' = Nothing,
         inode' = [i \in Inos \cup {Root} |-> Out], idirty' = {}, sync' = Idle, mkfs' = -1,
         ~ torn' => synced' # Nothing,
         synced' # Nothing => ~ torn' /\ Saved(disk') = synced' /\ Sound(synced'),
         ~ torn' => \A b \in 0 .. RootBlock : disk'[b] # Blank
  PROVE  SuperInv'
<1>1. ~ Mounted'
  BY DEF Mounted, Nothing
<1>2. Devices'
  BY DEF Devices
<1>3. Caches'
  BY <1>1 DEF Caches
<1>4. Syncing'
  BY DEF Syncing, SyncType, Phases, Idle
<1>5. Making'
  BY ImageParts, Sizes DEF Making
<1>6. ~ torn' => Whole'
  BY <1>1 DEF Whole, Idle
<1>7. synced' # Nothing => Safe'
  BY <1>1 DEF Safe, Sound
<1> QED
  BY <1>2, <1>3, <1>4, <1>5, <1>6, <1>7 DEF SuperInv

\* A crash: what is left is whole if the device was.
LEMMA CrashKeeps ==
  ASSUME SuperInv, Crash
  PROVE  SuperInv'
<1>1. /\ buf' = disk /\ disk' = disk /\ dirty' = {} /\ sbi' = Nothing
      /\ inode' = [i \in Inos \cup {Root} |-> Out] /\ idirty' = {} /\ sync' = Idle /\ mkfs' = -1
      /\ torn' = (torn \/ synced = Nothing) /\ synced' = synced
  BY DEF Crash
<1>2. disk = [b \in Blocks |-> disk[b]] /\ \A b \in Blocks : Holds(b, disk[b])
  BY DEF SuperInv, Devices
<1>3. ~ torn' => synced' # Nothing
  BY <1>1
<1>4. synced' # Nothing => ~ torn' /\ Saved(disk') = synced' /\ Sound(synced')
  BY <1>1 DEF SuperInv, Safe
<1>5. ~ torn' => \A b \in 0 .. RootBlock : disk'[b] # Blank
  BY <1>1 DEF SuperInv, Whole
<1> QED
  BY <1>1, <1>2, <1>3, <1>4, <1>5, DropStep

\* A quiet unmount leaves the device whole.
LEMMA UnmountKeeps ==
  ASSUME SuperInv, Unmount
  PROVE  SuperInv'
<1>1. /\ disk' = [b \in Blocks |-> IF b \in dirty THEN buf[b] ELSE disk[b]]
      /\ buf' = disk' /\ dirty' = {} /\ sbi' = Nothing
      /\ inode' = [i \in Inos \cup {Root} |-> Out] /\ idirty' = {} /\ sync' = Idle
      /\ Settle /\ mkfs' = mkfs /\ torn' = torn
      /\ sync.phase = "blocks" /\ sync.todo = {} /\ sync.umount
  BY DEF Unmount
<1>2. Mounted /\ mkfs = -1 /\ Devices
  BY <1>1, SyncMounted DEF SuperInv
<1>3. disk' = [b \in Blocks |-> disk'[b]] /\ \A b \in Blocks : Holds(b, disk'[b]) /\ disk'[b] = buf[b]
  BY <1>1, <1>2 DEF Devices
<1>4. ~ torn => sync.quiet
  BY <1>1 DEF SuperInv, Whole
<1>5. ~ torn' => \A b \in 0 .. RootBlock : disk'[b] # Blank
  BY <1>1, <1>3, Sizes DEF SuperInv, Whole, Blocks
<1>6. CASE ~ torn
  <2>1. /\ dirty = {} /\ Saved(disk) = InMemory /\ Sound(InMemory)
    BY <1>1, <1>4, <1>6, QuietSaved
  <2>2. synced' = InMemory
    BY <1>1, <1>4, <1>6 DEF Settle
  <2>3. disk' = disk
    BY <1>1, <1>2, <2>1 DEF Devices
  <2>4. synced' # Nothing
    BY <2>2 DEF InMemory, Nothing
  <2> QED
    BY <1>1, <1>2, <1>3, <1>5, <1>6, <2>1, <2>2, <2>3, <2>4, DropStep
<1>7. CASE torn
  <2>1. synced' = Nothing
    BY <1>1, <1>7 DEF Settle, SuperInv, Safe
  <2> QED
    BY <1>1, <1>2, <1>3, <1>7, <2>1, DropStep
<1> QED
  BY <1>6, <1>7

\* A lookup reads an inode, and memory pressure drops a clean one.
LEMMA LookupKeeps ==
  ASSUME SuperInv, NEW i \in Inos, Lookup(i) \/ ReclaimInode(i)
  PROVE  SuperInv'
<1>1. Mounted /\ ~ torn
  BY DEF Lookup, ReclaimInode, Usable
<1>2. CASE Lookup(i)
  <2> DEFINE v == Iget(buf, i)
  <2>1. /\ inode' = [inode EXCEPT ![i] = v] /\ i \in Entries /\ inode[i] = Out
        /\ UNCHANGED <<device, sbi, idirty, sync, mkfs, history>>
    BY <1>2 DEF Lookup
  <2> QED
    BY <1>1, <2>1, CacheStep
<1>3. CASE ReclaimInode(i)
  <2>1. /\ inode' = [inode EXCEPT ![i] = Out] /\ i \notin idirty
        /\ UNCHANGED <<device, sbi, idirty, sync, mkfs, history>>
    BY <1>3 DEF ReclaimInode
  <2> QED
    BY <1>1, <2>1, CacheStep
<1> QED
  BY <1>2, <1>3

-----------------------------------------------------------------------------
(* mkfs and mount.                                                         *)

\* mkfs begins on a device that is not mounted.
LEMMA MkfsBeginKeeps ==
  ASSUME SuperInv, MkfsBegin
  PROVE  SuperInv'
<1>1. /\ ~ Mounted /\ mkfs' = 0 /\ torn' = TRUE /\ synced' = Nothing
      /\ disk' = disk /\ buf' = buf /\ dirty' = dirty /\ sbi' = sbi /\ inode' = inode
      /\ idirty' = idirty /\ sync' = sync
  BY DEF MkfsBegin, device, cache
<1>2. Devices' /\ Caches' /\ Syncing'
  BY <1>1 DEF SuperInv, Devices, Caches, Syncing, Mounted
<1>3. Making'
  BY <1>1, ImageParts, Sizes DEF Making, Mounted
<1> QED
  BY <1>1, <1>2, <1>3 DEF SuperInv

\* A write of mkfs fails.
LEMMA MkfsFailsKeeps ==
  ASSUME SuperInv, MkfsFails
  PROVE  SuperInv'
<1>1. /\ mkfs # -1 /\ mkfs' = -1 /\ torn' = torn /\ synced' = synced
      /\ disk' = disk /\ buf' = buf /\ dirty' = dirty /\ sbi' = sbi /\ inode' = inode
      /\ idirty' = idirty /\ sync' = sync
  BY DEF MkfsFails, device, cache, history
<1>2. ~ Mounted /\ torn /\ synced = Nothing
  BY <1>1 DEF SuperInv, Making, Safe
<1>3. Devices' /\ Caches' /\ Syncing'
  BY <1>1 DEF SuperInv, Devices, Caches, Syncing, Mounted
<1>4. Making'
  BY <1>1, ImageParts, Sizes DEF Making
<1> QED
  BY <1>1, <1>2, <1>3, <1>4 DEF SuperInv

\* mkfs writes a block; with the last the partition is sound.
LEMMA MkfsWriteKeeps ==
  ASSUME SuperInv, MkfsWrite
  PROVE  SuperInv'
<1> DEFINE c == Image[mkfs + 1]
<1>1. /\ mkfs \in DOMAIN Image \cup {0} /\ mkfs < Len(Image)
      /\ disk' = [disk EXCEPT ![mkfs] = c] /\ buf' = disk'
      /\ mkfs' = (IF mkfs + 1 = Len(Image) THEN -1 ELSE mkfs + 1)
      /\ torn' = (mkfs' # -1) /\ synced' = (IF mkfs' = -1 THEN Saved(disk') ELSE Nothing)
      /\ dirty' = dirty /\ sbi' = sbi /\ inode' = inode /\ idirty' = idirty /\ sync' = sync
  BY DEF MkfsWrite, cache
<1>2. /\ mkfs \in -1 .. Len(Image) - 1 /\ (mkfs # -1 => ~ Mounted /\ torn)
      /\ \A b \in 0 .. mkfs - 1 : disk[b] = Image[b + 1]
      /\ Devices /\ Caches /\ Syncing
  BY DEF SuperInv, Making
<1>3. Len(Image) = RootBlock + 1 /\ RootBlock \in Nat /\ 0 .. RootBlock \subseteq Blocks
  BY ImageParts, Sizes DEF Blocks
<1>4. mkfs # -1
  <2>1. DOMAIN Image = 1 .. RootBlock + 1
    BY ImageParts
  <2> QED
    BY <1>1, <2>1
<1>5. mkfs \in 0 .. RootBlock /\ mkfs \in Blocks
  BY <1>2, <1>3, <1>4
<1>6. Holds(mkfs, c) /\ c # Blank
  BY <1>5, ImageHolds
<1> HIDE DEF c
<1>7. /\ disk' = [b \in Blocks |-> disk'[b]]
      /\ \A b \in Blocks : disk'[b] = IF b = mkfs THEN c ELSE disk[b]
  BY <1>1, <1>2, <1>5 DEF Devices
<1>8. \A b \in Blocks : Holds(b, disk'[b])
  BY <1>2, <1>6, <1>7 DEF Devices
<1>9. /\ sbi' = Nothing /\ inode' = [i \in Inos \cup {Root} |-> Out] /\ idirty' = {}
      /\ dirty' = {} /\ sync' = Idle
  BY <1>1, <1>2, <1>4 DEF Caches, Syncing, Mounted, Nothing
<1>10. \A b \in 0 .. mkfs : disk'[b] = Image[b + 1]
  <2> TAKE b \in 0 .. mkfs
  <2>1. b \in Blocks /\ (b = mkfs \/ b \in 0 .. mkfs - 1)
    BY <1>3, <1>5
  <2> QED
    BY <1>2, <1>7, <2>1 DEF c
<1>11. CASE mkfs + 1 = Len(Image)
  <2>0. mkfs = RootBlock /\ mkfs' = -1
    BY <1>1, <1>3, <1>5, <1>11
  <2>1. mkfs = RootBlock /\ mkfs' = -1 /\ torn' = FALSE /\ synced' = Saved(disk')
    BY <1>1, <2>0, Zenon
  <2>2. \A b \in 0 .. RootBlock : disk'[b] = Image[b + 1] /\ disk'[b] # Blank
    BY <1>10, <2>1, ImageHolds
  <2>3. Sound(Saved(disk'))
    BY <2>2, ImageSound
  <2>4. synced' # Nothing
    BY <2>1 DEF Saved, Nothing
  <2> QED
    BY <1>1, <1>7, <1>8, <1>9, <2>1, <2>2, <2>3, <2>4, DropStep
<1>12. CASE mkfs + 1 # Len(Image)
  <2>0. mkfs' = mkfs + 1
    BY <1>1, <1>12
  <2>9. mkfs' # -1
    BY <1>3, <1>5, <2>0
  <2>1. mkfs' = mkfs + 1 /\ mkfs' # -1 /\ torn' = TRUE /\ synced' = Nothing
    BY <1>1, <2>0, <2>9, Zenon
  <2>2. ~ Mounted'
    BY <1>9 DEF Mounted, Nothing
  <2>3. Devices'
    BY <1>1, <1>7, <1>8, <1>9 DEF Devices
  <2>4. Caches' /\ Syncing'
    BY <1>9, <2>2 DEF Caches, Syncing, SyncType, Phases, Idle
  <2>5. Making'
    <3>1. mkfs' \in -1 .. Len(Image) - 1
      BY <1>2, <1>3, <1>5, <1>12, <2>1
    <3>2. \A b \in 0 .. mkfs' - 1 : disk'[b] = Image[b + 1]
      BY <1>5, <1>10, <2>1
    <3> QED
      BY <2>1, <2>2, <3>1, <3>2 DEF Making
  <2> QED
    BY <2>1, <2>3, <2>4, <2>5 DEF SuperInv
<1> QED
  BY <1>11, <1>12

\* After a mount memory holds what the device does; no file is in the cache.
LEMMA MountKeeps ==
  ASSUME SuperInv, Mount
  PROVE  SuperInv'
<1> DEFINE r == Iget(buf, Root)
<1>1. /\ ~ Mounted /\ mkfs = -1 /\ buf[0].kind = "super" /\ sbi' = FillSuper(buf)
      /\ inode' = [inode EXCEPT ![Root] = r]
      /\ disk' = disk /\ buf' = buf /\ dirty' = dirty /\ idirty' = idirty /\ sync' = sync
      /\ mkfs' = mkfs /\ torn' = torn /\ synced' = synced
  BY DEF Mount, device, history
<1>2. /\ Devices /\ Caches /\ Syncing /\ Making /\ (~ torn => Whole) /\ (synced # Nothing => Safe)
  BY DEF SuperInv
<1>3. /\ dirty = {} /\ idirty = {} /\ inode = [i \in Inos \cup {Root} |-> Out] /\ sync = Idle
  BY <1>1, <1>2 DEF Caches, Syncing
<1>4. buf = disk
  BY <1>2, <1>3 DEF Devices
<1>5. sbi' \in SuperType /\ r \in Record /\ Entries \subseteq Inos /\ Entries' = Entries
  BY <1>1, <1>2, FillTyped, IgetRecord DEF Entries
<1> HIDE DEF r
<1>6. Mounted'
  BY <1>1 DEF Mounted, FillSuper
<1>7. /\ inode' \in [Inos \cup {Root} -> Record \cup {Out}]
      /\ \A i \in Inos : inode'[i] = Out
  BY <1>1, <1>3, <1>5 DEF Inos, Root
<1>8. Devices' /\ Syncing' /\ Making' /\ Caches'
  BY <1>1, <1>2, <1>3, <1>5, <1>6, <1>7 DEF Devices, Syncing, Making, Caches, Idle
<1>9. InMemory' = Saved(disk)
  <2>1. [i \in Entries |-> IF inode[i] = Out THEN Iget(buf, i) ELSE inode[i]]'
          = [i \in Listed(disk[RootBlock]) |-> Iget(disk, i)]
    BY <1>1, <1>4, <1>5, <1>7 DEF Entries
  <2> QED
    BY <1>1, <1>4, <1>5, <2>1 DEF InMemory, Saved, Entries
<1>10. ASSUME ~ torn PROVE Whole' /\ Safe'
  <2>1. Whole /\ Safe /\ Saved(disk) = synced /\ Sound(synced) /\ synced # Nothing
    BY <1>1, <1>2, <1>10 DEF Whole, Safe
  <2>2. \A b \in 0 .. RootBlock : disk[b] # Blank /\ buf[b] # Blank
    BY <2>1 DEF Whole
  <2>3. SavedSuper' /\ SavedIfree(NrIfree)' /\ SavedBfree(NrBfree)'
    <3>1. /\ buf[0] = Super(sbi'.inodes, sbi'.blocks)
          /\ \A j \in 0 .. NrIfree - 1 : buf[IfreeBlock(j)] = Bits(Part(sbi'.ifree, j))
          /\ \A j \in 0 .. NrBfree - 1 : buf[BfreeBlock(j)] = Bits(Part(sbi'.bfree, j))
      BY <1>1, <1>2, <2>2, FillSaves
    <3> QED
      BY <1>1, <3>1 DEF SavedSuper, SavedIfree, SavedBfree
  <2>4. Sound(InMemory') /\ InMemory' = synced'
    BY <1>1, <1>9, <2>1
  <2>5. Sound(InMemory)' /\ Sound(synced)'
    BY <1>1, <2>1, <2>4 DEF Sound
  <2>6. Clean'
    BY <1>5, <1>7 DEF Clean
  <2>7. Whole'
    BY <1>1, <1>3, <1>6, <2>2, <2>5, <2>6 DEF Whole, Idle
  <2>8. Safe'
    BY <1>1, <1>3, <1>6, <1>10, <2>1, <2>3, <2>4, <2>5 DEF Safe, Saved
  <2> QED
    BY <2>7, <2>8
<1>11. synced # Nothing => ~ torn
  BY <1>2 DEF Safe
<1> QED
  BY <1>1, <1>8, <1>10, <1>11 DEF SuperInv

-----------------------------------------------------------------------------
(* create and unlink.                                                      *)

\* The free numbers below the size of a bitmap are finitely many.
LEMMA FreeFinite ==
  ASSUME NEW S \in SUBSET Nat, NEW n \in Nat, NEW x, x \in Nat, x < n
  PROVE  /\ IsFiniteSet({m \in S : m < n})
         /\ Cardinality({m \in S : m < n}) \in Nat
         /\ x \in S => Cardinality({m \in S \ {x} : m < n}) = Cardinality({m \in S : m < n}) - 1
         /\ x \notin S => Cardinality({m \in S \cup {x} : m < n}) = Cardinality({m \in S : m < n}) + 1
<1> DEFINE F == {m \in S : m < n}
           a == 0
           b == n - 1
<1>1. a \in Int /\ b \in Int
  OBVIOUS
<1>2. F \subseteq a .. b
  <2>1. \A m \in F : m \in Nat /\ m < n
    OBVIOUS
  <2> HIDE DEF F
  <2>2. \A m \in F : m \in 0 .. n - 1
    BY <2>1
  <2> QED
    BY <2>2
<1>3. {m \in S \ {x} : m < n} = F \ {x} /\ {m \in S \cup {x} : m < n} = F \cup {x}
  OBVIOUS
<1>4. x \in F <=> x \in S
  OBVIOUS
<1> HIDE DEF a, b, F
<1>5. IsFiniteSet(a .. b)
  BY <1>1, FS_Interval
<1>6. IsFiniteSet(F)
  BY <1>2, <1>5, FS_Subset
<1>7. Cardinality(F) \in Nat
  BY <1>6, FS_CardinalityType
<1>8. x \in F => Cardinality(F \ {x}) = Cardinality(F) - 1
  BY <1>6, FS_RemoveElement
<1>9. x \notin F => Cardinality(F \cup {x}) = Cardinality(F) + 1
  BY <1>6, FS_AddElement
<1> QED
  BY <1>3, <1>4, <1>6, <1>7, <1>8, <1>9 DEF F

\* A view with one file more, whose inode and index block were free.
LEMMA SoundMore ==
  ASSUME NEW v, NEW w, Sound(v), v.super \in SuperType,
         NEW i \in v.super.ifree, i < NrInodes, NEW b \in v.super.bfree, b < NrBlocks,
         w.super = [inodes |-> v.super.inodes - 1, blocks |-> v.super.blocks - 1,
                    ifree |-> v.super.ifree \ {i}, bfree |-> v.super.bfree \ {b}],
         w.entries = v.entries \cup {i},
         \A j \in v.entries : w.inodes[j] = v.inodes[j],
         w.inodes[i] = [nlink |-> 1, index |-> b]
  PROVE  Sound(w)
<1> DEFINE F == v.super.ifree
           G == v.super.bfree
<1>1. /\ F \subseteq Nat /\ G \subseteq Nat /\ v.super.inodes \in Int /\ v.super.blocks \in Int
      /\ w.super.inodes = v.super.inodes - 1 /\ w.super.blocks = v.super.blocks - 1
      /\ w.super.ifree = F \ {i} /\ w.super.bfree = G \ {b}
  BY DEF SuperType
<1>2. /\ \A n \in F : n \in Nat /\ n > Root /\ n \div BitsPerBlock < NrIfree
      /\ \A n \in G : n \in Nat /\ n > RootBlock /\ n \div BitsPerBlock < NrBfree
      /\ v.super.blocks = Cardinality({n \in G : n < NrBlocks})
      /\ v.super.inodes = Cardinality({n \in F : n < NrInodes}) + 1
      /\ v.entries \subseteq Inos \ F
      /\ \A j \in v.entries : /\ v.inodes[j] \in Record
                              /\ v.inodes[j].index > RootBlock
                              /\ v.inodes[j].index \notin G
      /\ \A j, k \in v.entries : v.inodes[j].index = v.inodes[k].index => j = k
  BY DEF Sound
<1> HIDE DEF F, G
<1>3. i \in F /\ b \in G /\ i \in Nat /\ b \in Nat /\ i \in Inos /\ b \in Blocks
  BY <1>1, <1>2, Sizes DEF F, G, Inos, Blocks, Root
<1>0. F \in SUBSET Nat /\ G \in SUBSET Nat /\ NrInodes \in Nat /\ NrBlocks \in Nat
  BY <1>1, Sizes
<1>4. Cardinality({n \in F \ {i} : n < NrInodes}) = Cardinality({n \in F : n < NrInodes}) - 1
  BY <1>0, <1>3, FreeFinite, Zenon
<1>5. Cardinality({n \in G \ {b} : n < NrBlocks}) = Cardinality({n \in G : n < NrBlocks}) - 1
  BY <1>0, <1>3, FreeFinite, Zenon
<1>6. Cardinality({n \in F : n < NrInodes}) \in Nat /\ Cardinality({n \in G : n < NrBlocks}) \in Nat
  BY <1>0, <1>3, FreeFinite, Zenon
<1>7. w.super.blocks = Cardinality({n \in w.super.bfree : n < NrBlocks})
  BY <1>1, <1>2, <1>5
<1>8. w.super.inodes = Cardinality({n \in w.super.ifree : n < NrInodes}) + 1
  <2> DEFINE c == Cardinality({n \in F : n < NrInodes})
             d == Cardinality({n \in F \ {i} : n < NrInodes})
  <2>1. /\ v.super.inodes = c + 1 /\ w.super.inodes = v.super.inodes - 1
        /\ d = c - 1 /\ c \in Nat /\ v.super.inodes \in Int
    BY <1>1, <1>2, <1>4, <1>6
  <2>2. Cardinality({n \in w.super.ifree : n < NrInodes}) = d
    BY <1>1
  <2> HIDE DEF c, d
  <2> QED
    BY <2>1, <2>2
<1>9. [nlink |-> 1, index |-> b] \in Record
  BY <1>3 DEF Record
<1>10. \A j \in w.entries : /\ w.inodes[j] \in Record
                            /\ w.inodes[j].index > RootBlock
                            /\ w.inodes[j].index \notin w.super.bfree
                            /\ j # i => w.inodes[j].index # b
  BY <1>1, <1>2, <1>3, <1>9
<1>11. \A j, k \in w.entries : w.inodes[j].index = w.inodes[k].index => j = k
  BY <1>2, <1>10
<1>12. w.entries \subseteq Inos \ w.super.ifree
  BY <1>1, <1>2, <1>3
<1> QED
  BY <1>1, <1>2, <1>7, <1>8, <1>10, <1>11, <1>12 DEF Sound

\* A view with one file less, whose inode and index block are free again.
LEMMA SoundLess ==
  ASSUME NEW v, NEW w, Sound(v), v.super \in SuperType, NEW i \in v.entries,
         NEW b, b = v.inodes[i].index,
         w.super = [inodes |-> v.super.inodes + 1, blocks |-> v.super.blocks + 1,
                    ifree |-> v.super.ifree \cup {i}, bfree |-> v.super.bfree \cup {b}],
         w.entries = v.entries \ {i},
         \A j \in w.entries : w.inodes[j] = v.inodes[j]
  PROVE  Sound(w)
<1> DEFINE F == v.super.ifree
           G == v.super.bfree
<1>1. /\ F \subseteq Nat /\ G \subseteq Nat /\ v.super.inodes \in Int /\ v.super.blocks \in Int
      /\ w.super.inodes = v.super.inodes + 1 /\ w.super.blocks = v.super.blocks + 1
      /\ w.super.ifree = F \cup {i} /\ w.super.bfree = G \cup {b}
  BY DEF SuperType
<1>2. /\ \A n \in F : n \in Nat /\ n > Root /\ n \div BitsPerBlock < NrIfree
      /\ \A n \in G : n \in Nat /\ n > RootBlock /\ n \div BitsPerBlock < NrBfree
      /\ v.super.blocks = Cardinality({n \in G : n < NrBlocks})
      /\ v.super.inodes = Cardinality({n \in F : n < NrInodes}) + 1
      /\ v.entries \subseteq Inos \ F
      /\ \A j \in v.entries : /\ v.inodes[j] \in Record
                              /\ v.inodes[j].index > RootBlock
                              /\ v.inodes[j].index \notin G
      /\ \A j, k \in v.entries : v.inodes[j].index = v.inodes[k].index => j = k
  BY DEF Sound
<1> HIDE DEF F, G
<1>3. i \in Inos /\ i \notin F /\ b \in Blocks /\ b > RootBlock /\ b \notin G
  BY <1>2 DEF Record
<1>4. /\ i \in 0 .. NrInodes - 1 /\ i \in Nat /\ i < NrInodes /\ i > Root
      /\ b \in 0 .. NrBlocks - 1 /\ b \in Nat /\ b < NrBlocks
  BY <1>3, Sizes DEF Inos, Blocks, Root
<1>0. F \in SUBSET Nat /\ G \in SUBSET Nat /\ NrInodes \in Nat /\ NrBlocks \in Nat
  BY <1>1, Sizes
<1>5. Cardinality({n \in F \cup {i} : n < NrInodes}) = Cardinality({n \in F : n < NrInodes}) + 1
  BY <1>0, <1>3, <1>4, FreeFinite, Zenon
<1>6. Cardinality({n \in G \cup {b} : n < NrBlocks}) = Cardinality({n \in G : n < NrBlocks}) + 1
  BY <1>0, <1>3, <1>4, FreeFinite, Zenon
<1>7. w.super.blocks = Cardinality({n \in w.super.bfree : n < NrBlocks})
  BY <1>1, <1>2, <1>6
<1>8. w.super.inodes = Cardinality({n \in w.super.ifree : n < NrInodes}) + 1
  BY <1>1, <1>2, <1>5
<1>9. \A n \in w.super.ifree : n \in Nat /\ n > Root /\ n \div BitsPerBlock < NrIfree
  BY <1>1, <1>2, <1>4, BitPlaces
<1>10. \A n \in w.super.bfree : n \in Nat /\ n > RootBlock /\ n \div BitsPerBlock < NrBfree
  BY <1>1, <1>2, <1>3, <1>4, BitPlaces
<1>11. \A j \in w.entries : /\ w.inodes[j] \in Record
                            /\ w.inodes[j].index > RootBlock
                            /\ w.inodes[j].index \notin w.super.bfree
  BY <1>1, <1>2
<1>12. \A j, k \in w.entries : w.inodes[j].index = w.inodes[k].index => j = k
  BY <1>2
<1>13. w.entries \subseteq Inos \ w.super.ifree
  BY <1>1, <1>2
<1> QED
  BY <1>7, <1>8, <1>9, <1>10, <1>11, <1>12, <1>13 DEF Sound

\* The buffers after a call that has changed the directory and an index block.
LEMMA TreeBuffers ==
  ASSUME Devices, NEW b \in RootBlock + 1 .. NrBlocks - 1, NEW e \in SUBSET Inos,
         buf' = [x \in Blocks |-> IF x = b THEN EmptyIndex
                                  ELSE IF x = RootBlock THEN Dir(e) ELSE buf[x]],
         disk' = disk, dirty' = Marked({b, RootBlock})
  PROVE  /\ Devices' /\ Entries' = e
         /\ \A i \in Inos \cup {Root} : Iget(buf', i) = Iget(buf, i)
         /\ (\A x \in 0 .. RootBlock : buf[x] # Blank) =>
              \A x \in 0 .. RootBlock : buf'[x] # Blank
<1>1. /\ disk = [x \in Blocks |-> disk[x]]
      /\ \A x \in Blocks : Holds(x, disk[x]) /\ Holds(x, buf[x])
      /\ dirty \subseteq Blocks
      /\ \A x \in Blocks \ dirty : buf[x] = disk[x]
  BY DEF Devices
<1>2. b \in Blocks /\ b > RootBlock /\ b # RootBlock /\ RootBlock \in Blocks
  BY Sizes, Regions DEF Blocks
<1>3. /\ buf' = [x \in Blocks |-> buf'[x]]
      /\ \A x \in Blocks : buf'[x] = IF x = b THEN EmptyIndex
                                     ELSE IF x = RootBlock THEN Dir(e) ELSE buf[x]
  OBVIOUS
<1>4. \A x \in Blocks : Holds(x, buf'[x])
  <2>1. Holds(b, EmptyIndex) /\ Holds(RootBlock, Dir(e))
    BY DEF Holds
  <2> QED
    BY <1>1, <1>3, <2>1
<1>5. dirty' = {x \in dirty \cup {b, RootBlock} : buf'[x] # disk'[x]}
  BY DEF Marked
<1>6. dirty' \subseteq Blocks /\ \A x \in Blocks \ dirty' : buf'[x] = disk'[x]
  BY <1>1, <1>2, <1>3, <1>5
<1>7. Devices'
  BY <1>1, <1>3, <1>4, <1>6 DEF Devices
<1>8. Entries' = e
  BY <1>2, <1>3 DEF Entries, Listed, Dir
<1>9. \A i \in Inos \cup {Root} : Iget(buf', i) = Iget(buf, i)
  <2> TAKE i \in Inos \cup {Root}
  <2>1. InodeBlock(i) \in 1 .. NrIstore
    BY InodePlaces
  <2>2. InodeBlock(i) \in Blocks /\ InodeBlock(i) # b /\ InodeBlock(i) # RootBlock
    BY <1>2, <2>1, Regions, Sizes
  <2> QED
    BY <1>3, <2>2 DEF Iget
<1>10. ASSUME \A x \in 0 .. RootBlock : buf[x] # Blank
       PROVE  \A x \in 0 .. RootBlock : buf'[x] # Blank
  <2>1. \A x \in 0 .. RootBlock : x \in Blocks /\ x # b
    BY <1>2, Sizes DEF Blocks
  <2>2. Dir(e) # Blank
    BY DEF Dir, Blank
  <2> QED
    BY <1>3, <1>10, <2>1, <2>2
<1> QED
  BY <1>7, <1>8, <1>9, <1>10

\* What is left to show of such a call.
LEMMA TreeStep ==
  ASSUME SuperInv, Calls, Changed, NEW b \in RootBlock + 1 .. NrBlocks - 1, NEW e \in SUBSET Inos,
         buf' = [x \in Blocks |-> IF x = b THEN EmptyIndex
                                  ELSE IF x = RootBlock THEN Dir(e) ELSE buf[x]],
         dirty' = Marked({b, RootBlock}), sbi' \in SuperType,
         inode' \in [Inos \cup {Root} -> Record \cup {Out}], idirty' \subseteq Inos,
         \A j \in idirty' : inode'[j] # Out,
         Sound(InMemory'), Clean'
  PROVE  SuperInv'
<1>1. /\ Mounted /\ ~ torn /\ ~ sync.umount /\ sync' = [sync EXCEPT !.quiet = FALSE]
      /\ synced' = Nothing /\ disk' = disk /\ mkfs' = mkfs /\ torn' = torn
  BY DEF Calls, Usable, Changed
<1>2. Devices /\ Caches /\ Syncing /\ Making /\ Whole /\ sync \in SyncType
  BY <1>1 DEF SuperInv, Syncing
<1>3. /\ Devices' /\ Entries' = e
      /\ (\A x \in 0 .. RootBlock : buf[x] # Blank) => \A x \in 0 .. RootBlock : buf'[x] # Blank
  BY <1>1, <1>2, TreeBuffers
<1>4. Mounted'
  BY DEF Mounted, SuperType
<1>5. Caches'
  BY <1>4 DEF Caches
<1>6. /\ sync'.phase = sync.phase /\ sync'.todo = sync.todo /\ sync'.at = sync.at
      /\ sync'.quiet = FALSE /\ sync'.umount = FALSE /\ sync' \in SyncType
  BY <1>1, <1>2 DEF SyncType
<1>7. sync.phase = "idle" => sync' = Idle
  BY <1>1, <1>2, IdleQuiet DEF Syncing
<1>8. Syncing'
  BY <1>2, <1>4, <1>6, <1>7 DEF Syncing
<1>9. Making'
  BY <1>1, <1>2 DEF Making
<1>10. Whole'
  <2>1. Sound(InMemory)'
    BY DEF Sound
  <2> QED
    BY <1>1, <1>2, <1>3, <1>4, <1>6, <2>1 DEF Whole
<1> QED
  BY <1>1, <1>3, <1>5, <1>8, <1>9, <1>10 DEF SuperInv

\* create takes the least free inode and block, both of nobody.
LEMMA CreateKeeps ==
  ASSUME SuperInv, Create
  PROVE  SuperInv'
<1> DEFINE i == Min(FreeInos)
           b == Min(FreeBlocks)
           e == Entries \cup {i}
           r == [nlink |-> 1, index |-> b]
<1>1. /\ Calls /\ Changed /\ FreeInos # {} /\ FreeBlocks # {}
      /\ sbi' = [inodes |-> sbi.inodes - 1, blocks |-> sbi.blocks - 1,
                 ifree |-> sbi.ifree \ {i}, bfree |-> sbi.bfree \ {b}]
      /\ inode' = [inode EXCEPT ![i] = r]
      /\ idirty' = idirty \cup {i}
      /\ buf' = [buf EXCEPT ![b] = EmptyIndex, ![RootBlock] = Dir(e)]
      /\ dirty' = Marked({b, RootBlock}) /\ disk' = disk
  BY DEF Create, Changed
<1>2. /\ Mounted /\ ~ torn /\ Devices /\ Caches /\ Whole /\ sbi \in SuperType
      /\ Sound(InMemory) /\ Clean
  BY <1>1 DEF Calls, Usable, SuperInv, Caches, Whole
<1>3. i \in FreeInos /\ b \in FreeBlocks
  <2>1. FreeInos \in SUBSET Nat /\ FreeBlocks \in SUBSET Nat
    BY <1>2 DEF FreeInos, FreeBlocks, SuperType
  <2> QED
    BY <1>1, <2>1, LeastOf
<1> HIDE DEF i, b
<1>4. /\ i \in sbi.ifree /\ i < NrInodes /\ i \in Nat
      /\ b \in sbi.bfree /\ b < NrBlocks /\ b \in Nat
  BY <1>2, <1>3 DEF FreeInos, FreeBlocks, SuperType
<1>5. i > Root /\ b > RootBlock /\ i \notin Entries /\ Entries \subseteq Inos
  BY <1>2, <1>4 DEF Sound, InMemory
<1>6. i \in Inos /\ b \in RootBlock + 1 .. NrBlocks - 1 /\ b \in Blocks /\ RootBlock \in Blocks
      /\ b # RootBlock
  BY <1>4, <1>5, Sizes DEF Inos, Blocks, Root
<1>7. e \in SUBSET Inos
  BY <1>5, <1>6
<1> HIDE DEF e
<1>8. buf' = [x \in Blocks |-> IF x = b THEN EmptyIndex
                               ELSE IF x = RootBlock THEN Dir(e) ELSE buf[x]]
  <2>1. buf = [x \in Blocks |-> buf[x]]
    BY <1>2 DEF Devices
  <2> QED
    BY <1>1, <1>6, <2>1
<1>9. /\ Entries' = e
      /\ \A j \in Inos \cup {Root} : Iget(buf', j) = Iget(buf, j)
  BY <1>1, <1>2, <1>6, <1>7, <1>8, TreeBuffers
<1>10. r \in Record /\ Out \notin Record
  BY <1>6, ZeroSlots DEF Record
<1>11. r.index = b /\ r.nlink = 1
  OBVIOUS
<1>12. /\ inode' \in [Inos \cup {Root} -> Record \cup {Out}]
       /\ \A j \in Inos : inode'[j] = IF j = i THEN r ELSE inode[j]
  BY <1>1, <1>2, <1>6, <1>10 DEF Caches
<1>13. /\ idirty' \subseteq Inos
       /\ \A j \in idirty' : inode'[j] # Out
  BY <1>1, <1>2, <1>6, <1>10, <1>12 DEF Caches
<1>14. sbi' \in SuperType
  <2>1. sbi.inodes - 1 \in Int /\ sbi.blocks - 1 \in Int
        /\ sbi.ifree \ {i} \in SUBSET Nat /\ sbi.bfree \ {b} \in SUBSET Nat
    BY <1>2 DEF SuperType
  <2> QED
    BY <1>1, <2>1 DEF SuperType
<1> DEFINE v == InMemory
           w == InMemory'
<1>15. /\ v.super = sbi /\ v.entries = Entries
       /\ \A j \in Entries : v.inodes[j] = IF inode[j] = Out THEN Iget(buf, j) ELSE inode[j]
  BY DEF InMemory
<1>16. /\ w.super = sbi' /\ w.entries = e
       /\ \A j \in e : w.inodes[j] = IF inode'[j] = Out THEN Iget(buf', j) ELSE inode'[j]
  BY <1>9 DEF InMemory
<1>17. \A j \in Entries : w.inodes[j] = v.inodes[j]
  BY <1>5, <1>9, <1>12, <1>15, <1>16 DEF e
<1>18. w.inodes[i] = r
  BY <1>6, <1>10, <1>12, <1>16 DEF e
<1> HIDE DEF v, w
<1>19. Sound(w)
  <2>1. Sound(v) /\ v.super \in SuperType /\ i \in v.super.ifree /\ b \in v.super.bfree
    BY <1>2, <1>4, <1>15 DEF v
  <2>2. w.super = [inodes |-> v.super.inodes - 1, blocks |-> v.super.blocks - 1,
                   ifree |-> v.super.ifree \ {i}, bfree |-> v.super.bfree \ {b}]
    BY <1>1, <1>15, <1>16
  <2>3. w.entries = v.entries \cup {i} /\ \A j \in v.entries : w.inodes[j] = v.inodes[j]
    BY <1>15, <1>16, <1>17 DEF e
  <2> QED
    BY <1>4, <1>18, <2>1, <2>2, <2>3, SoundMore
<1>20. Clean'
  <2>1. \A j \in Inos : inode'[j] # Out => j \in Entries'
    BY <1>2, <1>9, <1>12 DEF Clean, e
  <2>2. \A j \in Entries' \ idirty' : inode'[j] # Out => inode'[j] = Iget(buf', j)
    BY <1>1, <1>2, <1>5, <1>9, <1>12 DEF Clean, e
  <2> QED
    BY <2>1, <2>2 DEF Clean
<1> QED
  BY <1>1, <1>6, <1>7, <1>8, <1>12, <1>13, <1>14, <1>19, <1>20, TreeStep DEF w

\* unlink gives back the inode and the index block of one file.
LEMMA UnlinkKeeps ==
  ASSUME SuperInv, NEW i \in Inos, Unlink(i)
  PROVE  SuperInv'
<1> DEFINE b == inode[i].index
           e == Entries \ {i}
<1>1. /\ Calls /\ Changed /\ i \in Entries /\ inode[i] # Out
      /\ sbi' = [inodes |-> sbi.inodes + 1, blocks |-> sbi.blocks + 1,
                 ifree |-> sbi.ifree \cup {i}, bfree |-> sbi.bfree \cup {b}]
      /\ inode' = [inode EXCEPT ![i] = Out]
      /\ idirty' = idirty \ {i}
      /\ buf' = [buf EXCEPT ![RootBlock] = Dir(e), ![b] = EmptyIndex]
      /\ dirty' = Marked({b, RootBlock}) /\ disk' = disk
  BY DEF Unlink, Changed
<1>2. /\ Mounted /\ ~ torn /\ Devices /\ Caches /\ Whole /\ sbi \in SuperType
      /\ Sound(InMemory) /\ Clean
  BY <1>1 DEF Calls, Usable, SuperInv, Caches, Whole
<1> DEFINE v == InMemory
           w == InMemory'
<1>3. /\ v.super = sbi /\ v.entries = Entries
      /\ \A j \in Entries : v.inodes[j] = IF inode[j] = Out THEN Iget(buf, j) ELSE inode[j]
  BY DEF InMemory
<1>4. b = v.inodes[i].index /\ b > RootBlock /\ b \in Blocks /\ Entries \subseteq Inos
  <2>1. /\ v.inodes[i] = inode[i] /\ v.inodes[i] \in Record
        /\ v.inodes[i].index > RootBlock /\ Entries \subseteq Inos
    BY <1>1, <1>2, <1>3 DEF Sound
  <2> QED
    BY <2>1 DEF Record
<1> HIDE DEF b
<1>5. b \in RootBlock + 1 .. NrBlocks - 1 /\ RootBlock \in Blocks /\ b # RootBlock /\ b \in Nat
  BY <1>4, Sizes DEF Blocks
<1>6. e \in SUBSET Inos
  BY <1>4
<1> HIDE DEF e
<1>7. buf' = [x \in Blocks |-> IF x = b THEN EmptyIndex
                               ELSE IF x = RootBlock THEN Dir(e) ELSE buf[x]]
  <2>1. buf = [x \in Blocks |-> buf[x]]
    BY <1>2 DEF Devices
  <2> QED
    BY <1>1, <1>4, <1>5, <2>1
<1>8. /\ Entries' = e
      /\ \A j \in Inos \cup {Root} : Iget(buf', j) = Iget(buf, j)
  BY <1>1, <1>2, <1>5, <1>6, <1>7, TreeBuffers
<1>9. /\ inode' \in [Inos \cup {Root} -> Record \cup {Out}]
      /\ \A j \in Inos : inode'[j] = IF j = i THEN Out ELSE inode[j]
  BY <1>1, <1>2 DEF Caches
<1>10. idirty' \subseteq Inos /\ \A j \in idirty' : inode'[j] # Out
  BY <1>1, <1>2, <1>9 DEF Caches
<1>11. sbi' \in SuperType
  <2>1. sbi.inodes + 1 \in Int /\ sbi.blocks + 1 \in Int
        /\ sbi.ifree \cup {i} \in SUBSET Nat /\ sbi.bfree \cup {b} \in SUBSET Nat
    BY <1>2, <1>5, Sizes DEF SuperType, Inos
  <2> QED
    BY <1>1, <2>1 DEF SuperType
<1>12. /\ w.super = sbi' /\ w.entries = e
       /\ \A j \in e : w.inodes[j] = IF inode'[j] = Out THEN Iget(buf', j) ELSE inode'[j]
  BY <1>8 DEF InMemory
<1>13. \A j \in e : w.inodes[j] = v.inodes[j]
  BY <1>3, <1>4, <1>8, <1>9, <1>12 DEF e
<1> HIDE DEF v, w
<1>14. Sound(w)
  <2>1. Sound(v) /\ v.super \in SuperType /\ i \in v.entries
    BY <1>1, <1>2, <1>3 DEF v
  <2>2. w.super = [inodes |-> v.super.inodes + 1, blocks |-> v.super.blocks + 1,
                   ifree |-> v.super.ifree \cup {i}, bfree |-> v.super.bfree \cup {b}]
    BY <1>1, <1>3, <1>12
  <2>3. w.entries = v.entries \ {i} /\ \A j \in w.entries : w.inodes[j] = v.inodes[j]
    BY <1>3, <1>12, <1>13 DEF e
  <2> QED
    BY <1>4, <2>1, <2>2, <2>3, SoundLess
<1>15. Clean'
  <2>1. \A j \in Inos : inode'[j] # Out => j \in Entries'
    BY <1>2, <1>8, <1>9 DEF Clean, e
  <2>2. \A j \in Entries' \ idirty' : inode'[j] # Out => inode'[j] = Iget(buf', j)
    BY <1>1, <1>2, <1>4, <1>8, <1>9 DEF Clean, e
  <2> QED
    BY <2>1, <2>2 DEF Clean
<1> QED
  BY <1>1, <1>5, <1>6, <1>7, <1>9, <1>10, <1>11, <1>14, <1>15, TreeStep DEF w

-----------------------------------------------------------------------------
(* The theorems.                                                           *)

\* Every step keeps the invariant.
LEMMA SuperStep == SuperInv /\ [Next]_vars => SuperInv'
<1> SUFFICES ASSUME SuperInv, [Next]_vars PROVE SuperInv'
  OBVIOUS
<1>1. CASE MkfsBegin \/ MkfsWrite \/ MkfsFails \/ Mount
  BY <1>1, MkfsBeginKeeps, MkfsWriteKeeps, MkfsFailsKeeps, MountKeeps
<1>2. CASE Create \/ \E i \in Inos : Lookup(i) \/ Unlink(i) \/ ReclaimInode(i)
  BY <1>2, CreateKeeps, LookupKeeps, UnlinkKeeps
<1>3. CASE \/ \E i \in idirty : FlushInode(i) \/ FlushInodeFails(i)
           \/ \E b \in Blocks : FlushBuffer(b)
  BY <1>3, FlushInodeKeeps, FlushInodeFailsKeeps, FlushBufferKeeps
<1>4. CASE \E umount \in BOOLEAN : SyncBegin(umount)
  BY <1>4, SyncBeginKeeps
<1>5. CASE SyncStep
  <2>1. CASE SyncSuper \/ SyncIfree \/ SyncBfree
    BY <2>1, SyncSuperKeeps, SyncIfreeKeeps, SyncBfreeKeeps
  <2>2. CASE SyncAgain \/ SyncEnd \/ Unmount
    BY <2>2, SyncAgainKeeps, SyncEndKeeps, UnmountKeeps
  <2>3. CASE \E i \in sync.todo : SyncInode(i)
    BY <2>3, SyncInodeKeeps
  <2>4. CASE \E b \in sync.todo : SyncBlock(b)
    BY <2>4, SyncBlockKeeps
  <2> QED
    BY <1>5, <2>1, <2>2, <2>3, <2>4 DEF SyncStep
<1>6. CASE SyncFails \/ Crash
  BY <1>6, SyncFailsKeeps, CrashKeeps
<1>7. CASE UNCHANGED vars
  <2>1. /\ UNCHANGED <<device, cache, mkfs, history>> /\ sync' = sync /\ sbi' = sbi
        /\ buf' = buf /\ dirty' = dirty /\ idirty' = idirty
    BY <1>7 DEF vars, device, cache, history
  <2>2. Syncing'
    BY <2>1 DEF SuperInv, Syncing, Mounted
  <2>3. ~ torn /\ sync'.umount => sync'.quiet
    BY <2>1 DEF SuperInv, Whole
  <2>4. ASSUME ~ torn, sync'.quiet PROVE Progress'
    BY <2>1, <2>4 DEF SuperInv, Whole, Progress, SavedSuper, SavedIfree, SavedBfree
  <2> QED
    BY <2>1, <2>2, <2>3, <2>4, SyncStep1
<1> QED
  BY <1>1, <1>2, <1>3, <1>4, <1>5, <1>6, <1>7 DEF Next

\* The inductive invariant holds of every run, for every layout.
THEOREM SuperAlways == Spec => []SuperInv
BY SuperInit, SuperStep, PTL DEF Spec

\* Every block, on the device and in the cache, holds what the layout puts
\* there, whatever sync, write_inode, mkfs, mount and crashes do and in
\* whatever order, for every size of the partition and of its blocks.
THEOREM SuperInPlace == Spec => []InPlace
<1>1. ASSUME SuperInv PROVE InPlace
  <2>1. /\ \A b \in Blocks : Holds(b, disk[b]) /\ Holds(b, buf[b])
        /\ dirty \subseteq Blocks /\ idirty \subseteq Inos
        /\ inode \in [Inos \cup {Root} -> Record \cup {Out}]
        /\ mkfs \in -1 .. Len(Image) - 1
    BY <1>1 DEF SuperInv, Devices, Caches, Making
  <2>2. \A b \in Blocks : \A c : Holds(b, c) => c.kind \in Kinds(b)
    <3> SUFFICES ASSUME NEW b \in Blocks, NEW c, Holds(b, c) PROVE c.kind \in Kinds(b)
      OBVIOUS
    <3>1. CASE b = 0
      <4>1. c.kind \in {"super", "blank"}
        BY <3>1, HeldSuper DEF Super, Blank
      <4>2. b \notin 1 .. NrIstore /\ b # RootBlock /\ b \notin IfreeBlocks \cup BfreeBlocks
        BY <3>1, Regions, Sizes DEF IfreeBlocks, BfreeBlocks
      <4> QED
        BY <3>1, <4>1, <4>2 DEF Kinds
    <3>2. CASE b \in 1 .. NrIstore
      <4>1. c.kind \in {"store", "blank"}
        BY <3>2, HeldStore
      <4>2. b # 0 /\ b # RootBlock /\ b \notin IfreeBlocks \cup BfreeBlocks
        BY <3>2, Regions, Sizes DEF IfreeBlocks, BfreeBlocks
      <4> QED
        BY <3>2, <4>1, <4>2 DEF Kinds
    <3>3. CASE b \in IfreeBlocks \cup BfreeBlocks
      <4>1. c.kind \in {"bits", "blank"}
        BY <3>3, HeldIfree, HeldBfree DEF IfreeBlocks, BfreeBlocks
      <4>2. b # 0 /\ b # RootBlock /\ b \notin 1 .. NrIstore
        BY <3>3, Regions, Sizes DEF IfreeBlocks, BfreeBlocks
      <4> QED
        BY <3>3, <4>1, <4>2 DEF Kinds
    <3>4. CASE b = RootBlock
      <4>1. c.kind \in {"dir", "blank"}
        BY <3>4, HeldDir
      <4>2. b # 0 /\ b \notin 1 .. NrIstore /\ b \notin IfreeBlocks \cup BfreeBlocks
        BY <3>4, Regions, Sizes DEF IfreeBlocks, BfreeBlocks
      <4> QED
        BY <3>4, <4>1, <4>2 DEF Kinds
    <3>5. CASE b # 0 /\ b \notin 1 .. NrIstore /\ b # RootBlock
               /\ b \notin IfreeBlocks \cup BfreeBlocks
      <4>1. c = Blank \/ c = EmptyIndex
        BY <3>5 DEF Holds, IfreeBlocks, BfreeBlocks
      <4>2. c.kind \in {"index", "blank"}
        BY <4>1 DEF EmptyIndex, Blank
      <4> QED
        BY <3>5, <4>2 DEF Kinds
    <3> QED
      BY <3>1, <3>2, <3>3, <3>4, <3>5
  <2>3. \A i \in 0 .. NrIfree - 1 : Free(disk[IfreeBlock(i)]) \subseteq AllBits(i)
    BY <2>1, HeldIfree, Regions
  <2> QED
    BY <2>1, <2>2, <2>3 DEF InPlace
<1> QED
  BY <1>1, SuperAlways, PTL

\* What a sync or an unmount that nothing has disturbed has saved is on the
\* device until the next call changes it, through crashes and mounts, and
\* memory agrees with it.
THEOREM SuperSyncedIsDurable == Spec => []SyncedIsDurable
<1>1. SuperInv => SyncedIsDurable
  BY DEF SuperInv, Safe, SyncedIsDurable
<1> QED
  BY <1>1, SuperAlways, PTL

\* In a mounted partition that no crash has torn the counters agree with the
\* bitmaps and every file has an inode and an index block that are in use and
\* no other file's.
THEOREM SuperConsistent == Spec => []Consistent
<1>1. ASSUME SuperInv, Mounted, ~ torn
      PROVE  /\ sbi.blocks = Cardinality(FreeBlocks)
             /\ sbi.inodes = Cardinality(FreeInos) + 1
             /\ Entries \cap sbi.ifree = {}
             /\ LET index == [i \in Entries |-> InMemory.inodes[i].index]
                IN  /\ \A i, j \in Entries : index[i] = index[j] => i = j
                    /\ \A i \in Entries : index[i] \notin sbi.bfree \cup 0 .. RootBlock
  <2> DEFINE v == InMemory
  <2>1. Sound(v)
    BY <1>1 DEF SuperInv, Whole
  <2>2. v.super = sbi /\ v.entries = Entries
    BY DEF InMemory
  <2> HIDE DEF v
  <2>3. /\ sbi.blocks = Cardinality({n \in sbi.bfree : n < NrBlocks})
        /\ sbi.inodes = Cardinality({n \in sbi.ifree : n < NrInodes}) + 1
        /\ Entries \subseteq Inos \ sbi.ifree
        /\ \A i \in Entries : v.inodes[i].index > RootBlock /\ v.inodes[i].index \notin sbi.bfree
                              /\ v.inodes[i].index \in Nat
        /\ \A i, j \in Entries : v.inodes[i].index = v.inodes[j].index => i = j
    <3>1. \A i \in Entries : v.inodes[i] \in Record
      BY <2>1, <2>2 DEF Sound
    <3>2. \A i \in Entries : v.inodes[i].index \in Nat
      BY <3>1, Sizes DEF Record, Blocks
    <3> QED
      BY <2>1, <2>2, <3>2 DEF Sound
  <2>4. sbi.blocks = Cardinality(FreeBlocks) /\ sbi.inodes = Cardinality(FreeInos) + 1
    BY <2>3 DEF FreeBlocks, FreeInos
  <2>5. \A i \in Entries : v.inodes[i].index \notin sbi.bfree \cup 0 .. RootBlock
    BY <2>3, Sizes
  <2> DEFINE index == [i \in Entries |-> v.inodes[i].index]
  <2>6. /\ \A i, j \in Entries : index[i] = index[j] => i = j
        /\ \A i \in Entries : index[i] \notin sbi.bfree \cup 0 .. RootBlock
    BY <2>3, <2>5
  <2> QED
    BY <2>3, <2>4, <2>6 DEF v
<1>2. SuperInv => Consistent
  BY <1>1 DEF Consistent
<1> QED
  BY <1>2, SuperAlways, PTL

=============================================================================
