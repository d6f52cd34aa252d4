--------------------------- MODULE OuicheDirProofs ---------------------------
(***************************************************************************)
(* What every directory of ouichefs keeps, for any number of inodes,       *)
(* entries per block, names and readers: entries lie without gaps, the     *)
(* counter of free inodes follows the bitmap, an inode has one entry, link *)
(* counts are right, the cache of names tells what a search would find, a  *)
(* listing loses nothing that it has not passed, and the calls together    *)
(* implement the tree of names of Namespace.                               *)
(*                                                                         *)
(* The first two hold with any names.  The others are stated for           *)
(* LongNames = {}: a name of the maximal length is cut by strscpy          *)
(* (inode.c:275, 451, 466) and not found again, after which cache and      *)
(* entries disagree.                                                       *)
(***************************************************************************)
EXTENDS OuicheDir, WellFoundedInduction, FiniteSetTheorems, TLAPS

Block == [Slots -> Entry]

Dense(block) == \A s \in Slots \ {0} : block[s].ino # 0 => block[s - 1].ino # 0

\* EntriesDense is inductive once the blocks and the free numbers are typed.
DirInv ==
  /\ ifree \subseteq Inos
  /\ files \in [Inos \cup {Root} -> Block]
  /\ EntriesDense

\* The number that a create takes is a free one: a set of naturals has a least
\* element.
LEMMA Least ==
  ASSUME NEW S \in SUBSET Nat, S # {}
  PROVE  Min(S) \in S /\ \A y \in S : Min(S) =< y
<1> DEFINE R == OpToRel(<, Nat)
<1>1. IsWellFoundedOn(R, Nat)
  BY NatLessThanWellFounded
<1>2. \A x, y \in Nat : <<x, y>> \in R <=> x < y
  BY DEF OpToRel
<1> HIDE DEF R
<1>3. PICK x \in S : \A y \in S : ~ (<<y, x>> \in R)
  BY <1>1, WFMin
<1>4. ASSUME NEW y \in S PROVE x =< y
  <2>1. x \in Nat /\ y \in Nat /\ ~ (y < x)
    BY <1>2, <1>3
  <2> QED
    BY <2>1
<1> QED
  BY <1>4 DEF Min

\* The block of a new inode.
LEMMA EmptyDense == EmptyBlock \in Block /\ Dense(EmptyBlock)
BY DEF EmptyBlock, Block, Dense, NoEntry, Entry

\* The name that strscpy writes is a name.
LEMMA StoredName == \A n \in Names : Stored(n) \in Names
BY DirAssumption DEF Stored

\* create and rename add an entry after the last one.
LEMMA WithDense ==
  ASSUME NEW b \in Block, Dense(b), NEW i \in Inos, NEW n \in Names
  PROVE  With(b, i, n) \in Block /\ Dense(With(b, i, n))
<1> DEFINE F == {t \in Slots : b[t].ino = 0} \cup {MaxSubfiles}
           m == Min(F)
           e == [ino |-> i, name |-> Stored(n)]
<1>1. m \in F /\ \A y \in F : m =< y
  <2>1. F \in SUBSET Nat /\ F # {}
    BY DirAssumption DEF Slots
  <2> QED
    BY <2>1, Least
<1>2. With(b, i, n) = [b EXCEPT ![m] = e]
  BY DEF With
<1>3. e \in Entry
  BY StoredName DEF Entry
<1>4. i # 0
  BY DEF Inos
<1> HIDE DEF m, F, e
<1>5. [b EXCEPT ![m] = e] \in Block
  BY <1>3 DEF Block
<1>6. \A s \in Slots : s < m => b[s].ino # 0
  BY <1>1, DirAssumption DEF F, Slots
<1>7. m \in Nat
  BY <1>1, DirAssumption DEF F, Slots
<1>8. ASSUME NEW s \in Slots \ {0}, [b EXCEPT ![m] = e][s].ino # 0
      PROVE  [b EXCEPT ![m] = e][s - 1].ino # 0
  <2>1. s - 1 \in Slots
    BY DirAssumption DEF Slots
  <2>2. CASE s - 1 = m
    BY <2>1, <2>2, <1>4 DEF e, Block
  <2>3. CASE s - 1 # m /\ s = m
    BY <2>1, <2>3, <1>6, DirAssumption DEF Block, Slots
  <2>4. CASE s - 1 # m /\ s # m
    BY <2>1, <2>4, <1>8 DEF Block, Dense
  <2> QED
    BY <2>2, <2>3, <2>4
<1> QED
  BY <1>2, <1>5, <1>8 DEF Dense

\* unlink and rename remove an entry and move the ones after it.
LEMMA WithoutDense ==
  ASSUME NEW b \in Block, Dense(b), NEW i
  PROVE  Without(b, i) \in Block /\ Dense(Without(b, i))
<1> DEFINE w == Without(b, i)
           before(s) == \A t \in 0 .. s : b[t].ino # i
<1>1. \A s \in Slots : w[s] = IF before(s) THEN b[s]
                              ELSE IF s + 1 \in Slots THEN b[s + 1] ELSE NoEntry
  BY DEF Without
<1>2. w \in Block
  <2>1. NoEntry \in Entry
    BY DEF NoEntry, Entry
  <2> QED
    BY <2>1 DEF Without, Block
<1>3. ASSUME NEW s \in Slots \ {0}, w[s].ino # 0
      PROVE  w[s - 1].ino # 0
  <2>1. s - 1 \in Slots /\ (s - 1) + 1 = s /\ s \in Nat
    BY DirAssumption DEF Slots
  <2>2. b[s].ino # 0
    <3>1. CASE before(s)
      BY <3>1, <1>1, <1>3
    <3>2. CASE ~ before(s) /\ s + 1 \in Slots
      <4>1. w[s] = b[s + 1]
        BY <3>2, <1>1
      <4>2. s + 1 \in Slots \ {0} /\ (s + 1) - 1 = s
        BY <3>2, <2>1
      <4> QED
        BY <4>1, <4>2, <1>3 DEF Dense
    <3>3. CASE ~ before(s) /\ s + 1 \notin Slots
      BY <3>3, <1>1, <1>3 DEF NoEntry
    <3> QED
      BY <3>1, <3>2, <3>3
  <2>3. b[s - 1].ino # 0
    BY <2>2 DEF Dense
  <2>4. w[s - 1] = b[s - 1] \/ w[s - 1] = b[s]
    BY <2>1, <1>1
  <2> QED
    BY <2>2, <2>3, <2>4
<1> QED
  BY <1>2, <1>3 DEF Dense

\* A rename inside a directory changes a name and no inode number.
LEMMA RenamedDense ==
  ASSUME NEW b \in Block, Dense(b), NEW x, NEW n \in Names
  PROVE  [b EXCEPT ![x].name = n] \in Block /\ Dense([b EXCEPT ![x].name = n])
<1> DEFINE w == [b EXCEPT ![x].name = n]
<1>1. \A s \in Slots : w[s] \in Entry /\ w[s].ino = b[s].ino
  BY DEF Block, Entry
<1>2. w \in Block
  BY <1>1 DEF Block
<1>3. \A s \in Slots \ {0} : s - 1 \in Slots
  BY DirAssumption DEF Slots
<1> QED
  BY <1>1, <1>2, <1>3 DEF Dense

\* The invariant of all directories is that of each block.
LEMMA DirInvBlocks ==
  DirInv <=> /\ ifree \subseteq Inos
             /\ files \in [Inos \cup {Root} -> Block]
             /\ \A d \in Inos \cup {Root} : Dense(files[d])
BY DEF DirInv, EntriesDense, Dense

\* mkfs writes empty directories.
LEMMA DirInitInv == Init => DirInv
BY EmptyDense, DirInvBlocks DEF Init

\* create and mkdir add one entry and clear the block of the new inode.
LEMMA CreateKeeps ==
  ASSUME DirInv, NEW d \in Inos \cup {Root}, NEW n \in Names, NEW mode,
         Create(d, n, mode)
  PROVE  DirInv'
<1> DEFINE ino == Min(ifree)
<1>1. ino \in ifree
  <2>1. ifree \in SUBSET Nat /\ ifree # {}
    BY DirAssumption DEF DirInv, Inos, Create
  <2> QED
    BY <2>1, Least
<1>2. ino \in Inos
  BY <1>1 DEF DirInv
<1>3. /\ ifree' = ifree \ {ino}
      /\ files' = [files EXCEPT ![d] = With(@, ino, n), ![ino] = EmptyBlock]
  BY DEF Create
<1> HIDE DEF ino
<1>4. With(files[d], ino, n) \in Block /\ Dense(With(files[d], ino, n))
  BY <1>2, DirInvBlocks, WithDense
<1>5. /\ files' \in [Inos \cup {Root} -> Block]
      /\ \A e \in Inos \cup {Root} : Dense(files'[e])
  BY <1>3, <1>4, EmptyDense, DirInvBlocks
<1> QED
  BY <1>3, <1>5 DEF DirInv, EntriesDense, Dense

\* unlink and rmdir remove one entry and clear the block of the inode.
LEMMA RemoveKeeps ==
  ASSUME DirInv, NEW d \in Inos \cup {Root}, NEW n, NEW i \in Inos,
         Remove(d, n, i)
  PROVE  DirInv'
<1>1. /\ ifree' = ifree \cup {i}
      /\ files' = [files EXCEPT ![d] = Without(@, i), ![i] = EmptyBlock]
  BY DEF Remove, PutInode
<1>2. Without(files[d], i) \in Block /\ Dense(Without(files[d], i))
  BY DirInvBlocks, WithoutDense
<1>3. /\ files' \in [Inos \cup {Root} -> Block]
      /\ \A e \in Inos \cup {Root} : Dense(files'[e])
  BY <1>1, <1>2, EmptyDense, DirInvBlocks
<1> QED
  BY <1>1, <1>3 DEF DirInv, EntriesDense, Dense

\* A rename inside a directory changes one name.
LEMMA RenameHereKeeps ==
  ASSUME DirInv, NEW d \in Inos \cup {Root}, NEW n, NEW m \in Names,
         RenameHere(d, n, m)
  PROVE  DirInv'
<1> DEFINE x == Max({s \in Slots : files[d][s].name = n})
           b == [files[d] EXCEPT ![x].name = Stored(m)]
<1>1. ifree' = ifree /\ files' = [files EXCEPT ![d] = b]
  BY DEF RenameHere
<1> HIDE DEF x
<1>2. b \in Block /\ Dense(b)
  BY DirInvBlocks, StoredName, RenamedDense
<1> HIDE DEF b
<1>3. /\ files' \in [Inos \cup {Root} -> Block]
      /\ \A e \in Inos \cup {Root} : Dense(files'[e])
  BY <1>1, <1>2, DirInvBlocks
<1> QED
  BY <1>1, <1>3 DEF DirInv, EntriesDense, Dense

\* A rename to another directory adds one entry and removes one.
LEMMA RenameAcrossKeeps ==
  ASSUME DirInv, NEW d \in Inos \cup {Root}, NEW n,
         NEW e \in Inos \cup {Root}, NEW m \in Names,
         RenameAcross(d, n, e, m)
  PROVE  DirInv'
<1> DEFINE i == dentry[d][n]
<1>1. i \in Inos /\ d # e
  BY DEF RenameAcross, Renames
<1>2. /\ ifree' = ifree
      /\ files' = [files EXCEPT ![d] = Without(@, i), ![e] = With(@, i, m)]
  BY DEF RenameAcross
<1> HIDE DEF i
<1>3. Without(files[d], i) \in Block /\ Dense(Without(files[d], i))
  BY DirInvBlocks, WithoutDense
<1>4. With(files[e], i, m) \in Block /\ Dense(With(files[e], i, m))
  BY <1>1, DirInvBlocks, WithDense
<1>5. /\ files' \in [Inos \cup {Root} -> Block]
      /\ \A g \in Inos \cup {Root} : Dense(files'[g])
  BY <1>1, <1>2, <1>3, <1>4, DirInvBlocks
<1> QED
  BY <1>2, <1>5 DEF DirInv, EntriesDense, Dense

\* The other operations, the cache and the readers leave the blocks alone.
LEMMA BlocksUnchanged ==
  ASSUME DirInv, UNCHANGED tree
  PROVE  DirInv'
BY DEF DirInv, EntriesDense, tree

\* No step leaves a gap: one case per kind of operation.
LEMMA DirStep ==
  ASSUME DirInv, [Next]_vars
  PROVE  DirInv'
<1>1. CASE UNCHANGED vars
  BY <1>1, BlocksUnchanged DEF vars, tree
<1>2. ASSUME NEW d \in Inos \cup {Root}, NEW n \in Names,
             \/ Lookup(d, n) \/ LookupBadInode(d, n) \/ Forget(d, n)
             \/ CreateFails(d, n) \/ RmdirFails(d, n)
      PROVE  DirInv'
  BY <1>2, BlocksUnchanged
     DEF Lookup, LookupBadInode, Forget, CreateFails, RmdirFails
<1>3. ASSUME NEW d \in Inos \cup {Root}, NEW n \in Names,
             NEW mode, Create(d, n, mode)
      PROVE  DirInv'
  BY <1>3, CreateKeeps
<1>4. ASSUME NEW d \in Inos \cup {Root}, NEW n \in Names,
             Unlink(d, n) \/ Rmdir(d, n)
      PROVE  DirInv'
  BY <1>4, RemoveKeeps DEF Unlink, Rmdir
<1>5. ASSUME NEW d \in Inos \cup {Root}, NEW n \in Names, NEW m \in Names,
             RenameHere(d, n, m)
      PROVE  DirInv'
  BY <1>5, RenameHereKeeps
<1>6. ASSUME NEW d \in Inos \cup {Root}, NEW n \in Names,
             NEW e \in Inos \cup {Root}, NEW m \in Names,
             RenameAcross(d, n, e, m)
      PROVE  DirInv'
  BY <1>6, RenameAcrossKeeps
<1>7. ASSUME NEW d \in Inos \cup {Root}, NEW n \in Names,
             NEW e \in Inos \cup {Root}, NEW m \in Names,
             RenameFails(d, n, e, m) \/ RenameOverrun(d, n, e, m)
      PROVE  DirInv'
  BY <1>7, BlocksUnchanged DEF RenameFails, RenameOverrun
<1>8. ASSUME NEW i, Evict(i)
      PROVE  DirInv'
  BY <1>8, BlocksUnchanged DEF Evict
<1>9. ASSUME NEW r, (\E d \in Listed : Open(r, d)) \/ Iterate(r) \/ Close(r)
      PROVE  DirInv'
  BY <1>9, BlocksUnchanged DEF Open, Iterate, Close
<1> QED
  BY <1>1, <1>2, <1>3, <1>4, <1>5, <1>6, <1>7, <1>8, <1>9 DEF Next

\* Every directory's entries lie without gaps from its first slot on, through
\* every create, removal, rename and failure: the searches of lookup, unlink,
\* rename and iterate may stop at the first empty entry.
THEOREM DirEntriesDense == Spec => []EntriesDense
<1>1. DirInv => EntriesDense
  BY DEF DirInv
<1>2. DirInv /\ [Next]_vars => DirInv'
  BY DirStep
<1> QED
  BY DirInitInv, <1>1, <1>2, PTL DEF Spec

-----------------------------------------------------------------------------
(* What a directory holds: its entries as a set.  The rest of this module   *)
(* is about partitions whose names fit (the hazard of names of the maximal  *)
(* length is that strscpy cuts them).                                       *)

Dirs == Inos \cup {Root}

Held(b) == {b[s] : s \in {t \in Slots : b[t].ino # 0}}

\* An inode has one entry in a block, and entries without an inode no name.
Once(b) == \A s, t \in Slots : b[s].ino # 0 /\ b[s].ino = b[t].ino => s = t
Clean(b) == \A s \in Slots : b[s].ino # 0 <=> b[s].name \in Names
Whole(b) == b \in Block /\ Dense(b) /\ Once(b) /\ Clean(b)

\* The slots of a block.
LEMMA SlotFacts ==
  /\ MaxSubfiles \in Nat /\ 0 \in Slots /\ MaxSubfiles - 1 \in Slots
  /\ \A s \in Slots : s \in Nat /\ s < MaxSubfiles /\ (s # 0 => s - 1 \in Slots)
  /\ \A s \in Nat : s < MaxSubfiles => s \in Slots
  /\ \A s \in Slots : \A t \in 0 .. s : t \in Slots
BY DirAssumption DEF Slots

\* Inode numbers are positive; no name is that of an empty entry.
LEMMA InoFacts ==
  /\ Inos \subseteq Nat /\ 0 \notin Inos /\ Root \notin Inos /\ Root # 0
  /\ Dirs \subseteq Nat \ {0}
  /\ Unknown \notin Dirs /\ Negative \notin Dirs /\ Unknown # Negative
  /\ NoEntry.ino = 0 /\ NoEntry.name \notin Names
BY DirAssumption DEF Inos, Root, Dirs, Unknown, Negative, NoEntry

\* What the cache may hold for a name are different things.
LEMMA CacheFacts == Unknown \notin Inos /\ Negative \notin Inos /\ Unknown # Negative
BY InoFacts DEF Dirs

\* An entry of a block.
LEMMA HeldFields ==
  ASSUME NEW b \in Block, Clean(b), NEW x \in Held(b)
  PROVE  /\ x \in Entry /\ x.ino \in Inos /\ x.name \in Names
         /\ x = [ino |-> x.ino, name |-> x.name]
BY DEF Held, Block, Entry, Clean

\* mkfs and create write an empty block.
LEMMA EmptyHeld == Whole(EmptyBlock) /\ Held(EmptyBlock) = {}
<1>1. \A s \in Slots : EmptyBlock[s] = NoEntry
  BY DEF EmptyBlock
<1> QED
  BY <1>1, EmptyDense, InoFacts DEF Whole, Once, Clean, Held

\* In a dense block the entries before an entry are not empty.
LEMMA DenseBelow ==
  ASSUME NEW b \in Block, Dense(b), NEW s \in Slots, b[s].ino # 0
  PROVE  \A t \in 0 .. s : b[t].ino # 0
<1> DEFINE S == {t \in Nat : t =< s /\ b[s - t].ino = 0}
<1>1. S = {}
  <2>1. SUFFICES ASSUME S # {} PROVE FALSE
    OBVIOUS
  <2>2. Min(S) \in S /\ \A y \in S : Min(S) =< y
    BY <2>1, Least
  <2>3. PICK m \in Nat : m =< s /\ b[s - m].ino = 0 /\ \A y \in S : m =< y
    BY <2>2
  <2>4. m # 0 /\ s \in Nat
    BY <2>3, SlotFacts
  <2>5. m - 1 \notin S /\ m - 1 \in Nat /\ m - 1 =< s
    BY <2>3, <2>4
  <2>6. b[s - (m - 1)].ino # 0
    BY <2>5
  <2>7. s - (m - 1) \in Slots \ {0} /\ (s - (m - 1)) - 1 = s - m
    BY <2>3, <2>4, SlotFacts
  <2> QED
    BY <2>3, <2>6, <2>7 DEF Dense
<1>2. ASSUME NEW t \in 0 .. s PROVE b[t].ino # 0
  <2>1. s - t \in Nat /\ s - t =< s /\ s - (s - t) = t
    BY SlotFacts
  <2>2. s - t \notin S
    BY <1>1
  <2> QED
    BY <2>1, <2>2
<1> QED
  BY <1>2

\* A new entry in a block that is not full.
LEMMA WithHeld ==
  ASSUME NEW b \in Block, Whole(b), b[MaxSubfiles - 1].ino = 0,
         NEW i \in Inos, NEW n \in Names, LongNames = {},
         \A x \in Held(b) : x.ino # i
  PROVE  /\ Whole(With(b, i, n))
         /\ Held(With(b, i, n)) = Held(b) \cup {[ino |-> i, name |-> n]}
         /\ \A s \in Slots : b[s].ino # 0 => With(b, i, n)[s] = b[s]
<1> DEFINE F == {t \in Slots : b[t].ino = 0} \cup {MaxSubfiles}
           m == Min(F)
           e == [ino |-> i, name |-> n]
<1>1. m \in F /\ \A y \in F : m =< y
  <2>1. F \in SUBSET Nat /\ F # {}
    BY DirAssumption DEF Slots
  <2> QED
    BY <2>1, Least
<1>2. With(b, i, n) = [b EXCEPT ![m] = e]
  BY DEF With, Stored
<1> HIDE DEF m
<1>3. m \in Slots /\ b[m].ino = 0
  <2>1. MaxSubfiles - 1 \in F
    BY SlotFacts
  <2> QED
    BY <1>1, <2>1, DirAssumption
<1> HIDE DEF F, e
<1>4. i # 0 /\ e.ino = i /\ e.name = n
  BY InoFacts DEF e
<1> DEFINE w == [b EXCEPT ![m] = e]
<1>5. \A s \in Slots : w[s] = IF s = m THEN e ELSE b[s]
  BY DEF Block
<1>6. w \in Block /\ Dense(w)
  BY <1>2, WithDense DEF Whole
<1> HIDE DEF w
<1>7. \A s \in Slots : b[s].ino # i
  BY <1>4 DEF Held
<1>8. Once(w)
  BY <1>4, <1>5, <1>7 DEF Once, Whole
<1>9. Clean(w)
  BY <1>4, <1>5 DEF Clean, Whole
<1>10. Held(w) = Held(b) \cup {e}
  BY <1>3, <1>4, <1>5 DEF Held
<1> QED
  BY <1>2, <1>3, <1>5, <1>6, <1>8, <1>9, <1>10 DEF Whole, w, e

\* Where the entries go when the one in slot k is removed.
LEMMA WithoutSlots ==
  ASSUME NEW b \in Block, Whole(b), NEW k \in Slots, b[k].ino # 0
  PROVE  \A s \in Slots :
           Without(b, b[k].ino)[s] = IF s < k THEN b[s]
                                     ELSE IF s + 1 \in Slots THEN b[s + 1]
                                     ELSE NoEntry
<1> SUFFICES ASSUME NEW s \in Slots
             PROVE  Without(b, b[k].ino)[s] = IF s < k THEN b[s]
                                     ELSE IF s + 1 \in Slots THEN b[s + 1]
                                     ELSE NoEntry
  OBVIOUS
<1>1. s < k <=> \A t \in 0 .. s : b[t].ino # b[k].ino
  <2>1. \A t \in 0 .. s : t \in Slots
    BY SlotFacts
  <2>2. s < k => \A t \in 0 .. s : b[t].ino # b[k].ino
    BY <2>1, SlotFacts DEF Whole, Once
  <2>3. ~ (s < k) => k \in 0 .. s
    BY SlotFacts
  <2> QED
    BY <2>2, <2>3
<1> QED
  BY <1>1 DEF Without

\* An entry is removed.
LEMMA WithoutHeld ==
  ASSUME NEW b \in Block, Whole(b), NEW x \in Held(b)
  PROVE  /\ Whole(Without(b, x.ino))
         /\ Held(Without(b, x.ino)) = Held(b) \ {x}
<1>1. PICK k \in Slots : b[k] = x /\ x.ino # 0
  BY DEF Held
<1> DEFINE w == Without(b, x.ino)
<1>2. \A s \in Slots : w[s] = IF s < k THEN b[s]
                              ELSE IF s + 1 \in Slots THEN b[s + 1] ELSE NoEntry
  BY <1>1, WithoutSlots
<1>3. w \in Block /\ Dense(w)
  BY WithoutDense DEF Whole
<1> HIDE DEF w
<1>4. \A s \in Slots : w[s].ino # 0 =>
        \E t \in Slots \ {k} : w[s] = b[t] /\ t = IF s < k THEN s ELSE s + 1
  <2> SUFFICES ASSUME NEW s \in Slots, w[s].ino # 0
               PROVE  \E t \in Slots \ {k} : w[s] = b[t] /\ t = IF s < k THEN s ELSE s + 1
    OBVIOUS
  <2>1. s \in Nat /\ k \in Nat
    BY SlotFacts
  <2>2. CASE s < k
    BY <1>2, <2>1, <2>2
  <2>3. CASE ~ (s < k)
    <3>1. s + 1 \in Slots /\ w[s] = b[s + 1]
      BY <1>2, <2>3, InoFacts
    <3> QED
      BY <2>1, <2>3, <3>1
  <2> QED
    BY <2>2, <2>3
<1>5. \A t \in Slots \ {k} : \E s \in Slots : w[s] = b[t]
  <2> SUFFICES ASSUME NEW t \in Slots \ {k} PROVE \E s \in Slots : w[s] = b[t]
    OBVIOUS
  <2>1. CASE t < k
    BY <2>1, <1>2
  <2>2. CASE ~ (t < k)
    <3>1. t \in Nat /\ k \in Nat /\ t # k
      BY SlotFacts
    <3>2. t # 0 /\ ~ (t - 1 < k) /\ (t - 1) + 1 = t
      BY <2>2, <3>1
    <3>3. t - 1 \in Slots
      BY <3>2, SlotFacts
    <3> QED
      BY <3>2, <3>3, <1>2
  <2> QED
    BY <2>1, <2>2
<1>6. Once(w)
  <2> SUFFICES ASSUME NEW s \in Slots, NEW t \in Slots, w[s].ino # 0,
                      w[s].ino = w[t].ino
               PROVE  s = t
    BY DEF Once
  <2>1. PICK u \in Slots \ {k} : w[s] = b[u] /\ u = IF s < k THEN s ELSE s + 1
    BY <1>4
  <2>2. PICK v \in Slots \ {k} : w[t] = b[v] /\ v = IF t < k THEN t ELSE t + 1
    BY <1>4
  <2>3. u = v
    BY <2>1, <2>2 DEF Whole, Once
  <2>4. s \in Nat /\ t \in Nat /\ k \in Nat /\ u # k /\ v # k
    BY SlotFacts
  <2> QED
    BY <2>1, <2>2, <2>3, <2>4
<1>7. Clean(w)
  <2> SUFFICES ASSUME NEW s \in Slots PROVE w[s].ino # 0 <=> w[s].name \in Names
    BY DEF Clean
  <2>1. w[s] = NoEntry \/ \E t \in Slots : w[s] = b[t]
    BY <1>2
  <2> QED
    BY <2>1, InoFacts DEF Whole, Clean
<1>8. \A t \in Slots : b[t].ino # 0 /\ b[t] = x => t = k
  BY <1>1 DEF Whole, Once
<1>9. Held(w) = Held(b) \ {x}
  <2>1. ASSUME NEW y \in Held(w) PROVE y \in Held(b) \ {x}
    BY <2>1, <1>4, <1>8 DEF Held
  <2>2. ASSUME NEW y \in Held(b) \ {x} PROVE y \in Held(w)
    BY <2>2, <1>1, <1>5 DEF Held
  <2> QED
    BY <2>1, <2>2
<1> QED
  BY <1>3, <1>6, <1>7, <1>9 DEF Whole, w

\* An entry gets another name.
LEMMA RenamedHeld ==
  ASSUME NEW b \in Block, Whole(b), NEW k \in Slots, b[k].ino # 0, NEW m \in Names
  PROVE  /\ Whole([b EXCEPT ![k].name = m])
         /\ Held([b EXCEPT ![k].name = m])
              = (Held(b) \ {b[k]}) \cup {[ino |-> b[k].ino, name |-> m]}
         /\ \A s \in Slots : [b EXCEPT ![k].name = m][s].ino = b[s].ino
<1> DEFINE w == [b EXCEPT ![k].name = m]
           e == [ino |-> b[k].ino, name |-> m]
<1>1. \A s \in Slots : w[s] = IF s = k THEN e ELSE b[s]
  BY DEF Block, Entry
<1>2. w \in Block /\ Dense(w)
  BY RenamedDense DEF Whole
<1>3. e.ino = b[k].ino /\ e.name = m
  OBVIOUS
<1> HIDE DEF w, e
<1>4. Once(w) /\ Clean(w)
  BY <1>1, <1>3 DEF Once, Clean, Whole
<1>5. \A t \in Slots : b[t].ino # 0 /\ b[t] = b[k] => t = k
  BY DEF Whole, Once
<1>6. Held(w) = (Held(b) \ {b[k]}) \cup {e}
  BY <1>1, <1>3, <1>5 DEF Held
<1> QED
  BY <1>1, <1>2, <1>3, <1>4, <1>6 DEF Whole, w, e
-----------------------------------------------------------------------------
(* Entries, bitmap, modes and the kernel's cache of names.                  *)

Kept == [d \in Dirs |-> Held(files[d])]
Bound(i, n) == [ino |-> i, name |-> n]

\* The inodes: the free ones have no mode, only directories hold something.
ModesTrue ==
  /\ inode \in [Dirs -> [mode : {"none", "dir", "file"}, nlink : Int]]
  /\ inode[Root].mode = "dir"
  /\ \A i \in Inos : i \in ifree <=> inode[i].mode = "none"
  /\ \A d \in Dirs : inode[d].mode # "dir" => Kept[d] = {}

\* An inode has an entry exactly when it is used, and that in one directory.
Placed ==
  /\ \A d \in Dirs : \A x \in Kept[d] : x.ino \notin ifree
  /\ \A i \in Inos \ ifree : \E d \in Dirs : \E x \in Kept[d] : x.ino = i
  /\ \A d, e \in Dirs : \A x \in Kept[d], y \in Kept[e] :
       x.ino = y.ino => d = e /\ x = y

\* Two entries of a directory have different names.
NamesApart ==
  \A d \in Dirs : \A x, y \in Kept[d] : x.name = y.name => x = y

\* The cache knows of entries that are there, and of names that are not.
CacheTells ==
  /\ dentry \in [Dirs -> [Names -> Inos \cup {Negative, Unknown}]]
  /\ \A d \in Dirs, n \in Names :
       /\ dentry[d][n] \in Inos => Bound(dentry[d][n], n) \in Kept[d]
       /\ dentry[d][n] = Negative => \A x \in Kept[d] : x.name # n

Blocks ==
  /\ ifree \subseteq Inos
  /\ files \in [Dirs -> Block]
  /\ \A d \in Dirs : Whole(files[d])

TreeInv == Blocks /\ ModesTrue /\ Placed /\ NamesApart /\ CacheTells

\* What a directory holds are entries with numbers and names.
LEMMA KeptFields ==
  ASSUME Blocks, NEW d \in Dirs, NEW x \in Kept[d]
  PROVE  x \in Held(files[d]) /\ x.ino \in Inos /\ x.name \in Names /\ x = Bound(x.ino, x.name)
BY HeldFields DEF Kept, Blocks, Whole, Bound

\* The same numbers by slot.
LEMMA EntriesKept ==
  ASSUME NEW d \in Dirs
  PROVE  Entries(d) = {x.ino : x \in Kept[d]}
BY DEF Entries, Kept, Held

\* Where the last entry is empty there is room.
LEMMA EmptyFirst ==
  ASSUME Blocks, NEW d \in Dirs, files[d][0].ino = 0
  PROVE  Kept[d] = {}
<1>1. \A s \in Slots : files[d][s].ino = 0
  <2> SUFFICES ASSUME NEW s \in Slots, files[d][s].ino # 0 PROVE FALSE
    OBVIOUS
  <2>1. \A t \in 0 .. s : files[d][t].ino # 0
    BY DenseBelow DEF Blocks, Whole
  <2>2. 0 \in 0 .. s
    BY SlotFacts
  <2> QED
    BY <2>1, <2>2
<1> QED
  BY <1>1 DEF Kept, Held

\* mkfs leaves an empty tree.
LEMMA TreeInit == Init => TreeInv
<1> SUFFICES ASSUME Init PROVE TreeInv
  OBVIOUS
<1>1. \A d \in Dirs : files[d] = EmptyBlock
  BY DEF Init, Dirs
<1>2. Kept = [d \in Dirs |-> {}]
  BY <1>1, EmptyHeld DEF Kept
<1>3. Blocks
  BY <1>1, EmptyHeld DEF Blocks, Init, Whole, Dirs
<1>4. ModesTrue
  BY <1>2, InoFacts DEF ModesTrue, Init, Dirs
<1>5. Placed /\ NamesApart
  BY <1>2 DEF Placed, NamesApart, Init
<1>6. CacheTells
  BY <1>2, InoFacts DEF CacheTells, Init, Dirs
<1> QED
  BY <1>3, <1>4, <1>5, <1>6 DEF TreeInv

-----------------------------------------------------------------------------
(* What an operation does to the tree.                                      *)

\* An inode that was free gets its entry.
Adds(d, n, i) ==
  /\ i \in ifree /\ inode[d].mode = "dir"
  /\ ifree' = ifree \ {i}
  /\ Kept' = [Kept EXCEPT ![d] = @ \cup {Bound(i, n)}]
  /\ \A x \in Kept[d] : x.name # n

\* An inode without entries loses its own.
Drops(d, n, i) ==
  /\ Bound(i, n) \in Kept[d] /\ Kept[i] = {} /\ d # i
  /\ ifree' = ifree \cup {i}
  /\ Kept' = [Kept EXCEPT ![d] = @ \ {Bound(i, n)}]

\* An entry gets another name, or another directory and name.
Moves(d, n, e, m, i) ==
  /\ Bound(i, n) \in Kept[d] /\ inode[e].mode = "dir"
  /\ \A x \in Kept[e] : x.name # m
  /\ ifree' = ifree
  /\ Kept' = [g \in Dirs |-> (Kept[g] \ (IF g = d THEN {Bound(i, n)} ELSE {}))
                               \cup (IF g = e THEN {Bound(i, m)} ELSE {})]

\* The number that create takes.
LEMMA FreshIno ==
  ASSUME ifree \subseteq Inos, ifree # {}
  PROVE  Min(ifree) \in ifree
BY Least, InoFacts

\* create and mkdir
LEMMA CreateAdds ==
  ASSUME LongNames = {}, TreeInv, NEW d \in Dirs, NEW n \in Names,
         NEW mode \in {"dir", "file"}, Create(d, n, mode)
  PROVE  \E i \in Inos :
           /\ Blocks' /\ Adds(d, n, i) /\ d # i
           /\ i = Min(ifree) /\ answer' = Answer("OK", i)
           /\ nrFreeInodes' = nrFreeInodes - 1
           /\ inode' = [inode EXCEPT
                ![i] = NewInode(mode),
                ![d].nlink = IF mode = "dir" THEN @ + 1 ELSE @]
           /\ dentry' = [dentry EXCEPT ![d][n] = i]
           /\ \A s \in Slots : files[d][s].ino # 0 => files'[d][s] = files[d][s]
           /\ \A g \in Dirs \ {d} : Kept[g] = {} \/ files'[g] = files[g]
<1> DEFINE i == Min(ifree)
           w == With(files[d], i, n)
<1>1. i \in ifree /\ i \in Inos /\ i \in Dirs
  BY FreshIno DEF TreeInv, Blocks, Create, Dirs
<1>2. /\ ifree' = ifree \ {i} /\ nrFreeInodes' = nrFreeInodes - 1
      /\ files' = [files EXCEPT ![d] = w, ![i] = EmptyBlock]
      /\ inode' = [inode EXCEPT ![i] = NewInode(mode),
                                ![d].nlink = IF mode = "dir" THEN @ + 1 ELSE @]
      /\ dentry' = [dentry EXCEPT ![d][n] = i] /\ answer' = Answer("OK", i)
      /\ files[d][MaxSubfiles - 1].ino = 0 /\ inode[d].mode = "dir"
      /\ dentry[d][n] = Negative
  BY DEF Create, Full, Usable
<1> HIDE DEF i
<1>3. d # i /\ Kept[i] = {}
  BY <1>1, <1>2 DEF TreeInv, ModesTrue
<1>4. files[d] \in Block /\ Whole(files[d]) /\ files \in [Dirs -> Block]
  BY DEF TreeInv, Blocks
<1>5. \A x \in Held(files[d]) : x.ino # i
  BY <1>1 DEF TreeInv, Placed, Kept
<1>6. /\ Whole(w) /\ Held(w) = Held(files[d]) \cup {Bound(i, n)}
      /\ \A s \in Slots : files[d][s].ino # 0 => w[s] = files[d][s]
  BY <1>1, <1>2, <1>4, <1>5, WithHeld DEF Bound
<1> HIDE DEF w
<1>7. /\ files'[d] = w /\ files'[i] = EmptyBlock
      /\ \A g \in Dirs \ {d, i} : files'[g] = files[g]
  BY <1>1, <1>2, <1>3, <1>4
<1>8. Blocks'
  <2>1. \A g \in Dirs : Whole(files'[g])
    BY <1>6, <1>7, EmptyHeld DEF TreeInv, Blocks
  <2>2. files' \in [Dirs -> Block]
    BY <1>2, <1>4, <1>6, EmptyHeld DEF Whole
  <2> QED
    BY <1>2, <2>1, <2>2 DEF TreeInv, Blocks, Whole
<1>9. Kept' = [Kept EXCEPT ![d] = @ \cup {Bound(i, n)}]
  <2>1. \A g \in Dirs : Held(files'[g]) = IF g = d THEN Kept[g] \cup {Bound(i, n)} ELSE Kept[g]
    BY <1>1, <1>3, <1>6, <1>7, EmptyHeld DEF Kept
  <2> QED
    BY <2>1 DEF Kept
<1>10. \A x \in Kept[d] : x.name # n
  BY <1>2 DEF TreeInv, CacheTells
<1>11. Adds(d, n, i)
  BY <1>1, <1>2, <1>9, <1>10 DEF Adds
<1>12. \A g \in Dirs \ {d} : Kept[g] = {} \/ files'[g] = files[g]
  BY <1>3, <1>7
<1> QED
  BY <1>1, <1>2, <1>3, <1>6, <1>7, <1>8, <1>11, <1>12 DEF i

\* unlink and rmdir
LEMMA RemoveDrops ==
  ASSUME TreeInv, NEW d \in Dirs, NEW n \in Names, NEW i \in Inos,
         i = dentry[d][n], Kept[i] = {}, Remove(d, n, i)
  PROVE  /\ Blocks' /\ Drops(d, n, i)
         /\ files' = [files EXCEPT ![d] = Without(@, i), ![i] = EmptyBlock]
<1>1. Bound(i, n) \in Kept[d] /\ Bound(i, n) \in Held(files[d]) /\ i \in Dirs
  BY DEF TreeInv, CacheTells, Kept, Dirs
<1>2. d # i
  BY <1>1
<1> DEFINE w == Without(files[d], i)
<1>3. /\ ifree' = ifree \cup {i}
      /\ files' = [files EXCEPT ![d] = w, ![i] = EmptyBlock]
  BY DEF Remove, PutInode
<1>4. files[d] \in Block /\ Whole(files[d]) /\ files \in [Dirs -> Block]
  BY DEF TreeInv, Blocks
<1>5. Bound(i, n).ino = i
  BY DEF Bound
<1>6. Whole(w) /\ Held(w) = Held(files[d]) \ {Bound(i, n)}
  BY <1>1, <1>4, <1>5, WithoutHeld
<1> HIDE DEF w
<1>7. /\ files'[d] = w /\ files'[i] = EmptyBlock
      /\ \A g \in Dirs \ {d, i} : files'[g] = files[g]
  BY <1>1, <1>2, <1>3, <1>4
<1>8. Blocks'
  <2>1. \A g \in Dirs : Whole(files'[g])
    BY <1>6, <1>7, EmptyHeld DEF TreeInv, Blocks
  <2>2. files' \in [Dirs -> Block]
    BY <1>3, <1>4, <1>6, EmptyHeld DEF Whole
  <2> QED
    BY <1>3, <2>1, <2>2 DEF TreeInv, Blocks, Whole
<1>9. Kept' = [Kept EXCEPT ![d] = @ \ {Bound(i, n)}]
  <2>1. \A g \in Dirs : Held(files'[g]) = IF g = d THEN Kept[g] \ {Bound(i, n)} ELSE Kept[g]
    BY <1>1, <1>2, <1>6, <1>7, EmptyHeld DEF Kept
  <2> QED
    BY <2>1 DEF Kept
<1> QED
  BY <1>1, <1>2, <1>3, <1>8, <1>9 DEF Drops, w

\* rename inside a directory: the only entry with the old name is the last one.
LEMMA RenameHereMoves ==
  ASSUME LongNames = {}, TreeInv, NEW d \in Dirs, NEW n \in Names,
         NEW m \in Names, RenameHere(d, n, m)
  PROVE  /\ dentry[d][n] \in Inos /\ n # m
         /\ Blocks' /\ Moves(d, n, d, m, dentry[d][n])
         /\ \A s \in Slots : files'[d][s].ino = files[d][s].ino
         /\ \A g \in Dirs \ {d} : files'[g] = files[g]
<1> DEFINE i == dentry[d][n]
           at == {s \in Slots : files[d][s].name = n}
           k == Max(at)
<1>1. /\ i \in Inos /\ n # m /\ inode[d].mode = "dir" /\ at # {}
      /\ \A s \in Slots : files[d][s].name # m
      /\ ifree' = ifree
      /\ files' = [files EXCEPT ![d][k].name = m]
  BY DEF RenameHere, Renames, Usable, Taken, Stored
<1>2. files[d] \in Block /\ Whole(files[d]) /\ files \in [Dirs -> Block]
  BY DEF TreeInv, Blocks
<1>3. Bound(i, n) \in Kept[d] /\ Bound(i, n) \in Held(files[d])
  BY <1>1 DEF TreeInv, CacheTells, Kept
<1>4. PICK j \in Slots : files[d][j] = Bound(i, n) /\ files[d][j].ino # 0
  BY <1>3 DEF Held
<1>5. Bound(i, n).ino = i /\ Bound(i, n).name = n
  BY DEF Bound
<1>6. \A s \in at : s = j
  <2> SUFFICES ASSUME NEW s \in at PROVE s = j
    OBVIOUS
  <2>1. files[d][s].ino # 0 /\ files[d][s] \in Kept[d] /\ files[d][s].name = n
    BY <1>2 DEF Whole, Clean, Kept, Held
  <2>2. files[d][s] = Bound(i, n)
    BY <2>1, <1>3, <1>5 DEF TreeInv, NamesApart
  <2> QED
    BY <2>1, <2>2, <1>2, <1>4 DEF Whole, Once
<1>7. k = j
  <2>1. at = {j}
    BY <1>4, <1>5, <1>6
  <2>2. j >= j
    BY SlotFacts
  <2> HIDE DEF at
  <2> QED
    BY <2>1, <2>2 DEF Max
<1> HIDE DEF k, at, i
<1> DEFINE w == [files[d] EXCEPT ![j].name = m]
<1>8. /\ Whole(w) /\ Held(w) = (Held(files[d]) \ {Bound(i, n)}) \cup {Bound(i, m)}
      /\ \A s \in Slots : w[s].ino = files[d][s].ino
  <2> DEFINE b == files[d]
             u == [b EXCEPT ![j].name = m]
  <2>0. b \in Block /\ Whole(b) /\ b[j].ino # 0
    BY <1>2, <1>4
  <2> HIDE DEF b
  <2>3. /\ Whole(u)
        /\ Held(u) = (Held(b) \ {b[j]}) \cup {[ino |-> b[j].ino, name |-> m]}
        /\ \A s \in Slots : u[s].ino = b[s].ino
    <3>1. \A l \in Slots : b[l].ino # 0 => Whole([b EXCEPT ![l].name = m])
      BY <2>0, RenamedHeld
    <3>2. Whole(u)
      BY <2>0, <3>1
    <3>3. Held(u) = (Held(b) \ {b[j]}) \cup {[ino |-> b[j].ino, name |-> m]}
      BY <2>0, RenamedHeld
    <3>4. \A s \in Slots : u[s].ino = b[s].ino
      BY <2>0, RenamedHeld
    <3> QED
      BY <3>2, <3>3, <3>4
  <2>1. /\ Whole(w)
        /\ Held(w) = (Held(files[d]) \ {files[d][j]})
                       \cup {[ino |-> files[d][j].ino, name |-> m]}
        /\ \A s \in Slots : w[s].ino = files[d][s].ino
    BY <2>3, Zenon DEF b
  <2>2. [ino |-> files[d][j].ino, name |-> m] = Bound(i, m)
    BY <1>4, <1>5 DEF Bound
  <2> HIDE DEF w
  <2> QED
    BY <1>4, <2>1, <2>2
<1>9. files' = [files EXCEPT ![d] = w]
  BY <1>1, <1>7
<1> HIDE DEF w
<1>10. files'[d] = w /\ \A g \in Dirs \ {d} : files'[g] = files[g]
  BY <1>2, <1>9
<1>11. Blocks'
  <2>1. \A g \in Dirs : Whole(files'[g])
    BY <1>8, <1>10 DEF TreeInv, Blocks
  <2>2. files' \in [Dirs -> Block]
    BY <1>2, <1>8, <1>9 DEF Whole
  <2> QED
    BY <1>1, <2>1, <2>2 DEF TreeInv, Blocks, Whole
<1>12. \A x \in Kept[d] : x.name # m
  BY <1>1 DEF Kept, Held
<1>13. Kept' = [g \in Dirs |-> (Kept[g] \ (IF g = d THEN {Bound(i, n)} ELSE {}))
                                 \cup (IF g = d THEN {Bound(i, m)} ELSE {})]
  <2>1. \A g \in Dirs : Held(files'[g]) =
          (Kept[g] \ (IF g = d THEN {Bound(i, n)} ELSE {})) \cup (IF g = d THEN {Bound(i, m)} ELSE {})
    BY <1>8, <1>10 DEF Kept
  <2> QED
    BY <2>1 DEF Kept
<1>14. Moves(d, n, d, m, i)
  BY <1>1, <1>3, <1>12, <1>13 DEF Moves
<1> QED
  BY <1>1, <1>8, <1>10, <1>11, <1>14 DEF i

\* rename to another directory
LEMMA RenameAcrossMoves ==
  ASSUME LongNames = {}, TreeInv, NEW d \in Dirs, NEW n \in Names,
         NEW e \in Dirs, NEW m \in Names, RenameAcross(d, n, e, m)
  PROVE  /\ dentry[d][n] \in Inos /\ d # e
         /\ Blocks' /\ Moves(d, n, e, m, dentry[d][n])
         /\ files' = [files EXCEPT ![d] = Without(@, dentry[d][n]),
                                   ![e] = With(@, dentry[d][n], m)]
         /\ \A s \in Slots : files[e][s].ino # 0 => files'[e][s] = files[e][s]
         /\ \A g \in Dirs \ {d, e} : files'[g] = files[g]
<1> DEFINE i == dentry[d][n]
           w == Without(files[d], i)
           v == With(files[e], i, m)
<1>1. /\ i \in Inos /\ d # e /\ inode[e].mode = "dir"
      /\ \A s \in Slots : files[e][s].name # m
      /\ files[e][MaxSubfiles - 1].ino = 0
      /\ ifree' = ifree
      /\ files' = [files EXCEPT ![d] = w, ![e] = v]
  BY DEF RenameAcross, Renames, Usable, Taken, Full
<1> HIDE DEF i
<1>2. /\ files[d] \in Block /\ Whole(files[d]) /\ files \in [Dirs -> Block]
      /\ files[e] \in Block /\ Whole(files[e])
  BY DEF TreeInv, Blocks
<1>3. Bound(i, n) \in Kept[d] /\ Bound(i, n) \in Held(files[d])
  BY <1>1 DEF TreeInv, CacheTells, Kept, i
<1>4. Bound(i, n).ino = i
  BY DEF Bound
<1>5. \A x \in Held(files[e]) : x.ino # i
  BY <1>1, <1>3, <1>4 DEF TreeInv, Placed, Kept
<1>6. Whole(w) /\ Held(w) = Held(files[d]) \ {Bound(i, n)}
  BY <1>2, <1>3, <1>4, WithoutHeld
<1>7. /\ Whole(v) /\ Held(v) = Held(files[e]) \cup {Bound(i, m)}
      /\ \A s \in Slots : files[e][s].ino # 0 => v[s] = files[e][s]
  BY <1>1, <1>2, <1>5, WithHeld DEF Bound
<1> HIDE DEF w, v
<1>8. files'[d] = w /\ files'[e] = v /\ \A g \in Dirs \ {d, e} : files'[g] = files[g]
  BY <1>1, <1>2
<1>9. Blocks'
  <2>1. \A g \in Dirs : Whole(files'[g])
    BY <1>6, <1>7, <1>8 DEF TreeInv, Blocks
  <2>2. files' \in [Dirs -> Block]
    BY <1>1, <1>2, <1>6, <1>7 DEF Whole
  <2> QED
    BY <1>1, <2>1, <2>2 DEF TreeInv, Blocks, Whole
<1>10. \A x \in Kept[e] : x.name # m
  BY <1>1 DEF Kept, Held
<1>11. Kept' = [g \in Dirs |-> (Kept[g] \ (IF g = d THEN {Bound(i, n)} ELSE {}))
                                 \cup (IF g = e THEN {Bound(i, m)} ELSE {})]
  <2>1. \A g \in Dirs : Held(files'[g]) =
          (Kept[g] \ (IF g = d THEN {Bound(i, n)} ELSE {})) \cup (IF g = e THEN {Bound(i, m)} ELSE {})
    BY <1>1, <1>6, <1>7, <1>8 DEF Kept
  <2> QED
    BY <2>1 DEF Kept
<1>12. Moves(d, n, e, m, i)
  BY <1>1, <1>3, <1>10, <1>11 DEF Moves
<1> QED
  BY <1>1, <1>7, <1>8, <1>9, <1>12 DEF i, w, v
-----------------------------------------------------------------------------
(* A search and what it finds.                                              *)

\* ouichefs_lookup finds the inode of the only entry with the name, and none
\* if there is no such entry.
LEMMA FindTells ==
  ASSUME Blocks, NamesApart, NEW d \in Dirs, NEW n \in Names
  PROVE  /\ \A x \in Kept[d] : x.name = n => Find(d, n) = x.ino
         /\ (\A x \in Kept[d] : x.name # n) => Find(d, n) = Negative
<1> DEFINE b == files[d]
           at == {s \in Slots : /\ b[s].name = n
                                /\ \A t \in 0 .. s : b[t].ino # 0}
<1>1. b \in Block /\ Whole(b) /\ Kept[d] = Held(b)
  BY DEF Blocks, Kept
<1>2. Find(d, n) = IF at = {} THEN Negative ELSE b[Min(at)].ino
  BY DEF Find
<1>3. \A s \in at : b[s] \in Kept[d]
  BY <1>1 DEF Held, Whole, Clean
<1>4. ASSUME NEW x \in Kept[d], x.name = n PROVE Find(d, n) = x.ino
  <2>1. PICK k \in Slots : b[k] = x /\ b[k].ino # 0
    BY <1>1 DEF Held
  <2>2. k \in at
    BY <1>1, <1>4, <2>1, DenseBelow DEF Whole
  <2>3. at \in SUBSET Nat /\ at # {}
    BY <2>2, SlotFacts
  <2>4. Min(at) \in at
    BY <2>3, Least
  <2>5. b[Min(at)] \in Kept[d] /\ b[Min(at)].name = n
    BY <1>3, <2>4
  <2>6. b[Min(at)] = x
    BY <1>4, <2>5 DEF NamesApart
  <2> QED
    BY <1>2, <2>3, <2>6
<1>5. ASSUME \A x \in Kept[d] : x.name # n PROVE Find(d, n) = Negative
  BY <1>2, <1>3, <1>5
<1> QED
  BY <1>4, <1>5

\* An operation that adds an entry keeps the tree.
LEMMA AddsKeep ==
  ASSUME TreeInv, Blocks', NEW d \in Dirs, NEW n \in Names, NEW i \in Inos,
         NEW mode \in {"dir", "file"}, Adds(d, n, i), d # i,
         inode' = [inode EXCEPT ![i] = NewInode(mode),
                                ![d].nlink = IF mode = "dir" THEN @ + 1 ELSE @],
         dentry' = [dentry EXCEPT ![d][n] = i]
  PROVE  TreeInv'
<1> DEFINE e == Bound(i, n)
<1>1. e.ino = i /\ e.name = n
  BY DEF Bound
<1>2. \A g \in Dirs : \A x : x \in Kept'[g] <=> x \in Kept[g] \/ (g = d /\ x = e)
  <2>1. \A g \in Dirs : Kept'[g] = IF g = d THEN Kept[g] \cup {e} ELSE Kept[g]
    BY DEF Adds, Kept
  <2> QED
    BY <2>1
<1>3. /\ i \in ifree /\ inode[d].mode = "dir" /\ ifree' = ifree \ {i}
      /\ \A x \in Kept[d] : x.name # n
  BY DEF Adds
<1>4. /\ ModesTrue /\ Placed /\ NamesApart /\ CacheTells /\ Blocks
  BY DEF TreeInv
<1>5. i \in Dirs
  BY DEF Dirs
<1> HIDE DEF e
<1>6. ModesTrue'
  <2>1. NewInode(mode) \in [mode : {"none", "dir", "file"}, nlink : Int]
        /\ NewInode(mode).mode = mode /\ mode # "none"
    BY DEF NewInode
  <2>2. inode' \in [Dirs -> [mode : {"none", "dir", "file"}, nlink : Int]]
    BY <1>4, <1>5, <2>1 DEF ModesTrue
  <2>3. \A g \in Dirs : inode'[g].mode = IF g = i THEN mode ELSE inode[g].mode
    BY <1>4, <1>5, <2>1 DEF ModesTrue
  <2>4. Kept[i] = {}
    BY <1>3, <1>4, <1>5 DEF ModesTrue
  <2>5. \A g \in Inos : g \in Dirs
    BY DEF Dirs
  <2>6. \A g \in Dirs : inode'[g].mode # "dir" => Kept'[g] = {}
    BY <1>2, <1>3, <1>4, <2>3, <2>4 DEF ModesTrue
  <2>7. \A g \in Inos : g \in ifree' <=> inode'[g].mode = "none"
    BY <1>3, <1>4, <2>1, <2>3, <2>5 DEF ModesTrue
  <2> QED
    BY <1>4, <2>2, <2>3, <2>6, <2>7, InoFacts DEF ModesTrue, Dirs
<1>7. Placed'
  <2>1. \A g \in Dirs : \A x \in Kept'[g] : x.ino \notin ifree'
    BY <1>1, <1>2, <1>3, <1>4 DEF Placed
  <2>2. \A j \in Inos \ ifree' : \E g \in Dirs : \E x \in Kept'[g] : x.ino = j
    BY <1>1, <1>2, <1>3, <1>4 DEF Placed
  <2>3. \A g \in Dirs : \A x \in Kept[g] : x.ino # i
    BY <1>3, <1>4 DEF Placed
  <2>4. \A g, h \in Dirs : \A x \in Kept'[g], y \in Kept'[h] : x.ino = y.ino => g = h /\ x = y
    BY <1>1, <1>2, <1>4, <2>3 DEF Placed
  <2> QED
    BY <2>1, <2>2, <2>4 DEF Placed
<1>8. NamesApart'
  BY <1>1, <1>2, <1>3, <1>4 DEF NamesApart
<1>9. CacheTells'
  <2>1. dentry' \in [Dirs -> [Names -> Inos \cup {Negative, Unknown}]]
    BY <1>4 DEF CacheTells
  <2>2. \A g \in Dirs, k \in Names :
          dentry'[g][k] = IF g = d /\ k = n THEN i ELSE dentry[g][k]
    BY <1>4 DEF CacheTells
  <2>3. \A g \in Dirs, k \in Names : dentry'[g][k] \in Inos => Bound(dentry'[g][k], k) \in Kept'[g]
    BY <1>2, <1>4, <2>2 DEF CacheTells, e
  <2>4. \A g \in Dirs, k \in Names : dentry'[g][k] = Negative => \A x \in Kept'[g] : x.name # k
    BY <1>1, <1>2, <1>4, <2>2, CacheFacts DEF CacheTells
  <2> QED
    BY <2>1, <2>3, <2>4 DEF CacheTells
<1> QED
  BY <1>6, <1>7, <1>8, <1>9 DEF TreeInv

\* An operation that removes one keeps it.
LEMMA DropsKeep ==
  ASSUME TreeInv, Blocks', NEW d \in Dirs, NEW n \in Names, NEW i \in Inos,
         Drops(d, n, i), i = dentry[d][n],
         inode' = [inode EXCEPT ![d].nlink = @ - LinksLost(i),
                                ![i] = [mode |-> "none", nlink |-> @.nlink - 1]],
         NEW v \in {Negative, Unknown},
         dentry' = [dentry EXCEPT ![d][n] = v, ![i] = [m \in Names |-> Unknown]]
  PROVE  TreeInv'
<1> DEFINE e == Bound(i, n)
<1>1. e.ino = i /\ e.name = n
  BY DEF Bound
<1>2. \A g \in Dirs : \A x : x \in Kept'[g] <=> x \in Kept[g] /\ ~ (g = d /\ x = e)
  <2>1. \A g \in Dirs : Kept'[g] = IF g = d THEN Kept[g] \ {e} ELSE Kept[g]
    BY DEF Drops, Kept
  <2> QED
    BY <2>1
<1>3. e \in Kept[d] /\ Kept[i] = {} /\ d # i /\ ifree' = ifree \cup {i}
  BY DEF Drops
<1>4. /\ ModesTrue /\ Placed /\ NamesApart /\ CacheTells /\ Blocks
  BY DEF TreeInv
<1>5. i \in Dirs /\ LinksLost(i) \in Int
  BY DEF Dirs, LinksLost
<1> HIDE DEF e
<1>6. ModesTrue'
  <2>1. inode' \in [Dirs -> [mode : {"none", "dir", "file"}, nlink : Int]]
    <3>1. inode[d].nlink - LinksLost(i) \in Int /\ inode[i].nlink - 1 \in Int
      BY <1>4, <1>5 DEF ModesTrue
    <3> QED
      BY <1>3, <1>4, <1>5, <3>1 DEF ModesTrue
  <2>2. \A g \in Dirs : inode'[g].mode = IF g = i THEN "none" ELSE inode[g].mode
    BY <1>3, <1>4, <1>5 DEF ModesTrue
  <2>3. \A g \in Inos : g \in Dirs
    BY DEF Dirs
  <2>4. \A g \in Dirs : inode'[g].mode # "dir" => Kept'[g] = {}
    BY <1>2, <1>3, <1>4, <2>2 DEF ModesTrue
  <2>5. \A g \in Inos : g \in ifree' <=> inode'[g].mode = "none"
    BY <1>3, <1>4, <2>2, <2>3 DEF ModesTrue
  <2> QED
    BY <1>4, <2>1, <2>2, <2>4, <2>5, InoFacts DEF ModesTrue, Dirs
<1>7. Placed'
  <2>1. \A g \in Dirs : \A x \in Kept[g] : x.ino = i => g = d /\ x = e
    BY <1>1, <1>3, <1>4 DEF Placed
  <2>2. \A g \in Dirs : \A x \in Kept'[g] : x.ino \notin ifree'
    BY <1>2, <1>3, <1>4, <2>1 DEF Placed
  <2>3. \A j \in Inos \ ifree' : \E g \in Dirs : \E x \in Kept'[g] : x.ino = j
    BY <1>1, <1>2, <1>3, <1>4 DEF Placed
  <2>4. \A g, h \in Dirs : \A x \in Kept'[g], y \in Kept'[h] : x.ino = y.ino => g = h /\ x = y
    BY <1>2, <1>4 DEF Placed
  <2> QED
    BY <2>2, <2>3, <2>4 DEF Placed
<1>8. NamesApart'
  BY <1>2, <1>4 DEF NamesApart
<1>9. CacheTells'
  <2>1. dentry' \in [Dirs -> [Names -> Inos \cup {Negative, Unknown}]]
    BY <1>3, <1>4, <1>5 DEF CacheTells
  <2>2. \A g \in Dirs, k \in Names :
          /\ g = i => dentry'[g][k] = Unknown
          /\ g = d /\ k = n => dentry'[g][k] = v
          /\ g # i /\ ~ (g = d /\ k = n) => dentry'[g][k] = dentry[g][k]
    BY <1>3, <1>4, <1>5 DEF CacheTells
  <2>3. ASSUME NEW g \in Dirs, NEW k \in Names, dentry'[g][k] \in Inos
        PROVE  Bound(dentry'[g][k], k) \in Kept'[g]
    <3>0. v \notin Inos /\ Unknown \notin Inos
      BY CacheFacts
    <3>1. dentry'[g][k] = dentry[g][k] /\ ~ (g = d /\ k = n)
      <4>1. g # i
        BY <2>2, <2>3, <3>0
      <4>2. ~ (g = d /\ k = n)
        BY <2>2, <2>3, <3>0, <4>1
      <4> QED
        BY <2>2, <4>1, <4>2
    <3>2. Bound(dentry[g][k], k) \in Kept[g] /\ Bound(dentry[g][k], k).name = k
      BY <1>4, <2>3, <3>1 DEF CacheTells, Bound
    <3> QED
      BY <1>1, <1>2, <3>1, <3>2
  <2>4. \A g \in Dirs, k \in Names : dentry'[g][k] = Negative => \A x \in Kept'[g] : x.name # k
    <3>1. \A x \in Kept[d] : x.name = n => x = e
      BY <1>1, <1>3, <1>4 DEF NamesApart
    <3> QED
      BY <1>2, <1>4, <2>2, <3>1, InoFacts DEF CacheTells
  <2> QED
    BY <2>1, <2>3, <2>4 DEF CacheTells
<1> QED
  BY <1>6, <1>7, <1>8, <1>9 DEF TreeInv

\* A rename keeps it.
LEMMA MovesKeep ==
  ASSUME TreeInv, Blocks', NEW d \in Dirs, NEW n \in Names, NEW e \in Dirs,
         NEW m \in Names, NEW i \in Inos, Moves(d, n, e, m, i),
         <<d, n>> # <<e, m>>, i = dentry[d][n],
         inode' \in [Dirs -> [mode : {"none", "dir", "file"}, nlink : Int]],
         \A g \in Dirs : inode'[g].mode = inode[g].mode,
         dentry' = DentryMoved(d, n, e, m)
  PROVE  TreeInv'
<1> DEFINE x == Bound(i, n)
           y == Bound(i, m)
<1>1. x.ino = i /\ x.name = n /\ y.ino = i /\ y.name = m
  BY DEF Bound
<1>2. \A g \in Dirs : \A z : z \in Kept'[g] <=>
        \/ z \in Kept[g] /\ ~ (g = d /\ z = x)
        \/ g = e /\ z = y
  <2>1. \A g \in Dirs : Kept'[g] = (Kept[g] \ (IF g = d THEN {x} ELSE {}))
                                      \cup (IF g = e THEN {y} ELSE {})
    BY DEF Moves, Kept
  <2> QED
    BY <2>1
<1>3. /\ x \in Kept[d] /\ inode[e].mode = "dir" /\ ifree' = ifree
      /\ \A z \in Kept[e] : z.name # m
  BY DEF Moves
<1>4. /\ ModesTrue /\ Placed /\ NamesApart /\ CacheTells /\ Blocks
  BY DEF TreeInv
<1> HIDE DEF x, y
<1>5. \A g \in Dirs : \A z \in Kept[g] : z.ino = i => g = d /\ z = x
  BY <1>1, <1>3, <1>4 DEF Placed
<1>6. ModesTrue'
  <2>1. \A g \in Inos : g \in Dirs
    BY DEF Dirs
  <2>2. Root \in Dirs
    BY DEF Dirs
  <2>3. \A g \in Dirs : inode'[g].mode # "dir" => Kept'[g] = {}
    BY <1>2, <1>3, <1>4 DEF ModesTrue
  <2> QED
    BY <1>3, <1>4, <2>1, <2>2, <2>3 DEF ModesTrue
<1>7. Placed'
  <2>1. \A g \in Dirs : \A z \in Kept'[g] : z.ino \notin ifree'
    BY <1>1, <1>2, <1>3, <1>4 DEF Placed
  <2>2. \A j \in Inos \ ifree' : \E g \in Dirs : \E z \in Kept'[g] : z.ino = j
    BY <1>1, <1>2, <1>3, <1>4 DEF Placed
  <2>3. \A g \in Dirs : \A z \in Kept'[g] : z.ino = i => g = e /\ z = y
    BY <1>1, <1>2, <1>5
  <2>4. \A g \in Dirs : \A z \in Kept'[g] : z.ino # i => z \in Kept[g]
    BY <1>1, <1>2
  <2>5. \A g, h \in Dirs : \A z \in Kept'[g], w \in Kept'[h] : z.ino = w.ino => g = h /\ z = w
    BY <1>4, <2>3, <2>4 DEF Placed
  <2> QED
    BY <2>1, <2>2, <2>5 DEF Placed
<1>8. NamesApart'
  BY <1>1, <1>2, <1>3, <1>4 DEF NamesApart
<1>9. CacheTells'
  <2>1. dentry' \in [Dirs -> [Names -> Inos \cup {Negative, Unknown}]]
    BY <1>4 DEF CacheTells, DentryMoved
  <2>2. \A g \in Dirs, k \in Names :
          dentry'[g][k] = IF g = e /\ k = m THEN i
                          ELSE IF g = d /\ k = n THEN Unknown ELSE dentry[g][k]
    BY <1>4 DEF CacheTells, DentryMoved
  <2>3. ASSUME NEW g \in Dirs, NEW k \in Names, dentry'[g][k] \in Inos
        PROVE  Bound(dentry'[g][k], k) \in Kept'[g]
    <3>1. CASE g = e /\ k = m
      BY <1>2, <2>2, <3>1 DEF y
    <3>2. CASE ~ (g = e /\ k = m)
      <4>1. dentry'[g][k] = dentry[g][k] /\ ~ (g = d /\ k = n)
        BY <2>2, <2>3, <3>2, CacheFacts
      <4>2. Bound(dentry[g][k], k) \in Kept[g] /\ Bound(dentry[g][k], k).name = k
        BY <1>4, <2>3, <4>1 DEF CacheTells, Bound
      <4> QED
        BY <1>1, <1>2, <4>1, <4>2
    <3> QED
      BY <3>1, <3>2
  <2>4. ASSUME NEW g \in Dirs, NEW k \in Names, dentry'[g][k] = Negative,
               NEW z \in Kept'[g]
        PROVE  z.name # k
    <3>1. dentry[g][k] = Negative /\ ~ (g = e /\ k = m)
      BY <2>2, <2>4, CacheFacts
    <3>2. z \in Kept[g] \/ (g = e /\ z = y)
      BY <1>2, <2>4
    <3> QED
      BY <1>1, <1>4, <3>1, <3>2 DEF CacheTells
  <2> QED
    BY <2>1, <2>3, <2>4 DEF CacheTells
<1> QED
  BY <1>6, <1>7, <1>8, <1>9 DEF TreeInv

\* The cache may learn what a search finds, and forget.
LEMMA CacheKeeps ==
  ASSUME TreeInv, UNCHANGED tree, NEW d \in Dirs, NEW n \in Names,
         NEW v, v = Unknown \/ v = Find(d, n) \/ v = dentry[d][n],
         dentry' = [dentry EXCEPT ![d][n] = v]
  PROVE  TreeInv'
<1>1. Blocks' /\ ModesTrue' /\ Placed' /\ NamesApart' /\ Kept' = Kept
  BY DEF TreeInv, tree, Blocks, ModesTrue, Placed, NamesApart, Kept
<1>2. /\ v \in Inos \cup {Negative, Unknown}
      /\ v \in Inos => Bound(v, n) \in Kept[d]
      /\ v = Negative => \A x \in Kept[d] : x.name # n
  <2>1. CASE v = Unknown \/ v = dentry[d][n]
    BY <2>1, CacheFacts DEF TreeInv, CacheTells
  <2>2. CASE v = Find(d, n) /\ \A x \in Kept[d] : x.name # n
    BY <2>2, FindTells, CacheFacts DEF TreeInv
  <2>3. ASSUME NEW x \in Kept[d], x.name = n, v = Find(d, n)
        PROVE  v \in Inos /\ Bound(v, n) \in Kept[d]
    BY <2>3, FindTells, KeptFields DEF TreeInv
  <2> QED
    BY <2>1, <2>2, <2>3, CacheFacts
<1>3. CacheTells'
  <2>1. CacheTells
    BY DEF TreeInv
  <2>2. \A g \in Dirs, k \in Names :
          dentry'[g][k] = IF g = d /\ k = n THEN v ELSE dentry[g][k]
    BY <2>1 DEF CacheTells
  <2>3. dentry' \in [Dirs -> [Names -> Inos \cup {Negative, Unknown}]]
    BY <1>2, <2>1 DEF CacheTells
  <2> QED
    BY <1>1, <1>2, <2>1, <2>2, <2>3 DEF CacheTells
<1> QED
  BY <1>1, <1>3 DEF TreeInv

\* The other steps change neither the tree nor the cache.
LEMMA OthersKeep ==
  ASSUME TreeInv, UNCHANGED <<tree, dentry>>
  PROVE  TreeInv'
BY DEF TreeInv, tree, Blocks, ModesTrue, Placed, NamesApart, CacheTells, Kept
\* The files and directories that the VFS passes are used inodes; what a
\* removal gives back is empty.
LEMMA RemovedEmpty ==
  ASSUME TreeInv, NEW d \in Dirs, NEW n \in Names,
         \/ Unlink(d, n)
         \/ Rmdir(d, n)
  PROVE  /\ dentry[d][n] \in Inos /\ Kept[dentry[d][n]] = {}
         /\ Remove(d, n, dentry[d][n])
         /\ inode[dentry[d][n]].mode # "none"
<1> DEFINE i == dentry[d][n]
<1>1. i \in Inos /\ i \in Dirs /\ Remove(d, n, i)
  BY DEF Unlink, Rmdir, Dirs
<1>2. CASE Unlink(d, n)
  BY <1>1, <1>2 DEF Unlink, TreeInv, ModesTrue
<1>3. CASE Rmdir(d, n)
  BY <1>1, <1>3, EmptyFirst DEF Rmdir, IsEmptyDir, TreeInv
<1> QED
  BY <1>1, <1>2, <1>3

\* Each operation keeps the tree.
LEMMA TreeStep ==
  ASSUME LongNames = {}, TreeInv, [Next]_vars
  PROVE  TreeInv'
<1>1. CASE UNCHANGED vars
  BY <1>1, OthersKeep DEF vars, tree
<1>2. ASSUME NEW d \in Dirs, NEW n \in Names, Lookup(d, n) PROVE TreeInv'
  <2> DEFINE v == IF dentry[d][n] = Unknown THEN Find(d, n) ELSE dentry[d][n]
  <2>1. /\ UNCHANGED tree /\ dentry' = [dentry EXCEPT ![d][n] = v]
        /\ v = Find(d, n) \/ v = dentry[d][n]
    BY <1>2 DEF Lookup
  <2> HIDE DEF v
  <2> QED
    BY <2>1, CacheKeeps
<1>3. ASSUME NEW d \in Dirs, NEW n \in Names, Forget(d, n) PROVE TreeInv'
  BY <1>3, CacheKeeps DEF Forget
<1>4. ASSUME NEW d \in Dirs, NEW n \in Names,
             \/ LookupBadInode(d, n) \/ CreateFails(d, n) \/ RmdirFails(d, n)
             \/ \E e \in Dirs, m \in Names :
                  RenameFails(d, n, e, m) \/ RenameOverrun(d, n, e, m)
      PROVE  TreeInv'
  BY <1>4, OthersKeep
     DEF LookupBadInode, CreateFails, RmdirFails, RenameFails, RenameOverrun
<1>5. ASSUME NEW d \in Dirs, NEW n \in Names, NEW mode \in {"dir", "file"},
             Create(d, n, mode)
      PROVE  TreeInv'
  BY <1>5, CreateAdds, AddsKeep
<1>6. ASSUME NEW d \in Dirs, NEW n \in Names, Unlink(d, n) \/ Rmdir(d, n)
      PROVE  TreeInv'
  <2> DEFINE i == dentry[d][n]
  <2>1. i \in Inos /\ Kept[i] = {} /\ Remove(d, n, i)
    BY <1>6, RemovedEmpty
  <2>2. Blocks' /\ Drops(d, n, i)
    BY <2>1, RemoveDrops
  <2>3. inode' = [inode EXCEPT ![d].nlink = @ - LinksLost(i),
                               ![i] = [mode |-> "none", nlink |-> @.nlink - 1]]
    BY <2>1 DEF Remove
  <2>4. PICK v \in {Negative, Unknown} :
          dentry' = [dentry EXCEPT ![d][n] = v, ![i] = [m \in Names |-> Unknown]]
    BY <2>1 DEF Remove
  <2> QED
    BY <2>1, <2>2, <2>3, <2>4, DropsKeep
<1>7. ASSUME NEW d \in Dirs, NEW n \in Names, NEW m \in Names, RenameHere(d, n, m)
      PROVE  TreeInv'
  <2>1. /\ dentry[d][n] \in Inos /\ n # m /\ Blocks'
        /\ Moves(d, n, d, m, dentry[d][n])
    BY <1>7, RenameHereMoves
  <2>2. inode' = inode /\ dentry' = DentryMoved(d, n, d, m)
    BY <1>7 DEF RenameHere
  <2>3. inode \in [Dirs -> [mode : {"none", "dir", "file"}, nlink : Int]]
    BY DEF TreeInv, ModesTrue
  <2>4. <<d, n>> # <<d, m>>
    BY <2>1
  <2> QED
    BY <2>1, <2>2, <2>3, <2>4, MovesKeep
<1>8. ASSUME NEW d \in Dirs, NEW n \in Names, NEW e \in Dirs, NEW m \in Names,
             RenameAcross(d, n, e, m)
      PROVE  TreeInv'
  <2> DEFINE i == dentry[d][n]
  <2>1. i \in Inos /\ d # e /\ Blocks' /\ Moves(d, n, e, m, i)
    BY <1>8, RenameAcrossMoves
  <2>2. inode' = LinksMoved(i, d, e) /\ dentry' = DentryMoved(d, n, e, m)
    BY <1>8 DEF RenameAcross
  <2>3. inode \in [Dirs -> [mode : {"none", "dir", "file"}, nlink : Int]]
    BY DEF TreeInv, ModesTrue
  <2>4. LinksLost(i) \in Int
    BY DEF LinksLost
  <2>5. inode[d].nlink - LinksLost(i) \in Int /\ inode[e].nlink + LinksLost(i) \in Int
    BY <2>3, <2>4
  <2>6. inode' \in [Dirs -> [mode : {"none", "dir", "file"}, nlink : Int]]
        /\ \A g \in Dirs : inode'[g].mode = inode[g].mode
    BY <2>1, <2>2, <2>3, <2>5 DEF LinksMoved
  <2>7. <<d, n>> # <<e, m>>
    BY <2>1
  <2> HIDE DEF i
  <2> QED
    BY <2>1, <2>2, <2>6, <2>7, MovesKeep DEF i
<1>9. ASSUME NEW i, Evict(i) PROVE TreeInv'
  BY <1>9, OthersKeep DEF Evict
<1>10. ASSUME NEW r, (\E d \in Listed : Open(r, d)) \/ Iterate(r) \/ Close(r)
       PROVE  TreeInv'
  BY <1>10, OthersKeep DEF Open, Iterate, Close
<1> QED
  BY <1>1, <1>2, <1>3, <1>4, <1>5, <1>6, <1>7, <1>8, <1>9, <1>10 DEF Next, Dirs

\* The tree is as it should be in every state.
LEMMA TreeAlways == LongNames = {} => (Spec => []TreeInv)
<1> SUFFICES ASSUME LongNames = {} PROVE Spec => []TreeInv
  OBVIOUS
<1>1. TreeInv /\ [Next]_vars => TreeInv'
  BY TreeStep
<1> QED
  BY TreeInit, <1>1, PTL DEF Spec

\* An inode is used as long as one entry of one directory names it, and the
\* entry that unlink and rmdir remove is that one.
THEOREM DirOneParent == LongNames = {} => (Spec => []OneParent)
<1>1. TreeInv => OneParent
  <2> SUFFICES ASSUME TreeInv, NEW i \in Inos
               PROVE  Cardinality({p \in Dirs \X Slots : files[p[1]][p[2]].ino = i})
                        = IF i \in ifree THEN 0 ELSE 1
    BY DEF OneParent, Dirs
  <2> DEFINE P == {p \in Dirs \X Slots : files[p[1]][p[2]].ino = i}
  <2>1. i # 0
    BY InoFacts
  <2>2. \A p \in P : files[p[1]][p[2]] \in Kept[p[1]]
    BY <2>1 DEF Kept, Held
  <2>3. CASE i \in ifree
    <3>1. P = {}
      BY <2>2, <2>3 DEF TreeInv, Placed
    <3> QED
      BY <2>3, <3>1, FS_EmptySet
  <2>4. CASE i \notin ifree
    <3>1. PICK d \in Dirs : \E x \in Kept[d] : x.ino = i
      BY <2>4 DEF TreeInv, Placed
    <3>2. PICK s \in Slots : files[d][s].ino = i
      BY <3>1 DEF Kept, Held
    <3>3. <<d, s>> \in P
      BY <3>2
    <3>4. \A p \in P : p[1] = d /\ p[2] = s
      <4> SUFFICES ASSUME NEW p \in P PROVE p[1] = d /\ p[2] = s
        OBVIOUS
      <4>1. p[1] = d
        BY <2>2, <3>3, <3>2 DEF TreeInv, Placed
      <4>2. Once(files[d])
        BY DEF TreeInv, Blocks, Whole
      <4> QED
        BY <4>1, <4>2, <3>2, <2>1 DEF Once
    <3>5. P = {<<d, s>>}
      BY <3>3, <3>4
    <3> QED
      BY <2>4, <3>5, FS_Singleton
  <2> QED
    BY <2>3, <2>4
<1> QED
  BY <1>1, TreeAlways, PTL

\* What the kernel remembers of a name is what a search of the directory would
\* find, so that create, which does not search, never adds a name twice.
THEOREM DirCacheTrue == LongNames = {} => (Spec => []CacheTrue)
<1>1. TreeInv => CacheTrue
  <2> SUFFICES ASSUME TreeInv, NEW d \in Dirs, NEW n \in Names, dentry[d][n] # Unknown
               PROVE  dentry[d][n] = Find(d, n)
    BY DEF CacheTrue, Dirs
  <2>1. CASE dentry[d][n] \in Inos
    <3>1. Bound(dentry[d][n], n) \in Kept[d]
      BY <2>1 DEF TreeInv, CacheTells
    <3>2. Bound(dentry[d][n], n).name = n /\ Bound(dentry[d][n], n).ino = dentry[d][n]
      BY DEF Bound
    <3> QED
      BY <3>1, <3>2, FindTells DEF TreeInv
  <2>2. CASE dentry[d][n] = Negative
    BY <2>2, FindTells DEF TreeInv, CacheTells
  <2> QED
    BY <2>1, <2>2 DEF TreeInv, CacheTells
<1> QED
  BY <1>1, TreeAlways, PTL
-----------------------------------------------------------------------------
(* The counter of free inodes, whatever the names.                          *)

CountInv ==
  /\ ifree \subseteq Inos
  /\ inode \in [Dirs -> [mode : {"none", "dir", "file"}, nlink : Int]]
  /\ inode[Root].mode = "dir"
  /\ \A i \in Inos : i \in ifree <=> inode[i].mode = "none"
  /\ FreeInodesFollow

\* Sets of inodes are finite.
LEMMA InosFinite ==
  /\ IsFiniteSet(Inos) /\ Cardinality(Inos) = NrInodes - 2
  /\ \A S : S \subseteq Inos => IsFiniteSet(S) /\ Cardinality(S) \in Nat
<1>1. IsFiniteSet(Inos) /\ Cardinality(Inos) = NrInodes - 2
  BY FS_Interval, DirAssumption DEF Inos
<1>2. ASSUME NEW S, S \subseteq Inos PROVE IsFiniteSet(S) /\ Cardinality(S) \in Nat
  BY <1>1, <1>2, FS_Subset, FS_CardinalityType
<1> QED
  BY <1>1, <1>2

\* mkfs counts one used inode too few.
LEMMA CountInit == Init => CountInv
<1> SUFFICES ASSUME Init PROVE CountInv
  OBVIOUS
<1>1. inode \in [Dirs -> [mode : {"none", "dir", "file"}, nlink : Int]]
  BY InoFacts DEF Init, Dirs
<1>2. FreeInodesFollow
  BY InosFinite, DirAssumption DEF Init, FreeInodesFollow
<1> QED
  BY <1>1, <1>2, InoFacts DEF Init, CountInv, Dirs

\* create, unlink and rmdir change one bit and the counter; rename moves links.
LEMMA CountStep ==
  ASSUME CountInv, [Next]_vars
  PROVE  CountInv'
<1> DEFINE Typed == inode \in [Dirs -> [mode : {"none", "dir", "file"}, nlink : Int]]
<1>0. Typed /\ IsFiniteSet(ifree) /\ Cardinality(ifree) \in Nat /\ \A i \in Inos : i \in Dirs
  BY InosFinite DEF CountInv, Dirs
<1>1. ASSUME UNCHANGED <<ifree, nrFreeInodes, inode>> PROVE CountInv'
  BY <1>1 DEF CountInv, FreeInodesFollow
<1>2. ASSUME NEW d \in Dirs, NEW n \in Names, NEW mode \in {"dir", "file"},
             Create(d, n, mode)
      PROVE  CountInv'
  <2> DEFINE i == Min(ifree)
  <2>1. i \in ifree /\ i \in Inos /\ i \in Dirs
    BY <1>2, FreshIno DEF CountInv, Create, Dirs
  <2>2. /\ ifree' = ifree \ {i} /\ nrFreeInodes' = nrFreeInodes - 1
        /\ inode' = [inode EXCEPT ![i] = NewInode(mode),
                                  ![d].nlink = IF mode = "dir" THEN @ + 1 ELSE @]
        /\ inode[d].mode = "dir"
    BY <1>2 DEF Create, Usable
  <2> HIDE DEF i
  <2>3. NewInode(mode) \in [mode : {"none", "dir", "file"}, nlink : Int]
        /\ NewInode(mode).mode = mode /\ mode # "none"
    BY DEF NewInode
  <2>4. d # i
    BY <2>1, <2>2 DEF CountInv
  <2>5. Typed' /\ \A g \in Dirs : inode'[g].mode = IF g = i THEN mode ELSE inode[g].mode
    BY <1>0, <2>1, <2>2, <2>3, <2>4
  <2>6. Cardinality(ifree') = Cardinality(ifree) - 1
    BY <1>0, <2>1, <2>2, FS_RemoveElement
  <2>7. FreeInodesFollow'
    BY <1>0, <2>2, <2>6 DEF FreeInodesFollow, CountInv
  <2>8. \A g \in Inos : g \in ifree' <=> inode'[g].mode = "none"
    BY <1>0, <2>1, <2>2, <2>3, <2>5 DEF CountInv
  <2>9. inode'[Root].mode = "dir"
    BY <2>1, <2>5, InoFacts DEF CountInv, Dirs
  <2> QED
    BY <2>2, <2>5, <2>7, <2>8, <2>9 DEF CountInv
<1>3. ASSUME NEW d \in Dirs, NEW n \in Names, Unlink(d, n) \/ Rmdir(d, n)
      PROVE  CountInv'
  <2> DEFINE i == dentry[d][n]
  <2>1. i \in Inos /\ i \in Dirs /\ Remove(d, n, i) /\ inode[i].mode # "none"
    BY <1>3 DEF Unlink, Rmdir, Dirs
  <2>2. /\ ifree' = ifree \cup {i} /\ nrFreeInodes' = nrFreeInodes + 1
        /\ inode' = [inode EXCEPT ![d].nlink = @ - LinksLost(i),
                                  ![i] = [mode |-> "none", nlink |-> @.nlink - 1]]
    BY <2>1 DEF Remove, PutInode
  <2> HIDE DEF i
  <2>3. LinksLost(i) \in Int
    BY DEF LinksLost
  <2>4. inode[d].nlink - LinksLost(i) \in Int /\ inode[i].nlink - 1 \in Int
    BY <1>0, <2>1, <2>3
  <2>5. inode[d].nlink - LinksLost(i) - 1 \in Int
    BY <2>4
  <2>6. Typed' /\ \A g \in Dirs : inode'[g].mode = IF g = i THEN "none" ELSE inode[g].mode
    BY <1>0, <2>1, <2>2, <2>4, <2>5
  <2>7. i \notin ifree
    BY <2>1 DEF CountInv
  <2>8. Cardinality(ifree') = Cardinality(ifree) + 1
    BY <1>0, <2>2, <2>7, FS_AddElement
  <2>9. FreeInodesFollow'
    BY <1>0, <2>2, <2>8 DEF FreeInodesFollow, CountInv
  <2>10. \A g \in Inos : g \in ifree' <=> inode'[g].mode = "none"
    BY <1>0, <2>1, <2>2, <2>6 DEF CountInv
  <2>11. inode'[Root].mode = "dir"
    BY <2>1, <2>6, InoFacts DEF CountInv, Dirs
  <2>12. ifree' \subseteq Inos
    BY <2>1, <2>2 DEF CountInv
  <2> QED
    BY <2>6, <2>9, <2>10, <2>11, <2>12 DEF CountInv
<1>4. ASSUME NEW d \in Dirs, NEW n \in Names, NEW e \in Dirs, NEW m \in Names,
             RenameAcross(d, n, e, m)
      PROVE  CountInv'
  <2> DEFINE l == LinksLost(dentry[d][n])
  <2>1. /\ ifree' = ifree /\ nrFreeInodes' = nrFreeInodes
        /\ inode' = [inode EXCEPT ![d].nlink = @ - l, ![e].nlink = @ + l] /\ d # e
    BY <1>4 DEF RenameAcross, LinksMoved
  <2>2. l \in Int
    BY DEF LinksLost
  <2> HIDE DEF l
  <2>3. inode[d].nlink - l \in Int /\ inode[e].nlink + l \in Int
    BY <1>0, <2>2
  <2>4. Typed' /\ \A g \in Dirs : inode'[g].mode = inode[g].mode
    BY <1>0, <2>1, <2>3
  <2> QED
    BY <1>0, <2>1, <2>4, InoFacts DEF CountInv, FreeInodesFollow, Dirs
<1>5. CASE UNCHANGED vars
  BY <1>1, <1>5 DEF vars
<1>6. ASSUME NEW d \in Dirs, NEW n \in Names,
             \/ Lookup(d, n) \/ LookupBadInode(d, n) \/ Forget(d, n)
             \/ CreateFails(d, n) \/ RmdirFails(d, n)
             \/ \E m \in Names : RenameHere(d, n, m)
             \/ \E e \in Dirs, m \in Names :
                  RenameFails(d, n, e, m) \/ RenameOverrun(d, n, e, m)
      PROVE  CountInv'
  BY <1>1, <1>6 DEF Lookup, LookupBadInode, Forget, CreateFails, RmdirFails,
     RenameHere, RenameFails, RenameOverrun, tree
<1>7. ASSUME NEW i, Evict(i) PROVE CountInv'
  BY <1>1, <1>7 DEF Evict, tree
<1>8. ASSUME NEW r, (\E d \in Listed : Open(r, d)) \/ Iterate(r) \/ Close(r)
      PROVE  CountInv'
  BY <1>1, <1>8 DEF Open, Iterate, Close, tree
<1> QED
  BY <1>2, <1>3, <1>4, <1>5, <1>6, <1>7, <1>8 DEF Next, Dirs

\* The counter of free inodes is one more than the bits that are set, as mkfs
\* leaves it, after every create and removal: a number that is given back was
\* in use.
THEOREM DirFreeInodesFollow == Spec => []FreeInodesFollow
<1>1. CountInv /\ [Next]_vars => CountInv'
  BY CountStep
<1>2. CountInv => FreeInodesFollow
  BY DEF CountInv
<1> QED
  BY CountInit, <1>1, <1>2, PTL DEF Spec

-----------------------------------------------------------------------------
(* Link counts.                                                             *)

Below == [d \in Dirs |-> Subdirs(d)]

LinkInv ==
  /\ \A d \in Dirs \ ifree :
       inode[d].nlink = IF inode[d].mode = "dir" THEN 2 + Cardinality(Below[d]) ELSE 1
  /\ \A i \in ifree : inode[i].nlink \in Nat

\* Which directories a directory holds.
BelowTrue ==
  \A d \in Dirs :
    /\ \A j : j \in Below[d] <=> inode[j].mode = "dir" /\ \E x \in Kept[d] : x.ino = j
    /\ Below[d] \subseteq Inos
    /\ IsFiniteSet(Below[d]) /\ Cardinality(Below[d]) \in Nat

\* Links are counted on what directories hold.
LEMMA SubdirsKept == TreeInv => BelowTrue
<1> SUFFICES ASSUME TreeInv, NEW d \in Dirs
             PROVE  /\ \A j : j \in Below[d] <=> inode[j].mode = "dir" /\ \E x \in Kept[d] : x.ino = j
                    /\ Below[d] \subseteq Inos
                    /\ IsFiniteSet(Below[d]) /\ Cardinality(Below[d]) \in Nat
  BY DEF BelowTrue
<1>1. \A j : j \in Below[d] <=> inode[j].mode = "dir" /\ \E x \in Kept[d] : x.ino = j
  BY EntriesKept DEF Subdirs, Below
<1>2. Below[d] \subseteq Inos
  BY <1>1, KeptFields DEF TreeInv
<1> QED
  BY <1>1, <1>2, InosFinite

\* Only the root is used at first.
LEMMA LinkInit == Init => LinkInv
<1> SUFFICES ASSUME Init PROVE LinkInv
  OBVIOUS
<1>1. TreeInv
  BY TreeInit
<1>2. Kept[Root] = {} /\ Root \in Dirs
  BY EmptyHeld DEF Kept, Init, Dirs
<1>3. Below[Root] = {}
  BY <1>1, <1>2, SubdirsKept DEF BelowTrue
<1>4. inode[Root].nlink = 2 /\ inode[Root].mode = "dir"
  BY DEF Init
<1>5. \A d \in Dirs \ ifree : d = Root
  BY DEF Init, Dirs
<1>6. \A i \in ifree : inode[i].nlink \in Nat
  BY InoFacts DEF Init
<1>7. Cardinality(Below[Root]) = 0
  BY <1>3, FS_EmptySet
<1> QED
  BY <1>4, <1>5, <1>6, <1>7 DEF LinkInv

\* mkdir gives its directory a link, and the new one two.
LEMMA AddsLinks ==
  ASSUME TreeInv, TreeInv', LinkInv, NEW d \in Dirs, NEW n \in Names, NEW i \in Inos,
         NEW mode \in {"dir", "file"}, Adds(d, n, i), d # i,
         inode' = [inode EXCEPT ![i] = NewInode(mode),
                                ![d].nlink = IF mode = "dir" THEN @ + 1 ELSE @]
  PROVE  LinkInv'
<1>0. BelowTrue /\ BelowTrue'
  BY SubdirsKept, PTL
<1>1. i \in ifree /\ inode[d].mode = "dir" /\ ifree' = ifree \ {i} /\ i \in Dirs
  BY DEF Adds, Dirs
<1>2. \A g \in Dirs : \A x : x \in Kept'[g] <=> x \in Kept[g] \/ (g = d /\ x = Bound(i, n))
  <2>1. \A g \in Dirs : Kept'[g] = IF g = d THEN Kept[g] \cup {Bound(i, n)} ELSE Kept[g]
    BY DEF Adds, Kept
  <2> QED
    BY <2>1
<1>3. Bound(i, n).ino = i
  BY DEF Bound
<1>4. /\ inode'[i] = NewInode(mode)
      /\ inode'[d].mode = "dir"
      /\ inode'[d].nlink = IF mode = "dir" THEN inode[d].nlink + 1 ELSE inode[d].nlink
      /\ \A g \in Dirs \ {i, d} : inode'[g] = inode[g]
      /\ \A g \in Dirs : g # i => inode'[g].mode = inode[g].mode
  BY <1>1 DEF TreeInv, ModesTrue
<1>5. \A g \in Dirs : \A x \in Kept[g] : x.ino # i /\ x.ino \in Dirs
  BY <1>1, KeptFields DEF TreeInv, Placed, Dirs
<1>6. NewInode(mode).mode = mode /\ NewInode(mode).nlink = IF mode = "dir" THEN 2 ELSE 1
  BY DEF NewInode
<1>7. \A g \in Dirs : Below'[g] = IF g = d /\ mode = "dir" THEN Below[g] \cup {i} ELSE Below[g]
  <2> SUFFICES ASSUME NEW g \in Dirs, NEW j
               PROVE  j \in Below'[g] <=> j \in Below[g] \/ (g = d /\ j = i /\ mode = "dir")
    OBVIOUS
  <2>1. j \in Below'[g] <=> inode'[j].mode = "dir" /\ \E x \in Kept'[g] : x.ino = j
    BY <1>0 DEF BelowTrue
  <2>2. j \in Below[g] <=> inode[j].mode = "dir" /\ \E x \in Kept[g] : x.ino = j
    BY <1>0 DEF BelowTrue
  <2>3. (\E x \in Kept'[g] : x.ino = j) <=>
          (\E x \in Kept[g] : x.ino = j) \/ (g = d /\ j = i)
    BY <1>2, <1>3
  <2>4. (\E x \in Kept[g] : x.ino = j) => j # i /\ inode'[j].mode = inode[j].mode
    BY <1>4, <1>5
  <2>5. j = i => inode'[j].mode = mode
    BY <1>4, <1>6
  <2> QED
    BY <2>1, <2>2, <2>3, <2>4, <2>5
<1>8. i \notin Below[d] /\ Below[i] = {}
  <2>1. Kept[i] = {}
    BY <1>1 DEF TreeInv, ModesTrue
  <2> QED
    BY <1>1, <1>5, <2>1, <1>0 DEF BelowTrue
<1>9. ASSUME NEW g \in Dirs \ ifree'
      PROVE  inode'[g].nlink = IF inode'[g].mode = "dir" THEN 2 + Cardinality(Below'[g]) ELSE 1
  <2>1. CASE g = i
    <3>1. Below'[g] = {} /\ inode'[g] = NewInode(mode)
      BY <1>4, <1>7, <1>8, <2>1
    <3>2. Cardinality(Below'[g]) = 0
      BY <3>1, FS_EmptySet
    <3>3. inode'[g].mode = mode /\ inode'[g].nlink = IF mode = "dir" THEN 2 ELSE 1
      BY <1>6, <3>1
    <3>4. 2 + Cardinality(Below'[g]) = 2
      BY <3>2
    <3> QED
      BY <3>3, <3>4
  <2>2. CASE g = d
    <3>1. inode[d].nlink = 2 + Cardinality(Below[d])
      BY <1>1, <1>9, <2>2 DEF LinkInv, Dirs
    <3>2. mode = "dir" => Cardinality(Below[d] \cup {i}) = Cardinality(Below[d]) + 1
      BY <1>8, <1>0, FS_AddElement DEF BelowTrue
    <3>3. Cardinality(Below[d]) \in Nat
      BY <1>0 DEF BelowTrue
    <3>4. CASE mode = "dir"
      <4>1. Below'[g] = Below[d] \cup {i} /\ inode'[g].nlink = inode[d].nlink + 1
            /\ inode'[g].mode = "dir"
        BY <1>4, <1>7, <2>2, <3>4
      <4> QED
        BY <3>1, <3>2, <3>3, <3>4, <4>1
    <3>5. CASE mode # "dir"
      <4>1. Below'[g] = Below[d] /\ inode'[g].nlink = inode[d].nlink
            /\ inode'[g].mode = "dir"
        BY <1>4, <1>7, <2>2, <3>5
      <4> QED
        BY <3>1, <3>3, <4>1
    <3> QED
      BY <3>4, <3>5
  <2>3. CASE g # i /\ g # d
    BY <1>1, <1>4, <1>7, <1>9, <2>3 DEF LinkInv, Dirs
  <2> QED
    BY <2>1, <2>2, <2>3
<1>10. \A g \in ifree' : inode'[g].nlink \in Nat
  <2>1. \A g \in ifree' : g \in Dirs \ {i, d} /\ g \in ifree
    BY <1>1 DEF TreeInv, Blocks, ModesTrue, Dirs
  <2> QED
    BY <1>4, <2>1 DEF LinkInv
<1> QED
  BY <1>9, <1>10 DEF LinkInv, Dirs

\* rmdir takes the link of the directory back.
LEMMA DropsLinks ==
  ASSUME TreeInv, TreeInv', LinkInv, NEW d \in Dirs, NEW n \in Names, NEW i \in Inos,
         Drops(d, n, i),
         inode' = [inode EXCEPT ![d].nlink = @ - LinksLost(i),
                                ![i] = [mode |-> "none", nlink |-> @.nlink - 1]]
  PROVE  LinkInv'
<1>0. BelowTrue /\ BelowTrue'
  BY SubdirsKept, PTL
<1>1. /\ Bound(i, n) \in Kept[d] /\ Kept[i] = {} /\ d # i
      /\ ifree' = ifree \cup {i} /\ i \in Dirs
  BY DEF Drops, Dirs
<1>2. \A g \in Dirs : \A x : x \in Kept'[g] <=> x \in Kept[g] /\ ~ (g = d /\ x = Bound(i, n))
  <2>1. \A g \in Dirs : Kept'[g] = IF g = d THEN Kept[g] \ {Bound(i, n)} ELSE Kept[g]
    BY DEF Drops, Kept
  <2> QED
    BY <2>1
<1>3. Bound(i, n).ino = i
  BY DEF Bound
<1>4. /\ inode'[i].mode = "none" /\ inode'[i].nlink = inode[i].nlink - 1
      /\ inode'[d].nlink = inode[d].nlink - LinksLost(i)
      /\ \A g \in Dirs \ {i, d} : inode'[g] = inode[g]
      /\ \A g \in Dirs : g # i => inode'[g].mode = inode[g].mode
  BY <1>1 DEF TreeInv, ModesTrue
<1>5. \A g \in Dirs : \A x \in Kept[g] : x.ino \in Dirs /\ (x.ino = i => g = d /\ x = Bound(i, n))
  BY <1>1, <1>3, KeptFields DEF TreeInv, Placed, Dirs
<1>6. i \notin ifree /\ d \notin ifree /\ inode[d].mode = "dir"
  BY <1>1, <1>3, InoFacts DEF TreeInv, Placed, ModesTrue, Dirs, Blocks
<1>7. \A g \in Dirs : Below'[g] = Below[g] \ {i}
  <2> SUFFICES ASSUME NEW g \in Dirs, NEW j
               PROVE  j \in Below'[g] <=> j \in Below[g] /\ j # i
    OBVIOUS
  <2>1. j \in Below'[g] <=> inode'[j].mode = "dir" /\ \E x \in Kept'[g] : x.ino = j
    BY <1>0 DEF BelowTrue
  <2>2. j \in Below[g] <=> inode[j].mode = "dir" /\ \E x \in Kept[g] : x.ino = j
    BY <1>0 DEF BelowTrue
  <2>3. (\E x \in Kept'[g] : x.ino = j) <=> (\E x \in Kept[g] : x.ino = j) /\ j # i
    BY <1>2, <1>3, <1>5
  <2>4. (\E x \in Kept[g] : x.ino = j) /\ j # i => inode'[j].mode = inode[j].mode
    BY <1>4, <1>5
  <2> QED
    BY <2>1, <2>2, <2>3, <2>4
<1>8. \A g \in Dirs : g # d => i \notin Below[g]
  BY <1>5, <1>0 DEF BelowTrue
<1>9. ASSUME NEW g \in Dirs \ ifree'
      PROVE  inode'[g].nlink = IF inode'[g].mode = "dir" THEN 2 + Cardinality(Below'[g]) ELSE 1
  <2>1. g # i /\ g \in (Inos \cup {Root}) \ ifree
    BY <1>1, <1>9 DEF Dirs
  <2>2. CASE g = d
    <3>1. inode[d].nlink = 2 + Cardinality(Below[d])
      BY <1>6, <2>1, <2>2 DEF LinkInv
    <3>2. Cardinality(Below[d]) \in Nat /\ IsFiniteSet(Below[d])
      BY <1>0 DEF BelowTrue
    <3>3. i \in Below[d] <=> inode[i].mode = "dir"
      BY <1>1, <1>3, <1>0 DEF BelowTrue
    <3>4. CASE inode[i].mode = "dir"
      <4>1. Cardinality(Below[d] \ {i}) = Cardinality(Below[d]) - 1
        BY <3>2, <3>3, <3>4, FS_RemoveElement
      <4>2. LinksLost(i) = 1
        BY <3>4 DEF LinksLost
      <4>3. inode'[d].mode = "dir"
        BY <1>1, <1>4, <1>6
      <4>4. Below'[g] = Below[d] \ {i} /\ inode'[g].nlink = inode[d].nlink - 1
        BY <1>4, <1>7, <2>2, <4>2
      <4> QED
        BY <2>2, <3>1, <3>2, <4>1, <4>3, <4>4
    <3>5. CASE inode[i].mode # "dir"
      <4>1. Below[d] \ {i} = Below[d]
        BY <3>3, <3>5
      <4>2. LinksLost(i) = 0
        BY <3>5 DEF LinksLost
      <4>3. inode'[d].mode = "dir"
        BY <1>1, <1>4, <1>6
      <4>4. Below'[g] = Below[d] /\ inode'[g].nlink = inode[d].nlink - 0
        BY <1>4, <1>7, <2>2, <4>1, <4>2
      <4> QED
        BY <2>2, <3>1, <3>2, <4>3, <4>4
    <3> QED
      BY <3>4, <3>5
  <2>3. CASE g # d
    <3>1. Below'[g] = Below[g]
      BY <1>7, <1>8, <2>3
    <3> QED
      BY <1>4, <2>1, <2>3, <3>1 DEF LinkInv
  <2> QED
    BY <2>2, <2>3
<1>10. \A g \in ifree' : inode'[g].nlink \in Nat
  <2>1. inode[i].nlink \in Nat \ {0}
    <3>1. inode[i].nlink = IF inode[i].mode = "dir" THEN 2 + Cardinality(Below[i]) ELSE 1
      BY <1>1, <1>6 DEF LinkInv
    <3>2. Cardinality(Below[i]) \in Nat
      BY <1>1, <1>0 DEF BelowTrue
    <3> QED
      BY <3>1, <3>2
  <2>2. \A g \in ifree' : g = i \/ (g \in ifree /\ g \in Dirs \ {i, d})
    BY <1>1, <1>6 DEF TreeInv, Blocks, Dirs
  <2>3. inode'[i].nlink \in Nat
    BY <1>4, <2>1
  <2> QED
    BY <1>4, <2>2, <2>3 DEF LinkInv
<1> QED
  BY <1>9, <1>10 DEF LinkInv, Dirs

\* rename moves the link of a directory.
LEMMA MovesLinks ==
  ASSUME TreeInv, TreeInv', LinkInv, NEW d \in Dirs, NEW n \in Names, NEW e \in Dirs,
         NEW m \in Names, NEW i \in Inos, Moves(d, n, e, m, i),
         inode' = IF d = e THEN inode ELSE LinksMoved(i, d, e)
  PROVE  LinkInv'
<1>0. BelowTrue /\ BelowTrue'
  BY SubdirsKept, PTL
<1> DEFINE l == LinksLost(i)
<1>1. /\ Bound(i, n) \in Kept[d] /\ inode[e].mode = "dir" /\ ifree' = ifree
      /\ Bound(i, n).ino = i /\ Bound(i, m).ino = i
  BY DEF Moves, Bound
<1>2. \A g \in Dirs : \A z : z \in Kept'[g] <=>
        \/ z \in Kept[g] /\ ~ (g = d /\ z = Bound(i, n))
        \/ g = e /\ z = Bound(i, m)
  <2>1. \A g \in Dirs : Kept'[g] = (Kept[g] \ (IF g = d THEN {Bound(i, n)} ELSE {}))
                                      \cup (IF g = e THEN {Bound(i, m)} ELSE {})
    BY DEF Moves, Kept
  <2> QED
    BY <2>1
<1>3. l \in Int /\ l = IF inode[i].mode = "dir" THEN 1 ELSE 0
  BY DEF LinksLost
<1>4. /\ \A g \in Dirs : inode'[g].mode = inode[g].mode
      /\ d # e => /\ inode'[d].nlink = inode[d].nlink - l
                  /\ inode'[e].nlink = inode[e].nlink + l
      /\ \A g \in Dirs : d = e \/ (g # d /\ g # e) => inode'[g] = inode[g]
  BY DEF TreeInv, ModesTrue, LinksMoved
<1> HIDE DEF l
<1>5. \A g \in Dirs : \A x \in Kept[g] : x.ino \in Dirs /\ (x.ino = i => g = d /\ x = Bound(i, n))
  BY <1>1, KeptFields DEF TreeInv, Placed, Dirs
<1>6. d \notin ifree /\ e \notin ifree /\ inode[d].mode = "dir" /\ i \in Dirs
  BY <1>1, InoFacts DEF TreeInv, ModesTrue, Dirs, Blocks
<1>7. \A g \in Dirs : \A j : j \in Below'[g] <=>
        IF j = i THEN g = e /\ inode[i].mode = "dir" ELSE j \in Below[g]
  <2> SUFFICES ASSUME NEW g \in Dirs, NEW j
               PROVE  j \in Below'[g] <=>
                        IF j = i THEN g = e /\ inode[i].mode = "dir" ELSE j \in Below[g]
    OBVIOUS
  <2>1. j \in Below'[g] <=> inode'[j].mode = "dir" /\ \E x \in Kept'[g] : x.ino = j
    <3>1. \A k : k \in Below'[g] <=> inode'[k].mode = "dir" /\ \E x \in Kept'[g] : x.ino = k
      BY <1>0 DEF BelowTrue
    <3> QED
      BY <3>1
  <2>2. j \in Below[g] <=> inode[j].mode = "dir" /\ \E x \in Kept[g] : x.ino = j
    BY <1>0 DEF BelowTrue
  <2>3. (\E x \in Kept'[g] : x.ino = j) <=> IF j = i THEN g = e ELSE \E x \in Kept[g] : x.ino = j
    BY <1>1, <1>2, <1>5
  <2>4. (\E x \in Kept[g] : x.ino = j) => j \in Dirs
    BY <1>5
  <2> QED
    BY <1>4, <1>6, <2>1, <2>2, <2>3, <2>4
<1>8. \A g \in Dirs : i \in Below[g] <=> g = d /\ inode[i].mode = "dir"
  BY <1>1, <1>5, <1>0 DEF BelowTrue
<1>9. ASSUME NEW g \in Dirs \ ifree'
      PROVE  inode'[g].nlink = IF inode'[g].mode = "dir" THEN 2 + Cardinality(Below'[g]) ELSE 1
  <2>1. /\ g \in (Inos \cup {Root}) \ ifree
        /\ Cardinality(Below[g]) \in Nat /\ IsFiniteSet(Below[g])
        /\ inode[g].nlink = IF inode[g].mode = "dir" THEN 2 + Cardinality(Below[g]) ELSE 1
    <3>1. g \in (Inos \cup {Root}) \ ifree
      BY <1>1, <1>9 DEF Dirs
    <3> QED
      BY <3>1, <1>0 DEF BelowTrue, LinkInv
  <2>2. CASE d = e \/ (g # d /\ g # e) \/ inode[i].mode # "dir"
    <3>1. \A j : j \in Below'[g] <=> j \in Below[g]
      BY <1>7, <1>8, <2>2
    <3>2. Below'[g] = Below[g]
      BY <3>1
    <3>3. inode'[g].nlink = inode[g].nlink
      BY <1>3, <1>4, <2>2 DEF TreeInv, ModesTrue
    <3> QED
      BY <1>4, <2>1, <3>2, <3>3
  <2>3. CASE d # e /\ g = d /\ inode[i].mode = "dir"
    <3>1. Below'[g] = Below[g] \ {i} /\ i \in Below[g]
      BY <1>7, <1>8, <2>3
    <3>2. Cardinality(Below[g] \ {i}) = Cardinality(Below[g]) - 1
      BY <2>1, <3>1, FS_RemoveElement
    <3> QED
      BY <1>3, <1>4, <1>6, <2>1, <2>3, <3>1, <3>2
  <2>4. CASE d # e /\ g = e /\ inode[i].mode = "dir"
    <3>1. Below'[g] = Below[g] \cup {i} /\ i \notin Below[g]
      BY <1>7, <1>8, <2>4
    <3>2. Cardinality(Below[g] \cup {i}) = Cardinality(Below[g]) + 1
      BY <2>1, <3>1, FS_AddElement
    <3> QED
      BY <1>1, <1>3, <1>4, <2>1, <2>4, <3>1, <3>2
  <2> QED
    BY <2>2, <2>3, <2>4
<1>10. \A g \in ifree' : inode'[g].nlink \in Nat
  <2>1. \A g \in ifree' : g \in ifree /\ g # d /\ g # e /\ g \in Dirs
    BY <1>1, <1>6 DEF TreeInv, Blocks, Dirs
  <2> QED
    BY <1>4, <2>1 DEF LinkInv
<1> QED
  BY <1>9, <1>10 DEF LinkInv, Dirs

\* Links are counted by every operation.
LEMMA LinkStep ==
  ASSUME LongNames = {}, TreeInv, TreeInv', LinkInv, [Next]_vars
  PROVE  LinkInv'
<1>1. ASSUME UNCHANGED <<ifree, inode, files>> PROVE LinkInv'
  <2>1. BelowTrue /\ BelowTrue'
    BY SubdirsKept, PTL
  <2>2. Below' = Below
    BY <1>1 DEF Below, Subdirs, Entries
  <2> QED
    BY <1>1, <2>2 DEF LinkInv
<1>2. ASSUME NEW d \in Dirs, NEW n \in Names, NEW mode \in {"dir", "file"},
             Create(d, n, mode)
      PROVE  LinkInv'
  BY <1>2, CreateAdds, AddsLinks
<1>3. ASSUME NEW d \in Dirs, NEW n \in Names, Unlink(d, n) \/ Rmdir(d, n)
      PROVE  LinkInv'
  <2> DEFINE i == dentry[d][n]
  <2>1. i \in Inos /\ Kept[i] = {} /\ Remove(d, n, i)
    BY <1>3, RemovedEmpty
  <2>2. Drops(d, n, i)
    BY <2>1, RemoveDrops
  <2>3. inode' = [inode EXCEPT ![d].nlink = @ - LinksLost(i),
                               ![i] = [mode |-> "none", nlink |-> @.nlink - 1]]
    BY <2>1 DEF Remove
  <2> QED
    BY <2>1, <2>2, <2>3, DropsLinks
<1>4. ASSUME NEW d \in Dirs, NEW n \in Names, NEW m \in Names, RenameHere(d, n, m)
      PROVE  LinkInv'
  <2>1. dentry[d][n] \in Inos /\ Moves(d, n, d, m, dentry[d][n])
    BY <1>4, RenameHereMoves
  <2>2. inode' = inode
    BY <1>4 DEF RenameHere
  <2> QED
    BY <2>1, <2>2, MovesLinks
<1>5. ASSUME NEW d \in Dirs, NEW n \in Names, NEW e \in Dirs, NEW m \in Names,
             RenameAcross(d, n, e, m)
      PROVE  LinkInv'
  <2>1. dentry[d][n] \in Inos /\ d # e /\ Moves(d, n, e, m, dentry[d][n])
    BY <1>5, RenameAcrossMoves
  <2>2. inode' = LinksMoved(dentry[d][n], d, e)
    BY <1>5 DEF RenameAcross
  <2> QED
    BY <2>1, <2>2, MovesLinks
<1>6. CASE UNCHANGED vars
  BY <1>1, <1>6 DEF vars
<1>7. ASSUME NEW d \in Dirs, NEW n \in Names,
             \/ Lookup(d, n) \/ LookupBadInode(d, n) \/ Forget(d, n)
             \/ CreateFails(d, n) \/ RmdirFails(d, n)
             \/ \E e \in Dirs, m \in Names :
                  RenameFails(d, n, e, m) \/ RenameOverrun(d, n, e, m)
      PROVE  LinkInv'
  BY <1>1, <1>7 DEF Lookup, LookupBadInode, Forget, CreateFails, RmdirFails,
     RenameFails, RenameOverrun, tree
<1>8. ASSUME NEW i, Evict(i) PROVE LinkInv'
  BY <1>1, <1>8 DEF Evict, tree
<1>9. ASSUME NEW r, (\E d \in Listed : Open(r, d)) \/ Iterate(r) \/ Close(r)
      PROVE  LinkInv'
  BY <1>1, <1>9 DEF Open, Iterate, Close, tree
<1> QED
  BY <1>2, <1>3, <1>4, <1>5, <1>6, <1>7, <1>8, <1>9 DEF Next, Dirs

\* A file has one link, a directory two and one for each of its directories:
\* rmdir finds a directory without directories by its two links, and rename
\* moves a link with a directory.
THEOREM DirLinkCounts == LongNames = {} => (Spec => []LinkCounts)
<1> SUFFICES ASSUME LongNames = {} PROVE Spec => []LinkCounts
  OBVIOUS
<1>1. TreeInv /\ TreeInv' /\ LinkInv /\ [Next]_vars => LinkInv'
  BY LinkStep
<1>2. LinkInv => LinkCounts
  BY DEF LinkInv, LinkCounts, Dirs, Below
<1>3. Spec => []TreeInv
  BY TreeAlways
<1> QED
  BY LinkInit, <1>1, <1>2, <1>3, PTL DEF Spec

-----------------------------------------------------------------------------
(* Listings.                                                                *)

Reading == [dir : Dirs \cup {0}, pos : 0 .. MaxSubfiles, owed : SUBSET Inos]

ListInv ==
  /\ reader \in [Readers -> Reading]
  /\ \A r \in Readers :
       /\ reader[r].dir = 0 => reader[r].owed = {}
       /\ reader[r].dir # 0 => \A i \in reader[r].owed :
            \E s \in Slots : s >= reader[r].pos /\ files[reader[r].dir][s].ino = i

\* A descriptor on a directory, and what calls make of it.
LEMMA ReadingFields ==
  /\ \A x \in Reading : /\ x.dir \in Dirs \cup {0} /\ x.owed \subseteq Inos
                        /\ x.pos \in Nat /\ x.pos =< MaxSubfiles
  /\ NoReader \in Reading /\ NoReader.dir = 0 /\ NoReader.owed = {}
BY SlotFacts DEF Reading, NoReader

\* A listing no longer owes some entries.
LEMMA ReadingLoses ==
  ASSUME NEW x \in Reading, NEW S
  PROVE  /\ [x EXCEPT !.owed = @ \ S] \in Reading
         /\ [x EXCEPT !.owed = @ \ S].dir = x.dir
         /\ [x EXCEPT !.owed = @ \ S].pos = x.pos
         /\ [x EXCEPT !.owed = @ \ S].owed = x.owed \ S
BY DEF Reading

\* A listing begins with what is in the directory.
LEMMA ReadingBegins ==
  ASSUME NEW d \in Dirs, NEW S \in SUBSET Inos
  PROVE  /\ [NoReader EXCEPT !.dir = d, !.owed = S] \in Reading
         /\ [NoReader EXCEPT !.dir = d, !.owed = S].dir = d
         /\ [NoReader EXCEPT !.dir = d, !.owed = S].pos = 0
         /\ [NoReader EXCEPT !.dir = d, !.owed = S].owed = S
<1> DEFINE x == NoReader
<1>1. x \in Reading /\ x.pos = 0
  BY ReadingFields DEF NoReader
<1> HIDE DEF x
<1>2. /\ [x EXCEPT !.dir = d, !.owed = S] \in Reading
      /\ [x EXCEPT !.dir = d, !.owed = S].dir = d
      /\ [x EXCEPT !.dir = d, !.owed = S].pos = x.pos
      /\ [x EXCEPT !.dir = d, !.owed = S].owed = S
  BY <1>1 DEF Reading
<1> QED
  BY <1>1, <1>2 DEF x

\* An entry that a listing owes is in the directory.
LEMMA OwedKept ==
  ASSUME ListInv, NEW r \in Readers, reader[r].dir # 0, reader[r].owed # {}
  PROVE  reader[r].dir \in Dirs /\ Kept[reader[r].dir] # {}
<1>1. PICK i \in reader[r].owed : TRUE
  OBVIOUS
<1>2. reader[r].dir \in Dirs /\ i # 0
  BY ReadingFields, InoFacts DEF ListInv
<1>3. PICK s \in Slots : files[reader[r].dir][s].ino = i
  BY DEF ListInv
<1> QED
  BY <1>2, <1>3 DEF Kept, Held

\* No listing is open at first.
LEMMA ListInit == Init => ListInv
<1> SUFFICES ASSUME Init PROVE ListInv
  OBVIOUS
<1> QED
  BY ReadingFields DEF Init, ListInv

\* Entries that stay where they are keep a listing true.
LEMMA ListStays ==
  ASSUME ListInv, reader' = reader,
         \A g \in Dirs : \/ Kept[g] = {}
                         \/ \A s \in Slots : files[g][s].ino # 0 =>
                              files'[g][s].ino = files[g][s].ino
  PROVE  ListInv'
<1> SUFFICES ASSUME NEW r \in Readers, reader[r].dir # 0, NEW i \in reader[r].owed
             PROVE  \E s \in Slots : s >= reader[r].pos /\ files'[reader[r].dir][s].ino = i
  BY DEF ListInv
<1>1. reader[r].dir \in Dirs /\ Kept[reader[r].dir] # {}
  BY OwedKept
<1>0. i # 0
  BY ReadingFields, InoFacts DEF ListInv
<1>2. PICK s \in Slots : s >= reader[r].pos /\ files[reader[r].dir][s].ino = i
  BY DEF ListInv
<1> QED
  BY <1>0, <1>1, <1>2

\* The entries after the one that is removed move down by one: a listing that
\* stood on one of them no longer owes it.
LEMMA ListWithout ==
  ASSUME ListInv, Blocks, NEW d \in Dirs, NEW n, NEW i \in Inos,
         Bound(i, n) \in Kept[d],
         files'[d] = Without(files[d], i),
         reader' = ListingsWithout(d, i),
         \A g \in Dirs \ {d} : \/ Kept[g] = {}
                               \/ \A s \in Slots : files[g][s].ino # 0 =>
                                    files'[g][s].ino = files[g][s].ino
  PROVE  ListInv'
<1>1. files[d] \in Block /\ Whole(files[d]) /\ i # 0
  BY InoFacts DEF Blocks
<1>2. PICK k \in Slots : files[d][k].ino = i
  BY DEF Kept, Held, Bound
<1>3. \A s \in Slots : files'[d][s] = IF s < k THEN files[d][s]
                                      ELSE IF s + 1 \in Slots THEN files[d][s + 1]
                                      ELSE NoEntry
  BY <1>1, <1>2, WithoutSlots
<1> DEFINE passed(r) == \E s \in Slots : s < reader[r].pos /\ files[d][s].ino = i
           skipped(r) == {files[d][s].ino : s \in {t \in Slots : passed(r) /\ t = reader[r].pos}}
<1>4. \A r \in Readers :
        reader'[r] = IF reader[r].dir # d THEN reader[r]
                     ELSE [reader[r] EXCEPT !.owed = @ \ ({i} \cup skipped(r))]
  BY DEF ListingsWithout
<1>5. \A r \in Readers : passed(r) <=> k < reader[r].pos
  BY <1>1, <1>2 DEF Whole, Once
<1>6. \A r \in Readers : \A s \in Slots :
        k < reader[r].pos /\ s = reader[r].pos => files[d][s].ino \in skipped(r)
  BY <1>5
<1> HIDE DEF passed, skipped
<1>7. \A r \in Readers :
        /\ reader[r] \in Reading
        /\ reader'[r] \in Reading
        /\ reader'[r].dir = reader[r].dir /\ reader'[r].pos = reader[r].pos
        /\ reader'[r].owed \subseteq reader[r].owed
        /\ reader[r].dir = d => reader'[r].owed = reader[r].owed \ ({i} \cup skipped(r))
  <2> SUFFICES ASSUME NEW r \in Readers
               PROVE  /\ reader[r] \in Reading /\ reader'[r] \in Reading
                      /\ reader'[r].dir = reader[r].dir /\ reader'[r].pos = reader[r].pos
                      /\ reader'[r].owed \subseteq reader[r].owed
                      /\ reader[r].dir = d => reader'[r].owed = reader[r].owed \ ({i} \cup skipped(r))
    OBVIOUS
  <2> DEFINE x == reader[r]
             S == {i} \cup skipped(r)
  <2>1. x \in Reading
    BY DEF ListInv
  <2>2. reader'[r] = IF x.dir # d THEN x ELSE [x EXCEPT !.owed = @ \ S]
    BY <1>4
  <2> HIDE DEF x, S
  <2>3. /\ [x EXCEPT !.owed = @ \ S] \in Reading
        /\ [x EXCEPT !.owed = @ \ S].dir = x.dir
        /\ [x EXCEPT !.owed = @ \ S].pos = x.pos
        /\ [x EXCEPT !.owed = @ \ S].owed = x.owed \ S
    BY <2>1, ReadingLoses
  <2>4. CASE x.dir # d
    BY <2>1, <2>2, <2>4 DEF x
  <2>5. CASE x.dir = d
    BY <2>1, <2>2, <2>3, <2>5 DEF x, S
  <2> QED
    BY <2>4, <2>5
<1>8. reader' \in [Readers -> Reading]
  BY <1>7 DEF ListingsWithout
<1>9. ASSUME NEW r \in Readers, reader[r].dir # 0, NEW j \in reader'[r].owed
      PROVE  \E s \in Slots : s >= reader[r].pos /\ files'[reader[r].dir][s].ino = j
  <2>1. j \in reader[r].owed /\ j # 0 /\ reader[r].pos \in Nat
    BY <1>7, ReadingFields, InoFacts
  <2>2. PICK s \in Slots : s >= reader[r].pos /\ files[reader[r].dir][s].ino = j
    BY <1>9, <2>1 DEF ListInv
  <2>3. CASE reader[r].dir # d
    <3>1. reader[r].dir \in Dirs \ {d} /\ Kept[reader[r].dir] # {}
      BY <1>9, <2>1, <2>3, OwedKept
    <3> QED
      BY <2>1, <2>2, <3>1
  <2>4. CASE reader[r].dir = d
    <3>1. j # i /\ j \notin skipped(r)
      BY <1>7, <2>4
    <3>2. s \in Nat /\ k \in Nat /\ s # k
      BY <1>2, <2>2, <2>4, <3>1, SlotFacts
    <3>3. CASE s < k
      BY <1>3, <2>2, <2>4, <3>3
    <3>4. CASE ~ (s < k)
      <4>1. ~ (k < reader[r].pos /\ s = reader[r].pos)
        BY <1>6, <2>2, <2>4, <3>1
      <4>2. s - 1 >= reader[r].pos /\ ~ (s - 1 < k) /\ (s - 1) + 1 = s /\ s # 0
        BY <2>1, <2>2, <3>2, <3>4, <4>1
      <4>3. s - 1 \in Slots
        BY <4>2, SlotFacts
      <4> QED
        BY <1>3, <2>2, <2>4, <4>2, <4>3
    <3> QED
      BY <3>3, <3>4
  <2> QED
    BY <2>3, <2>4
<1>10. \A r \in Readers : reader[r].dir = 0 => reader'[r].owed = {}
  BY <1>7 DEF ListInv
<1> QED
  BY <1>7, <1>8, <1>9, <1>10 DEF ListInv

\* A call of iterate gives entries and goes past them.
LEMMA IterateLists ==
  ASSUME ListInv, NEW r \in Readers, Iterate(r)
  PROVE  ListInv'
<1> DEFINE d == reader[r].dir
           pos == reader[r].pos
           ahead == {s \in Slots : s >= pos /\ \A t \in pos .. s : files[d][t].ino # 0}
<1>1. files' = files /\ d # 0
  BY DEF Iterate, tree
<1>2. PICK n \in 1 .. Cardinality(ahead) :
        reader' = [reader EXCEPT ![r].owed = @ \ {files[d][s].ino : s \in pos .. pos + n - 1},
                                 ![r].pos = pos + n]
  BY DEF Iterate, PosAfter
<1>3. reader[r] \in Reading
  BY DEF ListInv
<1>4. pos \in Nat /\ pos =< MaxSubfiles /\ MaxSubfiles \in Nat
  BY <1>3, ReadingFields, SlotFacts
<1>5. Cardinality(ahead) \in Nat /\ Cardinality(ahead) =< MaxSubfiles - pos
  <2>1. ahead \subseteq pos .. MaxSubfiles - 1
    <3>1. \A s \in Slots : s \in Nat /\ s =< MaxSubfiles - 1
      BY SlotFacts
    <3> QED
      BY <1>4, <3>1
  <2>2. IsFiniteSet(pos .. MaxSubfiles - 1)
        /\ Cardinality(pos .. MaxSubfiles - 1) = MaxSubfiles - pos
    <3> DEFINE a == pos
               b == MaxSubfiles - 1
    <3>1. a \in Int /\ b \in Int
      BY <1>4
    <3> HIDE DEF a, b
    <3>2. IsFiniteSet(a .. b) /\ Cardinality(a .. b) = IF a > b THEN 0 ELSE b - a + 1
      BY <3>1, FS_Interval
    <3> QED
      BY <1>4, <3>2 DEF a, b
  <2>3. IsFiniteSet(ahead) /\ Cardinality(ahead) =< Cardinality(pos .. MaxSubfiles - 1)
    BY <2>1, <2>2, FS_Subset
  <2> QED
    BY <2>2, <2>3, FS_CardinalityType
<1> HIDE DEF ahead
<1>6. n \in Nat /\ pos + n \in 0 .. MaxSubfiles
  BY <1>4, <1>5
<1> DEFINE given == {files[d][s].ino : s \in pos .. pos + n - 1}
<1> DEFINE new == [reader[r] EXCEPT !.owed = @ \ given, !.pos = pos + n]
<1>7. reader' = [reader EXCEPT ![r] = new]
  BY <1>2
<1>8. \A s \in Nat : s >= pos /\ ~ (s >= pos + n) => files[d][s].ino \in given
  BY <1>4, <1>6
<1> HIDE DEF given
<1>9. new.owed = reader[r].owed \ given /\ new.pos = pos + n /\ new.dir = d /\ new \in Reading
  <2> DEFINE x == reader[r]
             p == pos + n
  <2>1. x \in Reading /\ p \in 0 .. MaxSubfiles
    BY <1>3, <1>6
  <2>2. new = [x EXCEPT !.owed = @ \ given, !.pos = p]
    OBVIOUS
  <2> HIDE DEF x, p, new
  <2>3. /\ [x EXCEPT !.owed = @ \ given, !.pos = p] \in Reading
        /\ [x EXCEPT !.owed = @ \ given, !.pos = p].dir = x.dir
        /\ [x EXCEPT !.owed = @ \ given, !.pos = p].pos = p
        /\ [x EXCEPT !.owed = @ \ given, !.pos = p].owed = x.owed \ given
    BY <2>1 DEF Reading
  <2> QED
    BY <2>2, <2>3 DEF x, p
<1>10. ASSUME NEW i \in new.owed
       PROVE  \E s \in Slots : s >= pos + n /\ files[d][s].ino = i
  <2>1. PICK s \in Slots : s >= pos /\ files[d][s].ino = i
    BY <1>1, <1>9, <1>10 DEF ListInv
  <2>2. s \in Nat
    BY SlotFacts
  <2> QED
    BY <1>8, <1>9, <1>10, <2>1, <2>2
<1> HIDE DEF new
<1> QED
  BY <1>1, <1>7, <1>9, <1>10 DEF ListInv

\* Each operation keeps the listings true.
LEMMA ListStep ==
  ASSUME LongNames = {}, TreeInv, ListInv, [Next]_vars
  PROVE  ListInv'
<1>0. Blocks
  BY DEF TreeInv
<1>1. ASSUME UNCHANGED <<files, reader>> PROVE ListInv'
  BY <1>1, ListStays
<1>2. ASSUME NEW d \in Dirs, NEW n \in Names, NEW mode \in {"dir", "file"},
             Create(d, n, mode)
      PROVE  ListInv'
  <2>1. /\ \A s \in Slots : files[d][s].ino # 0 => files'[d][s] = files[d][s]
        /\ \A g \in Dirs \ {d} : Kept[g] = {} \/ files'[g] = files[g]
    BY <1>2, CreateAdds
  <2>2. reader' = reader
    BY <1>2 DEF Create
  <2> QED
    BY <2>1, <2>2, ListStays
<1>3. ASSUME NEW d \in Dirs, NEW n \in Names, Unlink(d, n) \/ Rmdir(d, n)
      PROVE  ListInv'
  <2> DEFINE i == dentry[d][n]
  <2>1. i \in Inos /\ Kept[i] = {} /\ Remove(d, n, i)
    BY <1>3, RemovedEmpty
  <2>2. /\ Drops(d, n, i)
        /\ files' = [files EXCEPT ![d] = Without(@, i), ![i] = EmptyBlock]
    BY <2>1, RemoveDrops
  <2>3. reader' = ListingsWithout(d, i)
    BY <2>1 DEF Remove
  <2> HIDE DEF i
  <2>4. Bound(i, n) \in Kept[d] /\ d # i
    BY <2>2 DEF Drops
  <2>5. files'[d] = Without(files[d], i) /\ \A g \in Dirs \ {d, i} : files'[g] = files[g]
    BY <1>0, <2>1, <2>2, <2>4 DEF Blocks
  <2>6. \A g \in Dirs \ {d} : \/ Kept[g] = {}
                              \/ \A s \in Slots : files[g][s].ino # 0 =>
                                   files'[g][s].ino = files[g][s].ino
    BY <2>1, <2>5
  <2> QED
    BY <1>0, <2>1, <2>3, <2>4, <2>5, <2>6, ListWithout
<1>4. ASSUME NEW d \in Dirs, NEW n \in Names, NEW m \in Names, RenameHere(d, n, m)
      PROVE  ListInv'
  <2>1. /\ \A s \in Slots : files'[d][s].ino = files[d][s].ino
        /\ \A g \in Dirs \ {d} : files'[g] = files[g]
    BY <1>4, RenameHereMoves
  <2>2. reader' = reader
    BY <1>4 DEF RenameHere
  <2> QED
    BY <2>1, <2>2, ListStays
<1>5. ASSUME NEW d \in Dirs, NEW n \in Names, NEW e \in Dirs, NEW m \in Names,
             RenameAcross(d, n, e, m)
      PROVE  ListInv'
  <2> DEFINE i == dentry[d][n]
  <2>1. /\ i \in Inos /\ d # e /\ Moves(d, n, e, m, i)
        /\ files' = [files EXCEPT ![d] = Without(@, i), ![e] = With(@, i, m)]
        /\ \A s \in Slots : files[e][s].ino # 0 => files'[e][s] = files[e][s]
        /\ \A g \in Dirs \ {d, e} : files'[g] = files[g]
    BY <1>5, RenameAcrossMoves
  <2>2. reader' = ListingsWithout(d, i)
    BY <1>5 DEF RenameAcross
  <2> HIDE DEF i
  <2>3. Bound(i, n) \in Kept[d]
    BY <2>1 DEF Moves
  <2>4. files'[d] = Without(files[d], i)
    BY <1>0, <2>1 DEF Blocks
  <2>5. \A g \in Dirs \ {d} : \/ Kept[g] = {}
                              \/ \A s \in Slots : files[g][s].ino # 0 =>
                                   files'[g][s].ino = files[g][s].ino
    BY <2>1
  <2> QED
    BY <1>0, <2>1, <2>2, <2>3, <2>4, <2>5, ListWithout
<1>6. ASSUME NEW r \in Readers, NEW d \in Listed, Open(r, d) PROVE ListInv'
  <2>1. /\ reader' = [reader EXCEPT ![r] = [NoReader EXCEPT !.dir = d, !.owed = Entries(d)]]
        /\ files' = files
    BY <1>6 DEF Open, tree
  <2>2. d \in Dirs /\ d # 0
    BY DirAssumption, InoFacts DEF Dirs, Inos, Root
  <2>3. /\ Entries(d) \in SUBSET Inos
        /\ \A i \in Entries(d) : \E s \in Slots : s >= 0 /\ files[d][s].ino = i
    <3>1. Entries(d) \subseteq Inos
      BY <1>0, <2>2, EntriesKept, KeptFields
    <3>2. \A i \in Entries(d) : \E s \in Slots : s >= 0 /\ files[d][s].ino = i
      BY SlotFacts DEF Entries
    <3> QED
      BY <3>1, <3>2
  <2> DEFINE new == [NoReader EXCEPT !.dir = d, !.owed = Entries(d)]
  <2>4. new.dir = d /\ new.pos = 0 /\ new.owed = Entries(d) /\ new \in Reading
    BY <2>2, <2>3, ReadingBegins
  <2> HIDE DEF new
  <2>5. reader' = [reader EXCEPT ![r] = new] /\ files' = files
    BY <2>1 DEF new
  <2>6. \A i \in new.owed : \E s \in Slots : s >= new.pos /\ files[new.dir][s].ino = i
    BY <2>3, <2>4
  <2>7. reader' \in [Readers -> Reading]
    BY <2>4, <2>5 DEF ListInv
  <2>8. \A q \in Readers : reader'[q] = IF q = r THEN new ELSE reader[q]
    BY <2>5 DEF ListInv
  <2> QED
    BY <2>2, <2>4, <2>5, <2>6, <2>7, <2>8 DEF ListInv
<1>7. ASSUME NEW r \in Readers, Close(r) PROVE ListInv'
  <2>1. reader' = [reader EXCEPT ![r] = NoReader] /\ files' = files
    BY <1>7 DEF Close, tree
  <2> QED
    BY <2>1, ReadingFields DEF ListInv
<1>8. CASE UNCHANGED vars
  BY <1>1, <1>8 DEF vars
<1>9. ASSUME NEW d \in Dirs, NEW n \in Names,
             \/ Lookup(d, n) \/ LookupBadInode(d, n) \/ Forget(d, n)
             \/ CreateFails(d, n) \/ RmdirFails(d, n)
             \/ \E e \in Dirs, m \in Names :
                  RenameFails(d, n, e, m) \/ RenameOverrun(d, n, e, m)
      PROVE  ListInv'
  BY <1>1, <1>9 DEF Lookup, LookupBadInode, Forget, CreateFails, RmdirFails,
     RenameFails, RenameOverrun, tree
<1>10. ASSUME NEW i, Evict(i) PROVE ListInv'
  BY <1>1, <1>10 DEF Evict, tree
<1> QED
  BY <1>2, <1>3, <1>4, <1>5, <1>6, <1>7, <1>8, <1>9, <1>10, IterateLists DEF Next, Dirs

\* What a listing still owes its reader lies ahead of its position, whatever is
\* created, removed and renamed between its calls.
THEOREM DirListingComplete == LongNames = {} => (Spec => []ListingComplete)
<1> SUFFICES ASSUME LongNames = {} PROVE Spec => []ListingComplete
  OBVIOUS
<1>1. TreeInv /\ ListInv /\ [Next]_vars => ListInv'
  BY ListStep
<1>2. ListInv => ListingComplete
  BY DEF ListInv, ListingComplete
<1>3. Spec => []TreeInv
  BY TreeAlways
<1> QED
  BY ListInit, <1>1, <1>2, <1>3, PTL DEF Spec
-----------------------------------------------------------------------------
(* The tree of names that programs see.                                     *)

NamesSeen ==
  [p \in BoundNames |-> files[p[1]][CHOOSE s \in Slots : files[p[1]][s].name = p[2]].ino]

DirsSeen == {i \in (Inos \cup {Root}) \ ifree : inode[i].mode = "dir"}

\* The names are those of the entries, and lead where the entries do.
Seen ==
  /\ NamesSeen = [p \in DOMAIN NamesSeen |-> NamesSeen[p]]
  /\ \A p \in DOMAIN NamesSeen : p \in Dirs \X Names
  /\ \A d \in Dirs, n \in Names :
       <<d, n>> \in DOMAIN NamesSeen <=> \E x \in Kept[d] : x.name = n
  /\ \A d \in Dirs, n \in Names, i \in Inos :
       Bound(i, n) \in Kept[d] => NamesSeen[<<d, n>>] = i
  /\ \A d \in Dirs : d \in DirsSeen <=> inode[d].mode = "dir"
  /\ DirsSeen \subseteq Dirs

LEMMA TreeSeen == TreeInv => Seen
<1> SUFFICES ASSUME TreeInv PROVE Seen
  OBVIOUS
<1>1. NamesSeen = [p \in DOMAIN NamesSeen |-> NamesSeen[p]] /\ DOMAIN NamesSeen = BoundNames
  BY DEF NamesSeen
<1>2. BoundNames \subseteq Dirs \X Names
  BY DEF BoundNames, Dirs
<1>3. ASSUME NEW d \in Dirs, NEW n \in Names
      PROVE  <<d, n>> \in BoundNames <=> \E x \in Kept[d] : x.name = n
  BY DEF BoundNames, Dirs, Kept, Held
<1>4. ASSUME NEW d \in Dirs, NEW n \in Names, NEW i \in Inos, Bound(i, n) \in Kept[d]
      PROVE  NamesSeen[<<d, n>>] = i
  <2>1. Bound(i, n).ino = i /\ Bound(i, n).name = n
    BY DEF Bound
  <2>2. PICK k \in Slots : files[d][k] = Bound(i, n)
    BY <1>4 DEF Kept, Held
  <2>3. \A s \in Slots : files[d][s].name = n => files[d][s] = Bound(i, n)
    <3> SUFFICES ASSUME NEW s \in Slots, files[d][s].name = n PROVE files[d][s] = Bound(i, n)
      OBVIOUS
    <3>1. files[d][s].ino # 0
      BY DEF TreeInv, Blocks, Whole, Clean
    <3>2. files[d][s] \in Kept[d]
      BY <3>1 DEF Kept, Held
    <3> QED
      BY <1>4, <2>1, <3>2 DEF TreeInv, NamesApart
  <2> DEFINE s == CHOOSE s \in Slots : files[d][s].name = n
  <2>4. s \in Slots /\ files[d][s].name = n
    BY <2>1, <2>2
  <2>5. files[d][s].ino = i
    BY <2>1, <2>3, <2>4
  <2>6. <<d, n>> \in BoundNames
    BY <1>3, <1>4, <2>1
  <2> QED
    BY <2>5, <2>6 DEF NamesSeen
<1>5. ASSUME NEW d \in Dirs
      PROVE  d \in DirsSeen <=> inode[d].mode = "dir"
  <2>1. d \in ifree => d \in Inos /\ inode[d].mode = "none"
    BY DEF TreeInv, ModesTrue, Blocks
  <2> QED
    BY <2>1 DEF DirsSeen, Dirs
<1> QED
  BY <1>1, <1>2, <1>3, <1>4, <1>5 DEF Seen, DirsSeen, Dirs

\* The names under an inode are those of the entries under it: the two
\* recursions have the same solutions, as both stay inside the tree.
LEMMA UnderSeen ==
  ASSUME TreeInv, NEW i \in Dirs
  PROVE  Tree!Under(i) = Under(i)
<1> DEFINE ByEntries(f) == f = [k \in Nat |->
             IF k = 0 THEN {i} ELSE f[k - 1] \cup UNION {Entries(j) : j \in f[k - 1]}]
           ByNames(f) == f = [k \in Nat |->
             IF k = 0 THEN {i}
             ELSE f[k - 1] \cup {NamesSeen[p] : p \in {q \in DOMAIN NamesSeen : q[1] \in f[k - 1]}}]
<1>1. Seen
  BY TreeSeen
<1>2. ASSUME NEW A, A \subseteq Dirs
      PROVE  UNION {Entries(j) : j \in A}
               = {NamesSeen[p] : p \in {q \in DOMAIN NamesSeen : q[1] \in A}}
  <2>1. ASSUME NEW j \in A, NEW y \in Entries(j)
        PROVE  \E p \in DOMAIN NamesSeen : p[1] \in A /\ y = NamesSeen[p]
    <3>1. PICK x \in Kept[j] : y = x.ino
      BY <1>2, EntriesKept
    <3>2. x.ino \in Inos /\ x.name \in Names /\ x = Bound(x.ino, x.name)
      BY <1>2, KeptFields DEF TreeInv
    <3>3. <<j, x.name>> \in DOMAIN NamesSeen /\ NamesSeen[<<j, x.name>>] = x.ino
      BY <1>1, <1>2, <3>2 DEF Seen
    <3> QED
      BY <3>1, <3>3
  <2>2. ASSUME NEW p \in DOMAIN NamesSeen, p[1] \in A
        PROVE  NamesSeen[p] \in Entries(p[1])
    <3>1. p \in Dirs \X Names /\ p = <<p[1], p[2]>>
      BY <1>1 DEF Seen
    <3>2. PICK x \in Kept[p[1]] : x.name = p[2]
      BY <1>1, <3>1 DEF Seen
    <3>3. x.ino \in Inos /\ x = Bound(x.ino, p[2])
      BY <3>1, <3>2, KeptFields DEF TreeInv
    <3>4. NamesSeen[p] = x.ino
      BY <1>1, <3>1, <3>3 DEF Seen
    <3> QED
      BY <3>1, <3>4, EntriesKept
  <2> QED
    BY <2>1, <2>2
<1>3. ASSUME NEW A, A \subseteq Dirs
      PROVE  UNION {Entries(j) : j \in A} \subseteq Dirs
  BY <1>3, EntriesKept, KeptFields DEF TreeInv, Dirs
<1>4. ASSUME NEW f, \A k \in Nat : k = 0 => f[k] \subseteq Dirs,
             \A k \in Nat \ {0} : f[k - 1] \subseteq Dirs => f[k] \subseteq Dirs
      PROVE  \A k \in Nat : f[k] \subseteq Dirs
  <2> DEFINE Bad == {k \in Nat : ~ (f[k] \subseteq Dirs)}
  <2> SUFFICES ASSUME Bad # {} PROVE FALSE
    OBVIOUS
  <2>1. Bad \in SUBSET Nat
    OBVIOUS
  <2>2. Min(Bad) \in Bad /\ \A y \in Bad : Min(Bad) =< y
    BY <2>1, Least
  <2>3. PICK k \in Bad : \A y \in Bad : k =< y
    BY <2>2
  <2>4. k \in Nat \ {0}
    BY <1>4
  <2>5. k - 1 \in Nat /\ ~ (k =< k - 1)
    BY <2>4
  <2>6. k - 1 \notin Bad
    BY <2>3, <2>5
  <2> QED
    BY <1>4, <2>4, <2>5, <2>6
<1>5. ASSUME NEW f PROVE ByEntries(f) <=> ByNames(f)
  <2>1. ASSUME \A k \in Nat : f[k] \subseteq Dirs
        PROVE  ByEntries(f) <=> ByNames(f)
    <3>1. \A k \in Nat \ {0} : k - 1 \in Nat
      OBVIOUS
    <3>2. \A k \in Nat \ {0} :
            UNION {Entries(j) : j \in f[k - 1]}
              = {NamesSeen[p] : p \in {q \in DOMAIN NamesSeen : q[1] \in f[k - 1]}}
      BY <1>2, <2>1, <3>1
    <3>3. [k \in Nat |->
             IF k = 0 THEN {i} ELSE f[k - 1] \cup UNION {Entries(j) : j \in f[k - 1]}]
          = [k \in Nat |->
             IF k = 0 THEN {i}
             ELSE f[k - 1] \cup {NamesSeen[p] : p \in {q \in DOMAIN NamesSeen : q[1] \in f[k - 1]}}]
      BY <3>2
    <3> QED
      BY <3>3
  <2>2. ASSUME ByEntries(f) PROVE \A k \in Nat : f[k] \subseteq Dirs
    <3>1. f[0] = {i}
      BY <2>2
    <3>2. \A k \in Nat \ {0} : f[k] = f[k - 1] \cup UNION {Entries(j) : j \in f[k - 1]}
      BY <2>2
    <3>3. \A k \in Nat \ {0} : f[k - 1] \subseteq Dirs => f[k] \subseteq Dirs
      BY <1>3, <3>2
    <3> QED
      BY <1>4, <3>1, <3>3
  <2>3. ASSUME ByNames(f) PROVE \A k \in Nat : f[k] \subseteq Dirs
    <3>1. f[0] = {i}
      BY <2>3
    <3>2. \A k \in Nat \ {0} :
            f[k] = f[k - 1] \cup {NamesSeen[p] : p \in {q \in DOMAIN NamesSeen : q[1] \in f[k - 1]}}
      BY <2>3
    <3>3. \A k \in Nat \ {0} : f[k - 1] \subseteq Dirs => f[k] \subseteq Dirs
      BY <1>2, <1>3, <3>2
    <3> QED
      BY <1>4, <3>1, <3>3
  <2> QED
    BY <2>1, <2>2, <2>3
<1>6. (CHOOSE f : ByEntries(f)) = (CHOOSE f : ByNames(f))
  <2> HIDE DEF ByEntries, ByNames
  <2> QED
    BY <1>5, Zenon
<1>7. Under(i) = (CHOOSE f : ByEntries(f))[NrInodes - 2]
  BY Zenon DEF Under
<1>8. Tree!Under(i) = (CHOOSE f : ByNames(f))[Cardinality(Inos)]
  <2>1. Tree!Cardinality(Inos) = Cardinality(Inos)
    BY Zenon DEF Tree!Cardinality, Cardinality
  <2> QED
    BY <2>1, Zenon DEF Tree!Under, NamesSeen
<1>9. Cardinality(Inos) = NrInodes - 2
  <2>1. 2 \in Int /\ NrInodes - 1 \in Int /\ NrInodes - 1 - 2 + 1 = NrInodes - 2 /\ ~ (2 > NrInodes - 1)
    BY DirAssumption
  <2> DEFINE b == NrInodes - 1
  <2>2. b \in Int
    BY <2>1
  <2> HIDE DEF b
  <2>3. Cardinality(2 .. b) = IF 2 > b THEN 0 ELSE b - 2 + 1
    BY <2>2, FS_Interval
  <2> QED
    BY <2>1, <2>3 DEF b, Inos
<1> QED
  BY <1>6, <1>7, <1>8, <1>9

\* mkfs leaves no names.
LEMMA SeenInit == Init => Tree!Init
<1> SUFFICES ASSUME Init PROVE Tree!Init
  OBVIOUS
<1>1. TreeInv /\ Seen
  BY TreeInit, TreeSeen
<1>2. \A d \in Dirs : Kept[d] = {}
  <2>1. \A d \in Dirs : files[d] = EmptyBlock
    BY DEF Init, Dirs
  <2> QED
    BY <2>1, EmptyHeld DEF Kept
<1>3. NamesSeen = <<>>
  <2>1. ASSUME NEW p \in DOMAIN NamesSeen PROVE FALSE
    <3>1. p \in Dirs \X Names /\ p = <<p[1], p[2]>>
      BY <1>1 DEF Seen
    <3>2. \E x \in Kept[p[1]] : x.name = p[2]
      BY <1>1, <3>1 DEF Seen
    <3> QED
      BY <1>2, <3>1, <3>2
  <2> QED
    <3>1. DOMAIN NamesSeen = {}
      BY <2>1
    <3>2. NamesSeen = [p \in DOMAIN NamesSeen |-> NamesSeen[p]]
      BY <1>1 DEF Seen
    <3>3. NamesSeen = [p \in {} |-> NamesSeen[p]]
      BY <3>1, <3>2
    <3> QED
      BY <3>3, SMT
<1>4. DirsSeen = {Root}
  BY InoFacts DEF DirsSeen, Init
<1>5. answer = Tree!Answer("OK", 0)
  BY DEF Init, Answer, Tree!Answer
<1> QED
  BY <1>3, <1>4, <1>5 DEF Tree!Init, NamesSeen, DirsSeen

\* What depends on the entries and the bitmap stays as they do.
LEMMA SeenStays ==
  ASSUME UNCHANGED tree
  PROVE  NamesSeen' = NamesSeen /\ DirsSeen' = DirsSeen /\ Kept' = Kept
BY DEF tree, NamesSeen, BoundNames, DirsSeen, Kept

\* A call that fails, and one that only looks.
LEMMA RefuseSeen ==
  ASSUME UNCHANGED tree, NEW e \in Errnos, Fails(e)
  PROVE  Tree!Refuse
<1>1. NamesSeen' = NamesSeen /\ DirsSeen' = DirsSeen
  BY SeenStays
<1>2. answer' = Tree!Answer(e, 0)
  BY DEF Fails, Answer, Tree!Answer
<1> QED
  BY <1>1, <1>2 DEF Tree!Refuse, NamesSeen, DirsSeen

LEMMA LookupSeen ==
  ASSUME TreeInv, NEW d \in Dirs, NEW n \in Names, Lookup(d, n)
  PROVE  d \in DirsSeen /\ Tree!Resolve(d, n)
<1>1. Seen
  BY TreeSeen
<1>2. NamesSeen' = NamesSeen /\ DirsSeen' = DirsSeen /\ inode[d].mode = "dir"
  BY SeenStays DEF Lookup, Usable
<1> DEFINE i == IF dentry[d][n] = Unknown THEN Find(d, n) ELSE dentry[d][n]
<1>3. answer' = Tree!Answer("OK", i)
  BY DEF Lookup, Answer, Tree!Answer
<1>4. i = IF <<d, n>> \in DOMAIN NamesSeen THEN NamesSeen[<<d, n>>] ELSE 0
  <2>1. ASSUME NEW x \in Kept[d], x.name = n
        PROVE  i = x.ino /\ <<d, n>> \in DOMAIN NamesSeen /\ NamesSeen[<<d, n>>] = x.ino
    <3>1. x.ino \in Inos /\ x = Bound(x.ino, n)
      BY <2>1, KeptFields DEF TreeInv
    <3>2. Find(d, n) = x.ino
      BY <2>1, FindTells DEF TreeInv
    <3>3. ASSUME dentry[d][n] \in Inos PROVE dentry[d][n] = x.ino
      <4>1. Bound(dentry[d][n], n) \in Kept[d]
        BY <3>3 DEF TreeInv, CacheTells
      <4>2. Bound(dentry[d][n], n).name = n /\ Bound(dentry[d][n], n).ino = dentry[d][n]
        BY DEF Bound
      <4> QED
        BY <2>1, <4>1, <4>2 DEF TreeInv, NamesApart
    <3>4. dentry[d][n] \in Inos \/ dentry[d][n] = Unknown
      BY <2>1 DEF TreeInv, CacheTells
    <3>5. i = x.ino
      BY <3>2, <3>3, <3>4, CacheFacts
    <3> QED
      BY <1>1, <2>1, <3>1, <3>5 DEF Seen
  <2>2. ASSUME \A x \in Kept[d] : x.name # n
        PROVE  i = 0 /\ <<d, n>> \notin DOMAIN NamesSeen
    <3>1. Find(d, n) = Negative
      BY <2>2, FindTells DEF TreeInv
    <3>2. dentry[d][n] \notin Inos
      <4> SUFFICES ASSUME dentry[d][n] \in Inos PROVE FALSE
        OBVIOUS
      <4>1. Bound(dentry[d][n], n) \in Kept[d]
        BY DEF TreeInv, CacheTells
      <4> QED
        BY <2>2, <4>1 DEF Bound
    <3>3. dentry[d][n] = Negative \/ dentry[d][n] = Unknown
      BY <3>2 DEF TreeInv, CacheTells
    <3> QED
      BY <1>1, <2>2, <3>1, <3>3 DEF Seen, Negative
  <2> QED
    BY <2>1, <2>2
<1> HIDE DEF i
<1>5. d \in DirsSeen
  BY <1>1, <1>2 DEF Seen
<1>6. answer' = Tree!Answer("OK", IF <<d, n>> \in DOMAIN NamesSeen THEN NamesSeen[<<d, n>>] ELSE 0)
  BY <1>3, <1>4
<1> QED
  BY <1>2, <1>5, <1>6 DEF Tree!Resolve, NamesSeen, DirsSeen

\* create and mkdir bind a name.
LEMMA CreateSeen ==
  ASSUME LongNames = {}, TreeInv, TreeInv', NEW d \in Dirs, NEW n \in Names,
         NEW mode \in {"dir", "file"}, Create(d, n, mode)
  PROVE  \E i \in Inos : d \in DirsSeen /\ Tree!Bind(d, n, i, mode = "dir")
<1>1. PICK i \in Inos :
        /\ Adds(d, n, i) /\ d # i /\ answer' = Answer("OK", i)
        /\ inode' = [inode EXCEPT ![i] = NewInode(mode),
                                  ![d].nlink = IF mode = "dir" THEN @ + 1 ELSE @]
  BY CreateAdds
<1>2. Seen /\ Seen'
  BY TreeSeen, PTL
<1> DEFINE N == NamesSeen
           D == DirsSeen
<1>3. /\ i \in ifree /\ inode[d].mode = "dir" /\ i \in Dirs /\ i # Root
      /\ Kept' = [Kept EXCEPT ![d] = @ \cup {Bound(i, n)}]
      /\ \A x \in Kept[d] : x.name # n
  BY <1>1, InoFacts DEF Adds, Dirs
<1>4. Bound(i, n).name = n /\ Bound(i, n).ino = i
  BY DEF Bound
<1>5. \A g \in Dirs : \A x : x \in Kept'[g] <=> x \in Kept[g] \/ (g = d /\ x = Bound(i, n))
  <2>1. \A g \in Dirs : Kept'[g] = IF g = d THEN Kept[g] \cup {Bound(i, n)} ELSE Kept[g]
    BY <1>3 DEF Kept
  <2> QED
    BY <2>1
<1>6. d \in DirsSeen /\ <<d, n>> \notin DOMAIN NamesSeen
  BY <1>2, <1>3 DEF Seen
<1>7. \A p \in DOMAIN NamesSeen : NamesSeen[p] # i
  <2> SUFFICES ASSUME NEW p \in DOMAIN NamesSeen PROVE NamesSeen[p] # i
    OBVIOUS
  <2>1. p \in Dirs \X Names /\ p = <<p[1], p[2]>>
    BY <1>2 DEF Seen
  <2>2. PICK x \in Kept[p[1]] : x.name = p[2]
    BY <1>2, <2>1 DEF Seen
  <2>3. x.ino \in Inos /\ x = Bound(x.ino, p[2]) /\ x.ino \notin ifree
    BY <2>1, <2>2, KeptFields DEF TreeInv, Placed
  <2> QED
    BY <1>2, <1>3, <2>1, <2>3 DEF Seen
<1>8. \A p : p \in DOMAIN NamesSeen' <=> p \in DOMAIN NamesSeen \/ p = <<d, n>>
  <2>1. ASSUME NEW g \in Dirs, NEW k \in Names
        PROVE  <<g, k>> \in DOMAIN NamesSeen' <=> <<g, k>> \in DOMAIN NamesSeen \/ <<g, k>> = <<d, n>>
    BY <1>2, <1>4, <1>5 DEF Seen
  <2> QED
    BY <1>2, <2>1 DEF Seen
<1>9. ASSUME NEW p \in DOMAIN NamesSeen'
      PROVE  NamesSeen'[p] = IF p = <<d, n>> THEN i ELSE NamesSeen[p]
  <2>1. CASE p = <<d, n>>
    BY <1>2, <1>5, <2>1 DEF Seen
  <2>2. CASE p # <<d, n>>
    <3>1. p \in DOMAIN NamesSeen /\ p \in Dirs \X Names /\ p = <<p[1], p[2]>>
      BY <1>2, <1>8, <2>2 DEF Seen
    <3>2. PICK x \in Kept[p[1]] : x.name = p[2]
      BY <1>2, <3>1 DEF Seen
    <3>3. x.ino \in Inos /\ Bound(x.ino, p[2]) \in Kept[p[1]] /\ Bound(x.ino, p[2]) \in Kept'[p[1]]
      BY <1>5, <3>1, <3>2, KeptFields DEF TreeInv
    <3> QED
      BY <1>2, <2>2, <3>1, <3>3 DEF Seen
  <2> QED
    BY <2>1, <2>2
<1>10. NamesSeen' = [p \in DOMAIN NamesSeen \cup {<<d, n>>} |-> IF p = <<d, n>> THEN i ELSE NamesSeen[p]]
  <2>1. NamesSeen' = [p \in DOMAIN NamesSeen' |-> NamesSeen'[p]]
    BY <1>2 DEF Seen
  <2>2. DOMAIN NamesSeen' = DOMAIN NamesSeen \cup {<<d, n>>}
    BY <1>8
  <2> QED
    BY <1>9, <2>1, <2>2
<1>11. DirsSeen' = IF mode = "dir" THEN DirsSeen \cup {i} ELSE DirsSeen
  <2>1. \A g \in Dirs : inode'[g].mode = IF g = i THEN mode ELSE inode[g].mode
    BY <1>1, <1>3 DEF TreeInv, ModesTrue, NewInode
  <2>2. inode[i].mode # "dir"
    BY <1>3 DEF TreeInv, ModesTrue
  <2>8. DirsSeen \subseteq Dirs /\ DirsSeen' \subseteq Dirs
    BY <1>2 DEF Seen
  <2>9. \A g \in Dirs : /\ g \in DirsSeen <=> inode[g].mode = "dir"
                        /\ g \in DirsSeen' <=> inode'[g].mode = "dir"
    BY <1>2 DEF Seen
  <2>3. CASE mode = "dir"
    <3>1. \A g \in Dirs : g \in DirsSeen' <=> g \in DirsSeen \cup {i}
      BY <2>1, <2>3, <2>9
    <3> QED
      BY <1>3, <2>3, <2>8, <3>1
  <2>4. CASE mode # "dir"
    <3>1. \A g \in Dirs : g \in DirsSeen' <=> g \in DirsSeen
      BY <2>1, <2>2, <2>4, <2>9
    <3> QED
      BY <2>4, <2>8, <3>1
  <2> QED
    BY <2>3, <2>4
<1>12. answer' = Tree!Answer("OK", i)
  BY <1>1 DEF Answer, Tree!Answer
<1>13. i \notin {NamesSeen[p] : p \in DOMAIN NamesSeen} \cup {Root}
  BY <1>3, <1>7
<1>14. Tree!Bind(d, n, i, mode = "dir")
  BY <1>6, <1>10, <1>11, <1>12, <1>13 DEF Tree!Bind, Tree!Used, NamesSeen, DirsSeen
<1> QED
  BY <1>6, <1>14

\* unlink and rmdir take a name away.
LEMMA RemoveSeen ==
  ASSUME TreeInv, TreeInv', NEW d \in Dirs, NEW n \in Names, NEW i \in Inos,
         i = dentry[d][n], Kept[i] = {}, Remove(d, n, i)
  PROVE  <<d, n>> \in DOMAIN NamesSeen /\ Tree!Unbind(<<d, n>>)
<1>1. Drops(d, n, i)
  BY RemoveDrops
<1>2. Seen /\ Seen'
  BY TreeSeen, PTL
<1>3. /\ Bound(i, n) \in Kept[d] /\ i \in Dirs
      /\ Kept' = [Kept EXCEPT ![d] = @ \ {Bound(i, n)}]
  BY <1>1 DEF Drops, Dirs
<1>4. Bound(i, n).name = n /\ Bound(i, n).ino = i
  BY DEF Bound
<1>5. \A g \in Dirs : \A x : x \in Kept'[g] <=> x \in Kept[g] /\ ~ (g = d /\ x = Bound(i, n))
  <2>1. \A g \in Dirs : Kept'[g] = IF g = d THEN Kept[g] \ {Bound(i, n)} ELSE Kept[g]
    BY <1>3 DEF Kept
  <2> QED
    BY <2>1
<1>6. <<d, n>> \in DOMAIN NamesSeen /\ NamesSeen[<<d, n>>] = i
  BY <1>2, <1>3, <1>4 DEF Seen
<1>7. \A q \in DOMAIN NamesSeen : q[1] # i
  <2> SUFFICES ASSUME NEW q \in DOMAIN NamesSeen, q[1] = i PROVE FALSE
    OBVIOUS
  <2>1. q \in Dirs \X Names /\ q = <<q[1], q[2]>>
    BY <1>2 DEF Seen
  <2> QED
    BY <1>2, <2>1 DEF Seen
<1>8. \A p : p \in DOMAIN NamesSeen' <=> p \in DOMAIN NamesSeen /\ p # <<d, n>>
  <2>1. ASSUME NEW g \in Dirs, NEW k \in Names
        PROVE  <<g, k>> \in DOMAIN NamesSeen' <=> <<g, k>> \in DOMAIN NamesSeen /\ <<g, k>> # <<d, n>>
    <3>1. CASE <<g, k>> = <<d, n>>
      BY <1>2, <1>3, <1>4, <1>5, <3>1 DEF Seen, TreeInv, NamesApart
    <3>2. CASE <<g, k>> # <<d, n>>
      BY <1>2, <1>4, <1>5, <3>2 DEF Seen
    <3> QED
      BY <3>1, <3>2
  <2> QED
    BY <1>2, <2>1 DEF Seen
<1>9. ASSUME NEW p \in DOMAIN NamesSeen'
      PROVE  NamesSeen'[p] = NamesSeen[p]
  <2>1. p \in DOMAIN NamesSeen /\ p \in Dirs \X Names /\ p = <<p[1], p[2]>>
    BY <1>2, <1>8 DEF Seen
  <2>2. PICK x \in Kept'[p[1]] : x.name = p[2]
    BY <1>2, <2>1 DEF Seen
  <2>3. x.ino \in Inos /\ Bound(x.ino, p[2]) \in Kept[p[1]] /\ Bound(x.ino, p[2]) \in Kept'[p[1]]
    BY <1>5, <2>1, <2>2, KeptFields DEF TreeInv
  <2> QED
    BY <1>2, <2>1, <2>3 DEF Seen
<1>10. NamesSeen' = [q \in DOMAIN NamesSeen \ {<<d, n>>} |-> NamesSeen[q]]
  <2>1. NamesSeen' = [p \in DOMAIN NamesSeen' |-> NamesSeen'[p]]
    BY <1>2 DEF Seen
  <2>2. DOMAIN NamesSeen' = DOMAIN NamesSeen \ {<<d, n>>}
    BY <1>8
  <2> QED
    BY <1>9, <2>1, <2>2
<1>11. DirsSeen' = DirsSeen \ {NamesSeen[<<d, n>>]}
  <2>1. inode' = [inode EXCEPT ![d].nlink = @ - LinksLost(i),
                               ![i] = [mode |-> "none", nlink |-> @.nlink - 1]]
    BY DEF Remove
  <2>2. \A g \in Dirs : inode'[g].mode = IF g = i THEN "none" ELSE inode[g].mode
    BY <1>3, <2>1 DEF TreeInv, ModesTrue
  <2>8. DirsSeen \subseteq Dirs /\ DirsSeen' \subseteq Dirs
    BY <1>2 DEF Seen
  <2>9. \A g \in Dirs : /\ g \in DirsSeen <=> inode[g].mode = "dir"
                        /\ g \in DirsSeen' <=> inode'[g].mode = "dir"
    BY <1>2 DEF Seen
  <2>3. \A g \in Dirs : g \in DirsSeen' <=> g \in DirsSeen \ {i}
    BY <2>2, <2>9
  <2> QED
    BY <1>6, <2>3, <2>8
<1>12. answer' = Tree!Answer("OK", 0)
  BY DEF Remove, Answer, Tree!Answer
<1>13. \A q \in DOMAIN NamesSeen : q[1] # NamesSeen[<<d, n>>]
  BY <1>6, <1>7
<1>14. Tree!Unbind(<<d, n>>)
  BY <1>10, <1>11, <1>12, <1>13 DEF Tree!Unbind, NamesSeen, DirsSeen
<1> QED
  BY <1>6, <1>14

\* rename moves a name.
LEMMA RenameSeen ==
  ASSUME TreeInv, TreeInv', NEW d \in Dirs, NEW n \in Names, NEW e \in Dirs, NEW m \in Names,
         NEW i \in Inos, Moves(d, n, e, m, i), e \notin Under(i), answer' = Answer("OK", 0),
         \A g \in Dirs : inode'[g].mode = inode[g].mode
  PROVE  /\ <<d, n>> \in DOMAIN NamesSeen /\ e \in DirsSeen
         /\ Tree!Move(<<d, n>>, e, m)
<1>2. Seen /\ Seen'
  BY TreeSeen, PTL
<1>3. /\ Bound(i, n) \in Kept[d] /\ i \in Dirs /\ inode[e].mode = "dir"
      /\ \A x \in Kept[e] : x.name # m
      /\ Kept' = [g \in Dirs |-> (Kept[g] \ (IF g = d THEN {Bound(i, n)} ELSE {}))
                                   \cup (IF g = e THEN {Bound(i, m)} ELSE {})]
  BY DEF Moves, Dirs
<1>4. /\ Bound(i, n).name = n /\ Bound(i, n).ino = i
      /\ Bound(i, m).name = m /\ Bound(i, m).ino = i
  BY DEF Bound
<1>5. \A g \in Dirs : \A x : x \in Kept'[g] <=>
        (x \in Kept[g] /\ ~ (g = d /\ x = Bound(i, n))) \/ (g = e /\ x = Bound(i, m))
  BY <1>3
<1>6. /\ <<d, n>> \in DOMAIN NamesSeen /\ NamesSeen[<<d, n>>] = i
      /\ <<e, m>> \notin DOMAIN NamesSeen /\ e \in DirsSeen
  BY <1>2, <1>3, <1>4 DEF Seen
<1>7. <<e, m>> # <<d, n>>
  BY <1>6
<1>8. \A p : p \in DOMAIN NamesSeen' <=> (p \in DOMAIN NamesSeen /\ p # <<d, n>>) \/ p = <<e, m>>
  <2>1. ASSUME NEW g \in Dirs, NEW k \in Names
        PROVE  <<g, k>> \in DOMAIN NamesSeen' <=>
                 (<<g, k>> \in DOMAIN NamesSeen /\ <<g, k>> # <<d, n>>) \/ <<g, k>> = <<e, m>>
    <3>1. CASE <<g, k>> = <<d, n>>
      BY <1>2, <1>3, <1>4, <1>5, <1>7, <3>1 DEF Seen, TreeInv, NamesApart
    <3>2. CASE <<g, k>> # <<d, n>>
      BY <1>2, <1>4, <1>5, <3>2 DEF Seen
    <3> QED
      BY <3>1, <3>2
  <2> QED
    BY <1>2, <2>1 DEF Seen
<1>9. ASSUME NEW p \in DOMAIN NamesSeen'
      PROVE  NamesSeen'[p] = IF p = <<e, m>> THEN i ELSE NamesSeen[p]
  <2>1. CASE p = <<e, m>>
    BY <1>2, <1>5, <2>1 DEF Seen
  <2>2. CASE p # <<e, m>>
    <3>1. p \in DOMAIN NamesSeen /\ p # <<d, n>> /\ p \in Dirs \X Names /\ p = <<p[1], p[2]>>
      BY <1>2, <1>8, <2>2 DEF Seen
    <3>2. PICK x \in Kept[p[1]] : x.name = p[2]
      BY <1>2, <3>1 DEF Seen
    <3>3. x.ino \in Inos /\ x = Bound(x.ino, p[2])
      BY <3>1, <3>2, KeptFields DEF TreeInv
    <3>4. ~ (p[1] = d /\ x = Bound(i, n))
      BY <1>4, <3>1, <3>2
    <3>5. Bound(x.ino, p[2]) \in Kept[p[1]] /\ Bound(x.ino, p[2]) \in Kept'[p[1]]
      BY <1>5, <3>1, <3>2, <3>3, <3>4
    <3> QED
      BY <1>2, <2>2, <3>1, <3>3, <3>5 DEF Seen
  <2> QED
    BY <2>1, <2>2
<1>10. NamesSeen' = [q \in (DOMAIN NamesSeen \ {<<d, n>>}) \cup {<<e, m>>} |->
                       IF q = <<e, m>> THEN NamesSeen[<<d, n>>] ELSE NamesSeen[q]]
  <2>1. NamesSeen' = [p \in DOMAIN NamesSeen' |-> NamesSeen'[p]]
    BY <1>2 DEF Seen
  <2>2. DOMAIN NamesSeen' = (DOMAIN NamesSeen \ {<<d, n>>}) \cup {<<e, m>>}
    BY <1>8
  <2> QED
    BY <1>6, <1>9, <2>1, <2>2
<1>11. DirsSeen' = DirsSeen
  <2>8. DirsSeen \subseteq Dirs /\ DirsSeen' \subseteq Dirs
    BY <1>2 DEF Seen
  <2>9. \A g \in Dirs : /\ g \in DirsSeen <=> inode[g].mode = "dir"
                        /\ g \in DirsSeen' <=> inode'[g].mode = "dir"
    BY <1>2 DEF Seen
  <2>1. \A g \in Dirs : g \in DirsSeen' <=> g \in DirsSeen
    BY <2>9
  <2> QED
    BY <2>1, <2>8
<1>12. answer' = Tree!Answer("OK", 0)
  BY DEF Answer, Tree!Answer
<1>13. e \notin Tree!Under(NamesSeen[<<d, n>>])
  BY <1>3, <1>6, UnderSeen
<1>14. Tree!Move(<<d, n>>, e, m)
  BY <1>6, <1>10, <1>11, <1>12, <1>13 DEF Tree!Move, NamesSeen, DirsSeen
<1> QED
  BY <1>6, <1>14


\* Every step of the directories is a step of the tree of names, or leaves it
\* and the answer alone.
LEMMA TreeNext ==
  ASSUME LongNames = {}, TreeInv, TreeInv', [Next]_vars
  PROVE  [Tree!Next]_<<NamesSeen, DirsSeen, answer>>
<1> DEFINE Step == [Tree!Next]_<<NamesSeen, DirsSeen, answer>>
<1>1. ASSUME UNCHANGED <<tree, answer>> PROVE Step
  BY <1>1, SeenStays DEF tree
<1>2. ASSUME UNCHANGED tree, NEW e \in Errnos, Fails(e) PROVE Step
  BY <1>2, RefuseSeen DEF Tree!Next
<1>3. ASSUME NEW d \in Dirs, NEW n \in Names, Lookup(d, n)
      PROVE  Step
  BY <1>3, LookupSeen DEF Tree!Next, DirsSeen
<1>4. ASSUME NEW d \in Dirs, NEW n \in Names, NEW mode \in {"dir", "file"}, Create(d, n, mode)
      PROVE  Step
  <2>1. PICK i \in Inos : d \in DirsSeen /\ Tree!Bind(d, n, i, mode = "dir")
    BY <1>4, CreateSeen
  <2>2. (mode = "dir") \in BOOLEAN
    OBVIOUS
  <2> QED
    BY <2>1, <2>2 DEF Tree!Next, DirsSeen
<1>5. ASSUME NEW d \in Dirs, NEW n \in Names, Unlink(d, n) \/ Rmdir(d, n)
      PROVE  Step
  <2>1. /\ dentry[d][n] \in Inos /\ Kept[dentry[d][n]] = {}
        /\ Remove(d, n, dentry[d][n])
    BY <1>5, RemovedEmpty
  <2>2. <<d, n>> \in DOMAIN NamesSeen /\ Tree!Unbind(<<d, n>>)
    BY <2>1, RemoveSeen
  <2> QED
    BY <2>2 DEF Tree!Next, NamesSeen
<1>6. ASSUME NEW d \in Dirs, NEW n \in Names, NEW e \in Dirs, NEW m \in Names,
             dentry[d][n] \in Inos, Moves(d, n, e, m, dentry[d][n]),
             e \notin Under(dentry[d][n]), answer' = Answer("OK", 0),
             \A g \in Dirs : inode'[g].mode = inode[g].mode
      PROVE  Step
  <2>1. /\ <<d, n>> \in DOMAIN NamesSeen /\ e \in DirsSeen
        /\ Tree!Move(<<d, n>>, e, m)
    BY <1>6, RenameSeen
  <2> QED
    BY <2>1 DEF Tree!Next, NamesSeen, DirsSeen
<1>7. ASSUME NEW d \in Dirs, NEW n \in Names, NEW m \in Names, RenameHere(d, n, m)
      PROVE  Step
  <2>1. dentry[d][n] \in Inos /\ Moves(d, n, d, m, dentry[d][n])
    BY <1>7, RenameHereMoves
  <2>2. d \notin Under(dentry[d][n]) /\ answer' = Answer("OK", 0) /\ inode' = inode
    BY <1>7 DEF RenameHere, Renames
  <2> QED
    BY <1>6, <2>1, <2>2
<1>8. ASSUME NEW d \in Dirs, NEW n \in Names, NEW e \in Dirs, NEW m \in Names,
             RenameAcross(d, n, e, m)
      PROVE  Step
  <2>1. dentry[d][n] \in Inos /\ d # e /\ Moves(d, n, e, m, dentry[d][n])
    BY <1>8, RenameAcrossMoves
  <2>2. e \notin Under(dentry[d][n]) /\ answer' = Answer("OK", 0)
    BY <1>8 DEF RenameAcross, Renames
  <2> DEFINE i == dentry[d][n]
  <2>3. inode' = LinksMoved(i, d, e)
    BY <1>8 DEF RenameAcross
  <2> HIDE DEF i
  <2>4. \A g \in Dirs : inode'[g].mode = inode[g].mode
    BY <2>1, <2>3 DEF LinksMoved, TreeInv, ModesTrue
  <2> QED
    BY <1>6, <2>1, <2>2, <2>4 DEF i
<1>9. ASSUME NEW d \in Dirs, NEW n \in Names, CreateFails(d, n) \/ RmdirFails(d, n)
      PROVE  Step
  <2>1. UNCHANGED tree /\ \E e \in Errnos : Fails(e)
    BY <1>9 DEF CreateFails, RmdirFails, Errnos, tree
  <2> QED
    BY <1>2, <2>1
<1>10. ASSUME NEW d \in Dirs, NEW n \in Names, NEW e \in Dirs, NEW m \in Names,
              RenameFails(d, n, e, m)
       PROVE  Step
  <2>1. UNCHANGED tree /\ \E x \in Errnos : Fails(x)
    BY <1>10 DEF RenameFails, Errnos, tree
  <2> QED
    BY <1>2, <2>1
<1>11. ASSUME NEW d \in Dirs, NEW n \in Names,
              \/ LookupBadInode(d, n)
              \/ Forget(d, n)
              \/ \E e \in Dirs, m \in Names : RenameOverrun(d, n, e, m)
       PROVE  Step
  BY <1>1, <1>11 DEF LookupBadInode, Forget, RenameOverrun, tree
<1>12. ASSUME NEW i \in Inos, Evict(i) PROVE Step
  BY <1>1, <1>12 DEF Evict, tree
<1>13. ASSUME NEW r \in Readers, (\E d \in Listed : Open(r, d)) \/ Iterate(r) \/ Close(r)
       PROVE  Step
  BY <1>1, <1>13 DEF Open, Iterate, Close, tree
<1>14. CASE UNCHANGED vars
  BY <1>1, <1>14 DEF vars, tree
<1> HIDE DEF Step
<1>15. ASSUME Next PROVE Step
  <2>1. CASE \E d \in Dirs, n \in Names :
               \/ Lookup(d, n) \/ LookupBadInode(d, n) \/ Forget(d, n)
               \/ CreateFails(d, n)
               \/ \E mode \in {"dir", "file"} : Create(d, n, mode)
               \/ Unlink(d, n) \/ Rmdir(d, n) \/ RmdirFails(d, n)
               \/ \E m \in Names : RenameHere(d, n, m)
               \/ \E e \in Dirs, m \in Names :
                    RenameAcross(d, n, e, m) \/ RenameFails(d, n, e, m)
                      \/ RenameOverrun(d, n, e, m)
    BY <1>3, <1>4, <1>5, <1>7, <1>8, <1>9, <1>10, <1>11, <2>1
  <2>2. CASE \/ \E i \in Inos : Evict(i)
             \/ \E r \in Readers :
                  \/ \E d \in Listed : Open(r, d)
                  \/ Iterate(r) \/ Close(r)
    BY <1>12, <1>13, <2>2
  <2> QED
    BY <1>15, <2>1, <2>2 DEF Next, Dirs
<1> QED
  BY <1>14, <1>15 DEF Step

\* Directories, bitmap and cache together implement the tree of names: each
\* call of inode.c changes it as the call of Namespace with its answer does,
\* and listings, evictions and failed reads do not change it at all.
THEOREM DirRefinesNamespace == LongNames = {} => (Spec => RefinesNamespace)
<1> SUFFICES ASSUME LongNames = {} PROVE Spec => RefinesNamespace
  OBVIOUS
<1>1. Init => Tree!Init
  BY SeenInit
<1>2. TreeInv /\ TreeInv' /\ [Next]_vars => [Tree!Next]_<<NamesSeen, DirsSeen, answer>>
  BY TreeNext
<1>3. Spec => []TreeInv
  BY TreeAlways
<1> QED
  BY <1>1, <1>2, <1>3, PTL DEF Spec, RefinesNamespace, Tree!Spec, NamesSeen, DirsSeen

=============================================================================
