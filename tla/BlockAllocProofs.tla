-------------------------- MODULE BlockAllocProofs --------------------------
(***************************************************************************)
(* For any number of threads and blocks, the lock of an inode protects the *)
(* bitmap and its counter from the calls that take it, as long as every    *)
(* thread works on that inode and no open truncates it. With a second      *)
(* inode (alloc_two_files) or such opens (Spec) GetsUnused does not hold.  *)
(***************************************************************************)
EXTENDS BlockAlloc, FiniteSetTheorems, TLAPS

\* The block on its way from the bitmap to the index, or back.
Missing(t) ==
  IF pc[t] \in {"decrement", "return", "set", "put"} THEN {blk[t]} ELSE {}

\* How far the counter is from the bitmap.
Extra(t) ==
  CASE pc[t] \in {"decrement", "return"} -> 1
    [] pc[t] \in {"increment", "leave"} -> -1
    [] OTHER -> 0

Balanced(F, missing, extra) ==
  /\ bits \cap used[F] = {}
  /\ missing \cap (bits \cup used[F]) = {}
  /\ bits \cup used[F] \cup missing = DataBlocks
  /\ count = Cardinality(bits) + extra

\* What a thread has loaded is still what is there.
Fresh(t) ==
  /\ pc[t] \in {"clear", "cleared"} => blk[t] \in bits
  /\ pc[t] \in {"cleared", "put"} => word[t] = bits \cap WordOf(blk[t])
  /\ pc[t] \in {"return", "leave"} => num[t] = count

\* A thread inside get_free_block or put_block has a data block in hand.
InHand == \A t \in Threads : pc[t] \notin {"out", "in"} => blk[t] \in DataBlocks

\* The holder of the lock, and nobody else, is at work; the block and the
\* count it has in hand are all that is missing.
AllocInv(F) ==
  /\ \A t \in Threads : pc[t] # "out" <=> owner[F] = t
  /\ \A f \in Files \ {F} : used[f] = {}
  /\ owner[F] = Nobody => Balanced(F, {}, 0)
  /\ \A t \in Threads :
       owner[F] = t => Balanced(F, Missing(t), Extra(t)) /\ Fresh(t)

\* The bitmap is a finite set.
LEMMA Countable == TypeOK => Cardinality(bits) \in Nat
BY AllocAssumption, FS_Subset, FS_CardinalityType DEF TypeOK

\* Every subset of the data blocks has a cardinality, and it changes by one
\* when a block enters or leaves.
LEMMA Counting ==
  ASSUME NEW S \in SUBSET DataBlocks, NEW b \in DataBlocks
  PROVE  /\ Cardinality(S) \in Nat
         /\ b \in S => Cardinality(S \ {b}) = Cardinality(S) - 1
         /\ b \notin S => Cardinality(S \cup {b}) = Cardinality(S) + 1
<1>1. IsFiniteSet(S)
  BY AllocAssumption, FS_Subset
<1> QED
  BY <1>1, FS_CardinalityType, FS_AddElement, FS_RemoveElement

\* The type invariant is inductive with InHand, whatever the locks do.
LEMMA TypeStep == TypeOK /\ InHand /\ [Next]_vars => TypeOK' /\ InHand'
<1> SUFFICES ASSUME TypeOK, InHand, [Next]_vars PROVE TypeOK' /\ InHand'
  OBVIOUS
<1> USE DEF TypeOK, InHand, Labels, Goto, locals
<1>1. ASSUME NEW t \in Threads, Step(t) PROVE TypeOK' /\ InHand'
  <2>0. FileOf[t] \in Files
    BY AllocAssumption
  <2>1. CASE Lock(t)
    BY <2>0, <2>1 DEF Lock
  <2>2. CASE Unlock(t)
    BY <2>0, <2>2 DEF Unlock
  <2>3. CASE Find(t)
    BY <2>3 DEF Find
  <2>4. CASE ClearLoad(t)
    BY <2>4 DEF ClearLoad
  <2>5. CASE ClearStore(t)
    BY <2>5 DEF ClearStore
  <2>6. CASE DecLoad(t)
    BY <2>6 DEF DecLoad
  <2>7. CASE Return(t)
    BY <2>0, <2>7 DEF Return
  <2>8. CASE Put(t)
    BY <2>0, <2>8 DEF Put
  <2>9. CASE SetLoad(t)
    BY <2>9 DEF SetLoad
  <2>10. CASE SetStore(t)
    BY <2>10 DEF SetStore
  <2>11. CASE IncLoad(t)
    BY <2>11 DEF IncLoad
  <2>12. CASE IncStore(t)
    BY <2>12 DEF IncStore
  <2>13. CASE SetSize(t)
    BY <2>0, <2>13 DEF SetSize
  <2>14. CASE OpenPut(t)
    BY <2>0, <2>14 DEF OpenPut
  <2>15. CASE OpenClear(t)
    BY <2>0, <2>15 DEF OpenClear
  <2> QED
    BY <1>1, <2>1, <2>2, <2>3, <2>4, <2>5, <2>6, <2>7, <2>8, <2>9, <2>10,
       <2>11, <2>12, <2>13, <2>14, <2>15 DEF Step, LockedStep
<1>2. CASE UNCHANGED vars
  BY <1>2 DEF vars
<1> QED
  BY <1>1, <1>2 DEF Next

\* No call is under way at first.
LEMMA TypeInit == Init => TypeOK /\ InHand
BY AllocAssumption, FS_CardinalityType
   DEF Init, TypeOK, InHand, Labels

\* Any number of threads on any number of inodes, truncating opens included: a
\* call allocates or frees data blocks only.
THEOREM AllocTyped == Spec => []TypeOK
<1>1. Spec => [](TypeOK /\ InHand)
  BY TypeInit, TypeStep, PTL DEF Spec
<1> QED
  BY <1>1, PTL

-----------------------------------------------------------------------------
(* One inode *)

\* At first all blocks are free and counted, and nobody holds a lock.
LEMMA AllocInit ==
  ASSUME NEW F \in Files, Init PROVE AllocInv(F)
BY AllocAssumption, FS_CardinalityType DEF Init, AllocInv, Balanced

\* A call that holds the lock is a call.
LEMMA LockedIsNext == [LockedNext]_vars => [Next]_vars
BY DEF LockedNext, Next, Step

\* Whoever takes a step of a call holds the lock, so all the others are out.
LEMMA AllocStep ==
  ASSUME NEW F \in Files, \A t \in Threads : FileOf[t] = F,
         TypeOK, InHand, AllocInv(F), [LockedNext]_vars
  PROVE  AllocInv(F)'
<1> USE DEF TypeOK, InHand, Labels, Goto, locals
<1>1. ASSUME NEW t \in Threads, LockedStep(t) PROVE AllocInv(F)'
  <2>0. FileOf[t] = F /\ t # Nobody
    BY AllocAssumption
  <2>00. Cardinality(bits) \in Int
    BY Countable
  <2>1. CASE Lock(t)
    <3>1. /\ owner[F] = Nobody /\ pc[t] = "out"
          /\ pc' = [pc EXCEPT ![t] = "in"] /\ owner' = [owner EXCEPT ![F] = t]
          /\ UNCHANGED <<bits, count, used, blk, word, num>>
      BY <2>0, <2>1 DEF Lock
    <3>2. Balanced(F, {}, 0)
      BY <3>1 DEF AllocInv
    <3>6. Balanced(F, {}, 0)'
      BY <3>1, <3>2 DEF Balanced
    <3>3. \A u \in Threads : pc'[u] # "out" <=> owner'[F] = u
      BY <2>0, <3>1, AllocAssumption DEF AllocInv
    <3>4. Missing(t)' = {} /\ Extra(t)' = 0 /\ Fresh(t)'
      BY <3>1 DEF Missing, Extra, Fresh
    <3>5. Balanced(F, Missing(t), Extra(t))'
      BY <3>6, <3>4 DEF Balanced
    <3> QED
      BY <2>0, <3>1, <3>3, <3>4, <3>5 DEF AllocInv
  <2>2. CASE Unlock(t)
    <3>1. /\ owner[F] = t /\ pc[t] = "in"
          /\ pc' = [pc EXCEPT ![t] = "out"]
          /\ owner' = [owner EXCEPT ![F] = Nobody]
          /\ UNCHANGED <<bits, count, used, blk, word, num>>
      BY <2>0, <2>2 DEF Unlock, AllocInv
    <3>2. Missing(t) = {} /\ Extra(t) = 0
      BY <3>1 DEF Missing, Extra
    <3>3. Balanced(F, {}, 0)'
      BY <3>1, <3>2 DEF AllocInv, Balanced
    <3>4. \A u \in Threads : pc'[u] # "out" <=> owner'[F] = u
      BY <2>0, <3>1, AllocAssumption DEF AllocInv
    <3> QED
      BY <2>0, <3>1, <3>3, <3>4, AllocAssumption DEF AllocInv
  <2>2b. CASE SetSize(t)
    BY <2>2b DEF SetSize, AllocInv, Balanced, Missing, Extra, Fresh
  <2> SUFFICES ASSUME ~ Lock(t), ~ Unlock(t), ~ SetSize(t) PROVE AllocInv(F)'
    BY <2>1, <2>2, <2>2b
  <2>3. /\ pc[t] # "out" /\ pc'[t] # "out" /\ owner[F] = t
        /\ owner' = owner
        /\ \A u \in Threads \ {t} : pc'[u] = pc[u] /\ owner[F] # u
    BY <1>1, <2>0 DEF LockedStep, AllocInv, Find, ClearLoad, ClearStore, DecLoad,
       Return, Put, SetLoad, SetStore, IncLoad, IncStore
  <2>4. Balanced(F, Missing(t), Extra(t)) /\ Fresh(t)
    BY <2>3 DEF AllocInv
  <2>5. \A f \in Files \ {F} : used'[f] = {}
    BY <1>1, <2>0 DEF LockedStep, AllocInv, Find, ClearLoad, ClearStore, DecLoad,
       Return, Put, SetLoad, SetStore, IncLoad, IncStore
  <2>6. Balanced(F, Missing(t), Extra(t))' /\ Fresh(t)'
    <3> USE DEF Balanced, Missing, Extra, Fresh
    <3>1. CASE Find(t)
      BY <2>4, <3>1 DEF Find
    <3>2. CASE ClearLoad(t)
      BY <2>4, <3>2 DEF ClearLoad, WordOf
    <3>3. CASE ClearStore(t)
      <4>1. /\ pc[t] = "cleared" /\ pc'[t] = "decrement"
            /\ blk[t] \in bits /\ word[t] = bits \cap WordOf(blk[t])
            /\ bits' = (bits \ WordOf(blk[t])) \cup (word[t] \ {blk[t]})
            /\ UNCHANGED <<count, used, blk>>
        BY <2>4, <3>3 DEF ClearStore
      <4>2. bits' = bits \ {blk[t]}
        BY <4>1, AllocAssumption DEF WordOf
      <4>3. Cardinality(bits') = Cardinality(bits) - 1
        BY <4>1, <4>2, Counting
      <4> QED
        BY <2>4, <4>1, <4>2, <4>3, Counting
    <3>4. CASE DecLoad(t)
      BY <2>4, <3>4 DEF DecLoad
    <3>5. CASE Return(t)
      BY <2>0, <2>00, <2>4, <3>5 DEF Return
    <3>6. CASE Put(t)
      BY <2>0, <2>4, <3>6 DEF Put
    <3>7. CASE SetLoad(t)
      BY <2>4, <3>7 DEF SetLoad, WordOf
    <3>8. CASE SetStore(t)
      <4>1. /\ pc[t] = "put" /\ pc'[t] = "increment"
            /\ blk[t] \in DataBlocks \ bits
            /\ word[t] = bits \cap WordOf(blk[t])
            /\ bits' = (bits \ WordOf(blk[t])) \cup word[t] \cup {blk[t]}
            /\ UNCHANGED <<count, used, blk>>
        BY <2>4, <3>8 DEF SetStore
      <4>2. bits' = bits \cup {blk[t]}
        BY <4>1 DEF WordOf
      <4>3. Cardinality(bits') = Cardinality(bits) + 1
        BY <4>1, <4>2, Counting
      <4> QED
        BY <2>4, <4>1, <4>2, <4>3, Counting
    <3>9. CASE IncLoad(t)
      BY <2>4, <3>9 DEF IncLoad
    <3>10. CASE IncStore(t)
      BY <2>00, <2>4, <3>10 DEF IncStore
    <3> QED
      BY <1>1, <3>1, <3>2, <3>3, <3>4, <3>5, <3>6, <3>7, <3>8, <3>9, <3>10
         DEF LockedStep
  <2> QED
    BY <2>0, <2>3, <2>5, <2>6 DEF AllocInv
<1>2. CASE UNCHANGED vars
  BY <1>2 DEF vars, AllocInv, Balanced, Missing, Extra, Fresh
<1> QED
  BY <1>1, <1>2 DEF LockedNext

\* When all threads work on one inode and none truncates it, get_free_block
\* returns a block that no file uses and no other call is about to return.
THEOREM OneInodeGetsUnused ==
  ASSUME NEW F \in Files, \A t \in Threads : FileOf[t] = F
  PROVE  LockedSpec => []GetsUnused
<1>1. TypeOK /\ AllocInv(F) => GetsUnused
  BY DEF TypeOK, AllocInv, GetsUnused, Allocating, Balanced, Missing
<1>2. Init => TypeOK /\ InHand /\ AllocInv(F)
  BY TypeInit, AllocInit
<1>3. TypeOK /\ InHand /\ AllocInv(F) /\ [LockedNext]_vars
        => (TypeOK /\ InHand /\ AllocInv(F))'
  BY TypeStep, AllocStep, LockedIsNext
<1> QED
  BY <1>1, <1>2, <1>3, PTL DEF LockedSpec

\* When all threads work on one inode, none truncates it and no call is under
\* way, every block is free or used and the counter is the number of free
\* blocks.
THEOREM OneInodeConserves ==
  ASSUME NEW F \in Files, \A t \in Threads : FileOf[t] = F
  PROVE  LockedSpec => []Conserved
<1>1. TypeOK /\ AllocInv(F) => Conserved
  <2> SUFFICES ASSUME TypeOK, AllocInv(F), Quiet PROVE Conserved
    BY DEF Conserved
  <2>1. Balanced(F, {}, 0)
    <3>1. CASE owner[F] = Nobody
      BY <3>1 DEF AllocInv
    <3>2. CASE owner[F] \in Threads
      BY <3>2 DEF AllocInv, Quiet, Missing, Extra
    <3> QED
      BY <3>1, <3>2 DEF TypeOK
  <2>2. UNION {used[f] : f \in Files} = used[F]
    BY DEF AllocInv
  <2>3. count = Cardinality(bits)
    BY <2>1, Countable DEF Balanced
  <2>4. \A f \in Files : /\ bits \cap used[f] = {}
                         /\ \A g \in Files \ {f} : used[f] \cap used[g] = {}
    BY <2>1 DEF AllocInv, Balanced
  <2>5. bits \cup UNION {used[f] : f \in Files} = DataBlocks
    BY <2>1, <2>2 DEF Balanced
  <2> QED
    BY <2>3, <2>4, <2>5 DEF Conserved
<1>2. Init => TypeOK /\ InHand /\ AllocInv(F)
  BY TypeInit, AllocInit
<1>3. TypeOK /\ InHand /\ AllocInv(F) /\ [LockedNext]_vars
        => (TypeOK /\ InHand /\ AllocInv(F))'
  BY TypeStep, AllocStep, LockedIsNext
<1> QED
  BY <1>1, <1>2, <1>3, PTL DEF LockedSpec

=============================================================================
