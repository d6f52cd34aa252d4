--------------------------- MODULE DentryRefsProofs ---------------------------
(***************************************************************************)
(* Theorems about DentryRefs, for any number of entries, inodes, threads   *)
(* and references: the counts are exact, nothing that is given away is     *)
(* used, an entry is on one list at most and none is forgotten.            *)
(*                                                                         *)
(* Those who count on an entry are the threads that hold it, the threads   *)
(* that still have to give it up, and its children: a step of a thread     *)
(* changes what one thread and one child have to do with it.               *)
(***************************************************************************)
EXTENDS DentryRefs, FiniteSetTheorems, SequenceTheorems, TLAPS

-----------------------------------------------------------------------------
(* Types                                                                   *)

Pcs == {"idle", "got", "put", "zero", "kill inode", "kill parent", "killed", "walk", "dispose",
        "steal", "shrink inode", "shrink parent", "shrink out", "unlocked", "check"}
Ops == {"none", "put", "prune", "parent", "all", "dispose", "steal"}

Lrus == {"none", "lru", "shrink", "wrong"}

Dentry == [mem : {"free", "live", "rcu"}, count : Int, parent : Dentries \cup {Nobody},
           hashed : BOOLEAN, inode : Inodes \cup {Nobody},
           lru : Lrus, referenced : BOOLEAN, may_free : BOOLEAN]
Thread == [pc : Pcs, op : Ops, d : Dentries \cup {Nobody}, p : Dentries \cup {Nobody},
           i : Inodes \cup {Nobody}, list : Seq(Dentries), refs : SUBSET Dentries,
           unmounts : BOOLEAN]

DnTyped == dn \in [Dentries -> Dentry]
ThTyped == th \in [Threads -> Thread]
LockTyped == i_lock \in [Inodes -> Threads \cup {Nobody}]
Typed == DnTyped /\ ThTyped /\ LockTyped

-----------------------------------------------------------------------------
(* The invariant                                                           *)

Alive(x) == dn[x].count # Dead
Holders(d) == {t \in Threads : Holds(t, d)}
Owers(d) == {t \in Threads : Owes(t, d)}
Child(c, d) == c # d /\ dn[c].parent = d /\ Alive(c)
Children(d) == {c \in Dentries : Child(c, d)}
Mount(d) == IF d = Root THEN 1 ELSE 0
Uses(r) == IF r.count = Dead THEN 0 ELSE r.count

\* The count of a living entry, and nobody counts on another.
Counted ==
  \A d \in Dentries :
    Uses(dn[d]) = Cardinality(Holders(d)) + Cardinality(Owers(d)) + Cardinality(Children(d)) + Mount(d)

\* What an entry is in each part of its life.
ShapeOf(d, r) ==
  /\ r.mem = "free" => r = NoDentry
  /\ r.mem = "rcu" => r.count = Dead /\ r.lru = "none"
  /\ r.count = Dead => ~ r.hashed /\ r.inode = Nobody /\ r.lru # "lru"
  /\ r.count # Dead => r.mem = "live" /\ ~ r.may_free
  /\ r.may_free => r.lru = "shrink" \/ r.mem # "live"
  /\ r.lru # "wrong"
  /\ r.mem # "free" => r.parent \in Dentries
  /\ r.parent = d => d = Root
  /\ d = Root => r.count # Dead /\ r.parent = Root /\ r.lru = "none" /\ ~ r.hashed /\ r.inode = Nobody
Shapes == \A d \in Dentries : ShapeOf(d, dn[d])

InSeq(s, d) == \E k \in DOMAIN s : s[k] = d
InList(t, d) == InSeq(th[t].list, d)
Once(s) == \A j, k \in DOMAIN s : s[j] = s[k] => j = k

Listed ==
  /\ \A t \in Threads : Once(th[t].list)
  /\ \A t, u \in Threads, d \in Dentries : InList(t, d) /\ InList(u, d) => t = u
  /\ \A d \in Dentries : dn[d].lru = "shrink" <=> \E t \in Threads : InList(t, d)

\* The entry of a thread that shrinks is the first of its list, or that of another.
Own(r) == r.op = "steal" \/ (r.op = "dispose" /\ r.list # <<>> /\ Head(r.list) = r.d)

\* Where a thread is, and what it knows there.
Nowhere == {"idle", "walk", "dispose", "check"}
NoList == {"idle", "got", "put", "zero", "kill inode", "kill parent", "check"}
NoParent == Nowhere \cup {"put", "zero", "kill inode", "steal", "shrink inode"}
NoInode == Nowhere \cup {"got", "put", "zero", "killed", "steal"}

AtPlace(r) ==
  /\ r.pc \in NoList => r.list = <<>>
  /\ r.pc \in Nowhere <=> r.d = Nobody
  /\ r.pc \in NoParent => r.p = Nobody
  /\ r.pc \in {"got", "kill parent", "shrink parent"} => r.p # Nobody
  /\ r.pc \in NoInode => r.i = Nobody
  /\ r.pc \in {"kill inode", "shrink inode"} => r.i # Nobody
  /\ r.pc \in {"idle", "got"} => r.op = "none"
  /\ r.pc = "got" => r.d \in r.refs /\ r.p \notin r.refs
  /\ r.pc \in {"put", "zero", "kill inode"} => r.op = "put"
  /\ r.pc = "kill parent" => r.op = "put" \/ (r.op = "prune" /\ r.i # Nobody)
  /\ r.pc = "killed" /\ r.p # Nobody => r.list = <<>>
  /\ r.pc = "dispose" => r.op = "dispose"
  /\ r.pc = "steal" => r.op = "steal"
  /\ r.pc \in {"shrink inode", "shrink parent", "shrink out", "unlocked"} => Own(r)

NotFree(x) == x # Nobody => dn[x].mem # "free"
\* A killed entry that is not buried yet.
Unburied(x) == dn[x].mem = "live" /\ dn[x].count = Dead /\ ~ dn[x].may_free

InPlace(t) ==
  /\ AtPlace(th[t])
  /\ NotFree(th[t].d) /\ NotFree(th[t].p)
  /\ th[t].pc \in {"kill inode", "kill parent"} /\ th[t].i # Nobody => dn[th[t].d].inode = th[t].i
  /\ th[t].pc \in {"kill parent", "shrink parent"} /\ th[t].i # Nobody => i_lock[th[t].i] = t
  /\ th[t].pc = "killed" => Unburied(th[t].d)
Places == \A t \in Threads : InPlace(t)

KilledOnce == \A t, u \in Threads : At(t, "killed") /\ At(u, "killed") /\ th[t].d = th[u].d => t = u
Dying ==
  \A d \in Dentries : dn[d].mem = "live" /\ dn[d].count = Dead =>
    \/ \E t \in Threads : At(t, "killed") /\ th[t].d = d
    \/ dn[d].lru = "shrink" /\ dn[d].may_free

\* Every way up through the living comes to the root.
Rooted ==
  \A S \in SUBSET Dentries :
    S # {} /\ (\A x \in S : Alive(x) /\ dn[x].parent \in S) => Root \in S

Gone == \A d \in Dentries : IF d = Root THEN dn[d].count = 1 ELSE dn[d].mem # "live"
UnmountPcs == {"idle", "walk", "dispose", "killed", "steal", "shrink inode", "shrink parent",
               "shrink out", "unlocked", "check"}
AloneIn(r) == r.refs = {} /\ r.pc \in UnmountPcs /\ (r.pc = "killed" => r.p = Nobody)
Unmounting ==
  \A t \in Threads :
    /\ th[t].unmounts =>
         /\ AloneIn(th[t])
         /\ \A u \in Threads \ {t} : At(u, "idle") /\ th[u].refs = {} /\ ~ th[u].unmounts
    /\ At(t, "check") => th[t].unmounts /\ Gone

RefsInv == Typed /\ Counted /\ Shapes /\ Listed /\ Places /\ KilledOnce /\ Dying /\ Rooted /\ Unmounting

-----------------------------------------------------------------------------
(* Counting                                                                *)

One(b) == IF b THEN 1 ELSE 0

LEMMA OneChanges ==
  ASSUME NEW S, NEW T, NEW x, IsFiniteSet(S), S \ {x} = T \ {x}
  PROVE  /\ IsFiniteSet(T)
         /\ Cardinality(T) = Cardinality(S) + One(x \in T) - One(x \in S)
<1>1. IsFiniteSet(S \ {x}) /\ Cardinality(S \ {x}) = Cardinality(S) - One(x \in S) /\ Cardinality(S) \in Nat
  BY FS_RemoveElement, FS_CardinalityType DEF One
<1>2. CASE x \in T
  <2>1. T = (T \ {x}) \cup {x}
    BY <1>2
  <2>2. T = (S \ {x}) \cup {x}
    BY <2>1
  <2>3. IsFiniteSet(T) /\ Cardinality(T) = Cardinality(S \ {x}) + 1
    BY <1>1, <2>2, FS_AddElement
  <2> QED
    BY <1>1, <1>2, <2>3 DEF One
<1>3. CASE x \notin T
  <2>1. T = S \ {x}
    BY <1>3
  <2> QED
    BY <1>1, <1>3, <2>1 DEF One
<1> QED
  BY <1>2, <1>3

LEMMA PartsFinite ==
  ASSUME NEW d \in Dentries
  PROVE  /\ IsFiniteSet(Holders(d)) /\ Cardinality(Holders(d)) \in Nat
         /\ IsFiniteSet(Owers(d)) /\ Cardinality(Owers(d)) \in Nat
         /\ IsFiniteSet(Children(d)) /\ Cardinality(Children(d)) \in Nat
<1>1. Holders(d) \in SUBSET Threads /\ Owers(d) \in SUBSET Threads /\ Children(d) \in SUBSET Dentries
  BY DEF Holders, Owers, Children
<1>2. IsFiniteSet(Threads) /\ IsFiniteSet(Dentries)
  BY DentryAssumption
<1>3. IsFiniteSet(Holders(d)) /\ IsFiniteSet(Owers(d)) /\ IsFiniteSet(Children(d))
  BY <1>1, <1>2, FS_Subset
<1> QED
  BY <1>3, FS_CardinalityType

LEMMA MemberCounts ==
  ASSUME NEW S, IsFiniteSet(S), NEW x \in S
  PROVE  Cardinality(S) >= 1
<1>1. Cardinality(S) \in Nat /\ Cardinality(S) # 0
  BY FS_CardinalityType, FS_EmptySet
<1> QED
  BY <1>1

LEMMA TwoCount ==
  ASSUME NEW S, IsFiniteSet(S), NEW x \in S, NEW y \in S, x # y
  PROVE  Cardinality(S) >= 2
<1>1. IsFiniteSet(S \ {x}) /\ Cardinality(S \ {x}) = Cardinality(S) - 1 /\ Cardinality(S) \in Nat
  BY FS_RemoveElement, FS_CardinalityType
<1>2. y \in S \ {x}
  OBVIOUS
<1>3. Cardinality(S \ {x}) >= 1
  BY <1>1, <1>2, MemberCounts
<1> QED
  BY <1>1, <1>3

\* Who counts on an entry keeps it alive.
LEMMA CountedOn ==
  ASSUME Typed, Counted, NEW d \in Dentries
  PROVE  /\ \A t \in Threads : Holds(t, d) => Alive(d) /\ dn[d].count >= 1 + Mount(d)
         /\ \A t \in Threads : Owes(t, d) => Alive(d) /\ dn[d].count >= 1 + Mount(d)
         /\ \A c \in Dentries : Child(c, d) => Alive(d) /\ dn[d].count >= 1 + Mount(d)
         /\ \A t, u \in Threads : Holds(t, d) /\ Owes(u, d) => dn[d].count >= 2
         /\ \A t, u \in Threads : Owes(t, d) /\ Owes(u, d) /\ t # u => dn[d].count >= 2
         /\ \A t \in Threads, c \in Dentries : Holds(t, d) /\ Child(c, d) => dn[d].count >= 2
         /\ \A t \in Threads, c \in Dentries : Owes(t, d) /\ Child(c, d) => dn[d].count >= 2
         /\ Alive(d) => dn[d].count \in Nat /\ dn[d].count >= Mount(d)
<1> DEFINE h == Cardinality(Holders(d))
           o == Cardinality(Owers(d))
           c == Cardinality(Children(d))
<1>1. h \in Nat /\ o \in Nat /\ c \in Nat /\ Mount(d) \in {0, 1} /\ Uses(dn[d]) = h + o + c + Mount(d)
  BY PartsFinite DEF Counted, Mount
<1>2. \A t \in Threads : Holds(t, d) => h >= 1
  <2> SUFFICES ASSUME NEW t \in Threads, Holds(t, d) PROVE h >= 1
    OBVIOUS
  <2>1. t \in Holders(d)
    BY DEF Holders
  <2> QED
    BY <2>1, PartsFinite, MemberCounts
<1>3. \A t \in Threads : Owes(t, d) => o >= 1
  <2> SUFFICES ASSUME NEW t \in Threads, Owes(t, d) PROVE o >= 1
    OBVIOUS
  <2>1. t \in Owers(d)
    BY DEF Owers
  <2> QED
    BY <2>1, PartsFinite, MemberCounts
<1>4. \A e \in Dentries : Child(e, d) => c >= 1
  <2> SUFFICES ASSUME NEW e \in Dentries, Child(e, d) PROVE c >= 1
    OBVIOUS
  <2>1. e \in Children(d)
    BY DEF Children
  <2> QED
    BY <2>1, PartsFinite, MemberCounts
<1>5. \A t, u \in Threads : Owes(t, d) /\ Owes(u, d) /\ t # u => o >= 2
  <2> SUFFICES ASSUME NEW t \in Threads, NEW u \in Threads, Owes(t, d), Owes(u, d), t # u PROVE o >= 2
    OBVIOUS
  <2>1. t \in Owers(d) /\ u \in Owers(d)
    BY DEF Owers
  <2> QED
    BY <2>1, PartsFinite, TwoCount
<1>6. dn[d].count \in Int /\ Uses(dn[d]) = IF Alive(d) THEN dn[d].count ELSE 0
  BY DEF Typed, DnTyped, Dentry, Uses, Alive
<1> HIDE DEF h, o, c
<1>7. Uses(dn[d]) >= 1 => Alive(d) /\ dn[d].count = Uses(dn[d])
  BY <1>6
<1> QED
  BY <1>1, <1>2, <1>3, <1>4, <1>5, <1>6, <1>7

\* Nobody has to do with an entry that is not alive.
LEMMA NobodyCounts ==
  ASSUME Typed, Counted, NEW d \in Dentries, ~ Alive(d)
  PROVE  /\ \A t \in Threads : ~ Holds(t, d) /\ ~ Owes(t, d)
         /\ \A c \in Dentries : ~ Child(c, d)
  BY CountedOn

-----------------------------------------------------------------------------
(* Steps of one thread                                                     *)

OwesIn(r, d) ==
  \/ r.op = "put" /\ r.d = d /\ r.pc \in {"put", "kill inode", "kill parent"}
  \/ r.pc = "killed" /\ r.p = d
ChildIn(r, c, d) == c # d /\ r.parent = d /\ r.count # Dead

Frame(t) == \A u \in Threads \ {t} : th'[u] = th[u]

\* The counts follow what the thread and one entry have to do with the entries.
Balance(t, c) ==
  /\ \A e \in Dentries \ {c} :
       /\ dn'[e].count = Dead <=> dn[e].count = Dead
       /\ dn[e].count # Dead => dn'[e].parent = dn[e].parent
  /\ \A d \in Dentries :
       Uses(dn'[d]) - Uses(dn[d]) =
           One(d \in th'[t].refs) - One(d \in th[t].refs)
         + One(OwesIn(th'[t], d)) - One(OwesIn(th[t], d))
         + One(ChildIn(dn'[c], c, d)) - One(ChildIn(dn[c], c, d))

LEMMA CountedStep ==
  ASSUME NEW t \in Threads, NEW c \in Dentries, Typed, Typed', Counted, Frame(t), Balance(t, c)
  PROVE  Counted'
<1> SUFFICES ASSUME NEW d \in Dentries
             PROVE  Uses(dn'[d]) = Cardinality(Holders(d)') + Cardinality(Owers(d)')
                                   + Cardinality(Children(d)') + Mount(d)
  BY DEF Counted, Mount
<1>1. IsFiniteSet(Holders(d)) /\ IsFiniteSet(Owers(d)) /\ IsFiniteSet(Children(d))
      /\ Cardinality(Holders(d)) \in Nat /\ Cardinality(Owers(d)) \in Nat /\ Cardinality(Children(d)) \in Nat
  BY PartsFinite
<1>2. Cardinality(Holders(d)') = Cardinality(Holders(d)) + One(d \in th'[t].refs) - One(d \in th[t].refs)
  <2>1. t \in Holders(d)' <=> d \in th'[t].refs
    BY DEF Holders, Holds
  <2>2. t \in Holders(d) <=> d \in th[t].refs
    BY DEF Holders, Holds
  <2>3. Holders(d) \ {t} = Holders(d)' \ {t}
    BY DEF Holders, Holds, Frame
  <2>4. Cardinality(Holders(d)') = Cardinality(Holders(d)) + One(t \in Holders(d)') - One(t \in Holders(d))
    BY <1>1, <2>3, OneChanges
  <2> QED
    BY <2>1, <2>2, <2>4
<1>3. Cardinality(Owers(d)') = Cardinality(Owers(d)) + One(OwesIn(th'[t], d)) - One(OwesIn(th[t], d))
  <2>1. t \in Owers(d)' <=> OwesIn(th'[t], d)
    BY DEF Owers, Owes, OwesIn
  <2>2. t \in Owers(d) <=> OwesIn(th[t], d)
    BY DEF Owers, Owes, OwesIn
  <2>3. Owers(d) \ {t} = Owers(d)' \ {t}
    BY DEF Owers, Owes, Frame
  <2>4. Cardinality(Owers(d)') = Cardinality(Owers(d)) + One(t \in Owers(d)') - One(t \in Owers(d))
    BY <1>1, <2>3, OneChanges
  <2> QED
    BY <2>1, <2>2, <2>4 DEF One
<1>4. Cardinality(Children(d)') = Cardinality(Children(d)) + One(ChildIn(dn'[c], c, d)) - One(ChildIn(dn[c], c, d))
  <2>1. c \in Children(d)' <=> ChildIn(dn'[c], c, d)
    BY DEF Children, Child, ChildIn, Alive
  <2>2. c \in Children(d) <=> ChildIn(dn[c], c, d)
    BY DEF Children, Child, ChildIn, Alive
  <2>3. Children(d) \ {c} = Children(d)' \ {c}
    BY DEF Children, Child, Balance, Alive
  <2>4. Cardinality(Children(d)') = Cardinality(Children(d)) + One(c \in Children(d)') - One(c \in Children(d))
    BY <1>1, <2>3, OneChanges
  <2> QED
    BY <2>1, <2>2, <2>4 DEF One
<1>5. Uses(dn'[d]) - Uses(dn[d]) =
           One(d \in th'[t].refs) - One(d \in th[t].refs)
         + One(OwesIn(th'[t], d)) - One(OwesIn(th[t], d))
         + One(ChildIn(dn'[c], c, d)) - One(ChildIn(dn[c], c, d))
  BY DEF Balance
<1>6. Uses(dn[d]) = Cardinality(Holders(d)) + Cardinality(Owers(d)) + Cardinality(Children(d)) + Mount(d)
  BY DEF Counted
<1>7. Uses(dn'[d]) \in Int /\ Uses(dn[d]) \in Int /\ Mount(d) \in Int
  BY DEF Typed, DnTyped, Dentry, Uses, Dead, Mount
<1> HIDE DEF Uses, OwesIn, ChildIn
<1> DEFINE a1 == One(d \in th'[t].refs)
           a2 == One(d \in th[t].refs)
           a3 == One(OwesIn(th'[t], d))
           a4 == One(OwesIn(th[t], d))
           a5 == One(ChildIn(dn'[c], c, d))
           a6 == One(ChildIn(dn[c], c, d))
<1>8. a1 \in Int /\ a2 \in Int /\ a3 \in Int /\ a4 \in Int /\ a5 \in Int /\ a6 \in Int
  BY DEF One
<1> HIDE DEF a1, a2, a3, a4, a5, a6
<1>9. Uses(dn'[d]) - Uses(dn[d]) = a1 - a2 + a3 - a4 + a5 - a6
  BY <1>5 DEF a1, a2, a3, a4, a5, a6
<1>10. Cardinality(Holders(d)') = Cardinality(Holders(d)) + a1 - a2
  BY <1>2 DEF a1, a2
<1>11. Cardinality(Owers(d)') = Cardinality(Owers(d)) + a3 - a4
  BY <1>3 DEF a3, a4
<1>12. Cardinality(Children(d)') = Cardinality(Children(d)) + a5 - a6
  BY <1>4 DEF a5, a6
<1> QED
  BY <1>1, <1>6, <1>7, <1>8, <1>9, <1>10, <1>11, <1>12

\* No thread but t has the inode of x for the death of x.
Unpinned(t, x) ==
  \A u \in Threads \ {t} : ~ (th[u].pc \in {"kill inode", "kill parent"} /\ th[u].d = x /\ th[u].i # Nobody)

\* The step leaves to the others what they know.
Keeps(t) ==
  /\ \A x \in Dentries :
       /\ dn[x].mem # "free" => dn'[x].mem # "free"
       /\ dn'[x].inode # dn[x].inode => Unpinned(t, x)
       /\ Unburied(x) /\ ~ (th[t].pc = "killed" /\ th[t].d = x) =>
            dn'[x].mem = "live" /\ dn'[x].count = Dead /\ ~ dn'[x].may_free
  /\ \A i \in Inodes, u \in Threads \ {t} : i_lock[i] = u => i_lock'[i] = u

LEMMA OthersInPlace ==
  ASSUME NEW t \in Threads, Typed, Places, KilledOnce, Frame(t), Keeps(t), NEW u \in Threads, u # t
  PROVE  InPlace(u)'
<1> DEFINE r == th[u]
<1>1. th'[u] = r /\ AtPlace(r) /\ InPlace(u)
  BY DEF Frame, Places, InPlace
<1>2. r.d \in Dentries \cup {Nobody} /\ r.p \in Dentries \cup {Nobody} /\ r.i \in Inodes \cup {Nobody}
  BY DEF Typed, ThTyped, Thread
<1>3. NotFree(r.d)' /\ NotFree(r.p)'
  BY <1>1, <1>2 DEF InPlace, NotFree, Keeps
<1>4. r.pc \in {"kill inode", "kill parent", "killed"} => r.d \in Dentries
  BY <1>1, <1>2 DEF AtPlace, Nowhere
<1>5. r.pc \in {"kill inode", "kill parent"} /\ r.i # Nobody => dn'[r.d].inode = r.i
  <2>1. r.pc \in {"kill inode", "kill parent"} /\ r.i # Nobody => dn[r.d].inode = r.i
    BY <1>1 DEF InPlace
  <2>2. r.pc \in {"kill inode", "kill parent"} /\ r.i # Nobody => ~ Unpinned(t, r.d)
    BY DEF Unpinned
  <2> QED
    BY <2>1, <2>2, <1>4 DEF Keeps
<1>6. r.pc \in {"kill parent", "shrink parent"} /\ r.i # Nobody => i_lock'[r.i] = u
  BY <1>1, <1>2 DEF InPlace, Keeps
<1>7. r.pc = "killed" => dn'[r.d].mem = "live" /\ dn'[r.d].count = Dead /\ ~ dn'[r.d].may_free
  <2>1. r.pc = "killed" => Unburied(r.d)
    BY <1>1 DEF InPlace
  <2>2. r.pc = "killed" => ~ (th[t].pc = "killed" /\ th[t].d = r.d)
    BY DEF KilledOnce, At
  <2> QED
    BY <2>1, <2>2, <1>4 DEF Keeps
<1> QED
  BY <1>1, <1>3, <1>5, <1>6, <1>7 DEF InPlace, Unburied

\* What dies is buried by the thread, or by who did it before.
Buries(t) ==
  /\ \A x \in Dentries : dn'[x].mem = "live" /\ dn'[x].count = Dead =>
       \/ th'[t].pc = "killed" /\ th'[t].d = x
       \/ dn'[x].lru = "shrink" /\ dn'[x].may_free
       \/ Unburied(x) /\ ~ (th[t].pc = "killed" /\ th[t].d = x)
  /\ th'[t].pc = "killed" => Alive(th'[t].d)

LEMMA DyingStep ==
  ASSUME NEW t \in Threads, Typed, Typed', Dying, Frame(t), Buries(t)
  PROVE  Dying'
<1> SUFFICES ASSUME NEW x \in Dentries, dn'[x].mem = "live", dn'[x].count = Dead,
                    ~ (dn'[x].lru = "shrink" /\ dn'[x].may_free),
                    ~ (th'[t].pc = "killed" /\ th'[t].d = x)
             PROVE  \E u \in Threads : th'[u].pc = "killed" /\ th'[u].d = x
  BY DEF Dying, At
<1>1. Unburied(x) /\ ~ (th[t].pc = "killed" /\ th[t].d = x)
  BY DEF Buries
<1>2. PICK u \in Threads : th[u].pc = "killed" /\ th[u].d = x
  BY <1>1 DEF Dying, Unburied, At
<1>3. u # t
  BY <1>1, <1>2
<1> QED
  BY <1>2, <1>3 DEF Frame

LEMMA KilledOnceStep ==
  ASSUME NEW t \in Threads, Typed, Typed', KilledOnce, Places, Frame(t), Buries(t)
  PROVE  KilledOnce'
<1>1. \A u \in Threads : u # t /\ th'[u].pc = "killed" => th'[u] = th[u] /\ ~ Alive(th'[u].d)
  <2> SUFFICES ASSUME NEW u \in Threads, u # t, th'[u].pc = "killed" PROVE th'[u] = th[u] /\ ~ Alive(th'[u].d)
    OBVIOUS
  <2>1. th'[u] = th[u] /\ InPlace(u)
    BY DEF Frame, Places
  <2> QED
    BY <2>1 DEF InPlace, Unburied, Alive
<1>2. th'[t].pc = "killed" => Alive(th'[t].d)
  BY DEF Buries
<1> QED
  BY <1>1, <1>2 DEF KilledOnce, At

\* The list of the thread is that of the marked entries no one else has.
Lists(t) ==
  /\ Once(th'[t].list)
  /\ \A x \in Dentries :
       /\ InSeq(th'[t].list, x) => dn'[x].lru = "shrink"
       /\ dn'[x].lru = "shrink" => InSeq(th'[t].list, x) \/ (dn[x].lru = "shrink" /\ ~ InSeq(th[t].list, x))
       /\ dn[x].lru = "shrink" /\ ~ InSeq(th[t].list, x) => dn'[x].lru = "shrink" /\ ~ InSeq(th'[t].list, x)

LEMMA ListedStep ==
  ASSUME NEW t \in Threads, Listed, Frame(t), Lists(t)
  PROVE  Listed'
<1>1. ASSUME NEW u \in Threads PROVE Once(th'[u].list)
  BY DEF Listed, Frame, Lists
<1>2. ASSUME NEW u \in Threads, NEW v \in Threads, NEW d \in Dentries, InList(u, d)', InList(v, d)', u # v
      PROVE  FALSE
  <2>1. CASE u # t /\ v # t
    BY <1>2, <2>1 DEF Listed, Frame, InList
  <2>2. CASE u = t
    <3>1. InList(v, d) /\ v # t
      BY <1>2, <2>2 DEF Frame, InList
    <3>2. dn[d].lru = "shrink" /\ ~ InList(t, d)
      BY <3>1 DEF Listed
    <3> QED
      BY <3>2, <1>2, <2>2 DEF Lists, InList
  <2>3. CASE v = t
    <3>1. InList(u, d) /\ u # t
      BY <1>2, <2>3 DEF Frame, InList
    <3>2. dn[d].lru = "shrink" /\ ~ InList(t, d)
      BY <3>1 DEF Listed
    <3> QED
      BY <3>2, <1>2, <2>3 DEF Lists, InList
  <2> QED
    BY <2>1, <2>2, <2>3
<1>3. ASSUME NEW d \in Dentries, dn'[d].lru = "shrink"
      PROVE  \E u \in Threads : InList(u, d)'
  <2>1. CASE InSeq(th'[t].list, d)
    BY <2>1 DEF InList
  <2>2. CASE dn[d].lru = "shrink" /\ ~ InSeq(th[t].list, d)
    <3>1. PICK u \in Threads : InList(u, d)
      BY <2>2 DEF Listed
    <3>2. u # t
      BY <3>1, <2>2 DEF InList
    <3> QED
      BY <3>1, <3>2 DEF InList, Frame
  <2> QED
    BY <1>3, <2>1, <2>2 DEF Lists
<1>4. ASSUME NEW d \in Dentries, NEW u \in Threads, InList(u, d)'
      PROVE  dn'[d].lru = "shrink"
  <2>1. CASE u = t
    BY <1>4, <2>1 DEF InList, Lists
  <2>2. CASE u # t
    <3>1. InList(u, d)
      BY <1>4, <2>2 DEF InList, Frame
    <3>2. dn[d].lru = "shrink" /\ ~ InList(t, d)
      BY <3>1, <2>2 DEF Listed
    <3> QED
      BY <3>2 DEF InList, Lists
  <2> QED
    BY <2>1, <2>2
<1> QED
  BY <1>1, <1>2, <1>3, <1>4 DEF Listed

LEMMA SameLists ==
  ASSUME NEW t \in Threads, Listed, Frame(t), th'[t].list = th[t].list,
         \A x \in Dentries : dn'[x].lru = "shrink" <=> dn[x].lru = "shrink"
  PROVE  Lists(t)
<1>1. \A x \in Dentries : InSeq(th[t].list, x) => dn[x].lru = "shrink"
  BY DEF Listed, InList
<1> QED
  BY <1>1 DEF Lists, Listed

\* Nothing becomes alive or gets another parent.
SameWays == \A x \in Dentries : dn'[x].count # Dead => Alive(x) /\ dn'[x].parent = dn[x].parent

LEMMA RootedStep ==
  ASSUME Rooted, SameWays
  PROVE  Rooted'
<1> SUFFICES ASSUME NEW S \in SUBSET Dentries, S # {}, \A x \in S : dn'[x].count # Dead /\ dn'[x].parent \in S
             PROVE  Root \in S
  BY DEF Rooted, Alive
<1>1. \A x \in S : Alive(x) /\ dn[x].parent \in S
  BY DEF SameWays
<1> QED
  BY <1>1 DEF Rooted

\* The thread is not the one that unmounts, or does only what that one may do.
Unmounts(t) ==
  /\ \A u \in Threads \ {t} : ~ th[u].unmounts
  /\ th'[t].unmounts = th[t].unmounts
  /\ th'[t].pc # "check"
  /\ th[t].unmounts => AloneIn(th'[t])

LEMMA UnmountingStep ==
  ASSUME NEW t \in Threads, Unmounting, Frame(t), Unmounts(t)
  PROVE  Unmounting'
<1>1. \A u \in Threads \ {t} : ~ th'[u].unmounts /\ th'[u] = th[u]
  BY DEF Unmounts, Frame
<1>2. ASSUME NEW u \in Threads PROVE th'[u].pc # "check"
  <2>1. CASE u = t
    BY <2>1 DEF Unmounts
  <2>2. CASE u # t
    BY <2>2, <1>1 DEF Unmounting, At
  <2> QED
    BY <2>1, <2>2
<1>3. ASSUME th'[t].unmounts
      PROVE  AloneIn(th'[t]) /\ \A u \in Threads \ {t} : th'[u].pc = "idle" /\ th'[u].refs = {} /\ ~ th'[u].unmounts
  BY <1>1, <1>3 DEF Unmounting, Unmounts, At
<1> QED
  BY <1>1, <1>2, <1>3 DEF Unmounting, At

\* A thread that is somewhere, or may call, is the only one that may unmount.
LEMMA NoOtherUnmounts ==
  ASSUME NEW t \in Threads, Unmounting, MayCall(t) \/ ~ At(t, "idle") \/ th[t].refs # {} \/ th[t].unmounts
  PROVE  /\ \A u \in Threads \ {t} : ~ th[u].unmounts
         /\ MayCall(t) => ~ th[t].unmounts
  BY DEF Unmounting, MayCall

StepOK(t, c) ==
  /\ Frame(t) /\ Typed' /\ Balance(t, c) /\ Shapes' /\ Lists(t) /\ Keeps(t) /\ InPlace(t)'
  /\ Buries(t) /\ Rooted' /\ Unmounts(t)

LEMMA StepKeepsInv ==
  ASSUME NEW t \in Threads, NEW c \in Dentries, RefsInv, StepOK(t, c)
  PROVE  RefsInv'
<1> USE DEF StepOK, RefsInv
<1>1. Counted'
  BY CountedStep
<1>2. Listed'
  BY ListedStep
<1>3. Places'
  <2>1. \A u \in Threads : InPlace(u)'
    BY OthersInPlace
  <2> QED
    BY <2>1 DEF Places
<1>4. KilledOnce' /\ Dying'
  BY KilledOnceStep, DyingStep
<1>5. Unmounting'
  BY UnmountingStep
<1> QED
  BY <1>1, <1>2, <1>3, <1>4, <1>5

-----------------------------------------------------------------------------
(* Sequences without repetition                                            *)

LEMMA AppendOnce ==
  ASSUME NEW s \in Seq(Dentries), NEW d \in Dentries, Once(s), ~ InSeq(s, d)
  PROVE  /\ Append(s, d) \in Seq(Dentries) /\ Once(Append(s, d))
         /\ \A x : InSeq(Append(s, d), x) <=> InSeq(s, x) \/ x = d
<1> DEFINE a == Append(s, d)
<1>1. a \in Seq(Dentries) /\ Len(a) = Len(s) + 1 /\ Len(s) \in Nat
      /\ DOMAIN a = 1 .. Len(a) /\ DOMAIN s = 1 .. Len(s)
      /\ a[Len(s) + 1] = d /\ \A k \in 1 .. Len(s) : a[k] = s[k]
  OBVIOUS
<1> HIDE DEF a
<1>2. \A k \in DOMAIN a : k \in DOMAIN s \/ k = Len(s) + 1
  BY <1>1
<1>3. \A k \in DOMAIN s : k \in DOMAIN a /\ a[k] = s[k] /\ s[k] # d
  BY <1>1 DEF InSeq
<1>4. Len(s) + 1 \in DOMAIN a
  BY <1>1
<1>5. Once(a)
  BY <1>1, <1>2, <1>3 DEF Once
<1>6. \A x : InSeq(a, x) <=> InSeq(s, x) \/ x = d
  BY <1>1, <1>2, <1>3, <1>4 DEF InSeq
<1> QED
  BY <1>1, <1>5, <1>6 DEF a

LEMMA TailOnce ==
  ASSUME NEW s \in Seq(Dentries), s # <<>>, Once(s)
  PROVE  /\ Tail(s) \in Seq(Dentries) /\ Once(Tail(s))
         /\ Head(s) \in Dentries /\ InSeq(s, Head(s))
         /\ \A x : InSeq(Tail(s), x) <=> InSeq(s, x) /\ x # Head(s)
<1> DEFINE a == Tail(s)
<1>1. a \in Seq(Dentries) /\ Len(a) = Len(s) - 1 /\ Len(s) \in Nat /\ Len(s) >= 1
      /\ DOMAIN a = 1 .. Len(a) /\ DOMAIN s = 1 .. Len(s)
      /\ Head(s) = s[1] /\ \A k \in 1 .. Len(a) : a[k] = s[k + 1]
  OBVIOUS
<1> HIDE DEF a
<1>2. 1 \in DOMAIN s /\ s[1] \in Dentries
  BY <1>1
<1>3. \A k \in DOMAIN a : k + 1 \in DOMAIN s /\ a[k] = s[k + 1] /\ k + 1 # 1
  BY <1>1
<1>4. \A j \in DOMAIN s : j # 1 => j - 1 \in DOMAIN a /\ a[j - 1] = s[j]
  BY <1>1
<1>5. Once(a)
  BY <1>1, <1>3 DEF Once
<1>6. ASSUME NEW x PROVE InSeq(a, x) <=> InSeq(s, x) /\ x # Head(s)
  <2>1. ASSUME InSeq(a, x) PROVE InSeq(s, x) /\ x # Head(s)
    BY <2>1, <1>1, <1>2, <1>3 DEF InSeq, Once
  <2>2. ASSUME InSeq(s, x), x # Head(s) PROVE InSeq(a, x)
    BY <2>2, <1>1, <1>4 DEF InSeq
  <2> QED
    BY <2>1, <2>2
<1>7. InSeq(s, Head(s))
  BY <1>1, <1>2 DEF InSeq
<1> QED
  BY <1>1, <1>2, <1>5, <1>6, <1>7 DEF a

-----------------------------------------------------------------------------
(* Locks                                                                   *)

Locks(t) ==
  /\ LockTyped'
  /\ \A i \in Inodes, u \in Threads \ {t} : i_lock[i] = u => i_lock'[i] = u

LEMMA LocksKept ==
  ASSUME NEW t \in Threads, LockTyped, i_lock' = i_lock
  PROVE  Locks(t)
  BY DEF Locks, LockTyped

LEMMA LocksReleased ==
  ASSUME NEW t \in Threads, LockTyped, Release(t)
  PROVE  Locks(t)
  BY DEF Locks, LockTyped, Release

LEMMA LocksTaken ==
  ASSUME NEW t \in Threads, NEW i \in Inodes, LockTyped, InodeFree(i), Takes(t, i)
  PROVE  Locks(t) /\ i_lock'[i] = t
<1>1. i_lock[i] = Nobody /\ Nobody \notin Threads
  BY DentryAssumption DEF InodeFree
<1>2. \A j \in Inodes : i_lock'[j] = IF j = i THEN t ELSE i_lock[j]
  BY DEF Takes
<1>3. i_lock' \in [Inodes -> Threads \cup {Nobody}]
  BY DEF Takes, LockTyped
<1> QED
  BY <1>1, <1>2, <1>3 DEF Locks, LockTyped

-----------------------------------------------------------------------------
(* Steps that change a living entry and leave it alive                     *)

\* The entry e becomes r.
Becomes(t, e, r) ==
  /\ r \in Dentry /\ dn' = [dn EXCEPT ![e] = r]
  /\ Alive(e) /\ ShapeOf(e, r) /\ r.count # Dead /\ r.parent = dn[e].parent
  /\ r.inode # dn[e].inode => Unpinned(t, e)

\* The entry e becomes r and the thread t becomes s.
Touch(t, e, r, s) ==
  /\ Becomes(t, e, r) /\ s \in Thread /\ th' = [th EXCEPT ![t] = s] /\ Locks(t)
  /\ \/ (r.lru = "shrink" <=> dn[e].lru = "shrink") /\ s.list = th[t].list
     \/ dn[e].lru # "shrink" /\ r.lru = "shrink" /\ s.list = Append(th[t].list, e)
  /\ th[t].pc # "killed" /\ s.pc \notin {"killed", "check"}
  /\ AtPlace(s) /\ NotFree(s.d) /\ NotFree(s.p)
  /\ s.pc \in {"kill inode", "kill parent"} /\ s.i # Nobody =>
       s.i = IF s.d = e THEN r.inode ELSE dn[s.d].inode
  /\ s.pc \in {"kill parent", "shrink parent"} /\ s.i # Nobody => i_lock'[s.i] = t
  /\ s.unmounts = th[t].unmounts /\ (th[t].unmounts => AloneIn(s))
  /\ MayCall(t) \/ ~ At(t, "idle") \/ th[t].unmounts
  /\ \A d \in Dentries :
       (IF d = e THEN Uses(r) - Uses(dn[e]) ELSE 0) =
         One(d \in s.refs) - One(d \in th[t].refs) + One(OwesIn(s, d)) - One(OwesIn(th[t], d))

LEMMA TouchKeepsInv ==
  ASSUME NEW t \in Threads, NEW e \in Dentries, NEW r, NEW s, RefsInv, Touch(t, e, r, s)
  PROVE  RefsInv'
<1>1. r \in Dentry /\ s \in Thread /\ th'[t] = s /\ dn'[e] = r
      /\ \A x \in Dentries \ {e} : dn'[x] = dn[x]
  BY DEF RefsInv, Typed, DnTyped, ThTyped, Touch, Becomes
<1>2. Frame(t)
  BY DEF RefsInv, Typed, ThTyped, Touch, Becomes, Frame
<1>3. Typed'
  <2>1. dn' \in [Dentries -> Dentry] /\ th' \in [Threads -> Thread]
    BY DEF RefsInv, Typed, DnTyped, ThTyped, Touch, Becomes
  <2> QED
    BY <2>1 DEF Typed, DnTyped, ThTyped, Touch, Becomes, Locks
<1>4. Shapes'
  <2>1. \A x \in Dentries : ShapeOf(x, dn'[x])
    BY <1>1 DEF Touch, Becomes, RefsInv, Shapes
  <2> QED
    BY <2>1 DEF Shapes
<1>5. dn[e].count # Dead /\ r.count # Dead /\ r.parent = dn[e].parent /\ dn[e].mem = "live" /\ r.mem = "live"
      /\ ~ dn[e].may_free /\ ~ r.may_free
  BY DEF Touch, Becomes, Alive, RefsInv, Shapes, ShapeOf
<1>6. Balance(t, e)
  <2>1. \A d \in Dentries : Uses(dn'[d]) - Uses(dn[d]) = IF d = e THEN Uses(r) - Uses(dn[e]) ELSE 0
    <3>1. \A d \in Dentries : Uses(dn[d]) \in Int
      BY DEF RefsInv, Typed, DnTyped, Dentry, Uses
    <3> QED
      BY <1>1, <3>1
  <2>2. \A d \in Dentries : ChildIn(dn'[e], e, d) <=> ChildIn(dn[e], e, d)
    BY <1>1, <1>5 DEF ChildIn
  <2>3. \A d \in Dentries : One(ChildIn(dn'[e], e, d)) - One(ChildIn(dn[e], e, d)) = 0
    BY <2>2 DEF One
  <2>4. \A d \in Dentries :
       (IF d = e THEN Uses(r) - Uses(dn[e]) ELSE 0) =
         One(d \in s.refs) - One(d \in th[t].refs) + One(OwesIn(s, d)) - One(OwesIn(th[t], d))
    BY DEF Touch, Becomes
  <2>5. \A b : One(b) \in Int
    BY DEF One
  <2>6. ASSUME NEW d \in Dentries
        PROVE  Uses(dn'[d]) - Uses(dn[d]) =
           One(d \in th'[t].refs) - One(d \in th[t].refs)
         + One(OwesIn(th'[t], d)) - One(OwesIn(th[t], d))
         + One(ChildIn(dn'[e], e, d)) - One(ChildIn(dn[e], e, d))
    <3> HIDE DEF One, Uses, ChildIn, OwesIn
    <3>1. Uses(dn'[d]) - Uses(dn[d]) = One(d \in s.refs) - One(d \in th[t].refs) + One(OwesIn(s, d)) - One(OwesIn(th[t], d))
      BY <2>1, <2>4
    <3> QED
      BY <3>1, <2>3, <2>5, <1>1
  <2> QED
    BY <1>1, <1>5, <2>6 DEF Balance
<1>7. Lists(t)
  <2>1. Listed
    BY DEF RefsInv
  <2>2. CASE (r.lru = "shrink" <=> dn[e].lru = "shrink") /\ s.list = th[t].list
    BY <1>1, <1>2, <2>1, <2>2, SameLists
  <2>3. CASE dn[e].lru # "shrink" /\ r.lru = "shrink" /\ s.list = Append(th[t].list, e)
    <3>1. th[t].list \in Seq(Dentries) /\ Once(th[t].list)
      BY <2>1 DEF RefsInv, Typed, ThTyped, Thread, Listed
    <3>2. \A x \in Dentries : InSeq(th[t].list, x) => dn[x].lru = "shrink"
      BY <2>1 DEF Listed, InList
    <3>3. Once(s.list) /\ \A x \in Dentries : InSeq(s.list, x) <=> InSeq(th[t].list, x) \/ x = e
      BY <2>3, <3>1, <3>2, AppendOnce
    <3> QED
      BY <1>1, <2>3, <3>2, <3>3 DEF Lists
  <2> QED
    BY <2>2, <2>3 DEF Touch, Becomes
<1>8. \A x \in Dentries : dn'[x].mem = dn[x].mem
  BY <1>1, <1>5
<1>9. Keeps(t)
  <2>1. \A x \in Dentries : dn'[x].inode # dn[x].inode => Unpinned(t, x)
    BY <1>1 DEF Touch, Becomes
  <2>2. \A x \in Dentries : Unburied(x) => dn'[x] = dn[x]
    BY <1>1, <1>5 DEF Unburied
  <2>3. \A i \in Inodes, u \in Threads \ {t} : i_lock[i] = u => i_lock'[i] = u
    BY DEF Touch, Becomes, Locks
  <2> QED
    BY <1>8, <2>1, <2>2, <2>3 DEF Keeps, Unburied
<1>10. InPlace(t)'
  <2>1. AtPlace(s) /\ s.pc # "killed"
    BY DEF Touch, Becomes
  <2>2. s.d \in Dentries \cup {Nobody} /\ s.p \in Dentries \cup {Nobody}
    BY <1>1 DEF Thread
  <2>3. NotFree(s.d)' /\ NotFree(s.p)'
    BY <1>8, <2>2 DEF Touch, Becomes, NotFree
  <2>4. s.pc \in {"kill inode", "kill parent"} => s.d \in Dentries
    BY <2>1, <2>2 DEF AtPlace, Nowhere
  <2>5. s.pc \in {"kill inode", "kill parent"} /\ s.i # Nobody => dn'[s.d].inode = s.i
    BY <1>1, <2>4 DEF Touch, Becomes
  <2>6. s.pc \in {"kill parent", "shrink parent"} /\ s.i # Nobody => i_lock'[s.i] = t
    BY DEF Touch, Becomes
  <2> QED
    BY <1>1, <2>1, <2>3, <2>5, <2>6 DEF InPlace
<1>11. Buries(t)
  <2>1. s.pc # "killed" /\ th[t].pc # "killed"
    BY DEF Touch, Becomes
  <2>2. \A x \in Dentries : dn'[x].count = Dead => dn'[x] = dn[x]
    BY <1>1, <1>5
  <2>3. \A x \in Dentries : dn[x].may_free /\ dn[x].mem = "live" => dn[x].lru = "shrink"
    BY DEF RefsInv, Shapes, ShapeOf
  <2> QED
    BY <1>1, <2>1, <2>2, <2>3 DEF Buries, Unburied
<1>12. Rooted'
  <2>1. SameWays
    BY <1>1, <1>5 DEF SameWays, Alive
  <2> QED
    BY <2>1, RootedStep DEF RefsInv
<1>13. Unmounts(t)
  <2>1. MayCall(t) \/ ~ At(t, "idle") \/ th[t].unmounts
    BY DEF Touch, Becomes
  <2>2. \A u \in Threads \ {t} : ~ th[u].unmounts
    BY <2>1, NoOtherUnmounts DEF RefsInv
  <2> QED
    BY <1>1, <2>2 DEF Touch, Becomes, Unmounts
<1>14. StepOK(t, e)
  BY <1>2, <1>3, <1>4, <1>6, <1>7, <1>9, <1>10, <1>11, <1>12, <1>13 DEF StepOK
<1> QED
  BY <1>14, StepKeepsInv

-----------------------------------------------------------------------------
(* References                                                              *)

LEMMA Values ==
  ASSUME RefsInv
  PROVE  /\ \A t \in Threads : th[t] \in Thread /\ AtPlace(th[t]) /\ InPlace(t)
         /\ \A x \in Dentries : dn[x] \in Dentry /\ ShapeOf(x, dn[x])
         /\ \A x \in Dentries : Alive(x) => dn[x].mem = "live" /\ dn[x].parent \in Dentries /\ ~ dn[x].may_free
                                            /\ dn[x].count \in Nat
         /\ Alive(Root) /\ Root \in Dentries
         /\ Nobody \notin Dentries /\ Nobody \notin Inodes /\ Nobody \notin Threads
<1>1. \A t \in Threads : th[t] \in Thread /\ AtPlace(th[t]) /\ InPlace(t)
  BY DEF RefsInv, Typed, ThTyped, Places, InPlace
<1>2. \A x \in Dentries : dn[x] \in Dentry /\ ShapeOf(x, dn[x])
  BY DEF RefsInv, Typed, DnTyped, Shapes
<1>3. \A x \in Dentries : Alive(x) => dn[x].count \in Nat
  BY CountedOn DEF RefsInv
<1>4. \A x \in Dentries : Alive(x) => dn[x].mem = "live" /\ dn[x].parent \in Dentries /\ ~ dn[x].may_free
  BY <1>2 DEF ShapeOf, Alive
<1>5. Root \in Dentries /\ Nobody \notin Dentries /\ Nobody \notin Inodes /\ Nobody \notin Threads
  BY DentryAssumption
<1>6. Alive(Root)
  BY <1>2, <1>5 DEF ShapeOf, Alive
<1> QED
  BY <1>1, <1>2, <1>3, <1>4, <1>5, <1>6

\* A thread that is idle and gets or gives up nothing else.
LEMMA IdlePlace ==
  ASSUME NEW t \in Threads, RefsInv, At(t, "idle")
  PROVE  /\ th[t].list = <<>> /\ th[t].d = Nobody /\ th[t].p = Nobody /\ th[t].i = Nobody /\ th[t].op = "none"
         /\ \A d : ~ OwesIn(th[t], d)
  BY Values DEF AtPlace, At, NoList, Nowhere, NoParent, NoInode, OwesIn


\* What a living entry may become: the same, ...
LEMMA BecomesSame ==
  ASSUME NEW t \in Threads, NEW e \in Dentries, RefsInv, Alive(e), dn' = dn
  PROVE  Becomes(t, e, dn[e])
<1>1. dn' = [dn EXCEPT ![e] = dn[e]]
  BY DEF RefsInv, Typed, DnTyped
<1> QED
  BY <1>1, Values DEF Becomes, Alive

Puts(e, r) == dn' = [dn EXCEPT ![e] = r]
WithCount(v, n) == [v EXCEPT !.count = n]
WithHash(v, h, i) == [v EXCEPT !.hashed = h, !.inode = i]

\* ... with another count, ...
LEMMA BecomesCounted ==
  ASSUME NEW t \in Threads, NEW e \in Dentries, RefsInv, Alive(e), NEW n \in Nat, NEW r,
         r = WithCount(dn[e], n), Puts(e, r)
  PROVE  /\ Becomes(t, e, r) /\ r.lru = dn[e].lru /\ r.mem = "live" /\ r.inode = dn[e].inode
         /\ r.count = n /\ Uses(r) = n /\ Uses(dn[e]) = dn[e].count
<1>1. dn[e] \in Dentry /\ ShapeOf(e, dn[e]) /\ dn[e].mem = "live"
  BY Values
<1>2. PICK v : v = dn[e]
  OBVIOUS
<1>3. /\ r \in Dentry /\ r.count = n /\ r.mem = v.mem /\ r.parent = v.parent /\ r.hashed = v.hashed
      /\ r.inode = v.inode /\ r.lru = v.lru /\ r.referenced = v.referenced /\ r.may_free = v.may_free
  BY <1>1, <1>2 DEF Dentry, WithCount
<1>4. v.count # Dead /\ r.count # Dead
  BY <1>2, <1>3 DEF Alive, Dead
<1>5. ShapeOf(e, r)
  BY <1>1, <1>2, <1>3, <1>4 DEF ShapeOf
<1> QED
  BY <1>1, <1>2, <1>3, <1>4, <1>5 DEF Becomes, Uses, Puts

\* ... in or out of its chain, with another inode.
LEMMA BecomesHashed ==
  ASSUME NEW t \in Threads, NEW e \in Dentries, RefsInv, Alive(e), e # Root,
         NEW h \in BOOLEAN, NEW i \in Inodes \cup {Nobody}, NEW r,
         r = WithHash(dn[e], h, i), Puts(e, r),
         i # dn[e].inode => Unpinned(t, e)
  PROVE  /\ Becomes(t, e, r) /\ r.lru = dn[e].lru /\ Uses(r) = Uses(dn[e])
<1>1. dn[e] \in Dentry /\ ShapeOf(e, dn[e]) /\ dn[e].mem = "live"
  BY Values
<1>2. PICK v : v = dn[e]
  OBVIOUS
<1>3. /\ r \in Dentry /\ r.count = v.count /\ r.mem = v.mem /\ r.parent = v.parent /\ r.hashed = h
      /\ r.inode = i /\ r.lru = v.lru /\ r.referenced = v.referenced /\ r.may_free = v.may_free
  BY <1>1, <1>2 DEF Dentry, WithHash
<1>4. v.count # Dead /\ r.count # Dead
  BY <1>2, <1>3 DEF Alive
<1>5. ShapeOf(e, r)
  BY <1>1, <1>2, <1>3, <1>4 DEF ShapeOf
<1> QED
  BY <1>1, <1>2, <1>3, <1>4, <1>5 DEF Becomes, Uses, Puts

\* What the call of a thread leaves of it when it returns.
Back(w, R) == [Returned(w) EXCEPT !.refs = R]

LEMMA ReturnedIs ==
  ASSUME NEW w \in Thread, NEW R \in SUBSET Dentries, NEW s, s = Back(w, R)
  PROVE  /\ s \in Thread /\ s.pc = "idle" /\ s.op = "none" /\ s.d = Nobody /\ s.p = Nobody /\ s.i = Nobody
         /\ s.list = <<>> /\ s.refs = R /\ s.unmounts = w.unmounts
         /\ AtPlace(s) /\ \A d : ~ OwesIn(s, d)
<1>1. PICK x : x = Idle
  OBVIOUS
<1>2. x \in Thread /\ x.pc = "idle" /\ x.op = "none" /\ x.d = Nobody /\ x.p = Nobody /\ x.i = Nobody
      /\ x.list = <<>> /\ x.unmounts = FALSE /\ x.refs = {}
  <2>1. <<>> \in Seq(Dentries) /\ "idle" \in Pcs /\ "none" \in Ops
    BY DEF Pcs, Ops
  <2> QED
    BY <1>1, <2>1 DEF Idle, Thread
<1>3. w.refs \in SUBSET Dentries /\ w.unmounts \in BOOLEAN
  BY DEF Thread
<1>4. s = [x EXCEPT !.refs = R, !.unmounts = w.unmounts]
  <2>1. PICK y : y = [x EXCEPT !.refs = w.refs, !.unmounts = w.unmounts]
    OBVIOUS
  <2>2. y \in Thread /\ s = [y EXCEPT !.refs = R]
    BY <1>1, <1>2, <1>3, <2>1 DEF Returned, Thread, Back
  <2> QED
    BY <2>1, <2>2, <1>2, <1>3 DEF Thread
<1>5. s \in Thread /\ s.pc = "idle" /\ s.op = "none" /\ s.d = Nobody /\ s.p = Nobody /\ s.i = Nobody
         /\ s.list = <<>> /\ s.refs = R /\ s.unmounts = w.unmounts
  BY <1>2, <1>3, <1>4 DEF Thread
<1>6. AtPlace(s)
  BY <1>5 DEF AtPlace, NoList, Nowhere, NoParent, NoInode
<1> QED
  BY <1>5, <1>6 DEF OwesIn

\* The call of the thread t returns with the references R; the entry e becomes r.
Ends(t, e, r, R) ==
  /\ Becomes(t, e, r) /\ (r.lru = "shrink" <=> dn[e].lru = "shrink")
  /\ R \in SUBSET Dentries
  /\ th' = [th EXCEPT ![t] = Back(th[t], R)] /\ Locks(t)
  /\ th[t].list = <<>> /\ th[t].pc # "killed"
  /\ MayCall(t) \/ ~ At(t, "idle")
  /\ R # th[t].refs => ~ th[t].unmounts
  /\ \A x \in Dentries :
       (IF x = e THEN Uses(r) - Uses(dn[e]) ELSE 0) =
         One(x \in R) - One(x \in th[t].refs) - One(OwesIn(th[t], x))

LEMMA EndsKeepsInv ==
  ASSUME NEW t \in Threads, NEW e \in Dentries, NEW r, NEW R, RefsInv, Ends(t, e, r, R)
  PROVE  RefsInv'
<1>1. th[t] \in Thread /\ R \in SUBSET Dentries
  BY Values DEF Ends
<1>w. PICK w : w = th[t]
  OBVIOUS
<1>2. PICK s : s = Back(w, R)
  OBVIOUS
<1>3. /\ s \in Thread /\ s.pc = "idle" /\ s.op = "none" /\ s.d = Nobody /\ s.p = Nobody /\ s.i = Nobody
      /\ s.list = <<>> /\ s.refs = R /\ s.unmounts = th[t].unmounts
      /\ AtPlace(s) /\ \A d : ~ OwesIn(s, d)
  <2>1. w \in Thread
    BY <1>1, <1>w
  <2>2. /\ s \in Thread /\ s.pc = "idle" /\ s.op = "none" /\ s.d = Nobody /\ s.p = Nobody /\ s.i = Nobody
        /\ s.list = <<>> /\ s.refs = R /\ s.unmounts = w.unmounts
        /\ AtPlace(s) /\ \A d : ~ OwesIn(s, d)
    BY <2>1, <1>1, <1>2, ReturnedIs
  <2> QED
    BY <2>2, <1>w
<1>4. \A x \in Dentries :
       (IF x = e THEN Uses(r) - Uses(dn[e]) ELSE 0) =
         One(x \in s.refs) - One(x \in th[t].refs) + One(OwesIn(s, x)) - One(OwesIn(th[t], x))
  <2>1. \A x : One(OwesIn(s, x)) = 0
    BY <1>3 DEF One
  <2>2. \A b : One(b) \in Int
    BY DEF One
  <2>3. \A x \in Dentries :
       (IF x = e THEN Uses(r) - Uses(dn[e]) ELSE 0) =
         One(x \in R) - One(x \in th[t].refs) - One(OwesIn(th[t], x))
    BY DEF Ends
  <2> HIDE DEF One
  <2>4. ASSUME NEW x \in Dentries
        PROVE  (IF x = e THEN Uses(r) - Uses(dn[e]) ELSE 0) =
                 One(x \in s.refs) - One(x \in th[t].refs) + One(OwesIn(s, x)) - One(OwesIn(th[t], x))
    BY <1>3, <2>1, <2>2, <2>3
  <2> QED
    BY <2>4
<1>5. th[t].unmounts => AloneIn(s)
  <2>1. th[t].unmounts => th[t].refs = {}
    BY DEF RefsInv, Unmounting, AloneIn
  <2> QED
    BY <1>3, <2>1 DEF AloneIn, UnmountPcs, Ends
<1>6. th' = [th EXCEPT ![t] = s] /\ s.list = th[t].list
  BY <1>w, <1>2, <1>3 DEF Ends
<1>7. Touch(t, e, r, s)
  BY <1>3, <1>4, <1>5, <1>6 DEF Touch, Ends, NotFree
<1> QED
  BY <1>7, TouchKeepsInv

\* An idle thread stays idle.
LEMMA StaysIdle ==
  ASSUME NEW t \in Threads, RefsInv, At(t, "idle")
  PROVE  \A R \in SUBSET Dentries : Back(th[t], R) = [th[t] EXCEPT !.refs = R]
<1> SUFFICES ASSUME NEW R \in SUBSET Dentries PROVE Back(th[t], R) = [th[t] EXCEPT !.refs = R]
  OBVIOUS
<1>1. PICK w : w = th[t]
  OBVIOUS
<1>2. w \in Thread /\ w.pc = "idle"
  BY <1>1, Values DEF At
<1>3. w.list = <<>> /\ w.d = Nobody /\ w.p = Nobody /\ w.i = Nobody /\ w.op = "none"
  BY <1>1, IdlePlace
<1>4. PICK a : a = Back(w, R)
  OBVIOUS
<1>5. PICK b : b = [w EXCEPT !.refs = R]
  OBVIOUS
<1>6. a \in Thread /\ a.pc = "idle" /\ a.op = "none" /\ a.d = Nobody /\ a.p = Nobody /\ a.i = Nobody
      /\ a.list = <<>> /\ a.refs = R /\ a.unmounts = w.unmounts
  BY <1>2, <1>4, ReturnedIs
<1>7. b \in Thread /\ b.pc = w.pc /\ b.op = w.op /\ b.d = w.d /\ b.p = w.p /\ b.i = w.i /\ b.list = w.list
      /\ b.refs = R /\ b.unmounts = w.unmounts
  BY <1>2, <1>5 DEF Thread
<1>8. a = b
  BY <1>2, <1>3, <1>6, <1>7 DEF Thread
<1> QED
  BY <1>1, <1>4, <1>5, <1>8

LEMMA ReturnedBack ==
  ASSUME NEW t \in Threads, RefsInv
  PROVE  Returned(th[t]) = Back(th[t], th[t].refs)
<1>1. PICK w : w = th[t]
  OBVIOUS
<1>2. w \in Thread
  BY <1>1, Values
<1>3. PICK x : x = Idle
  OBVIOUS
<1>4. x = [pc |-> x.pc, op |-> x.op, d |-> x.d, p |-> x.p, i |-> x.i,
         list |-> x.list, refs |-> x.refs, unmounts |-> x.unmounts]
  BY <1>3 DEF Idle
<1>5. PICK y : y = [x EXCEPT !.refs = w.refs, !.unmounts = w.unmounts]
  OBVIOUS
<1>6. y = [y EXCEPT !.refs = w.refs]
  BY <1>4, <1>5
<1> QED
  BY <1>1, <1>3, <1>5, <1>6 DEF Back, Returned

LEMMA RefsType ==
  ASSUME NEW t \in Threads, NEW d \in Dentries, RefsInv
  PROVE  th[t].refs \in SUBSET Dentries /\ th[t].refs \cup {d} \in SUBSET Dentries /\ th[t].refs \ {d} \in SUBSET Dentries
  BY Values DEF Thread

LEMMA AliveIs ==
  ASSUME RefsInv, NEW d \in Dentries
  PROVE  /\ dn[d].hashed => Alive(d) /\ d # Root
         /\ dn[d].inode # Nobody => Alive(d) /\ d # Root
         /\ dn[d].count \in Nat => Alive(d)
         /\ \A t \in Threads : Holds(t, d) => Alive(d) /\ dn[d].count > 0
         /\ \A t \in Threads : OwesIn(th[t], d) => Alive(d) /\ dn[d].count > 0
         /\ Alive(d) => Alive(dn[d].parent) /\ dn[dn[d].parent].count > 0
<1>1. dn[d] \in Dentry /\ ShapeOf(d, dn[d])
  BY Values
<1>2. dn[d].hashed \in BOOLEAN /\ dn[d].count \in Int
  BY <1>1 DEF Dentry
<1>3. dn[d].hashed => Alive(d) /\ d # Root
  BY <1>1, <1>2 DEF ShapeOf, Alive
<1>4. dn[d].inode # Nobody => Alive(d) /\ d # Root
  BY <1>1, <1>2 DEF ShapeOf, Alive
<1>5. \A t \in Threads : OwesIn(th[t], d) <=> Owes(t, d)
  BY DEF OwesIn, Owes
<1>6. \A x \in Dentries : Mount(x) \in Nat
  BY DEF Mount
<1>7. \A t \in Threads : Holds(t, d) \/ OwesIn(th[t], d) => Alive(d) /\ dn[d].count > 0
  BY <1>2, <1>5, <1>6, CountedOn DEF RefsInv
<1>8. ASSUME Alive(d) PROVE Alive(dn[d].parent) /\ dn[dn[d].parent].count > 0
  <2>1. dn[d].parent \in Dentries
    BY <1>8, Values
  <2>2. CASE dn[d].parent = d
    <3>1. d = Root
      BY <2>2, <1>1 DEF ShapeOf
    <3>2. dn[d].count \in Nat /\ dn[d].count >= Mount(d)
      BY <1>8, CountedOn DEF RefsInv
    <3> QED
      BY <2>2, <1>8, <3>1, <3>2 DEF Mount
  <2>3. CASE dn[d].parent # d
    <3>1. Child(d, dn[d].parent)
      BY <1>8, <2>3 DEF Child
    <3>2. Alive(dn[d].parent) /\ dn[dn[d].parent].count >= 1 + Mount(dn[d].parent)
      BY <2>1, <3>1, CountedOn DEF RefsInv
    <3>3. dn[dn[d].parent].count \in Int
      BY <2>1, Values DEF Dentry
    <3> QED
      BY <2>1, <3>2, <3>3, <1>6
  <2> QED
    BY <2>2, <2>3
<1> QED
  BY <1>2, <1>3, <1>4, <1>7, <1>8 DEF Alive, Dead

\* The thread t becomes s, and no entry changes.
MovesTo(t, s) ==
  /\ s \in Thread /\ dn' = dn /\ th' = [th EXCEPT ![t] = s] /\ Locks(t)
  /\ s.list = th[t].list /\ th[t].pc # "killed" /\ s.pc \notin {"killed", "check"}
  /\ AtPlace(s) /\ NotFree(s.d) /\ NotFree(s.p)
  /\ s.pc \in {"kill inode", "kill parent"} /\ s.i # Nobody => s.i = dn[s.d].inode
  /\ s.pc \in {"kill parent", "shrink parent"} /\ s.i # Nobody => i_lock'[s.i] = t
  /\ s.unmounts = th[t].unmounts /\ (th[t].unmounts => AloneIn(s))
  /\ MayCall(t) \/ ~ At(t, "idle") \/ th[t].unmounts
  /\ \A d \in Dentries :
       One(d \in s.refs) + One(OwesIn(s, d)) = One(d \in th[t].refs) + One(OwesIn(th[t], d))

LEMMA MovesKeepsInv ==
  ASSUME NEW t \in Threads, NEW s, RefsInv, MovesTo(t, s)
  PROVE  RefsInv'
<1>1. Becomes(t, Root, dn[Root]) /\ Root \in Dentries
  BY Values, BecomesSame DEF MovesTo
<1>2. Uses(dn[Root]) \in Int
  BY Values DEF Uses
<1>3. \A b : One(b) \in Int
  BY DEF One
<1>4. \A d \in Dentries :
       (IF d = Root THEN Uses(dn[Root]) - Uses(dn[Root]) ELSE 0) =
         One(d \in s.refs) - One(d \in th[t].refs) + One(OwesIn(s, d)) - One(OwesIn(th[t], d))
  <2> SUFFICES ASSUME NEW d \in Dentries
               PROVE  0 = One(d \in s.refs) - One(d \in th[t].refs) + One(OwesIn(s, d)) - One(OwesIn(th[t], d))
    BY <1>2
  <2>1. One(d \in s.refs) + One(OwesIn(s, d)) = One(d \in th[t].refs) + One(OwesIn(th[t], d))
    BY DEF MovesTo
  <2> QED
    BY <1>3, <2>1
<1>5. s.pc \in {"kill inode", "kill parent"} /\ s.i # Nobody =>
        s.i = IF s.d = Root THEN dn[Root].inode ELSE dn[s.d].inode
  BY DEF MovesTo
<1>6. Touch(t, Root, dn[Root], s)
  BY <1>1, <1>4, <1>5 DEF Touch, MovesTo
<1> QED
  BY <1>1, <1>6, TouchKeepsInv

\* A thread comes to hold a living entry, and has nothing else to do.
LEMMA HoldsMore ==
  ASSUME NEW t \in Threads, NEW d \in Dentries, RefsInv, Alive(d), ~ Holds(t, d),
         MayCall(t) \/ At(t, "got"),
         dn' = [dn EXCEPT ![d].count = @ + 1],
         th' = [th EXCEPT ![t] = Back(th[t], th[t].refs \cup {d})],
         UNCHANGED i_lock
  PROVE  RefsInv'
<1>1. PICK r : r = WithCount(dn[d], dn[d].count + 1)
  OBVIOUS
<1>2. Puts(d, r)
  BY <1>1 DEF WithCount, Puts
<1>3. dn[d].count \in Nat /\ dn[d].count + 1 \in Nat
  BY Values
<1>4. /\ Becomes(t, d, r) /\ r.lru = dn[d].lru
      /\ Uses(r) = dn[d].count + 1 /\ Uses(dn[d]) = dn[d].count
  BY <1>1, <1>2, <1>3, BecomesCounted
<1>5. th[t].list = <<>> /\ th[t].pc # "killed" /\ (MayCall(t) \/ ~ At(t, "idle")) /\ \A x : ~ OwesIn(th[t], x)
  BY Values DEF MayCall, At, OwesIn, AtPlace, NoList
<1>6. ~ th[t].unmounts
  <2>1. AtPlace(th[t])
    BY Values
  <2> QED
    BY <2>1, NoOtherUnmounts DEF RefsInv, Unmounting, AloneIn, At, UnmountPcs, AtPlace
<1>7. \A x \in Dentries :
        (IF x = d THEN Uses(r) - Uses(dn[d]) ELSE 0) =
          One(x \in th[t].refs \cup {d}) - One(x \in th[t].refs) - One(OwesIn(th[t], x))
  BY <1>3, <1>4, <1>5 DEF One, Holds
<1>8. Locks(t) /\ th[t].refs \cup {d} \in SUBSET Dentries
  BY LocksKept, RefsType DEF RefsInv, Typed
<1>9. Ends(t, d, r, th[t].refs \cup {d})
  BY <1>4, <1>5, <1>6, <1>7, <1>8 DEF Ends
<1> QED
  BY <1>9, EndsKeepsInv

LEMMA GetInv ==
  ASSUME NEW t \in Threads, NEW d \in Dentries, RefsInv, Get(t, d) \/ FindAlias(t, d)
  PROVE  RefsInv'
<1>1. MayCall(t) /\ At(t, "idle") /\ Alive(d) /\ ~ Holds(t, d)
  BY AliveIs DEF Get, FindAlias, MayCall
<1>2. th' = [th EXCEPT ![t].refs = @ \cup {d}] /\ dn' = [dn EXCEPT ![d].count = @ + 1] /\ UNCHANGED i_lock
  BY DEF Get, FindAlias
<1>3. th[t].refs \cup {d} \in SUBSET Dentries
  BY RefsType
<1>4. th' = [th EXCEPT ![t] = Back(th[t], th[t].refs \cup {d})]
  BY <1>1, <1>2, <1>3, StaysIdle
<1> QED
  BY <1>1, <1>2, <1>4, HoldsMore

LEMMA ReadParentInv ==
  ASSUME NEW t \in Threads, NEW d \in Dentries, RefsInv, ReadParent(t, d)
  PROVE  RefsInv'
<1>1. MayCall(t) /\ At(t, "idle") /\ d \in th[t].refs /\ dn[d].parent \notin th[t].refs
      /\ dn' = dn /\ i_lock' = i_lock
      /\ th' = [th EXCEPT ![t].pc = "got", ![t].d = d, ![t].p = dn[d].parent]
  BY DEF ReadParent, Holds, MayCall
<1>2. Alive(d)
  BY <1>1, AliveIs DEF Holds
<1>3. dn[d].parent \in Dentries /\ dn[d].mem = "live" /\ dn[dn[d].parent].mem = "live"
  BY <1>2, Values, AliveIs
<1>4. PICK w : w = th[t]
  OBVIOUS
<1>5. w \in Thread /\ w.pc = "idle" /\ w.op = "none" /\ w.i = Nobody /\ w.list = <<>>
  BY <1>1, <1>4, Values, IdlePlace DEF At
<1>6. PICK s : s = [w EXCEPT !.pc = "got", !.d = d, !.p = dn[d].parent]
  OBVIOUS
<1>7. th' = [th EXCEPT ![t] = s]
  BY <1>1, <1>4, <1>6
<1>8. s \in Thread /\ s.pc = "got" /\ s.op = "none" /\ s.d = d /\ s.p = dn[d].parent /\ s.i = Nobody
      /\ s.list = <<>> /\ s.refs = w.refs /\ s.unmounts = w.unmounts
  BY <1>3, <1>5, <1>6 DEF Thread, Pcs
<1>9. AtPlace(s)
  BY <1>1, <1>3, <1>4, <1>8, DentryAssumption DEF AtPlace, NoList, Nowhere, NoParent, NoInode
<1>10. ~ th[t].unmounts
  BY <1>1, NoOtherUnmounts DEF RefsInv
<1>11. \A x : ~ OwesIn(s, x) /\ ~ OwesIn(th[t], x)
  BY <1>4, <1>5, <1>8 DEF OwesIn
<1>12. Locks(t)
  BY <1>1, LocksKept DEF RefsInv, Typed
<1>13. MovesTo(t, s)
  BY <1>1, <1>3, <1>4, <1>5, <1>7, <1>8, <1>9, <1>10, <1>11, <1>12 DEF MovesTo, One, NotFree
<1> QED
  BY <1>13, MovesKeepsInv

LEMMA GetParentInv ==
  ASSUME NEW t \in Threads, RefsInv, GetParent(t)
  PROVE  RefsInv'
<1> DEFINE p == th[t].p
<1>1. At(t, "got") /\ dn[p].count > 0 /\ i_lock' = i_lock
      /\ dn' = [dn EXCEPT ![p].count = @ + 1]
      /\ th' = IF dn[th[t].d].parent = p
           THEN [th EXCEPT ![t] = Back(th[t], th[t].refs \cup {p})]
           ELSE [th EXCEPT ![t] = [Returned(th[t]) EXCEPT !.pc = "put", !.op = "put", !.d = p]]
  BY DEF GetParent, Back
<1>2. p \in Dentries /\ p \notin th[t].refs /\ th[t].list = <<>>
  BY <1>1, Values DEF Thread, AtPlace, At, NoList
<1>3. Alive(p) /\ dn[p].count \in Nat /\ dn[p].count + 1 \in Nat /\ dn[p].mem = "live"
  <2>1. dn[p].count \in Int
    BY <1>2, Values DEF Dentry
  <2>2. dn[p].count \in Nat
    BY <1>1, <2>1
  <2> QED
    BY <1>2, <2>2, AliveIs, Values
<1>4. CASE dn[th[t].d].parent = p
  <2>1. th' = [th EXCEPT ![t] = Back(th[t], th[t].refs \cup {p})]
    BY <1>1, <1>4
  <2> HIDE DEF p
  <2> QED
    BY <1>1, <1>2, <1>3, <2>1, HoldsMore DEF Holds
<1>5. CASE dn[th[t].d].parent # p
  <2>1. PICK w : w = Back(th[t], th[t].refs)
    OBVIOUS
  <2>2. /\ w \in Thread /\ w.pc = "idle" /\ w.op = "none" /\ w.d = Nobody /\ w.p = Nobody /\ w.i = Nobody
        /\ w.list = <<>> /\ w.refs = th[t].refs /\ w.unmounts = th[t].unmounts
    <3>1. th[t] \in Thread /\ th[t].refs \in SUBSET Dentries
      BY <1>2, Values, RefsType
    <3> QED
      BY <2>1, <3>1, ReturnedIs
  <2>3. PICK s : s = [w EXCEPT !.pc = "put", !.op = "put", !.d = p]
    OBVIOUS
  <2>4. th' = [th EXCEPT ![t] = s]
    BY <1>1, <1>5, <2>1, <2>3, ReturnedBack
  <2>5. s \in Thread /\ s.pc = "put" /\ s.op = "put" /\ s.d = p /\ s.p = Nobody /\ s.i = Nobody
        /\ s.list = <<>> /\ s.refs = th[t].refs /\ s.unmounts = th[t].unmounts
    <3> HIDE DEF p
    <3> QED
      BY <1>2, <2>2, <2>3 DEF Thread, Pcs, Ops
  <2>6. PICK r : r = WithCount(dn[p], dn[p].count + 1)
    OBVIOUS
  <2>7. Puts(p, r)
    BY <1>1, <2>6 DEF Puts, WithCount
  <2> HIDE DEF p
  <2>8. /\ Becomes(t, p, r) /\ r.lru = dn[p].lru
        /\ Uses(r) = dn[p].count + 1 /\ Uses(dn[p]) = dn[p].count
    BY <1>2, <1>3, <2>6, <2>7, BecomesCounted
  <2>9. AtPlace(s)
    BY <1>2, <2>5, DentryAssumption DEF AtPlace, NoList, Nowhere, NoParent, NoInode
  <2>10. \A x : ~ OwesIn(th[t], x)
    BY <1>1, Values DEF OwesIn, At, AtPlace
  <2>11. \A x : OwesIn(s, x) <=> x = p
    BY <2>5 DEF OwesIn
  <2>12. ~ th[t].unmounts
    BY <1>1 DEF RefsInv, Unmounting, AloneIn, At, UnmountPcs
  <2>13. \A x \in Dentries :
       (IF x = p THEN Uses(r) - Uses(dn[p]) ELSE 0) =
         One(x \in s.refs) - One(x \in th[t].refs) + One(OwesIn(s, x)) - One(OwesIn(th[t], x))
    BY <1>3, <2>5, <2>8, <2>10, <2>11 DEF One
  <2>14. Locks(t)
    BY <1>1, LocksKept DEF RefsInv, Typed
  <2>15. Touch(t, p, r, s)
    BY <1>1, <1>2, <1>3, <2>4, <2>5, <2>8, <2>9, <2>12, <2>13, <2>14 DEF Touch, NotFree, At
  <2> QED
    BY <1>2, <2>15, TouchKeepsInv
<1> QED
  BY <1>4, <1>5

LEMMA GetParentLockedInv ==
  ASSUME NEW t \in Threads, RefsInv, GetParentLocked(t)
  PROVE  RefsInv'
<1>1. PICK p : p = dn[th[t].d].parent
  OBVIOUS
<1>2. At(t, "got") /\ ~ Holds(t, p) /\ i_lock' = i_lock
      /\ dn' = [dn EXCEPT ![p].count = @ + 1]
      /\ th' = [th EXCEPT ![t] = Back(th[t], th[t].refs \cup {p})]
  BY <1>1 DEF GetParentLocked, Back
<1>3. th[t].d \in th[t].refs /\ th[t].d \in Dentries
  BY <1>2, Values DEF AtPlace, At, Thread
<1>4. p \in Dentries /\ Alive(p)
  BY <1>1, <1>3, AliveIs, Values DEF Holds
<1> QED
  BY <1>2, <1>4, HoldsMore

\* An idle thread changes the inode or the chain of a living entry.
LEMMA Rehashes ==
  ASSUME NEW t \in Threads, NEW d \in Dentries, RefsInv, MayCall(t), Alive(d), d # Root,
         NEW h \in BOOLEAN, NEW i \in Inodes \cup {Nobody},
         i # dn[d].inode => Unpinned(t, d),
         Puts(d, WithHash(dn[d], h, i)), UNCHANGED <<th, i_lock>>
  PROVE  RefsInv'
<1>1. PICK r : r = WithHash(dn[d], h, i)
  OBVIOUS
<1>2. Becomes(t, d, r) /\ r.lru = dn[d].lru /\ Uses(r) = Uses(dn[d])
  BY <1>1, BecomesHashed
<1>3. PICK s : s = th[t]
  OBVIOUS
<1>4. s \in Thread /\ AtPlace(s) /\ th' = [th EXCEPT ![t] = s] /\ s.pc = "idle"
  BY <1>3, Values DEF RefsInv, Typed, ThTyped, MayCall, At
<1>5. s.list = th[t].list /\ s.d = Nobody /\ s.p = Nobody /\ s.i = Nobody /\ s.refs = th[t].refs
  BY <1>3, <1>4, IdlePlace DEF At
<1>6. Uses(r) \in Int
  BY <1>2 DEF Becomes, Dentry, Uses
<1>7. \A x \in Dentries :
       (IF x = d THEN Uses(r) - Uses(dn[d]) ELSE 0) =
         One(x \in s.refs) - One(x \in th[t].refs) + One(OwesIn(s, x)) - One(OwesIn(th[t], x))
  <2>1. \A b : One(b) \in Int
    BY DEF One
  <2> QED
    BY <1>2, <1>3, <1>6, <2>1
<1>8. ~ th[t].unmounts
  BY DEF MayCall
<1>9. Locks(t)
  BY LocksKept DEF RefsInv, Typed
<1>10. Touch(t, d, r, s)
  BY <1>2, <1>3, <1>4, <1>5, <1>7, <1>8, <1>9 DEF Touch, NotFree
<1> QED
  BY <1>10, TouchKeepsInv

LEMMA AddInv ==
  ASSUME NEW t \in Threads, NEW d \in Dentries \ {Root}, NEW i \in Inodes \cup {Nobody}, RefsInv,
         Add(t, d, i) \/ Instantiate(t, d, i)
  PROVE  RefsInv'
<1>1. MayCall(t) /\ Holds(t, d) /\ dn[d].inode = Nobody /\ UNCHANGED <<th, i_lock>>
  BY DEF Add, Instantiate
<1>2. Alive(d)
  BY <1>1, AliveIs
<1>3. Unpinned(t, d)
  <2>1. \A u \in Threads : InPlace(u)
    BY Values
  <2> QED
    BY <1>1, <2>1 DEF Unpinned, InPlace
<1>4. \E h \in BOOLEAN : Puts(d, WithHash(dn[d], h, i))
  <2>1. CASE Add(t, d, i)
    BY <2>1 DEF Add, Puts, WithHash
  <2>2. CASE Instantiate(t, d, i)
    <3>1. dn' = [dn EXCEPT ![d].inode = i] /\ dn[d].hashed
      BY <2>2 DEF Instantiate
    <3>2. PICK v : v = dn[d]
      OBVIOUS
    <3>3. v \in Dentry /\ v.hashed = TRUE
      BY <3>1, <3>2, Values DEF Dentry
    <3>4. [v EXCEPT !.inode = i] = [v EXCEPT !.hashed = TRUE, !.inode = i]
      BY <3>3 DEF Dentry
    <3> QED
      BY <3>1, <3>2, <3>4 DEF Puts, WithHash
  <2> QED
    BY <2>1, <2>2
<1> QED
  BY <1>1, <1>2, <1>3, <1>4, Rehashes

\* Who has the lock of the inode, or finds it free, and is alone to give the entry up.
LEMMA UnpinnedWhen ==
  ASSUME NEW t \in Threads, NEW d \in Dentries, RefsInv,
         InodeFree(dn[d].inode) \/ i_lock[dn[d].inode] = t,
         \A u \in Threads \ {t} : ~ OwesIn(th[u], d)
  PROVE  Unpinned(t, d)
<1> SUFFICES ASSUME NEW u \in Threads \ {t}, th[u].pc \in {"kill inode", "kill parent"}, th[u].d = d, th[u].i # Nobody
             PROVE  FALSE
  BY DEF Unpinned
<1>1. AtPlace(th[u]) /\ InPlace(u) /\ th[u] \in Thread
  BY Values
<1>2. ~ OwesIn(th[u], d)
  OBVIOUS
<1>3. th[u].op # "put"
  BY <1>2 DEF OwesIn
<1>4. th[u].pc = "kill parent"
  BY <1>1, <1>3 DEF AtPlace
<1>5. dn[d].inode = th[u].i /\ i_lock[th[u].i] = u /\ th[u].i \in Inodes
  BY <1>1, <1>4 DEF InPlace, Thread
<1> QED
  BY <1>5, DentryAssumption DEF InodeFree

LEMMA OwesInIs ==
  ASSUME RefsInv, NEW d \in Dentries
  PROVE  /\ \A t, u \in Threads : Holds(t, d) /\ OwesIn(th[u], d) => dn[d].count >= 2
         /\ \A t, u \in Threads : OwesIn(th[t], d) /\ OwesIn(th[u], d) /\ t # u => dn[d].count >= 2
         /\ \A t \in Threads, c \in Dentries : Holds(t, d) /\ Child(c, d) => dn[d].count >= 2
         /\ \A t \in Threads, c \in Dentries : OwesIn(th[t], d) /\ Child(c, d) => dn[d].count >= 2
         /\ \A t \in Threads : OwesIn(th[t], d) => dn[d].count >= 1 + Mount(d)
         /\ \A c \in Dentries : Child(c, d) => dn[d].count >= 1 + Mount(d)
<1>1. \A t \in Threads : OwesIn(th[t], d) <=> Owes(t, d)
  BY DEF OwesIn, Owes
<1> QED
  BY <1>1, CountedOn DEF RefsInv

LEMMA DeleteInv ==
  ASSUME NEW t \in Threads, NEW d \in Dentries \ {Root}, RefsInv, Delete(t, d)
  PROVE  RefsInv'
<1>1. MayCall(t) /\ Holds(t, d) /\ InodeFree(dn[d].inode) /\ UNCHANGED <<th, i_lock>>
      /\ dn' = IF dn[d].count = 1 THEN [dn EXCEPT ![d].inode = Nobody]
               ELSE [dn EXCEPT ![d].hashed = FALSE]
  BY DEF Delete
<1>2. Alive(d) /\ dn[d] \in Dentry
  BY <1>1, AliveIs, Values
<1>3. PICK v : v = dn[d]
  OBVIOUS
<1>4. v \in Dentry /\ v.hashed \in BOOLEAN /\ v.inode \in Inodes \cup {Nobody}
  BY <1>2, <1>3 DEF Dentry
<1>5. CASE dn[d].count = 1
  <2>1. \A u \in Threads \ {t} : ~ OwesIn(th[u], d)
    BY <1>1, <1>5, OwesInIs
  <2>2. Unpinned(t, d)
    BY <1>1, <2>1, UnpinnedWhen
  <2>3. [v EXCEPT !.inode = Nobody] = [v EXCEPT !.hashed = v.hashed, !.inode = Nobody]
    BY <1>4 DEF Dentry
  <2>4. Puts(d, WithHash(dn[d], dn[d].hashed, Nobody))
    BY <1>1, <1>3, <1>5, <2>3 DEF Puts, WithHash
  <2> QED
    BY <1>1, <1>2, <1>3, <1>4, <2>2, <2>4, Rehashes
<1>6. CASE dn[d].count # 1
  <2>1. [v EXCEPT !.hashed = FALSE] = [v EXCEPT !.hashed = FALSE, !.inode = v.inode]
    BY <1>4 DEF Dentry
  <2>2. Puts(d, WithHash(dn[d], FALSE, dn[d].inode))
    BY <1>1, <1>3, <1>6, <2>1 DEF Puts, WithHash
  <2> QED
    BY <1>1, <1>2, <1>3, <1>4, <2>2, Rehashes
<1> QED
  BY <1>5, <1>6

LEMMA DropInv ==
  ASSUME NEW t \in Threads, NEW d \in Dentries \ {Root}, RefsInv, Drop(t, d)
  PROVE  RefsInv'
<1>1. MayCall(t) /\ Holds(t, d) /\ UNCHANGED <<th, i_lock>> /\ dn' = [dn EXCEPT ![d].hashed = FALSE]
  BY DEF Drop
<1>2. Alive(d) /\ dn[d] \in Dentry
  BY <1>1, AliveIs, Values
<1>3. PICK v : v = dn[d]
  OBVIOUS
<1>4. v \in Dentry /\ v.inode \in Inodes \cup {Nobody}
  BY <1>2, <1>3 DEF Dentry
<1>5. [v EXCEPT !.hashed = FALSE] = [v EXCEPT !.hashed = FALSE, !.inode = v.inode]
  BY <1>4 DEF Dentry
<1>6. Puts(d, WithHash(dn[d], FALSE, dn[d].inode))
  BY <1>1, <1>3, <1>5 DEF Puts, WithHash
<1> QED
  BY <1>1, <1>2, <1>3, <1>4, <1>6, Rehashes

-----------------------------------------------------------------------------
(* dput                                                                    *)

LEMMA PutInv ==
  ASSUME NEW t \in Threads, NEW d \in Dentries, RefsInv, Put(t, d)
  PROVE  RefsInv'
<1>1. MayCall(t) /\ At(t, "idle") /\ d \in th[t].refs /\ dn' = dn /\ i_lock' = i_lock
      /\ th' = [th EXCEPT ![t].pc = "put", ![t].op = "put", ![t].d = d, ![t].refs = @ \ {d}]
  BY DEF Put, Holds, MayCall
<1>2. dn[d].mem = "live"
  BY <1>1, AliveIs, Values DEF Holds
<1>3. PICK w : w = th[t]
  OBVIOUS
<1>4. w \in Thread /\ w.pc = "idle" /\ w.op = "none" /\ w.i = Nobody /\ w.list = <<>> /\ w.p = Nobody
  BY <1>1, <1>3, Values, IdlePlace DEF At
<1>5. PICK s : s = [w EXCEPT !.pc = "put", !.op = "put", !.d = d, !.refs = w.refs \ {d}]
  OBVIOUS
<1>6. th' = [th EXCEPT ![t] = s]
  BY <1>1, <1>3, <1>5
<1>7. s \in Thread /\ s.pc = "put" /\ s.op = "put" /\ s.d = d /\ s.p = Nobody /\ s.i = Nobody
      /\ s.list = <<>> /\ s.refs = w.refs \ {d} /\ s.unmounts = w.unmounts
  BY <1>4, <1>5 DEF Thread, Pcs, Ops
<1>8. AtPlace(s)
  BY <1>7, DentryAssumption DEF AtPlace, NoList, Nowhere, NoParent, NoInode
<1>9. ~ th[t].unmounts
  BY <1>1 DEF MayCall
<1>10. \A x : ~ OwesIn(th[t], x) /\ (OwesIn(s, x) <=> x = d)
  BY <1>3, <1>4, <1>7 DEF OwesIn
<1>11. Locks(t)
  BY <1>1, LocksKept DEF RefsInv, Typed
<1>12. \A x \in Dentries :
         One(x \in s.refs) + One(OwesIn(s, x)) = One(x \in th[t].refs) + One(OwesIn(th[t], x))
  BY <1>1, <1>3, <1>7, <1>10 DEF One
<1>13. NotFree(s.d) /\ NotFree(s.p)
  BY <1>2, <1>7 DEF NotFree
<1>14. MovesTo(t, s)
  BY <1>1, <1>3, <1>4, <1>6, <1>7, <1>8, <1>9, <1>11, <1>12, <1>13 DEF MovesTo
<1> QED
  BY <1>14, MovesKeepsInv

\* A thread that gives up a reference among others, and returns.
LEMMA GivesUp ==
  ASSUME NEW t \in Threads, NEW d \in Dentries, RefsInv, th[t].d = d, OwesIn(th[t], d), th[t].pc # "killed",
         NEW r, Becomes(t, d, r), r.lru = "shrink" <=> dn[d].lru = "shrink",
         r.count = dn[d].count - 1,
         th' = [th EXCEPT ![t] = Returned(th[t])], Locks(t)
  PROVE  RefsInv'
<1>1. th[t].list = <<>> /\ ~ At(t, "idle") /\ th[t].refs \in SUBSET Dentries
      /\ \A x : OwesIn(th[t], x) <=> x = d
  BY Values, RefsType DEF OwesIn, AtPlace, NoList, At
<1>2. th' = [th EXCEPT ![t] = Back(th[t], th[t].refs)]
  BY ReturnedBack
<1>3. Uses(r) = r.count /\ Uses(dn[d]) = dn[d].count /\ dn[d].count \in Nat
  BY Values DEF Becomes, Uses, Alive
<1>4. \A x \in Dentries :
       (IF x = d THEN Uses(r) - Uses(dn[d]) ELSE 0) =
         One(x \in th[t].refs) - One(x \in th[t].refs) - One(OwesIn(th[t], x))
  BY <1>1, <1>3 DEF One
<1>5. Ends(t, d, r, th[t].refs)
  BY <1>1, <1>2, <1>4 DEF Ends
<1> QED
  BY <1>5, EndsKeepsInv

\* A call that gave up nothing returns.
LEMMA JustReturns ==
  ASSUME NEW t \in Threads, RefsInv, th[t].list = <<>>, th[t].pc # "killed", ~ At(t, "idle"),
         \A x \in Dentries : ~ OwesIn(th[t], x),
         dn' = dn, th' = [th EXCEPT ![t] = Returned(th[t])], Locks(t)
  PROVE  RefsInv'
<1>1. Becomes(t, Root, dn[Root]) /\ Root \in Dentries
  BY Values, BecomesSame
<1>2. th' = [th EXCEPT ![t] = Back(th[t], th[t].refs)] /\ th[t].refs \in SUBSET Dentries
  BY <1>1, ReturnedBack, RefsType
<1>3. Uses(dn[Root]) \in Int
  BY Values DEF Uses
<1>4. \A x \in Dentries :
       (IF x = Root THEN Uses(dn[Root]) - Uses(dn[Root]) ELSE 0) =
         One(x \in th[t].refs) - One(x \in th[t].refs) - One(OwesIn(th[t], x))
  BY <1>3 DEF One
<1>5. Ends(t, Root, dn[Root], th[t].refs)
  BY <1>1, <1>2, <1>4 DEF Ends
<1> QED
  BY <1>1, <1>5, EndsKeepsInv

\* The thread is in dput, with a reference to give up.
InPut(t) == th[t].op = "put" /\ th[t].pc \in {"put", "kill inode", "kill parent"}

LEMMA AtPut ==
  ASSUME NEW t \in Threads, RefsInv, InPut(t)
  PROVE  /\ th[t].d \in Dentries /\ th[t].list = <<>> /\ OwesIn(th[t], th[t].d)
         /\ \A x : OwesIn(th[t], x) <=> x = th[t].d
         /\ Alive(th[t].d) /\ dn[th[t].d].count \in Nat /\ dn[th[t].d].count >= 1 + Mount(th[t].d)
         /\ dn[th[t].d].count >= 1 /\ dn[th[t].d].mem = "live"
<1>1. th[t].d \in Dentries /\ th[t].list = <<>>
  BY Values DEF AtPlace, Nowhere, NoList, Thread, InPut
<1>2. OwesIn(th[t], th[t].d) /\ \A x : OwesIn(th[t], x) <=> x = th[t].d
  BY DEF OwesIn, InPut
<1>3. Alive(th[t].d) /\ dn[th[t].d].count >= 1 + Mount(th[t].d)
  BY <1>1, <1>2, AliveIs, OwesInIs
<1>4. dn[th[t].d].count \in Nat /\ dn[th[t].d].mem = "live"
  BY <1>1, <1>3, Values
<1>5. Mount(th[t].d) \in Nat
  BY DEF Mount
<1>6. dn[th[t].d].count >= 1
  <2>1. PICK m : m = Mount(th[t].d)
    OBVIOUS
  <2>2. PICK n : n = dn[th[t].d].count
    OBVIOUS
  <2>3. m \in Nat /\ n \in Nat /\ n >= 1 + m
    BY <1>3, <1>4, <1>5, <2>1, <2>2
  <2>4. n >= 1
    BY <2>3
  <2> QED
    BY <2>2, <2>4
<1>7. \A x : OwesIn(th[t], x) <=> x = th[t].d
  BY <1>2
<1> HIDE DEF OwesIn, Mount, Alive
<1> QED
  BY <1>1, <1>2, <1>3, <1>4, <1>6, <1>7

LEMMA PutFastInv ==
  ASSUME NEW t \in Threads, RefsInv, PutFast(t)
  PROVE  RefsInv'
<1>1. PICK d : d = th[t].d
  OBVIOUS
<1>2. th[t].pc = "put" /\ i_lock' = i_lock /\ dn' = [dn EXCEPT ![d].count = @ - 1]
      /\ th' = [th EXCEPT ![t] = IF dn[d].count > 1 THEN Returned(@) ELSE [@ EXCEPT !.pc = "zero"]]
  BY <1>1 DEF PutFast, At
<1>3. th[t].op = "put"
  BY <1>2, Values DEF AtPlace
<1>4. d \in Dentries /\ th[t].list = <<>> /\ OwesIn(th[t], d) /\ Alive(d) /\ dn[d].count \in Nat /\ dn[d].count >= 1
      /\ dn[d].mem = "live" /\ \A x : OwesIn(th[t], x) <=> x = d
  BY <1>1, <1>2, <1>3, AtPut DEF InPut
<1>5. PICK r : r = WithCount(dn[d], dn[d].count - 1)
  OBVIOUS
<1>6. Puts(d, r) /\ dn[d].count - 1 \in Nat
  BY <1>2, <1>4, <1>5 DEF Puts, WithCount
<1>7. Becomes(t, d, r) /\ r.lru = dn[d].lru /\ r.count = dn[d].count - 1 /\ r.inode = dn[d].inode
      /\ Uses(r) = dn[d].count - 1 /\ Uses(dn[d]) = dn[d].count
  BY <1>4, <1>5, <1>6, BecomesCounted
<1>8. Locks(t)
  BY <1>2, LocksKept DEF RefsInv, Typed
<1>9. CASE dn[d].count > 1
  <2>1. th' = [th EXCEPT ![t] = Returned(th[t])]
    BY <1>2, <1>9
  <2> QED
    BY <1>1, <1>2, <1>4, <1>7, <1>8, <2>1, GivesUp
<1>10. CASE ~ (dn[d].count > 1)
  <2>1. PICK w : w = th[t]
    OBVIOUS
  <2>2. PICK s : s = [w EXCEPT !.pc = "zero"]
    OBVIOUS
  <2>3. th' = [th EXCEPT ![t] = s]
    BY <1>2, <1>10, <2>1, <2>2
  <2>4. w \in Thread /\ AtPlace(w) /\ w.pc = "put" /\ w.d = d /\ w.list = <<>>
    BY <1>1, <1>2, <1>4, <2>1, Values
  <2>5. s \in Thread /\ s.pc = "zero" /\ s.op = w.op /\ s.d = d /\ s.p = w.p /\ s.i = w.i
        /\ s.list = w.list /\ s.refs = w.refs /\ s.unmounts = w.unmounts
    BY <2>2, <2>4 DEF Thread, Pcs
  <2>6. AtPlace(s) /\ s.p = Nobody
    BY <2>4, <2>5 DEF AtPlace, NoList, Nowhere, NoParent, NoInode
  <2>7. \A x : ~ OwesIn(s, x)
    BY <2>5 DEF OwesIn
  <2>8. \A x \in Dentries :
       (IF x = d THEN Uses(r) - Uses(dn[d]) ELSE 0) =
         One(x \in s.refs) - One(x \in th[t].refs) + One(OwesIn(s, x)) - One(OwesIn(th[t], x))
    BY <1>4, <1>7, <2>1, <2>5, <2>7 DEF One
  <2>9. ~ th[t].unmounts
    BY <1>2 DEF RefsInv, Unmounting, AloneIn, UnmountPcs
  <2>10. NotFree(s.d) /\ NotFree(s.p)
    BY <1>4, <2>5, <2>6 DEF NotFree
  <2>11. Touch(t, d, r, s)
    BY <1>2, <1>7, <1>8, <2>1, <2>3, <2>5, <2>6, <2>8, <2>9, <2>10 DEF Touch, At
  <2> QED
    BY <1>4, <2>11, TouchKeepsInv
<1> QED
  BY <1>9, <1>10

LEMMA PutFlagsInv ==
  ASSUME NEW t \in Threads, RefsInv, PutFlags(t)
  PROVE  RefsInv'
<1>1. th[t].pc = "zero" /\ dn' = dn /\ th' = [th EXCEPT ![t] = Returned(th[t])] /\ i_lock' = i_lock
  BY DEF PutFlags, At
<1>2. th[t].list = <<>> /\ \A x : ~ OwesIn(th[t], x)
  BY <1>1, Values DEF AtPlace, NoList, OwesIn
<1>3. Locks(t)
  BY <1>1, LocksKept DEF RefsInv, Typed
<1> QED
  BY <1>1, <1>2, <1>3, JustReturns DEF At

WithUse(v, m, l, b) == [v EXCEPT !.count = m, !.lru = l, !.referenced = b]

LEMMA WithThree ==
  ASSUME NEW v \in Dentry, NEW m \in Int, NEW l \in Lrus, NEW b \in BOOLEAN,
         NEW r, r = WithUse(v, m, l, b)
  PROVE  /\ r \in Dentry /\ r.count = m /\ r.mem = v.mem /\ r.parent = v.parent /\ r.hashed = v.hashed
         /\ r.inode = v.inode /\ r.lru = l /\ r.may_free = v.may_free
  BY DEF Dentry, WithUse

\* retain_dentry: the entry is given up and stays on the list of unused ones.
LEMMA BecomesRetained ==
  ASSUME NEW t \in Threads, NEW d \in Dentries, RefsInv, Alive(d), d # Root, NEW n \in Nat, n >= 1,
         NEW v, v = WithCount(dn[d], n), NEW r, r = Retained(v), Puts(d, r)
  PROVE  /\ Becomes(t, d, r) /\ r.count = n - 1 /\ Uses(r) = n - 1
         /\ (r.lru = "shrink" <=> dn[d].lru = "shrink")
<1>1. PICK x : x = dn[d]
  OBVIOUS
<1>2. x \in Dentry /\ ShapeOf(d, x) /\ x.mem = "live" /\ Alive(d) /\ x.count # Dead /\ d # Root
  BY <1>1, Values DEF Alive
<1>3. v \in Dentry /\ v = [x EXCEPT !.count = n]
  BY <1>1, <1>2 DEF WithCount, Dentry
<1>4. /\ v.count = n /\ v.mem = x.mem /\ v.parent = x.parent /\ v.hashed = x.hashed
      /\ v.inode = x.inode /\ v.lru = x.lru /\ v.referenced = x.referenced /\ v.may_free = x.may_free
  BY <1>2, <1>3 DEF Dentry
<1>5. PICK l : l = IF v.lru = "none" THEN "lru" ELSE v.lru
  OBVIOUS
<1>6. PICK b : b = IF v.lru = "none" THEN v.referenced ELSE TRUE
  OBVIOUS
<1>7. r = WithUse(v, n - 1, l, b)
  <2>1. CASE v.lru = "none"
    <3>1. PICK y : y = [v EXCEPT !.count = n - 1]
      OBVIOUS
    <3>2. y.lru = "none" /\ [y EXCEPT !.lru = "lru"] = [v EXCEPT !.count = n - 1, !.lru = "lru", !.referenced = v.referenced]
      BY <1>3, <2>1, <3>1 DEF Dentry
    <3>3. r = [y EXCEPT !.lru = "lru"]
      BY <1>4, <2>1, <3>1, <3>2 DEF Retained, OnList
    <3> QED
      BY <1>5, <1>6, <2>1, <3>2, <3>3 DEF WithUse
  <2>2. CASE v.lru # "none"
    <3>1. r = [v EXCEPT !.count = n - 1, !.referenced = TRUE]
      BY <1>4, <2>2 DEF Retained
    <3>2. [v EXCEPT !.count = n - 1, !.referenced = TRUE] = [v EXCEPT !.count = n - 1, !.lru = v.lru, !.referenced = TRUE]
      BY <1>3 DEF Dentry
    <3> QED
      BY <1>5, <1>6, <2>2, <3>1, <3>2 DEF WithUse
  <2> QED
    BY <2>1, <2>2
<1>8. l \in Lrus /\ b \in BOOLEAN /\ n - 1 \in Nat /\ n - 1 \in Int
  <2>1. v.lru \in Lrus /\ v.referenced \in BOOLEAN
    BY <1>3 DEF Dentry
  <2>2. l \in Lrus
    BY <1>5, <2>1 DEF Lrus
  <2>3. b \in BOOLEAN
    BY <1>6, <2>1, Zenon
  <2> QED
    BY <2>2, <2>3
<1>9. /\ r \in Dentry /\ r.count = n - 1 /\ r.mem = x.mem /\ r.parent = x.parent /\ r.hashed = x.hashed
      /\ r.inode = x.inode /\ r.lru = l /\ r.may_free = x.may_free
  <2>1. v \in Dentry
    BY <1>3
  <2>2. /\ r \in Dentry /\ r.count = n - 1 /\ r.mem = v.mem /\ r.parent = v.parent /\ r.hashed = v.hashed
        /\ r.inode = v.inode /\ r.lru = l /\ r.may_free = v.may_free
    BY <2>1, <1>7, <1>8, WithThree
  <2> QED
    BY <2>2, <1>4
<1>10. r.count # Dead
  BY <1>8, <1>9 DEF Dead
<1>11. ShapeOf(d, r)
  BY <1>2, <1>4, <1>5, <1>9, <1>10 DEF ShapeOf
<1> QED
  BY <1>1, <1>2, <1>4, <1>5, <1>9, <1>10, <1>11 DEF Becomes, Puts, Uses

-----------------------------------------------------------------------------
(* The death of an entry                                                   *)

\* The thread t, which becomes s, kills the entry d, which becomes k; its parent
\* becomes q, and loses the reference unless the thread gives it up later.
Dies(t, d, k, q, s) ==
  /\ d # Root /\ Alive(d) /\ k \in Dentry /\ q \in Dentry /\ s \in Thread
  /\ dn' = [dn EXCEPT ![dn[d].parent] = q, ![d] = k] /\ th' = [th EXCEPT ![t] = s]
  /\ Locks(t) /\ Lists(t)
  /\ ShapeOf(d, k) /\ k.mem = "live" /\ k.count = Dead /\ ~ k.may_free
  /\ ShapeOf(dn[d].parent, q) /\ q.count # Dead /\ q.parent = dn[dn[d].parent].parent
  /\ q.inode = dn[dn[d].parent].inode
  /\ q.count = dn[dn[d].parent].count - One(s.p = Nobody)
  /\ Unpinned(t, d)
  /\ th[t].pc # "killed" /\ s.pc = "killed" /\ s.d = d /\ s.i = Nobody /\ s.p \in {Nobody, dn[d].parent}
  /\ s.p = Nobody \/ s.list = <<>>
  /\ s.refs = th[t].refs /\ s.unmounts = th[t].unmounts /\ (th[t].unmounts => s.p = Nobody)
  /\ MayCall(t) \/ ~ At(t, "idle") \/ th[t].unmounts
  /\ dn[d].count = One(OwesIn(th[t], d))
  /\ \A x \in Dentries \ {d} : ~ OwesIn(th[t], x)

LEMMA DiesKeepsInv ==
  ASSUME NEW t \in Threads, NEW d \in Dentries, NEW k, NEW q, NEW s, RefsInv, Dies(t, d, k, q, s)
  PROVE  RefsInv'
<1>1. PICK p : p = dn[d].parent
  OBVIOUS
<1>2. d # Root /\ Alive(d) /\ k \in Dentry /\ q \in Dentry /\ s \in Thread
  BY DEF Dies
<1>3. p \in Dentries /\ p # d /\ Alive(p) /\ dn[p].mem = "live" /\ ~ dn[p].may_free
      /\ dn[d].mem = "live" /\ dn[d].count \in Nat /\ dn[p].count \in Nat
  <2>1. ShapeOf(d, dn[d])
    BY Values
  <2>2. p # d
    BY <1>1, <1>2, <2>1 DEF ShapeOf
  <2> QED
    BY <1>1, <1>2, <2>2, Values, AliveIs
<1>4. th'[t] = s /\ dn'[d] = k /\ dn'[p] = q /\ \A x \in Dentries : x # d /\ x # p => dn'[x] = dn[x]
  <2>1. dn' = [dn EXCEPT ![p] = q, ![d] = k] /\ th' = [th EXCEPT ![t] = s]
    BY <1>1 DEF Dies
  <2> QED
    BY <1>3, <2>1 DEF RefsInv, Typed, DnTyped, ThTyped
<1>5. Frame(t)
  BY DEF RefsInv, Typed, ThTyped, Dies, Frame
<1>6. Typed'
  <2>1. dn' \in [Dentries -> Dentry] /\ th' \in [Threads -> Thread]
    BY <1>2 DEF RefsInv, Typed, DnTyped, ThTyped, Dies
  <2> QED
    BY <2>1 DEF Typed, DnTyped, ThTyped, Dies, Locks
<1>7. /\ ShapeOf(d, k) /\ k.mem = "live" /\ k.count = Dead /\ ~ k.may_free
      /\ ShapeOf(p, q) /\ q.count # Dead /\ q.parent = dn[p].parent /\ q.inode = dn[p].inode
      /\ q.count = dn[p].count - One(s.p = Nobody) /\ q.mem = "live" /\ ~ q.may_free
      /\ dn[d].count # Dead /\ dn[p].count # Dead
  BY <1>1, <1>2, <1>3 DEF Dies, ShapeOf, Alive
<1>8. Shapes'
  <2>1. \A x \in Dentries : ShapeOf(x, dn'[x])
    BY <1>4, <1>7, Values
  <2> QED
    BY <2>1 DEF Shapes
<1>9. /\ th[t].pc # "killed" /\ s.pc = "killed" /\ s.d = d /\ s.i = Nobody /\ s.p \in {Nobody, p}
      /\ (s.p = Nobody \/ s.list = <<>>) /\ s.refs = th[t].refs /\ s.unmounts = th[t].unmounts
  BY <1>1 DEF Dies
<1>10. Balance(t, d)
  <2>1. \A e \in Dentries \ {d} :
          /\ dn'[e].count = Dead <=> dn[e].count = Dead
          /\ dn[e].count # Dead => dn'[e].parent = dn[e].parent
    BY <1>3, <1>4, <1>7
  <2>2. \A x \in Dentries : OwesIn(s, x) <=> x = s.p
    BY <1>9 DEF OwesIn
  <2>3. \A x \in Dentries : ~ ChildIn(dn'[d], d, x) /\ (ChildIn(dn[d], d, x) <=> x = p)
    BY <1>1, <1>3, <1>4, <1>7 DEF ChildIn
  <2>4. \A x \in Dentries : x # d => ~ OwesIn(th[t], x)
    BY DEF Dies
  <2>5. dn[d].count = One(OwesIn(th[t], d))
    BY DEF Dies
  <2>6. Uses(dn'[d]) = 0 /\ Uses(dn[d]) = dn[d].count /\ Uses(dn'[p]) = q.count /\ Uses(dn[p]) = dn[p].count
        /\ (\A x \in Dentries : x # d /\ x # p => dn'[x] = dn[x]) /\ q.count \in Int
        /\ \A x \in Dentries : Uses(dn[x]) \in Int
    <3>1. q.count \in Int
      BY <1>2 DEF Dentry
    <3>2. \A x \in Dentries : Uses(dn[x]) \in Int
      BY Values DEF Uses, Dentry
    <3> QED
      BY <1>4, <1>7, <3>1, <3>2 DEF Uses
  <2>7. p \in Dentries /\ p # d /\ Nobody \notin Dentries /\ (s.p = Nobody \/ s.p = p)
    BY <1>3, <1>9, DentryAssumption
  <2>8. dn[p].count \in Int /\ dn[d].count \in Int /\ q.count = dn[p].count - One(s.p = Nobody)
    BY <1>3, <1>7
  <2> HIDE DEF Uses, OwesIn, ChildIn
  <2>9. ASSUME NEW x \in Dentries
        PROVE  Uses(dn'[x]) - Uses(dn[x]) =
                   One(x \in th'[t].refs) - One(x \in th[t].refs)
                 + One(OwesIn(th'[t], x)) - One(OwesIn(th[t], x))
                 + One(ChildIn(dn'[d], d, x)) - One(ChildIn(dn[d], d, x))
    <3>1. One(x \in th'[t].refs) = One(x \in th[t].refs) /\ One(x \in th[t].refs) \in Int
      BY <1>4, <1>9 DEF One
    <3>2. One(OwesIn(th'[t], x)) = One(x = s.p)
      BY <1>4, <2>2 DEF One
    <3>3. One(ChildIn(dn'[d], d, x)) = 0 /\ One(ChildIn(dn[d], d, x)) = One(x = p)
      BY <2>3 DEF One
    <3>4. One(OwesIn(th[t], x)) = IF x = d THEN dn[d].count ELSE 0
      BY <2>4, <2>5 DEF One
    <3>5. CASE x = d
      BY <3>1, <3>2, <3>3, <3>4, <3>5, <2>6, <2>7, <2>8 DEF One
    <3>6. CASE x = p
      BY <3>1, <3>2, <3>3, <3>4, <3>6, <2>6, <2>7, <2>8 DEF One
    <3>7. CASE x # p /\ x # d
      BY <3>1, <3>2, <3>3, <3>4, <3>7, <2>6, <2>7 DEF One
    <3> QED
      BY <3>5, <3>6, <3>7
  <2> QED
    BY <2>1, <2>9 DEF Balance
<1>11. \A x \in Dentries : dn[x].mem # "free" => dn'[x].mem # "free"
  BY <1>4, <1>7
<1>12. Keeps(t)
  <2>1. \A x \in Dentries : dn'[x].inode # dn[x].inode => Unpinned(t, x)
    <3>1. Unpinned(t, d)
      BY DEF Dies
    <3> QED
      BY <1>4, <1>7, <3>1
  <2>2. \A x \in Dentries : Unburied(x) => dn'[x] = dn[x]
    BY <1>4, <1>7 DEF Unburied
  <2>3. \A i \in Inodes, u \in Threads \ {t} : i_lock[i] = u => i_lock'[i] = u
    BY DEF Dies, Locks
  <2> QED
    BY <1>11, <2>1, <2>2, <2>3 DEF Keeps, Unburied
<1>13. InPlace(t)'
  <2>1. s.d # Nobody /\ s.p # s.d
    BY <1>3, <1>9, DentryAssumption
  <2>2. AtPlace(s)
    BY <1>9, <2>1 DEF AtPlace, NoList, Nowhere, NoParent, NoInode
  <2>3. NotFree(s.d)' /\ NotFree(s.p)'
    BY <1>4, <1>7, <1>9 DEF NotFree
  <2>4. Unburied(s.d)'
    BY <1>4, <1>7, <1>9 DEF Unburied
  <2> QED
    BY <1>4, <1>9, <2>2, <2>3, <2>4 DEF InPlace
<1>14. Buries(t)
  <2>1. \A x \in Dentries : x # d /\ dn'[x].count = Dead => dn'[x] = dn[x]
    BY <1>4, <1>7
  <2>2. \A x \in Dentries : dn[x].may_free /\ dn[x].mem = "live" => dn[x].lru = "shrink"
    BY DEF RefsInv, Shapes, ShapeOf
  <2> QED
    BY <1>2, <1>4, <1>9, <2>1, <2>2 DEF Buries, Unburied
<1>15. Rooted'
  <2>1. SameWays
    BY <1>4, <1>7 DEF SameWays, Alive
  <2> QED
    BY <2>1, RootedStep DEF RefsInv
<1>16. Unmounts(t)
  <2>1. MayCall(t) \/ ~ At(t, "idle") \/ th[t].unmounts
    BY DEF Dies
  <2>2. \A u \in Threads \ {t} : ~ th[u].unmounts
    BY <2>1, NoOtherUnmounts DEF RefsInv
  <2>3. th[t].unmounts => AloneIn(s)
    <3>1. th[t].unmounts => th[t].refs = {} /\ s.p = Nobody
      BY DEF RefsInv, Unmounting, AloneIn, Dies
    <3> QED
      BY <1>9, <3>1 DEF AloneIn, UnmountPcs
  <2> QED
    BY <1>4, <1>9, <2>2, <2>3 DEF Unmounts
<1>17. StepOK(t, d)
  <2>1. Lists(t)
    BY DEF Dies
  <2> QED
    BY <1>5, <1>6, <1>8, <1>10, <1>12, <1>13, <1>14, <1>15, <1>16, <2>1 DEF StepOK
<1> QED
  BY <1>17, StepKeepsInv

WithDeath(v, l) == [v EXCEPT !.count = Dead, !.hashed = FALSE, !.inode = Nobody, !.lru = l]

LEMMA KilledIs ==
  ASSUME NEW v \in Dentry, NEW k, k = Killed(v)
  PROVE  /\ k \in Dentry /\ k.count = Dead /\ k.hashed = FALSE /\ k.inode = Nobody /\ k.mem = v.mem
         /\ k.parent = v.parent /\ k.may_free = v.may_free
         /\ k.lru = IF v.lru = "lru" THEN "none" ELSE v.lru
<1>1. PICK l : l = IF v.lru = "lru" THEN "none" ELSE v.lru
  OBVIOUS
<1>2. l \in Lrus /\ Dead \in Int
  BY <1>1 DEF Lrus, Dentry, Dead
<1>3. k = WithDeath(v, l)
  <2>1. PICK y : y = [v EXCEPT !.count = Dead, !.hashed = FALSE, !.inode = Nobody]
    OBVIOUS
  <2>2. y.lru = v.lru /\ [y EXCEPT !.lru = "none"] = WithDeath(v, "none") /\ y = WithDeath(v, v.lru)
    BY <2>1 DEF Dentry, WithDeath
  <2>3. k = IF v.lru = "lru" THEN [y EXCEPT !.lru = "none"] ELSE y
    BY <2>1, <2>2 DEF Killed, OnList
  <2> QED
    BY <1>1, <2>2, <2>3
<1>4. /\ k \in Dentry /\ k.count = Dead /\ k.hashed = FALSE /\ k.inode = Nobody /\ k.mem = v.mem
      /\ k.parent = v.parent /\ k.may_free = v.may_free /\ k.lru = l
  BY <1>2, <1>3 DEF Dentry, WithDeath
<1> QED
  BY <1>1, <1>4

LEMMA CountedIs ==
  ASSUME NEW x \in Dentry, NEW n \in Int, NEW v, v = WithCount(x, n)
  PROVE  /\ v \in Dentry /\ v.count = n /\ v.mem = x.mem /\ v.parent = x.parent /\ v.hashed = x.hashed
         /\ v.inode = x.inode /\ v.lru = x.lru /\ v.referenced = x.referenced /\ v.may_free = x.may_free
  BY DEF Dentry, WithCount

\* What a living entry is when it has just been killed.
LEMMA KilledShape ==
  ASSUME NEW d \in Dentries, RefsInv, Alive(d), d # Root, NEW n \in Int, NEW v, v = WithCount(dn[d], n),
         NEW k, k = Killed(v)
  PROVE  /\ k \in Dentry /\ ShapeOf(d, k) /\ k.mem = "live" /\ k.count = Dead /\ ~ k.may_free
         /\ (k.lru = "shrink" <=> dn[d].lru = "shrink") /\ k.parent = dn[d].parent
<1>1. dn[d] \in Dentry /\ ShapeOf(d, dn[d]) /\ dn[d].mem = "live" /\ ~ dn[d].may_free /\ dn[d].parent \in Dentries
  BY Values
<1>2. v \in Dentry /\ v.mem = dn[d].mem /\ v.parent = dn[d].parent /\ v.lru = dn[d].lru /\ v.may_free = dn[d].may_free
  BY <1>1, CountedIs
<1>3. /\ k \in Dentry /\ k.count = Dead /\ k.hashed = FALSE /\ k.inode = Nobody /\ k.mem = v.mem
      /\ k.parent = v.parent /\ k.may_free = v.may_free
      /\ k.lru = IF v.lru = "lru" THEN "none" ELSE v.lru
  BY <1>2, KilledIs
<1>4. k.lru # "lru" /\ k.lru # "wrong" /\ (k.lru = "shrink" <=> dn[d].lru = "shrink")
  BY <1>1, <1>2, <1>3 DEF ShapeOf
<1>5. ShapeOf(d, k)
  <2>1. dn[d].parent # d
    BY <1>1 DEF ShapeOf
  <2> QED
    BY <1>1, <1>2, <1>3, <1>4, <2>1 DEF ShapeOf
<1> QED
  BY <1>1, <1>2, <1>3, <1>4, <1>5

\* dput and d_prune_aliases: the thread will give up the reference on the parent.
KillsFor(t, d, v, s) ==
  /\ Alive(d) /\ d # Root /\ Puts(d, Killed(v)) /\ th' = [th EXCEPT ![t] = s] /\ Locks(t)
  /\ s \in Thread /\ s.pc = "killed" /\ s.d = d /\ s.p = dn[d].parent /\ s.i = Nobody
  /\ s.list = <<>> /\ th[t].list = <<>> /\ s.refs = th[t].refs /\ s.unmounts = th[t].unmounts
  /\ ~ th[t].unmounts /\ th[t].pc # "killed" /\ (MayCall(t) \/ ~ At(t, "idle"))
  /\ dn[d].count = One(OwesIn(th[t], d))
  /\ \A x \in Dentries \ {d} : ~ OwesIn(th[t], x)
  /\ Unpinned(t, d)

LEMMA KillsForInv ==
  ASSUME NEW t \in Threads, NEW d \in Dentries, RefsInv, NEW n \in Int, NEW v, v = WithCount(dn[d], n),
         NEW s, KillsFor(t, d, v, s)
  PROVE  RefsInv'
<1>1. PICK k : k = Killed(v)
  OBVIOUS
<1>2. Alive(d) /\ d # Root /\ Puts(d, k)
  BY <1>1 DEF KillsFor
<1>3. /\ k \in Dentry /\ ShapeOf(d, k) /\ k.mem = "live" /\ k.count = Dead /\ ~ k.may_free
      /\ (k.lru = "shrink" <=> dn[d].lru = "shrink")
  BY <1>1, <1>2, KilledShape
<1>4. PICK p : p = dn[d].parent
  OBVIOUS
<1>5. p \in Dentries /\ p # d /\ Alive(p) /\ dn[p] \in Dentry /\ ShapeOf(p, dn[p]) /\ dn[p].count \in Nat
  <2>1. ShapeOf(d, dn[d]) /\ p \in Dentries
    BY <1>2, <1>4, Values
  <2>2. p # d
    BY <1>2, <1>4, <2>1 DEF ShapeOf
  <2> QED
    BY <1>2, <1>4, <2>1, <2>2, Values, AliveIs
<1>6. PICK q : q = dn[p]
  OBVIOUS
<1>7. dn' = [dn EXCEPT ![p] = q, ![d] = k]
  <2>1. dn' = [dn EXCEPT ![d] = k] /\ dn \in [Dentries -> Dentry]
    BY <1>2 DEF Puts, RefsInv, Typed, DnTyped
  <2> QED
    BY <1>5, <1>6, <2>1
<1>8. Frame(t)
  BY DEF RefsInv, Typed, ThTyped, KillsFor, Frame
<1>9. th'[t].list = th[t].list
  BY DEF RefsInv, Typed, ThTyped, KillsFor
<1>10. \A x \in Dentries : dn'[x].lru = "shrink" <=> dn[x].lru = "shrink"
  BY <1>2, <1>3 DEF Puts, RefsInv, Typed, DnTyped
<1>11. Lists(t)
  BY <1>8, <1>9, <1>10, SameLists DEF RefsInv
<1>12. q \in Dentry /\ ShapeOf(p, q) /\ q.count # Dead /\ q.parent = dn[p].parent /\ q.inode = dn[p].inode
       /\ q.count = dn[p].count /\ q.count \in Nat
  BY <1>5, <1>6 DEF Alive
<1>13. s.p # Nobody /\ s.p = p
  BY <1>4, <1>5, DentryAssumption DEF KillsFor
<1>14. q.count = dn[p].count - One(s.p = Nobody)
  BY <1>12, <1>13 DEF One
<1>15. Dies(t, d, k, q, s)
  BY <1>2, <1>3, <1>4, <1>7, <1>11, <1>12, <1>13, <1>14 DEF Dies, KillsFor
<1> QED
  BY <1>15, DiesKeepsInv

LEMMA LocksTakenAny ==
  ASSUME NEW t \in Threads, NEW i \in Inodes \cup {Nobody}, LockTyped, InodeFree(i), Takes(t, i)
  PROVE  Locks(t) /\ (i # Nobody => i_lock'[i] = t)
<1>1. CASE i = Nobody
  <2>1. \A j \in Inodes : j # i
    BY <1>1, DentryAssumption
  <2>2. \A j \in Inodes : i_lock'[j] = i_lock[j]
    BY <2>1 DEF Takes
  <2>3. i_lock' \in [Inodes -> Threads \cup {Nobody}]
    BY DEF Takes, LockTyped
  <2> QED
    BY <1>1, <2>2, <2>3 DEF Locks, LockTyped
<1>2. CASE i # Nobody
  BY <1>2, LocksTaken
<1> QED
  BY <1>1, <1>2

\* dput has found nobody else: the entry d has one reference, to be given up.
Alone(t, d, v, f) ==
  /\ d = th[t].d /\ Alive(d) /\ d # Root /\ th[t].op = "put" /\ th[t].pc \in {"put", "zero"}
  /\ v = WithCount(dn[d], 1) /\ f = [dn EXCEPT ![d] = v]
  /\ dn[d].count = One(OwesIn(th[t], d))

LEMMA AloneIs ==
  ASSUME NEW t \in Threads, NEW d \in Dentries, NEW v, NEW f, RefsInv, Alone(t, d, v, f)
  PROVE  /\ th[t].list = <<>> /\ th[t].i = Nobody /\ th[t].p = Nobody /\ ~ th[t].unmounts
         /\ ~ At(t, "idle") /\ th[t].pc # "killed"
         /\ \A x \in Dentries \ {d} : ~ OwesIn(th[t], x)
         /\ f[d] = v /\ v \in Dentry /\ v.count = 1 /\ v.parent = dn[d].parent /\ v.inode = dn[d].inode
         /\ v.hashed = dn[d].hashed /\ v.lru = dn[d].lru
<1>1. AtPlace(th[t])
  BY Values
<1>2. th[t].pc \in {"put", "zero"} /\ d = th[t].d
  BY DEF Alone
<1>3. th[t].list = <<>> /\ th[t].i = Nobody /\ th[t].p = Nobody /\ ~ At(t, "idle") /\ th[t].pc # "killed"
  BY <1>1, <1>2 DEF AtPlace, NoList, NoInode, NoParent, At
<1>4. ~ th[t].unmounts
  BY <1>2 DEF RefsInv, Unmounting, AloneIn, UnmountPcs
<1>5. \A x \in Dentries \ {d} : ~ OwesIn(th[t], x)
  BY <1>2 DEF OwesIn
<1>6. v \in Dentry /\ v.count = 1 /\ v.parent = dn[d].parent /\ v.inode = dn[d].inode
         /\ v.hashed = dn[d].hashed /\ v.lru = dn[d].lru
  <2>1. dn[d] \in Dentry /\ v = WithCount(dn[d], 1)
    BY Values DEF Alone
  <2> QED
    BY <2>1, CountedIs
<1>7. dn \in [Dentries -> Dentry] /\ f = [dn EXCEPT ![d] = v]
  BY DEF RefsInv, Typed, DnTyped, Alone
<1>8. f[d] = v
  BY <1>7
<1> QED
  BY <1>3, <1>4, <1>5, <1>6, <1>8

LEMMA DecideRetains ==
  ASSUME NEW t \in Threads, NEW d \in Dentries, NEW v, NEW f, RefsInv, Alone(t, d, v, f),
         Puts(d, Retained(v)), th' = [th EXCEPT ![t] = Returned(th[t])], i_lock' = i_lock
  PROVE  RefsInv'
<1>1. PICK r : r = Retained(v)
  OBVIOUS
<1>2. Alive(d) /\ d # Root /\ v = WithCount(dn[d], 1) /\ Puts(d, r)
  BY <1>1 DEF Alone
<1>3. Becomes(t, d, r) /\ Uses(r) = 1 - 1 /\ (r.lru = "shrink" <=> dn[d].lru = "shrink")
  <2>1. 1 \in Nat /\ 1 >= 1
    OBVIOUS
  <2> QED
    BY <1>1, <1>2, <2>1, BecomesRetained
<1>4. Uses(r) = 0
  BY <1>3
<1>5. dn[d].count = One(OwesIn(th[t], d)) /\ Uses(dn[d]) = dn[d].count /\ dn[d].count \in Nat
  BY <1>2, Values DEF Uses, Alive, Alone
<1>6. th[t].refs \in SUBSET Dentries
  BY RefsType
<1>7. \A x \in Dentries :
       (IF x = d THEN Uses(r) - Uses(dn[d]) ELSE 0) =
         One(x \in th[t].refs) - One(x \in th[t].refs) - One(OwesIn(th[t], x))
  <2>1. \A x \in Dentries : x # d => One(OwesIn(th[t], x)) = 0
    BY AloneIs DEF One
  <2>2. \A x : One(x \in th[t].refs) \in Int
    BY DEF One
  <2> HIDE DEF One
  <2> QED
    BY <1>4, <1>5, <2>1, <2>2
<1>8. th' = [th EXCEPT ![t] = Back(th[t], th[t].refs)]
  BY ReturnedBack
<1>9. Locks(t)
  BY LocksKept DEF RefsInv, Typed
<1>10. Ends(t, d, r, th[t].refs)
  BY <1>3, <1>6, <1>7, <1>8, <1>9, AloneIs DEF Ends
<1> QED
  BY <1>10, EndsKeepsInv

\* The entry cannot be killed yet: a lock is missing.
Waits(t, d, v, s) ==
  /\ Puts(d, v) /\ s \in Thread /\ th' = [th EXCEPT ![t] = s] /\ Locks(t)
  /\ AtPlace(s) /\ s.op = "put" /\ s.pc \in {"kill inode", "kill parent"} /\ s.d = d
  /\ s.p = Nobody \/ s.p = dn[d].parent
  /\ s.i = dn[d].inode /\ s.list = th[t].list /\ s.refs = th[t].refs /\ s.unmounts = th[t].unmounts
  /\ s.pc = "kill parent" /\ s.i # Nobody => i_lock'[s.i] = t

LEMMA DecideWaits ==
  ASSUME NEW t \in Threads, NEW d \in Dentries, NEW v, NEW f, RefsInv, Alone(t, d, v, f),
         NEW s, Waits(t, d, v, s)
  PROVE  RefsInv'
<1>1. Alive(d) /\ v = WithCount(dn[d], 1) /\ 1 \in Nat
  BY DEF Alone
<1>w. /\ Puts(d, v) /\ s \in Thread /\ th' = [th EXCEPT ![t] = s] /\ Locks(t) /\ AtPlace(s)
      /\ s.list = th[t].list /\ s.refs = th[t].refs /\ s.unmounts = th[t].unmounts
  BY DEF Waits
<1>2. Becomes(t, d, v) /\ v.lru = dn[d].lru /\ Uses(v) = 1 /\ Uses(dn[d]) = dn[d].count /\ v.inode = dn[d].inode
  BY <1>1, <1>w, BecomesCounted
<1>3. \A x \in Dentries : OwesIn(s, x) <=> x = d
  BY DEF OwesIn, Waits
<1>4. \A x \in Dentries :
       (IF x = d THEN Uses(v) - Uses(dn[d]) ELSE 0) =
         One(x \in s.refs) - One(x \in th[t].refs) + One(OwesIn(s, x)) - One(OwesIn(th[t], x))
  <2>1. \A x \in Dentries : One(OwesIn(th[t], x)) = IF x = d THEN dn[d].count ELSE 0
    BY AloneIs DEF One, Alone
  <2>2. \A x : One(x \in th[t].refs) \in Int
    BY DEF One
  <2>3. \A x \in Dentries : One(OwesIn(s, x)) = IF x = d THEN 1 ELSE 0
    BY <1>3 DEF One
  <2>4. dn[d].count \in Int
    BY <1>1, Values
  <2> HIDE DEF One
  <2> QED
    BY <1>w, <1>2, <2>1, <2>2, <2>3, <2>4
<1>5. NotFree(s.d) /\ NotFree(s.p)
  <2>1. dn[d].mem = "live" /\ dn[dn[d].parent].mem = "live"
    BY <1>1, Values, AliveIs
  <2> QED
    BY <2>1 DEF NotFree, Waits
<1>6. s.pc # "killed" /\ s.pc # "check" /\ s.pc # "shrink parent"
  BY DEF Waits
<1>7. ~ th[t].unmounts /\ ~ At(t, "idle") /\ th[t].pc # "killed"
  BY AloneIs
<1>8. Touch(t, d, v, s)
  BY <1>w, <1>2, <1>4, <1>5, <1>6, <1>7 DEF Touch, Waits
<1> QED
  BY <1>8, TouchKeepsInv

LEMMA DecideInv ==
  ASSUME NEW t \in Threads, NEW d \in Dentries, NEW v, NEW f, RefsInv, Alone(t, d, v, f), Decide(t, f)
  PROVE  RefsInv'
<1> DEFINE i == v.inode
           p == v.parent
<1>1. /\ th[t].list = <<>> /\ th[t].i = Nobody /\ th[t].p = Nobody /\ ~ th[t].unmounts
      /\ ~ At(t, "idle") /\ th[t].pc # "killed"
      /\ \A x \in Dentries \ {d} : ~ OwesIn(th[t], x)
      /\ f[d] = v /\ v \in Dentry /\ v.count = 1 /\ v.parent = dn[d].parent /\ v.inode = dn[d].inode
  BY AloneIs
<1>2. d = th[t].d /\ Alive(d) /\ d # Root /\ th[t].op = "put" /\ v = WithCount(dn[d], 1)
      /\ f = [dn EXCEPT ![d] = v] /\ dn[d].count = One(OwesIn(th[t], d))
  BY DEF Alone
<1>3. p \in Dentries /\ i \in Inodes \cup {Nobody} /\ p # Nobody /\ d # Nobody
  BY <1>1, <1>2, Values DEF Dentry
<1>4. PICK w : w = th[t]
  OBVIOUS
<1>5. w \in Thread /\ w.list = <<>> /\ w.i = Nobody /\ w.p = Nobody /\ w.d = d /\ w.op = "put"
  BY <1>1, <1>2, <1>4, Values
<1>6. CASE dn' = [f EXCEPT ![d] = Retained(f[d])] /\ th' = [th EXCEPT ![t] = Returned(th[t])] /\ i_lock' = i_lock
  <2>1. Puts(d, Retained(v))
    BY <1>1, <1>2, <1>6 DEF Puts, RefsInv, Typed, DnTyped
  <2> QED
    BY <1>6, <2>1, DecideRetains
<1>7. CASE i # Nobody /\ th' = [th EXCEPT ![t].pc = "kill inode", ![t].i = i] /\ dn' = f /\ i_lock' = i_lock
  <2>1. PICK s : s = [w EXCEPT !.pc = "kill inode", !.i = i]
    OBVIOUS
  <2>2. th' = [th EXCEPT ![t] = s]
    BY <1>4, <1>7, <2>1
  <2>3. s \in Thread /\ s.pc = "kill inode" /\ s.op = "put" /\ s.d = d /\ s.p = Nobody /\ s.i = i
        /\ s.list = <<>> /\ s.refs = w.refs /\ s.unmounts = w.unmounts
    <3> HIDE DEF i, p
    <3> QED
      BY <1>3, <1>5, <2>1 DEF Thread, Pcs
  <2>4. AtPlace(s)
    BY <1>3, <1>7, <2>3 DEF AtPlace, NoList, Nowhere, NoParent, NoInode
  <2>5. Locks(t) /\ Puts(d, v)
    BY <1>2, <1>7, LocksKept DEF RefsInv, Typed, Puts
  <2>6. Waits(t, d, v, s)
    BY <1>1, <1>4, <1>5, <2>2, <2>3, <2>4, <2>5 DEF Waits
  <2> QED
    BY <2>6, DecideWaits
<1>8. CASE InodeFree(i) /\ Kills(t, f, d, p)
  <2>1. PICK s : s = [w EXCEPT !.pc = "killed", !.d = d, !.p = p, !.i = Nobody]
    OBVIOUS
  <2>2. th' = [th EXCEPT ![t] = s] /\ Release(t) /\ dn' = [f EXCEPT ![d] = Killed(f[d])]
    BY <1>4, <1>8, <2>1 DEF Kills
  <2>3. s \in Thread /\ s.pc = "killed" /\ s.d = d /\ s.p = p /\ s.i = Nobody
        /\ s.list = <<>> /\ s.refs = w.refs /\ s.unmounts = w.unmounts
    <3> HIDE DEF p
    <3> QED
      BY <1>3, <1>5, <2>1 DEF Thread, Pcs
  <2>4. Puts(d, Killed(v)) /\ Locks(t)
    <3>1. Puts(d, Killed(v))
      BY <1>1, <1>2, <2>2 DEF Puts, RefsInv, Typed, DnTyped
    <3> QED
      BY <2>2, <3>1, LocksReleased DEF RefsInv, Typed
  <2>5. \A u \in Threads \ {t} : ~ OwesIn(th[u], d)
    <3>1. \A u \in Threads \ {t} : OwesIn(th[u], d) => dn[d].count > 0
      BY AliveIs
    <3>2. OwesIn(th[t], d) => \A u \in Threads \ {t} : OwesIn(th[u], d) => dn[d].count >= 2
      BY OwesInIs
    <3> QED
      BY <1>2, <3>1, <3>2 DEF One
  <2>6. Unpinned(t, d)
    BY <1>1, <1>8, <2>5, UnpinnedWhen
  <2>7. KillsFor(t, d, v, s)
    BY <1>1, <1>2, <1>4, <2>2, <2>3, <2>4, <2>6 DEF KillsFor
  <2> QED
    BY <1>2, <2>7, KillsForInv
<1>9. CASE InodeFree(i) /\ th' = [th EXCEPT ![t].pc = "kill parent", ![t].i = i, ![t].p = p] /\ Takes(t, i) /\ dn' = f
  <2>1. PICK s : s = [w EXCEPT !.pc = "kill parent", !.i = i, !.p = p]
    OBVIOUS
  <2>2. th' = [th EXCEPT ![t] = s]
    BY <1>4, <1>9, <2>1
  <2>3. s \in Thread /\ s.pc = "kill parent" /\ s.op = "put" /\ s.d = d /\ s.p = p /\ s.i = i
        /\ s.list = <<>> /\ s.refs = w.refs /\ s.unmounts = w.unmounts
    <3> HIDE DEF i, p
    <3> QED
      BY <1>3, <1>5, <2>1 DEF Thread, Pcs
  <2>4. AtPlace(s)
    BY <1>3, <2>3 DEF AtPlace, NoList, Nowhere, NoParent, NoInode
  <2>5. Locks(t) /\ (i # Nobody => i_lock'[i] = t) /\ Puts(d, v)
    BY <1>2, <1>3, <1>9, LocksTakenAny DEF RefsInv, Typed, Puts
  <2>6. Waits(t, d, v, s)
    BY <1>1, <1>4, <1>5, <2>2, <2>3, <2>4, <2>5 DEF Waits
  <2> QED
    BY <2>6, DecideWaits
<1> QED
  <2>1. th[t].d = d /\ f[d] = v
    BY <1>1, <1>2
  <2>2. \/ dn' = [f EXCEPT ![d] = Retained(f[d])] /\ th' = [th EXCEPT ![t] = Returned(th[t])] /\ i_lock' = i_lock
        \/ i # Nobody /\ th' = [th EXCEPT ![t].pc = "kill inode", ![t].i = i] /\ dn' = f /\ i_lock' = i_lock
        \/ InodeFree(i) /\ Kills(t, f, d, p)
        \/ InodeFree(i) /\ th' = [th EXCEPT ![t].pc = "kill parent", ![t].i = i, ![t].p = p] /\ Takes(t, i) /\ dn' = f
    BY <2>1 DEF Decide
  <2> QED
    BY <1>6, <1>7, <1>8, <1>9, <2>2

LEMMA PutLockedInv ==
  ASSUME NEW t \in Threads, RefsInv, PutLocked(t)
  PROVE  RefsInv'
<1>1. PICK d : d = th[t].d
  OBVIOUS
<1>2. th[t].pc = "put"
  BY DEF PutLocked, At
<1>3. th[t].op = "put"
  BY <1>2, Values DEF AtPlace
<1>4. d \in Dentries /\ OwesIn(th[t], d) /\ Alive(d) /\ dn[d].count \in Nat /\ dn[d].count >= 1
      /\ dn[d].count >= 1 + Mount(d)
  BY <1>1, <1>2, <1>3, AtPut DEF InPut
<1>5. CASE dn[d].count > 1 /\ dn' = [dn EXCEPT ![d].count = @ - 1]
           /\ th' = [th EXCEPT ![t] = Returned(th[t])] /\ i_lock' = i_lock
  <2>1. PICK r : r = WithCount(dn[d], dn[d].count - 1)
    OBVIOUS
  <2>2. Puts(d, r) /\ dn[d].count - 1 \in Nat
    BY <1>4, <1>5, <2>1 DEF Puts, WithCount
  <2>3. Becomes(t, d, r) /\ r.lru = dn[d].lru /\ r.count = dn[d].count - 1
    BY <1>4, <2>1, <2>2, BecomesCounted
  <2>4. Locks(t) /\ th[t].pc # "killed"
    BY <1>2, <1>5, LocksKept DEF RefsInv, Typed
  <2> QED
    BY <1>1, <1>4, <1>5, <2>3, <2>4, GivesUp
<1>6. CASE ~ (dn[d].count > 1) /\ Decide(t, dn)
  <2>1. dn[d].count = 1
    BY <1>4, <1>6
  <2>2. PICK v : v = WithCount(dn[d], 1)
    OBVIOUS
  <2>3. v = dn[d]
    <3>1. PICK x : x = dn[d]
      OBVIOUS
    <3>2. x \in Dentry /\ x.count = 1
      BY <1>4, <2>1, <3>1, Values
    <3>3. [x EXCEPT !.count = 1] = x
      BY <3>2 DEF Dentry
    <3> QED
      BY <2>2, <3>1, <3>3 DEF WithCount
  <2>4. dn = [dn EXCEPT ![d] = v]
    BY <2>3 DEF RefsInv, Typed, DnTyped
  <2>5. d # Root
    BY <1>4, <2>1 DEF Mount
  <2>6. dn[d].count = One(OwesIn(th[t], d))
    BY <1>4, <2>1 DEF One
  <2>7. Alone(t, d, v, dn)
    BY <1>1, <1>2, <1>3, <1>4, <2>2, <2>4, <2>5, <2>6 DEF Alone
  <2> QED
    BY <1>4, <1>6, <2>7, DecideInv
<1> QED
  BY <1>1, <1>5, <1>6 DEF PutLocked

LEMMA PutAgainInv ==
  ASSUME NEW t \in Threads, RefsInv, PutAgain(t)
  PROVE  RefsInv'
<1>1. PICK d : d = th[t].d
  OBVIOUS
<1>2. th[t].pc = "zero"
  BY DEF PutAgain, At
<1>3. th[t].op = "put" /\ d \in Dentries /\ th[t].list = <<>> /\ \A x : ~ OwesIn(th[t], x)
  BY <1>1, <1>2, Values DEF AtPlace, Nowhere, NoList, Thread, OwesIn
<1>4. CASE SomeoneElse(dn[d]) /\ th' = [th EXCEPT ![t] = Returned(th[t])] /\ UNCHANGED <<dn, i_lock>>
  <2>1. Locks(t)
    BY <1>4, LocksKept DEF RefsInv, Typed
  <2> QED
    BY <1>2, <1>3, <1>4, <2>1, JustReturns DEF At
<1>5. CASE ~ SomeoneElse(dn[d]) /\ Decide(t, [dn EXCEPT ![d].count = 1])
  <2>1. dn[d].count = 0
    BY <1>5 DEF SomeoneElse
  <2>2. Alive(d)
    BY <1>3, <2>1, AliveIs
  <2>3. PICK v : v = WithCount(dn[d], 1)
    OBVIOUS
  <2>4. PICK f : f = [dn EXCEPT ![d] = v]
    OBVIOUS
  <2>5. f = [dn EXCEPT ![d].count = 1]
    BY <2>3, <2>4 DEF WithCount
  <2>6. d # Root
    <3>1. dn[d].count >= Mount(d)
      BY <1>3, <2>2, CountedOn DEF RefsInv
    <3> QED
      BY <2>1, <3>1 DEF Mount
  <2>7. dn[d].count = One(OwesIn(th[t], d))
    BY <1>3, <2>1 DEF One
  <2>8. Alone(t, d, v, f)
    BY <1>1, <1>2, <1>3, <2>2, <2>3, <2>4, <2>6, <2>7 DEF Alone
  <2> QED
    BY <1>3, <1>5, <2>5, <2>8, DecideInv
<1> QED
  BY <1>1, <1>4, <1>5 DEF PutAgain

-----------------------------------------------------------------------------
(* The locks of an entry that is to die                                    *)

LEMMA SameCount ==
  ASSUME NEW d \in Dentries, RefsInv
  PROVE  dn[d] = WithCount(dn[d], dn[d].count) /\ Killed(dn[d]) = Killed(WithCount(dn[d], dn[d].count))
<1>1. PICK x : x = dn[d]
  OBVIOUS
<1>2. x \in Dentry
  BY <1>1, Values
<1>3. [x EXCEPT !.count = x.count] = x
  BY <1>2 DEF Dentry
<1> QED
  BY <1>1, <1>3 DEF WithCount

\* The thread has the locks that it needs to kill the entry d.
Ready(t, d) ==
  /\ th[t].d = d /\ d \in Dentries /\ th[t].pc \in {"kill inode", "kill parent"}
  /\ InodeFree(dn[d].inode) \/ i_lock[dn[d].inode] = t

LEMMA ReadyIs ==
  ASSUME NEW t \in Threads, NEW d \in Dentries, RefsInv, Ready(t, d)
  PROVE  /\ th[t].list = <<>> /\ ~ At(t, "idle") /\ th[t].pc # "killed" /\ ~ th[t].unmounts
         /\ \A x \in Dentries \ {d} : ~ OwesIn(th[t], x)
         /\ th[t].op = "put" <=> OwesIn(th[t], d)
<1>1. AtPlace(th[t]) /\ th[t].d = d /\ th[t].pc \in {"kill inode", "kill parent"}
  BY Values DEF Ready
<1>2. th[t].list = <<>> /\ ~ At(t, "idle") /\ th[t].pc # "killed"
  BY <1>1 DEF AtPlace, NoList, At
<1>3. ~ th[t].unmounts
  BY <1>1 DEF RefsInv, Unmounting, AloneIn, UnmountPcs
<1>4. (\A x \in Dentries \ {d} : ~ OwesIn(th[t], x)) /\ (th[t].op = "put" <=> OwesIn(th[t], d))
  BY <1>1 DEF OwesIn
<1> QED
  BY <1>2, <1>3, <1>4

LEMMA KillsNow ==
  ASSUME NEW t \in Threads, NEW d \in Dentries, RefsInv, Ready(t, d), Alive(d),
         dn[d].count = One(OwesIn(th[t], d)), Kills(t, dn, d, dn[d].parent)
  PROVE  RefsInv'
<1>1. PICK p : p = dn[d].parent
  OBVIOUS
<1>2. p \in Dentries /\ dn[d].count \in Nat
  BY <1>1, Values
<1>3. PICK w : w = th[t]
  OBVIOUS
<1>4. w \in Thread /\ w.list = <<>>
  BY <1>3, Values, ReadyIs
<1>5. PICK s : s = [w EXCEPT !.pc = "killed", !.d = d, !.p = p, !.i = Nobody]
  OBVIOUS
<1>6. th' = [th EXCEPT ![t] = s] /\ Release(t) /\ dn' = [dn EXCEPT ![d] = Killed(dn[d])]
  BY <1>1, <1>3, <1>5 DEF Kills
<1>7. s \in Thread /\ s.pc = "killed" /\ s.d = d /\ s.p = p /\ s.i = Nobody
      /\ s.list = <<>> /\ s.refs = w.refs /\ s.unmounts = w.unmounts
  BY <1>2, <1>4, <1>5 DEF Thread, Pcs
<1>8. PICK v : v = WithCount(dn[d], dn[d].count)
  OBVIOUS
<1>9. Puts(d, Killed(v)) /\ Locks(t)
  BY <1>6, <1>8, SameCount, LocksReleased DEF Puts, RefsInv, Typed
<1>10. \A u \in Threads \ {t} : ~ OwesIn(th[u], d)
  <2>1. \A u \in Threads \ {t} : OwesIn(th[u], d) => dn[d].count > 0
    BY AliveIs
  <2>2. OwesIn(th[t], d) => \A u \in Threads \ {t} : OwesIn(th[u], d) => dn[d].count >= 2
    BY OwesInIs
  <2> QED
    BY <2>1, <2>2 DEF One
<1>11. Unpinned(t, d)
  BY <1>10, UnpinnedWhen DEF Ready
<1>12. d # Root
  <2>1. OwesIn(th[t], d) => dn[d].count >= 1 + Mount(d)
    BY OwesInIs
  <2>2. dn[d].count >= Mount(d)
    BY CountedOn DEF RefsInv
  <2>3. CASE OwesIn(th[t], d)
    BY <2>1, <2>3 DEF One, Mount
  <2>4. CASE ~ OwesIn(th[t], d)
    BY <2>2, <2>4 DEF One, Mount
  <2> QED
    BY <2>3, <2>4
<1>13. KillsFor(t, d, v, s)
  BY <1>1, <1>3, <1>6, <1>7, <1>9, <1>11, <1>12, ReadyIs DEF KillsFor
<1>14. dn[d].count \in Int
  BY <1>2
<1> QED
  BY <1>8, <1>13, <1>14, KillsForInv

LEMMA FinishInv ==
  ASSUME NEW t \in Threads, NEW d \in Dentries, RefsInv, Ready(t, d), Finish(t)
  PROVE  RefsInv'
<1>1. th[t].list = <<>> /\ ~ At(t, "idle") /\ th[t].pc # "killed"
      /\ (\A x \in Dentries \ {d} : ~ OwesIn(th[t], x))
      /\ (th[t].op = "put" <=> OwesIn(th[t], d)) /\ th[t].d = d
  BY ReadyIs DEF Ready
<1>2. CASE th[t].op = "prune" /\ dn[d].count = 0 /\ Kills(t, dn, d, dn[d].parent)
  <2>1. Alive(d) /\ ~ OwesIn(th[t], d)
    BY <1>1, <1>2, AliveIs
  <2>2. dn[d].count = One(OwesIn(th[t], d))
    BY <1>2, <2>1 DEF One
  <2> QED
    BY <1>2, <2>1, <2>2, KillsNow
<1>3. CASE th[t].op = "prune" /\ th' = [th EXCEPT ![t] = Returned(th[t])] /\ Release(t) /\ dn' = dn
  <2>1. Locks(t)
    BY <1>3, LocksReleased DEF RefsInv, Typed
  <2>2. \A x \in Dentries : ~ OwesIn(th[t], x)
    BY <1>1, <1>3
  <2> QED
    BY <1>1, <1>3, <2>1, <2>2, JustReturns
<1>4. ASSUME th[t].op # "prune"
      PROVE  /\ InPut(t) /\ OwesIn(th[t], d) /\ Alive(d) /\ dn[d].count \in Nat /\ dn[d].count >= 1
             /\ dn[d].count >= 1 + Mount(d)
  <2>1. InPut(t)
    BY <1>4, Values DEF InPut, Ready, AtPlace
  <2> QED
    BY <1>1, <2>1, AtPut
<1>5. CASE th[t].op # "prune" /\ dn[d].count # 1 /\ th' = [th EXCEPT ![t] = Returned(th[t])] /\ Release(t)
           /\ dn' = [dn EXCEPT ![d].count = @ - 1]
  <2>1. PICK r : r = WithCount(dn[d], dn[d].count - 1)
    OBVIOUS
  <2>2. Puts(d, r) /\ dn[d].count - 1 \in Nat
    BY <1>4, <1>5, <2>1 DEF Puts, WithCount
  <2>3. Becomes(t, d, r) /\ r.lru = dn[d].lru /\ r.count = dn[d].count - 1
    BY <1>4, <1>5, <2>1, <2>2, BecomesCounted
  <2>4. Locks(t)
    BY <1>5, LocksReleased DEF RefsInv, Typed
  <2> QED
    BY <1>1, <1>4, <1>5, <2>3, <2>4, GivesUp
<1>6. CASE th[t].op # "prune" /\ dn[d].count = 1 /\ th' = [th EXCEPT ![t] = Returned(th[t])] /\ Release(t)
           /\ dn' = [dn EXCEPT ![d] = Retained(dn[d])]
  <2>1. PICK v : v = WithCount(dn[d], 1)
    OBVIOUS
  <2>2. PICK r : r = Retained(v)
    OBVIOUS
  <2>3. Puts(d, r)
    BY <1>6, <2>1, <2>2, SameCount DEF Puts
  <2>4. 1 \in Nat /\ 1 >= 1 /\ d # Root
    BY <1>4, <1>6 DEF Mount
  <2>5. Becomes(t, d, r) /\ r.count = 1 - 1 /\ (r.lru = "shrink" <=> dn[d].lru = "shrink")
    BY <1>4, <1>6, <2>1, <2>2, <2>3, <2>4, BecomesRetained
  <2>6. Locks(t) /\ r.count = dn[d].count - 1
    BY <1>6, <2>5, LocksReleased DEF RefsInv, Typed
  <2> QED
    BY <1>1, <1>4, <1>6, <2>5, <2>6, GivesUp
<1>7. CASE th[t].op # "prune" /\ dn[d].count = 1 /\ Kills(t, dn, d, dn[d].parent)
  <2>1. dn[d].count = One(OwesIn(th[t], d))
    BY <1>4, <1>7 DEF One
  <2> QED
    BY <1>4, <1>7, <2>1, KillsNow
<1> QED
  BY <1>1, <1>2, <1>3, <1>5, <1>6, <1>7 DEF Finish

\* The thread goes on to the next lock, or starts again with the first.
StillKills(t, s) ==
  /\ th[t].pc \in {"kill inode", "kill parent"} /\ s.pc \in {"kill inode", "kill parent"}
  /\ s \in Thread /\ dn' = dn /\ th' = [th EXCEPT ![t] = s] /\ Locks(t) /\ AtPlace(s)
  /\ s.op = th[t].op /\ s.d = th[t].d /\ s.list = th[t].list /\ s.refs = th[t].refs
  /\ s.unmounts = th[t].unmounts /\ NotFree(s.p)
  /\ s.i # Nobody => s.i = dn[s.d].inode
  /\ s.pc = "kill parent" /\ s.i # Nobody => i_lock'[s.i] = t

LEMMA StillKillsInv ==
  ASSUME NEW t \in Threads, NEW s, RefsInv, StillKills(t, s)
  PROVE  RefsInv'
<1>1. NotFree(s.d)
  BY Values DEF StillKills, InPlace
<1>2. ~ th[t].unmounts /\ ~ At(t, "idle") /\ th[t].pc # "killed" /\ s.pc # "killed" /\ s.pc \notin {"killed", "check"}
  BY DEF StillKills, RefsInv, Unmounting, AloneIn, UnmountPcs, At
<1>3. \A d : OwesIn(s, d) <=> OwesIn(th[t], d)
  BY DEF StillKills, OwesIn
<1>4. \A d \in Dentries : One(d \in s.refs) + One(OwesIn(s, d)) = One(d \in th[t].refs) + One(OwesIn(th[t], d))
  BY <1>3 DEF StillKills, One
<1>5. s.pc \in {"kill parent", "shrink parent"} /\ s.i # Nobody => i_lock'[s.i] = t
  BY DEF StillKills
<1>6. MovesTo(t, s)
  BY <1>1, <1>2, <1>4, <1>5 DEF StillKills, MovesTo
<1> QED
  BY <1>6, MovesKeepsInv

LEMMA LockInodeInv ==
  ASSUME NEW t \in Threads, RefsInv, LockInode(t)
  PROVE  RefsInv'
<1>1. PICK d : d = th[t].d
  OBVIOUS
<1>2. PICK w : w = th[t]
  OBVIOUS
<1>3. PICK p : p = dn[d].parent
  OBVIOUS
<1>4. w \in Thread /\ w.pc = "kill inode" /\ AtPlace(w) /\ w.d = d /\ InPlace(t)
  BY <1>1, <1>2, Values DEF LockInode, At
<1>5. w.op = "put" /\ w.list = <<>> /\ w.i # Nobody /\ w.i \in Inodes /\ d \in Dentries
  BY <1>4 DEF AtPlace, Nowhere, NoList, Thread
<1>6. dn[d].inode = w.i /\ InodeFree(w.i)
  BY <1>1, <1>2, <1>4, <1>5 DEF InPlace, LockInode
<1>7. Alive(d) /\ p \in Dentries /\ Alive(p) /\ p # Nobody
  BY <1>3, <1>5, <1>6, AliveIs, Values
<1>8. NotFree(p)
  BY <1>7, Values DEF NotFree
<1>9. CASE Finish(t)
  <2>1. Ready(t, d)
    BY <1>1, <1>2, <1>4, <1>5, <1>6 DEF Ready
  <2> QED
    BY <1>5, <1>9, <2>1, FinishInv
<1>10. CASE th' = [th EXCEPT ![t].pc = "kill parent", ![t].p = p] /\ Takes(t, w.i) /\ dn' = dn
  <2>1. PICK s : s = [w EXCEPT !.pc = "kill parent", !.p = p]
    OBVIOUS
  <2>2. th' = [th EXCEPT ![t] = s]
    BY <1>2, <1>10, <2>1
  <2>3. s \in Thread /\ s.pc = "kill parent" /\ s.op = "put" /\ s.d = d /\ s.p = p /\ s.i = w.i
        /\ s.list = w.list /\ s.refs = w.refs /\ s.unmounts = w.unmounts
    BY <1>4, <1>5, <1>7, <2>1 DEF Thread, Pcs
  <2>4. AtPlace(s)
    BY <1>5, <1>7, <2>3, Values DEF AtPlace, NoList, Nowhere, NoParent, NoInode
  <2>5. Locks(t) /\ i_lock'[w.i] = t
    BY <1>5, <1>6, <1>10, LocksTaken DEF RefsInv, Typed
  <2>6. StillKills(t, s)
    BY <1>2, <1>4, <1>5, <1>6, <1>8, <1>10, <2>2, <2>3, <2>4, <2>5 DEF StillKills
  <2> QED
    BY <2>6, StillKillsInv
<1> QED
  BY <1>1, <1>2, <1>3, <1>9, <1>10 DEF LockInode

LEMMA LockParentInv ==
  ASSUME NEW t \in Threads, RefsInv, LockParent(t)
  PROVE  RefsInv'
<1>1. PICK d : d = th[t].d
  OBVIOUS
<1>2. PICK w : w = th[t]
  OBVIOUS
<1>3. PICK p : p = dn[d].parent
  OBVIOUS
<1>4. PICK i : i = dn[d].inode
  OBVIOUS
<1>5. w \in Thread /\ w.pc = "kill parent" /\ AtPlace(w) /\ w.d = d /\ InPlace(t)
  BY <1>1, <1>2, Values DEF LockParent, At
<1>6. w.list = <<>> /\ d \in Dentries /\ (w.op = "put" \/ (w.op = "prune" /\ w.i # Nobody)) /\ w.i \in Inodes \cup {Nobody}
      /\ w.p \in Dentries
  BY <1>5 DEF AtPlace, Nowhere, NoList, Thread
<1>7. (w.i # Nobody => i = w.i /\ i_lock[w.i] = t) /\ NotFree(w.p) /\ NotFree(d)
  BY <1>2, <1>4, <1>5 DEF InPlace
<1>8. i \in Inodes \cup {Nobody}
  BY <1>4, <1>6, Values DEF Dentry
<1>9. ASSUME dn' = dn, i_lock' = i_lock, NEW s, s \in Thread, th' = [th EXCEPT ![t] = s], AtPlace(s),
             s.pc \in {"kill inode", "kill parent"}, s.op = w.op, s.d = d, s.list = w.list, s.refs = w.refs,
             s.unmounts = w.unmounts, NotFree(s.p), s.i # Nobody => s.i = i,
             s.pc = "kill parent" => s.i = w.i
      PROVE  RefsInv'
  <2>1. Locks(t)
    BY <1>9, LocksKept DEF RefsInv, Typed
  <2>2. StillKills(t, s)
    BY <1>2, <1>4, <1>5, <1>7, <1>9, <2>1 DEF StillKills
  <2> QED
    BY <1>9, <2>2, StillKillsInv
<1>10. CASE ~ StillParent(d, w.p) /\ th' = [th EXCEPT ![t].p = p] /\ UNCHANGED <<dn, i_lock>>
  <2>1. PICK s : s = [w EXCEPT !.p = p]
    OBVIOUS
  <2>2. th' = [th EXCEPT ![t] = s]
    BY <1>2, <1>10, <2>1
  <2>3. p \in Dentries /\ NotFree(p) /\ p # Nobody
    <3>1. ShapeOf(d, dn[d]) /\ dn[d].mem # "free"
      BY <1>6, <1>7, Values DEF NotFree
    <3>2. p \in Dentries /\ p # Nobody
      BY <1>3, <3>1, Values DEF ShapeOf
    <3>3. CASE Alive(d)
      <4>1. Alive(p)
        BY <1>3, <1>6, <3>3, AliveIs
      <4> QED
        BY <3>2, <4>1, Values DEF NotFree
    <3>4. CASE ~ Alive(d)
      <4>1. FALSE
        <5>1. OwesIn(w, d) \/ i # Nobody
          BY <1>5, <1>6, <1>7, Values DEF OwesIn
        <5> QED
          BY <1>2, <1>4, <1>6, <3>4, <5>1, AliveIs
      <4> QED
        BY <4>1
    <3> QED
      BY <3>2, <3>3, <3>4
  <2>4. s \in Thread /\ s.pc = "kill parent" /\ s.op = w.op /\ s.d = d /\ s.p = p /\ s.i = w.i
        /\ s.list = w.list /\ s.refs = w.refs /\ s.unmounts = w.unmounts
    BY <1>5, <2>1, <2>3 DEF Thread
  <2>5. AtPlace(s)
    BY <1>5, <1>6, <2>3, <2>4 DEF AtPlace, NoList, Nowhere, NoParent, NoInode
  <2> QED
    BY <1>7, <1>9, <1>10, <2>2, <2>3, <2>4, <2>5
<1>11. CASE w.i = Nobody /\ i # Nobody /\ UNCHANGED <<dn, i_lock>>
            /\ th' = [th EXCEPT ![t].pc = "kill inode", ![t].p = Nobody, ![t].i = i]
  <2>1. PICK s : s = [w EXCEPT !.pc = "kill inode", !.p = Nobody, !.i = i]
    OBVIOUS
  <2>2. th' = [th EXCEPT ![t] = s]
    BY <1>2, <1>11, <2>1
  <2>3. s \in Thread /\ s.pc = "kill inode" /\ s.op = w.op /\ s.d = d /\ s.p = Nobody /\ s.i = i
        /\ s.list = w.list /\ s.refs = w.refs /\ s.unmounts = w.unmounts
    BY <1>5, <1>8, <2>1 DEF Thread, Pcs
  <2>4. AtPlace(s) /\ NotFree(s.p)
    BY <1>5, <1>6, <1>11, <2>3 DEF AtPlace, NoList, Nowhere, NoParent, NoInode, NotFree
  <2> QED
    BY <1>9, <1>11, <2>2, <2>3, <2>4
<1>12. CASE ~ (w.i = Nobody /\ i # Nobody) /\ Finish(t)
  <2>1. InodeFree(i) \/ i_lock[i] = t
    BY <1>7, <1>12, Values DEF InodeFree
  <2>2. Ready(t, d)
    BY <1>1, <1>2, <1>4, <1>5, <1>6, <2>1 DEF Ready
  <2> QED
    BY <1>6, <1>12, <2>2, FinishInv
<1> QED
  BY <1>1, <1>2, <1>3, <1>4, <1>10, <1>11, <1>12 DEF LockParent

LEMMA PruneAliasInv ==
  ASSUME NEW t \in Threads, NEW d \in Dentries \ {Root}, RefsInv, PruneAlias(t, d)
  PROVE  RefsInv'
<1>1. PICK w : w = th[t]
  OBVIOUS
<1>2. PICK i : i = dn[d].inode
  OBVIOUS
<1>3. PICK p : p = dn[d].parent
  OBVIOUS
<1>4. MayCall(t) /\ At(t, "idle") /\ i # Nobody /\ InodeFree(i) /\ dn[d].count = 0
  BY <1>2 DEF PruneAlias, MayCall
<1>5. w \in Thread /\ w.pc = "idle" /\ w.list = <<>> /\ w.d = Nobody /\ w.p = Nobody /\ w.i = Nobody
      /\ (\A x : ~ OwesIn(w, x)) /\ ~ w.unmounts
  BY <1>1, <1>4, IdlePlace, Values, NoOtherUnmounts DEF RefsInv, At
<1>6. Alive(d) /\ p \in Dentries /\ Alive(p) /\ i \in Inodes /\ NotFree(p) /\ NotFree(d) /\ d # Nobody /\ p # Nobody
  <2>1. Alive(d) /\ p \in Dentries /\ Alive(p) /\ i \in Inodes \cup {Nobody}
    BY <1>2, <1>3, <1>4, AliveIs, Values DEF Dentry
  <2> QED
    BY <1>4, <2>1, Values DEF NotFree
<1>7. CASE dn' = [dn EXCEPT ![d] = Killed(dn[d])] /\ UNCHANGED i_lock
           /\ th' = [th EXCEPT ![t].pc = "killed", ![t].op = "prune", ![t].d = d, ![t].p = p]
  <2>1. PICK s : s = [w EXCEPT !.pc = "killed", !.op = "prune", !.d = d, !.p = p]
    OBVIOUS
  <2>2. th' = [th EXCEPT ![t] = s]
    BY <1>1, <1>7, <2>1
  <2>3. s \in Thread /\ s.pc = "killed" /\ s.d = d /\ s.p = p /\ s.i = Nobody
        /\ s.list = <<>> /\ s.refs = w.refs /\ s.unmounts = w.unmounts
    BY <1>5, <1>6, <2>1 DEF Thread, Pcs, Ops
  <2>4. PICK v : v = WithCount(dn[d], dn[d].count)
    OBVIOUS
  <2>5. Puts(d, Killed(v)) /\ Locks(t)
    BY <1>7, <2>4, SameCount, LocksKept DEF Puts, RefsInv, Typed
  <2>6. \A u \in Threads \ {t} : ~ OwesIn(th[u], d)
    <3>1. \A u \in Threads \ {t} : OwesIn(th[u], d) => dn[d].count > 0
      BY AliveIs
    <3> QED
      BY <1>4, <3>1
  <2>7. Unpinned(t, d)
    BY <1>2, <1>4, <2>6, UnpinnedWhen
  <2>8. dn[d].count = One(OwesIn(th[t], d))
    BY <1>1, <1>4, <1>5 DEF One
  <2>9. KillsFor(t, d, v, s)
    BY <1>1, <1>3, <1>4, <1>5, <1>6, <2>2, <2>3, <2>5, <2>7, <2>8 DEF KillsFor
  <2>10. dn[d].count \in Int
    BY <1>4
  <2> QED
    BY <2>4, <2>9, <2>10, KillsForInv
<1>8. CASE dn' = dn /\ Takes(t, i)
           /\ th' = [th EXCEPT ![t].pc = "kill parent", ![t].op = "prune", ![t].d = d, ![t].p = p, ![t].i = i]
  <2>1. PICK s : s = [w EXCEPT !.pc = "kill parent", !.op = "prune", !.d = d, !.p = p, !.i = i]
    OBVIOUS
  <2>2. th' = [th EXCEPT ![t] = s]
    BY <1>1, <1>8, <2>1
  <2>3. s \in Thread /\ s.pc = "kill parent" /\ s.op = "prune" /\ s.d = d /\ s.p = p /\ s.i = i
        /\ s.list = w.list /\ s.refs = w.refs /\ s.unmounts = w.unmounts
    BY <1>5, <1>6, <2>1 DEF Thread, Pcs, Ops
  <2>4. AtPlace(s) /\ \A x : ~ OwesIn(s, x)
    BY <1>4, <1>5, <1>6, <2>3 DEF AtPlace, NoList, Nowhere, NoParent, NoInode, OwesIn
  <2>5. Locks(t) /\ i_lock'[i] = t
    BY <1>4, <1>6, <1>8, LocksTaken DEF RefsInv, Typed
  <2>6. \A x \in Dentries : One(x \in s.refs) + One(OwesIn(s, x)) = One(x \in w.refs) + One(OwesIn(w, x))
    BY <1>5, <2>3, <2>4 DEF One
  <2>7. MovesTo(t, s)
    BY <1>1, <1>2, <1>4, <1>5, <1>6, <1>8, <2>2, <2>3, <2>4, <2>5, <2>6 DEF MovesTo
  <2> QED
    BY <2>7, MovesKeepsInv
<1> QED
  BY <1>2, <1>3, <1>7, <1>8 DEF PruneAlias

\* The killed entry after its burial.
Buried(v) == IF v.lru # "shrink" THEN [v EXCEPT !.mem = "rcu"] ELSE [v EXCEPT !.may_free = TRUE]

LEMMA BuriedIs ==
  ASSUME NEW v \in Dentry, NEW k, k = Buried(v)
  PROVE  /\ k \in Dentry /\ k.count = v.count /\ k.parent = v.parent /\ k.hashed = v.hashed
         /\ k.inode = v.inode /\ k.lru = v.lru
         /\ IF v.lru # "shrink" THEN k.mem = "rcu" /\ k.may_free = v.may_free ELSE k.mem = v.mem /\ k.may_free
<1>1. CASE v.lru # "shrink"
  <2>1. k = [v EXCEPT !.mem = "rcu"]
    BY <1>1 DEF Buried
  <2> QED
    BY <1>1, <2>1 DEF Dentry
<1>2. CASE ~ (v.lru # "shrink")
  <2>1. k = [v EXCEPT !.may_free = TRUE]
    BY <1>2 DEF Buried
  <2> QED
    BY <1>2, <2>1 DEF Dentry
<1> QED
  BY <1>1, <1>2

LEMMA BuryInv ==
  ASSUME NEW t \in Threads, RefsInv, Bury(t)
  PROVE  RefsInv'
<1>1. PICK w : w = th[t]
  OBVIOUS
<1>2. PICK d : d = w.d
  OBVIOUS
<1>3. w \in Thread /\ w.pc = "killed" /\ AtPlace(w) /\ InPlace(t) /\ At(t, "killed")
  BY <1>1, Values DEF Bury, At
<1>4. d \in Dentries /\ w.i = Nobody /\ w.p \in Dentries \cup {Nobody} /\ (w.p # Nobody => w.list = <<>>)
      /\ w.op \in Ops /\ w.unmounts \in BOOLEAN
  BY <1>2, <1>3 DEF AtPlace, Nowhere, NoInode, Thread
<1>5. Unburied(d) /\ NotFree(w.p)
  BY <1>1, <1>2, <1>3 DEF InPlace
<1>6. PICK v : v = dn[d]
  OBVIOUS
<1>7. v \in Dentry /\ ShapeOf(d, v) /\ v.mem = "live" /\ v.count = Dead /\ ~ v.may_free
  BY <1>4, <1>5, <1>6, Values DEF Unburied
<1>8. PICK k : k = Buried(v)
  OBVIOUS
<1>9. k \in Dentry /\ k.count = Dead /\ k.parent = v.parent /\ k.hashed = v.hashed /\ k.inode = v.inode /\ k.lru = v.lru
      /\ IF v.lru # "shrink" THEN k.mem = "rcu" /\ ~ k.may_free ELSE k.mem = "live" /\ k.may_free
  BY <1>7, <1>8, BuriedIs
<1>10. dn' = [dn EXCEPT ![d] = k] /\ dn'[d] = k /\ \A x \in Dentries \ {d} : dn'[x] = dn[x]
  <2>1. dn' = [dn EXCEPT ![d] = k]
    BY <1>1, <1>2, <1>6, <1>8 DEF Bury, Buried, CanFree
  <2> QED
    BY <1>4, <2>1 DEF RefsInv, Typed, DnTyped
<1>11. PICK s : s = IF w.p # Nobody THEN [w EXCEPT !.pc = "put", !.op = "put", !.d = w.p, !.p = Nobody]
                    ELSE [w EXCEPT !.pc = "dispose", !.op = "dispose", !.d = Nobody]
  OBVIOUS
<1>12. th' = [th EXCEPT ![t] = s] /\ th'[t] = s /\ i_lock' = i_lock
  <2>1. th' = [th EXCEPT ![t] = s]
    BY <1>1, <1>11 DEF Bury
  <2> QED
    BY <2>1 DEF Bury, RefsInv, Typed, ThTyped
<1>13. /\ s \in Thread /\ s.p = Nobody /\ s.i = Nobody /\ s.list = w.list /\ s.refs = w.refs /\ s.unmounts = w.unmounts
       /\ IF w.p # Nobody THEN s.pc = "put" /\ s.op = "put" /\ s.d = w.p
          ELSE s.pc = "dispose" /\ s.op = "dispose" /\ s.d = Nobody
  <2>1. CASE w.p # Nobody
    <3>1. s = [w EXCEPT !.pc = "put", !.op = "put", !.d = w.p, !.p = Nobody]
      BY <1>11, <2>1
    <3> QED
      BY <1>3, <1>4, <2>1, <3>1 DEF Thread, Pcs, Ops
  <2>2. CASE w.p = Nobody
    <3>1. s = [w EXCEPT !.pc = "dispose", !.op = "dispose", !.d = Nobody]
      BY <1>11, <2>2
    <3> QED
      BY <1>3, <1>4, <2>2, <3>1 DEF Thread, Pcs, Ops
  <2> QED
    BY <2>1, <2>2
<1>14. Frame(t)
  BY <1>12 DEF Frame, RefsInv, Typed, ThTyped
<1>15. Typed'
  BY <1>9, <1>10, <1>12, <1>13 DEF RefsInv, Typed, DnTyped, ThTyped, LockTyped
<1>16. Balance(t, d)
  <2>1. \A x \in Dentries : Uses(dn'[x]) = Uses(dn[x])
    BY <1>6, <1>7, <1>9, <1>10 DEF Uses
  <2>2. \A x \in Dentries : OwesIn(s, x) <=> OwesIn(w, x)
    BY <1>3, <1>13, Values DEF OwesIn
  <2>3. \A x \in Dentries : ~ ChildIn(dn'[d], d, x) /\ ~ ChildIn(dn[d], d, x)
    BY <1>6, <1>7, <1>9, <1>10 DEF ChildIn
  <2>4. \A x \in Dentries : Uses(dn[x]) \in Int
    BY DEF RefsInv, Typed, DnTyped, Dentry, Uses
  <2>5. \A x \in Dentries :
          Uses(dn'[x]) - Uses(dn[x]) =
             One(x \in th'[t].refs) - One(x \in th[t].refs)
           + One(OwesIn(th'[t], x)) - One(OwesIn(th[t], x))
           + One(ChildIn(dn'[d], d, x)) - One(ChildIn(dn[d], d, x))
    <3> HIDE DEF Uses, OwesIn, ChildIn
    <3> QED
      BY <1>1, <1>12, <1>13, <2>1, <2>2, <2>3, <2>4 DEF One
  <2> QED
    BY <1>10, <2>5 DEF Balance
<1>17. Shapes'
  <2>1. ShapeOf(d, k)
    BY <1>7, <1>9 DEF ShapeOf, Dentry, Lrus
  <2>2. \A x \in Dentries : ShapeOf(x, dn'[x])
    BY <1>10, <2>1 DEF RefsInv, Shapes
  <2> QED
    BY <2>2 DEF Shapes
<1>18. Lists(t)
  <2>1. \A x \in Dentries : dn'[x].lru = "shrink" <=> dn[x].lru = "shrink"
    BY <1>6, <1>9, <1>10
  <2>2. th'[t].list = th[t].list /\ Listed
    BY <1>1, <1>12, <1>13 DEF RefsInv
  <2> QED
    BY <1>14, <2>1, <2>2, SameLists
<1>19. \A x \in Dentries : dn[x].mem # "free" => dn'[x].mem # "free"
  BY <1>9, <1>10
<1>20. Keeps(t)
  <2>1. \A x \in Dentries : dn'[x].inode = dn[x].inode
    BY <1>6, <1>9, <1>10
  <2>2. \A x \in Dentries : Unburied(x) /\ ~ (th[t].pc = "killed" /\ th[t].d = x) => dn'[x] = dn[x]
    BY <1>1, <1>2, <1>3, <1>10
  <2> QED
    BY <1>12, <1>19, <2>1, <2>2 DEF Keeps, Unburied
<1>21. InPlace(t)'
  <2>1. AtPlace(s)
    BY <1>4, <1>13, Values DEF AtPlace, NoList, Nowhere, NoParent, NoInode
  <2>2. NotFree(s.d)' /\ NotFree(s.p)'
    BY <1>4, <1>5, <1>13, <1>19 DEF NotFree
  <2>3. s.pc \in {"put", "dispose"}
    BY <1>13
  <2> QED
    BY <1>12, <2>1, <2>2, <2>3 DEF InPlace
<1>22. Buries(t)
  <2>1. s.pc # "killed"
    BY <1>13
  <2>2. ASSUME NEW x \in Dentries, dn'[x].mem = "live", dn'[x].count = Dead
        PROVE  \/ dn'[x].lru = "shrink" /\ dn'[x].may_free
               \/ Unburied(x) /\ ~ (th[t].pc = "killed" /\ th[t].d = x)
    <3>1. CASE x = d
      BY <1>9, <1>10, <2>2, <3>1
    <3>2. CASE x # d
      <4>1. dn'[x] = dn[x] /\ ShapeOf(x, dn[x])
        BY <1>10, <3>2, Values
      <4> QED
        BY <1>1, <1>2, <2>2, <3>2, <4>1 DEF Unburied, ShapeOf
    <3> QED
      BY <3>1, <3>2
  <2> QED
    BY <1>12, <2>1, <2>2 DEF Buries
<1>23. Rooted'
  <2>1. \A x \in Dentries : dn'[x].count # Dead => Alive(x) /\ dn'[x].parent = dn[x].parent
    BY <1>9, <1>10 DEF Alive
  <2> QED
    BY <2>1, RootedStep DEF SameWays, RefsInv
<1>24. Unmounts(t)
  <2>1. \A u \in Threads \ {t} : ~ th[u].unmounts
    BY <1>3, NoOtherUnmounts DEF RefsInv, At
  <2>2. w.unmounts => w.refs = {} /\ w.p = Nobody
    BY <1>1, <1>3 DEF RefsInv, Unmounting, AloneIn
  <2> QED
    BY <1>1, <1>12, <1>13, <2>1, <2>2 DEF Unmounts, AloneIn, UnmountPcs
<1>25. StepOK(t, d)
  BY <1>14, <1>15, <1>16, <1>17, <1>18, <1>20, <1>21, <1>22, <1>23, <1>24 DEF StepOK
<1> QED
  BY <1>4, <1>25, StepKeepsInv

-----------------------------------------------------------------------------
(* New entries, and entries that move                                      *)

\* What does not depend on the entries when an idle thread makes a call.
LEMMA IdleStep ==
  ASSUME NEW t \in Threads, RefsInv, MayCall(t), NEW R \in SUBSET Dentries,
         th' = [th EXCEPT ![t] = Back(th[t], R)], i_lock' = i_lock, dn' \in [Dentries -> Dentry]
  PROVE  /\ Frame(t) /\ Typed' /\ InPlace(t)' /\ Unmounts(t)
         /\ th'[t].refs = R /\ th'[t].list = th[t].list /\ th[t].pc = "idle" /\ th'[t].pc = "idle"
         /\ \A x : ~ OwesIn(th'[t], x) /\ ~ OwesIn(th[t], x)
<1>1. PICK w : w = th[t]
  OBVIOUS
<1>2. PICK s : s = Back(w, R)
  OBVIOUS
<1>3. At(t, "idle") /\ w \in Thread /\ w.pc = "idle" /\ w.list = <<>> /\ (\A x : ~ OwesIn(w, x)) /\ ~ w.unmounts
  BY <1>1, Values, IdlePlace, NoOtherUnmounts DEF MayCall, At, RefsInv
<1>4. /\ s \in Thread /\ s.pc = "idle" /\ s.d = Nobody /\ s.p = Nobody /\ s.i = Nobody
      /\ s.list = <<>> /\ s.refs = R /\ s.unmounts = w.unmounts
      /\ AtPlace(s) /\ \A x : ~ OwesIn(s, x)
  BY <1>2, <1>3, ReturnedIs
<1>5. th' = [th EXCEPT ![t] = s] /\ th'[t] = s
  BY <1>1, <1>2 DEF RefsInv, Typed, ThTyped
<1>6. Frame(t) /\ Typed'
  BY <1>4, <1>5 DEF Frame, RefsInv, Typed, DnTyped, ThTyped, LockTyped
<1>7. InPlace(t)'
  BY <1>4, <1>5 DEF InPlace, NotFree
<1>8. Unmounts(t)
  <2>1. \A u \in Threads \ {t} : ~ th[u].unmounts
    BY NoOtherUnmounts DEF RefsInv
  <2> QED
    BY <1>1, <1>3, <1>4, <1>5, <2>1 DEF Unmounts
<1> QED
  BY <1>1, <1>3, <1>4, <1>5, <1>6, <1>7, <1>8

NewBelow(p) == [NoDentry EXCEPT !.mem = "live", !.count = 1, !.parent = p]

LEMMA NewIs ==
  ASSUME NEW p \in Dentries, NEW n, n = NewBelow(p)
  PROVE  /\ n \in Dentry /\ n.mem = "live" /\ n.count = 1 /\ n.parent = p /\ n.inode = Nobody /\ n.lru = "none"
         /\ \A d \in Dentries \ {Root} : d # p => ShapeOf(d, n)
<1>1. n = [mem |-> "live", count |-> 1, parent |-> p, hashed |-> FALSE, inode |-> Nobody, lru |-> "none",
           referenced |-> FALSE, may_free |-> FALSE]
  BY DEF NewBelow, NoDentry
<1>2. "none" \in Lrus /\ "live" \in {"free", "live", "rcu"}
  BY DEF Lrus
<1>3. /\ n \in Dentry /\ n.mem = "live" /\ n.count = 1 /\ n.parent = p /\ n.inode = Nobody /\ n.lru = "none"
      /\ n.may_free = FALSE
  BY <1>1, <1>2 DEF Dentry
<1> QED
  BY <1>3 DEF ShapeOf, Dead

\* An idle thread changes the counts of some living entries, and one entry c.
IdleChange(t, c, R) ==
  /\ MayCall(t) /\ R \in SUBSET Dentries
  /\ th' = [th EXCEPT ![t] = Back(th[t], R)] /\ i_lock' = i_lock /\ dn' \in [Dentries -> Dentry]
  /\ dn'[c].count # Dead /\ (Alive(c) \/ dn[c].mem = "free") /\ ShapeOf(c, dn'[c])
  /\ dn'[c].lru = dn[c].lru /\ dn'[c].inode = dn[c].inode
  /\ \A x \in Dentries \ {c} :
       dn'[x] = dn[x] \/ (Alive(x) /\ \E n \in Nat : dn'[x] = WithCount(dn[x], n))
  /\ \A d \in Dentries :
       Uses(dn'[d]) - Uses(dn[d]) = One(d \in R) - One(d \in th[t].refs)
         + One(ChildIn(dn'[c], c, d)) - One(ChildIn(dn[c], c, d))

LEMMA IdleChangeInv ==
  ASSUME NEW t \in Threads, NEW c \in Dentries, NEW R, RefsInv, IdleChange(t, c, R), Rooted'
  PROVE  RefsInv'
<1>1. /\ Frame(t) /\ Typed' /\ InPlace(t)' /\ Unmounts(t)
      /\ th'[t].refs = R /\ th'[t].list = th[t].list /\ th[t].pc = "idle" /\ th'[t].pc = "idle"
      /\ \A x : ~ OwesIn(th'[t], x) /\ ~ OwesIn(th[t], x)
  BY IdleStep DEF IdleChange
<1>2. ASSUME NEW x \in Dentries \ {c}
      PROVE  /\ dn'[x].mem = dn[x].mem /\ dn'[x].parent = dn[x].parent /\ dn'[x].inode = dn[x].inode
             /\ dn'[x].lru = dn[x].lru /\ (dn'[x].count = Dead <=> dn[x].count = Dead)
             /\ ShapeOf(x, dn'[x]) /\ (~ Alive(x) => dn'[x] = dn[x])
  <2>1. CASE dn'[x] = dn[x]
    BY <2>1, Values
  <2>2. CASE Alive(x) /\ \E n \in Nat : dn'[x] = WithCount(dn[x], n)
    <3>1. PICK n \in Nat : dn'[x] = WithCount(dn[x], n)
      BY <2>2
    <3>2. PICK v : v = dn'[x]
      OBVIOUS
    <3>3. PICK y : y = dn[x]
      OBVIOUS
    <3>4. y \in Dentry /\ ShapeOf(x, y) /\ y.count # Dead
      BY <2>2, <3>3, Values DEF Alive
    <3>5. /\ v.count = n /\ v.mem = y.mem /\ v.parent = y.parent /\ v.hashed = y.hashed
          /\ v.inode = y.inode /\ v.lru = y.lru /\ v.may_free = y.may_free
      BY <3>1, <3>2, <3>3, <3>4, CountedIs
    <3>6. n # Dead
      BY DEF Dead
    <3>7. ShapeOf(x, v)
      BY <3>4, <3>5, <3>6 DEF ShapeOf, NoDentry
    <3> QED
      BY <2>2, <3>2, <3>3, <3>4, <3>5, <3>6, <3>7 DEF Alive
  <2> QED
    BY <2>1, <2>2 DEF IdleChange
<1>3. Balance(t, c)
  <2>1. \A d \in Dentries :
          Uses(dn'[d]) - Uses(dn[d]) = One(d \in R) - One(d \in th[t].refs)
            + One(ChildIn(dn'[c], c, d)) - One(ChildIn(dn[c], c, d))
    BY DEF IdleChange
  <2>2. \A d \in Dentries : One(OwesIn(th'[t], d)) - One(OwesIn(th[t], d)) = 0
    BY <1>1 DEF One
  <2>3. \A b : One(b) \in Int
    BY DEF One
  <2>4. \A d \in Dentries :
          Uses(dn'[d]) - Uses(dn[d]) =
             One(d \in th'[t].refs) - One(d \in th[t].refs)
           + One(OwesIn(th'[t], d)) - One(OwesIn(th[t], d))
           + One(ChildIn(dn'[c], c, d)) - One(ChildIn(dn[c], c, d))
    <3> HIDE DEF One, Uses, OwesIn, ChildIn
    <3> QED
      BY <1>1, <2>1, <2>2, <2>3
  <2>5. \A e \in Dentries \ {c} :
          (dn'[e].count = Dead <=> dn[e].count = Dead) /\ (dn[e].count # Dead => dn'[e].parent = dn[e].parent)
    BY <1>2
  <2> QED
    BY <2>4, <2>5 DEF Balance
<1>4. Shapes'
  <2>1. \A x \in Dentries : ShapeOf(x, dn'[x])
    BY <1>2 DEF IdleChange
  <2> QED
    BY <2>1 DEF Shapes
<1>5. Lists(t)
  <2>1. \A x \in Dentries : dn'[x].lru = "shrink" <=> dn[x].lru = "shrink"
    BY <1>2 DEF IdleChange
  <2> QED
    BY <1>1, <2>1, SameLists DEF RefsInv
<1>6. \A x \in Dentries : ~ Alive(x) /\ dn[x].mem # "free" => dn'[x] = dn[x]
  BY <1>2 DEF IdleChange
<1>7. dn'[c].mem = "live"
  BY DEF IdleChange, ShapeOf
<1>8. Keeps(t)
  <2>1. \A x \in Dentries : dn'[x].inode = dn[x].inode
    BY <1>2 DEF IdleChange
  <2>2. \A x \in Dentries : dn[x].mem # "free" => dn'[x].mem # "free"
    BY <1>2, <1>7
  <2>3. \A x \in Dentries : Unburied(x) => dn'[x] = dn[x]
    BY <1>6 DEF Unburied, Alive
  <2> QED
    BY <2>1, <2>2, <2>3 DEF Keeps, Unburied, IdleChange
<1>9. Buries(t)
  <2>1. ASSUME NEW x \in Dentries, dn'[x].mem = "live", dn'[x].count = Dead
        PROVE  (dn'[x].lru = "shrink" /\ dn'[x].may_free) \/ Unburied(x)
    <3>1. x # c
      BY <2>1 DEF IdleChange
    <3>2. dn'[x] = dn[x] /\ ShapeOf(x, dn[x])
      BY <1>2, <2>1, <3>1, Values DEF Alive
    <3> QED
      BY <2>1, <3>2 DEF Unburied, ShapeOf
  <2> QED
    BY <1>1, <2>1 DEF Buries
<1>10. StepOK(t, c)
  BY <1>1, <1>3, <1>4, <1>5, <1>8, <1>9 DEF StepOK
<1> QED
  BY <1>10, StepKeepsInv

LEMMA AllocInv ==
  ASSUME NEW t \in Threads, NEW d \in Dentries \ {Root}, NEW p \in Dentries, RefsInv, Alloc(t, d, p)
  PROVE  RefsInv'
<1> DEFINE R == th[t].refs \cup {d}
<1>1. MayCall(t) /\ At(t, "idle") /\ dn[d].mem = "free" /\ (p = Root \/ Holds(t, p))
      /\ dn' = [dn EXCEPT ![p].count = @ + 1, ![d] = NewBelow(p)]
      /\ th' = [th EXCEPT ![t].refs = R] /\ i_lock' = i_lock
  BY DEF Alloc, MayCall, NewBelow
<1>2. R \in SUBSET Dentries /\ th[t].refs \in SUBSET Dentries
  BY RefsType
<1> HIDE DEF R
<1>3. Alive(p) /\ dn[p].count \in Nat
  BY <1>1, AliveIs, Values
<1>4. dn[d] = NoDentry /\ ~ Alive(d) /\ p # d /\ dn[d].count = Dead
  <2>1. dn[d] = NoDentry
    BY <1>1, Values DEF ShapeOf
  <2>2. dn[d].count = Dead
    BY <2>1 DEF NoDentry
  <2> QED
    BY <1>3, <2>1, <2>2 DEF Alive
<1>5. PICK n : n = NewBelow(p)
  OBVIOUS
<1>6. n \in Dentry /\ n.mem = "live" /\ n.count = 1 /\ n.parent = p /\ n.inode = Nobody /\ n.lru = "none"
      /\ ShapeOf(d, n)
  BY <1>4, <1>5, NewIs
<1>7. PICK r : r = WithCount(dn[p], dn[p].count + 1)
  OBVIOUS
<1>8. r \in Dentry /\ r.count = dn[p].count + 1 /\ r.parent = dn[p].parent
  <2>1. dn[p] \in Dentry /\ dn[p].count + 1 \in Int
    BY <1>3, Values
  <2> QED
    BY <1>7, <2>1, CountedIs
<1>9. dn' = [dn EXCEPT ![p] = r, ![d] = n]
  <2>1. dn' = [dn EXCEPT ![p].count = dn[p].count + 1, ![d] = n]
    BY <1>1, <1>5
  <2> QED
    BY <1>7, <2>1 DEF WithCount
<1>10. dn'[d] = n /\ dn'[p] = r /\ (\A x \in Dentries \ {d, p} : dn'[x] = dn[x]) /\ dn' \in [Dentries -> Dentry]
  BY <1>4, <1>6, <1>8, <1>9 DEF RefsInv, Typed, DnTyped
<1>11. \A t1 \in Threads : ~ Holds(t1, d)
  BY <1>4, NobodyCounts DEF RefsInv
<1>12. \A c \in Dentries : ~ Child(c, d)
  BY <1>4, NobodyCounts DEF RefsInv
<1>13. th' = [th EXCEPT ![t] = Back(th[t], R)]
  BY <1>1, <1>2, StaysIdle
<1>14. ASSUME NEW x \in Dentries
       PROVE  Uses(dn'[x]) - Uses(dn[x]) = One(x \in R) - One(x \in th[t].refs)
                + One(ChildIn(dn'[d], d, x)) - One(ChildIn(dn[d], d, x))
  <2>1. ~ ChildIn(dn[d], d, x) /\ (ChildIn(dn'[d], d, x) <=> x = p)
    BY <1>4, <1>6, <1>10 DEF ChildIn, Dead
  <2>2. x # d => (x \in R <=> x \in th[t].refs)
    BY DEF R
  <2>3. d \in R /\ d \notin th[t].refs
    BY <1>11 DEF R, Holds
  <2>4. Uses(dn[x]) \in Int /\ Uses(r) = dn[p].count + 1 /\ Uses(dn[p]) = dn[p].count /\ Uses(n) = 1 /\ Uses(dn[d]) = 0
    BY <1>3, <1>4, <1>6, <1>8 DEF Uses, Dead, Alive, RefsInv, Typed, DnTyped, Dentry
  <2> HIDE DEF Uses, ChildIn
  <2>5. CASE x = d
    BY <1>4, <1>10, <2>1, <2>3, <2>4, <2>5 DEF One
  <2>6. CASE x = p
    BY <1>3, <1>4, <1>10, <2>1, <2>2, <2>4, <2>6 DEF One
  <2>7. CASE x # d /\ x # p
    BY <1>10, <2>1, <2>2, <2>4, <2>7 DEF One
  <2> QED
    BY <2>5, <2>6, <2>7
<1>15. IdleChange(t, d, R)
  <2>1. dn'[d].count # Dead
    BY <1>6, <1>10 DEF Dead
  <2>2. dn[d].lru = "none" /\ dn[d].inode = Nobody
    BY <1>4 DEF NoDentry
  <2>3. \A x \in Dentries \ {d} : dn'[x] = dn[x] \/ (Alive(x) /\ \E m \in Nat : dn'[x] = WithCount(dn[x], m))
    <3>1. dn[p].count + 1 \in Nat
      BY <1>3
    <3> QED
      BY <1>3, <1>7, <1>10, <3>1
  <2> QED
    BY <1>1, <1>2, <1>6, <1>10, <1>13, <1>14, <2>1, <2>2, <2>3 DEF IdleChange
<1>16. Rooted'
  <2> SUFFICES ASSUME NEW S \in SUBSET Dentries, S # {}, \A x \in S : dn'[x].count # Dead /\ dn'[x].parent \in S
               PROVE  Root \in S
    BY DEF Rooted, Alive
  <2>1. \A x \in S \ {d} : Alive(x) /\ dn[x].parent = dn'[x].parent
    BY <1>3, <1>8, <1>10 DEF Alive
  <2>2. \A x \in S \ {d} : dn[x].parent # d
    BY <1>12, <2>1 DEF Child
  <2>3. \A x \in S \ {d} : Alive(x) /\ dn[x].parent \in S \ {d}
    BY <2>1, <2>2
  <2>4. S \ {d} # {}
    BY <1>4, <1>6, <1>10
  <2> QED
    BY <2>3, <2>4 DEF Rooted, RefsInv
<1> QED
  BY <1>15, <1>16, IdleChangeInv

MovedTo(v, p) == [v EXCEPT !.parent = p, !.hashed = TRUE]

LEMMA MovedIs ==
  ASSUME NEW v \in Dentry, NEW p \in Dentries, NEW m, m = MovedTo(v, p)
  PROVE  /\ m \in Dentry /\ m.parent = p /\ m.mem = v.mem /\ m.count = v.count /\ m.inode = v.inode /\ m.lru = v.lru
         /\ m.may_free = v.may_free
  BY DEF MovedTo, Dentry

LEMMA MoveInv ==
  ASSUME NEW t \in Threads, NEW d \in Dentries \ {Root}, NEW p \in Dentries, RefsInv, Move(t, d, p)
  PROVE  RefsInv'
<1>1. PICK q : q = dn[d].parent
  OBVIOUS
<1>2. MayCall(t) /\ At(t, "idle") /\ Holds(t, d) /\ dn[d].inode # Nobody /\ p # q /\ NotBelow(p, d)
      /\ (\A x \in {p, q} : x = Root \/ Holds(t, x))
      /\ dn' = [dn EXCEPT ![d].parent = p, ![d].hashed = TRUE, ![p].count = @ + 1, ![q].count = @ - 1]
      /\ th' = th /\ i_lock' = i_lock
  BY <1>1 DEF Move, MayCall
<1>3. Alive(d) /\ q \in Dentries /\ q # d /\ dn[d].count \in Nat /\ dn[d].mem = "live"
  <2>1. Alive(d)
    BY <1>2, AliveIs
  <2> QED
    BY <1>1, <2>1, Values DEF ShapeOf
<1>4. p # d
  BY <1>2 DEF NotBelow
<1>5. Child(d, q)
  BY <1>1, <1>3 DEF Child
<1>6. Alive(p) /\ Alive(q) /\ dn[p].count \in Nat /\ dn[q].count \in Nat
  BY <1>2, <1>3, AliveIs, Values
<1>7. dn[q].count >= 1 + Mount(q)
  BY <1>3, <1>5, OwesInIs
<1>8. dn[q].count - 1 \in Nat
  BY <1>6, <1>7 DEF Mount
<1>9. PICK m : m = MovedTo(dn[d], p)
  OBVIOUS
<1>10. m \in Dentry /\ m.parent = p /\ m.mem = "live" /\ m.count = dn[d].count /\ m.inode = dn[d].inode
       /\ m.lru = dn[d].lru /\ m.may_free = dn[d].may_free
  <2>1. dn[d] \in Dentry
    BY Values
  <2> QED
    BY <1>3, <1>9, <2>1, MovedIs
<1>11. PICK r : r = WithCount(dn[p], dn[p].count + 1)
  OBVIOUS
<1>12. r \in Dentry /\ r.count = dn[p].count + 1 /\ r.parent = dn[p].parent
  <2>1. dn[p] \in Dentry /\ dn[p].count + 1 \in Int
    BY <1>6, Values
  <2> QED
    BY <1>11, <2>1, CountedIs
<1>13. PICK k : k = WithCount(dn[q], dn[q].count - 1)
  OBVIOUS
<1>14. k \in Dentry /\ k.count = dn[q].count - 1 /\ k.parent = dn[q].parent
  <2>1. dn[q] \in Dentry /\ dn[q].count - 1 \in Int
    BY <1>3, <1>6, Values
  <2> QED
    BY <1>13, <2>1, CountedIs
<1>15. dn' = [dn EXCEPT ![d] = m, ![p] = r, ![q] = k]
  <2>1. PICK f : f = [dn EXCEPT ![d] = m]
    OBVIOUS
  <2>2. f = [dn EXCEPT ![d].parent = p, ![d].hashed = TRUE]
    BY <1>9, <2>1 DEF MovedTo, RefsInv, Typed, DnTyped
  <2>3. f[p] = dn[p] /\ f[q] = dn[q]
    BY <1>3, <1>4, <2>1 DEF RefsInv, Typed, DnTyped
  <2>4. dn' = [f EXCEPT ![p].count = f[p].count + 1, ![q].count = f[q].count - 1]
    BY <1>2, <1>3, <1>4, <2>2, <2>3 DEF RefsInv, Typed, DnTyped
  <2>5. dn' = [f EXCEPT ![p] = r, ![q] = k]
    BY <1>2, <1>11, <1>13, <2>3, <2>4 DEF WithCount
  <2> QED
    BY <2>1, <2>5
<1>16. dn'[d] = m /\ dn'[p] = r /\ dn'[q] = k /\ (\A x \in Dentries \ {d, p, q} : dn'[x] = dn[x])
       /\ dn' \in [Dentries -> Dentry]
  <2>1. p # q /\ q # d /\ p # d /\ m \in Dentry /\ r \in Dentry /\ k \in Dentry /\ q \in Dentries
    BY <1>2, <1>3, <1>4, <1>10, <1>12, <1>14
  <2>2. dn \in [Dentries -> Dentry]
    BY DEF RefsInv, Typed, DnTyped
  <2> QED
    BY <1>15, <2>1, <2>2
<1>17. PICK R : R = th[t].refs
  OBVIOUS
<1>18. R \in SUBSET Dentries /\ th' = [th EXCEPT ![t] = Back(th[t], R)]
  <2>1. R \in SUBSET Dentries
    BY <1>17, RefsType
  <2>2. Back(th[t], R) = [th[t] EXCEPT !.refs = R]
    BY <1>2, <2>1, StaysIdle
  <2>3. [th[t] EXCEPT !.refs = th[t].refs] = th[t]
    BY DEF RefsInv, Typed, ThTyped, Thread
  <2> QED
    BY <1>2, <1>17, <2>1, <2>2, <2>3 DEF RefsInv, Typed, ThTyped
<1>19. ASSUME NEW x \in Dentries
       PROVE  Uses(dn'[x]) - Uses(dn[x]) = One(x \in R) - One(x \in th[t].refs)
                + One(ChildIn(dn'[d], d, x)) - One(ChildIn(dn[d], d, x))
  <2>1. (ChildIn(dn[d], d, x) <=> x = q) /\ (ChildIn(dn'[d], d, x) <=> x = p)
    BY <1>1, <1>3, <1>4, <1>10, <1>16 DEF ChildIn, Alive
  <2>2. /\ Uses(dn[x]) \in Int /\ Uses(r) = dn[p].count + 1 /\ Uses(dn[p]) = dn[p].count /\ Uses(m) = Uses(dn[d])
        /\ Uses(k) = dn[q].count - 1 /\ Uses(dn[q]) = dn[q].count
    BY <1>6, <1>8, <1>10, <1>12, <1>14 DEF Uses, Dead, Alive, RefsInv, Typed, DnTyped, Dentry
  <2> HIDE DEF Uses, ChildIn
  <2>3. CASE x = p
    BY <1>2, <1>6, <1>16, <1>17, <2>1, <2>2, <2>3 DEF One
  <2>4. CASE x = q
    <3>1. p # q
      BY <1>2
    <3>2. Uses(dn'[x]) = dn[q].count - 1 /\ Uses(dn[x]) = dn[q].count
      BY <1>16, <2>2, <2>4
    <3>3. One(ChildIn(dn'[d], d, x)) = 0 /\ One(ChildIn(dn[d], d, x)) = 1
      BY <2>1, <2>4, <3>1 DEF One
    <3>4. One(x \in R) - One(x \in th[t].refs) = 0
      BY <1>17 DEF One
    <3>5. One(x \in R) \in Int /\ One(x \in th[t].refs) \in Int
      BY DEF One
    <3> HIDE DEF One
    <3> QED
      BY <1>6, <3>2, <3>3, <3>4, <3>5
  <2>5. CASE x = d
    BY <1>3, <1>4, <1>16, <1>17, <2>1, <2>2, <2>5 DEF One
  <2>6. CASE x \notin {d, p, q}
    BY <1>16, <1>17, <2>1, <2>2, <2>6 DEF One
  <2> QED
    BY <2>3, <2>4, <2>5, <2>6
<1>20. IdleChange(t, d, R)
  <2>1. dn'[d].count # Dead
    BY <1>3, <1>10, <1>16 DEF Alive
  <2>2. ShapeOf(d, m)
    BY <1>3, <1>4, <1>10, Values DEF ShapeOf, Alive
  <2>3. \A x \in Dentries \ {d} : dn'[x] = dn[x] \/ (Alive(x) /\ \E n \in Nat : dn'[x] = WithCount(dn[x], n))
    <3>1. dn[p].count + 1 \in Nat
      BY <1>6
    <3> QED
      BY <1>6, <1>8, <1>11, <1>13, <1>16, <3>1
  <2> QED
    BY <1>2, <1>3, <1>10, <1>16, <1>18, <1>19, <2>1, <2>2, <2>3 DEF IdleChange
<1>21. Rooted'
  <2> SUFFICES ASSUME NEW S \in SUBSET Dentries, S # {}, \A x \in S : dn'[x].count # Dead /\ dn'[x].parent \in S
               PROVE  Root \in S
    BY DEF Rooted, Alive
  <2>1. \A x \in S : Alive(x) /\ (x # d => dn[x].parent = dn'[x].parent)
    BY <1>3, <1>6, <1>12, <1>14, <1>16 DEF Alive
  <2>2. CASE d \notin S
    BY <2>1, <2>2 DEF Rooted, RefsInv
  <2>3. CASE d \in S
    <3>1. PICK T \in SUBSET Dentries : p \in T /\ d \notin T /\ \A x \in T : dn[x].parent \in T
      BY <1>2 DEF NotBelow
    <3>2. p \in S
      BY <1>10, <1>16, <2>3
    <3>3. \A x \in S \cap T : Alive(x) /\ dn[x].parent \in S \cap T
      BY <2>1, <3>1
    <3>4. S \cap T # {} /\ S \cap T \in SUBSET Dentries
      BY <3>1, <3>2
    <3>5. Root \in S \cap T
      BY <3>3, <3>4 DEF Rooted, RefsInv
    <3> QED
      BY <3>5
  <2> QED
    BY <2>2, <2>3
<1> QED
  BY <1>20, <1>21, IdleChangeInv

-----------------------------------------------------------------------------
(* The shrinkers                                                           *)

\* The entry, perhaps on another list.
Relisted(v, r) ==
  /\ r \in Dentry /\ r.mem = v.mem /\ r.count = v.count /\ r.parent = v.parent /\ r.hashed = v.hashed
  /\ r.inode = v.inode /\ r.may_free = v.may_free /\ r.lru \in {"none", "lru", "shrink"}

LEMMA OnListIs ==
  ASSUME NEW v \in Dentry, NEW from, NEW to \in {"none", "lru", "shrink"}, v.lru = from,
         NEW r, r = OnList(v, from, to)
  PROVE  Relisted(v, r) /\ r.lru = to
<1>1. r = [v EXCEPT !.lru = to]
  BY DEF OnList
<1>2. to \in Lrus
  BY DEF Lrus
<1> QED
  BY <1>1, <1>2 DEF Relisted, Dentry

LEMMA DisposableIs ==
  ASSUME NEW v \in Dentry, v.lru \in {"none", "lru"}, NEW r, r = Disposable(v)
  PROVE  Relisted(v, r) /\ r.lru = IF v.count = 0 THEN "shrink" ELSE "none"
<1>1. PICK off : off = IF v.lru = "lru" THEN OnList(v, "lru", "none") ELSE v
  OBVIOUS
<1>2. Relisted(v, off) /\ off.lru = "none"
  <2>1. CASE v.lru = "lru"
    <3>1. off = OnList(v, "lru", "none") /\ "none" \in {"none", "lru", "shrink"}
      BY <1>1, <2>1
    <3> QED
      BY <2>1, <3>1, OnListIs
  <2>2. CASE v.lru = "none"
    BY <1>1, <2>2 DEF Relisted
  <2> QED
    BY <2>1, <2>2
<1>3. off \in Dentry /\ r = IF v.count = 0 THEN OnList(off, "none", "shrink") ELSE off
  BY <1>1, <1>2 DEF Disposable, Relisted
<1>4. CASE v.count = 0
  <2>1. r = OnList(off, "none", "shrink") /\ "shrink" \in {"none", "lru", "shrink"}
    BY <1>3, <1>4
  <2>2. Relisted(off, r) /\ r.lru = "shrink"
    BY <1>2, <1>3, <2>1, OnListIs
  <2> QED
    BY <1>2, <1>4, <2>2 DEF Relisted
<1>5. CASE v.count # 0
  BY <1>2, <1>3, <1>5
<1> QED
  BY <1>4, <1>5

\* A thread that walks, or may begin to.
Walker(t) ==
  /\ th[t].pc \in {"idle", "walk"} /\ (MayCall(t) \/ ~ At(t, "idle") \/ th[t].unmounts)

LEMMA WalkerIs ==
  ASSUME NEW t \in Threads, RefsInv, Walker(t)
  PROVE  /\ th[t].d = Nobody /\ th[t].p = Nobody /\ th[t].i = Nobody /\ th[t].pc # "killed"
         /\ th[t].unmounts => th[t].refs = {}
         /\ \A x : ~ OwesIn(th[t], x)
<1>1. AtPlace(th[t]) /\ th[t].pc \in {"idle", "walk"}
  BY Values DEF Walker
<1>2. th[t].d = Nobody /\ th[t].p = Nobody /\ th[t].i = Nobody
  BY <1>1 DEF AtPlace, Nowhere, NoParent, NoInode
<1>3. th[t].unmounts => th[t].refs = {}
  BY DEF RefsInv, Unmounting, AloneIn
<1> QED
  BY <1>1, <1>2, <1>3 DEF OwesIn

\* Wherever the walk begins.
LEMMA WalksIs ==
  ASSUME NEW t \in Threads, NEW op, Walks(t, op)
  PROVE  Walker(t)
  BY DEF Walks, Walker, MayCall, At

LEMMA VisitsInv ==
  ASSUME NEW t \in Threads, NEW op \in Ops, NEW d \in Dentries \ {Root}, NEW r, RefsInv, Walker(t),
         Alive(d), dn[d].lru # "shrink", Relisted(dn[d], r), Visits(t, op, d, r)
  PROVE  RefsInv'
<1>1. PICK w : w = th[t]
  OBVIOUS
<1>2. w \in Thread /\ w.d = Nobody /\ w.p = Nobody /\ w.i = Nobody /\ (w.unmounts => w.refs = {})
      /\ (\A x : ~ OwesIn(w, x)) /\ w.pc # "killed"
  BY <1>1, Values, WalkerIs
<1>3. PICK l : l = IF r.lru = "shrink" THEN Append(w.list, d) ELSE w.list
  OBVIOUS
<1>4. l \in Seq(Dentries)
  <2>1. w.list \in Seq(Dentries)
    BY <1>2 DEF Thread
  <2> QED
    BY <1>3, <2>1
<1>5. PICK s : s = [w EXCEPT !.pc = "walk", !.op = op, !.list = l]
  OBVIOUS
<1>6. dn' = [dn EXCEPT ![d] = r] /\ th' = [th EXCEPT ![t] = s] /\ i_lock' = i_lock
  BY <1>1, <1>3, <1>5 DEF Visits
<1>7. s \in Thread /\ s.pc = "walk" /\ s.op = op /\ s.d = Nobody /\ s.p = Nobody /\ s.i = Nobody
      /\ s.list = l /\ s.refs = w.refs /\ s.unmounts = w.unmounts
  BY <1>2, <1>4, <1>5 DEF Thread, Pcs
<1>8. AtPlace(s) /\ \A x : ~ OwesIn(s, x)
  BY <1>7 DEF AtPlace, NoList, Nowhere, NoParent, NoInode, OwesIn
<1>9. Becomes(t, d, r)
  <2>1. ShapeOf(d, r) /\ r.count # Dead
    <3>1. ShapeOf(d, dn[d]) /\ dn[d].count # Dead
      BY Values DEF Alive
    <3> QED
      BY <3>1 DEF Relisted, ShapeOf
  <2> QED
    BY <1>6, <2>1 DEF Becomes, Relisted
<1>10. \A x \in Dentries :
         (IF x = d THEN Uses(r) - Uses(dn[d]) ELSE 0) =
           One(x \in s.refs) - One(x \in w.refs) + One(OwesIn(s, x)) - One(OwesIn(w, x))
  <2>1. Uses(r) - Uses(dn[d]) = 0
    BY DEF Relisted, Uses, Dentry, Dead
  <2> QED
    BY <1>2, <1>7, <1>8, <2>1 DEF One
<1>11. Locks(t)
  BY <1>6, LocksKept DEF RefsInv, Typed
<1>12. \/ (r.lru = "shrink" <=> dn[d].lru = "shrink") /\ s.list = th[t].list
       \/ dn[d].lru # "shrink" /\ r.lru = "shrink" /\ s.list = Append(th[t].list, d)
  BY <1>1, <1>3, <1>7
<1>13. th[t].unmounts => AloneIn(s)
  BY <1>1, <1>2, <1>7 DEF AloneIn, UnmountPcs
<1>14. Touch(t, d, r, s)
  BY <1>1, <1>2, <1>6, <1>7, <1>8, <1>9, <1>10, <1>11, <1>12, <1>13 DEF Touch, NotFree, Walker
<1> QED
  BY <1>14, TouchKeepsInv

LEMMA IsolateInv ==
  ASSUME NEW t \in Threads, NEW d \in Dentries \ {Root}, RefsInv, Isolate(t, d) \/ IsolateAll(t, d)
  PROVE  RefsInv'
<1>1. PICK v : v = dn[d]
  OBVIOUS
<1>2. v.lru = "lru" /\ v \in Dentry /\ ShapeOf(d, v)
  BY <1>1, Values DEF Isolate, IsolateAll
<1>3. Alive(d) /\ v.lru # "shrink"
  BY <1>1, <1>2 DEF ShapeOf, Alive
<1>4. CASE Isolate(t, d)
  <2>1. PICK r : r = IF v.count # 0 THEN OnList(v, "lru", "none")
                     ELSE IF v.referenced THEN [v EXCEPT !.referenced = FALSE]
                     ELSE OnList(v, "lru", "shrink")
    OBVIOUS
  <2>2. Relisted(v, r)
    <3>1. CASE r = OnList(v, "lru", "none")
      <4>1. "none" \in {"none", "lru", "shrink"}
        OBVIOUS
      <4> QED
        BY <1>2, <3>1, <4>1, OnListIs
    <3>2. CASE r = [v EXCEPT !.referenced = FALSE]
      BY <1>2, <3>2 DEF Relisted, Dentry
    <3>3. CASE r = OnList(v, "lru", "shrink")
      <4>1. "shrink" \in {"none", "lru", "shrink"}
        OBVIOUS
      <4> QED
        BY <1>2, <3>3, <4>1, OnListIs
    <3> QED
      BY <2>1, <3>1, <3>2, <3>3
  <2>3. Visits(t, "prune", d, r) /\ Walker(t)
    BY <1>1, <1>4, <2>1, WalksIs DEF Isolate
  <2>4. "prune" \in Ops
    BY DEF Ops
  <2> QED
    BY <1>1, <1>3, <2>2, <2>3, <2>4, VisitsInv
<1>5. CASE IsolateAll(t, d)
  <2>1. PICK r : r = OnList(v, "lru", "shrink")
    OBVIOUS
  <2>2. "shrink" \in {"none", "lru", "shrink"} /\ "all" \in Ops
    BY DEF Ops
  <2>3. Relisted(v, r)
    BY <1>2, <2>1, <2>2, OnListIs
  <2>4. Visits(t, "all", d, r) /\ Walker(t)
    BY <1>1, <1>5, <2>1, WalksIs DEF IsolateAll
  <2> QED
    BY <1>1, <1>3, <2>2, <2>3, <2>4, VisitsInv
<1> QED
  BY <1>4, <1>5

LEMMA CollectInv ==
  ASSUME NEW t \in Threads, NEW d \in Dentries \ {Root}, RefsInv, Collect(t, d)
  PROVE  RefsInv'
<1>1. PICK v : v = dn[d]
  OBVIOUS
<1>2. v.lru # "shrink" /\ v \in Dentry /\ ShapeOf(d, v) /\ Alive(d)
  BY <1>1, Values DEF Collect, Alive
<1>3. v.lru \in {"none", "lru"}
  BY <1>2 DEF ShapeOf, Dentry, Lrus
<1>4. PICK r : r = Disposable(v)
  OBVIOUS
<1>5. Relisted(v, r)
  BY <1>2, <1>3, <1>4, DisposableIs
<1>6. Visits(t, "parent", d, r) /\ Walker(t)
  BY <1>1, <1>4, WalksIs DEF Collect
<1>7. "parent" \in Ops
  BY DEF Ops
<1> QED
  BY <1>1, <1>2, <1>5, <1>6, <1>7, VisitsInv

\* A thread that goes on to dispose of something.
LEMMA MovesOn ==
  ASSUME NEW t \in Threads, RefsInv, NEW s \in Thread, Walker(t), dn' = dn, i_lock' = i_lock,
         th' = [th EXCEPT ![t] = s], s.list = th[t].list, s.refs = th[t].refs, s.unmounts = th[t].unmounts,
         s.pc \in {"dispose", "steal"}, AtPlace(s), NotFree(s.d), s.p = Nobody
  PROVE  RefsInv'
<1>1. /\ th[t].pc # "killed" /\ (th[t].unmounts => th[t].refs = {})
      /\ \A x : ~ OwesIn(th[t], x)
  BY WalkerIs
<1>2. Locks(t)
  BY LocksKept DEF RefsInv, Typed
<1>3. \A x : ~ OwesIn(s, x)
  BY DEF OwesIn
<1>4. \A x \in Dentries : One(x \in s.refs) + One(OwesIn(s, x)) = One(x \in th[t].refs) + One(OwesIn(th[t], x))
  BY <1>1, <1>3 DEF One
<1>5. th[t].unmounts => AloneIn(s)
  BY <1>1 DEF AloneIn, UnmountPcs
<1>6. /\ s.pc \notin {"killed", "check"} /\ s.pc \notin {"kill inode", "kill parent"}
      /\ s.pc \notin {"kill parent", "shrink parent"}
  OBVIOUS
<1>7. MovesTo(t, s)
  BY <1>1, <1>2, <1>4, <1>5, <1>6 DEF MovesTo, NotFree, Walker
<1> QED
  BY <1>7, MovesKeepsInv

LEMMA WalkedInv ==
  ASSUME NEW t \in Threads, RefsInv, Walked(t)
  PROVE  RefsInv'
<1>1. PICK w : w = th[t]
  OBVIOUS
<1>2. Walker(t) /\ ~ At(t, "idle") /\ w \in Thread /\ w.pc = "walk" /\ dn' = dn /\ i_lock' = i_lock
  BY <1>1, Values DEF Walked, Walker, At
<1>3. w.d = Nobody /\ w.p = Nobody /\ w.i = Nobody /\ w.pc # "killed" /\ \A x : ~ OwesIn(w, x)
  BY <1>1, <1>2, WalkerIs
<1>4. CASE w.list = <<>>
  <2>1. th' = [th EXCEPT ![t] = Returned(th[t])]
    BY <1>1, <1>4 DEF Walked
  <2>2. Locks(t)
    BY <1>2, LocksKept DEF RefsInv, Typed
  <2> QED
    BY <1>1, <1>2, <1>3, <1>4, <2>1, <2>2, JustReturns
<1>5. CASE w.list # <<>>
  <2>1. PICK s : s = [w EXCEPT !.pc = "dispose", !.op = "dispose"]
    OBVIOUS
  <2>2. th' = [th EXCEPT ![t] = s]
    BY <1>1, <1>5, <2>1 DEF Walked
  <2>3. s \in Thread /\ s.pc = "dispose" /\ s.op = "dispose" /\ s.d = Nobody /\ s.p = Nobody /\ s.i = Nobody
        /\ s.list = w.list /\ s.refs = w.refs /\ s.unmounts = w.unmounts
    BY <1>2, <1>3, <2>1 DEF Thread, Pcs, Ops
  <2>4. AtPlace(s) /\ NotFree(s.d)
    BY <2>3 DEF AtPlace, NoList, Nowhere, NoParent, NoInode, NotFree
  <2> QED
    BY <1>1, <1>2, <2>2, <2>3, <2>4, MovesOn
<1> QED
  BY <1>4, <1>5

LEMMA DisposedInv ==
  ASSUME NEW t \in Threads, RefsInv, Disposed(t)
  PROVE  RefsInv'
<1>1. Locks(t)
  BY LocksKept DEF Disposed, RefsInv, Typed
<1>2. th[t].pc = "dispose" /\ th[t].op = "dispose"
  BY Values DEF Disposed, At, AtPlace
<1>3. \A x : ~ OwesIn(th[t], x)
  BY <1>2 DEF OwesIn
<1>4. ~ At(t, "idle") /\ th[t].pc # "killed"
  BY <1>2 DEF At
<1> QED
  BY <1>1, <1>3, <1>4, JustReturns DEF Disposed

LEMMA VictimInv ==
  ASSUME NEW t \in Threads, NEW d \in Dentries \ {Root}, RefsInv, Victim(t, d)
  PROVE  RefsInv'
<1>1. PICK w : w = th[t]
  OBVIOUS
<1>2. Walker(t) /\ w \in Thread /\ dn' = dn /\ i_lock' = i_lock
  BY <1>1, Values, WalksIs DEF Victim
<1>3. w.d = Nobody /\ w.p = Nobody /\ w.i = Nobody
  BY <1>1, <1>2, WalkerIs
<1>4. PICK s : s = [w EXCEPT !.pc = "steal", !.op = "steal", !.d = d]
  OBVIOUS
<1>5. th' = [th EXCEPT ![t] = s]
  BY <1>1, <1>4 DEF Victim
<1>6. s \in Thread /\ s.pc = "steal" /\ s.op = "steal" /\ s.d = d /\ s.p = Nobody /\ s.i = Nobody
      /\ s.list = w.list /\ s.refs = w.refs /\ s.unmounts = w.unmounts
  BY <1>2, <1>3, <1>4 DEF Thread, Pcs, Ops
<1>7. d # Nobody
  BY Values
<1>8. AtPlace(s)
  BY <1>6, <1>7 DEF AtPlace, NoList, Nowhere, NoParent, NoInode
<1>9. NotFree(d)
  <2>1. dn[d].lru = "shrink" /\ ShapeOf(d, dn[d])
    BY Values DEF Victim
  <2> QED
    BY <2>1 DEF ShapeOf, NoDentry, NotFree
<1> QED
  BY <1>1, <1>2, <1>5, <1>6, <1>8, <1>9, MovesOn

\* The thread shrinks the entry d, which is the first of its list or that of another.
Shrinks(t, d) ==
  /\ th[t].pc \in {"dispose", "steal", "shrink inode", "shrink parent", "shrink out"}
  /\ d \in Dentries /\ NotFree(d)
  /\ IF th[t].op = "dispose" THEN th[t].list # <<>> /\ Head(th[t].list) = d ELSE th[t].op = "steal"

LEMMA ShrinksIs ==
  ASSUME NEW t \in Threads, NEW d \in Dentries, RefsInv, Shrinks(t, d)
  PROVE  /\ ~ At(t, "idle") /\ th[t].pc # "killed" /\ (th[t].unmounts => th[t].refs = {})
         /\ \A x : ~ OwesIn(th[t], x)
         /\ \A u \in Threads \ {t} : ~ th[u].unmounts
         /\ th[t].list \in Seq(Dentries) /\ Once(th[t].list)
         /\ \A x \in Dentries : InSeq(th[t].list, x) => dn[x].lru = "shrink"
         /\ th[t].op = "dispose" => dn[d].lru = "shrink" /\ d # Root
<1>1. ~ At(t, "idle") /\ th[t].pc # "killed" /\ \A x : ~ OwesIn(th[t], x)
  BY DEF Shrinks, At, OwesIn
<1>2. th[t].unmounts => th[t].refs = {}
  BY DEF RefsInv, Unmounting, AloneIn
<1>3. \A u \in Threads \ {t} : ~ th[u].unmounts
  BY <1>1, NoOtherUnmounts DEF RefsInv
<1>4. th[t].list \in Seq(Dentries) /\ Once(th[t].list)
  BY Values DEF Thread, RefsInv, Listed
<1>5. \A x \in Dentries : InSeq(th[t].list, x) => dn[x].lru = "shrink"
  BY DEF RefsInv, Listed, InList
<1>6. th[t].op = "dispose" => dn[d].lru = "shrink"
  <2>1. th[t].op = "dispose" => th[t].list # <<>> /\ Head(th[t].list) = d
    BY DEF Shrinks
  <2> QED
    BY <1>4, <1>5, <2>1, TailOnce
<1>7. dn[d].lru = "shrink" => d # Root
  BY Values DEF ShapeOf
<1> QED
  BY <1>1, <1>2, <1>3, <1>4, <1>5, <1>6, <1>7

\* Wherever a thread shrinks an entry.
LEMMA ShrinksAt ==
  ASSUME NEW t \in Threads, RefsInv
  PROVE  /\ At(t, "dispose") /\ th[t].list # <<>> => Shrinks(t, Head(th[t].list))
         /\ th[t].pc \in {"steal", "shrink inode", "shrink parent", "shrink out"} => Shrinks(t, th[t].d)
<1>1. AtPlace(th[t]) /\ NotFree(th[t].d) /\ th[t] \in Thread
  BY Values DEF InPlace
<1>2. ASSUME At(t, "dispose"), th[t].list # <<>>
      PROVE  Shrinks(t, Head(th[t].list))
  <2>1. th[t].op = "dispose" /\ th[t].pc = "dispose"
    BY <1>1, <1>2 DEF At, AtPlace
  <2>2. Head(th[t].list) \in Dentries /\ InSeq(th[t].list, Head(th[t].list))
    BY <1>1, <1>2, TailOnce DEF Thread, RefsInv, Listed
  <2>3. dn[Head(th[t].list)].lru = "shrink"
    BY <2>2 DEF RefsInv, Listed, InList
  <2>4. NotFree(Head(th[t].list))
    BY <2>2, <2>3, Values DEF ShapeOf, NoDentry, NotFree
  <2> QED
    BY <1>2, <2>1, <2>2, <2>4 DEF Shrinks
<1>3. ASSUME th[t].pc \in {"steal", "shrink inode", "shrink parent", "shrink out"}
      PROVE  Shrinks(t, th[t].d)
  <2>1. th[t].d \in Dentries
    BY <1>1, <1>3 DEF AtPlace, Nowhere, Thread
  <2>2. Own(th[t])
    BY <1>1, <1>3 DEF AtPlace, Own
  <2> QED
    BY <1>1, <1>3, <2>1, <2>2 DEF Shrinks, Own
<1> QED
  BY <1>2, <1>3

\* The entry that leaves the list of its owner, who may have to free it.
KickedOut(v) == OnList([v EXCEPT !.mem = IF Left(v) THEN "rcu" ELSE v.mem], "shrink", "none")

LEMMA KickedIs ==
  ASSUME NEW v \in Dentry, v.lru = "shrink", NEW k, k = KickedOut(v)
  PROVE  /\ k \in Dentry /\ k.count = v.count /\ k.parent = v.parent /\ k.hashed = v.hashed /\ k.inode = v.inode
         /\ k.may_free = v.may_free /\ k.lru = "none" /\ k.mem = IF Left(v) THEN "rcu" ELSE v.mem
<1>1. PICK m : m = IF Left(v) THEN "rcu" ELSE v.mem
  OBVIOUS
<1>2. m \in {"free", "live", "rcu"}
  BY <1>1 DEF Dentry
<1>3. k = [v EXCEPT !.mem = m, !.lru = "none"]
  BY <1>1 DEF KickedOut, OnList, Dentry
<1>4. "none" \in Lrus
  BY DEF Lrus
<1> QED
  BY <1>1, <1>2, <1>3, <1>4 DEF Dentry

LEMMA KicksInv ==
  ASSUME NEW t \in Threads, NEW d \in Dentries, RefsInv, Shrinks(t, d), Kicks(t, d)
  PROVE  RefsInv'
<1>1. PICK w : w = th[t]
  OBVIOUS
<1>2. w \in Thread
  BY <1>1, Values
<1>3. /\ ~ At(t, "idle") /\ w.pc # "killed" /\ (w.unmounts => w.refs = {})
      /\ \A x : ~ OwesIn(w, x)
      /\ \A u \in Threads \ {t} : ~ th[u].unmounts
      /\ w.list \in Seq(Dentries) /\ Once(w.list)
      /\ \A x \in Dentries : InSeq(w.list, x) => dn[x].lru = "shrink"
      /\ w.op = "dispose" => dn[d].lru = "shrink" /\ d # Root
  BY <1>1, ShrinksIs
<1>4. Locks(t)
  BY LocksReleased DEF Kicks, RefsInv, Typed
<1>5. ASSUME NEW l \in Seq(Dentries), NEW s, s = [w EXCEPT !.pc = "dispose", !.op = "dispose", !.d = Nobody, !.p = Nobody,
                                                 !.i = Nobody, !.list = l]
      PROVE  /\ s \in Thread /\ s.pc = "dispose" /\ s.op = "dispose" /\ s.d = Nobody /\ s.p = Nobody /\ s.i = Nobody
             /\ s.list = l /\ s.refs = w.refs /\ s.unmounts = w.unmounts
             /\ AtPlace(s) /\ (w.unmounts => AloneIn(s)) /\ \A x : ~ OwesIn(s, x)
  <2>1. /\ s \in Thread /\ s.pc = "dispose" /\ s.op = "dispose" /\ s.d = Nobody /\ s.p = Nobody /\ s.i = Nobody
        /\ s.list = l /\ s.refs = w.refs /\ s.unmounts = w.unmounts
    BY <1>2, <1>5 DEF Thread, Pcs, Ops
  <2>2. AtPlace(s)
    BY <2>1 DEF AtPlace, NoList, Nowhere, NoParent, NoInode
  <2>3. w.unmounts => AloneIn(s)
    BY <1>3, <2>1 DEF AloneIn, UnmountPcs
  <2>4. \A x : ~ OwesIn(s, x)
    BY <2>1 DEF OwesIn
  <2> QED
    BY <2>1, <2>2, <2>3, <2>4
<1>6. CASE w.op # "dispose"
  <2>1. PICK s : s = [w EXCEPT !.pc = "dispose", !.op = "dispose", !.d = Nobody, !.p = Nobody, !.i = Nobody, !.list = w.list]
    OBVIOUS
  <2>2. s = [w EXCEPT !.pc = "dispose", !.op = "dispose", !.d = Nobody, !.p = Nobody, !.i = Nobody]
    BY <1>2, <2>1 DEF Thread
  <2>3. th' = [th EXCEPT ![t] = s] /\ dn' = dn
    BY <1>1, <1>6, <2>2 DEF Kicks
  <2>4. /\ s \in Thread /\ s.pc = "dispose" /\ s.d = Nobody /\ s.p = Nobody /\ s.i = Nobody
        /\ s.list = w.list /\ s.refs = w.refs /\ s.unmounts = w.unmounts
        /\ AtPlace(s) /\ (w.unmounts => AloneIn(s)) /\ \A x : ~ OwesIn(s, x)
    BY <1>3, <1>5, <2>1
  <2>5. \A x \in Dentries : One(x \in s.refs) + One(OwesIn(s, x)) = One(x \in w.refs) + One(OwesIn(w, x))
    BY <1>3, <2>4 DEF One
  <2>6. MovesTo(t, s)
    BY <1>1, <1>3, <1>4, <2>3, <2>4, <2>5 DEF MovesTo, NotFree
  <2> QED
    BY <2>6, MovesKeepsInv
<1>7. CASE w.op = "dispose"
  <2>1. w.list # <<>> /\ Head(w.list) = d
    BY <1>1, <1>7 DEF Shrinks
  <2>2. PICK l : l = Tail(w.list)
    OBVIOUS
  <2>3. l \in Seq(Dentries) /\ Once(l) /\ \A x : InSeq(l, x) <=> InSeq(w.list, x) /\ x # d
    BY <1>3, <2>1, <2>2, TailOnce
  <2>4. PICK s : s = [w EXCEPT !.pc = "dispose", !.op = "dispose", !.d = Nobody, !.p = Nobody, !.i = Nobody, !.list = l]
    OBVIOUS
  <2>5. /\ s \in Thread /\ s.pc = "dispose" /\ s.d = Nobody /\ s.p = Nobody /\ s.i = Nobody
        /\ s.list = l /\ s.refs = w.refs /\ s.unmounts = w.unmounts
        /\ AtPlace(s) /\ (w.unmounts => AloneIn(s)) /\ \A x : ~ OwesIn(s, x)
    BY <1>5, <2>3, <2>4
  <2>6. PICK v : v = dn[d]
    OBVIOUS
  <2>7. v \in Dentry /\ ShapeOf(d, v) /\ v.lru = "shrink" /\ v.mem = "live"
    <3>1. v \in Dentry /\ ShapeOf(d, v) /\ v.lru = "shrink"
      BY <1>3, <1>7, <2>6, Values
    <3> QED
      BY <3>1 DEF ShapeOf, Dentry, NoDentry
  <2>8. PICK k : k = KickedOut(v)
    OBVIOUS
  <2>9. /\ k \in Dentry /\ k.count = v.count /\ k.parent = v.parent /\ k.hashed = v.hashed /\ k.inode = v.inode
        /\ k.may_free = v.may_free /\ k.lru = "none" /\ k.mem = IF Left(v) THEN "rcu" ELSE "live"
    BY <2>7, <2>8, KickedIs
  <2>10. dn' = [dn EXCEPT ![d] = k] /\ th' = [th EXCEPT ![t] = s]
    <3>1. dn' = [dn EXCEPT ![d] = k]
      BY <1>1, <1>7, <2>6, <2>8 DEF Kicks, KickedOut
    <3>2. s = [w EXCEPT !.pc = "dispose", !.d = Nobody, !.p = Nobody, !.i = Nobody, !.list = l]
      BY <1>2, <1>7, <2>4 DEF Thread
    <3>3. th' = [th EXCEPT ![t].pc = "dispose", ![t].d = Nobody, ![t].p = Nobody, ![t].i = Nobody, ![t].list = Tail(@)]
      BY <1>1, <1>7 DEF Kicks
    <3> QED
      BY <1>1, <2>2, <3>1, <3>2, <3>3
  <2>11. dn'[d] = k /\ (\A x \in Dentries \ {d} : dn'[x] = dn[x]) /\ th'[t] = s
    BY <2>10 DEF RefsInv, Typed, DnTyped, ThTyped
  <2>12. Frame(t)
    BY <2>10 DEF Frame, RefsInv, Typed, ThTyped
  <2>13. Typed'
    BY <1>4, <2>5, <2>9, <2>10 DEF RefsInv, Typed, DnTyped, ThTyped, Locks
  <2>14. Balance(t, d)
    <3>1. \A x \in Dentries : Uses(dn'[x]) = Uses(dn[x]) /\ Uses(dn[x]) \in Int
      BY <2>6, <2>9, <2>11 DEF Uses, RefsInv, Typed, DnTyped, Dentry
    <3>2. \A x \in Dentries : ChildIn(dn'[d], d, x) <=> ChildIn(dn[d], d, x)
      BY <2>6, <2>9, <2>11 DEF ChildIn
    <3>3. \A x \in Dentries :
            Uses(dn'[x]) - Uses(dn[x]) =
               One(x \in th'[t].refs) - One(x \in th[t].refs)
             + One(OwesIn(th'[t], x)) - One(OwesIn(th[t], x))
             + One(ChildIn(dn'[d], d, x)) - One(ChildIn(dn[d], d, x))
      <4> HIDE DEF Uses, OwesIn, ChildIn
      <4> QED
        BY <1>1, <1>3, <2>5, <2>11, <3>1, <3>2 DEF One
    <3> QED
      BY <2>11, <3>3 DEF Balance
  <2>15. Shapes'
    <3>1. ShapeOf(d, k)
      BY <1>3, <1>7, <2>7, <2>9 DEF ShapeOf, Left
    <3>2. \A x \in Dentries : ShapeOf(x, dn'[x])
      BY <2>11, <3>1 DEF RefsInv, Shapes
    <3> QED
      BY <3>2 DEF Shapes
  <2>16. Lists(t)
    <3>1. dn'[d].lru = "none" /\ \A x \in Dentries \ {d} : dn'[x].lru = dn[x].lru
      BY <2>9, <2>11
    <3>2. InSeq(w.list, d)
      BY <1>3, <2>1, TailOnce
    <3> QED
      BY <1>1, <1>3, <2>3, <2>5, <2>11, <3>1, <3>2 DEF Lists
  <2>17. Keeps(t)
    <3>1. \A x \in Dentries : dn'[x].inode = dn[x].inode /\ (dn[x].mem # "free" => dn'[x].mem # "free")
      BY <2>6, <2>9, <2>11
    <3>2. \A x \in Dentries : Unburied(x) => dn'[x].mem = "live" /\ dn'[x].count = Dead /\ ~ dn'[x].may_free
      BY <2>6, <2>9, <2>11 DEF Unburied, Left
    <3> QED
      BY <1>4, <3>1, <3>2 DEF Keeps, Locks
  <2>18. InPlace(t)'
    BY <2>5, <2>11 DEF InPlace, NotFree
  <2>19. Buries(t)
    <3>1. ASSUME NEW x \in Dentries, dn'[x].mem = "live", dn'[x].count = Dead
          PROVE  (dn'[x].lru = "shrink" /\ dn'[x].may_free) \/ Unburied(x)
      <4>1. CASE x = d
        BY <2>6, <2>7, <2>9, <2>11, <3>1, <4>1 DEF Unburied, Left
      <4>2. CASE x # d
        <5>1. dn'[x] = dn[x] /\ ShapeOf(x, dn[x])
          BY <2>11, <4>2, Values
        <5> QED
          BY <3>1, <5>1 DEF Unburied, ShapeOf
      <4> QED
        BY <4>1, <4>2
    <3> QED
      BY <1>1, <1>3, <2>5, <2>11, <3>1 DEF Buries
  <2>20. Rooted'
    <3>1. \A x \in Dentries : dn'[x].count # Dead => Alive(x) /\ dn'[x].parent = dn[x].parent
      BY <2>6, <2>9, <2>11 DEF Alive
    <3> QED
      BY <3>1, RootedStep DEF SameWays, RefsInv
  <2>21. Unmounts(t)
    BY <1>1, <1>3, <2>5, <2>11 DEF Unmounts
  <2>22. StepOK(t, d)
    BY <2>12, <2>13, <2>14, <2>15, <2>16, <2>17, <2>18, <2>19, <2>20, <2>21 DEF StepOK
  <2> QED
    BY <2>22, StepKeepsInv
<1> QED
  BY <1>6, <1>7

\* The thread has a lock, or the next thing to wait for.
ShrinkMoves(t, d, s) ==
  /\ s \in Thread /\ dn' = dn /\ th' = [th EXCEPT ![t] = s] /\ Locks(t)
  /\ s.pc \in {"shrink inode", "shrink parent", "shrink out", "unlocked"} /\ AtPlace(s)
  /\ s.d = d /\ NotFree(s.p) /\ s.op = th[t].op /\ s.list = th[t].list /\ s.refs = th[t].refs
  /\ s.unmounts = th[t].unmounts
  /\ s.pc = "shrink parent" /\ s.i # Nobody => i_lock'[s.i] = t

LEMMA ShrinkMovesInv ==
  ASSUME NEW t \in Threads, NEW d \in Dentries, RefsInv, Shrinks(t, d), NEW s, ShrinkMoves(t, d, s)
  PROVE  RefsInv'
<1>1. /\ ~ At(t, "idle") /\ th[t].pc # "killed" /\ (th[t].unmounts => th[t].refs = {})
      /\ \A x : ~ OwesIn(th[t], x)
  BY ShrinksIs
<1>2. \A x : ~ OwesIn(s, x)
  BY DEF ShrinkMoves, OwesIn
<1>3. \A x \in Dentries : One(x \in s.refs) + One(OwesIn(s, x)) = One(x \in th[t].refs) + One(OwesIn(th[t], x))
  BY <1>1, <1>2 DEF One, ShrinkMoves
<1>4. th[t].unmounts => AloneIn(s)
  BY <1>1 DEF AloneIn, UnmountPcs, ShrinkMoves
<1>5. NotFree(s.d)
  BY DEF Shrinks, ShrinkMoves
<1>6. /\ s.pc \notin {"killed", "check"} /\ s.pc \notin {"kill inode", "kill parent"}
      /\ (s.pc \in {"kill parent", "shrink parent"} => s.pc = "shrink parent")
  BY DEF ShrinkMoves
<1>7. MovesTo(t, s)
  BY <1>1, <1>3, <1>4, <1>5, <1>6 DEF MovesTo, ShrinkMoves
<1> QED
  BY <1>7, MovesKeepsInv

\* The parent of a dying entry, which loses a reference.
LEMMA PutToListIs ==
  ASSUME NEW p \in Dentries, RefsInv, Alive(p), dn[p].count >= 1 + Mount(p), NEW q, q = PutToList(dn[p])
  PROVE  /\ q \in Dentry /\ ShapeOf(p, q) /\ q.count = dn[p].count - 1 /\ q.count # Dead
         /\ q.parent = dn[p].parent /\ q.inode = dn[p].inode
         /\ (q.lru = "shrink" <=> dn[p].lru = "shrink" \/ PutsOnList(dn[p]))
<1>1. PICK y : y = dn[p]
  OBVIOUS
<1>2. y \in Dentry /\ ShapeOf(p, y) /\ y.count \in Nat /\ y.count # Dead
  BY <1>1, Values DEF Alive
<1>3. PICK n \in Int : n = y.count - 1
  BY <1>2
<1>4. PICK v : v = WithCount(y, n)
  OBVIOUS
<1>5. /\ v \in Dentry /\ v.count = y.count - 1 /\ v.mem = y.mem /\ v.parent = y.parent /\ v.hashed = y.hashed
      /\ v.inode = y.inode /\ v.lru = y.lru /\ v.may_free = y.may_free
  <2>1. y \in Dentry
    BY <1>2
  <2>2. /\ v \in Dentry /\ v.count = n /\ v.mem = y.mem /\ v.parent = y.parent /\ v.hashed = y.hashed
        /\ v.inode = y.inode /\ v.lru = y.lru /\ v.may_free = y.may_free
    BY <1>4, <2>1, CountedIs
  <2> QED
    BY <1>3, <2>2
<1>6. q = IF y.lru = "shrink" THEN v ELSE Disposable(v)
  BY <1>1, <1>3, <1>4, <1>5 DEF PutToList, WithCount
<1>7. y.count >= 1 + Mount(p)
  BY <1>1
<1>8. v.count \in Nat /\ v.count # Dead /\ (p = Root => v.count # 0)
  BY <1>2, <1>5, <1>7 DEF Mount, Dead
<1>9. CASE y.lru = "shrink"
  <2>1. ShapeOf(p, v)
    BY <1>2, <1>5, <1>8 DEF ShapeOf, NoDentry
  <2> QED
    BY <1>1, <1>5, <1>6, <1>8, <1>9, <2>1
<1>10. CASE y.lru # "shrink"
  <2>1. v.lru \in {"none", "lru"}
    BY <1>2, <1>5, <1>10 DEF ShapeOf, Dentry, Lrus
  <2>2. Relisted(v, q) /\ q.lru = IF v.count = 0 THEN "shrink" ELSE "none"
    BY <1>5, <1>6, <1>10, <2>1, DisposableIs
  <2>3. ShapeOf(p, q)
    BY <1>2, <1>5, <1>8, <2>2 DEF ShapeOf, Relisted
  <2>4. PutsOnList(y) <=> v.count = 0
    BY <1>2, <1>5, <1>10 DEF PutsOnList
  <2> QED
    BY <1>1, <1>5, <1>8, <1>10, <2>2, <2>3, <2>4 DEF Relisted
<1> QED
  BY <1>9, <1>10

LEMMA ShrinkKillsInv ==
  ASSUME NEW t \in Threads, NEW d \in Dentries, RefsInv, Shrinks(t, d), dn[d].count = 0,
         InodeFree(dn[d].inode) \/ i_lock[dn[d].inode] = t, ShrinkKills(t, d)
  PROVE  RefsInv'
<1>1. PICK w : w = th[t]
  OBVIOUS
<1>2. PICK p : p = dn[d].parent
  OBVIOUS
<1>3. PICK v : v = dn[d]
  OBVIOUS
<1>4. w \in Thread /\ v \in Dentry /\ ShapeOf(d, v)
  BY <1>1, <1>3, Values
<1>5. /\ ~ At(t, "idle") /\ w.pc # "killed" /\ (w.unmounts => w.refs = {})
      /\ \A x : ~ OwesIn(w, x)
      /\ \A u \in Threads \ {t} : ~ th[u].unmounts
      /\ w.list \in Seq(Dentries) /\ Once(w.list)
      /\ \A x \in Dentries : InSeq(w.list, x) => dn[x].lru = "shrink"
      /\ w.op = "dispose" => v.lru = "shrink" /\ d # Root
  BY <1>1, <1>3, ShrinksIs
<1>6. Alive(d) /\ d # Root
  <2>1. Alive(d)
    BY AliveIs
  <2>2. dn[d].count >= Mount(d)
    BY <2>1, CountedOn DEF RefsInv
  <2> QED
    BY <2>1, <2>2 DEF Mount
<1>7. p \in Dentries /\ p # d /\ Alive(p) /\ dn[p].count >= 1 + Mount(p)
  <2>1. p \in Dentries /\ Alive(p)
    BY <1>2, <1>6, AliveIs, Values
  <2>2. p # d
    BY <1>2, <1>6, Values DEF ShapeOf
  <2>3. Child(d, p)
    BY <1>2, <1>6, <2>2 DEF Child
  <2> QED
    BY <2>1, <2>2, <2>3, OwesInIs
<1>8. PICK q : q = PutToList(dn[p])
  OBVIOUS
<1>9. /\ q \in Dentry /\ ShapeOf(p, q) /\ q.count = dn[p].count - 1 /\ q.count # Dead
      /\ q.parent = dn[p].parent /\ q.inode = dn[p].inode
      /\ (q.lru = "shrink" <=> dn[p].lru = "shrink" \/ PutsOnList(dn[p]))
  BY <1>7, <1>8, PutToListIs
<1>10. PICK off : off = IF w.op = "dispose" THEN OnList(v, "shrink", "none") ELSE v
  OBVIOUS
<1>11. off \in Dentry /\ off.mem = "live" /\ off.parent = p /\ ~ off.may_free
       /\ off.lru = IF w.op = "dispose" THEN "none" ELSE v.lru
  <2>1. v.mem = "live" /\ ~ v.may_free /\ v.parent = p
    BY <1>2, <1>3, <1>6, Values
  <2>2. CASE w.op = "dispose"
    <3>1. off = OnList(v, "shrink", "none") /\ v.lru = "shrink" /\ "none" \in {"none", "lru", "shrink"}
      BY <1>5, <1>10, <2>2
    <3>2. Relisted(v, off) /\ off.lru = "none"
      BY <1>4, <3>1, OnListIs
    <3> QED
      BY <2>1, <2>2, <3>2 DEF Relisted
  <2>3. CASE w.op # "dispose"
    BY <1>4, <1>10, <2>1, <2>3
  <2> QED
    BY <2>2, <2>3
<1>12. PICK k : k = Killed(off)
  OBVIOUS
<1>13. /\ k \in Dentry /\ k.count = Dead /\ k.hashed = FALSE /\ k.inode = Nobody /\ k.mem = "live"
       /\ k.parent = p /\ ~ k.may_free /\ k.lru = IF off.lru = "lru" THEN "none" ELSE off.lru
  BY <1>11, <1>12, KilledIs
<1>14. ShapeOf(d, k)
  BY <1>4, <1>6, <1>7, <1>11, <1>13 DEF ShapeOf, Dentry, Lrus
<1>15. PICK rest : rest = IF w.op = "dispose" THEN Tail(w.list) ELSE w.list
  OBVIOUS
<1>16. /\ rest \in Seq(Dentries) /\ Once(rest)
       /\ \A x \in Dentries : InSeq(rest, x) <=> InSeq(w.list, x) /\ (w.op = "dispose" => x # d)
  <2>1. CASE w.op = "dispose"
    <3>1. w.list # <<>> /\ Head(w.list) = d
      BY <1>1, <2>1 DEF Shrinks
    <3>2. rest = Tail(w.list)
      BY <1>15, <2>1
    <3> QED
      BY <1>5, <2>1, <3>1, <3>2, TailOnce
  <2>2. CASE w.op # "dispose"
    BY <1>5, <1>15, <2>2
  <2> QED
    BY <2>1, <2>2
<1>17. PICK l : l = IF PutsOnList(dn[p]) THEN Append(rest, p) ELSE rest
  OBVIOUS
<1>18. /\ l \in Seq(Dentries) /\ Once(l)
       /\ \A x \in Dentries : InSeq(l, x) <=> InSeq(rest, x) \/ (PutsOnList(dn[p]) /\ x = p)
  <2>1. CASE PutsOnList(dn[p])
    <3>1. ~ InSeq(rest, p)
      BY <1>5, <1>7, <1>16, <2>1 DEF PutsOnList
    <3>2. l = Append(rest, p)
      BY <1>17, <2>1
    <3> QED
      BY <1>7, <1>16, <2>1, <3>1, <3>2, AppendOnce
  <2>2. CASE ~ PutsOnList(dn[p])
    BY <1>16, <1>17, <2>2
  <2> QED
    BY <2>1, <2>2
<1>19. PICK s : s = [w EXCEPT !.pc = "killed", !.d = d, !.p = Nobody, !.i = Nobody, !.list = l]
  OBVIOUS
<1>20. s \in Thread /\ s.pc = "killed" /\ s.d = d /\ s.p = Nobody /\ s.i = Nobody
       /\ s.list = l /\ s.refs = w.refs /\ s.unmounts = w.unmounts
  BY <1>4, <1>18, <1>19 DEF Thread, Pcs
<1>21. dn' = [dn EXCEPT ![p] = q, ![d] = k]
  <2>1. PICK o : o = IF w.op = "dispose" THEN [dn EXCEPT ![d] = OnList(dn[d], "shrink", "none")] ELSE dn
    OBVIOUS
  <2>2. PICK f : f = [o EXCEPT ![p] = PutToList(o[p])]
    OBVIOUS
  <2>3. dn' = [f EXCEPT ![d] = Killed(f[d])]
    BY <1>1, <1>2, <2>1, <2>2 DEF ShrinkKills
  <2>4. o = [dn EXCEPT ![d] = off]
    BY <1>3, <1>10, <2>1 DEF RefsInv, Typed, DnTyped
  <2>5. o[p] = dn[p]
    BY <1>7, <2>4 DEF RefsInv, Typed, DnTyped
  <2>6. f = [o EXCEPT ![p] = q]
    BY <1>8, <2>2, <2>5
  <2>7. f[d] = off
    BY <1>7, <2>4, <2>6 DEF RefsInv, Typed, DnTyped
  <2>8. dn' = [f EXCEPT ![d] = k]
    BY <1>12, <2>3, <2>7
  <2> QED
    BY <1>7, <2>4, <2>6, <2>8 DEF RefsInv, Typed, DnTyped
<1>22. th' = [th EXCEPT ![t] = s] /\ Locks(t)
  <2>1. th' = [th EXCEPT ![t].pc = "killed", ![t].d = d, ![t].p = Nobody, ![t].i = Nobody, ![t].list = l]
    BY <1>1, <1>2, <1>15, <1>17 DEF ShrinkKills
  <2>2. Locks(t)
    BY LocksReleased DEF ShrinkKills, RefsInv, Typed
  <2> QED
    BY <1>1, <1>19, <2>1, <2>2
<1>23. dn'[d] = k /\ dn'[p] = q /\ (\A x \in Dentries \ {d, p} : dn'[x] = dn[x]) /\ th'[t] = s
  <2>1. dn'[d] = k /\ dn'[p] = q /\ (\A x \in Dentries \ {d, p} : dn'[x] = dn[x])
    BY <1>7, <1>21 DEF RefsInv, Typed, DnTyped
  <2> QED
    BY <1>22, <2>1 DEF RefsInv, Typed, ThTyped
<1>24. Lists(t)
  <2>1. ASSUME NEW x \in Dentries
        PROVE  /\ InSeq(l, x) => dn'[x].lru = "shrink"
               /\ dn'[x].lru = "shrink" => InSeq(l, x) \/ (dn[x].lru = "shrink" /\ ~ InSeq(w.list, x))
               /\ dn[x].lru = "shrink" /\ ~ InSeq(w.list, x) => dn'[x].lru = "shrink" /\ ~ InSeq(l, x)
    <3>1. CASE x = d
      <4>1. dn'[x].lru = "shrink" <=> w.op # "dispose" /\ dn[x].lru = "shrink"
        BY <1>3, <1>11, <1>13, <1>23, <3>1
      <4>2. InSeq(l, x) <=> w.op # "dispose" /\ InSeq(w.list, x)
        BY <1>7, <1>16, <1>18, <3>1
      <4>3. w.op = "dispose" => InSeq(w.list, x)
        <5>1. w.op = "dispose" => w.list # <<>> /\ Head(w.list) = d
          BY <1>1 DEF Shrinks
        <5> QED
          BY <1>5, <3>1, <5>1, TailOnce
      <4> QED
        BY <1>5, <4>1, <4>2, <4>3
    <3>2. CASE x = p
      <4>1. dn'[x].lru = "shrink" <=> dn[x].lru = "shrink" \/ PutsOnList(dn[x])
        BY <1>9, <1>23, <3>2
      <4>2. InSeq(l, x) <=> InSeq(w.list, x) \/ PutsOnList(dn[x])
        BY <1>7, <1>16, <1>18, <3>2
      <4>3. PutsOnList(dn[x]) => dn[x].lru # "shrink"
        BY DEF PutsOnList
      <4> QED
        BY <1>5, <4>1, <4>2, <4>3
    <3>3. CASE x \notin {d, p}
      <4>1. dn'[x] = dn[x] /\ (InSeq(l, x) <=> InSeq(w.list, x))
        BY <1>16, <1>18, <1>23, <3>3
      <4> QED
        BY <1>5, <4>1
    <3> QED
      BY <3>1, <3>2, <3>3
  <2> QED
    BY <1>1, <1>18, <1>20, <1>23, <2>1 DEF Lists
<1>25. Unpinned(t, d)
  <2>1. \A u \in Threads \ {t} : ~ OwesIn(th[u], d)
    <3>1. \A u \in Threads \ {t} : OwesIn(th[u], d) => dn[d].count > 0
      BY AliveIs
    <3> QED
      BY <3>1
  <2> QED
    BY <2>1, UnpinnedWhen
<1>26. dn[d].count = One(OwesIn(th[t], d)) /\ \A x \in Dentries \ {d} : ~ OwesIn(th[t], x)
  BY <1>1, <1>5 DEF One
<1>27. q.count = dn[p].count - One(s.p = Nobody)
  BY <1>9, <1>20 DEF One
<1>28. Dies(t, d, k, q, s)
  BY <1>1, <1>2, <1>5, <1>6, <1>9, <1>13, <1>14, <1>20, <1>21, <1>22, <1>24, <1>25, <1>26, <1>27 DEF Dies
<1> QED
  BY <1>28, DiesKeepsInv

\* The entry that a thread shrinks, and what is known of the thread there.
Stage(t, d, s) ==
  /\ s.pc \in {"shrink inode", "shrink parent", "shrink out", "unlocked"}
  /\ s.op = th[t].op /\ s.list = th[t].list /\ s.d = d
  /\ s.pc = "shrink inode" => s.p = Nobody /\ s.i # Nobody
  /\ s.pc = "shrink parent" => s.p # Nobody

LEMMA ShrinkPlace ==
  ASSUME NEW t \in Threads, NEW d \in Dentries, RefsInv, Shrinks(t, d), NEW s, Stage(t, d, s)
  PROVE  AtPlace(s)
<1>1. Own(s)
  BY DEF Shrinks, Own, Stage
<1>2. s.d # Nobody
  BY Values DEF Shrinks, Stage
<1> QED
  BY <1>1, <1>2 DEF Stage, AtPlace, NoList, Nowhere, NoParent, NoInode

LEMMA TryParentInv ==
  ASSUME NEW t \in Threads, NEW d \in Dentries, NEW i, RefsInv, Shrinks(t, d), dn[d].count = 0, i = dn[d].inode,
         InodeFree(i), TryParent(t, d, i)
  PROVE  RefsInv'
<1>1. CASE ShrinkKills(t, d)
  BY <1>1, ShrinkKillsInv
<1>2. CASE /\ th' = [th EXCEPT ![t].pc = "shrink parent", ![t].d = d, ![t].p = dn[d].parent, ![t].i = i]
           /\ Takes(t, i) /\ dn' = dn
  <2>1. PICK w : w = th[t]
    OBVIOUS
  <2>2. PICK p : p = dn[d].parent
    OBVIOUS
  <2>3. w \in Thread /\ i \in Inodes \cup {Nobody}
    BY <2>1, Values DEF Dentry
  <2>4. Alive(d) /\ p \in Dentries /\ Alive(p) /\ p # Nobody /\ NotFree(p)
    <3>1. Alive(d)
      BY AliveIs
    <3>2. p \in Dentries /\ Alive(p)
      BY <2>2, <3>1, AliveIs, Values
    <3> QED
      BY <3>1, <3>2, Values DEF NotFree
  <2>5. PICK s : s = [w EXCEPT !.pc = "shrink parent", !.d = d, !.p = p, !.i = i]
    OBVIOUS
  <2>6. th' = [th EXCEPT ![t] = s]
    BY <1>2, <2>1, <2>2, <2>5
  <2>7. s \in Thread /\ s.pc = "shrink parent" /\ s.d = d /\ s.p = p /\ s.i = i
        /\ s.op = w.op /\ s.list = w.list /\ s.refs = w.refs /\ s.unmounts = w.unmounts
    BY <2>3, <2>4, <2>5 DEF Thread, Pcs
  <2>8. Locks(t) /\ (i # Nobody => i_lock'[i] = t)
    BY <1>2, <2>3, LocksTakenAny DEF RefsInv, Typed
  <2>9. AtPlace(s)
    <3>1. Stage(t, d, s)
      BY <2>1, <2>4, <2>7 DEF Stage
    <3> QED
      BY <3>1, ShrinkPlace
  <2>10. ShrinkMoves(t, d, s)
    BY <1>2, <2>1, <2>4, <2>6, <2>7, <2>8, <2>9 DEF ShrinkMoves
  <2> QED
    BY <2>10, ShrinkMovesInv
<1> QED
  BY <1>1, <1>2 DEF TryParent

LEMMA ShrinkLockInv ==
  ASSUME NEW t \in Threads, NEW d \in Dentries, RefsInv, Shrinks(t, d), th[t].p = Nobody, ShrinkLock(t, d)
  PROVE  RefsInv'
<1>1. PICK i : i = dn[d].inode
  OBVIOUS
<1>2. CASE Kicks(t, d)
  BY <1>2, KicksInv
<1>3. CASE dn[d].count = 0 /\ InodeFree(i) /\ TryParent(t, d, i)
  BY <1>1, <1>3, TryParentInv
<1>4. CASE dn[d].count = 0 /\ i # Nobody /\ UNCHANGED <<dn, i_lock>>
           /\ th' = [th EXCEPT ![t].pc = "shrink inode", ![t].d = d, ![t].i = i]
  <2>1. PICK w : w = th[t]
    OBVIOUS
  <2>2. w \in Thread /\ i \in Inodes \cup {Nobody} /\ w.p = Nobody
    BY <1>1, <2>1, Values DEF Dentry
  <2>3. PICK s : s = [w EXCEPT !.pc = "shrink inode", !.d = d, !.i = i]
    OBVIOUS
  <2>4. th' = [th EXCEPT ![t] = s]
    BY <1>4, <2>1, <2>3
  <2>5. s \in Thread /\ s.pc = "shrink inode" /\ s.d = d /\ s.p = Nobody /\ s.i = i
        /\ s.op = w.op /\ s.list = w.list /\ s.refs = w.refs /\ s.unmounts = w.unmounts
    BY <2>2, <2>3 DEF Thread, Pcs
  <2>6. Locks(t)
    BY <1>4, LocksKept DEF RefsInv, Typed
  <2>7. AtPlace(s)
    <3>1. Stage(t, d, s)
      BY <1>4, <2>1, <2>5 DEF Stage
    <3> QED
      BY <3>1, ShrinkPlace
  <2>8. ShrinkMoves(t, d, s)
    BY <1>4, <2>1, <2>4, <2>5, <2>6, <2>7 DEF ShrinkMoves, NotFree
  <2> QED
    BY <2>8, ShrinkMovesInv
<1> QED
  BY <1>1, <1>2, <1>3, <1>4 DEF ShrinkLock

LEMMA DisposeInv ==
  ASSUME NEW t \in Threads, RefsInv, Dispose(t) \/ Steal(t)
  PROVE  RefsInv'
<1>1. CASE Dispose(t)
  <2>1. At(t, "dispose") /\ th[t].list # <<>> /\ ShrinkLock(t, Head(th[t].list))
    BY <1>1 DEF Dispose
  <2>2. Shrinks(t, Head(th[t].list)) /\ Head(th[t].list) \in Dentries
    BY <2>1, ShrinksAt DEF Shrinks
  <2>3. th[t].p = Nobody
    BY <2>1, Values DEF At, AtPlace, NoParent, Nowhere
  <2> QED
    BY <2>1, <2>2, <2>3, ShrinkLockInv
<1>2. CASE Steal(t)
  <2>1. At(t, "steal") /\ ShrinkLock(t, th[t].d)
    BY <1>2 DEF Steal
  <2>2. Shrinks(t, th[t].d) /\ th[t].d \in Dentries
    BY <2>1, ShrinksAt DEF Shrinks, At
  <2>3. th[t].p = Nobody
    BY <2>1, Values DEF At, AtPlace, NoParent
  <2> QED
    BY <2>1, <2>2, <2>3, ShrinkLockInv
<1> QED
  BY <1>1, <1>2

LEMMA ShrinkInodeInv ==
  ASSUME NEW t \in Threads, RefsInv, ShrinkInode(t)
  PROVE  RefsInv'
<1>1. PICK d : d = th[t].d
  OBVIOUS
<1>2. PICK i : i = th[t].i
  OBVIOUS
<1>3. Shrinks(t, d) /\ d \in Dentries
  BY <1>1, ShrinksAt DEF ShrinkInode, At, Shrinks
<1>4. CASE Kicks(t, d)
  BY <1>3, <1>4, KicksInv
<1>5. CASE ~ Grabbed(dn[d], i) /\ InodeFree(i) /\ TryParent(t, d, i)
  <2>1. dn[d].count = 0 /\ i = dn[d].inode
    BY <1>5 DEF Grabbed
  <2> QED
    BY <1>3, <1>5, <2>1, TryParentInv
<1> QED
  BY <1>1, <1>2, <1>4, <1>5 DEF ShrinkInode

LEMMA ShrinkParentInv ==
  ASSUME NEW t \in Threads, RefsInv, ShrinkParent(t)
  PROVE  RefsInv'
<1>1. PICK d : d = th[t].d
  OBVIOUS
<1>2. PICK w : w = th[t]
  OBVIOUS
<1>3. Shrinks(t, d) /\ d \in Dentries
  BY <1>1, ShrinksAt DEF ShrinkParent, At, Shrinks
<1>4. w \in Thread /\ w.pc = "shrink parent" /\ InPlace(t) /\ AtPlace(w)
  BY <1>2, Values DEF ShrinkParent, At
<1>5. NotFree(w.p) /\ (w.i # Nobody => i_lock[w.i] = t)
  BY <1>2, <1>4 DEF InPlace
<1>6. CASE Kicks(t, d)
  BY <1>3, <1>6, KicksInv
<1>7. CASE dn[d].count = 0 /\ dn[d].inode = w.i /\ ShrinkKills(t, d)
  <2>1. InodeFree(dn[d].inode) \/ i_lock[dn[d].inode] = t
    BY <1>5, <1>7, Values DEF InodeFree
  <2> QED
    BY <1>3, <1>7, <2>1, ShrinkKillsInv
<1>8. ASSUME NEW pc \in {"shrink out", "unlocked"}, Goes(t, pc), UNCHANGED <<dn, i_lock>>
      PROVE  RefsInv'
  <2>1. PICK s : s = [w EXCEPT !.pc = pc]
    OBVIOUS
  <2>2. th' = [th EXCEPT ![t] = s]
    BY <1>2, <1>8, <2>1 DEF Goes
  <2>3. s \in Thread /\ s.pc = pc /\ s.d = d /\ s.p = w.p
        /\ s.op = w.op /\ s.list = w.list /\ s.refs = w.refs /\ s.unmounts = w.unmounts
    BY <1>1, <1>2, <1>4, <2>1 DEF Thread, Pcs
  <2>4. Locks(t)
    BY <1>8, LocksKept DEF RefsInv, Typed
  <2>5. s.pc \in {"shrink inode", "shrink parent", "shrink out", "unlocked"} /\ s.pc # "shrink inode"
        /\ s.pc # "shrink parent"
    BY <2>3
  <2>6. AtPlace(s)
    <3>1. Stage(t, d, s)
      BY <1>2, <1>3, <2>3, <2>5 DEF Stage
    <3> QED
      BY <1>3, <3>1, ShrinkPlace
  <2>7. ShrinkMoves(t, d, s)
    BY <1>2, <1>5, <1>8, <2>2, <2>3, <2>4, <2>5, <2>6 DEF ShrinkMoves
  <2> QED
    BY <1>3, <2>7, ShrinkMovesInv
<1>9. "shrink out" \in {"shrink out", "unlocked"} /\ "unlocked" \in {"shrink out", "unlocked"}
  OBVIOUS
<1> QED
  BY <1>1, <1>2, <1>6, <1>7, <1>8, <1>9 DEF ShrinkParent

LEMMA ShrinkOutInv ==
  ASSUME NEW t \in Threads, RefsInv, ShrinkOut(t)
  PROVE  RefsInv'
<1>1. Shrinks(t, th[t].d) /\ th[t].d \in Dentries
  BY ShrinksAt DEF ShrinkOut, At, Shrinks
<1> QED
  BY <1>1, KicksInv DEF ShrinkOut

-----------------------------------------------------------------------------
(* RCU                                                                     *)

LEMMA NobodyIsAt ==
  ASSUME NEW d \in Dentries, RefsInv, dn[d].mem = "rcu", \A t \in Threads : ~ (Reading(t) /\ d \in {th[t].d, th[t].p})
  PROVE  \A t \in Threads : th[t].d # d /\ th[t].p # d
<1>1. ~ Alive(d)
  BY Values DEF ShapeOf, Alive
<1> SUFFICES ASSUME NEW t \in Threads PROVE th[t].d # d /\ th[t].p # d
  OBVIOUS
<1>2. AtPlace(th[t]) /\ th[t] \in Thread /\ d # Nobody /\ InPlace(t)
  BY Values
<1>3. CASE Reading(t)
  BY <1>3
<1>4. CASE th[t].pc \in Nowhere
  BY <1>2, <1>4 DEF AtPlace, NoParent
<1>5. CASE th[t].pc = "kill inode"
  <2>1. th[t].p = Nobody /\ th[t].op = "put"
    BY <1>2, <1>5 DEF AtPlace, NoParent
  <2>2. th[t].d = d => OwesIn(th[t], d)
    BY <1>5, <2>1 DEF OwesIn
  <2>3. OwesIn(th[t], d) => Alive(d)
    BY AliveIs
  <2> QED
    BY <1>1, <1>2, <2>1, <2>2, <2>3
<1>6. CASE th[t].pc = "killed"
  <2>1. dn[th[t].d].mem = "live"
    BY <1>2, <1>6 DEF InPlace, Unburied
  <2>2. th[t].p = d => OwesIn(th[t], d)
    BY <1>6 DEF OwesIn
  <2>3. OwesIn(th[t], d) => Alive(d)
    BY AliveIs
  <2> QED
    BY <1>1, <2>1, <2>2, <2>3
<1>7. th[t].pc \in Pcs
  BY <1>2 DEF Thread
<1>8. Reading(t) \/ th[t].pc \in Nowhere \/ th[t].pc = "kill inode" \/ th[t].pc = "killed"
  BY <1>7 DEF Pcs, Reading, Nowhere
<1> QED
  BY <1>3, <1>4, <1>5, <1>6, <1>8

LEMMA ReclaimInv ==
  ASSUME NEW d \in Dentries, RefsInv, Reclaim(d)
  PROVE  RefsInv'
<1>1. dn[d].mem = "rcu" /\ dn' = [dn EXCEPT ![d] = NoDentry] /\ th' = th /\ i_lock' = i_lock
  BY DEF Reclaim
<1>2. \A t \in Threads : th[t].d # d /\ th[t].p # d
  BY NobodyIsAt DEF Reclaim
<1>3. dn'[d] = NoDentry /\ \A x \in Dentries \ {d} : dn'[x] = dn[x]
  BY <1>1 DEF RefsInv, Typed, DnTyped
<1>4. dn[d].count = Dead /\ dn[d].lru = "none" /\ d # Root
  <2>1. dn[d].count = Dead /\ dn[d].lru = "none"
    BY <1>1, Values DEF ShapeOf
  <2> QED
    BY <2>1, Values DEF Alive
<1>5. NoDentry \in Dentry /\ NoDentry.count = Dead /\ NoDentry.lru = "none" /\ NoDentry.mem = "free"
  BY DEF NoDentry, Dentry, Dead, Lrus
<1>6. Typed'
  <2>1. dn' \in [Dentries -> Dentry]
    BY <1>1, <1>5 DEF RefsInv, Typed, DnTyped
  <2> QED
    BY <1>1, <2>1 DEF RefsInv, Typed, DnTyped, ThTyped, LockTyped
<1>7. Counted'
  <2> SUFFICES ASSUME NEW x \in Dentries
               PROVE  Uses(dn'[x]) = Cardinality(Holders(x)') + Cardinality(Owers(x)')
                                     + Cardinality(Children(x)') + Mount(x)
    BY DEF Counted, Mount
  <2>1. Uses(dn'[x]) = Uses(dn[x])
    BY <1>3, <1>4, <1>5 DEF Uses
  <2>2. Holders(x)' = Holders(x) /\ Owers(x)' = Owers(x)
    BY <1>1 DEF Holders, Holds, Owers, Owes
  <2>3. \A c \in Dentries : Child(c, x)' <=> Child(c, x)
    BY <1>3, <1>4, <1>5 DEF Child, Alive
  <2>4. Children(x)' = Children(x)
    BY <2>3 DEF Children
  <2> QED
    BY <2>1, <2>2, <2>4 DEF RefsInv, Counted
<1>8. Shapes'
  <2>1. ShapeOf(d, NoDentry)
    BY <1>4, Values DEF ShapeOf, NoDentry
  <2>2. \A x \in Dentries : ShapeOf(x, dn'[x])
    BY <1>3, <2>1 DEF RefsInv, Shapes
  <2> QED
    BY <2>2 DEF Shapes
<1>9. Listed'
  <2>1. \A x \in Dentries : dn'[x].lru = dn[x].lru
    BY <1>3, <1>4, <1>5
  <2>2. \A t \in Threads : \A x : InList(t, x)' <=> InList(t, x)
    BY <1>1 DEF InList
  <2> QED
    BY <1>1, <2>1, <2>2 DEF RefsInv, Listed
<1>10. Places'
  <2> SUFFICES ASSUME NEW t \in Threads PROVE InPlace(t)'
    BY DEF Places
  <2>1. PICK w : w = th[t]
    OBVIOUS
  <2>2. w \in Thread /\ InPlace(t) /\ AtPlace(w) /\ w.d # d /\ w.p # d
    BY <1>2, <2>1, Values
  <2>3. w.d \in Dentries \cup {Nobody} /\ w.p \in Dentries \cup {Nobody}
    BY <2>2 DEF Thread
  <2>4. NotFree(w.d)' /\ NotFree(w.p)'
    BY <1>3, <2>1, <2>2, <2>3 DEF InPlace, NotFree
  <2>5. w.pc \in {"kill inode", "kill parent", "killed"} => w.d \in Dentries
    BY <2>2, <2>3 DEF AtPlace, Nowhere
  <2>6. w.pc \in {"kill inode", "kill parent"} /\ w.i # Nobody => dn'[w.d].inode = w.i
    BY <1>3, <2>1, <2>2, <2>5 DEF InPlace
  <2>7. w.pc \in {"kill parent", "shrink parent"} /\ w.i # Nobody => i_lock'[w.i] = t
    BY <1>1, <2>1, <2>2 DEF InPlace
  <2>8. w.pc = "killed" => Unburied(w.d)'
    BY <1>3, <2>1, <2>2, <2>5 DEF InPlace, Unburied
  <2>9. th'[t] = w
    BY <1>1, <2>1
  <2> QED
    BY <2>2, <2>4, <2>6, <2>7, <2>8, <2>9 DEF InPlace
<1>11. KilledOnce'
  BY <1>1 DEF RefsInv, KilledOnce, At
<1>12. Dying'
  BY <1>1, <1>3, <1>5 DEF RefsInv, Dying, At
<1>13. Rooted'
  <2>1. SameWays
    BY <1>3, <1>5 DEF SameWays, Alive
  <2> QED
    BY <2>1, RootedStep DEF RefsInv
<1>14. Unmounting'
  <2>1. Gone => Gone'
    BY <1>3, <1>4, <1>5, Values DEF Gone
  <2> QED
    BY <1>1, <2>1 DEF RefsInv, Unmounting, At
<1> QED
  BY <1>6, <1>7, <1>8, <1>9, <1>10, <1>11, <1>12, <1>13, <1>14 DEF RefsInv

-----------------------------------------------------------------------------
(* Unmounting                                                              *)

\* A thread that does nothing to the entries, but for a flag of the root.
RestsThere(t, n, s) ==
  /\ th[t].pc \in {"idle", "check"} /\ s.pc \in {"idle", "check"} /\ s \in Thread /\ AtPlace(s)
  /\ s.refs = th[t].refs /\ s.list = th[t].list
  /\ n \in Dentry /\ n.mem = dn[Root].mem /\ n.count = dn[Root].count /\ n.parent = dn[Root].parent
  /\ n.hashed = dn[Root].hashed /\ n.inode = dn[Root].inode /\ n.lru = dn[Root].lru /\ n.may_free = dn[Root].may_free
  /\ dn' = [dn EXCEPT ![Root] = n] /\ th' = [th EXCEPT ![t] = s] /\ i_lock' = i_lock

LEMMA RestingStep ==
  ASSUME NEW t \in Threads, NEW n, NEW s, RefsInv, RestsThere(t, n, s), Unmounting'
  PROVE  RefsInv'
<1>1. Root \in Dentries /\ Alive(Root)
  BY Values
<1>2. dn'[Root] = n /\ (\A x \in Dentries \ {Root} : dn'[x] = dn[x]) /\ th'[t] = s
  BY <1>1 DEF RestsThere, RefsInv, Typed, DnTyped, ThTyped
<1>3. \A x \in Dentries :
        /\ dn'[x].mem = dn[x].mem /\ dn'[x].count = dn[x].count /\ dn'[x].parent = dn[x].parent
        /\ dn'[x].hashed = dn[x].hashed /\ dn'[x].inode = dn[x].inode /\ dn'[x].lru = dn[x].lru
        /\ dn'[x].may_free = dn[x].may_free
  BY <1>2 DEF RestsThere
<1>4. Frame(t)
  BY DEF Frame, RestsThere, RefsInv, Typed, ThTyped
<1>5. Typed'
  BY DEF RestsThere, RefsInv, Typed, DnTyped, ThTyped, LockTyped
<1>6. (\A x : ~ OwesIn(s, x) /\ ~ OwesIn(th[t], x)) /\ s.d = Nobody /\ s.p = Nobody /\ s.pc # "killed" /\ th[t].pc # "killed"
      /\ s.pc \in {"idle", "check"}
  BY DEF RestsThere, OwesIn, AtPlace, Nowhere, NoParent
<1>7. Balance(t, Root)
  <2>1. \A x \in Dentries : Uses(dn'[x]) = Uses(dn[x]) /\ Uses(dn[x]) \in Int
    BY <1>3 DEF Uses, RefsInv, Typed, DnTyped, Dentry
  <2>2. \A x \in Dentries : ChildIn(dn'[Root], Root, x) <=> ChildIn(dn[Root], Root, x)
    BY <1>1, <1>3 DEF ChildIn
  <2>3. th'[t].refs = th[t].refs
    BY <1>2 DEF RestsThere
  <2>4. \A x \in Dentries :
            Uses(dn'[x]) - Uses(dn[x]) =
               One(x \in th'[t].refs) - One(x \in th[t].refs)
             + One(OwesIn(th'[t], x)) - One(OwesIn(th[t], x))
             + One(ChildIn(dn'[Root], Root, x)) - One(ChildIn(dn[Root], Root, x))
    <3> HIDE DEF Uses, OwesIn, ChildIn
    <3> QED
      BY <1>2, <1>6, <2>1, <2>2, <2>3 DEF One
  <2> QED
    BY <1>3, <2>4 DEF Balance
<1>8. Shapes'
  <2>1. ASSUME NEW x \in Dentries PROVE ShapeOf(x, dn'[x])
    <3>1. CASE x = Root
      <4>1. ShapeOf(Root, dn[Root]) /\ dn[Root].mem = "live" /\ dn[Root].count # Dead
        BY <1>1, Values DEF Alive
      <4>2. ShapeOf(Root, n)
        BY <4>1 DEF ShapeOf, RestsThere
      <4> QED
        BY <1>2, <3>1, <4>2
    <3>2. CASE x # Root
      BY <1>2, <3>2, Values
    <3> QED
      BY <3>1, <3>2
  <2> QED
    BY <2>1 DEF Shapes
<1>9. Counted'
  BY <1>1, <1>4, <1>5, <1>7, CountedStep DEF RefsInv
<1>10. Listed'
  <2>1. th'[t].list = th[t].list /\ \A x \in Dentries : dn'[x].lru = "shrink" <=> dn[x].lru = "shrink"
    BY <1>2, <1>3 DEF RestsThere
  <2>2. Lists(t)
    BY <1>4, <2>1, SameLists DEF RefsInv
  <2> QED
    BY <1>4, <2>2, ListedStep DEF RefsInv
<1>11. Keeps(t)
  BY <1>3 DEF Keeps, Unburied, RestsThere
<1>12. Places'
  <2>1. ASSUME NEW u \in Threads PROVE InPlace(u)'
    <3>1. CASE u = t
      <4>1. AtPlace(s)
        BY DEF RestsThere
      <4> QED
        BY <1>2, <1>6, <3>1, <4>1 DEF InPlace, NotFree
    <3>2. CASE u # t
      BY <1>4, <1>11, <3>2, OthersInPlace DEF RefsInv
    <3> QED
      BY <3>1, <3>2
  <2> QED
    BY <2>1 DEF Places
<1>13. Buries(t)
  <2>1. ASSUME NEW x \in Dentries, dn'[x].mem = "live", dn'[x].count = Dead
        PROVE  (dn'[x].lru = "shrink" /\ dn'[x].may_free) \/ Unburied(x)
    BY <1>3, <2>1, Values DEF Unburied, ShapeOf
  <2> QED
    BY <1>2, <1>6, <2>1 DEF Buries
<1>14. KilledOnce' /\ Dying'
  BY <1>4, <1>5, <1>13, KilledOnceStep, DyingStep DEF RefsInv
<1>15. Rooted'
  <2>1. SameWays
    BY <1>3 DEF SameWays, Alive
  <2> QED
    BY <2>1, RootedStep DEF RefsInv
<1> QED
  BY <1>5, <1>8, <1>9, <1>10, <1>12, <1>14, <1>15 DEF RefsInv

LEMMA UmountInv ==
  ASSUME NEW t \in Threads, RefsInv, Umount(t)
  PROVE  RefsInv'
<1>1. PICK w : w = th[t]
  OBVIOUS
<1>2. w \in Thread /\ AtPlace(w) /\ w.pc = "idle" /\ w.refs = {} /\ dn' = dn /\ i_lock' = i_lock
  BY <1>1, Values DEF Umount, Quiet, At
<1>3. PICK s : s = [w EXCEPT !.unmounts = TRUE]
  OBVIOUS
<1>4. th' = [th EXCEPT ![t] = s]
  BY <1>1, <1>3 DEF Umount
<1>5. s \in Thread /\ s.pc = w.pc /\ s.op = w.op /\ s.d = w.d /\ s.p = w.p /\ s.i = w.i
      /\ s.list = w.list /\ s.refs = w.refs /\ s.unmounts = TRUE
  BY <1>2, <1>3 DEF Thread
<1>6. AtPlace(s)
  BY <1>2, <1>5 DEF AtPlace, Own
<1>7. th'[t] = s /\ \A u \in Threads \ {t} : th'[u] = th[u]
  BY <1>4 DEF RefsInv, Typed, ThTyped
<1>8. Unmounting'
  <2>1. \A u \in Threads : At(u, "idle") /\ th[u].refs = {} /\ ~ th[u].unmounts
    BY DEF Umount, Quiet, MayCall
  <2>2. AloneIn(s)
    BY <1>2, <1>5 DEF AloneIn, UnmountPcs
  <2>3. \A u \in Threads \ {t} : th'[u].pc = "idle" /\ th'[u].refs = {} /\ ~ th'[u].unmounts
    BY <1>7, <2>1 DEF At
  <2>4. \A u \in Threads : th'[u].pc = "idle"
    BY <1>2, <1>5, <1>7, <2>3
  <2> QED
    BY <1>7, <2>2, <2>3, <2>4 DEF Unmounting, At
<1>9. dn[Root] \in Dentry /\ dn' = [dn EXCEPT ![Root] = dn[Root]]
  BY <1>2, Values DEF RefsInv, Typed, DnTyped
<1>10. RestsThere(t, dn[Root], s)
  BY <1>1, <1>2, <1>4, <1>5, <1>6, <1>9 DEF RestsThere
<1> QED
  BY <1>8, <1>10, RestingStep

\* When nobody holds an entry and each of them has someone who counts on it, only the root is left.
LEMMA NothingLeft ==
  ASSUME RefsInv,
         \A t \in Threads : At(t, "idle") /\ th[t].refs = {},
         \A d \in Dentries \ {Root} : dn[d].count # 0
  PROVE  (\A d \in Dentries \ {Root} : ~ Alive(d)) /\ dn[Root].count = 1
<1> DEFINE A == {d \in Dentries \ {Root} : Alive(d)}
           B == {c \in A : dn[c].parent \in A}
           f == [c \in B |-> dn[c].parent]
<1>1. \A d \in Dentries : Holders(d) = {} /\ Owers(d) = {}
  BY DEF Holders, Holds, Owers, Owes, At
<1>2. \A d \in Dentries : Uses(dn[d]) = Cardinality(Children(d)) + Mount(d)
  <2>1. Cardinality({}) = 0
    BY FS_EmptySet
  <2>2. \A d \in Dentries : Cardinality(Children(d)) \in Nat /\ Mount(d) \in Nat
    BY PartsFinite DEF Mount
  <2> QED
    BY <1>1, <2>1, <2>2 DEF RefsInv, Counted
<1>3. \A c \in Dentries, d \in Dentries : Child(c, d) => c \in A
  <2>1. dn[Root].parent = Root
    BY Values DEF ShapeOf
  <2> QED
    BY <2>1 DEF Child
<1>4. ASSUME NEW d \in A PROVE \E c \in B : f[c] = d
  <2>1. d \in Dentries /\ d # Root /\ dn[d].count # 0 /\ dn[d].count # Dead
    BY DEF Alive
  <2>2. Cardinality(Children(d)) # 0
    BY <1>2, <2>1 DEF Uses, Mount
  <2>3. PICK c \in Dentries : Child(c, d)
    BY <2>1, <2>2, FS_EmptySet DEF Children
  <2>4. c \in A /\ dn[c].parent = d
    BY <1>3, <2>1, <2>3 DEF Child
  <2> QED
    BY <2>4
<1>5. IsFiniteSet(A) /\ IsFiniteSet(B) /\ Cardinality(B) <= Cardinality(A) /\ (Cardinality(B) = Cardinality(A) => B = A)
      /\ Cardinality(A) \in Nat /\ Cardinality(B) \in Nat
  <2>1. IsFiniteSet(A)
    BY DentryAssumption, FS_Subset
  <2>2. B \in SUBSET A
    OBVIOUS
  <2> HIDE DEF A, B
  <2>3. IsFiniteSet(B)
    BY <2>1, <2>2, FS_Subset
  <2> QED
    BY <2>1, <2>2, <2>3, FS_Subset, FS_CardinalityType
<1>6. f \in Surjection(B, A)
  BY <1>4 DEF Surjection
<1>7. Cardinality(A) <= Cardinality(B)
  <2> HIDE DEF A, B, f
  <2> QED
    BY <1>5, <1>6, FS_Surjection
<1>8. B = A
  <2> HIDE DEF A, B, f
  <2> QED
    BY <1>5, <1>7
<1>9. \A x \in A : Alive(x) /\ dn[x].parent \in A
  BY <1>8
<1>10. A = {}
  <2>1. A \in SUBSET Dentries /\ Root \notin A
    OBVIOUS
  <2> HIDE DEF A
  <2> QED
    BY <1>9, <2>1 DEF RefsInv, Rooted
<1>11. \A c \in Dentries : ~ Child(c, Root)
  BY <1>3, <1>10, Values
<1>12. dn[Root].count = 1
  <2>1. Children(Root) = {}
    BY <1>11 DEF Children
  <2>2. Cardinality(Children(Root)) = 0
    BY <2>1, FS_EmptySet
  <2>3. Uses(dn[Root]) = 1
    BY <1>2, <2>2, Values DEF Mount
  <2> QED
    BY <2>3 DEF Uses
<1> QED
  BY <1>10, <1>12

LEMMA UmountShrunkInv ==
  ASSUME NEW t \in Threads, RefsInv, UmountShrunk(t)
  PROVE  RefsInv'
<1>1. PICK w : w = th[t]
  OBVIOUS
<1>2. w \in Thread /\ AtPlace(w) /\ w.pc = "idle" /\ w.unmounts /\ dn' = dn /\ i_lock' = i_lock
  BY <1>1, Values DEF UmountShrunk, At
<1>3. w.refs = {} /\ \A u \in Threads \ {t} : At(u, "idle") /\ th[u].refs = {} /\ ~ th[u].unmounts
  BY <1>1, <1>2 DEF RefsInv, Unmounting, AloneIn
<1>4. PICK s : s = [w EXCEPT !.pc = "check"]
  OBVIOUS
<1>5. th' = [th EXCEPT ![t] = s]
  BY <1>1, <1>4 DEF UmountShrunk, Goes
<1>6. s \in Thread /\ s.pc = "check" /\ s.op = w.op /\ s.d = w.d /\ s.p = w.p /\ s.i = w.i
      /\ s.list = w.list /\ s.refs = w.refs /\ s.unmounts = w.unmounts
  BY <1>2, <1>4 DEF Thread, Pcs
<1>7. AtPlace(s)
  BY <1>2, <1>6 DEF AtPlace, NoList, Nowhere, NoParent, NoInode
<1>8. th'[t] = s /\ \A u \in Threads \ {t} : th'[u] = th[u]
  BY <1>5 DEF RefsInv, Typed, ThTyped
<1>9. Gone
  <2>1. \A u \in Threads : At(u, "idle") /\ th[u].refs = {}
    BY <1>1, <1>2, <1>3 DEF At
  <2>2. \A d \in Dentries \ {Root} : dn[d].count # 0 /\ dn[d].lru # "shrink"
    BY DEF UmountShrunk
  <2>3. (\A d \in Dentries \ {Root} : ~ Alive(d)) /\ dn[Root].count = 1
    BY <2>1, <2>2, NothingLeft
  <2>4. \A d \in Dentries \ {Root} : dn[d].mem # "live"
    BY <2>1, <2>2, <2>3 DEF RefsInv, Dying, Alive, At
  <2> QED
    BY <2>3, <2>4 DEF Gone
<1>10. Unmounting'
  <2>1. AloneIn(s) /\ s.unmounts
    BY <1>2, <1>3, <1>6 DEF AloneIn, UnmountPcs
  <2>2. \A u \in Threads \ {t} : th'[u].pc = "idle" /\ th'[u].refs = {} /\ ~ th'[u].unmounts
    BY <1>3, <1>8 DEF At
  <2>3. Gone'
    BY <1>2, <1>9 DEF Gone
  <2> QED
    BY <1>8, <2>1, <2>2, <2>3 DEF Unmounting, At
<1>11. dn[Root] \in Dentry /\ dn' = [dn EXCEPT ![Root] = dn[Root]]
  BY <1>2, Values DEF RefsInv, Typed, DnTyped
<1>12. RestsThere(t, dn[Root], s)
  BY <1>1, <1>2, <1>5, <1>6, <1>7, <1>11 DEF RestsThere
<1> QED
  BY <1>10, <1>12, RestingStep

LEMMA UmountEndInv ==
  ASSUME NEW t \in Threads, RefsInv, UmountEnd(t)
  PROVE  RefsInv'
<1>1. PICK w : w = th[t]
  OBVIOUS
<1>2. w \in Thread /\ AtPlace(w) /\ w.pc = "check" /\ i_lock' = i_lock /\ At(t, "check")
  BY <1>1, Values DEF UmountEnd, At
<1>3. w.unmounts /\ Gone
  BY <1>1, <1>2 DEF RefsInv, Unmounting
<1>4. w.refs = {} /\ \A u \in Threads \ {t} : At(u, "idle") /\ th[u].refs = {} /\ ~ th[u].unmounts
  BY <1>1, <1>3 DEF RefsInv, Unmounting, AloneIn
<1>5. w.list = <<>>
  BY <1>2 DEF AtPlace, NoList
<1>6. PICK n : n = NewBelow(Root)
  OBVIOUS
<1>7. dn' = [dn EXCEPT ![Root] = n] /\ th' = [th EXCEPT ![t] = Idle]
  BY <1>6 DEF UmountEnd, NewBelow
<1>8. n \in Dentry /\ n.mem = "live" /\ n.count = 1 /\ n.parent = Root /\ n.inode = Nobody /\ n.lru = "none"
      /\ n.hashed = FALSE /\ n.may_free = FALSE
  <2>1. n \in Dentry /\ n.mem = "live" /\ n.count = 1 /\ n.parent = Root /\ n.inode = Nobody /\ n.lru = "none"
    BY <1>6, NewIs, Values
  <2>2. n.hashed = FALSE /\ n.may_free = FALSE
    BY <1>6 DEF NewBelow, NoDentry
  <2> QED
    BY <2>1, <2>2
<1>9. /\ dn[Root].mem = "live" /\ dn[Root].count = 1 /\ dn[Root].parent = Root /\ dn[Root].inode = Nobody
      /\ dn[Root].lru = "none" /\ dn[Root].hashed = FALSE /\ dn[Root].may_free = FALSE
  <2>1. ShapeOf(Root, dn[Root]) /\ dn[Root] \in Dentry /\ dn[Root].mem = "live" /\ ~ dn[Root].may_free /\ Root \in Dentries
    BY Values
  <2>2. dn[Root].count = 1
    BY <1>3, <2>1 DEF Gone
  <2>3. dn[Root].parent = Root /\ dn[Root].inode = Nobody /\ dn[Root].lru = "none" /\ ~ dn[Root].hashed
    BY <2>1 DEF ShapeOf
  <2>4. dn[Root].hashed \in BOOLEAN /\ dn[Root].may_free \in BOOLEAN
    BY <2>1 DEF Dentry
  <2> QED
    BY <2>1, <2>2, <2>3, <2>4
<1>10. Idle \in Thread /\ Idle.pc = "idle" /\ AtPlace(Idle) /\ Idle.refs = {} /\ Idle.list = <<>> /\ Idle.unmounts = FALSE
  <2>1. Idle \in Thread /\ Idle.pc = "idle" /\ Idle.refs = {} /\ Idle.list = <<>> /\ Idle.unmounts = FALSE
    BY DEF Idle, Thread, Pcs, Ops
  <2>2. AtPlace(Idle)
    BY DEF Idle, AtPlace, NoList, Nowhere, NoParent, NoInode
  <2> QED
    BY <2>1, <2>2
<1>11. Unmounting'
  <2>1. \A u \in Threads : th'[u].pc = "idle" /\ ~ th'[u].unmounts
    BY <1>4, <1>7, <1>10 DEF At, RefsInv, Typed, ThTyped
  <2> QED
    BY <2>1 DEF Unmounting, At
<1>12. RestsThere(t, n, Idle)
  BY <1>1, <1>2, <1>4, <1>5, <1>7, <1>8, <1>9, <1>10 DEF RestsThere
<1> QED
  BY <1>11, <1>12, RestingStep

-----------------------------------------------------------------------------
(* The theorems                                                            *)

LEMMA InitInv ==
  ASSUME Init
  PROVE  RefsInv
<1>1. Root \in Dentries /\ Nobody \notin Dentries /\ Nobody \notin Inodes /\ Nobody \notin Threads
  BY DentryAssumption
<1>2. PICK n : n = NewBelow(Root)
  OBVIOUS
<1>3. n \in Dentry /\ n.mem = "live" /\ n.count = 1 /\ n.parent = Root /\ n.inode = Nobody /\ n.lru = "none"
      /\ n.hashed = FALSE /\ n.may_free = FALSE
  <2>1. n \in Dentry /\ n.mem = "live" /\ n.count = 1 /\ n.parent = Root /\ n.inode = Nobody /\ n.lru = "none"
    BY <1>1, <1>2, NewIs
  <2>2. n.hashed = FALSE /\ n.may_free = FALSE
    BY <1>2 DEF NewBelow, NoDentry
  <2> QED
    BY <2>1, <2>2
<1>4. NoDentry \in Dentry /\ NoDentry.count = Dead /\ NoDentry.lru = "none" /\ NoDentry.mem = "free"
      /\ NoDentry.hashed = FALSE /\ NoDentry.inode = Nobody /\ NoDentry.may_free = FALSE
      /\ NoDentry.parent = Nobody
  BY DEF NoDentry, Dentry, Dead, Lrus
<1>5. Idle \in Thread /\ Idle.pc = "idle" /\ Idle.op = "none" /\ Idle.d = Nobody /\ Idle.p = Nobody /\ Idle.refs = {}
      /\ Idle.list = <<>> /\ Idle.unmounts = FALSE /\ AtPlace(Idle)
  <2>1. Idle \in Thread /\ Idle.pc = "idle" /\ Idle.op = "none" /\ Idle.d = Nobody /\ Idle.p = Nobody /\ Idle.refs = {}
        /\ Idle.list = <<>> /\ Idle.unmounts = FALSE
    BY DEF Idle, Thread, Pcs, Ops
  <2>2. AtPlace(Idle)
    BY DEF Idle, AtPlace, NoList, Nowhere, NoParent, NoInode
  <2> QED
    BY <2>1, <2>2
<1>6. dn[Root] = n /\ (\A d \in Dentries \ {Root} : dn[d] = NoDentry) /\ dn \in [Dentries -> Dentry]
  <2>1. dn = [d \in Dentries |-> IF d = Root THEN n ELSE NoDentry]
    BY <1>2 DEF Init, NewBelow
  <2> QED
    BY <1>1, <1>3, <1>4, <2>1
<1>7. (\A t \in Threads : th[t] = Idle) /\ th \in [Threads -> Thread] /\ i_lock \in [Inodes -> Threads \cup {Nobody}]
  BY <1>5 DEF Init
<1> HIDE DEF NoDentry, Idle
<1>8. Typed
  BY <1>6, <1>7 DEF Typed, DnTyped, ThTyped, LockTyped
<1>9. \A d \in Dentries : Alive(d) <=> d = Root
  BY <1>3, <1>4, <1>6 DEF Alive, Dead
<1>10. Counted
  <2> SUFFICES ASSUME NEW d \in Dentries
               PROVE  Uses(dn[d]) = Cardinality(Holders(d)) + Cardinality(Owers(d)) + Cardinality(Children(d)) + Mount(d)
    BY DEF Counted
  <2>1. Holders(d) = {} /\ Owers(d) = {}
    BY <1>5, <1>7 DEF Holders, Holds, Owers, Owes
  <2>2. Children(d) = {}
    BY <1>3, <1>6, <1>9 DEF Children, Child
  <2>3. Uses(dn[d]) = Mount(d)
    BY <1>3, <1>4, <1>6 DEF Uses, Mount, Dead
  <2>4. Cardinality({}) = 0
    BY FS_EmptySet
  <2> QED
    BY <2>1, <2>2, <2>3, <2>4 DEF Mount
<1>11. Shapes
  <2>1. ShapeOf(Root, n)
    BY <1>1, <1>3 DEF ShapeOf, Dead
  <2>2. \A d \in Dentries \ {Root} : ShapeOf(d, NoDentry)
    BY <1>1, <1>4 DEF ShapeOf
  <2>3. \A d \in Dentries : ShapeOf(d, dn[d])
    BY <1>6, <2>1, <2>2
  <2> QED
    BY <2>3 DEF Shapes
<1>12. Listed
  <2>1. \A t \in Threads : \A x : ~ InList(t, x)
    BY <1>5, <1>7 DEF InList, InSeq
  <2>2. \A t \in Threads : Once(th[t].list)
    BY <1>5, <1>7 DEF Once
  <2>3. \A d \in Dentries : dn[d].lru = "none"
    BY <1>3, <1>4, <1>6
  <2> QED
    BY <2>1, <2>2, <2>3 DEF Listed
<1>13. Places
  <2>1. \A t \in Threads : InPlace(t)
    BY <1>5, <1>7 DEF InPlace, NotFree
  <2> QED
    BY <2>1 DEF Places
<1>14. KilledOnce
  BY <1>5, <1>7 DEF KilledOnce, At
<1>15. Dying
  BY <1>4, <1>6, <1>9 DEF Dying, Alive
<1>16. Rooted
  BY <1>9 DEF Rooted
<1>17. Unmounting
  BY <1>5, <1>7 DEF Unmounting, At
<1> QED
  BY <1>8, <1>10, <1>11, <1>12, <1>13, <1>14, <1>15, <1>16, <1>17 DEF RefsInv

LEMMA StutterInv ==
  ASSUME RefsInv, UNCHANGED vars
  PROVE  RefsInv'
<1>1. dn' = dn /\ th' = th /\ i_lock' = i_lock
  BY DEF vars
<1>2. Typed' /\ Counted' /\ Shapes'
  BY <1>1 DEF RefsInv, Typed, DnTyped, ThTyped, LockTyped, Counted, Holders, Holds, Owers, Owes, Children, Child, Alive,
              Shapes
<1>3. Listed' /\ Places' /\ KilledOnce' /\ Dying'
  BY <1>1 DEF RefsInv, Listed, InList, Places, InPlace, NotFree, Unburied, KilledOnce, Dying, At
<1>4. Rooted' /\ Unmounting'
  BY <1>1 DEF RefsInv, Rooted, Alive, Unmounting, Gone, At
<1> QED
  BY <1>2, <1>3, <1>4 DEF RefsInv

LEMMA NextInv ==
  ASSUME RefsInv, [Next]_vars
  PROVE  RefsInv'
<1>1. ASSUME NEW t \in Threads, Step(t) PROVE RefsInv'
  <2>1. CASE GetParent(t) \/ GetParentLocked(t)
    BY <2>1, GetParentInv, GetParentLockedInv
  <2>2. CASE PutFast(t) \/ PutFlags(t) \/ PutLocked(t) \/ PutAgain(t)
    BY <2>2, PutFastInv, PutFlagsInv, PutLockedInv, PutAgainInv
  <2>3. CASE LockInode(t) \/ LockParent(t) \/ Bury(t)
    BY <2>3, LockInodeInv, LockParentInv, BuryInv
  <2>4. CASE Walked(t) \/ Dispose(t) \/ Disposed(t) \/ Steal(t)
    BY <2>4, WalkedInv, DisposeInv, DisposedInv
  <2>5. CASE ShrinkInode(t) \/ ShrinkParent(t) \/ ShrinkOut(t)
    BY <2>5, ShrinkInodeInv, ShrinkParentInv, ShrinkOutInv
  <2>6. CASE Corrupted(t)
    BY <2>6, StutterInv DEF Corrupted
  <2> QED
    BY <1>1, <2>1, <2>2, <2>3, <2>4, <2>5, <2>6 DEF Step
<1>2. ASSUME NEW t \in Threads, NEW d \in Dentries, Put(t, d) PROVE RefsInv'
  BY <1>2, PutInv
<1>3. ASSUME NEW t \in Threads, NEW d \in Dentries \ {Root}, Call(t, d) PROVE RefsInv'
  <2>1. CASE Get(t, d) \/ FindAlias(t, d)
    BY <2>1, GetInv
  <2>2. CASE ReadParent(t, d)
    BY <2>2, ReadParentInv
  <2>3. CASE \E p \in Dentries : Alloc(t, d, p) \/ Move(t, d, p)
    BY <2>3, AllocInv, MoveInv
  <2>4. CASE \E i \in Inodes \cup {Nobody} : Add(t, d, i) \/ Instantiate(t, d, i)
    BY <2>4, AddInv
  <2>5. CASE Delete(t, d) \/ Drop(t, d)
    BY <2>5, DeleteInv, DropInv
  <2>6. CASE PruneAlias(t, d)
    BY <2>6, PruneAliasInv
  <2>7. CASE Isolate(t, d) \/ IsolateAll(t, d)
    BY <2>7, IsolateInv
  <2>8. CASE Collect(t, d) \/ Victim(t, d)
    BY <2>8, CollectInv, VictimInv
  <2> QED
    BY <1>3, <2>1, <2>2, <2>3, <2>4, <2>5, <2>6, <2>7, <2>8 DEF Call
<1>4. ASSUME NEW t \in Threads, Umount(t) \/ UmountShrunk(t) \/ UmountEnd(t) PROVE RefsInv'
  BY <1>4, UmountInv, UmountShrunkInv, UmountEndInv
<1>5. ASSUME NEW d \in Dentries, Reclaim(d) PROVE RefsInv'
  BY <1>5, ReclaimInv
<1>6. CASE UNCHANGED vars
  BY <1>6, StutterInv
<1> QED
  BY <1>1, <1>2, <1>3, <1>4, <1>5, <1>6 DEF Next

\* Every state of the cache satisfies the invariant, whatever the threads do and in
\* whatever order: lookups without a lock, dput on its fast path, the killers and
\* the shrinkers that wait for locks, moves to another parent, unmounts.
THEOREM SpecRefsInv == Spec => []RefsInv
<1>1. Init => RefsInv
  BY InitInv
<1>2. RefsInv /\ [Next]_vars => RefsInv'
  BY NextInv
<1> QED
  BY <1>1, <1>2, PTL DEF Spec

\* The count of every living entry is the number of those who count on it: the
\* threads that hold it, those that have still to give it up, its living children,
\* and the mount for the root (lockref_get, dget_parent, dput, __dentry_kill, d_move).
THEOREM SpecCountsExact == Spec => []CountsExact
<1>1. RefsInv => CountsExact
  <2> SUFFICES ASSUME RefsInv, NEW d \in Dentries, dn[d].count # Dead
               PROVE  dn[d].count = Cardinality({t \in Threads : Holds(t, d)})
                        + Cardinality({t \in Threads : Owes(t, d)})
                        + Cardinality({c \in Dentries \ {d} : dn[c].parent = d /\ dn[c].count # Dead})
                        + (IF d = Root THEN 1 ELSE 0)
    BY DEF CountsExact
  <2>1. {c \in Dentries \ {d} : dn[c].parent = d /\ dn[c].count # Dead} = Children(d)
    BY DEF Children, Child, Alive
  <2>2. Uses(dn[d]) = Cardinality(Holders(d)) + Cardinality(Owers(d)) + Cardinality(Children(d)) + Mount(d)
    BY DEF RefsInv, Counted
  <2>3. Uses(dn[d]) = dn[d].count
    BY DEF Uses
  <2> QED
    BY <2>1, <2>2, <2>3 DEF Holders, Owers, Mount
<1> QED
  BY <1>1, SpecRefsInv, PTL

\* Nothing that a thread holds, works on or has on its list, and no parent of a
\* living entry, has been freed: dentry_free and call_rcu come after the last user,
\* and of a killer and the owner of a list only one frees.
THEOREM SpecNoUseAfterFree == Spec => []NoUseAfterFree
<1>1. RefsInv => NoUseAfterFree
  <2> SUFFICES ASSUME RefsInv PROVE NoUseAfterFree
    OBVIOUS
  <2>1. ASSUME NEW t \in Threads
        PROVE  /\ \A d \in th[t].refs : dn[d].mem = "live" /\ dn[d].count > 0
               /\ \A k \in DOMAIN th[t].list : dn[th[t].list[k]].mem = "live"
               /\ \A d \in {th[t].d, th[t].p} \ {Nobody} : dn[d].mem # "free"
    <3>1. th[t].refs \in SUBSET Dentries /\ th[t].list \in Seq(Dentries) /\ InPlace(t)
      BY Values DEF Thread
    <3>2. \A d \in th[t].refs : Alive(d) /\ dn[d].count > 0
      BY <3>1, AliveIs DEF Holds
    <3>3. \A d \in th[t].refs : dn[d].mem = "live" /\ dn[d].count > 0
      BY <3>1, <3>2, Values
    <3>4. ASSUME NEW k \in DOMAIN th[t].list PROVE dn[th[t].list[k]].mem = "live"
      <4>1. PICK x : x = th[t].list[k]
        OBVIOUS
      <4>2. x \in Dentries /\ InList(t, x)
        BY <3>1, <4>1 DEF InList, InSeq
      <4>3. dn[x].lru = "shrink" /\ dn[x] \in Dentry /\ ShapeOf(x, dn[x])
        BY <4>2, Values DEF RefsInv, Listed
      <4>4. dn[x].mem = "live"
        BY <4>3 DEF ShapeOf, Dentry, NoDentry
      <4> QED
        BY <4>1, <4>4
    <3>5. \A d \in {th[t].d, th[t].p} \ {Nobody} : dn[d].mem # "free"
      <4>1. NotFree(th[t].d) /\ NotFree(th[t].p)
        BY <3>1 DEF InPlace
      <4> QED
        BY <4>1 DEF NotFree
    <3> QED
      BY <3>3, <3>4, <3>5
  <2>2. ASSUME NEW d \in Dentries, dn[d].count # Dead
        PROVE  dn[dn[d].parent].mem = "live" /\ dn[dn[d].parent].count > 0
    <3>1. dn[d].parent \in Dentries /\ Alive(dn[d].parent) /\ dn[dn[d].parent].count > 0
      BY <2>2, AliveIs, Values DEF Alive
    <3> QED
      BY <3>1, Values
  <2> QED
    BY <2>1, <2>2 DEF NoUseAfterFree
<1> QED
  BY <1>1, SpecRefsInv, PTL

LEMMA OnceBound ==
  ASSUME NEW s \in Seq(Dentries), Once(s)
  PROVE  DOMAIN s \subseteq 1 .. Cardinality(Dentries)
<1>1. Len(s) \in Nat /\ DOMAIN s = 1 .. Len(s) /\ s \in [1 .. Len(s) -> Dentries]
  OBVIOUS
<1>2. s \in Injection(1 .. Len(s), Dentries)
  <2>1. \A j, k \in 1 .. Len(s) : s[j] = s[k] => j = k
    BY <1>1 DEF Once
  <2> QED
    BY <1>1, <2>1 DEF Injection, IsInjective
<1>3. IsFiniteSet(1 .. Len(s)) /\ Cardinality(1 .. Len(s)) = Len(s)
  <2>1. 1 \in Int /\ Len(s) \in Int
    BY <1>1
  <2>2. IsFiniteSet(1 .. Len(s)) /\ Cardinality(1 .. Len(s)) = IF 1 > Len(s) THEN 0 ELSE Len(s) - 1 + 1
    BY <2>1, FS_Interval
  <2> QED
    BY <1>1, <2>2
<1>4. Cardinality(1 .. Len(s)) <= Cardinality(Dentries) /\ Cardinality(Dentries) \in Nat
  BY <1>2, DentryAssumption, FS_Injection, FS_CardinalityType
<1> QED
  BY <1>1, <1>3, <1>4

\* An entry carries the mark of those to be disposed of exactly when it is at one
\* place of one list, and no list operation finds it where it should not be
\* (D_FLAG_VERIFY): d_shrink_add, select_collect, __dput_to_list, shrink_dentry_list.
THEOREM SpecListsExact == Spec => []ListsExact
<1>1. RefsInv => ListsExact
  <2> SUFFICES ASSUME RefsInv, NEW d \in Dentries
               PROVE  LET places == {x \in Threads \X (1 .. Cardinality(Dentries)) :
                                       x[2] \in DOMAIN th[x[1]].list /\ th[x[1]].list[x[2]] = d}
                      IN  /\ Cardinality(places) = IF dn[d].lru = "shrink" THEN 1 ELSE 0
                          /\ dn[d].lru # "wrong"
    BY DEF ListsExact
  <2> DEFINE places == {x \in Threads \X (1 .. Cardinality(Dentries)) :
                          x[2] \in DOMAIN th[x[1]].list /\ th[x[1]].list[x[2]] = d}
  <2>1. dn[d].lru # "wrong"
    BY Values DEF ShapeOf
  <2>2. \A x \in places : InList(x[1], d)
    BY DEF InList, InSeq
  <2>3. CASE dn[d].lru # "shrink"
    <3>1. places = {}
      BY <2>2, <2>3 DEF RefsInv, Listed
    <3>2. Cardinality(places) = 0
      BY <3>1, FS_EmptySet
    <3> QED
      BY <2>1, <2>3, <3>2
  <2>4. CASE dn[d].lru = "shrink"
    <3>1. PICK u \in Threads : InList(u, d)
      BY <2>4 DEF RefsInv, Listed
    <3>2. PICK k \in DOMAIN th[u].list : th[u].list[k] = d
      BY <3>1 DEF InList, InSeq
    <3>3. th[u].list \in Seq(Dentries) /\ Once(th[u].list)
      BY Values DEF Thread, RefsInv, Listed
    <3>4. k \in 1 .. Cardinality(Dentries)
      BY <3>2, <3>3, OnceBound
    <3>5. <<u, k>> \in places
      BY <3>2, <3>4
    <3>6. ASSUME NEW x \in places PROVE x = <<u, k>>
      <4>1. x[1] \in Threads /\ x[2] \in DOMAIN th[x[1]].list /\ th[x[1]].list[x[2]] = d /\ x = <<x[1], x[2]>>
        OBVIOUS
      <4>2. x[1] = u
        BY <2>2, <3>1, <4>1 DEF RefsInv, Listed
      <4>3. x[2] = k
        BY <3>2, <3>3, <4>1, <4>2 DEF Once
      <4> QED
        BY <4>1, <4>2, <4>3
    <3>7. places = {<<u, k>>}
      BY <3>5, <3>6
    <3>8. Cardinality(places) = 1
      BY <3>7, FS_Singleton
    <3> QED
      BY <2>1, <2>4, <3>8
  <2> QED
    BY <2>3, <2>4
<1> QED
  BY <1>1, SpecRefsInv, PTL

\* What has been killed has exactly someone to free it, its killer or the owner of
\* its list, and an unmount that has disposed of the unused entries finds the root
\* alone (umount_check): no reference and no entry is lost on the way.
THEOREM SpecNoneForgotten == Spec => []NoneForgotten
<1>1. RefsInv => NoneForgotten
  BY DEF RefsInv, NoneForgotten, Dying, Unmounting, Gone, At
<1> QED
  BY <1>1, SpecRefsInv, PTL

=============================================================================
