-------------------------- MODULE DentryTreeProofs --------------------------
(***************************************************************************)
(* Theorems about DentryTree, for any number of entries, directories,      *)
(* names and threads: a directory has one alias, a name has one entry that *)
(* can be found and one in lookup, at most, the parents make no loop, and  *)
(* either d_invalidate or d_set_mounted succeeds.                          *)
(*                                                                         *)
(* The steps are first sorted into kinds by what they do to entries and to *)
(* the threads that have one of their own; the invariant is then kept by   *)
(* each kind.                                                              *)
(***************************************************************************)
EXTENDS DentryTree, TLAPS, WellFoundedInduction, FiniteSetTheorems, SequenceTheorems

-----------------------------------------------------------------------------
(* Types                                                                   *)

Dentry == [live : BOOLEAN, parent : Dentries \cup {Nobody}, name : Names \cup {Nobody},
           hashed : BOOLEAN, lookup : BOOLEAN, inode : Inodes \cup {RootInode, Nobody},
           mounted : BOOLEAN, invalid : BOOLEAN]
Frame == [at : Dentries \cup {Nobody}, todo : SUBSET Dentries]
Stack == Seq(Frame)
Labels == {"idle", "look", "chain", "wait", "fs", "splice", "adding", "moving", "anon", "mount",
           "shrink", "start", "walk", "detach"}
Thread == [pc : Labels, d : Dentries \cup {Nobody}, p : Dentries \cup {Nobody},
           a : Dentries \cup {Nobody}, i : Inodes \cup {Nobody},
           fresh : BOOLEAN, still : BOOLEAN, stack : Stack]

DnTyped == dn \in [Dentries -> Dentry]
ThTyped == th \in [Threads -> Thread]

LEMMA EmptyStack == <<>> \in Stack
  BY DEF Stack

LEMMA NoDentryTyped == NoDentry \in Dentry
  BY DEF NoDentry, Dentry

LEMMA IdleTyped == Idle \in Thread
  BY EmptyStack DEF Idle, Thread, Labels

\* A field of an entry gets a value of its type.
LEMMA DentryFields ==
  ASSUME NEW r \in Dentry, NEW b \in BOOLEAN
  PROVE  /\ [r EXCEPT !.live = b] \in Dentry
         /\ [r EXCEPT !.hashed = b] \in Dentry
         /\ [r EXCEPT !.lookup = b] \in Dentry
         /\ [r EXCEPT !.mounted = b] \in Dentry
         /\ [r EXCEPT !.invalid = b] \in Dentry
         /\ \A p \in Dentries \cup {Nobody} : [r EXCEPT !.parent = p] \in Dentry
         /\ \A n \in Names \cup {Nobody} : [r EXCEPT !.name = n] \in Dentry
         /\ \A i \in Inodes \cup {RootInode, Nobody} : [r EXCEPT !.inode = i] \in Dentry
  BY DEF Dentry

\* A local variable of a thread gets a value of its type.
LEMMA ThreadFields ==
  ASSUME NEW r \in Thread
  PROVE  /\ \A l \in Labels : [r EXCEPT !.pc = l] \in Thread
         /\ \A d \in Dentries \cup {Nobody} : /\ [r EXCEPT !.d = d] \in Thread
                                              /\ [r EXCEPT !.p = d] \in Thread
                                              /\ [r EXCEPT !.a = d] \in Thread
         /\ \A i \in Inodes \cup {Nobody} : [r EXCEPT !.i = i] \in Thread
         /\ \A b \in BOOLEAN : [r EXCEPT !.fresh = b] \in Thread /\ [r EXCEPT !.still = b] \in Thread
         /\ \A s \in Stack : [r EXCEPT !.stack = s] \in Thread
  BY DEF Thread

LEMMA DentryValues ==
  ASSUME DnTyped, NEW d \in Dentries
  PROVE  /\ dn[d] \in Dentry
         /\ dn[d].parent \in Dentries \cup {Nobody} /\ dn[d].name \in Names \cup {Nobody}
         /\ dn[d].inode \in Inodes \cup {RootInode, Nobody}
         /\ dn[d].live \in BOOLEAN /\ dn[d].hashed \in BOOLEAN
         /\ dn[d].lookup \in BOOLEAN /\ dn[d].mounted \in BOOLEAN
  BY DEF DnTyped, Dentry

LEMMA ThreadValues ==
  ASSUME ThTyped, NEW t \in Threads
  PROVE  /\ th[t] \in Thread
         /\ th[t].pc \in Labels
         /\ th[t].d \in Dentries \cup {Nobody} /\ th[t].p \in Dentries \cup {Nobody}
         /\ th[t].a \in Dentries \cup {Nobody} /\ th[t].i \in Inodes \cup {Nobody}
         /\ th[t].fresh \in BOOLEAN /\ th[t].still \in BOOLEAN /\ th[t].stack \in Stack
  BY DEF ThTyped, Thread

-----------------------------------------------------------------------------
(* The invariant                                                           *)

\* A thread that has allocated an entry, for a name or for an inode without one.
Naming(t) == th[t].pc \in {"look", "chain", "wait", "fs", "splice", "adding", "moving"}
Owns(t) == Naming(t) \/ At(t, "anon")
\* Its entry may still go away, or has a name that nobody else may take.
MayFail(t) == Owns(t) /\ ~ At(t, "adding")
Claims(t) == th[t].pc \in {"fs", "splice", "adding", "moving"}
SameName(d, e) == dn[d].parent = dn[e].parent /\ dn[d].name = dn[e].name

DeadBlank ==
  \A d \in Dentries : ~ dn[d].live => ~ dn[d].hashed /\ ~ dn[d].lookup /\ dn[d].inode = Nobody
Parents == \A d \in Dentries : dn[d].live => dn[d].parent \in Dentries /\ dn[dn[d].parent].live
Named == \A d \in Dentries : dn[d].live => IsRoot(d) \/ dn[d].name \in Names

\* What is so of an entry while it is only its thread's.
Own(t) ==
  LET d == th[t].d IN
  /\ d \in Dentries /\ dn[d].live /\ ~ dn[d].hashed
  /\ Naming(t) => dn[d].name \in Names /\ dn[d].parent # d
  /\ At(t, "anon") => dn[d].name = Nobody
  /\ th[t].pc \in {"look", "chain", "wait", "fs", "splice"} => th[t].p = dn[d].parent
  /\ dn[d].inode = IF At(t, "adding") THEN th[t].i ELSE Nobody
  /\ dn[d].lookup <=> th[t].pc \in {"fs", "splice"}
  /\ \A u \in Threads \ {t} : Owns(u) => th[u].d # d
Owned == \A t \in Threads : Owns(t) => Own(t)

Childless ==
  \A t \in Threads : MayFail(t) =>
    \A c \in Dentries \ {th[t].d} : dn[c].live => dn[c].parent # th[t].d
InLookup ==
  \A d \in Dentries : dn[d].lookup =>
    \E t \in Threads : th[t].pc \in {"fs", "splice"} /\ th[t].d = d
\* The alias that is spliced.
Aliased ==
  \A t \in Threads : th[t].pc \in {"splice", "moving"} =>
    /\ th[t].a \in Dentries /\ dn[th[t].a].live /\ dn[th[t].a].inode # Nobody
    /\ \A u \in Threads : Owns(u) => th[u].d # th[t].a
    /\ At(t, "moving") => rename_lock = t /\ ~ dn[th[t].a].hashed
\* The directory that d_set_mounted has reached.
Mounting ==
  \A t \in Threads : At(t, "mount") =>
    /\ rename_lock = t /\ th[t].p \in Dentries /\ dn[th[t].p].live
    /\ \A u \in Threads : MayFail(u) => th[u].d # th[t].p

\* A name that is claimed is neither hashed nor claimed twice.
ClaimedOnce ==
  \A t \in Threads : Claims(t) =>
    /\ \A e \in Dentries : dn[e].hashed => ~ SameName(th[t].d, e)
    /\ \A u \in Threads \ {t} : Claims(u) => ~ SameName(th[t].d, th[u].d)
HashedOnce ==
  \A d \in Dentries : \A e \in Dentries \ {d} :
    dn[d].hashed /\ dn[e].hashed /\ dn[d].name \in Names => ~ SameName(d, e)
\* What a lookup knows that has compared i_dir_seq and will find it unchanged.
FreshLook ==
  \A t \in Threads : At(t, "chain") /\ th[t].fresh =>
    /\ \A e \in Dentries : dn[e].hashed => ~ SameName(th[t].d, e)
    /\ \A u \in Threads : th[u].pc \in {"adding", "moving"} => ~ SameName(th[t].d, th[u].d)

\* A directory has one entry.
Single == \A d, e \in Dentries : dn[d].inode # Nobody /\ dn[d].inode = dn[e].inode => d = e

TreeInv ==
  /\ DnTyped /\ ThTyped
  /\ DeadBlank /\ Parents /\ Named /\ Owned /\ Childless /\ InLookup /\ Aliased /\ Mounting
  /\ ClaimedOnce /\ HashedOnce /\ FreshLook

LEMMA InitInv == Init => TreeInv
<1> SUFFICES ASSUME Init PROVE TreeInv
  OBVIOUS
<1>1. [NoDentry EXCEPT !.live = TRUE, !.parent = Root, !.inode = RootInode] \in Dentry
  BY TreeAssumption DEF NoDentry, Dentry
<1>2. DnTyped
  BY <1>1, NoDentryTyped DEF Init, DnTyped
<1>3. ThTyped
  BY IdleTyped DEF Init, ThTyped
<1>4. \A t \in Threads : th[t].pc = "idle"
  BY DEF Init, Idle
<1>5. Owned /\ Childless /\ Aliased /\ Mounting /\ ClaimedOnce /\ FreshLook
  BY <1>4 DEF Owned, Childless, Aliased, Mounting, ClaimedOnce, FreshLook, Owns, Naming, MayFail, Claims, At
<1>6. \A d \in Dentries : /\ ~ dn[d].hashed /\ ~ dn[d].lookup
                          /\ dn[d].live => d = Root /\ dn[d].parent = d
                          /\ ~ dn[d].live => dn[d].inode = Nobody
  BY TreeAssumption DEF Init, NoDentry
<1>7. DeadBlank /\ Parents /\ Named /\ InLookup /\ HashedOnce
  BY <1>6 DEF DeadBlank, Parents, Named, InLookup, HashedOnce, IsRoot
<1>8. QED
  BY <1>2, <1>3, <1>5, <1>7 DEF TreeInv

-----------------------------------------------------------------------------
(* What steps do                                                           *)

Stays(u) ==
  /\ th'[u].pc = th[u].pc /\ th'[u].d = th[u].d /\ th'[u].p = th[u].p
  /\ th'[u].a = th[u].a /\ th'[u].i = th[u].i
  /\ th'[u].fresh => th[u].fresh
OthersStay(t) == \A u \in Threads \ {t} : Stays(u)

\* No thread gets or gives up an entry.  An entry stays, or is unhashed; one that no
\* thread uses may become negative or go away.
SameNames(x) ==
  /\ dn'[x].live = dn[x].live /\ dn'[x].parent = dn[x].parent /\ dn'[x].name = dn[x].name
  /\ dn'[x].lookup = dn[x].lookup
  /\ dn'[x].hashed => dn[x].hashed
Removes ==
  /\ \A u \in Threads : IF Owns(u) THEN Stays(u) ELSE ~ Owns(u)'
  /\ \A x \in Dentries : \/ SameNames(x) /\ dn'[x].inode = dn[x].inode
                         \/ SameNames(x) /\ dn'[x].inode = Nobody /\ ~ Held(x)
                         \/ dn'[x] = NoDentry /\ ~ Held(x)
  /\ \A u \in Threads : At(u, "moving") /\ rename_lock = u => rename_lock' = u
  /\ \A u \in Threads : At(u, "mount")' =>
       \/ Stays(u) /\ (rename_lock = u => rename_lock' = u)
       \/ /\ dn' = dn /\ rename_lock' = u
          /\ \E x \in Dentries : dn[x].live /\ ~ IsRoot(x) /\ th'[u].p = dn[x].parent

\* A thread gives up its entry.
Withdraws(t) ==
  /\ MayFail(t) /\ ~ Owns(t)' /\ ~ At(t, "mount")'
  /\ OthersStay(t)
  /\ \A x \in Dentries : dn'[x] = IF x = th[t].d THEN NoDentry ELSE dn[x]
  /\ rename_lock' = rename_lock

\* A thread goes on with its entry.
GoesOn(t) ==
  /\ OthersStay(t)
  /\ th'[t].d = th[t].d /\ th'[t].p = th[t].p
  /\ \/ th[t].pc \in {"look", "chain", "wait"} /\ th'[t].pc \in {"look", "wait"}
     \/ /\ At(t, "look") /\ th'[t].pc = "chain" /\ ~ Adding(th[t].p)
        /\ ~ \E e \in Dentries : dn[e].hashed /\ Same(th[t].d, e)
     \/ /\ At(t, "fs") /\ th'[t].pc = "splice"
        /\ th'[t].a \in Dentries /\ dn[th'[t].a].inode # Nobody /\ InodeFree(dn[th'[t].a].inode)
  /\ dn' = dn /\ rename_lock' = rename_lock

Only(S) == \A x \in Dentries \ S : dn'[x] = dn[x]
Keeps(x) ==
  dn'[x].live = dn[x].live /\ dn'[x].parent = dn[x].parent /\ dn'[x].name = dn[x].name

\* A thread gets an entry, for a name or for an inode.
Allocates(t) ==
  LET d == th'[t].d IN
  /\ d \in Dentries /\ ~ dn[d].live /\ ~ Owns(t) /\ \A u \in Threads : th[u].a # d
  /\ Only({d})
  /\ dn'[d].live /\ ~ dn'[d].hashed /\ ~ dn'[d].lookup /\ dn'[d].inode = Nobody
  /\ \/ /\ At(t, "look")' /\ dn'[d].parent = th'[t].p /\ dn'[d].name \in Names
        /\ th'[t].p \in Dentries /\ dn[th'[t].p].inode # Nobody
     \/ At(t, "anon")' /\ dn'[d].parent = d /\ dn'[d].name = Nobody
  /\ OthersStay(t) /\ rename_lock' = rename_lock

\* Its entry becomes the one of the name that is in lookup.
Claiming(t) ==
  LET d == th[t].d IN
  /\ At(t, "chain") /\ th[t].fresh /\ At(t, "fs")' /\ th'[t].d = d /\ th'[t].p = th[t].p
  /\ ~ \E e \in Dentries : dn[e].lookup /\ Same(d, e)
  /\ Only({d}) /\ Keeps(d) /\ dn'[d].inode = dn[d].inode /\ ~ dn'[d].hashed /\ dn'[d].lookup
  /\ OthersStay(t) /\ rename_lock' = rename_lock

\* The entry in lookup leaves the list, to be hashed itself or replaced by an alias.
Starts(t) ==
  LET d == th[t].d
      a == th[t].a
  IN  /\ th'[t].d = d /\ OthersStay(t)
      /\ \A u \in Threads \ {t} : th'[u].fresh => th[u].p # dn[d].parent
      /\ Keeps(d) /\ ~ dn'[d].hashed /\ ~ dn'[d].lookup
      /\ \/ /\ At(t, "fs") /\ At(t, "adding")' /\ Only({d}) /\ dn'[d].inode = th'[t].i
            /\ th'[t].i = Nobody \/ Aliases(th'[t].i) = {}
            /\ rename_lock' = rename_lock
         \/ /\ At(t, "splice") /\ At(t, "moving")' /\ th'[t].a = a
            /\ Only({d, a}) /\ dn'[d].inode = dn[d].inode
            /\ Keeps(a) /\ dn'[a].lookup = dn[a].lookup /\ dn'[a].inode = dn[a].inode /\ ~ dn'[a].hashed
            /\ rename_lock = Nobody /\ rename_lock' = t
            /\ ~ Above(a, d)

\* The entry is everybody's.
Publishes(t) ==
  LET d == th[t].d IN
  /\ th[t].pc \in {"adding", "anon"} /\ ~ Owns(t)' /\ ~ At(t, "mount")'
  /\ Only({d}) /\ Keeps(d) /\ dn'[d].lookup = dn[d].lookup
  /\ dn'[d].inode = dn[d].inode \/ Aliases(dn'[d].inode) = {}
  /\ OthersStay(t) /\ rename_lock' = rename_lock

\* The alias takes the place of the entry in lookup.
Replaces(t) ==
  LET d == th[t].d
      a == th[t].a
  IN  /\ At(t, "moving") /\ ~ Owns(t)' /\ ~ At(t, "mount")'
      /\ Only({d, a}) /\ dn'[d] = NoDentry
      /\ dn'[a].live = dn[a].live /\ dn'[a].parent = dn[d].parent /\ dn'[a].name = dn[d].name
      /\ dn'[a].lookup = dn[a].lookup /\ dn'[a].inode = dn[a].inode
      /\ OthersStay(t) /\ rename_lock' = Nobody

\* An alias of the same name does.
Revives(t, e) ==
  LET d == th[t].d IN
  /\ At(t, "fs") /\ ~ Owns(t)' /\ ~ At(t, "mount")'
  /\ Same(d, e) /\ dn[e].inode # Nobody /\ InodeFree(dn[e].inode)
  /\ \A u \in Threads \ {t} : ~ Shares(u, th[t].p)
  /\ Only({d, e}) /\ dn'[d] = NoDentry
  /\ Keeps(e) /\ dn'[e].lookup = dn[e].lookup /\ dn'[e].inode = dn[e].inode
  /\ OthersStay(t) /\ rename_lock' = rename_lock

\* Entries that are hashed change names.
Renames(d, e) ==
  /\ d # e /\ dn[d].hashed /\ dn[e].hashed /\ ~ IsRoot(d) /\ ~ IsRoot(e) /\ dn[d].inode # Nobody
  /\ ~ Above(d, e) /\ ~ Above(e, d)
  /\ rename_lock = Nobody /\ rename_lock' = Nobody
  /\ \A u \in Threads : Stays(u)
  /\ Only({d, e})
  /\ dn'[d].live = dn[d].live /\ dn'[d].parent = dn[e].parent /\ dn'[d].name = dn[e].name
  /\ \A x \in {d, e} : dn'[x].lookup = dn[x].lookup /\ dn'[x].inode = dn[x].inode
  /\ dn'[e].live = dn[e].live
  /\ \/ Keeps(e) /\ ~ dn'[e].hashed
     \/ dn'[e].parent = dn[d].parent /\ dn'[e].name = dn[d].name /\ dn'[e].hashed = dn[e].hashed

-----------------------------------------------------------------------------
(* Each kind keeps the invariant                                           *)

LEMMA RemovesKeeps ==
  ASSUME TreeInv, DnTyped', ThTyped', Removes
  PROVE  TreeInv'
<1> USE TreeAssumption DEF TreeInv
<1>1. DeadBlank'
  BY DEF Removes, Stays, SameNames, NoDentry, Owns, Naming, At, DeadBlank
<1>2. Parents'
  BY DEF Removes, Stays, SameNames, NoDentry, Owns, Naming, At, Children, Held, MayFail, Parents, Childless, DeadBlank
<1>3. Named'
  BY DEF Removes, Stays, SameNames, NoDentry, Owns, Naming, At, IsRoot, Named
<1>4. Owned'
  BY DEF Removes, Stays, SameNames, NoDentry, Owns, Naming, At, Own, Held, Owned, DeadBlank
<1>5. Childless'
  BY DEF Removes, Stays, SameNames, NoDentry, Owns, Naming, At, Own, MayFail, Childless, DeadBlank, Owned
<1>6. InLookup'
  BY DEF Removes, Stays, SameNames, NoDentry, Owns, Naming, At, Own, InLookup, Owned
<1>7. Aliased'
  BY DEF Removes, Stays, SameNames, NoDentry, Owns, Naming, At, Own, Held, InodeFree, Aliased, Owned, DeadBlank
<1>8. Mounting'
  BY DEF Removes, Stays, SameNames, NoDentry, Owns, Naming, At, MayFail, IsRoot, Held, Mounting, Parents, Childless
<1>9. ClaimedOnce'
  BY DEF Removes, Stays, SameNames, NoDentry, Owns, Naming, At, Own, Claims, SameName, Held, ClaimedOnce, Owned
<1>10. HashedOnce'
  BY DEF Removes, Stays, SameNames, NoDentry, Owns, Naming, At, SameName, HashedOnce
<1>11. FreshLook'
  BY DEF Removes, Stays, SameNames, NoDentry, Owns, Naming, At, Own, SameName, Held, FreshLook, Owned
<1>12. QED
  BY <1>1, <1>2, <1>3, <1>4, <1>5, <1>6, <1>7, <1>8, <1>9, <1>10, <1>11

LEMMA WithdrawsKeeps ==
  ASSUME TreeInv, DnTyped', ThTyped', NEW t \in Threads, Withdraws(t)
  PROVE  TreeInv'
<1> USE TreeAssumption DEF TreeInv
<1>1. DeadBlank'
  BY DEF Withdraws, OthersStay, Stays, NoDentry, MayFail, Owns, Naming, At, DeadBlank
<1>2. Parents'
  BY DEF Withdraws, OthersStay, Stays, NoDentry, MayFail, Owns, Naming, At, Children, Held, Parents, Childless, DeadBlank
<1>3. Named'
  BY DEF Withdraws, OthersStay, Stays, NoDentry, MayFail, Owns, Naming, At, IsRoot, Named
<1>4. Owned'
  BY DEF Withdraws, OthersStay, Stays, NoDentry, MayFail, Owns, Naming, At, Own, Held, Owned, DeadBlank
<1>5. Childless'
  BY DEF Withdraws, OthersStay, Stays, NoDentry, MayFail, Owns, Naming, At, Own, Childless, DeadBlank, Owned
<1>6. InLookup'
  BY DEF Withdraws, OthersStay, Stays, NoDentry, MayFail, Owns, Naming, At, Own, InLookup, Owned
<1>7. Aliased'
  BY DEF Withdraws, OthersStay, Stays, NoDentry, MayFail, Owns, Naming, At, Own, Held, InodeFree, Aliased, Owned, DeadBlank
<1>8. Mounting'
  BY DEF Withdraws, OthersStay, Stays, NoDentry, MayFail, Owns, Naming, At, IsRoot, Held, Mounting, Parents, Childless
<1>9. ClaimedOnce'
  BY DEF Withdraws, OthersStay, Stays, NoDentry, MayFail, Owns, Naming, At, Own, Claims, SameName, Held, ClaimedOnce, Owned
<1>10. HashedOnce'
  BY DEF Withdraws, OthersStay, Stays, NoDentry, MayFail, Owns, Naming, At, SameName, HashedOnce
<1>11. FreshLook'
  BY DEF Withdraws, OthersStay, Stays, NoDentry, MayFail, Owns, Naming, At, Own, SameName, Held, FreshLook, Owned
<1>12. QED
  BY <1>1, <1>2, <1>3, <1>4, <1>5, <1>6, <1>7, <1>8, <1>9, <1>10, <1>11

LEMMA GoesOnKeeps ==
  ASSUME TreeInv, DnTyped', ThTyped', NEW t \in Threads, GoesOn(t)
  PROVE  TreeInv'
<1> USE TreeAssumption DEF TreeInv
<1>1. DeadBlank'
  BY DEF GoesOn, OthersStay, Stays, Adding, Same, Owns, Naming, At, DeadBlank
<1>2. Parents'
  BY DEF GoesOn, OthersStay, Stays, Adding, Same, Owns, Naming, At, Children, Held, MayFail, Parents, Childless, DeadBlank
<1>3. Named'
  BY DEF GoesOn, OthersStay, Stays, Adding, Same, Owns, Naming, At, IsRoot, Named
<1>4. Owned'
  BY DEF GoesOn, OthersStay, Stays, Adding, Same, Owns, Naming, At, Own, Held, Owned, DeadBlank
<1>5. Childless'
  BY DEF GoesOn, OthersStay, Stays, Adding, Same, Owns, Naming, At, Own, MayFail, Childless, DeadBlank, Owned
<1>6. InLookup'
  BY DEF GoesOn, OthersStay, Stays, Adding, Same, Owns, Naming, At, Own, InLookup, Owned
<1>7. Aliased'
  BY DEF GoesOn, OthersStay, Stays, Adding, Same, Owns, Naming, At, Own, Held, InodeFree, Aliased, Owned, DeadBlank
<1>8. Mounting'
  BY DEF GoesOn, OthersStay, Stays, Adding, Same, Owns, Naming, At, MayFail, IsRoot, Held, Mounting, Parents, Childless
<1>9. ClaimedOnce'
  <2>1. \A u \in Threads : th'[u].d = th[u].d /\ (Claims(u)' => Claims(u))
    BY DEF GoesOn, OthersStay, Stays, Claims, At
  <2>2. QED
    BY <2>1 DEF GoesOn, ClaimedOnce, SameName
<1>10. HashedOnce'
  BY DEF GoesOn, OthersStay, Stays, Adding, Same, Owns, Naming, At, SameName, HashedOnce
<1>11. FreshLook'
  <2>1. \A u \in Threads : /\ th'[u].d = th[u].d
                           /\ th'[u].pc \in {"adding", "moving"} => th[u].pc = th'[u].pc
    BY DEF GoesOn, OthersStay, Stays
  <2>2. \A u \in Threads \ {t} : At(u, "chain")' /\ th'[u].fresh => At(u, "chain") /\ th[u].fresh
    BY DEF GoesOn, OthersStay, Stays, At
  <2>3. ASSUME th'[t].pc = "chain"
        PROVE  /\ \A e \in Dentries : dn[e].hashed => ~ SameName(th[t].d, e)
               /\ \A u \in Threads : th[u].pc \in {"adding", "moving"} => ~ SameName(th[t].d, th[u].d)
    <3>1. /\ At(t, "look") /\ ~ Adding(th[t].p)
          /\ ~ \E e \in Dentries : dn[e].hashed /\ Same(th[t].d, e)
      BY <2>3 DEF GoesOn
    <3>2. ~ dn[th[t].d].hashed /\ th[t].p = dn[th[t].d].parent
      BY <3>1 DEF Owned, Own, Owns, Naming, At
    <3>3. QED
      BY <3>1, <3>2 DEF Same, SameName, Adding, DeadBlank
  <2>4. dn' = dn
    BY DEF GoesOn
  <2>5. ASSUME NEW u \in Threads, At(u, "chain")', th'[u].fresh
        PROVE  /\ \A e \in Dentries : dn[e].hashed => ~ SameName(th[u].d, e)
               /\ \A v \in Threads : th[v].pc \in {"adding", "moving"} => ~ SameName(th[u].d, th[v].d)
    BY <2>2, <2>3, <2>5 DEF FreshLook, At
  <2>6. QED
    BY <2>1, <2>4, <2>5 DEF FreshLook, SameName
<1>12. QED
  BY <1>1, <1>2, <1>3, <1>4, <1>5, <1>6, <1>7, <1>8, <1>9, <1>10, <1>11

LEMMA AllocatesKeeps ==
  ASSUME TreeInv, DnTyped', ThTyped', NEW t \in Threads, Allocates(t)
  PROVE  TreeInv'
<1> USE DEF TreeInv
<1>a. PICK d : d = th'[t].d
  OBVIOUS
<1>b. /\ d \in Dentries /\ ~ dn[d].live /\ ~ Owns(t) /\ \A u \in Threads : th[u].a # d
      /\ \A x \in Dentries \ {d} : dn'[x] = dn[x]
      /\ dn'[d].live /\ ~ dn'[d].hashed /\ ~ dn'[d].lookup /\ dn'[d].inode = Nobody
      /\ \/ /\ th'[t].pc = "look" /\ dn'[d].parent = th'[t].p /\ dn'[d].name \in Names
            /\ th'[t].p \in Dentries /\ dn[th'[t].p].inode # Nobody
         \/ th'[t].pc = "anon" /\ dn'[d].parent = d /\ dn'[d].name = Nobody
  BY <1>a DEF Allocates, Only, At
<1>c. \A u \in Threads \ {t} : /\ th'[u].pc = th[u].pc /\ th'[u].d = th[u].d /\ th'[u].p = th[u].p
                               /\ th'[u].a = th[u].a /\ th'[u].i = th[u].i
                               /\ th'[u].fresh => th[u].fresh
  BY DEF Allocates, OthersStay, Stays
<1>d. \A u \in Threads : Owns(u) => Own(u) /\ th[u].d # d
  BY <1>b DEF Owned, Own
<1>e. \A x \in Dentries : dn[x].live => dn[x].parent # d
  BY <1>b DEF Parents
<1>f. rename_lock' = rename_lock
  BY DEF Allocates
<1>g. dn'[d].parent # d => dn[dn'[d].parent].live /\ ~ \E u \in Threads : MayFail(u) /\ th[u].d = dn'[d].parent
  BY <1>b, <1>d DEF DeadBlank, Own, MayFail
<1>1. DeadBlank'
  BY <1>b DEF DeadBlank
<1>2. Parents'
  BY <1>b, <1>e, <1>g DEF Parents
<1>3. Named'
  BY <1>b DEF Named, IsRoot
<1>4. Owned'
  <2>1. ASSUME NEW u \in Threads \ {t}, Owns(u)'
        PROVE  Own(u)'
    <3>1. Owns(u) /\ Own(u) /\ th[u].d # d /\ dn'[th[u].d] = dn[th[u].d] /\ th'[t].d # th[u].d
      BY <1>a, <1>b, <1>c, <1>d, <2>1 DEF Owns, Naming, Own, At
    <3>2. QED
      BY <1>b, <1>c, <3>1 DEF Owns, Naming, Own, At
  <2>2. Own(t)'
    <3>1. \A u \in Threads \ {t} : Owns(u)' => th'[u].d # d
      BY <1>c, <1>d DEF Owns, Naming, At
    <3>2. th'[t].pc = "look" => dn'[d].parent # d
      BY <1>b DEF DeadBlank
    <3>3. QED
      BY <1>a, <1>b, <3>1, <3>2 DEF Owns, Naming, Own, At
  <2>3. QED
    BY <2>1, <2>2 DEF Owned
<1>5. Childless'
  <2>1. \A u \in Threads \ {t} : MayFail(u)' => MayFail(u) /\ th'[u].d = th[u].d
    BY <1>c DEF MayFail, Owns, Naming, At
  <2>2. \A u \in Threads : MayFail(u) => th[u].d # d
    BY <1>d DEF MayFail
  <2>3. QED
    BY <1>a, <1>b, <1>e, <1>g, <2>1, <2>2 DEF Childless
<1>6. InLookup'
  <2>1. ~ (th[t].pc \in {"fs", "splice"})
    BY <1>b DEF Owns, Naming
  <2>2. QED
    BY <1>b, <1>c, <2>1 DEF InLookup
<1>7. Aliased'
  <2>1. \A u \in Threads : th'[u].pc \in {"splice", "moving"} =>
          /\ u # t /\ th[u].pc = th'[u].pc /\ th'[u].a = th[u].a
          /\ th[u].a \in Dentries /\ th[u].a # d
    BY <1>b, <1>c DEF Aliased
  <2>2. \A u \in Threads \ {t} : Owns(u)' => Owns(u) /\ th'[u].d = th[u].d
    BY <1>c DEF Owns, Naming, At
  <2>3. QED
    BY <1>a, <1>b, <1>f, <2>1, <2>2 DEF Aliased, At
<1>8. Mounting'
  <2>1. \A u \in Threads : At(u, "mount")' =>
          u # t /\ At(u, "mount") /\ th'[u].p = th[u].p /\ th[u].p \in Dentries /\ th[u].p # d
    BY <1>b, <1>c DEF Mounting, At
  <2>2. \A u \in Threads \ {t} : MayFail(u)' => MayFail(u) /\ th'[u].d = th[u].d
    BY <1>c DEF MayFail, Owns, Naming, At
  <2>3. QED
    BY <1>a, <1>b, <1>f, <2>1, <2>2 DEF Mounting
<1>9. ClaimedOnce'
  <2>1. \A u \in Threads : Claims(u)' =>
          u # t /\ Claims(u) /\ th'[u].d = th[u].d /\ th[u].d \in Dentries \ {d}
    BY <1>b, <1>c, <1>d DEF Claims, Owns, Naming, Own
  <2>2. QED
    BY <1>b, <2>1 DEF ClaimedOnce, SameName
<1>10. HashedOnce'
  BY <1>b DEF HashedOnce, SameName
<1>11. FreshLook'
  <2>1. \A u \in Threads : th'[u].pc \in {"chain", "adding", "moving"} =>
          u # t /\ th[u].pc = th'[u].pc /\ th'[u].d = th[u].d /\ th[u].d \in Dentries \ {d}
    BY <1>b, <1>c, <1>d DEF Owns, Naming, Own
  <2>2. QED
    BY <1>b, <1>c, <2>1 DEF FreshLook, SameName, At
<1>12. QED
  BY <1>1, <1>2, <1>3, <1>4, <1>5, <1>6, <1>7, <1>8, <1>9, <1>10, <1>11

LEMMA ClaimingKeeps ==
  ASSUME TreeInv, DnTyped', ThTyped', NEW t \in Threads, Claiming(t)
  PROVE  TreeInv'
<1> USE DEF TreeInv
<1>a. PICK d : d = th[t].d
  OBVIOUS
<1>b. /\ th[t].pc = "chain" /\ th'[t].pc = "fs" /\ th'[t].d = d /\ th'[t].p = th[t].p
      /\ \A x \in Dentries : /\ dn'[x].live = dn[x].live /\ dn'[x].parent = dn[x].parent
                             /\ dn'[x].name = dn[x].name /\ dn'[x].inode = dn[x].inode
                             /\ dn'[x].hashed => dn[x].hashed
                             /\ x # d => dn'[x] = dn[x]
      /\ ~ dn'[d].hashed /\ dn'[d].lookup /\ rename_lock' = rename_lock
  BY <1>a DEF Claiming, Only, Keeps, At
<1>c. \A u \in Threads \ {t} : /\ th'[u].pc = th[u].pc /\ th'[u].d = th[u].d /\ th'[u].p = th[u].p
                               /\ th'[u].a = th[u].a /\ th'[u].i = th[u].i
  BY DEF Claiming, OthersStay, Stays
<1>d. Own(t) /\ Owns(t) /\ \A u \in Threads : Owns(u)' <=> Owns(u)
  BY <1>b, <1>c DEF Owned, Owns, Naming, At
<1>e. \A u \in Threads : th'[u].d = th[u].d /\ (MayFail(u)' <=> MayFail(u))
  BY <1>a, <1>b, <1>c DEF MayFail, Owns, Naming, At
<1>1. DeadBlank'
  BY <1>a, <1>b, <1>d DEF DeadBlank, Own
<1>2. Parents'
  BY <1>b DEF Parents
<1>3. Named'
  BY <1>b DEF Named, IsRoot
<1>4. Owned'
  <2>1. ASSUME NEW u \in Threads \ {t}, Owns(u)
        PROVE  Own(u)'
    <3>1. Own(u) /\ th[u].d # d /\ dn'[th[u].d] = dn[th[u].d]
      BY <1>a, <1>b, <1>d, <2>1 DEF Owned, Own
    <3>2. \A v \in Threads \ {u} : Owns(v)' => th'[v].d # th[u].d
      BY <1>d, <1>e, <3>1 DEF Own
    <3>3. QED
      BY <1>c, <3>1, <3>2 DEF Naming, Own, At
  <2>2. Own(t)'
    BY <1>a, <1>b, <1>d, <1>e DEF Naming, Own, At
  <2>3. QED
    BY <1>d, <2>1, <2>2 DEF Owned
<1>5. Childless'
  BY <1>b, <1>e DEF Childless
<1>6. InLookup'
  BY <1>b, <1>c DEF InLookup
<1>7. Aliased'
  <2>1. \A u \in Threads : th'[u].pc \in {"splice", "moving"} =>
          u # t /\ th[u].pc = th'[u].pc /\ th'[u].a = th[u].a
    BY <1>b, <1>c
  <2>2. QED
    BY <1>b, <1>d, <1>e, <2>1 DEF Aliased, At
<1>8. Mounting'
  <2>1. \A u \in Threads : At(u, "mount")' => u # t /\ At(u, "mount") /\ th'[u].p = th[u].p
    BY <1>b, <1>c DEF At
  <2>2. QED
    BY <1>b, <1>e, <2>1 DEF Mounting
<1>9. ClaimedOnce'
  <2>1. \A u \in Threads : Owns(u) => Own(u)
    BY DEF Owned
  <2>2. \A x \in Dentries : /\ dn'[x].parent = dn[x].parent /\ dn'[x].name = dn[x].name
                            /\ dn'[x].hashed => dn[x].hashed
    BY DEF Claiming, Only, Keeps
  <2>3. \A e \in Dentries : dn[e].hashed => ~ SameName(th[t].d, e)
    BY DEF Claiming, FreshLook, At
  <2>4. \A u \in Threads \ {t} : Claims(u) => ~ SameName(th[t].d, th[u].d)
    <3>1. ASSUME NEW u \in Threads \ {t}, th[u].pc \in {"fs", "splice"}
          PROVE  ~ SameName(th[t].d, th[u].d)
      BY <2>1, <3>1 DEF Claiming, Own, Owns, Naming, At, Same, SameName
    <3>2. ASSUME NEW u \in Threads \ {t}, th[u].pc \in {"adding", "moving"}
          PROVE  ~ SameName(th[t].d, th[u].d)
      BY <3>2 DEF Claiming, FreshLook, At
    <3>3. QED
      BY <3>1, <3>2 DEF Claims
  <2>5. QED
    BY <2>1, <2>2, <2>3, <2>4 DEF Claiming, ClaimedOnce, Claims, SameName, Own, Owns, Naming, At, OthersStay, Stays
<1>10. HashedOnce'
  <2>1. \A x \in Dentries : /\ dn'[x].parent = dn[x].parent /\ dn'[x].name = dn[x].name
                            /\ dn'[x].hashed => dn[x].hashed
    BY DEF Claiming, Only, Keeps
  <2>2. QED
    BY <2>1 DEF HashedOnce, SameName
<1>11. FreshLook'
  <2>1. \A x \in Dentries : /\ dn'[x].parent = dn[x].parent /\ dn'[x].name = dn[x].name
                            /\ dn'[x].hashed => dn[x].hashed
    BY DEF Claiming, Only, Keeps
  <2>2. \A u \in Threads : Owns(u) => th[u].d \in Dentries
    BY DEF Owned, Own
  <2>3. \A u \in Threads : \/ th'[u].pc = th[u].pc /\ th'[u].d = th[u].d /\ (th'[u].fresh => th[u].fresh)
                           \/ u = t /\ th'[u].pc = "fs"
    <3>1. \A u \in Threads \ {t} : th'[u].pc = th[u].pc /\ th'[u].d = th[u].d /\ (th'[u].fresh => th[u].fresh)
      BY DEF Claiming, OthersStay, Stays
    <3>2. th'[t].pc = "fs"
      BY DEF Claiming, At
    <3>3. QED
      BY <3>1, <3>2
  <2>4. QED
    BY <2>1, <2>2, <2>3 DEF FreshLook, SameName, Owns, Naming, At
<1>12. QED
  BY <1>1, <1>2, <1>3, <1>4, <1>5, <1>6, <1>7, <1>8, <1>9, <1>10, <1>11

LEMMA StartsKeeps ==
  ASSUME TreeInv, DnTyped', ThTyped', NEW t \in Threads, Starts(t)
  PROVE  TreeInv'
<1> USE DEF TreeInv
<1>a. PICK d, a : d = th[t].d /\ a = th[t].a
  OBVIOUS
<1>b. /\ d \in Dentries /\ dn[d].live /\ ~ dn[d].hashed /\ dn[d].inode = Nobody /\ dn[d].lookup
      /\ dn[d].name \in Names /\ dn[d].parent # d
      /\ \A u \in Threads \ {t} : Owns(u) => th[u].d # d
  BY <1>a DEF Starts, Owned, Own, Owns, Naming, At
<1>c. At(t, "splice") =>
        a \in Dentries /\ dn[a].live /\ dn[a].inode # Nobody /\ \A u \in Threads : Owns(u) => th[u].d # a
  BY <1>a DEF Aliased, At
<1>d. \A x \in Dentries : /\ dn'[x].live = dn[x].live /\ dn'[x].parent = dn[x].parent /\ dn'[x].name = dn[x].name
                          /\ dn'[x].hashed => dn[x].hashed
                          /\ dn'[x].lookup => dn[x].lookup /\ x # d
                          /\ x # d => dn'[x].inode = dn[x].inode /\ dn'[x].lookup = dn[x].lookup
  BY <1>a DEF Starts, Only, Keeps
<1>e. \A u \in Threads \ {t} : /\ th'[u].pc = th[u].pc /\ th'[u].d = th[u].d /\ th'[u].p = th[u].p
                               /\ th'[u].a = th[u].a /\ th'[u].i = th[u].i
  BY DEF Starts, OthersStay, Stays
<1>f. /\ th'[t].d = d
      /\ \/ /\ th[t].pc = "fs" /\ th'[t].pc = "adding" /\ dn'[d].inode = th'[t].i /\ rename_lock' = rename_lock
         \/ /\ th[t].pc = "splice" /\ th'[t].pc = "moving" /\ th'[t].a = a /\ dn'[d].inode = Nobody
            /\ ~ dn'[a].hashed /\ rename_lock = Nobody /\ rename_lock' = t
  BY <1>a, <1>b DEF Starts, At
<1>1. DeadBlank'
  BY <1>b, <1>d DEF DeadBlank
<1>2. Parents'
  BY <1>d DEF Parents
<1>3. Named'
  BY <1>d DEF Named, IsRoot
<1>4. Owned'
  <2>1. ASSUME NEW u \in Threads \ {t}, Owns(u)'
        PROVE  Own(u)'
    BY <2>1, <1>a, <1>b, <1>d, <1>e, <1>f DEF Owned, Own, Owns, Naming, At
  <2>2. Own(t)'
    BY <1>b, <1>d, <1>e, <1>f DEF Own, Owns, Naming, At
  <2>3. QED
    BY <2>1, <2>2 DEF Owned
<1>5. Childless'
  BY <1>a, <1>b, <1>d, <1>e, <1>f DEF Childless, MayFail, Owns, Naming, At
<1>6. InLookup'
  BY <1>a, <1>d, <1>e DEF InLookup
<1>7. Aliased'
  <2>1. \A u \in Threads : th'[u].d = th[u].d /\ (Owns(u)' <=> Owns(u))
    BY <1>a, <1>e, <1>f DEF Owns, Naming, At
  <2>2. \A u \in Threads \ {t} : th[u].pc = "moving" => rename_lock # Nobody
    BY TreeAssumption DEF Aliased, At
  <2>3. th[t].d = d /\ Owns(t)
    BY <1>a, <1>f DEF Owns, Naming
  <2>4. QED
    BY <2>1, <2>2, <2>3, <1>c, <1>d, <1>e, <1>f DEF Aliased, At
<1>8. Mounting'
  <2>1. \A u \in Threads : MayFail(u)' => MayFail(u) /\ th'[u].d = th[u].d
    BY <1>a, <1>e, <1>f DEF MayFail, Owns, Naming, At
  <2>2. \A u \in Threads : At(u, "mount")' =>
          At(u, "mount") /\ th'[u].p = th[u].p /\ rename_lock' = rename_lock
    BY <1>e, <1>f, TreeAssumption DEF Mounting, At
  <2>3. QED
    BY <2>1, <2>2, <1>d DEF Mounting
<1>9. ClaimedOnce'
  <2>1. \A u \in Threads : th'[u].d = th[u].d /\ (Claims(u)' <=> Claims(u))
    BY <1>a, <1>e, <1>f DEF Claims
  <2>2. \A u \in Threads : Claims(u) => th[u].d \in Dentries
    BY DEF Owned, Own, Owns, Naming, Claims
  <2>3. QED
    BY <1>d, <2>1, <2>2 DEF ClaimedOnce, SameName
<1>10. HashedOnce'
  BY <1>d DEF HashedOnce, SameName
<1>11. FreshLook'
  <2>2. \A u \in Threads : Owns(u) => th[u].d \in Dentries
    BY DEF Owned, Own
  <2>3. \A u \in Threads : At(u, "chain")' => u # t /\ At(u, "chain") /\ th'[u].d = th[u].d
    BY DEF Starts, OthersStay, Stays, At
  <2>4. \A u \in Threads : At(u, "chain")' /\ th'[u].fresh =>
          /\ At(u, "chain") /\ th[u].fresh /\ dn[th[u].d].parent # dn[th[t].d].parent
    BY <2>3 DEF Starts, OthersStay, Stays, At, Owned, Own, Owns, Naming
  <2>5. \A v \in Threads \ {t} : th'[v].pc = th[v].pc /\ th'[v].d = th[v].d
    BY DEF Starts, OthersStay, Stays
  <2>6. th'[t].d = th[t].d /\ th[t].d \in Dentries
    BY <2>2 DEF Starts, Owns, Naming, At
  <2>7. QED
    BY <1>d, <2>2, <2>3, <2>4, <2>5, <2>6 DEF FreshLook, SameName, Owns, Naming, At
<1>12. QED
  BY <1>1, <1>2, <1>3, <1>4, <1>5, <1>6, <1>7, <1>8, <1>9, <1>10, <1>11

LEMMA PublishesKeeps ==
  ASSUME TreeInv, DnTyped', ThTyped', NEW t \in Threads, Publishes(t)
  PROVE  TreeInv'
<1> USE DEF TreeInv
<1>a. PICK d : d = th[t].d
  OBVIOUS
<1>b. /\ th[t].pc \in {"adding", "anon"} /\ ~ Owns(t)' /\ ~ At(t, "mount")'
      /\ \A x \in Dentries : /\ dn'[x].live = dn[x].live /\ dn'[x].parent = dn[x].parent
                             /\ dn'[x].name = dn[x].name /\ dn'[x].lookup = dn[x].lookup
                             /\ x # d => dn'[x] = dn[x]
      /\ rename_lock' = rename_lock
  BY <1>a DEF Publishes, Only, Keeps
<1>c. \A u \in Threads \ {t} : /\ th'[u].pc = th[u].pc /\ th'[u].d = th[u].d /\ th'[u].p = th[u].p
                               /\ th'[u].a = th[u].a /\ th'[u].i = th[u].i
  BY DEF Publishes, OthersStay, Stays
<1>d. Own(t) /\ Owns(t) /\ \A u \in Threads : Owns(u)' => u # t /\ Owns(u) /\ th'[u].d = th[u].d
  BY <1>b, <1>c DEF Owned, Owns, Naming, At
<1>e. d \in Dentries /\ dn[d].live /\ ~ dn[d].lookup
  BY <1>a, <1>b, <1>d DEF Own
<1>f. \A u \in Threads : MayFail(u)' => u # t /\ MayFail(u) /\ th'[u].d = th[u].d
  BY <1>b, <1>c DEF MayFail, Owns, Naming, At
<1>1. DeadBlank'
  BY <1>b, <1>e DEF DeadBlank
<1>2. Parents'
  BY <1>b DEF Parents
<1>3. Named'
  BY <1>b DEF Named, IsRoot
<1>4. Owned'
  <2> SUFFICES ASSUME NEW u \in Threads, Owns(u)'
               PROVE  Own(u)'
    BY DEF Owned
  <2>1. u # t /\ Owns(u) /\ Own(u) /\ th[u].d # d /\ dn'[th[u].d] = dn[th[u].d]
    BY <1>a, <1>b, <1>d DEF Owned, Own
  <2>2. \A v \in Threads \ {u} : Owns(v)' => th'[v].d # th[u].d
    BY <1>d, <2>1 DEF Own
  <2>3. QED
    BY <1>c, <2>1, <2>2 DEF Naming, Own, At
<1>5. Childless'
  BY <1>b, <1>f DEF Childless
<1>6. InLookup'
  BY <1>b, <1>c DEF InLookup
<1>7. Aliased'
  <2>1. \A u \in Threads : th'[u].pc \in {"splice", "moving"} =>
          u # t /\ th[u].pc = th'[u].pc /\ th'[u].a = th[u].a /\ th[u].a # d
    BY <1>a, <1>b, <1>c, <1>d DEF Owns, Naming, Aliased
  <2>2. QED
    BY <1>b, <1>d, <2>1 DEF Aliased, At
<1>8. Mounting'
  <2>1. \A u \in Threads : At(u, "mount")' => u # t /\ At(u, "mount") /\ th'[u].p = th[u].p
    BY <1>b, <1>c DEF At
  <2>2. QED
    BY <1>b, <1>f, <2>1 DEF Mounting
<1>9. ClaimedOnce'
  <2>1. \A u \in Threads : Owns(u) => Own(u)
    BY DEF Owned
  <2>2. \A x \in Dentries : /\ dn'[x].parent = dn[x].parent /\ dn'[x].name = dn[x].name
                            /\ dn'[x].hashed => dn[x].hashed \/ x = th[t].d
    BY DEF Publishes, Only, Keeps
  <2>3. \A u \in Threads : Claims(u)' => u # t /\ Claims(u) /\ th'[u].d = th[u].d /\ th[u].d \in Dentries
    BY <2>1 DEF Publishes, OthersStay, Stays, Claims, Own, Owns, Naming
  <2>4. \A u \in Threads \ {t} : Claims(u) => ~ SameName(th[u].d, th[t].d)
    <3>1. CASE At(t, "adding")
      BY <3>1 DEF ClaimedOnce, Claims, At
    <3>2. CASE At(t, "anon")
      BY <2>1, <3>2, TreeAssumption DEF Own, Owns, Naming, Claims, SameName, At
    <3>3. QED
      BY <3>1, <3>2 DEF Publishes, At
  <2>5. QED
    BY <2>2, <2>3, <2>4 DEF ClaimedOnce, SameName
<1>10. HashedOnce'
  <2>1. ASSUME NEW x \in Dentries \ {d}, dn[x].hashed, dn[x].name \in Names
        PROVE  ~ SameName(d, x)
    <3>1. CASE At(t, "adding")
      BY <1>a, <2>1, <3>1 DEF ClaimedOnce, Claims, At
    <3>2. CASE At(t, "anon")
      BY <1>a, <1>d, <2>1, <3>2, TreeAssumption DEF Own, SameName
    <3>3. QED
      BY <1>b, <3>1, <3>2 DEF At
  <2>2. QED
    BY <1>b, <2>1 DEF HashedOnce, SameName
<1>11. FreshLook'
  <2>1. \A u \in Threads : Owns(u) => Own(u)
    BY DEF Owned
  <2>2. \A x \in Dentries : /\ dn'[x].parent = dn[x].parent /\ dn'[x].name = dn[x].name
                            /\ dn'[x].hashed => dn[x].hashed \/ x = th[t].d
    BY DEF Publishes, Only, Keeps
  <2>3. \A u \in Threads \ {t} : th'[u].pc = th[u].pc /\ th'[u].d = th[u].d /\ (th'[u].fresh => th[u].fresh)
    BY DEF Publishes, OthersStay, Stays
  <2>4. th'[t].pc \notin {"chain", "adding", "moving"}
    BY DEF Publishes, Owns, Naming
  <2>5. \A u \in Threads : Owns(u) => th[u].d \in Dentries
    BY <2>1 DEF Own
  <2>6. \A u \in Threads \ {t} : At(u, "chain") /\ th[u].fresh => ~ SameName(th[u].d, th[t].d)
    <3>1. CASE At(t, "adding")
      BY <3>1 DEF FreshLook, At
    <3>2. CASE At(t, "anon")
      BY <2>1, <3>2, TreeAssumption DEF Own, Owns, Naming, SameName, At
    <3>3. QED
      BY <3>1, <3>2 DEF Publishes, At
  <2>7. QED
    BY <2>2, <2>3, <2>4, <2>5, <2>6 DEF FreshLook, SameName, Owns, Naming, At
<1>12. QED
  BY <1>1, <1>2, <1>3, <1>4, <1>5, <1>6, <1>7, <1>8, <1>9, <1>10, <1>11

LEMMA ReplacesKeeps ==
  ASSUME TreeInv, DnTyped', ThTyped', NEW t \in Threads, Replaces(t)
  PROVE  TreeInv'
<1> USE DEF TreeInv
<1>a. PICK d, a : d = th[t].d /\ a = th[t].a
  OBVIOUS
<1>b. /\ th[t].pc = "moving" /\ ~ Owns(t)' /\ ~ At(t, "mount")'
      /\ \A x \in Dentries \ {d, a} : dn'[x] = dn[x]
      /\ ~ dn'[d].live /\ ~ dn'[d].hashed /\ ~ dn'[d].lookup /\ dn'[d].inode = Nobody
      /\ dn'[a].live = dn[a].live /\ dn'[a].parent = dn[d].parent /\ dn'[a].name = dn[d].name
      /\ dn'[a].lookup = dn[a].lookup /\ dn'[a].inode = dn[a].inode
      /\ rename_lock' = Nobody
  BY <1>a DEF Replaces, Only, NoDentry, At
<1>c. \A u \in Threads \ {t} : /\ th'[u].pc = th[u].pc /\ th'[u].d = th[u].d /\ th'[u].p = th[u].p
                               /\ th'[u].a = th[u].a /\ th'[u].i = th[u].i
  BY DEF Replaces, OthersStay, Stays
<1>d. /\ Own(t) /\ Owns(t) /\ MayFail(t) /\ d \in Dentries /\ a \in Dentries /\ a # d
      /\ dn[a].live /\ dn[d].live /\ dn[d].name \in Names /\ dn[d].parent # d /\ rename_lock = t
      /\ \A u \in Threads : Owns(u) => th[u].d # a
  BY <1>a, <1>b DEF Owned, Own, Owns, Naming, MayFail, Aliased, At
<1>e. \A u \in Threads : /\ Owns(u)' => u # t /\ Owns(u) /\ th'[u].d = th[u].d
                         /\ MayFail(u)' => u # t /\ MayFail(u) /\ th'[u].d = th[u].d
  BY <1>b, <1>c DEF MayFail, Owns, Naming, At
<1>f. \A x \in Dentries \ {d} : dn[x].live => dn[x].parent # d
  BY <1>a, <1>d DEF Childless
<1>g. \A u \in Threads \ {t} : Owns(u) => Own(u) /\ th[u].d \in Dentries \ {d, a}
  BY <1>a, <1>d DEF Owned, Own
<1>1. DeadBlank'
  BY <1>b, <1>d DEF DeadBlank
<1>2. Parents'
  <2>1. \A x \in Dentries : dn[x].live => /\ dn[x].parent \in Dentries /\ dn[dn[x].parent].live
                                         /\ dn[x].parent # d
    BY <1>d, <1>f DEF Parents
  <2>2. \A x \in Dentries \ {d} : dn'[x].live = dn[x].live
    BY <1>b
  <2>3. ASSUME NEW x \in Dentries, dn'[x].live
        PROVE  dn'[x].parent \in Dentries /\ dn'[dn'[x].parent].live
    <3>1. CASE x = a
      BY <1>b, <1>d, <2>1, <2>2, <3>1
    <3>2. CASE x # a
      <4>1. x # d /\ dn'[x] = dn[x] /\ dn[x].live
        BY <1>b, <2>3, <3>2
      <4>2. QED
        BY <2>1, <2>2, <4>1
    <3>3. QED
      BY <3>1, <3>2
  <2>4. QED
    BY <2>3 DEF Parents
<1>3. Named'
  BY <1>b, <1>d DEF Named, IsRoot
<1>4. Owned'
  <2> SUFFICES ASSUME NEW u \in Threads, Owns(u)'
               PROVE  Own(u)'
    BY DEF Owned
  <2>1. u # t /\ Owns(u) /\ Own(u) /\ dn'[th[u].d] = dn[th[u].d]
    BY <1>b, <1>e, <1>g
  <2>2. \A v \in Threads \ {u} : Owns(v)' => th'[v].d # th[u].d
    BY <1>e, <2>1 DEF Own
  <2>3. QED
    BY <1>c, <2>1, <2>2 DEF Naming, Own, At
<1>5. Childless'
  <2>1. \A u \in Threads : MayFail(u)' =>
          /\ \A c \in Dentries \ {th[u].d} : dn[c].live => dn[c].parent # th[u].d
          /\ th[u].d \in Dentries \ {d, a} /\ th'[u].d = th[u].d
    BY <1>e, <1>g DEF Childless, MayFail
  <2>2. QED
    BY <1>a, <1>b, <1>d, <2>1 DEF Childless, Own
<1>6. InLookup'
  <2>1. ~ dn'[d].lookup /\ th[t].pc \notin {"fs", "splice"}
    BY <1>b
  <2>2. QED
    BY <1>b, <1>c, <2>1 DEF InLookup
<1>7. Aliased'
  <2>1. \A u \in Threads : th'[u].pc \in {"splice", "moving"} =>
          /\ u # t /\ th'[u].pc = "splice" /\ th[u].pc = "splice" /\ th'[u].a = th[u].a
          /\ th[u].a \in Dentries \ {d}
    BY <1>a, <1>b, <1>c, <1>d DEF Owns, Naming, Aliased, At
  <2>2. QED
    BY <1>b, <1>e, <2>1 DEF Aliased, At
<1>8. Mounting'
  <2>1. \A u \in Threads : ~ At(u, "mount")'
    BY <1>b, <1>c, <1>d DEF Mounting, At
  <2>2. QED
    BY <2>1 DEF Mounting
<1>9. ClaimedOnce'
  <2>1. Own(t) /\ th[t].a \in Dentries \ {th[t].d}
    BY DEF Replaces, Owned, Owns, Naming, Aliased, At
  <2>2. \A u \in Threads : Claims(u)' =>
          u # t /\ Claims(u) /\ th'[u].d = th[u].d /\ th[u].d \in Dentries \ {th[t].d, th[t].a}
    BY DEF Replaces, OthersStay, Stays, Claims, Owned, Own, Owns, Naming, Aliased, At
  <2>3. \A x \in Dentries \ {th[t].d, th[t].a} : dn'[x] = dn[x]
    BY DEF Replaces, Only
  <2>4. ~ dn'[th[t].d].hashed
    BY DEF Replaces, NoDentry
  <2>5. \A u \in Threads \ {t} : Claims(u) => ~ SameName(th[u].d, th[t].d)
    BY DEF Replaces, ClaimedOnce, Claims, At
  <2>6. \A u \in Threads : Claims(u)' =>
          ~ (dn'[th[u].d].parent = dn'[th[t].a].parent /\ dn'[th[u].d].name = dn'[th[t].a].name)
    BY <2>1, <2>2, <2>3, <2>5 DEF Replaces, SameName
  <2>7. \A u \in Threads : Claims(u)' =>
          \A x \in Dentries : dn'[x].hashed =>
            ~ (dn'[th[u].d].parent = dn'[x].parent /\ dn'[th[u].d].name = dn'[x].name)
    BY <2>2, <2>3, <2>4, <2>6 DEF ClaimedOnce, SameName
  <2>8. \A u, v \in Threads : Claims(u)' /\ Claims(v)' /\ u # v =>
          ~ (dn'[th[u].d].parent = dn'[th[v].d].parent /\ dn'[th[u].d].name = dn'[th[v].d].name)
    BY <2>2, <2>3 DEF ClaimedOnce, SameName
  <2>9. QED
    BY <2>2, <2>7, <2>8 DEF ClaimedOnce, SameName
<1>10. HashedOnce'
  <2>1. th[t].a \in Dentries /\ th[t].d \in Dentries /\ th[t].a # th[t].d
    BY DEF Replaces, Owned, Own, Owns, Naming, Aliased, At
  <2>2. \A e \in Dentries : dn[e].hashed => ~ SameName(th[t].d, e)
    BY DEF Replaces, ClaimedOnce, Claims, At
  <2>3. /\ \A x \in Dentries \ {th[t].d, th[t].a} : dn'[x] = dn[x]
        /\ ~ dn'[th[t].d].hashed
        /\ dn'[th[t].a].parent = dn[th[t].d].parent /\ dn'[th[t].a].name = dn[th[t].d].name
    BY DEF Replaces, Only, NoDentry
  <2>4. QED
    BY <2>1, <2>2, <2>3 DEF HashedOnce, SameName
<1>11. FreshLook'
  <2>1. Own(t) /\ th[t].a \in Dentries
    BY DEF Replaces, Owned, Owns, Naming, Aliased, At
  <2>2. \A u \in Threads : At(u, "chain")' =>
          u # t /\ At(u, "chain") /\ th'[u].d = th[u].d /\ th[u].d \in Dentries \ {th[t].d, th[t].a}
    BY DEF Replaces, OthersStay, Stays, Owned, Own, Owns, Naming, Aliased, At
  <2>3. \A u \in Threads : th'[u].pc \in {"adding", "moving"} =>
          u # t /\ th[u].pc = th'[u].pc /\ th'[u].d = th[u].d /\ th[u].d \in Dentries \ {th[t].d, th[t].a}
    BY DEF Replaces, OthersStay, Stays, Owned, Own, Owns, Naming, Aliased, At
  <2>4. \A x \in Dentries \ {th[t].d, th[t].a} : dn'[x] = dn[x]
    BY DEF Replaces, Only
  <2>5. \A x \in Dentries : dn'[x].hashed => x # th[t].d
    BY DEF Replaces, NoDentry
  <2>6. \A u \in Threads : At(u, "chain")' /\ th'[u].fresh =>
          th[u].fresh /\ ~ SameName(th[u].d, th[t].d)
    BY <2>2 DEF Replaces, OthersStay, Stays, FreshLook, At
  <2>7. ASSUME NEW u \in Threads, At(u, "chain")', th'[u].fresh
        PROVE  /\ \A x \in Dentries : dn'[x].hashed => ~ SameName(th[u].d, x)'
               /\ \A v \in Threads : th'[v].pc \in {"adding", "moving"} => ~ SameName(th[u].d, th[v].d)'
    <3>1. \A x \in Dentries \ {th[t].d, th[t].a} : dn'[x].hashed => ~ SameName(th[u].d, x)'
      BY <2>2, <2>4, <2>6, <2>7 DEF FreshLook, SameName
    <3>2. ~ (dn'[th[u].d].parent = dn'[th[t].a].parent /\ dn'[th[u].d].name = dn'[th[t].a].name)
      BY <2>1, <2>2, <2>4, <2>6, <2>7 DEF Replaces, SameName
    <3>3. \A v \in Threads : th'[v].pc \in {"adding", "moving"} => ~ SameName(th[u].d, th[v].d)'
      BY <2>2, <2>3, <2>4, <2>6, <2>7 DEF FreshLook, SameName
    <3>4. QED
      BY <2>2, <2>5, <2>7, <3>1, <3>2, <3>3 DEF SameName
  <2>8. QED
    BY <2>7 DEF FreshLook
<1>12. QED
  BY <1>1, <1>2, <1>3, <1>4, <1>5, <1>6, <1>7, <1>8, <1>9, <1>10, <1>11

LEMMA RevivesKeeps ==
  ASSUME TreeInv, DnTyped', ThTyped', NEW t \in Threads, NEW e \in Dentries, Revives(t, e)
  PROVE  TreeInv'
<1> USE DEF TreeInv
<1>a. PICK d : d = th[t].d
  OBVIOUS
<1>b. /\ th[t].pc = "fs" /\ ~ Owns(t)' /\ d # e /\ dn[e].live /\ SameName(d, e)
      /\ \A x \in Dentries \ {d} : /\ dn'[x].live = dn[x].live /\ dn'[x].parent = dn[x].parent
                                   /\ dn'[x].name = dn[x].name /\ dn'[x].inode = dn[x].inode
                                   /\ dn'[x].lookup = dn[x].lookup /\ (x # e => dn'[x] = dn[x])
      /\ ~ dn'[d].live /\ ~ dn'[d].hashed /\ ~ dn'[d].lookup
  <2>1. th[t].pc = "fs" /\ ~ Owns(t)' /\ d # e /\ dn[e].live /\ SameName(d, e)
    BY <1>a DEF Revives, Same, SameName, At
  <2>2. /\ \A x \in Dentries \ {d, e} : dn'[x] = dn[x]
        /\ dn'[e].live = dn[e].live /\ dn'[e].parent = dn[e].parent /\ dn'[e].name = dn[e].name
        /\ dn'[e].lookup = dn[e].lookup /\ dn'[e].inode = dn[e].inode
    BY <1>a DEF Revives, Only, Keeps
  <2>3. ~ dn'[d].live /\ ~ dn'[d].hashed /\ ~ dn'[d].lookup
    BY <1>a DEF Revives, NoDentry
  <2>4. QED
    BY <2>1, <2>2, <2>3
<1>c. \A u \in Threads \ {t} : /\ th'[u].pc = th[u].pc /\ th'[u].d = th[u].d /\ th'[u].p = th[u].p
                               /\ th'[u].a = th[u].a /\ th'[u].i = th[u].i
                               /\ th'[u].fresh => th[u].fresh
  BY DEF Revives, OthersStay, Stays
<1>d. Own(t) /\ Owns(t) /\ d \in Dentries /\ th[t].p = dn[d].parent /\ dn[d].name \in Names
  BY <1>a, <1>b DEF Owned, Own, Owns, Naming, At
<1>e. \A u \in Threads : /\ Owns(u)' => u # t /\ Owns(u) /\ th'[u].d = th[u].d
                         /\ MayFail(u)' => u # t /\ MayFail(u) /\ th'[u].d = th[u].d
  BY <1>b, <1>c DEF MayFail, Owns, Naming, At
<1>f. \A u \in Threads \ {t} : ~ Shares(u, dn[d].parent)
  BY <1>d DEF Revives
<1>1. DeadBlank'
  <2>1. dn[e].live /\ e # th[t].d
    BY DEF Revives, Same
  <2>2. \A x \in Dentries \ {th[t].d, e} : dn'[x] = dn[x]
    BY DEF Revives, Only
  <2>3. dn'[e].live
    BY <2>1 DEF Revives, Keeps
  <2>4. dn'[th[t].d] = NoDentry
    BY DEF Revives
  <2>5. QED
    BY <2>2, <2>3, <2>4 DEF NoDentry, DeadBlank
<1>2. Parents'
  <2>1. \A x \in Dentries \ {th[t].d} : /\ dn'[x].live = dn[x].live /\ dn'[x].parent = dn[x].parent
                                        /\ dn[x].live => dn[x].parent # th[t].d
    BY DEF Revives, Only, Keeps, Childless, MayFail, Owns, Naming, At
  <2>2. ~ dn'[th[t].d].live \/ th[t].d \notin Dentries
    BY DEF Revives, NoDentry
  <2>3. QED
    BY <2>1, <2>2 DEF Parents
<1>3. Named'
  BY <1>b DEF Named, IsRoot
<1>4. Owned'
  <2> SUFFICES ASSUME NEW u \in Threads, Owns(u)'
               PROVE  Own(u)'
    BY DEF Owned
  <2>1. u # t /\ Owns(u) /\ Own(u) /\ th[u].d \in Dentries \ {d}
    BY <1>a, <1>d, <1>e DEF Owned, Own
  <2>2. th[u].d # e
    <3>1. SUFFICES ASSUME th[u].d = e PROVE FALSE
      OBVIOUS
    <3>2. dn[th[u].d].parent = dn[d].parent /\ dn[th[u].d].name \in Names
      BY <1>b, <1>d, <3>1 DEF SameName
    <3>3. th[u].pc # "anon"
      BY <2>1, <3>2, TreeAssumption DEF Own, At
    <3>4. th[u].pc \in {"look", "chain", "wait", "fs", "splice"} => th[u].p = dn[d].parent
      BY <2>1, <3>2 DEF Own
    <3>5. QED
      BY <1>f, <2>1, <3>2, <3>3, <3>4 DEF Shares, Owns, Naming, At
  <2>3. dn'[th[u].d] = dn[th[u].d]
    BY <1>b, <2>1, <2>2
  <2>4. \A v \in Threads \ {u} : Owns(v)' => th'[v].d # th[u].d
    BY <1>e, <2>1 DEF Own
  <2>5. QED
    BY <1>c, <2>1, <2>3, <2>4 DEF Naming, Own, At
<1>5. Childless'
  BY <1>b, <1>e DEF Childless
<1>6. InLookup'
  BY <1>a, <1>b, <1>c DEF InLookup
<1>7. Aliased'
  <2>1. \A v \in Threads : th'[v].pc \in {"splice", "moving"} =>
          v # t /\ th[v].pc = th'[v].pc /\ th'[v].a = th[v].a /\ th[v].a # th[t].d
    BY DEF Revives, OthersStay, Stays, Owns, Naming, At, Aliased
  <2>2. \A v \in Threads : Owns(v)' => v # t /\ Owns(v) /\ th'[v].d = th[v].d
    BY DEF Revives, OthersStay, Stays, Owns, Naming, At
  <2>3. dn[e].parent = th[t].p
    BY DEF Revives, Same, Owned, Own, Owns, Naming, At
  <2>4. \A v \in Threads \ {t} : At(v, "moving") => th[v].a # e
    BY <2>3 DEF Revives, Shares
  <2>5. QED
    BY <2>1, <2>2, <2>4 DEF Revives, Only, Keeps, Aliased, At
<1>8. Mounting'
  <2>1. \A v \in Threads : At(v, "mount")' =>
          v # t /\ At(v, "mount") /\ th'[v].p = th[v].p /\ th[v].p # th[t].d
    BY DEF Revives, OthersStay, Stays, MayFail, Owns, Naming, At, Mounting
  <2>2. \A v \in Threads : MayFail(v)' => v # t /\ MayFail(v) /\ th'[v].d = th[v].d
    BY DEF Revives, OthersStay, Stays, MayFail, Owns, Naming, At
  <2>3. QED
    BY <2>1, <2>2 DEF Revives, Only, Keeps, Mounting
<1>9. ClaimedOnce'
  <2>1. \A u \in Threads : Owns(u) => Own(u)
    BY DEF Owned
  <2>2. \A u \in Threads : Claims(u)' =>
          u # t /\ Claims(u) /\ th'[u].d = th[u].d /\ th[u].d \in Dentries \ {th[t].d}
    BY <2>1 DEF Revives, OthersStay, Stays, Claims, Own, Owns, Naming, At
  <2>3. \A x \in Dentries \ {th[t].d} : /\ dn'[x].parent = dn[x].parent /\ dn'[x].name = dn[x].name
                                        /\ dn'[x].hashed => dn[x].hashed \/ x = e
    BY DEF Revives, Only, Keeps
  <2>4. ~ dn'[th[t].d].hashed
    BY DEF Revives, NoDentry
  <2>5. SameName(th[t].d, e) /\ e # th[t].d
    BY DEF Revives, Same, SameName
  <2>6. \A u \in Threads \ {t} : Claims(u) => ~ SameName(th[u].d, e)
    BY <2>5 DEF ClaimedOnce, Claims, Revives, SameName, At
  <2>7. \A u \in Threads \ {t} : Claims(u) => \A x \in Dentries \ {th[t].d} : dn'[x].hashed => ~ SameName(th[u].d, x)
    BY <2>3, <2>6 DEF ClaimedOnce
  <2>8. QED
    BY <2>2, <2>3, <2>4, <2>7 DEF ClaimedOnce, SameName
<1>10. HashedOnce'
  <2>1. \A x \in Dentries : dn[x].hashed => ~ SameName(d, x)
    BY <1>a, <1>b DEF ClaimedOnce, Claims
  <2>2. \A x \in Dentries : dn[x].hashed => ~ SameName(e, x)
    BY <1>b, <2>1 DEF SameName
  <2>3. QED
    BY <1>b, <2>2 DEF HashedOnce, SameName
<1>11. FreshLook'
  <2>1. \A u \in Threads : th'[u].pc \in {"chain", "adding", "moving"} =>
          u # t /\ th[u].pc = th'[u].pc /\ th'[u].d = th[u].d /\ th[u].d \in Dentries \ {d}
    BY <1>a, <1>b, <1>c, <1>d DEF Owned, Own, Owns, Naming, At
  <2>2. ASSUME NEW u \in Threads \ {t}, At(u, "chain")
        PROVE  ~ SameName(th[u].d, e)
    <3>1. th[u].p = dn[th[u].d].parent
      BY <2>2 DEF Owned, Own, Owns, Naming, At
    <3>2. th[u].p # dn[d].parent
      BY <1>f, <2>2 DEF Shares, At
    <3>3. QED
      BY <1>b, <3>1, <3>2 DEF SameName
  <2>3. \A x \in Dentries : dn'[x].hashed => x # d /\ (dn[x].hashed \/ x = e)
    BY <1>b
  <2>4. QED
    BY <1>b, <1>c, <2>1, <2>2, <2>3 DEF FreshLook, SameName, At
<1>12. QED
  BY <1>1, <1>2, <1>3, <1>4, <1>5, <1>6, <1>7, <1>8, <1>9, <1>10, <1>11

LEMMA RenamesKeeps ==
  ASSUME TreeInv, DnTyped', ThTyped', NEW d \in Dentries, NEW e \in Dentries, Renames(d, e)
  PROVE  TreeInv'
<1> USE TreeAssumption DEF TreeInv
<1>1. /\ dn[d].live /\ dn[e].live /\ dn[d].name \in Names /\ dn[e].name \in Names
      /\ dn[d].parent # d /\ dn[e].parent # e
  BY DEF Renames, DeadBlank, Named, IsRoot
<1>2. \A u \in Threads : Owns(u) =>
        th[u].d \in Dentries \ {d, e} /\ th[u].d \notin {d, e} /\ dn'[th[u].d] = dn[th[u].d]
  BY DEF Renames, Owned, Own, Only
<1>3. \A u \in Threads : Stays(u)
  BY DEF Renames
<1>4. \A x \in Dentries : /\ dn'[x].live = dn[x].live /\ dn'[x].lookup = dn[x].lookup
                          /\ dn'[x].inode = dn[x].inode
                          /\ dn'[x].hashed => dn[x].hashed \/ x \in {d, e}
  BY DEF Renames, Only, Keeps
<1>5. \A x \in Dentries : \E y \in Dentries :
        /\ dn[y].live = dn[x].live /\ dn[y].hashed = dn[x].hashed /\ (x \in {d, e} <=> y \in {d, e})
        /\ dn'[x].parent = dn[y].parent /\ dn'[x].name = dn[y].name
        /\ x \notin {d, e} => y = x
  BY <1>1 DEF Renames, Only, Keeps
<1>6. DeadBlank'
  BY <1>1, <1>4 DEF DeadBlank, Renames
<1>7. Parents'
  <2> SUFFICES ASSUME NEW x \in Dentries, dn'[x].live
               PROVE  dn'[x].parent \in Dentries /\ dn'[dn'[x].parent].live
    BY DEF Parents
  <2>1. PICK y \in Dentries : dn[y].live = dn[x].live /\ dn'[x].parent = dn[y].parent
    BY <1>5
  <2>2. dn[y].parent \in Dentries /\ dn[dn[y].parent].live
    BY <1>4, <2>1 DEF Parents
  <2>3. QED
    BY <1>4, <2>1, <2>2
<1>8. Named'
  <2>1. \A x \in Dentries \ {d, e} : dn'[x] = dn[x]
    BY DEF Renames, Only
  <2>2. dn'[d].name \in Names /\ dn'[e].name \in Names
    BY <1>1 DEF Renames, Keeps
  <2>3. QED
    BY <2>1, <2>2 DEF Named, IsRoot
<1>9. Owned'
  BY <1>2, <1>3 DEF Owned, Own, Owns, Naming, At, Stays
<1>10. Childless'
  BY <1>2, <1>3, <1>4, <1>5 DEF Childless, MayFail, Owns, Naming, At, Stays
<1>11. InLookup'
  BY <1>3, <1>4 DEF InLookup, Stays
<1>12. Aliased'
  BY <1>3, <1>4 DEF Aliased, Renames, Owns, Naming, At, Stays
<1>13. Mounting'
  BY <1>3, <1>4 DEF Mounting, Renames, MayFail, Owns, Naming, At, Stays
<1>14. \A x \in Dentries : dn'[x].hashed => \E y \in Dentries :
         dn[y].hashed /\ dn'[x].parent = dn[y].parent /\ dn'[x].name = dn[y].name
  BY ZenonT(30) DEF Renames, Only, Keeps
<1>15. ClaimedOnce'
  BY <1>2, <1>3, <1>14 DEF ClaimedOnce, Claims, SameName, Owns, Naming, At, Stays
<1>16. HashedOnce'
  <2>1. \A x \in Dentries \ {d, e} : dn'[x] = dn[x]
    BY DEF Renames, Only
  <2>2. \A x \in Dentries \ {d, e} : dn[x].hashed => ~ SameName(d, x) /\ ~ SameName(e, x)
    BY <1>1 DEF Renames, HashedOnce
  <2>3. ~ SameName(d, e)
    BY <1>1 DEF Renames, HashedOnce
  <2>4. \A x \in Dentries \ {d, e} : dn[x].hashed =>
          ~ SameName(d, x)' /\ ~ (dn'[e].hashed /\ SameName(e, x)')
    BY <2>1, <2>2 DEF Renames, SameName, Keeps
  <2>5. ~ (dn'[e].hashed /\ SameName(d, e)')
    BY <2>3 DEF Renames, SameName, Keeps
  <2>6. QED
    BY <2>1, <2>4, <2>5 DEF HashedOnce, SameName
<1>17. FreshLook'
  <2>1. \A u \in Threads : th'[u].pc \in {"chain", "adding", "moving"} =>
          /\ th[u].pc = th'[u].pc /\ th'[u].d = th[u].d
          /\ dn'[th[u].d].parent = dn[th[u].d].parent /\ dn'[th[u].d].name = dn[th[u].d].name
    BY <1>2, <1>3 DEF Owns, Naming, Stays
  <2>2. \A u \in Threads : th'[u].fresh => th[u].fresh
    BY <1>3 DEF Stays
  <2>3. QED
    BY <1>14, <2>1, <2>2 DEF FreshLook, SameName, At
<1>18. QED
  BY <1>6, <1>7, <1>8, <1>9, <1>10, <1>11, <1>12, <1>13, <1>15, <1>16, <1>17

-----------------------------------------------------------------------------
(* Each step is of a kind                                                  *)

LEMMA LookupSort ==
  ASSUME TreeInv, NEW t \in Threads, NEW p \in Dentries, NEW n \in Names, NEW d \in Dentries, Lookup(t, p, n, d)
  PROVE  DnTyped' /\ ThTyped' /\ (Allocates(t))
<1> USE TreeAssumption DEF TreeInv
<1>1. DnTyped'
  BY DentryFields, DentryValues, ThreadValues, NoDentryTyped DEF DnTyped, Lookup, Fails, Returns, Goes, DirChanged, Renamed, At, Labels, Free
<1>2. ThTyped'
  BY ThreadFields, ThreadValues, DentryValues, IdleTyped, EmptyStack DEF ThTyped, Lookup, Fails, Returns, Goes, DirChanged, Renamed, At, Labels, Free
<1>3. Allocates(t)
  BY DentryValues DEF Allocates, Only, OthersStay, Stays, Owns, Naming, DnTyped, ThTyped, Dentry, Thread, NoDentry, Idle, Lookup, Fails, Returns, Goes, DirChanged, Renamed, At, Labels, Free, DeadBlank
<1>4. QED
  BY <1>1, <1>2, <1>3

LEMMA FoundSort ==
  ASSUME TreeInv, NEW t \in Threads, Found(t)
  PROVE  DnTyped' /\ ThTyped' /\ (Withdraws(t))
<1> USE TreeAssumption DEF TreeInv
<1>1. Own(t)
  BY DEF Found, Owned, Owns, Naming, At
<1>2. th[t].d \in Dentries
  BY <1>1 DEF Own
<1>3. DnTyped'
  BY <1>2, DentryFields, DentryValues, ThreadValues, NoDentryTyped DEF DnTyped, Found, Fails, Returns, Goes, DirChanged, Renamed, At, Labels, Free
<1>4. ThTyped'
  BY <1>2, ThreadFields, ThreadValues, DentryValues, IdleTyped, EmptyStack DEF ThTyped, Found, Fails, Returns, Goes, DirChanged, Renamed, At, Labels, Free
<1>5. Withdraws(t)
  BY <1>1, <1>2 DEF Withdraws, OthersStay, Stays, MayFail, Owns, Naming, DnTyped, ThTyped, Dentry, Thread, NoDentry, Idle, Found, Fails, Returns, Goes, DirChanged, Renamed, At, Labels, Free, Own
<1>6. QED
  BY <1>3, <1>4, <1>5

LEMMA NotFoundSort ==
  ASSUME TreeInv, NEW t \in Threads, NotFound(t)
  PROVE  DnTyped' /\ ThTyped' /\ (GoesOn(t))
<1> USE TreeAssumption DEF TreeInv
<1>1. Own(t)
  BY DEF NotFound, Owned, Owns, Naming, At
<1>2. th[t].d \in Dentries
  BY <1>1 DEF Own
<1>3. DnTyped'
  BY <1>2, DentryFields, DentryValues, ThreadValues, NoDentryTyped DEF DnTyped, NotFound, Fails, Returns, Goes, DirChanged, Renamed, At, Labels, Free
<1>4. ThTyped'
  BY <1>2, ThreadFields, ThreadValues, DentryValues, IdleTyped, EmptyStack DEF ThTyped, NotFound, Fails, Returns, Goes, DirChanged, Renamed, At, Labels, Free
<1>5. GoesOn(t)
  BY <1>1, <1>2 DEF GoesOn, OthersStay, Stays, DnTyped, ThTyped, Dentry, Thread, NoDentry, Idle, NotFound, Fails, Returns, Goes, DirChanged, Renamed, At, Labels, Free, Own
<1>6. QED
  BY <1>3, <1>4, <1>5

LEMMA ChainSort ==
  ASSUME TreeInv, NEW t \in Threads, Chain(t)
  PROVE  DnTyped' /\ ThTyped' /\ (GoesOn(t) \/ Claiming(t))
<1> USE TreeAssumption DEF TreeInv
<1>1. Own(t)
  BY DEF Chain, Owned, Owns, Naming, At
<1>2. th[t].d \in Dentries
  BY <1>1 DEF Own
<1>3. CASE Goes(t, "look") /\ UNCHANGED dn
  <2>1. ThTyped'
    BY <1>3, ThreadFields, ThreadValues DEF Goes, ThTyped, Labels
  <2>2. GoesOn(t)
    <3>1. /\ th'[t].pc = "look" /\ th'[t].d = th[t].d /\ th'[t].p = th[t].p
          /\ \A u \in Threads \ {t} : th'[u] = th[u]
      BY <1>3 DEF Goes, ThTyped, Thread
    <3>2. QED
      BY <1>3, <3>1 DEF GoesOn, OthersStay, Stays, Chain, At
  <2>3. QED
    BY <1>3, <2>1, <2>2 DEF DnTyped
<1>4. ASSUME NEW e \in Dentries, UNCHANGED dn,
             th' = [th EXCEPT ![t].pc = "wait", ![t].a = e, ![t].fresh = FALSE]
      PROVE  DnTyped' /\ ThTyped' /\ GoesOn(t)
  <2>1. ThTyped'
    <3>1. [th[t] EXCEPT !.pc = "wait", !.a = e, !.fresh = FALSE] \in Thread
      BY ThreadFields, ThreadValues DEF Labels
    <3>2. QED
      BY <1>4, <3>1 DEF ThTyped
  <2>2. GoesOn(t)
    <3>1. /\ th'[t].pc = "wait" /\ th'[t].d = th[t].d /\ th'[t].p = th[t].p
          /\ \A u \in Threads \ {t} : th'[u] = th[u]
      BY <1>4 DEF ThTyped, Thread
    <3>2. QED
      BY <1>4, <3>1 DEF GoesOn, OthersStay, Stays, Chain, At
  <2>3. QED
    BY <1>4, <2>1, <2>2 DEF DnTyped
<1>5. CASE /\ Unchanged(t) /\ {e \in Dentries : dn[e].lookup /\ Same(th[t].d, e)} = {}
           /\ dn' = [dn EXCEPT ![th[t].d].lookup = TRUE]
           /\ th' = [th EXCEPT ![t].pc = "fs", ![t].fresh = FALSE]
  <2>1. ThTyped'
    <3>1. [th[t] EXCEPT !.pc = "fs", !.fresh = FALSE] \in Thread
      BY ThreadFields, ThreadValues DEF Labels
    <3>2. QED
      BY <1>5, <3>1 DEF ThTyped
  <2>2. DnTyped'
    BY <1>2, <1>5, DentryFields, DentryValues DEF DnTyped
  <2>3. /\ th'[t].pc = "fs" /\ th'[t].d = th[t].d /\ th'[t].p = th[t].p
        /\ \A u \in Threads \ {t} : th'[u] = th[u]
    BY <1>5 DEF ThTyped, Thread
  <2>4. /\ \A x \in Dentries \ {th[t].d} : dn'[x] = dn[x]
        /\ Keeps(th[t].d) /\ dn'[th[t].d].inode = dn[th[t].d].inode
        /\ dn'[th[t].d].hashed = dn[th[t].d].hashed /\ dn'[th[t].d].lookup
    BY <1>2, <1>5 DEF DnTyped, Dentry, Keeps
  <2>5. Claiming(t)
    BY <1>1, <1>5, <2>3, <2>4 DEF Claiming, Chain, Unchanged, OthersStay, Stays, Only, Own, At
  <2>6. QED
    BY <2>1, <2>2, <2>5
<1>6. QED
  BY <1>3, <1>4, <1>5 DEF Chain

LEMMA WaitedSort ==
  ASSUME TreeInv, NEW t \in Threads, Waited(t)
  PROVE  DnTyped' /\ ThTyped' /\ (Withdraws(t) \/ GoesOn(t))
<1> USE TreeAssumption DEF TreeInv
<1>1. Own(t)
  BY DEF Waited, Owned, Owns, Naming, At
<1>2. th[t].d \in Dentries
  BY <1>1 DEF Own
<1>3. DnTyped'
  BY <1>2, NoDentryTyped, DentryValues DEF DnTyped, Waited
<1>4. ThTyped'
  <2>1. [th[t] EXCEPT !.pc = "look", !.a = Nobody] \in Thread
    BY ThreadFields, ThreadValues DEF Labels
  <2>2. th' = [th EXCEPT ![t] = Idle] \/ th' = [th EXCEPT ![t] = [th[t] EXCEPT !.pc = "look", !.a = Nobody]]
    BY DEF Waited, Returns
  <2>3. QED
    BY <2>1, <2>2, IdleTyped DEF ThTyped
<1>5. Withdraws(t) \/ GoesOn(t)
  BY <1>1, <1>2 DEF Withdraws, GoesOn, OthersStay, Stays, MayFail, Owns, Naming, Waited, Returns, At, Own,
                    DnTyped, ThTyped, Dentry, Thread, NoDentry, Idle
<1>6. QED
  BY <1>3, <1>4, <1>5

LEMMA FsErrorSort ==
  ASSUME TreeInv, NEW t \in Threads, FsError(t)
  PROVE  DnTyped' /\ ThTyped' /\ (Withdraws(t))
<1> USE TreeAssumption DEF TreeInv
<1>1. Own(t)
  BY DEF FsError, Owned, Owns, Naming, At
<1>2. th[t].d \in Dentries
  BY <1>1 DEF Own
<1>3. DnTyped'
  BY <1>2, DentryFields, DentryValues, ThreadValues, NoDentryTyped DEF DnTyped, FsError, Fails, Returns, Goes, DirChanged, Renamed, At, Labels, Free
<1>4. ThTyped'
  BY <1>2, ThreadFields, ThreadValues, DentryValues, IdleTyped, EmptyStack DEF ThTyped, FsError, Fails, Returns, Goes, DirChanged, Renamed, At, Labels, Free
<1>5. Withdraws(t)
  BY <1>1, <1>2 DEF Withdraws, OthersStay, Stays, MayFail, Owns, Naming, DnTyped, ThTyped, Dentry, Thread, NoDentry, Idle, FsError, Fails, Returns, Goes, DirChanged, Renamed, At, Labels, Free, Own
<1>6. QED
  BY <1>3, <1>4, <1>5

\* What a change of a sequence does to the threads.
LEMMA SequenceSteps ==
  ASSUME NEW f \in [Threads -> Thread], NEW p, NEW u \in Threads
  PROVE  /\ DirChanged(f, p)[u] \in Thread /\ Renamed(f)[u] \in Thread
         /\ DirChanged(f, p) \in [Threads -> Thread] /\ Renamed(f) \in [Threads -> Thread]
         /\ \A g \in {DirChanged(f, p)[u], Renamed(f)[u]} :
              /\ g.pc = f[u].pc /\ g.d = f[u].d /\ g.p = f[u].p /\ g.a = f[u].a /\ g.i = f[u].i
              /\ g.fresh => f[u].fresh
         /\ DirChanged(f, p)[u].fresh => f[u].p # p
<1>1. \A v \in Threads :
        /\ DirChanged(f, p)[v] = [f[v] EXCEPT !.fresh = IF f[v].fresh /\ f[v].p # p THEN TRUE ELSE FALSE]
        /\ Renamed(f)[v] = [f[v] EXCEPT !.still = FALSE]
  <2>1. \A v \in Threads : f[v].fresh \in BOOLEAN
    BY DEF Thread
  <2>2. QED
    BY <2>1 DEF DirChanged, Renamed
<1>2. \A v \in Threads : DirChanged(f, p)[v] \in Thread /\ Renamed(f)[v] \in Thread
  <2>1. \A v \in Threads : DirChanged(f, p)[v] \in {[f[v] EXCEPT !.fresh = TRUE], [f[v] EXCEPT !.fresh = FALSE]}
    BY <1>1
  <2>2. \A v \in Threads : f[v] \in Thread
    OBVIOUS
  <2>3. \A v \in Threads : /\ [f[v] EXCEPT !.fresh = TRUE] \in Thread
                           /\ [f[v] EXCEPT !.fresh = FALSE] \in Thread
                           /\ [f[v] EXCEPT !.still = FALSE] \in Thread
    BY <2>2, ThreadFields
  <2>4. QED
    BY <1>1, <2>1, <2>3
<1>3. DirChanged(f, p) \in [Threads -> Thread] /\ Renamed(f) \in [Threads -> Thread]
  BY <1>2 DEF DirChanged, Renamed
<1>4. f[u] \in Thread
  OBVIOUS
<1>5. /\ DirChanged(f, p)[u].pc = f[u].pc /\ DirChanged(f, p)[u].d = f[u].d
      /\ DirChanged(f, p)[u].p = f[u].p /\ DirChanged(f, p)[u].a = f[u].a
      /\ DirChanged(f, p)[u].i = f[u].i
      /\ DirChanged(f, p)[u].fresh => f[u].fresh /\ f[u].p # p
  BY <1>1, <1>4 DEF Thread
<1>6. /\ Renamed(f)[u].pc = f[u].pc /\ Renamed(f)[u].d = f[u].d /\ Renamed(f)[u].p = f[u].p
      /\ Renamed(f)[u].a = f[u].a /\ Renamed(f)[u].i = f[u].i
      /\ Renamed(f)[u].fresh => f[u].fresh
  BY <1>1, <1>4 DEF Thread
<1>7. QED
  BY <1>2, <1>3, <1>5, <1>6

LEMMA AddStartSort ==
  ASSUME TreeInv, NEW t \in Threads, NEW i \in Inodes \cup {Nobody}, AddStart(t, i)
  PROVE  DnTyped' /\ ThTyped' /\ (Starts(t))
<1> USE TreeAssumption DEF TreeInv
<1>1. Own(t)
  BY DEF AddStart, Owned, Owns, Naming, At
<1>2. th[t].d \in Dentries
  BY <1>1 DEF Own
<1>3. DnTyped'
  BY <1>2, DentryFields, DentryValues DEF DnTyped, AddStart
<1> DEFINE f == [th EXCEPT ![t].pc = "adding", ![t].i = i, ![t].p = Nobody]
<1>4. /\ f \in [Threads -> Thread]
      /\ f[t].pc = "adding" /\ f[t].d = th[t].d /\ f[t].i = i
      /\ \A u \in Threads \ {t} : f[u] = th[u]
  <2>1. [th[t] EXCEPT !.pc = "adding", !.i = i, !.p = Nobody] \in Thread
    BY ThreadFields, ThreadValues DEF Labels
  <2>2. QED
    BY <2>1 DEF ThTyped, Thread
<1>5. th' = DirChanged(f, dn[th[t].d].parent)
  BY DEF AddStart
<1>6. /\ ThTyped'
      /\ th'[t].pc = "adding" /\ th'[t].d = th[t].d /\ th'[t].i = i
      /\ \A u \in Threads \ {t} : Stays(u) /\ (th'[u].fresh => th[u].p # dn[th[t].d].parent)
  <2> HIDE DEF f
  <2>1. ThTyped'
    BY <1>4, <1>5, SequenceSteps DEF ThTyped
  <2>2. \A u \in Threads : /\ th'[u].pc = f[u].pc /\ th'[u].d = f[u].d /\ th'[u].p = f[u].p
                           /\ th'[u].a = f[u].a /\ th'[u].i = f[u].i
                           /\ th'[u].fresh => f[u].fresh /\ f[u].p # dn[th[t].d].parent
    BY <1>4, <1>5, SequenceSteps
  <2>3. QED
    BY <1>4, <2>1, <2>2 DEF Stays
<1>7. /\ \A x \in Dentries \ {th[t].d} : dn'[x] = dn[x]
      /\ Keeps(th[t].d) /\ dn'[th[t].d].inode = i
      /\ dn'[th[t].d].hashed = dn[th[t].d].hashed /\ ~ dn'[th[t].d].lookup
  BY <1>2 DEF AddStart, DnTyped, Dentry, Keeps
<1>8. Starts(t)
  BY <1>1, <1>6, <1>7 DEF AddStart, Starts, OthersStay, Only, Own, At
<1>9. QED
  BY <1>3, <1>6, <1>8

LEMMA AddEndSort ==
  ASSUME TreeInv, NEW t \in Threads, AddEnd(t)
  PROVE  DnTyped' /\ ThTyped' /\ (Publishes(t))
<1> USE TreeAssumption DEF TreeInv
<1>1. Own(t)
  BY DEF AddEnd, Owned, Owns, Naming, At
<1>2. th[t].d \in Dentries
  BY <1>1 DEF Own
<1>3. DnTyped'
  BY <1>2, DentryFields, DentryValues DEF DnTyped, AddEnd
<1>4. ThTyped'
  BY IdleTyped DEF ThTyped, AddEnd, Returns
<1>5. th'[t].pc = "idle" /\ \A u \in Threads \ {t} : th'[u] = th[u]
  BY DEF AddEnd, Returns, Idle, ThTyped, Thread
<1>6. /\ \A x \in Dentries \ {th[t].d} : dn'[x] = dn[x]
      /\ Keeps(th[t].d) /\ dn'[th[t].d].lookup = dn[th[t].d].lookup
      /\ dn'[th[t].d].inode = dn[th[t].d].inode
  BY <1>2 DEF AddEnd, DnTyped, Dentry, Keeps
<1>7. Publishes(t)
  BY <1>5, <1>6 DEF AddEnd, Publishes, OthersStay, Stays, Only, Owns, Naming, At
<1>8. QED
  BY <1>3, <1>4, <1>7

LEMMA SpliceFindsSort ==
  ASSUME TreeInv, NEW t \in Threads, NEW i \in Inodes \cup {RootInode}, SpliceFinds(t, i)
  PROVE  DnTyped' /\ ThTyped' /\ (GoesOn(t))
<1> USE TreeAssumption DEF TreeInv
<1>1. Own(t)
  BY DEF SpliceFinds, Owned, Owns, Naming, At
<1>2. th[t].d \in Dentries
  BY <1>1 DEF Own
<1>3. PICK a \in Dentries : dn[a].inode = i /\ th' = [th EXCEPT ![t].pc = "splice", ![t].a = a]
  BY DEF SpliceFinds, Aliases
<1>4. ThTyped'
  <2>1. [th[t] EXCEPT !.pc = "splice", !.a = a] \in Thread
    BY ThreadFields, ThreadValues DEF Labels
  <2>2. QED
    BY <1>3, <2>1 DEF ThTyped
<1>5. GoesOn(t)
  BY <1>3 DEF GoesOn, OthersStay, Stays, SpliceFinds, At, ThTyped, Thread
<1>6. QED
  BY <1>4, <1>5 DEF SpliceFinds, DnTyped

LEMMA SpliceFailsSort ==
  ASSUME TreeInv, NEW t \in Threads, SpliceFails(t)
  PROVE  DnTyped' /\ ThTyped' /\ (Withdraws(t))
<1> USE TreeAssumption DEF TreeInv
<1>1. Own(t)
  BY DEF SpliceFails, Owned, Owns, Naming, At
<1>2. th[t].d \in Dentries
  BY <1>1 DEF Own
<1>3. DnTyped'
  BY <1>2, DentryFields, DentryValues, ThreadValues, NoDentryTyped DEF DnTyped, SpliceFails, Fails, Returns, Goes, DirChanged, Renamed, At, Labels, Free
<1>4. ThTyped'
  BY <1>2, ThreadFields, ThreadValues, DentryValues, IdleTyped, EmptyStack DEF ThTyped, SpliceFails, Fails, Returns, Goes, DirChanged, Renamed, At, Labels, Free
<1>5. Withdraws(t)
  BY <1>1, <1>2 DEF Withdraws, OthersStay, Stays, MayFail, Owns, Naming, DnTyped, ThTyped, Dentry, Thread, NoDentry, Idle, SpliceFails, Fails, Returns, Goes, DirChanged, Renamed, At, Labels, Free, Own
<1>6. QED
  BY <1>3, <1>4, <1>5

LEMMA MoveStartSort ==
  ASSUME TreeInv, NEW t \in Threads, MoveStart(t)
  PROVE  DnTyped' /\ ThTyped' /\ (Starts(t))
<1> USE TreeAssumption DEF TreeInv
<1>1. Own(t)
  BY DEF MoveStart, Owned, Owns, Naming, At
<1>2. th[t].d \in Dentries
  BY <1>1 DEF Own
<1>3. th[t].a \in Dentries /\ th[t].a # th[t].d
  BY DEF MoveStart, Aliased, Owns, Naming, At
<1>4. DnTyped'
  BY <1>2, <1>3, DentryFields, DentryValues DEF DnTyped, MoveStart
<1> DEFINE f == [th EXCEPT ![t].pc = "moving", ![t].p = Nobody]
           g == DirChanged(f, dn[th[t].d].parent)
<1>5. /\ f \in [Threads -> Thread]
      /\ f[t].pc = "moving" /\ f[t].d = th[t].d /\ f[t].a = th[t].a
      /\ \A u \in Threads \ {t} : f[u] = th[u]
  <2>1. [th[t] EXCEPT !.pc = "moving", !.p = Nobody] \in Thread
    BY ThreadFields, ThreadValues DEF Labels
  <2>2. QED
    BY <2>1 DEF ThTyped, Thread
<1>6. /\ g \in [Threads -> Thread]
      /\ g[t].pc = "moving" /\ g[t].d = th[t].d /\ g[t].a = th[t].a
      /\ \A u \in Threads \ {t} :
           /\ g[u].pc = th[u].pc /\ g[u].d = th[u].d /\ g[u].p = th[u].p
           /\ g[u].a = th[u].a /\ g[u].i = th[u].i
           /\ g[u].fresh => th[u].fresh /\ th[u].p # dn[th[t].d].parent
  <2> HIDE DEF f
  <2>1. g \in [Threads -> Thread]
    BY <1>5, SequenceSteps
  <2>2. \A u \in Threads :
        /\ g[u].pc = f[u].pc /\ g[u].d = f[u].d /\ g[u].p = f[u].p /\ g[u].a = f[u].a /\ g[u].i = f[u].i
        /\ g[u].fresh => f[u].fresh /\ f[u].p # dn[th[t].d].parent
    BY <1>5, SequenceSteps
  <2> HIDE DEF g
  <2>3. QED
    BY <1>5, <2>1, <2>2
<1>7. /\ ThTyped'
      /\ th'[t].pc = "moving" /\ th'[t].d = th[t].d /\ th'[t].a = th[t].a
      /\ \A u \in Threads \ {t} : Stays(u) /\ (th'[u].fresh => th[u].p # dn[th[t].d].parent)
  <2>1. th' = Renamed(g)
    BY DEF MoveStart
  <2> HIDE DEF g
  <2>2. QED
    <3>1. Renamed(g) \in [Threads -> Thread]
      BY <1>6, SequenceSteps
    <3>2. \A u \in Threads :
          /\ th'[u].pc = g[u].pc /\ th'[u].d = g[u].d /\ th'[u].p = g[u].p
          /\ th'[u].a = g[u].a /\ th'[u].i = g[u].i
          /\ th'[u].fresh => g[u].fresh
      BY ZenonT(30), <1>6, <2>1, SequenceSteps
    <3>3. ThTyped'
      BY <2>1, <3>1 DEF ThTyped
    <3>4. th'[t].pc = "moving" /\ th'[t].d = th[t].d /\ th'[t].a = th[t].a
      BY <1>6, <3>2
    <3>5. \A u \in Threads \ {t} : Stays(u) /\ (th'[u].fresh => th[u].p # dn[th[t].d].parent)
      BY <1>6, <3>2 DEF Stays
    <3>6. QED
      BY <3>3, <3>4, <3>5
<1>8. /\ \A x \in Dentries \ {th[t].d, th[t].a} : dn'[x] = dn[x]
      /\ \A x \in {th[t].d, th[t].a} : Keeps(x) /\ dn'[x].inode = dn[x].inode
      /\ dn'[th[t].d].hashed = dn[th[t].d].hashed /\ ~ dn'[th[t].d].lookup
      /\ ~ dn'[th[t].a].hashed /\ dn'[th[t].a].lookup = dn[th[t].a].lookup
  <2>1. /\ \A x \in Dentries \ {th[t].d, th[t].a} : dn'[x] = dn[x]
        /\ dn'[th[t].d] = [dn[th[t].d] EXCEPT !.lookup = FALSE]
        /\ dn'[th[t].a] = [dn[th[t].a] EXCEPT !.hashed = FALSE]
    BY <1>2, <1>3 DEF MoveStart, DnTyped
  <2>2. dn[th[t].d] \in Dentry /\ dn[th[t].a] \in Dentry
    BY <1>2, <1>3 DEF DnTyped
  <2>3. QED
    BY <2>1, <2>2 DEF Dentry, Keeps
<1>9. Starts(t)
  BY <1>1, <1>7, <1>8 DEF MoveStart, Loop, Starts, OthersStay, Only, Own, At
<1>10. QED
  BY <1>4, <1>7, <1>9

LEMMA MoveEndSort ==
  ASSUME TreeInv, NEW t \in Threads, MoveEnd(t)
  PROVE  DnTyped' /\ ThTyped' /\ (Replaces(t))
<1> USE TreeAssumption DEF TreeInv
<1>1. Own(t)
  BY DEF MoveEnd, Owned, Owns, Naming, At
<1>2. th[t].d \in Dentries
  BY <1>1 DEF Own
<1>3. th[t].a \in Dentries /\ th[t].a # th[t].d
  BY DEF MoveEnd, Aliased, Owns, Naming, At
<1>4. [dn[th[t].a] EXCEPT !.parent = dn[th[t].d].parent, !.name = dn[th[t].d].name,
                          !.hashed = TRUE, !.invalid = FALSE] \in Dentry
  BY <1>2, <1>3, DentryFields, DentryValues
<1>5. \A x \in Dentries :
        dn'[x] = IF x = th[t].d THEN NoDentry
                 ELSE IF x = th[t].a
                 THEN [dn[th[t].a] EXCEPT !.parent = dn[th[t].d].parent, !.name = dn[th[t].d].name,
                                          !.hashed = TRUE, !.invalid = FALSE]
                 ELSE dn[x]
  BY <1>2, <1>3 DEF MoveEnd, DnTyped
<1>6. DnTyped'
  BY <1>4, <1>5, NoDentryTyped DEF MoveEnd, DnTyped
<1>7. ThTyped'
  BY IdleTyped DEF ThTyped, MoveEnd, Returns
<1>8. th'[t].pc = "idle" /\ \A u \in Threads \ {t} : th'[u] = th[u]
  BY DEF MoveEnd, Returns, Idle, ThTyped, Thread
<1>9. /\ dn'[th[t].a].live = dn[th[t].a].live
      /\ dn'[th[t].a].parent = dn[th[t].d].parent /\ dn'[th[t].a].name = dn[th[t].d].name
      /\ dn'[th[t].a].lookup = dn[th[t].a].lookup /\ dn'[th[t].a].inode = dn[th[t].a].inode
  BY ZenonT(30), <1>3, <1>5 DEF DnTyped, Dentry
<1>10. Replaces(t)
  BY <1>2, <1>5, <1>8, <1>9 DEF MoveEnd, Replaces, OthersStay, Stays, Only, Owns, Naming, At
<1>11. QED
  BY <1>6, <1>7, <1>10

LEMMA ExactAliasSort ==
  ASSUME TreeInv, NEW t \in Threads, NEW e \in Dentries, ExactAlias(t, e)
  PROVE  DnTyped' /\ ThTyped' /\ (Revives(t, e))
<1> USE TreeAssumption DEF TreeInv
<1>1. Own(t)
  BY DEF ExactAlias, Owned, Owns, Naming, At
<1>2. th[t].d \in Dentries
  BY <1>1 DEF Own
<1>3. e # th[t].d
  BY DEF ExactAlias, Same
<1>4. DnTyped'
  BY <1>2, <1>3, DentryFields, DentryValues, NoDentryTyped DEF DnTyped, ExactAlias
<1>5. ThTyped'
  BY IdleTyped DEF ThTyped, ExactAlias, Returns
<1>6. th'[t].pc = "idle" /\ \A u \in Threads \ {t} : th'[u] = th[u]
  BY DEF ExactAlias, Returns, Idle, ThTyped, Thread
<1>7. /\ \A x \in Dentries \ {th[t].d, e} : dn'[x] = dn[x]
      /\ dn'[th[t].d] = NoDentry
      /\ Keeps(e) /\ dn'[e].lookup = dn[e].lookup /\ dn'[e].inode = dn[e].inode
  BY <1>2, <1>3 DEF ExactAlias, DnTyped, Dentry, Keeps
<1>8. Revives(t, e)
  BY <1>6, <1>7 DEF ExactAlias, Revives, OthersStay, Stays, Only, Owns, Naming, At
<1>9. QED
  BY <1>4, <1>5, <1>8

LEMMA ObtainSort ==
  ASSUME TreeInv, NEW t \in Threads, NEW i \in Inodes, NEW d \in Dentries, Obtain(t, i, d)
  PROVE  DnTyped' /\ ThTyped' /\ (Allocates(t))
<1> USE TreeAssumption DEF TreeInv
<1>1. DnTyped'
  BY DentryFields, DentryValues, ThreadValues, NoDentryTyped DEF DnTyped, Obtain, Fails, Returns, Goes, DirChanged, Renamed, At, Labels, Free
<1>2. ThTyped'
  BY ThreadFields, ThreadValues, DentryValues, IdleTyped, EmptyStack DEF ThTyped, Obtain, Fails, Returns, Goes, DirChanged, Renamed, At, Labels, Free
<1>3. Allocates(t)
  BY DentryValues DEF Allocates, Only, OthersStay, Stays, Owns, Naming, DnTyped, ThTyped, Dentry, Thread, NoDentry, Idle, Obtain, Fails, Returns, Goes, DirChanged, Renamed, At, Labels, Free, DeadBlank
<1>4. QED
  BY <1>1, <1>2, <1>3

LEMMA InstantiateAnonSort ==
  ASSUME TreeInv, NEW t \in Threads, NEW root \in BOOLEAN, InstantiateAnon(t, root)
  PROVE  DnTyped' /\ ThTyped' /\ (Withdraws(t) \/ Publishes(t))
<1> USE TreeAssumption DEF TreeInv
<1>1. Own(t)
  BY DEF InstantiateAnon, Owned, Owns, Naming, At
<1>2. th[t].d \in Dentries
  BY <1>1 DEF Own
<1>3. DnTyped'
  BY <1>2, DentryFields, DentryValues, ThreadValues, NoDentryTyped DEF DnTyped, InstantiateAnon
<1>4. ThTyped'
  BY IdleTyped DEF ThTyped, InstantiateAnon, Returns
<1>5. th'[t].pc = "idle" /\ \A u \in Threads \ {t} : th'[u] = th[u]
  BY DEF InstantiateAnon, Returns, Idle, ThTyped, Thread
<1>6. CASE Taken(th[t].i)
  <2>1. \A x \in Dentries : dn'[x] = IF x = th[t].d THEN NoDentry ELSE dn[x]
    BY <1>2, <1>6 DEF InstantiateAnon, DnTyped
  <2>2. Withdraws(t)
    BY <1>5, <2>1 DEF InstantiateAnon, Withdraws, OthersStay, Stays, MayFail, Owns, Naming, At
  <2>3. QED
    BY <1>3, <1>4, <2>2
<1>7. CASE ~ Taken(th[t].i)
  <2>1. /\ \A x \in Dentries \ {th[t].d} : dn'[x] = dn[x]
        /\ Keeps(th[t].d) /\ dn'[th[t].d].lookup = dn[th[t].d].lookup
        /\ dn'[th[t].d].inode = th[t].i
    BY <1>2, <1>7 DEF InstantiateAnon, DnTyped, Dentry, Keeps
  <2>2. Publishes(t)
    BY <1>5, <1>7, <2>1 DEF InstantiateAnon, Publishes, Taken, OthersStay, Stays, Only, Owns, Naming, At
  <2>3. QED
    BY <1>3, <1>4, <2>2
<1>8. QED
  BY <1>6, <1>7

LEMMA DeleteSort ==
  ASSUME TreeInv, NEW t \in Threads, NEW d \in Dentries, Delete(t, d)
  PROVE  DnTyped' /\ ThTyped' /\ (Removes)
<1> USE TreeAssumption DEF TreeInv
<1>1. DnTyped'
  BY DentryFields, DentryValues, ThreadValues, NoDentryTyped DEF DnTyped, Delete, Fails, Returns, Goes, DirChanged, Renamed, At, Labels, Free
<1>2. ThTyped'
  BY ThreadFields, ThreadValues, DentryValues, IdleTyped, EmptyStack DEF ThTyped, Delete, Fails, Returns, Goes, DirChanged, Renamed, At, Labels, Free
<1>3. Removes
  BY DentryValues DEF Removes, SameNames, Stays, Owns, Naming, DnTyped, ThTyped, Dentry, Thread, NoDentry, Idle, Delete, Fails, Returns, Goes, DirChanged, Renamed, At, Labels, Free, Aliased, Mounting, IsRoot, DeadBlank, Killable
<1>4. QED
  BY <1>1, <1>2, <1>3

LEMMA RenameSort ==
  ASSUME TreeInv, NEW t \in Threads, NEW d \in Dentries, NEW e \in Dentries, Rename(t, d, e)
  PROVE  DnTyped' /\ ThTyped' /\ (Renames(d, e))
<1> USE TreeAssumption DEF TreeInv
<1>1. DnTyped'
  BY DentryFields, DentryValues, ThreadValues, NoDentryTyped DEF DnTyped, Rename, Fails, Returns, Goes, DirChanged, Renamed, At, Labels, Free
<1>2. ThTyped'
  BY ThreadFields, ThreadValues, DentryValues, IdleTyped, EmptyStack DEF ThTyped, Rename, Fails, Returns, Goes, DirChanged, Renamed, At, Labels, Free
<1>3. Renames(d, e)
  <2>1. \A u \in Threads : Stays(u)
    BY DEF Stays, ThTyped, Thread, Rename, DirChanged, Renamed
  <2>2. QED
    BY <2>1 DEF Renames, Movable, Only, Keeps, DnTyped, Dentry, Rename
<1>4. QED
  BY <1>1, <1>2, <1>3

LEMMA ExchangeSort ==
  ASSUME TreeInv, NEW t \in Threads, NEW d \in Dentries, NEW e \in Dentries, Exchange(t, d, e)
  PROVE  DnTyped' /\ ThTyped' /\ (Renames(d, e))
<1> USE TreeAssumption DEF TreeInv
<1>1. d # e
  BY DEF Exchange, Movable
<1>2. /\ [dn[d] EXCEPT !.parent = dn[e].parent, !.name = dn[e].name] \in Dentry
      /\ [dn[e] EXCEPT !.parent = dn[d].parent, !.name = dn[d].name] \in Dentry
  BY DentryFields, DentryValues
<1>3. \A x \in Dentries :
        dn'[x] = IF x = d THEN [dn[d] EXCEPT !.parent = dn[e].parent, !.name = dn[e].name]
                 ELSE IF x = e THEN [dn[e] EXCEPT !.parent = dn[d].parent, !.name = dn[d].name]
                 ELSE dn[x]
  BY <1>1 DEF Exchange, DnTyped
<1>4. DnTyped'
  BY <1>2, <1>3 DEF Exchange, DnTyped
<1>5. ThTyped' /\ \A u \in Threads : Stays(u)
  BY SequenceSteps DEF Exchange, Stays, ThTyped
<1>6. /\ dn'[d].parent = dn[e].parent /\ dn'[d].name = dn[e].name
      /\ dn'[e].parent = dn[d].parent /\ dn'[e].name = dn[d].name
      /\ \A x \in {d, e} : /\ dn'[x].live = dn[x].live /\ dn'[x].hashed = dn[x].hashed
                           /\ dn'[x].lookup = dn[x].lookup /\ dn'[x].inode = dn[x].inode
  <2>1. /\ dn'[d] = [dn[d] EXCEPT !.parent = dn[e].parent, !.name = dn[e].name]
        /\ dn'[e] = [dn[e] EXCEPT !.parent = dn[d].parent, !.name = dn[d].name]
    BY <1>1, <1>3
  <2>2. dn[d] \in Dentry /\ dn[e] \in Dentry
    BY DEF DnTyped
  <2>3. QED
    BY ZenonT(30), <2>1, <2>2 DEF Dentry
<1>7. Renames(d, e)
  BY <1>3, <1>5, <1>6 DEF Exchange, Movable, Renames, Only
<1>8. QED
  BY <1>4, <1>5, <1>7

LEMMA MountSort ==
  ASSUME TreeInv, NEW t \in Threads, NEW d \in Dentries, Mount(t, d)
  PROVE  DnTyped' /\ ThTyped' /\ (Removes)
<1> USE TreeAssumption DEF TreeInv
<1>1. DnTyped'
  BY DEF DnTyped, Mount
<1> DEFINE f == [th EXCEPT ![t].pc = "mount", ![t].d = d, ![t].p = dn[d].parent]
<1>2. /\ f \in [Threads -> Thread]
      /\ f[t].pc = "mount" /\ f[t].p = dn[d].parent
      /\ \A u \in Threads \ {t} : f[u] = th[u]
  <2>1. [th[t] EXCEPT !.pc = "mount", !.d = d, !.p = dn[d].parent] \in Thread
    BY ThreadFields, ThreadValues, DentryValues DEF Labels
  <2>2. QED
    BY <2>1 DEF ThTyped, Thread
<1>3. th' = Renamed(f)
  BY DEF Mount
<1>4. /\ ThTyped'
      /\ th'[t].pc = "mount" /\ th'[t].p = dn[d].parent
      /\ \A u \in Threads \ {t} : Stays(u)
  <2> HIDE DEF f
  <2>1. ThTyped'
    BY <1>2, <1>3, SequenceSteps DEF ThTyped
  <2>2. \A u \in Threads : /\ th'[u].pc = f[u].pc /\ th'[u].d = f[u].d /\ th'[u].p = f[u].p
                           /\ th'[u].a = f[u].a /\ th'[u].i = f[u].i /\ (th'[u].fresh => f[u].fresh)
    BY <1>2, <1>3, SequenceSteps
  <2>3. QED
    BY <1>2, <2>1, <2>2 DEF Stays
<1>5. dn[d].live
  BY DEF Mount, DeadBlank
<1>6. \A u \in Threads : ~ At(u, "mount") /\ ~ (At(u, "moving") /\ rename_lock = u)
  BY DEF Mount, Mounting, Aliased, At
<1>7. Removes
  <2>1. \A u \in Threads : IF Owns(u) THEN Stays(u) ELSE ~ Owns(u)'
    BY <1>4 DEF Mount, Owns, Naming, Stays, At
  <2>2. \A x \in Dentries : SameNames(x) /\ dn'[x].inode = dn[x].inode
    BY DEF Mount, SameNames
  <2>3. \A u \in Threads : At(u, "mount")' => u = t
    BY <1>4, <1>6 DEF Stays, At
  <2>4. dn' = dn /\ rename_lock' = t /\ ~ IsRoot(d)
    BY DEF Mount
  <2>5. QED
    BY <1>4, <1>5, <1>6, <2>1, <2>2, <2>3, <2>4 DEF Removes
<1>8. QED
  BY <1>1, <1>4, <1>7

LEMMA MountUpSort ==
  ASSUME TreeInv, NEW t \in Threads, MountUp(t)
  PROVE  DnTyped' /\ ThTyped' /\ (Removes)
<1> USE TreeAssumption DEF TreeInv
<1>1. th[t].p \in Dentries /\ dn[th[t].p].live /\ rename_lock = t /\ th[t].pc = "mount"
  BY DEF MountUp, Mounting, At
<1>2. DnTyped'
  BY DEF DnTyped, MountUp
<1>3. CASE Returns(t) /\ rename_lock' = Nobody
  <2>1. ThTyped'
    BY <1>3, IdleTyped DEF ThTyped, Returns
  <2>2. th'[t].pc = "idle" /\ \A u \in Threads \ {t} : th'[u] = th[u]
    BY <1>3 DEF Returns, Idle, ThTyped, Thread
  <2>3. \A u \in Threads \ {t} : ~ At(u, "mount")
    BY <1>1 DEF Mounting
  <2>4. Removes
    BY <1>1, <2>2, <2>3 DEF MountUp, Removes, SameNames, Stays, Owns, Naming, At
  <2>5. QED
    BY <1>2, <2>1, <2>4
<1>4. CASE th' = [th EXCEPT ![t].p = dn[th[t].p].parent] /\ UNCHANGED rename_lock
  <2>1. ThTyped'
    BY <1>1, <1>4, ThreadFields, ThreadValues, DentryValues DEF ThTyped
  <2>2. th'[t].pc = "mount" /\ th'[t].p = dn[th[t].p].parent /\ \A u \in Threads \ {t} : th'[u] = th[u]
    BY <1>1, <1>4 DEF ThTyped, Thread
  <2>3. \A u \in Threads \ {t} : ~ At(u, "mount")
    BY <1>1 DEF Mounting
  <2>4. Removes
    BY <1>1, <1>4, <2>2, <2>3 DEF MountUp, Removes, SameNames, Stays, Owns, Naming, At
  <2>5. QED
    BY <1>2, <2>1, <2>4
<1>5. QED
  BY <1>3, <1>4 DEF MountUp

LEMMA MountEndSort ==
  ASSUME TreeInv, NEW t \in Threads, MountEnd(t)
  PROVE  DnTyped' /\ ThTyped' /\ (Removes)
<1> USE TreeAssumption DEF TreeInv
<1>1. DnTyped'
  BY DentryFields, DentryValues, ThreadValues, NoDentryTyped DEF DnTyped, MountEnd, Fails, Returns, Goes, DirChanged, Renamed, At, Labels, Free
<1>2. ThTyped'
  BY ThreadFields, ThreadValues, DentryValues, IdleTyped, EmptyStack DEF ThTyped, MountEnd, Fails, Returns, Goes, DirChanged, Renamed, At, Labels, Free
<1>3. Removes
  BY DentryValues DEF Removes, SameNames, Stays, Owns, Naming, DnTyped, ThTyped, Dentry, Thread, NoDentry, Idle, MountEnd, Fails, Returns, Goes, DirChanged, Renamed, At, Labels, Free, Aliased, Mounting, IsRoot, DeadBlank, Killable
<1>4. QED
  BY <1>1, <1>2, <1>3

LEMMA UnmountSort ==
  ASSUME TreeInv, NEW d \in Dentries, Unmount(d)
  PROVE  DnTyped' /\ ThTyped' /\ (Removes)
<1> USE TreeAssumption DEF TreeInv
<1>1. DnTyped'
  BY DentryFields, DentryValues, ThreadValues, NoDentryTyped DEF DnTyped, Unmount, Fails, Returns, Goes, DirChanged, Renamed, At, Labels, Free
<1>2. ThTyped'
  BY ThreadFields, ThreadValues, DentryValues, IdleTyped, EmptyStack DEF ThTyped, Unmount, Fails, Returns, Goes, DirChanged, Renamed, At, Labels, Free
<1>3. Removes
  BY DentryValues DEF Removes, SameNames, Stays, Owns, Naming, DnTyped, ThTyped, Dentry, Thread, NoDentry, Idle, Unmount, Fails, Returns, Goes, DirChanged, Renamed, At, Labels, Free, Aliased, Mounting, IsRoot, DeadBlank, Killable
<1>4. QED
  BY <1>1, <1>2, <1>3

LEMMA InvalidateSort ==
  ASSUME TreeInv, NEW t \in Threads, NEW d \in Dentries, Invalidate(t, d)
  PROVE  DnTyped' /\ ThTyped' /\ (Removes)
<1> USE TreeAssumption DEF TreeInv
<1>1. DnTyped'
  BY DentryFields, DentryValues, ThreadValues, NoDentryTyped DEF DnTyped, Invalidate, Fails, Returns, Goes, DirChanged, Renamed, At, Labels, Free
<1>2. ThTyped'
  BY ThreadFields, ThreadValues, DentryValues, IdleTyped, EmptyStack DEF ThTyped, Invalidate, Fails, Returns, Goes, DirChanged, Renamed, At, Labels, Free
<1>3. Removes
  BY DentryValues DEF Removes, SameNames, Stays, Owns, Naming, DnTyped, ThTyped, Dentry, Thread, NoDentry, Idle, Invalidate, Fails, Returns, Goes, DirChanged, Renamed, At, Labels, Free, Aliased, Mounting, IsRoot, DeadBlank, Killable
<1>4. QED
  BY <1>1, <1>2, <1>3

LEMMA ShrinkSort ==
  ASSUME TreeInv, NEW t \in Threads, Shrink(t)
  PROVE  DnTyped' /\ ThTyped' /\ (Removes)
<1> USE TreeAssumption DEF TreeInv
<1>1. CASE /\ \E c \in Dentries : Killable(c) /\ dn' = [dn EXCEPT ![c] = NoDentry]
           /\ UNCHANGED th /\ UNCHANGED rename_lock
  <2>1. PICK c \in Dentries : Killable(c) /\ dn' = [dn EXCEPT ![c] = NoDentry]
    BY <1>1
  <2>2. DnTyped' /\ ThTyped'
    BY <1>1, <2>1, NoDentryTyped DEF DnTyped, ThTyped
  <2>3. \A x \in Dentries : dn'[x] = dn[x] \/ (dn'[x] = NoDentry /\ ~ Held(x))
    BY <2>1 DEF DnTyped, Killable
  <2>4. Removes
    BY <1>1, <2>3 DEF Removes, SameNames, Stays, Owns, Naming, At
  <2>5. QED
    BY <2>2, <2>4
<1>2. CASE Goes(t, "start") /\ UNCHANGED dn /\ UNCHANGED rename_lock
  <2>1. DnTyped' /\ ThTyped'
    BY <1>2, ThreadFields, ThreadValues DEF DnTyped, ThTyped, Goes, Labels
  <2>2. th'[t].pc = "start" /\ \A u \in Threads \ {t} : th'[u] = th[u]
    BY <1>2 DEF Goes, ThTyped, Thread
  <2>3. Removes
    BY <1>2, <2>2 DEF Shrink, Removes, SameNames, Stays, Owns, Naming, At
  <2>4. QED
    BY <2>1, <2>3
<1>3. QED
  BY <1>1, <1>2 DEF Shrink

\* The stack of a walk.
LEMMA Arriving ==
  ASSUME NEW d \in Dentries \cup {Nobody}
  PROVE  Arrive(d) \in Frame /\ <<Arrive(d)>> \in Stack
<1>1. Arrive(d) \in Frame
  BY DEF Arrive, Children, Frame
<1>2. QED
  BY <1>1 DEF Stack

\* A step that walks: no entry changes its name, no thread gets one.
Walks(t) ==
  /\ ~ Owns(t) /\ ~ At(t, "mount") /\ ~ Owns(t)' /\ ~ At(t, "mount")'
  /\ \A u \in Threads \ {t} : th'[u] = th[u]
  /\ \A x \in Dentries : SameNames(x) /\ dn'[x].inode = dn[x].inode
  /\ rename_lock' \in {rename_lock, Nobody, t}
  /\ rename_lock \notin {Nobody, t} => rename_lock' = rename_lock

LEMMA WalksRemoves ==
  ASSUME TreeInv, NEW t \in Threads, Walks(t)
  PROVE  Removes
  BY TreeAssumption DEF TreeInv, Walks, Removes, SameNames, Stays, Owns, Naming, At

LEMMA WalkStartSort ==
  ASSUME TreeInv, NEW t \in Threads, WalkStart(t)
  PROVE  DnTyped' /\ ThTyped' /\ (Removes)
<1> USE TreeAssumption DEF TreeInv
<1>0. th[t].pc = "start" /\ UNCHANGED <<dn, rename_lock>>
  BY DEF WalkStart, At
<1>1. th[t].d \in Dentries \cup {Nobody}
  BY ThreadValues
<1>2. DnTyped'
  BY <1>0 DEF DnTyped
<1>3. CASE th' = [th EXCEPT ![t].pc = "detach", ![t].a = th[t].d]
  <2>1. ThTyped'
    <3>1. [th[t] EXCEPT !.pc = "detach", !.a = th[t].d] \in Thread
      BY ThreadFields, ThreadValues DEF Labels
    <3>2. QED
      BY <1>3, <3>1 DEF ThTyped
  <2>2. th'[t].pc = "detach" /\ \A u \in Threads \ {t} : th'[u] = th[u]
    BY <1>3 DEF ThTyped, Thread
  <2>3. Walks(t)
    BY <1>0, <2>2 DEF Walks, SameNames, Owns, Naming, At
  <2>4. QED
    BY <1>2, <2>1, <2>3, WalksRemoves
<1>4. CASE th' = [th EXCEPT ![t].pc = "walk", ![t].still = TRUE, ![t].stack = <<Arrive(th[t].d)>>]
  <2>1. ThTyped'
    <3>1. [th[t] EXCEPT !.pc = "walk", !.still = TRUE, !.stack = <<Arrive(th[t].d)>>] \in Thread
      BY <1>1, Arriving, ThreadFields, ThreadValues DEF Labels
    <3>2. QED
      BY <1>4, <3>1 DEF ThTyped
  <2>2. th'[t].pc = "walk" /\ \A u \in Threads \ {t} : th'[u] = th[u]
    BY <1>4 DEF ThTyped, Thread
  <2>3. Walks(t)
    BY <1>0, <2>2 DEF Walks, SameNames, Owns, Naming, At
  <2>4. QED
    BY <1>2, <2>1, <2>3, WalksRemoves
<1>5. QED
  BY <1>3, <1>4 DEF WalkStart

LEMMA VisitSort ==
  ASSUME TreeInv, NEW t \in Threads, Visit(t)
  PROVE  DnTyped' /\ ThTyped' /\ (Removes)
<1> USE TreeAssumption DEF TreeInv
<1>1. th[t].pc = "walk" /\ UNCHANGED dn /\ th[t].stack \in Stack
  BY ThreadValues DEF Visit, At
<1>2. DnTyped'
  BY <1>1 DEF DnTyped
<1>3. PICK c \in Dentries :
        LET k == Len(th[t].stack)
            done == [th[t].stack EXCEPT ![k].todo = @ \ {c}]
        IN  IF dn[c].mounted
            THEN /\ th' = [th EXCEPT ![t].pc = "detach", ![t].a = c, ![t].stack = <<>>]
                 /\ rename_lock' = IF rename_lock = t THEN Nobody ELSE rename_lock
            ELSE /\ th' = [th EXCEPT ![t].stack = IF Children(c) = {} THEN done
                                                 ELSE Append(done, Arrive(c))]
                 /\ UNCHANGED rename_lock
  BY DEF Visit, Left, Children
<1>4. CASE dn[c].mounted
  <2>1. ThTyped'
    <3>1. [th[t] EXCEPT !.pc = "detach", !.a = c, !.stack = <<>>] \in Thread
      BY EmptyStack, ThreadFields, ThreadValues DEF Labels
    <3>2. QED
      BY <1>3, <1>4, <3>1 DEF ThTyped
  <2>2. th'[t].pc = "detach" /\ \A u \in Threads \ {t} : th'[u] = th[u]
    BY <1>3, <1>4 DEF ThTyped, Thread
  <2>3. Walks(t)
    BY <1>1, <1>3, <1>4, <2>2 DEF Walks, SameNames, Owns, Naming, At
  <2>4. QED
    BY <1>2, <2>1, <2>3, WalksRemoves
<1>5. CASE ~ dn[c].mounted
  <2> DEFINE done == [th[t].stack EXCEPT ![Len(th[t].stack)].todo = @ \ {c}]
  <2>1. done \in Stack
    <3>1. th[t].stack \in [1 .. Len(th[t].stack) -> Frame] /\ Len(th[t].stack) \in Nat
      BY <1>1 DEF Stack
    <3>2. \A f \in Frame : [f EXCEPT !.todo = @ \ {c}] \in Frame
      BY DEF Frame
    <3>3. done \in [1 .. Len(th[t].stack) -> Frame]
      BY <3>1, <3>2
    <3>4. QED
      BY <3>1, <3>3, SeqDef DEF Stack
  <2>2. Append(done, Arrive(c)) \in Stack
    BY <2>1, Arriving DEF Stack
  <2>3. \E s \in Stack : th' = [th EXCEPT ![t].stack = s]
    BY <1>3, <1>5, <2>1, <2>2
  <2>4. PICK s \in Stack : th' = [th EXCEPT ![t].stack = s]
    BY <2>3
  <2>5. ThTyped'
    BY <2>4, ThreadFields, ThreadValues DEF ThTyped
  <2>6. th'[t].pc = "walk" /\ \A u \in Threads \ {t} : th'[u] = th[u]
    BY <1>1, <2>4 DEF ThTyped, Thread
  <2>7. Walks(t)
    BY <1>1, <1>3, <1>5, <2>6 DEF Walks, SameNames, Owns, Naming, At
  <2>8. QED
    BY <1>2, <2>5, <2>7, WalksRemoves
<1>6. QED
  BY <1>4, <1>5

LEMMA AscendSort ==
  ASSUME TreeInv, NEW t \in Threads, Ascend(t)
  PROVE  DnTyped' /\ ThTyped' /\ (Removes)
<1> USE TreeAssumption DEF TreeInv
<1>1. th[t].pc = "walk" /\ th[t].d \in Dentries \cup {Nobody} /\ th[t].stack \in Stack
  BY ThreadValues DEF Ascend, At
<1>2. CASE /\ MustRetry(t) /\ rename_lock = Nobody /\ rename_lock' = t /\ UNCHANGED dn
           /\ \/ th' = [th EXCEPT ![t].pc = "detach", ![t].a = th[t].d, ![t].stack = <<>>]
              \/ th' = [th EXCEPT ![t].stack = <<Arrive(th[t].d)>>]
  <2>1. ThTyped'
    <3>1. /\ [th[t] EXCEPT !.pc = "detach", !.a = th[t].d, !.stack = <<>>] \in Thread
          /\ [th[t] EXCEPT !.stack = <<Arrive(th[t].d)>>] \in Thread
      BY <1>1, Arriving, EmptyStack, ThreadFields, ThreadValues DEF Labels
    <3>2. QED
      BY <1>2, <3>1 DEF ThTyped
  <2>2. th'[t].pc \in {"detach", "walk"} /\ \A u \in Threads \ {t} : th'[u] = th[u]
    BY <1>1, <1>2 DEF ThTyped, Thread
  <2>3. Walks(t)
    BY <1>1, <1>2, <2>2 DEF Walks, SameNames, Owns, Naming, At
  <2>4. QED
    BY <1>2, <2>1, <2>3, WalksRemoves DEF DnTyped
<1>3. CASE /\ Len(th[t].stack) > 1 /\ UNCHANGED <<dn, rename_lock>>
           /\ th' = [th EXCEPT ![t].stack = SubSeq(@, 1, Len(@) - 1)]
  <2>1. SubSeq(th[t].stack, 1, Len(th[t].stack) - 1) \in Stack
    BY <1>1, <1>3 DEF Stack
  <2>2. ThTyped'
    <3>1. [th[t] EXCEPT !.stack = SubSeq(th[t].stack, 1, Len(th[t].stack) - 1)] \in Thread
      BY <2>1, ThreadFields, ThreadValues
    <3>2. QED
      BY <1>3, <3>1 DEF ThTyped
  <2>3. th'[t].pc = "walk" /\ \A u \in Threads \ {t} : th'[u] = th[u]
    BY <1>1, <1>3 DEF ThTyped, Thread
  <2>4. Walks(t)
    BY <1>1, <1>3, <2>3 DEF Walks, SameNames, Owns, Naming, At
  <2>5. QED
    BY <1>3, <2>2, <2>4, WalksRemoves DEF DnTyped
<1>4. CASE /\ dn' = [dn EXCEPT ![th[t].d].invalid = ~ dn[th[t].d].hashed]
           /\ rename_lock' = (IF rename_lock = t THEN Nobody ELSE rename_lock)
           /\ Returns(t)
  <2>1. DnTyped'
    BY <1>1, <1>4, DentryFields, DentryValues DEF DnTyped
  <2>2. ThTyped'
    BY <1>4, IdleTyped DEF ThTyped, Returns
  <2>3. th'[t].pc = "idle" /\ \A u \in Threads \ {t} : th'[u] = th[u]
    BY <1>4 DEF Returns, Idle, ThTyped, Thread
  <2>4. \A x \in Dentries : SameNames(x) /\ dn'[x].inode = dn[x].inode
    BY <1>1, <1>4 DEF SameNames, DnTyped, Dentry
  <2>5. Walks(t)
    BY <1>1, <1>4, <2>3, <2>4 DEF Walks, Owns, Naming, At
  <2>6. QED
    BY <2>1, <2>2, <2>5, WalksRemoves
<1>5. QED
  BY <1>2, <1>3, <1>4 DEF Ascend

LEMMA DetachSort ==
  ASSUME TreeInv, NEW t \in Threads, Detach(t)
  PROVE  DnTyped' /\ ThTyped' /\ (Removes)
<1> USE TreeAssumption DEF TreeInv
<1>1. DnTyped'
  BY DentryFields, DentryValues, ThreadValues, NoDentryTyped DEF DnTyped, Detach, Fails, Returns, Goes, DirChanged, Renamed, At, Labels, Free
<1>2. ThTyped'
  BY ThreadFields, ThreadValues, DentryValues, IdleTyped, EmptyStack DEF ThTyped, Detach, Fails, Returns, Goes, DirChanged, Renamed, At, Labels, Free
<1>3. Removes
  BY DentryValues DEF Removes, SameNames, Stays, Owns, Naming, DnTyped, ThTyped, Dentry, Thread, NoDentry, Idle, Detach, Fails, Returns, Goes, DirChanged, Renamed, At, Labels, Free, Aliased, Mounting, IsRoot, DeadBlank, Killable
<1>4. QED
  BY <1>1, <1>2, <1>3

LEMMA ForgetSort ==
  ASSUME TreeInv, NEW d \in Dentries, Forget(d)
  PROVE  DnTyped' /\ ThTyped' /\ (Removes)
<1> USE TreeAssumption DEF TreeInv
<1>1. DnTyped'
  BY DentryFields, DentryValues, ThreadValues, NoDentryTyped DEF DnTyped, Forget, Fails, Returns, Goes, DirChanged, Renamed, At, Labels, Free
<1>2. ThTyped'
  BY ThreadFields, ThreadValues, DentryValues, IdleTyped, EmptyStack DEF ThTyped, Forget, Fails, Returns, Goes, DirChanged, Renamed, At, Labels, Free
<1>3. Removes
  BY ZenonT(30), DentryValues DEF Removes, SameNames, Stays, Owns, Naming, DnTyped, ThTyped, Dentry, Thread, NoDentry, Idle, Forget, Fails, Returns, Goes, DirChanged, Renamed, At, Labels, Free, Aliased, Mounting, IsRoot, DeadBlank, Killable
<1>4. QED
  BY <1>1, <1>2, <1>3

-----------------------------------------------------------------------------
(* No loops.  An entry is above another one when the parents lead there,   *)
(* and is not when some set of entries that is closed under parents has    *)
(* the one and not the other: such a set is easier to follow through a     *)
(* step than the parents of an entry.                                      *)

Closed(C) == \A x \in C : dn[x].live /\ dn[x].parent \in C
Apart(a, d) == \E C \in SUBSET Dentries : d \in C /\ a \notin C /\ Closed(C)

\* There is no loop: a closed set has a root.
Rooted == \A C \in SUBSET Dentries : C # {} /\ Closed(C) => \E x \in C : IsRoot(x)
\* The move that d_splice_alias has begun does not make one.
MovesApart == \A t \in Threads : At(t, "moving") => Apart(th[t].a, th[t].d)
LoopInv == Rooted /\ MovesApart

LEMMA LeastOf ==
  ASSUME NEW S \in SUBSET Nat, S # {}
  PROVE  \E x \in S : \A y \in S : x =< y
<1> DEFINE R == OpToRel(<, Nat)
<1>1. IsWellFoundedOn(R, Nat)
  BY NatLessThanWellFounded
<1>2. \A x, y \in Nat : <<x, y>> \in R <=> x < y
  BY DEF OpToRel
<1> HIDE DEF R
<1>3. PICK x \in S : \A y \in S : ~ (<<y, x>> \in R)
  BY <1>1, WFMin
<1>4. ASSUME NEW y \in S PROVE x =< y
  <2>1. x \in Nat /\ y \in Nat /\ ~ (y < x)
    BY <1>2, <1>3
  <2> QED
    BY <2>1
<1> QED
  BY <1>4

\* The way up from an entry, as far as d_ancestor follows it.
WayUp(d, n) == {f \in [0 .. n -> Dentries] : /\ f[0] = d
                                             /\ \A k \in 1 .. n : f[k] = dn[f[k - 1]].parent
                                             /\ \A k \in 0 .. n : dn[f[k]].live}

LEMMA WayUpExists ==
  ASSUME TreeInv, NEW d \in Dentries, dn[d].live, NEW n \in Nat
  PROVE  WayUp(d, n) # {}
<1> DEFINE Bad == {m \in Nat : WayUp(d, m) = {}}
<1> SUFFICES ASSUME Bad # {} PROVE FALSE
  OBVIOUS
<1>1. PICK m \in Bad : \A k \in Bad : m =< k
  <2>1. Bad \in SUBSET Nat
    OBVIOUS
  <2> HIDE DEF Bad
  <2>2. QED
    BY <2>1, LeastOf
<1>2. m # 0
  <2>1. [k \in 0 .. 0 |-> d] \in WayUp(d, 0)
    BY DEF WayUp
  <2>2. QED
    BY <1>1, <2>1
<1>3. m - 1 \in Nat /\ WayUp(d, m - 1) # {}
  <2>1. m \in Nat /\ m - 1 \in Nat /\ ~ (m =< m - 1)
    BY <1>2
  <2>2. QED
    BY <1>1, <2>1
<1>4. PICK f \in WayUp(d, m - 1) : TRUE
  BY <1>3
<1>5. /\ f \in [0 .. m - 1 -> Dentries] /\ f[0] = d
      /\ \A k \in 1 .. m - 1 : f[k] = dn[f[k - 1]].parent
      /\ \A k \in 0 .. m - 1 : dn[f[k]].live
  BY <1>4 DEF WayUp
<1> DEFINE p == dn[f[m - 1]].parent
           g == [k \in 0 .. m |-> IF k = m THEN p ELSE f[k]]
<1>6. f[m - 1] \in Dentries /\ p \in Dentries /\ dn[p].live
  BY <1>3, <1>5 DEF TreeInv, Parents
<1>7. g \in WayUp(d, m)
  <2>1. g \in [0 .. m -> Dentries]
    <3> HIDE DEF p
    <3>1. \A k \in 0 .. m : k # m => k \in 0 .. m - 1
      BY <1>3
    <3>2. QED
      BY <1>5, <1>6, <3>1
  <2>2. g[0] = d
    BY <1>2, <1>3, <1>5
  <2>3. ASSUME NEW k \in 1 .. m PROVE g[k] = dn[g[k - 1]].parent
    <3>1. k - 1 \in 0 .. m - 1 /\ k - 1 # m /\ k \in 0 .. m /\ k - 1 \in 0 .. m
      BY <1>3
    <3>2. g[k - 1] = f[k - 1]
      BY <3>1
    <3>3. CASE k = m
      BY <3>1, <3>2, <3>3
    <3>4. CASE k # m
      <4>1. k \in 1 .. m - 1
        BY <1>3, <3>4
      <4>2. g[k] = f[k]
        BY <3>1, <3>4
      <4>3. QED
        BY <1>5, <3>2, <4>1, <4>2
    <3>5. QED
      BY <3>3, <3>4
  <2>4. ASSUME NEW k \in 0 .. m PROVE dn[g[k]].live
    <3>1. CASE k = m
      BY <1>6, <3>1
    <3>2. CASE k # m
      <4>1. k \in 0 .. m - 1
        BY <1>3, <3>2
      <4>2. QED
        BY <1>5, <3>2, <4>1
    <3>3. QED
      BY <3>1, <3>2
  <2> HIDE DEF g
  <2>5. QED
    BY <2>1, <2>2, <2>3, <2>4 DEF WayUp
<1>8. QED
  BY <1>1, <1>7

\* d_ancestor finds what is on the way up.
LEMMA AboveMeets ==
  ASSUME TreeInv, NEW d \in Dentries, dn[d].live
  PROVE  \E f \in WayUp(d, Cardinality(Dentries)) : \A a :
           Above(a, d) <=> a # d /\ \E k \in 0 .. Cardinality(Dentries) : f[k] = a
<1> DEFINE N == Cardinality(Dentries)
<1>1. N \in Nat
  BY TreeAssumption, FS_CardinalityType
<1>2. PICK f \in WayUp(d, N) : TRUE
  BY <1>1, WayUpExists
<1>3. /\ f \in [0 .. N -> Dentries] /\ f[0] = d
      /\ \A k \in 1 .. N : f[k] = dn[f[k - 1]].parent
  BY <1>2 DEF WayUp
<1> DEFINE Steps(g) == g = [k \in 0 .. N |-> IF k = 0 THEN d ELSE dn[g[k - 1]].parent]
           up == CHOOSE g : Steps(g)
<1>4. Steps(f)
  <2>1. ASSUME NEW k \in 0 .. N
        PROVE  f[k] = IF k = 0 THEN d ELSE dn[f[k - 1]].parent
    <3>1. k # 0 => k \in 1 .. N
      BY <1>1
    <3>2. QED
      BY <1>3, <3>1
  <2>2. QED
    BY <1>3, <2>1
<1>5. Steps(up)
  <2> HIDE DEF Steps
  <2>1. QED
    BY <1>4
<1>6. \A k \in 0 .. N : up[k] = f[k]
  <2> DEFINE Bad == {k \in 0 .. N : up[k] # f[k]}
  <2> SUFFICES ASSUME Bad # {} PROVE FALSE
    OBVIOUS
  <2>1. PICK k \in Bad : \A j \in Bad : k =< j
    <3>1. Bad \in SUBSET Nat
      OBVIOUS
    <3> HIDE DEF Bad
    <3>2. QED
      BY <3>1, LeastOf
  <2>2. k \in 0 .. N /\ up[k] # f[k]
    BY <2>1
  <2>3. \A j \in 0 .. N : /\ up[j] = IF j = 0 THEN d ELSE dn[up[j - 1]].parent
                          /\ f[j] = IF j = 0 THEN d ELSE dn[f[j - 1]].parent
    <3> HIDE DEF up
    <3>1. QED
      BY <1>4, <1>5
  <2>4. k # 0
    BY <2>2, <2>3
  <2>5. k - 1 \in 0 .. N /\ ~ (k =< k - 1)
    BY <1>1, <2>2, <2>4
  <2>6. up[k - 1] = f[k - 1]
    BY <2>1, <2>5
  <2> HIDE DEF up
  <2>7. QED
    BY <2>2, <2>3, <2>4, <2>6
<1>7. DOMAIN up = 0 .. N
  <2> HIDE DEF up
  <2>1. QED
    BY <1>5
<1>8. \A a : Above(a, d) <=> a # d /\ \E k \in DOMAIN up : up[k] = a
  BY Zenon DEF Above
<1>9. \A a : Above(a, d) <=> a # d /\ \E k \in 0 .. N : f[k] = a
  <2> HIDE DEF up
  <2>1. QED
    BY <1>6, <1>7, <1>8
<1>10. QED
  BY <1>2, <1>9

\* The way up comes back to itself within as many steps as there are entries: so far it
\* is a closed set.
LEMMA WayUpCloses ==
  ASSUME TreeInv, NEW d \in Dentries, NEW f \in WayUp(d, Cardinality(Dentries))
  PROVE  \E m \in 0 .. Cardinality(Dentries) : Closed({f[k] : k \in 0 .. m})
<1> DEFINE N == Cardinality(Dentries)
<1>1. N \in Nat
  BY TreeAssumption, FS_CardinalityType
<1>2. /\ f \in [0 .. N -> Dentries]
      /\ \A k \in 1 .. N : f[k] = dn[f[k - 1]].parent
      /\ \A k \in 0 .. N : dn[f[k]].live
  BY DEF WayUp
<1>3. IsFiniteSet(0 .. N) /\ Cardinality(Dentries) < Cardinality(0 .. N)
  <2>1. IsFiniteSet(0 .. N) /\ Cardinality(0 .. N) = N - 0 + 1
    BY <1>1, FS_Interval
  <2>2. QED
    BY <1>1, <2>1
<1>4. \E x, y \in 0 .. N : x # y /\ f[x] = f[y]
  <2> DEFINE I == 0 .. N
  <2>1. f \in [I -> Dentries] /\ IsFiniteSet(I) /\ Cardinality(Dentries) < Cardinality(I) /\ IsFiniteSet(Dentries)
    BY <1>2, <1>3, TreeAssumption
  <2> HIDE DEF I
  <2>2. \E x, y \in I : x # y /\ f[x] = f[y]
    BY <2>1, FS_PigeonHole, Zenon
  <2>3. QED
    BY <2>2 DEF I
<1>5. PICK i \in 0 .. N, j \in 0 .. N : i < j /\ f[i] = f[j]
  <2>1. PICK x \in 0 .. N, y \in 0 .. N : x # y /\ f[x] = f[y]
    BY <1>4
  <2>2. x < y \/ y < x
    BY <1>1, <2>1
  <2>3. QED
    BY <2>1, <2>2
<1> HIDE DEF N
<1>6. j - 1 \in 0 .. N /\ i \in 0 .. j - 1 /\ j \in 1 .. N
  BY <1>1, <1>5
<1> DEFINE C == {f[k] : k \in 0 .. j - 1}
<1>7. ASSUME NEW k \in 0 .. j - 1
      PROVE  dn[f[k]].live /\ dn[f[k]].parent \in C
  <2>1. k \in 0 .. N /\ k + 1 \in 1 .. N /\ (k + 1) - 1 = k
    BY <1>1, <1>6
  <2>2. f[k + 1] = dn[f[k]].parent
    BY <1>2, <2>1
  <2>3. k + 1 \in 0 .. j - 1 \/ k + 1 = j
    BY <1>1, <1>6
  <2>4. f[k + 1] \in C
    BY <1>5, <1>6, <2>3
  <2>5. QED
    BY <1>2, <2>1, <2>2, <2>4
<1>8. Closed(C)
  BY <1>7 DEF Closed
<1>9. QED
  BY <1>6, <1>8 DEF N

LEMMA NotAbove ==
  ASSUME TreeInv, NEW d \in Dentries, dn[d].live, NEW a, a # d, ~ Above(a, d)
  PROVE  Apart(a, d)
<1> DEFINE N == Cardinality(Dentries)
<1>1. PICK f \in WayUp(d, N) : Above(a, d) <=> a # d /\ \E k \in 0 .. N : f[k] = a
  BY AboveMeets
<1>2. PICK m \in 0 .. N : Closed({f[k] : k \in 0 .. m})
  BY WayUpCloses
<1>3. N \in Nat /\ 0 \in 0 .. m /\ \A k \in 0 .. m : k \in 0 .. N
  <2>1. N \in Nat
    BY TreeAssumption, FS_CardinalityType
  <2> HIDE DEF N
  <2>2. QED
    BY <2>1
<1>4. f \in [0 .. N -> Dentries] /\ f[0] = d
  BY DEF WayUp
<1> HIDE DEF N
<1> DEFINE C == {f[k] : k \in 0 .. m}
<1>5. C \in SUBSET Dentries /\ d \in C /\ a \notin C
  BY <1>1, <1>3, <1>4
<1> HIDE DEF C
<1>6. QED
  BY <1>2, <1>5 DEF Apart, C

LEMMA RootAbove ==
  ASSUME TreeInv, Rooted, NEW d \in Dentries, dn[d].live
  PROVE  \E r \in Dentries : IsRoot(r) /\ (r = d \/ Above(r, d))
<1> DEFINE N == Cardinality(Dentries)
<1>1. PICK f \in WayUp(d, N) : \A a : Above(a, d) <=> a # d /\ \E k \in 0 .. N : f[k] = a
  BY AboveMeets
<1>2. PICK m \in 0 .. N : Closed({f[k] : k \in 0 .. m})
  BY WayUpCloses
<1>3. N \in Nat /\ 0 \in 0 .. m /\ \A k \in 0 .. m : k \in 0 .. N
  <2>1. N \in Nat
    BY TreeAssumption, FS_CardinalityType
  <2> HIDE DEF N
  <2>2. QED
    BY <2>1
<1>4. f \in [0 .. N -> Dentries] /\ f[0] = d
  BY DEF WayUp
<1> HIDE DEF N
<1>5. PICK k \in 0 .. m : IsRoot(f[k])
  <2> DEFINE C == {f[k] : k \in 0 .. m}
  <2>1. C \in SUBSET Dentries /\ C # {}
    BY <1>3, <1>4
  <2> HIDE DEF C
  <2>2. \E x \in C : IsRoot(x)
    BY <1>2, <2>1 DEF Rooted, C
  <2>3. QED
    BY <2>2 DEF C
<1>6. QED
  BY <1>1, <1>3, <1>4, <1>5

-----------------------------------------------------------------------------
(* The theorems                                                            *)

SomeKind ==
  \/ Removes
  \/ \E t \in Threads : \/ Withdraws(t) \/ GoesOn(t) \/ Allocates(t) \/ Claiming(t)
                        \/ Starts(t) \/ Publishes(t) \/ Replaces(t)
                        \/ \E e \in Dentries : Revives(t, e)
  \/ \E d, e \in Dentries : Renames(d, e)

LEMMA StepsSorted ==
  ASSUME TreeInv, Next
  PROVE  DnTyped' /\ ThTyped' /\ SomeKind
<1>1. ASSUME NEW t \in Threads, Step(t)
      PROVE  DnTyped' /\ ThTyped' /\ SomeKind
  <2>1. CASE Found(t)
    BY <2>1, FoundSort DEF SomeKind
  <2>2. CASE NotFound(t)
    BY <2>2, NotFoundSort DEF SomeKind
  <2>3. CASE Chain(t)
    BY <2>3, ChainSort DEF SomeKind
  <2>4. CASE Waited(t)
    BY <2>4, WaitedSort DEF SomeKind
  <2>5. CASE FsError(t)
    BY <2>5, FsErrorSort DEF SomeKind
  <2>6. CASE AddEnd(t)
    BY <2>6, AddEndSort DEF SomeKind
  <2>7. CASE SpliceFails(t)
    BY <2>7, SpliceFailsSort DEF SomeKind
  <2>8. CASE MoveStart(t)
    BY <2>8, MoveStartSort DEF SomeKind
  <2>9. CASE MoveEnd(t)
    BY <2>9, MoveEndSort DEF SomeKind
  <2>10. CASE \E i \in Inodes \cup {Nobody} : AddStart(t, i)
    BY <2>10, AddStartSort DEF SomeKind
  <2>11. CASE \E i \in Inodes \cup {RootInode} : SpliceFinds(t, i)
    BY <2>11, SpliceFindsSort DEF SomeKind
  <2>12. CASE \E e \in Dentries : ExactAlias(t, e)
    BY <2>12, ExactAliasSort DEF SomeKind
  <2>13. CASE \E root \in BOOLEAN : InstantiateAnon(t, root)
    BY <2>13, InstantiateAnonSort DEF SomeKind
  <2>14. CASE MountUp(t)
    BY <2>14, MountUpSort DEF SomeKind
  <2>15. CASE MountEnd(t)
    BY <2>15, MountEndSort DEF SomeKind
  <2>16. CASE Shrink(t)
    BY <2>16, ShrinkSort DEF SomeKind
  <2>17. CASE WalkStart(t)
    BY <2>17, WalkStartSort DEF SomeKind
  <2>18. CASE Visit(t)
    BY <2>18, VisitSort DEF SomeKind
  <2>19. CASE Ascend(t)
    BY <2>19, AscendSort DEF SomeKind
  <2>20. CASE Detach(t)
    BY <2>20, DetachSort DEF SomeKind
  <2>21. QED
    BY <1>1, <2>1, <2>2, <2>3, <2>4, <2>5, <2>6, <2>7, <2>8, <2>9, <2>10, <2>11, <2>12, <2>13,
       <2>14, <2>15, <2>16, <2>17, <2>18, <2>19, <2>20 DEF Step
<1>2. ASSUME NEW t \in Threads, NEW d \in Dentries, Call(t, d)
      PROVE  DnTyped' /\ ThTyped' /\ SomeKind
  <2>1. CASE \E p \in Dentries, n \in Names : Lookup(t, p, n, d)
    BY <2>1, LookupSort DEF SomeKind
  <2>2. CASE \E i \in Inodes : Obtain(t, i, d)
    BY <2>2, ObtainSort DEF SomeKind
  <2>3. CASE Delete(t, d)
    BY <2>3, DeleteSort DEF SomeKind
  <2>4. CASE Mount(t, d)
    BY <2>4, MountSort DEF SomeKind
  <2>5. CASE Invalidate(t, d)
    BY <2>5, InvalidateSort DEF SomeKind
  <2>6. CASE \E e \in Dentries : Rename(t, d, e)
    BY <2>6, RenameSort DEF SomeKind
  <2>7. CASE \E e \in Dentries : Exchange(t, d, e)
    BY <2>7, ExchangeSort DEF SomeKind
  <2>8. QED
    BY <1>2, <2>1, <2>2, <2>3, <2>4, <2>5, <2>6, <2>7 DEF Call
<1>3. ASSUME NEW d \in Dentries, Unmount(d) \/ Forget(d)
      PROVE  DnTyped' /\ ThTyped' /\ SomeKind
  BY <1>3, UnmountSort, ForgetSort DEF SomeKind
<1>4. QED
  BY <1>1, <1>2, <1>3 DEF Next

LEMMA KindsKeep ==
  ASSUME TreeInv, DnTyped', ThTyped', SomeKind
  PROVE  TreeInv'
<1>1. CASE Removes
  BY <1>1, RemovesKeeps
<1>2. ASSUME NEW t \in Threads,
             \/ Withdraws(t) \/ GoesOn(t) \/ Allocates(t) \/ Claiming(t)
             \/ Starts(t) \/ Publishes(t) \/ Replaces(t)
      PROVE  TreeInv'
  <2>1. CASE Withdraws(t)
    BY <2>1, WithdrawsKeeps
  <2>2. CASE GoesOn(t)
    BY <2>2, GoesOnKeeps
  <2>3. CASE Allocates(t)
    BY <2>3, AllocatesKeeps
  <2>4. CASE Claiming(t)
    BY <2>4, ClaimingKeeps
  <2>5. CASE Starts(t)
    BY <2>5, StartsKeeps
  <2>6. CASE Publishes(t)
    BY <2>6, PublishesKeeps
  <2>7. CASE Replaces(t)
    BY <2>7, ReplacesKeeps
  <2>8. QED
    BY <1>2, <2>1, <2>2, <2>3, <2>4, <2>5, <2>6, <2>7
<1>3. ASSUME NEW t \in Threads, NEW e \in Dentries, Revives(t, e)
      PROVE  TreeInv'
  BY <1>3, RevivesKeeps
<1>4. ASSUME NEW d \in Dentries, NEW e \in Dentries, Renames(d, e)
      PROVE  TreeInv'
  BY <1>4, RenamesKeeps
<1>5. QED
  BY <1>1, <1>2, <1>3, <1>4 DEF SomeKind

\* An inode is given to an entry by a thread that has just looked for its aliases.
LEMMA NewAlias ==
  ASSUME TreeInv, SomeKind
  PROVE  \/ \A x \in Dentries : dn'[x].inode \in {dn[x].inode, Nobody}
         \/ \E d \in Dentries : Only({d}) /\ (dn'[d].inode = Nobody \/ Aliases(dn'[d].inode) = {})
<1>1. CASE Removes
  BY <1>1 DEF Removes, NoDentry
<1>2. ASSUME NEW t \in Threads, Withdraws(t) \/ GoesOn(t) \/ Claiming(t) \/ Replaces(t)
      PROVE  \A x \in Dentries : dn'[x].inode \in {dn[x].inode, Nobody}
  BY <1>2 DEF Withdraws, GoesOn, Claiming, Replaces, Only, NoDentry
<1>3. ASSUME NEW t \in Threads, Starts(t) \/ Publishes(t)
      PROVE  \/ \A x \in Dentries : dn'[x].inode \in {dn[x].inode, Nobody}
             \/ \E d \in Dentries : Only({d}) /\ (dn'[d].inode = Nobody \/ Aliases(dn'[d].inode) = {})
  <2>1. th[t].d \in Dentries
    BY <1>3 DEF Starts, Publishes, TreeInv, Owned, Own, Owns, Naming, At
  <2>2. CASE Starts(t)
    BY <2>1, <2>2 DEF Starts, Only
  <2>3. CASE Publishes(t)
    BY <2>1, <2>3 DEF Publishes, Only
  <2>4. QED
    BY <1>3, <2>2, <2>3
<1>4. ASSUME NEW t \in Threads, Allocates(t)
      PROVE  \A x \in Dentries : dn'[x].inode \in {dn[x].inode, Nobody}
  BY <1>4 DEF Allocates, Only
<1>5. ASSUME NEW t \in Threads, NEW e \in Dentries, Revives(t, e)
      PROVE  \A x \in Dentries : dn'[x].inode \in {dn[x].inode, Nobody}
  BY <1>5 DEF Revives, Only, NoDentry
<1>6. ASSUME NEW d \in Dentries, NEW e \in Dentries, Renames(d, e)
      PROVE  \A x \in Dentries : dn'[x].inode \in {dn[x].inode, Nobody}
  BY <1>6 DEF Renames, Only
<1>7. QED
  BY <1>1, <1>2, <1>3, <1>4, <1>5, <1>6 DEF SomeKind

LEMMA SingleStays ==
  ASSUME TreeInv, Single, SomeKind
  PROVE  Single'
<1>1. CASE \A x \in Dentries : dn'[x].inode \in {dn[x].inode, Nobody}
  BY <1>1 DEF Single
<1>2. ASSUME NEW d \in Dentries, Only({d}), dn'[d].inode = Nobody \/ Aliases(dn'[d].inode) = {}
      PROVE  Single'
  BY <1>2 DEF Single, Only, Aliases
<1>3. QED
  BY <1>1, <1>2, NewAlias

\* Entries stay where they are, or go away if nothing is below them and nothing moves to
\* their place.
Thins ==
  \A x \in Dentries :
    \/ dn'[x].live = dn[x].live /\ dn'[x].parent = dn[x].parent
    \/ /\ ~ dn'[x].live
       /\ \A c \in Dentries \ {x} : dn[c].live => dn[c].parent # x
       /\ \A t \in Threads : At(t, "moving")' => th'[t].d # x
\* What moves is not above its new place, where the step began.
StillApart == \A t \in Threads : At(t, "moving")' => Apart(th'[t].a, th'[t].d)

LEMMA ThinsLoop ==
  ASSUME Rooted, Thins, StillApart
  PROVE  LoopInv'
<1>1. Rooted'
  <2> SUFFICES ASSUME NEW C \in SUBSET Dentries, C # {},
                      \A x \in C : dn'[x].live /\ dn'[x].parent \in C
               PROVE  \E x \in C : dn'[x].parent = x
    BY DEF Rooted, Closed, IsRoot
  <2>1. \A x \in C : dn[x].live /\ dn[x].parent = dn'[x].parent
    BY DEF Thins
  <2>2. Closed(C)
    BY <2>1 DEF Closed
  <2>3. PICK x \in C : IsRoot(x)
    BY <2>2 DEF Rooted
  <2>4. QED
    BY <2>1, <2>3 DEF IsRoot
<1>2. ASSUME NEW t \in Threads, At(t, "moving")'
      PROVE  Apart(th[t].a, th[t].d)'
  <2>1. PICK C \in SUBSET Dentries : th'[t].d \in C /\ th'[t].a \notin C /\ Closed(C)
    BY <1>2 DEF StillApart, Apart
  <2> DEFINE D == {x \in C : dn'[x].live}
  <2>2. th'[t].d \in D
    BY <1>2, <2>1 DEF Thins, Closed
  <2>3. ASSUME NEW x \in D PROVE dn'[x].live /\ dn'[x].parent \in D
    <3>1. x \in Dentries /\ x \in C /\ dn'[x].live
      OBVIOUS
    <3>2. dn[x].live /\ dn'[x].parent = dn[x].parent /\ dn[x].parent \in C
      BY <2>1, <3>1 DEF Thins, Closed
    <3>3. dn'[dn[x].parent].live
      BY <2>1, <3>1, <3>2 DEF Thins, Closed
    <3>4. QED
      BY <3>1, <3>2, <3>3
  <2>4. D \in SUBSET Dentries /\ th'[t].a \notin D
    BY <2>1
  <2> HIDE DEF D
  <2>5. QED
    BY <2>2, <2>3, <2>4 DEF Apart, Closed
<1>3. QED
  BY <1>1, <1>2 DEF LoopInv, MovesApart

\* Most kinds of steps leave the parents alone.
LEMMA RemovesLoop ==
  ASSUME TreeInv, LoopInv, Removes
  PROVE  LoopInv'
<1>1. ASSUME NEW t \in Threads, At(t, "moving")'
      PROVE  At(t, "moving") /\ th'[t].d = th[t].d /\ th'[t].a = th[t].a
  BY <1>1 DEF Removes, Stays, Owns, Naming, At
<1>2. StillApart
  BY <1>1 DEF LoopInv, MovesApart, StillApart
<1>3. ASSUME NEW x \in Dentries, ~ SameNames(x)
      PROVE  /\ ~ dn'[x].live
             /\ \A c \in Dentries \ {x} : dn[c].live => dn[c].parent # x
             /\ \A t \in Threads : th[t].d # x
  BY <1>3 DEF Removes, Held, Children, NoDentry
<1>4. Thins
  BY <1>1, <1>3 DEF Thins, SameNames
<1>5. QED
  BY <1>2, <1>4, ThinsLoop DEF LoopInv

\* An entry that goes away before it has been published.
LEMMA GivenUpLoop ==
  ASSUME TreeInv, LoopInv, NEW u \in Threads, MayFail(u), ~ At(u, "moving")', OthersStay(u),
         ~ dn'[th[u].d].live,
         \A x \in Dentries \ {th[u].d} : dn'[x].live = dn[x].live /\ dn'[x].parent = dn[x].parent
  PROVE  LoopInv'
<1>1. ASSUME NEW t \in Threads, At(t, "moving")'
      PROVE  /\ At(t, "moving") /\ th'[t].d = th[t].d /\ th'[t].a = th[t].a
             /\ th[t].d # th[u].d
  <2>1. t # u /\ At(t, "moving") /\ th'[t].d = th[t].d /\ th'[t].a = th[t].a
    BY <1>1 DEF OthersStay, Stays, At
  <2>2. Own(u) /\ Owns(t)
    BY <2>1 DEF TreeInv, Owned, MayFail, Owns, Naming, At
  <2>3. QED
    BY <2>1, <2>2 DEF Own
<1>2. StillApart
  BY <1>1 DEF LoopInv, MovesApart, StillApart
<1>3. Thins
  <2>1. \A c \in Dentries \ {th[u].d} : dn[c].live => dn[c].parent # th[u].d
    BY DEF TreeInv, Childless
  <2>2. QED
    BY <1>1, <2>1 DEF Thins
<1>4. QED
  BY <1>2, <1>3, ThinsLoop DEF LoopInv

LEMMA KeepsLoop ==
  ASSUME TreeInv, LoopInv, NEW u \in Threads, OthersStay(u),
         At(u, "moving")' => Apart(th'[u].a, th'[u].d),
         \A x \in Dentries : dn'[x].live = dn[x].live /\ dn'[x].parent = dn[x].parent
  PROVE  LoopInv'
<1>1. \A t \in Threads \ {u} : At(t, "moving")' =>
        At(t, "moving") /\ th'[t].d = th[t].d /\ th'[t].a = th[t].a
  BY DEF OthersStay, Stays, At
<1>2. StillApart
  BY <1>1 DEF LoopInv, MovesApart, StillApart
<1>3. Thins
  BY DEF Thins
<1>4. QED
  BY <1>2, <1>3, ThinsLoop DEF LoopInv

\* The alias is not above the entry that has waited for it: d_ancestor has been asked.
LEMMA StartsLoop ==
  ASSUME TreeInv, LoopInv, NEW t \in Threads, Starts(t)
  PROVE  LoopInv'
<1>1. \A x \in Dentries : dn'[x].live = dn[x].live /\ dn'[x].parent = dn[x].parent
  BY DEF Starts, Only, Keeps
<1>2. Own(t)
  BY DEF Starts, TreeInv, Owned, Owns, Naming, At
<1>3. ASSUME At(t, "moving")'
      PROVE  Apart(th'[t].a, th'[t].d)
  <2>1. At(t, "splice") /\ th'[t].a = th[t].a /\ th'[t].d = th[t].d /\ ~ Above(th[t].a, th[t].d)
    BY <1>3 DEF Starts, At
  <2>2. th[t].a # th[t].d /\ th[t].d \in Dentries /\ dn[th[t].d].live
    BY <1>2, <2>1 DEF TreeInv, Aliased, Own, Owns, Naming, At
  <2>3. QED
    BY <2>1, <2>2, NotAbove
<1>4. QED
  BY <1>1, <1>3, KeepsLoop DEF Starts

\* A new entry has nothing below it.
LEMMA AllocatesLoop ==
  ASSUME TreeInv, LoopInv, NEW u \in Threads, Allocates(u)
  PROVE  LoopInv'
<1> DEFINE d == th'[u].d
<1>1. /\ d \in Dentries /\ ~ dn[d].live
      /\ \A x \in Dentries \ {d} : dn'[x] = dn[x]
      /\ dn'[d].parent = d \/ dn'[d].parent \in Dentries
  BY DEF Allocates, Only
<1>2. \A c \in Dentries : dn[c].live => dn[c].parent # d
  BY <1>1 DEF TreeInv, Parents
<1> HIDE DEF d
<1>3. Rooted'
  <2> SUFFICES ASSUME NEW C \in SUBSET Dentries, C # {},
                      \A x \in C : dn'[x].live /\ dn'[x].parent \in C
               PROVE  \E x \in C : dn'[x].parent = x
    BY DEF Rooted, Closed, IsRoot
  <2> SUFFICES ASSUME d \in C => dn'[d].parent # d
               PROVE  \E x \in C : dn'[x].parent = x
    OBVIOUS
  <2> DEFINE D == C \ {d}
  <2>1. D # {} /\ D \in SUBSET Dentries
    BY <1>1
  <2>2. \A x \in D : x \in Dentries /\ x # d /\ dn'[x] = dn[x] /\ dn'[x].live /\ dn'[x].parent \in C
    BY <1>1
  <2>3. \A x \in D : dn[x].live /\ dn[x].parent \in D
    BY <1>2, <2>2
  <2>4. PICK x \in D : IsRoot(x)
    <3> HIDE DEF D
    <3>1. QED
      BY <2>1, <2>3 DEF LoopInv, Rooted, Closed
  <2>5. QED
    BY <2>2, <2>4 DEF IsRoot
<1>4. ASSUME NEW t \in Threads, At(t, "moving")'
      PROVE  Apart(th[t].a, th[t].d)'
  <2>1. At(t, "moving") /\ th'[t].d = th[t].d /\ th'[t].a = th[t].a
    BY <1>4 DEF Allocates, OthersStay, Stays, At
  <2>2. PICK C \in SUBSET Dentries : th[t].d \in C /\ th[t].a \notin C /\ Closed(C)
    BY <2>1 DEF LoopInv, MovesApart, Apart
  <2>3. \A x \in C : dn'[x] = dn[x]
    BY <1>1, <2>2 DEF Closed
  <2>4. QED
    BY <2>1, <2>2, <2>3 DEF Apart, Closed
<1>5. QED
  BY <1>3, <1>4 DEF LoopInv, MovesApart

\* The alias gets the parent of an entry that it is not above.
LEMMA ReplacesLoop ==
  ASSUME TreeInv, LoopInv, NEW t \in Threads, Replaces(t)
  PROVE  LoopInv'
<1>1. PICK d, a : d = th[t].d /\ a = th[t].a
  OBVIOUS
<1>2. /\ At(t, "moving") /\ ~ At(t, "moving")' /\ OthersStay(t)
      /\ \A x \in Dentries \ {d, a} : dn'[x] = dn[x]
      /\ ~ dn'[d].live /\ dn'[a].live = dn[a].live /\ dn'[a].parent = dn[d].parent
  BY <1>1 DEF Replaces, Only, NoDentry, Owns, Naming, At
<1>3. d \in Dentries /\ a \in Dentries /\ a # d /\ dn[a].live
  BY <1>1, <1>2 DEF TreeInv, Owned, Own, Owns, Naming, Aliased, At
<1>4. PICK A \in SUBSET Dentries : d \in A /\ a \notin A /\ Closed(A)
  BY <1>1, <1>2 DEF LoopInv, MovesApart, Apart
<1>5. Rooted'
  <2> SUFFICES ASSUME NEW C \in SUBSET Dentries, C # {},
                      \A x \in C : dn'[x].live /\ dn'[x].parent \in C
               PROVE  \E x \in C : dn'[x].parent = x
    BY DEF Rooted, Closed, IsRoot
  <2>1. d \notin C
    BY <1>2
  <2>2. \A x \in C \ {a} : dn'[x] = dn[x]
    BY <1>2, <2>1
  <2>3. CASE a \notin C
    <3>1. Closed(C)
      BY <2>2, <2>3 DEF Closed
    <3>2. PICK x \in C : IsRoot(x)
      BY <3>1 DEF LoopInv, Rooted
    <3>3. QED
      BY <2>2, <2>3, <3>2 DEF IsRoot
  <2>4. CASE a \in C
    <3>1. dn[d].parent \in C \cap A
      BY <1>2, <1>4, <2>4 DEF Closed
    <3>2. Closed(C \cap A)
      BY <1>4, <2>2 DEF Closed
    <3>3. PICK x \in C \cap A : IsRoot(x)
      BY <3>1, <3>2 DEF LoopInv, Rooted
    <3>4. QED
      BY <1>4, <2>2, <3>3 DEF IsRoot
  <2>5. QED
    BY <2>3, <2>4
<1>6. \A u \in Threads : ~ At(u, "moving")'
  BY <1>2 DEF TreeInv, Aliased, OthersStay, Stays, At
<1>7. QED
  BY <1>5, <1>6 DEF LoopInv, MovesApart

\* A rename moves entries of which none is above the other.
LEMMA RenamesLoop ==
  ASSUME TreeInv, LoopInv, NEW d \in Dentries, NEW e \in Dentries, Renames(d, e)
  PROVE  LoopInv'
<1>1. /\ d # e /\ dn[d].parent # d /\ dn[e].parent # e
      /\ \A x \in Dentries \ {d, e} : dn'[x] = dn[x]
      /\ dn'[d].live = dn[d].live /\ dn'[e].live = dn[e].live
      /\ dn'[d].parent = dn[e].parent
      /\ dn'[e].parent = dn[e].parent \/ dn'[e].parent = dn[d].parent
  BY DEF Renames, Only, Keeps, IsRoot
<1>2. dn[d].live /\ dn[e].live
  BY DEF Renames, TreeInv, DeadBlank
<1>3. PICK A \in SUBSET Dentries : e \in A /\ d \notin A /\ Closed(A)
  BY <1>1, <1>2, NotAbove DEF Renames, Apart
<1>4. PICK B \in SUBSET Dentries : d \in B /\ e \notin B /\ Closed(B)
  BY <1>1, <1>2, NotAbove DEF Renames, Apart
<1>5. Rooted'
  <2> SUFFICES ASSUME NEW C \in SUBSET Dentries, C # {},
                      \A x \in C : dn'[x].live /\ dn'[x].parent \in C
               PROVE  \E x \in C : dn'[x].parent = x
    BY DEF Rooted, Closed, IsRoot
  <2>1. \A x \in C : dn[x].live
    BY <1>1, <1>2
  <2>2. CASE d \in C
    <3>1. dn[e].parent \in C \cap A
      BY <1>1, <1>3, <2>2 DEF Closed
    <3>2. \A x \in C \cap A : dn[x].live /\ dn[x].parent \in C \cap A
      BY <1>1, <1>3, <2>1, <3>1 DEF Closed
    <3>3. PICK x \in C \cap A : IsRoot(x)
      BY <3>1, <3>2 DEF LoopInv, Rooted, Closed
    <3>4. x # d /\ x # e
      BY <1>1, <3>3 DEF IsRoot
    <3>5. QED
      BY <1>1, <3>3, <3>4 DEF IsRoot
  <2>3. CASE d \notin C /\ e \in C /\ dn'[e].parent = dn[d].parent
    <3>1. dn[d].parent \in C \cap B
      BY <1>4, <2>3 DEF Closed
    <3>2. \A x \in C \cap B : dn[x].live /\ dn[x].parent \in C \cap B
      BY <1>1, <1>4, <2>1, <2>3 DEF Closed
    <3>3. PICK x \in C \cap B : IsRoot(x)
      BY <3>1, <3>2 DEF LoopInv, Rooted, Closed
    <3>4. QED
      BY <1>1, <1>4, <2>3, <3>3 DEF IsRoot
  <2>4. CASE d \notin C /\ (e \in C => dn'[e].parent = dn[e].parent)
    <3>1. \A x \in C : dn'[x].parent = dn[x].parent
      BY <1>1, <2>4
    <3>2. PICK x \in C : IsRoot(x)
      BY <2>1, <3>1 DEF LoopInv, Rooted, Closed
    <3>3. QED
      BY <3>1, <3>2 DEF IsRoot
  <2>5. QED
    BY <1>1, <2>2, <2>3, <2>4
<1>6. \A u \in Threads : ~ At(u, "moving")'
  BY TreeAssumption DEF Renames, TreeInv, Aliased, Stays, At
<1>7. QED
  BY <1>5, <1>6 DEF LoopInv, MovesApart

LEMMA LoopStep ==
  ASSUME TreeInv, LoopInv, SomeKind
  PROVE  LoopInv'
<1>1. CASE Removes
  BY <1>1, RemovesLoop
<1>2. ASSUME NEW t \in Threads, Withdraws(t)
      PROVE  LoopInv'
  <2>1. th[t].d \in Dentries
    BY <1>2 DEF Withdraws, MayFail, TreeInv, Owned, Own
  <2>2. /\ MayFail(t) /\ ~ At(t, "moving")' /\ OthersStay(t) /\ ~ dn'[th[t].d].live
        /\ \A x \in Dentries \ {th[t].d} : dn'[x].live = dn[x].live /\ dn'[x].parent = dn[x].parent
    BY <1>2, <2>1 DEF Withdraws, NoDentry, Owns, Naming, At
  <2>3. QED
    BY <2>2, GivenUpLoop
<1>3. ASSUME NEW t \in Threads, NEW e \in Dentries, Revives(t, e)
      PROVE  LoopInv'
  <2>1. /\ MayFail(t) /\ ~ At(t, "moving")' /\ OthersStay(t) /\ ~ dn'[th[t].d].live
        /\ \A x \in Dentries \ {th[t].d} : dn'[x].live = dn[x].live /\ dn'[x].parent = dn[x].parent
    BY <1>3 DEF Revives, MayFail, NoDentry, Only, Keeps, Owns, Naming, At
  <2>2. QED
    BY <2>1, GivenUpLoop
<1>4. ASSUME NEW t \in Threads, GoesOn(t) \/ Claiming(t) \/ Publishes(t)
      PROVE  LoopInv'
  <2>1. /\ OthersStay(t) /\ ~ At(t, "moving")'
        /\ \A x \in Dentries : dn'[x].live = dn[x].live /\ dn'[x].parent = dn[x].parent
    <3>1. CASE GoesOn(t)
      BY <3>1 DEF GoesOn, At
    <3>2. CASE Claiming(t)
      BY <3>2 DEF Claiming, Only, Keeps, At
    <3>3. CASE Publishes(t)
      BY <3>3 DEF Publishes, Only, Keeps, Owns, Naming, At
    <3>4. QED
      BY <1>4, <3>1, <3>2, <3>3
  <2>2. QED
    BY <2>1, KeepsLoop
<1>5. ASSUME NEW t \in Threads, Allocates(t) \/ Starts(t) \/ Replaces(t)
      PROVE  LoopInv'
  BY <1>5, AllocatesLoop, StartsLoop, ReplacesLoop
<1>6. ASSUME NEW d \in Dentries, NEW e \in Dentries, Renames(d, e)
      PROVE  LoopInv'
  BY <1>6, RenamesLoop
<1>7. QED
  BY <1>1, <1>2, <1>3, <1>4, <1>5, <1>6 DEF SomeKind

LEMMA InitLoop == Init => LoopInv
<1> SUFFICES ASSUME Init PROVE LoopInv
  OBVIOUS
<1>1. \A x \in Dentries : dn[x].live => dn[x].parent = x
  BY DEF Init, NoDentry
<1>2. \A t \in Threads : ~ At(t, "moving")
  BY DEF Init, Idle, At
<1>3. Rooted
  BY <1>1 DEF Rooted, Closed, IsRoot
<1>4. QED
  BY <1>2, <1>3 DEF LoopInv, MovesApart

LEMMA StepInv == TreeInv /\ Single /\ LoopInv /\ [Next]_vars => (TreeInv /\ Single /\ LoopInv)'
<1> SUFFICES ASSUME TreeInv, Single, LoopInv, [Next]_vars PROVE TreeInv' /\ Single' /\ LoopInv'
  OBVIOUS
<1>1. DnTyped' /\ ThTyped' /\ SomeKind
  <2>1. CASE Next
    BY <2>1, StepsSorted
  <2>2. CASE UNCHANGED vars
    <3>1. DnTyped' /\ ThTyped'
      BY <2>2 DEF vars, TreeInv, DnTyped, ThTyped
    <3>2. Removes
      BY <2>2 DEF vars, Removes, SameNames, Stays, Owns, Naming, At
    <3>3. QED
      BY <3>1, <3>2 DEF SomeKind
  <2>3. QED
    BY <2>1, <2>2
<1>2. QED
  BY <1>1, KindsKeep, SingleStays, LoopStep

LEMMA InitSingle == Init => Single
  BY TreeAssumption DEF Init, Single, NoDentry

LEMMA Inductive == Spec => [](TreeInv /\ Single /\ LoopInv)
<1>1. Init => TreeInv /\ Single /\ LoopInv
  BY InitInv, InitSingle, InitLoop
<1>2. QED
  BY <1>1, StepInv, PTL DEF Spec

\* d_alloc_parallel: however lookups, moves, renames and removals interleave, a name of
\* a directory has one entry that can be found and one in lookup, at most.
THEOREM TreeNamesOnce == Spec => []NamesOnce
<1>1. TreeInv => NamesOnce
  <2> SUFFICES ASSUME TreeInv, NEW d \in Dentries, NEW e \in Dentries,
                      Same(d, e), dn[d].live, ~ IsRoot(d)
               PROVE  ~ (dn[d].hashed /\ dn[e].hashed) /\ ~ (dn[d].lookup /\ dn[e].lookup)
    BY DEF NamesOnce
  <2>1. d # e /\ SameName(d, e) /\ dn[d].name \in Names
    BY DEF Same, SameName, TreeInv, Named
  <2>2. ~ (dn[d].hashed /\ dn[e].hashed)
    BY <2>1 DEF TreeInv, HashedOnce
  <2>3. ASSUME dn[d].lookup, dn[e].lookup
        PROVE  FALSE
    <3>1. PICK t \in Threads : th[t].pc \in {"fs", "splice"} /\ th[t].d = d
      BY <2>3 DEF TreeInv, InLookup
    <3>2. PICK u \in Threads : th[u].pc \in {"fs", "splice"} /\ th[u].d = e
      BY <2>3 DEF TreeInv, InLookup
    <3>3. QED
      BY <2>1, <3>1, <3>2 DEF TreeInv, ClaimedOnce, Claims
  <2>4. QED
    BY <2>2, <2>3
<1>2. QED
  BY Inductive, <1>1, PTL

\* __d_add under i_lock, __d_instantiate_anon: a directory that lookups and file handles
\* reach at the same time has one entry.
THEOREM TreeOneAlias == Spec => []OneAlias
<1>1. Single => OneAlias
  <2> SUFFICES ASSUME Single, NEW i \in Inodes \cup {RootInode}
               PROVE  Cardinality(Aliases(i)) <= 1
    BY DEF OneAlias
  <2>1. CASE Aliases(i) = {}
    BY <2>1, FS_EmptySet
  <2>2. CASE Aliases(i) # {}
    <3>1. PICK d \in Aliases(i) : TRUE
      BY <2>2
    <3>2. Aliases(i) = {d}
      BY <3>1, TreeAssumption DEF Aliases, Single
    <3>3. Cardinality({d}) = 1
      BY FS_Singleton
    <3>4. QED
      BY <3>2, <3>3
  <2>3. QED
    BY <2>1, <2>2
<1>2. QED
  BY Inductive, <1>1, PTL

\* d_splice_alias takes rename_lock before it asks d_ancestor and keeps it for the move:
\* whatever hierarchy the file system pretends to have, every entry is below a root.
THEOREM TreeNoLoops == Spec => []NoLoops
<1>1. TreeInv /\ LoopInv => NoLoops
  BY RootAbove DEF NoLoops, LoopInv
<1>2. QED
  BY Inductive, <1>1, PTL

-----------------------------------------------------------------------------
(* Mounts and invalidations.  What an entry is above of is told by closed  *)
(* sets here too.                                                          *)

Invalidating(t) == th[t].pc \in {"shrink", "start", "walk", "detach"}
\* Threads that hold an entry that is not their own.
Working(t) == At(t, "mount") \/ Invalidating(t)
\* Nobody may give the entry up.
Lasting(x) == dn[x].live /\ \A u \in Threads : MayFail(u) => th[u].d # x
\* It is somebody's own.
Private(x) == \E u \in Threads : Owns(u) /\ th[u].d = x

\* A pass over a tree that need not be repeated so far: nobody moves or mounts.
Sees(t) == At(t, "walk") /\ (rename_lock = t \/ th[t].still)
Shuffling == \E u \in Threads : At(u, "moving") \/ At(u, "mount")

\* The mounted entries that such a pass has not met are below what it has still to visit.
ToVisit(t) ==
  {x \in Dentries : \E k \in DOMAIN th[t].stack :
     x \in th[t].stack[k].todo /\ x \in Children(th[t].stack[k].at)}
PassLeft(t) ==
  \A c \in Dentries \ {th[t].d} : dn[c].mounted =>
    Apart(th[t].d, c) \/ \E x \in ToVisit(t) : ~ Apart(x, c)

\* The invalid entries that are above a future mount are above the place that
\* d_set_mounted has reached, or there.
WayLeft(t) ==
  \A a \in Dentries \ {th[t].d} : dn[a].invalid => Apart(a, th[t].d) \/ ~ Apart(a, th[t].p)

WorkerInv(t) ==
  /\ Working(t) => th[t].d \in Dentries /\ Lasting(th[t].d)
  /\ Invalidating(t) => ~ IsRoot(th[t].d) /\ ~ Private(th[t].d)
  /\ Sees(t) => ~ Shuffling /\ PassLeft(t)
  /\ At(t, "mount") => WayLeft(t)

MountsLast == \A x \in Dentries : dn[x].mounted => Lasting(x)
\* Who has been invalidated is not found, and is neither a root nor somebody's own.
Unfound == \A x \in Dentries : dn[x].invalid => dn[x].live /\ ~ dn[x].hashed /\ ~ IsRoot(x) /\ ~ Private(x)

MountInv == MountsLast /\ Unfound /\ \A t \in Threads : WorkerInv(t)

LEMMA InitMount == Init => MountInv
<1> SUFFICES ASSUME Init PROVE MountInv
  OBVIOUS
<1>1. \A x \in Dentries : ~ dn[x].mounted /\ ~ dn[x].invalid
  BY DEF Init, NoDentry
<1>2. \A t \in Threads : th[t].pc = "idle"
  BY DEF Init, Idle
<1>3. \A t \in Threads : WorkerInv(t)
  BY <1>2 DEF WorkerInv, Working, Invalidating, Sees, At
<1> QED
  BY <1>1, <1>3 DEF MountInv, MountsLast, Unfound

-----------------------------------------------------------------------------
(* What every step keeps                                                   *)

\* Who goes away had nobody who needed it.
Remains ==
  \A x \in Dentries : dn[x].live /\ ~ dn'[x].live => ~ Held(x) \/ \E u \in Threads : MayFail(u) /\ th[u].d = x
\* No entry becomes a root.
RootsFrom == \A x \in Dentries : dn[x].live /\ dn'[x].live /\ dn'[x].parent = x => dn[x].parent = x
\* A thread gets an entry that did not live.
OwnersFrom ==
  \A u \in Threads : Owns(u)' =>
    \/ Owns(u) /\ th'[u].d = th[u].d /\ (MayFail(u)' => MayFail(u))
    \/ th'[u].d \in Dentries /\ ~ dn[th'[u].d].live
\* Nobody moves.
Settled == \A x \in Dentries : dn[x].live /\ dn'[x].live => dn'[x].parent = dn[x].parent

StepFacts == Remains /\ RootsFrom /\ OwnersFrom

\* A closed set without a tells that d's parent is not a.
LEMMA ApartParent ==
  ASSUME NEW a, NEW d, Apart(a, d)
  PROVE  dn[d].parent # a
  BY DEF Apart, Closed

LEMMA SettledFacts ==
  ASSUME Remains, OwnersFrom, Settled
  PROVE  StepFacts
  BY DEF StepFacts, RootsFrom, Settled

LEMMA RemovesFacts ==
  ASSUME TreeInv, Removes
  PROVE  StepFacts /\ Settled
<1>1. Remains
  BY DEF Removes, SameNames, Remains
<1>2. Settled
  BY DEF Removes, SameNames, Settled, NoDentry
<1>3. OwnersFrom
  BY DEF Removes, Stays, OwnersFrom, Owns, Naming, MayFail, At
<1> QED
  BY <1>1, <1>2, <1>3, SettledFacts

LEMMA OwnStepFacts ==
  ASSUME TreeInv, NEW t \in Threads,
         Withdraws(t) \/ GoesOn(t) \/ Claiming(t) \/ Starts(t) \/ Publishes(t) \/ \E e \in Dentries : Revives(t, e)
  PROVE  StepFacts /\ Settled
<1>1. th[t].d \in Dentries
  BY DEF Withdraws, GoesOn, Claiming, Starts, Publishes, Revives, MayFail, TreeInv, Owned, Own, Owns, Naming, At
<1>2. OwnersFrom
  <2>1. OthersStay(t)
    BY DEF Withdraws, GoesOn, Claiming, Starts, Publishes, Revives
  <2>2. Owns(t)' => Owns(t) /\ th'[t].d = th[t].d /\ MayFail(t)
    <3>1. CASE Withdraws(t) \/ Publishes(t) \/ \E e \in Dentries : Revives(t, e)
      BY <3>1 DEF Withdraws, Publishes, Revives
    <3>2. CASE GoesOn(t) \/ Claiming(t) \/ Starts(t)
      BY <3>2 DEF GoesOn, Claiming, Starts, Owns, Naming, MayFail, At
    <3> QED
      BY <3>1, <3>2
  <2> QED
    BY <2>1, <2>2 DEF OwnersFrom, OthersStay, Stays, Owns, Naming, MayFail, At
<1>3. Remains /\ Settled
  <2>1. CASE Withdraws(t) \/ \E e \in Dentries : Revives(t, e)
    <3>1. MayFail(t) /\ \A x \in Dentries \ {th[t].d} : dn'[x].live = dn[x].live /\ dn'[x].parent = dn[x].parent
      BY <2>1 DEF Withdraws, Revives, Only, Keeps, MayFail, Owns, Naming, At
    <3>2. dn'[th[t].d] = NoDentry
      BY <1>1, <2>1, Zenon DEF Withdraws, Revives
    <3>3. ~ dn'[th[t].d].live
      BY <3>2 DEF NoDentry
    <3> QED
      BY <3>1, <3>3 DEF Remains, Settled
  <2>2. CASE GoesOn(t) \/ Claiming(t) \/ Starts(t) \/ Publishes(t)
    <3>1. \A x \in Dentries : dn'[x].live = dn[x].live /\ dn'[x].parent = dn[x].parent
      BY <2>2 DEF GoesOn, Claiming, Starts, Publishes, Only, Keeps
    <3> QED
      BY <3>1 DEF Remains, Settled
  <2> QED
    BY <2>1, <2>2
<1> QED
  BY <1>2, <1>3, SettledFacts

LEMMA AllocatesFacts ==
  ASSUME TreeInv, NEW t \in Threads, Allocates(t)
  PROVE  StepFacts /\ Settled
<1>1. Remains /\ Settled
  BY DEF Allocates, Only, Remains, Settled
<1>2. OwnersFrom
  BY DEF Allocates, OwnersFrom, OthersStay, Stays, Owns, Naming, MayFail, At
<1> QED
  BY <1>1, <1>2, SettledFacts

LEMMA ReplacesFacts ==
  ASSUME TreeInv, LoopInv, NEW t \in Threads, Replaces(t)
  PROVE  StepFacts
<1>1. PICK d, a : d = th[t].d /\ a = th[t].a
  OBVIOUS
<1>2. /\ At(t, "moving") /\ ~ Owns(t)' /\ OthersStay(t)
      /\ \A x \in Dentries \ {d, a} : dn'[x] = dn[x]
      /\ dn'[d] = NoDentry /\ dn'[a].live = dn[a].live /\ dn'[a].parent = dn[d].parent
  BY <1>1 DEF Replaces, Only
<1>3. Apart(a, d) /\ MayFail(t)
  BY <1>1, <1>2 DEF LoopInv, MovesApart, MayFail, Owns, Naming, At
<1>4. OwnersFrom
  BY <1>2 DEF OwnersFrom, OthersStay, Stays, Owns, Naming, MayFail, At
<1>5. Remains
  BY <1>1, <1>2, <1>3 DEF Remains
<1>6. RootsFrom
  BY <1>2, <1>3, ApartParent DEF RootsFrom, NoDentry
<1> QED
  BY <1>4, <1>5, <1>6 DEF StepFacts

LEMMA RenamesFacts ==
  ASSUME TreeInv, NEW d \in Dentries, NEW e \in Dentries, Renames(d, e)
  PROVE  StepFacts
<1>1. /\ d # e /\ \A x \in Dentries \ {d, e} : dn'[x] = dn[x]
      /\ dn'[d].live = dn[d].live /\ dn'[e].live = dn[e].live
      /\ dn'[d].parent = dn[e].parent
      /\ dn'[e].parent = dn[e].parent \/ dn'[e].parent = dn[d].parent
      /\ \A u \in Threads : Stays(u)
  BY DEF Renames, Only, Keeps
<1>2. dn[d].live /\ dn[e].live
  BY DEF Renames, TreeInv, DeadBlank
<1>3. Apart(d, e) /\ Apart(e, d)
  BY <1>1, <1>2, NotAbove DEF Renames
<1>4. Remains
  BY <1>1 DEF Remains
<1>5. RootsFrom
  BY <1>1, <1>3, ApartParent DEF RootsFrom
<1>6. OwnersFrom
  BY <1>1 DEF OwnersFrom, Stays, Owns, Naming, MayFail, At
<1> QED
  BY <1>4, <1>5, <1>6 DEF StepFacts

-----------------------------------------------------------------------------
(* What the steps of others do to one who works                            *)

\* An entry that is used does not go away.
LEMMA LastingStays ==
  ASSUME StepFacts, NEW x \in Dentries, Lasting(x), Held(x)
  PROVE  Lasting(x)' /\ dn'[x].live
<1>1. dn'[x].live
  BY DEF StepFacts, Remains, Lasting
<1>2. \A u \in Threads : MayFail(u)' => th'[u].d # x
  BY DEF StepFacts, OwnersFrom, Lasting, MayFail
<1> QED
  BY <1>1, <1>2 DEF Lasting

LEMMA PublicStays ==
  ASSUME StepFacts, NEW x \in Dentries, dn[x].live, ~ Private(x)
  PROVE  ~ Private(x)'
  BY DEF StepFacts, OwnersFrom, Private

\* What is above an entry stays above it, and nothing else comes there, while nobody moves.
LEMMA ApartStays ==
  ASSUME TreeInv, StepFacts, Settled, NEW x, NEW c \in Dentries, dn[c].live, dn'[c].live
  PROVE  Apart(x, c) <=> Apart(x, c)'
<1>1. ASSUME NEW y \in Dentries, dn[y].live, dn'[y].live
      PROVE  dn'[y].parent = dn[y].parent /\ dn[dn[y].parent].live /\ dn'[dn[y].parent].live
  <2>1. dn'[y].parent = dn[y].parent
    BY <1>1 DEF Settled
  <2>2. PICK p \in Dentries : p = dn[y].parent
    BY <1>1 DEF TreeInv, Parents
  <2>3. dn[p].live
    BY <1>1, <2>2 DEF TreeInv, Parents
  <2>4. ASSUME p # y, ~ dn'[p].live PROVE FALSE
    <3>1. y \in Children(p)
      BY <1>1, <2>2, <2>4 DEF Children
    <3>2. Held(p)
      BY <3>1 DEF Held
    <3>3. PICK u \in Threads : MayFail(u) /\ th[u].d = p
      BY <2>3, <2>4, <3>2 DEF StepFacts, Remains
    <3> QED
      BY <1>1, <2>2, <2>4, <3>3 DEF TreeInv, Childless
  <2> QED
    BY <1>1, <2>1, <2>2, <2>3, <2>4
<1>2. ASSUME Apart(x, c) PROVE Apart(x, c)'
  <2>1. PICK C \in SUBSET Dentries : c \in C /\ x \notin C /\ Closed(C)
    BY <1>2 DEF Apart
  <2> DEFINE D == {y \in C : dn'[y].live}
  <2>2. D \in SUBSET Dentries /\ c \in D /\ x \notin D
    BY <2>1
  <2>3. \A y \in D : dn'[y].live /\ dn'[y].parent \in D
    BY <1>1, <2>1 DEF Closed
  <2> HIDE DEF D
  <2> QED
    BY <2>2, <2>3 DEF Apart, Closed
<1>3. ASSUME Apart(x, c)' PROVE Apart(x, c)
  <2>1. PICK C \in SUBSET Dentries : c \in C /\ x \notin C /\ \A y \in C : dn'[y].live /\ dn'[y].parent \in C
    BY <1>3 DEF Apart, Closed
  <2> DEFINE D == {y \in C : dn[y].live}
  <2>2. D \in SUBSET Dentries /\ c \in D /\ x \notin D
    BY <2>1
  <2>3. \A y \in D : dn[y].live /\ dn[y].parent \in D
    BY <1>1, <2>1
  <2> HIDE DEF D
  <2> QED
    BY <2>2, <2>3 DEF Apart, Closed
<1> QED
  BY <1>2, <1>3

\* Nothing that lasts is below an entry that goes away.
LEMMA GoneApart ==
  ASSUME TreeInv, StepFacts, NEW x \in Dentries, dn[x].live, ~ dn'[x].live,
         NEW c \in Dentries, Lasting(c), Held(c)
  PROVE  Apart(x, c)
<1>1. c # x
  BY LastingStays
<1>2. \A y \in Dentries \ {x} : dn[y].live => dn[y].parent # x
  BY DEF StepFacts, Remains, Held, Children, TreeInv, Childless
<1> DEFINE D == {y \in Dentries \ {x} : dn[y].live}
<1>3. D \in SUBSET Dentries /\ c \in D /\ x \notin D
  BY <1>1 DEF Lasting
<1>4. \A y \in D : dn[y].live /\ dn[y].parent \in D
  BY <1>2 DEF TreeInv, Parents
<1> HIDE DEF D
<1> QED
  BY <1>3, <1>4 DEF Apart, Closed

\* A thread stays where it is; it may learn that its pass is to be repeated.
Along(u) ==
  /\ th'[u].pc = th[u].pc /\ th'[u].d = th[u].d /\ th'[u].p = th[u].p /\ th'[u].stack = th[u].stack
  /\ th'[u].still => th[u].still
  /\ At(u, "walk") /\ rename_lock' = u => rename_lock = u

FewerMounts == \A x \in Dentries : dn'[x].mounted => dn[x].mounted
FewerInvalid == \A x \in Dentries : dn'[x].invalid => dn[x].invalid

LEMMA PassStays ==
  ASSUME TreeInv, MountInv, StepFacts, Settled, FewerMounts,
         NEW u \in Threads, Along(u), Sees(u), PassLeft(u)
  PROVE  PassLeft(u)'
<1> SUFFICES ASSUME NEW c \in Dentries \ {th[u].d}, dn'[c].mounted
             PROVE  Apart(th[u].d, c)' \/ \E x \in ToVisit(u)' : ~ Apart(x, c)'
  <2>1. th'[u].d = th[u].d
    BY DEF Along
  <2>2. PICK d : d = th[u].d /\ d = th'[u].d
    BY <2>1
  <2> QED
    BY <2>2 DEF PassLeft, Apart, Closed
<1>1. dn[c].mounted /\ Lasting(c) /\ Held(c) /\ dn[c].live
  BY DEF FewerMounts, MountInv, MountsLast, Held, Lasting
<1>2. dn'[c].live
  BY <1>1, LastingStays
<1>3. CASE Apart(th[u].d, c)
  <2>1. PICK d : d = th[u].d /\ d = th'[u].d
    BY DEF Along
  <2>2. Apart(d, c)'
    BY <1>1, <1>2, <1>3, <2>1, ApartStays
  <2> QED
    BY <2>1, <2>2 DEF Apart, Closed
<1>4. ASSUME NEW x \in ToVisit(u), ~ Apart(x, c)
      PROVE  x \in ToVisit(u)' /\ ~ Apart(x, c)'
  <2>1. ~ Apart(x, c)'
    BY <1>1, <1>2, <1>4, ApartStays
  <2>2. PICK k \in DOMAIN th[u].stack : x \in th[u].stack[k].todo /\ x \in Children(th[u].stack[k].at)
    BY DEF ToVisit
  <2>3. x \in Dentries /\ x # th[u].stack[k].at /\ dn[x].live /\ dn[x].parent = th[u].stack[k].at
    BY <2>2 DEF Children
  <2>4. dn'[x].live
    BY <1>1, <1>4, <2>3, GoneApart
  <2>5. dn'[x].parent = dn[x].parent
    BY <2>3, <2>4 DEF Settled
  <2>6. th'[u].stack = th[u].stack
    BY DEF Along
  <2>7. \E m \in DOMAIN th'[u].stack :
          x \in th'[u].stack[m].todo /\ x \in Dentries \ {th'[u].stack[m].at}
          /\ dn'[x].live /\ dn'[x].parent = th'[u].stack[m].at
    BY <2>2, <2>3, <2>4, <2>5, <2>6
  <2>8. x \in ToVisit(u)'
    BY <2>3, <2>7 DEF ToVisit, Children
  <2> QED
    BY <2>1, <2>8
<1>5. dn[c].mounted /\ c \in Dentries \ {th[u].d}
  BY <1>1
<1> QED
  BY <1>3, <1>4, <1>5 DEF PassLeft

LEMMA WayStays ==
  ASSUME TreeInv, MountInv, StepFacts, Settled, FewerInvalid,
         NEW u \in Threads, Along(u), At(u, "mount"), WayLeft(u)
  PROVE  WayLeft(u)'
<1>1. PICK d \in Dentries, p \in Dentries : d = th[u].d /\ d = th'[u].d /\ p = th[u].p /\ p = th'[u].p
  BY DEF Along, MountInv, WorkerInv, Working, TreeInv, Mounting
<1>2. Held(d) /\ Held(p)
  BY <1>1 DEF Held
<1>3. Lasting(d) /\ Lasting(p)
  BY <1>1 DEF MountInv, WorkerInv, Working, TreeInv, Mounting, Lasting
<1>4. /\ dn[d].live /\ dn'[d].live /\ dn[p].live /\ dn'[p].live
  BY <1>2, <1>3, LastingStays DEF Lasting
<1>5. ASSUME NEW a \in Dentries \ {d}, dn'[a].invalid
      PROVE  Apart(a, d)' \/ ~ Apart(a, p)'
  <2>1. Apart(a, d) \/ ~ Apart(a, p)
    BY <1>1, <1>5 DEF FewerInvalid, WayLeft
  <2> QED
    BY <1>4, <2>1, ApartStays
<1> QED
  BY <1>1, <1>5 DEF WayLeft, Apart, Closed

\* One who stays where it is keeps what it knows.
LEMMA AlongKeeps ==
  ASSUME TreeInv, MountInv, StepFacts, NEW u \in Threads, Along(u),
         Sees(u)' => Settled /\ FewerMounts /\ ~ Shuffling',
         At(u, "mount") => Settled /\ FewerInvalid
  PROVE  WorkerInv(u)'
<1>1. WorkerInv(u)
  BY DEF MountInv
<1>2. /\ Working(u)' = Working(u) /\ Invalidating(u)' = Invalidating(u) /\ th'[u].d = th[u].d
      /\ At(u, "mount")' = At(u, "mount") /\ (Sees(u)' => Sees(u))
  BY DEF Along, Working, Invalidating, Sees, At
<1>3. PICK d : d = th[u].d /\ d = th'[u].d
  BY <1>2
<1>4. ASSUME Working(u) PROVE d \in Dentries /\ Lasting(d)' /\ dn'[d].live /\ dn[d].live
  <2>1. d \in Dentries /\ Lasting(d)
    BY <1>1, <1>3, <1>4 DEF WorkerInv
  <2>2. Held(d)
    BY <1>3 DEF Held
  <2> QED
    BY <2>1, <2>2, LastingStays DEF Lasting
<1>5. ASSUME Invalidating(u) PROVE dn'[d].parent # d /\ ~ Private(d)'
  <2>1. d \in Dentries /\ dn[d].live /\ dn'[d].live
    BY <1>4, <1>5 DEF Working
  <2>2. dn[d].parent # d /\ ~ Private(d)
    BY <1>1, <1>3, <1>5 DEF WorkerInv, IsRoot
  <2> QED
    BY <2>1, <2>2, PublicStays DEF StepFacts, RootsFrom
<1>6. Sees(u)' => ~ Shuffling' /\ PassLeft(u)'
  BY <1>1, <1>2, PassStays DEF WorkerInv
<1>7. At(u, "mount")' => WayLeft(u)'
  BY <1>1, <1>2, WayStays DEF WorkerInv
<1>8. Working(u)' => th'[u].d \in Dentries /\ Lasting(th[u].d)'
  BY <1>2, <1>3, <1>4 DEF Lasting
<1>9. Invalidating(u)' => ~ IsRoot(th[u].d)' /\ ~ Private(th[u].d)'
  BY <1>2, <1>3, <1>5 DEF IsRoot, Private
<1> QED
  BY <1>6, <1>7, <1>8, <1>9 DEF WorkerInv

-----------------------------------------------------------------------------
(* Steps that neither walk nor mount                                       *)

\* No entry becomes mounted or invalid, and none that is invalid can be found again.
Marks ==
  \A x \in Dentries :
    /\ dn'[x].mounted => dn[x].mounted
    /\ dn'[x].invalid => dn[x].invalid /\ dn'[x].live /\ (dn'[x].hashed => dn[x].hashed)

\* The property, of a step.
Respects ==
  \A d \in Dentries :
    /\ dn'[d].mounted /\ ~ dn[d].mounted => \A a \in Dentries : Above(a, d) => ~ dn[a].invalid
    /\ dn'[d].invalid /\ ~ dn[d].invalid => \A c \in Dentries : Above(d, c) => ~ dn[c].mounted
MountStep == MountInv' /\ Respects

LEMMA MountsKept ==
  ASSUME StepFacts, \A x \in Dentries : dn'[x].mounted => Lasting(x) /\ Held(x)
  PROVE  MountsLast'
  BY LastingStays DEF MountsLast

LEMMA UnfoundKept ==
  ASSUME StepFacts,
         \A x \in Dentries : dn'[x].invalid =>
           /\ dn'[x].live /\ ~ dn'[x].hashed
           /\ dn[x].live /\ dn[x].parent # x /\ ~ Private(x)
  PROVE  Unfound'
  BY PublicStays DEF Unfound, StepFacts, RootsFrom, IsRoot

LEMMA MarksKeep ==
  ASSUME TreeInv, MountInv, StepFacts, Marks
  PROVE  MountsLast' /\ Unfound'
<1>1. \A x \in Dentries : dn'[x].mounted => Lasting(x) /\ Held(x)
  BY DEF Marks, MountInv, MountsLast, Held
<1>2. \A x \in Dentries : dn'[x].invalid =>
           /\ dn'[x].live /\ ~ dn'[x].hashed
           /\ dn[x].live /\ dn[x].parent # x /\ ~ Private(x)
  BY DEF Marks, MountInv, Unfound, IsRoot
<1> QED
  BY <1>1, <1>2, MountsKept, UnfoundKept

\* A thread stays where it is, ends, or goes on with the invalidation of an entry.
GoesAlong(u) ==
  \/ Along(u)
  \/ ~ Working(u)'
  \/ Invalidating(u) /\ th'[u].pc \in {"shrink", "start", "detach"} /\ th'[u].d = th[u].d
  \/ /\ th'[u].pc = "shrink" /\ th'[u].d \in Dentries /\ dn[th'[u].d].hashed
     /\ dn'[th'[u].d].live /\ dn[th'[u].d].parent # th'[u].d

\* No thread begins to move or mount.
Calm == \A u \in Threads : (At(u, "moving") \/ At(u, "mount"))' => At(u, "moving") \/ At(u, "mount")

\* The entry that is being invalidated.
LEMMA TargetStays ==
  ASSUME TreeInv, MountInv, StepFacts, NEW u \in Threads, Invalidating(u), th'[u].d = th[u].d
  PROVE  th'[u].d \in Dentries /\ Lasting(th[u].d)' /\ ~ IsRoot(th[u].d)' /\ ~ Private(th[u].d)'
<1>1. PICK d \in Dentries : d = th[u].d /\ d = th'[u].d
  BY DEF MountInv, WorkerInv, Working
<1>2. Lasting(d) /\ dn[d].live /\ ~ Private(d) /\ dn[d].parent # d
  BY <1>1 DEF MountInv, WorkerInv, Working, Lasting, IsRoot
<1>3. Held(d)
  BY <1>1 DEF Held
<1>4. Lasting(d)' /\ dn'[d].live
  BY <1>2, <1>3, LastingStays
<1>5. ~ Private(d)' /\ dn'[d].parent # d
  BY <1>2, <1>4, PublicStays DEF StepFacts, RootsFrom
<1> QED
  BY <1>1, <1>4, <1>5 DEF Lasting, IsRoot, Private

LEMMA GoesAlongKeeps ==
  ASSUME TreeInv, MountInv, StepFacts, Marks, NEW u \in Threads, GoesAlong(u),
         Sees(u)' => Settled /\ Calm,
         At(u, "mount") => Settled
  PROVE  WorkerInv(u)'
<1>1. CASE Along(u)
  <2>1. Sees(u)' => Sees(u)
    BY <1>1 DEF Along, Sees, At
  <2>2. Sees(u)' => ~ Shuffling'
    BY <2>1 DEF MountInv, WorkerInv, Shuffling, Calm
  <2>3. FewerMounts /\ FewerInvalid
    BY DEF Marks, FewerMounts, FewerInvalid
  <2> QED
    BY <1>1, <2>2, <2>3, AlongKeeps
<1>2. CASE ~ Working(u)'
  BY <1>2 DEF WorkerInv, Working, Invalidating, Sees, At
<1>3. CASE Invalidating(u) /\ th'[u].pc \in {"shrink", "start", "detach"} /\ th'[u].d = th[u].d
  BY <1>3, TargetStays DEF WorkerInv, Sees, At
<1>4. CASE /\ th'[u].pc = "shrink" /\ th'[u].d \in Dentries /\ dn[th'[u].d].hashed
           /\ dn'[th'[u].d].live /\ dn[th'[u].d].parent # th'[u].d
  <2>1. PICK d \in Dentries : d = th'[u].d
    BY <1>4
  <2>2. dn[d].live /\ ~ Private(d)
    BY <1>4, <2>1 DEF Private, TreeInv, DeadBlank, Owned, Own
  <2>3. \A v \in Threads : MayFail(v)' => th'[v].d # d
    BY <2>2 DEF StepFacts, OwnersFrom, Private, MayFail
  <2>4. ~ Private(d)' /\ dn'[d].parent # d
    BY <1>4, <2>1, <2>2, PublicStays DEF StepFacts, RootsFrom
  <2>5. th'[u].d \in Dentries /\ Lasting(th[u].d)' /\ ~ IsRoot(th[u].d)' /\ ~ Private(th[u].d)'
    BY <1>4, <2>1, <2>3, <2>4 DEF Lasting, IsRoot, Private
  <2> QED
    BY <1>4, <2>5 DEF WorkerInv, Sees, At
<1> QED
  BY <1>1, <1>2, <1>3, <1>4 DEF GoesAlong

LEMMA OrdinaryKeeps ==
  ASSUME TreeInv, MountInv, StepFacts, Marks, \A u \in Threads : GoesAlong(u),
         \A u \in Threads : Sees(u)' => Settled /\ Calm,
         \A u \in Threads : At(u, "mount") => Settled
  PROVE  MountStep
<1>1. MountInv'
  BY MarksKeep, GoesAlongKeeps DEF MountInv
<1>2. Respects
  BY DEF Marks, Respects
<1> QED
  BY <1>1, <1>2 DEF MountStep

\* Those whose locals a step does not touch.
LEMMA Bystander ==
  ASSUME NEW t \in Threads, NEW u \in Threads \ {t}, th'[u] = th[u],
         rename_lock' \in {rename_lock, Nobody, t}
  PROVE  Along(u)
  BY TreeAssumption DEF Along, At

\* The steps of one thread with an entry of its own, or none.
Modest(t) ==
  /\ \A u \in Threads \ {t} : th'[u] = th[u]
  /\ th'[t].pc \in {"idle", "look", "chain", "wait", "fs", "splice", "adding", "anon"}
  /\ rename_lock' = rename_lock

LEMMA ModestKeeps ==
  ASSUME TreeInv, MountInv, StepFacts, Settled, Marks, NEW t \in Threads, Modest(t)
  PROVE  MountStep
<1>1. ~ Working(t)'
  BY DEF Modest, Working, Invalidating, At
<1>2. \A u \in Threads : GoesAlong(u)
  BY <1>1, Bystander DEF Modest, GoesAlong
<1>3. Calm
  BY DEF Modest, Calm, At
<1> QED
  BY <1>2, <1>3, OrdinaryKeeps

LEMMA NameSteps ==
  ASSUME TreeInv, MountInv, NEW t \in Threads,
         \/ Found(t) \/ NotFound(t) \/ Chain(t) \/ Waited(t) \/ FsError(t) \/ AddEnd(t)
         \/ \E i \in Inodes \cup {RootInode} : SpliceFinds(t, i)
         \/ \E e \in Dentries : ExactAlias(t, e)
         \/ \E root \in BOOLEAN : InstantiateAnon(t, root)
  PROVE  MountStep
<1>1. th[t].d \in Dentries /\ Private(th[t].d)
  BY DEF Found, NotFound, Chain, Waited, FsError, AddEnd, SpliceFinds, ExactAlias, InstantiateAnon,
         TreeInv, Owned, Own, Owns, Naming, At, Private
<1>2. StepFacts /\ Settled
  BY FoundSort, NotFoundSort, ChainSort, WaitedSort, FsErrorSort, AddEndSort, SpliceFindsSort, ExactAliasSort,
     InstantiateAnonSort, OwnStepFacts
<1>3. DnTyped /\ ThTyped
  BY DEF TreeInv
<1>4. Modest(t)
  <2>1. CASE Found(t)
    BY <1>3, <2>1 DEF Found, Returns, Idle, Modest, ThTyped, Thread
  <2>2. CASE NotFound(t)
    BY <1>3, <2>2 DEF NotFound, Modest, ThTyped, Thread
  <2>3. CASE Chain(t)
    <3>1. /\ rename_lock' = rename_lock
          /\ \/ th' = [th EXCEPT ![t].pc = "look"]
             \/ \E e \in Dentries : th' = [th EXCEPT ![t].pc = "wait", ![t].a = e, ![t].fresh = FALSE]
             \/ th' = [th EXCEPT ![t].pc = "fs", ![t].fresh = FALSE]
      BY <2>3 DEF Chain, Goes
    <3>2. (\A u \in Threads \ {t} : th'[u] = th[u]) /\ th'[t].pc \in {"look", "wait", "fs"}
      BY <1>3, <3>1 DEF ThTyped, Thread
    <3> QED
      BY <3>1, <3>2 DEF Modest
  <2>4. CASE Waited(t)
    BY <1>3, <2>4 DEF Waited, Returns, Idle, Modest, ThTyped, Thread
  <2>5. CASE FsError(t)
    BY <1>3, <2>5 DEF FsError, Fails, Returns, Idle, Modest, ThTyped, Thread
  <2>6. CASE AddEnd(t)
    BY <1>3, <2>6 DEF AddEnd, Returns, Idle, Modest, ThTyped, Thread
  <2>7. ASSUME NEW i \in Inodes \cup {RootInode}, SpliceFinds(t, i) PROVE Modest(t)
    BY <1>3, <2>7 DEF SpliceFinds, Modest, ThTyped, Thread
  <2>8. ASSUME NEW e \in Dentries, ExactAlias(t, e) PROVE Modest(t)
    BY <1>3, <2>8 DEF ExactAlias, Returns, Idle, Modest, ThTyped, Thread
  <2>9. ASSUME NEW root \in BOOLEAN, InstantiateAnon(t, root) PROVE Modest(t)
    BY <1>3, <2>9 DEF InstantiateAnon, Returns, Idle, Modest, ThTyped, Thread
  <2> QED
    BY <2>1, <2>2, <2>3, <2>4, <2>5, <2>6, <2>7, <2>8, <2>9
<1>5. Marks
  <2>1. \A x \in Dentries : dn[x].invalid => dn[x].live /\ x # th[t].d
    BY <1>1 DEF MountInv, Unfound
  <2>2. CASE dn' = dn
    BY <2>1, <2>2 DEF Marks
  <2>3. CASE dn' = [dn EXCEPT ![th[t].d] = NoDentry]
    BY <1>1, <1>3, <2>1, <2>3 DEF Marks, DnTyped, NoDentry
  <2>4. CASE Chain(t)
    <3>1. dn' = dn \/ dn' = [dn EXCEPT ![th[t].d].lookup = TRUE]
      BY <2>4 DEF Chain
    <3> QED
      BY <1>1, <1>3, <2>1, <3>1 DEF Marks, DnTyped, Dentry
  <2>5. CASE AddEnd(t)
    BY <1>1, <1>3, <2>1, <2>5 DEF AddEnd, Marks, DnTyped, Dentry
  <2>6. ASSUME NEW e \in Dentries, ExactAlias(t, e) PROVE Marks
    BY <1>1, <1>3, <2>1, <2>6 DEF ExactAlias, Marks, DnTyped, Dentry, NoDentry
  <2>7. ASSUME NEW root \in BOOLEAN, InstantiateAnon(t, root) PROVE Marks
    <3>1. \/ dn' = [dn EXCEPT ![th[t].d] = NoDentry]
          \/ dn' = [dn EXCEPT ![th[t].d] = [dn[th[t].d] EXCEPT !.inode = th[t].i, !.hashed = root]]
      BY <2>7 DEF InstantiateAnon
    <3>2. CASE dn' = [dn EXCEPT ![th[t].d] = [dn[th[t].d] EXCEPT !.inode = th[t].i, !.hashed = root]]
      BY <1>1, <1>3, <2>1, <3>2 DEF Marks, DnTyped, Dentry
    <3> QED
      BY <2>3, <3>1, <3>2
  <2> QED
    BY <2>2, <2>3, <2>4, <2>5, <2>6, <2>7 DEF Found, NotFound, Waited, FsError, Fails, SpliceFinds
<1> QED
  BY <1>2, <1>4, <1>5, ModestKeeps

LEMMA NewSteps ==
  ASSUME TreeInv, MountInv, NEW t \in Threads, NEW d \in Dentries,
         \/ \E p \in Dentries, n \in Names : Lookup(t, p, n, d)
         \/ \E i \in Inodes : Obtain(t, i, d)
  PROVE  MountStep
<1>1. StepFacts /\ Settled
  BY LookupSort, ObtainSort, AllocatesFacts
<1>2. DnTyped /\ ThTyped
  BY DEF TreeInv
<1>3. Modest(t)
  BY <1>2 DEF Lookup, Obtain, Idle, Modest, ThTyped, Thread
<1>4. \A x \in Dentries \ {d} : dn'[x] = dn[x]
  BY <1>2 DEF Lookup, Obtain, DnTyped
<1>5. ~ dn'[d].mounted /\ ~ dn'[d].invalid
  BY <1>2 DEF Lookup, Obtain, DnTyped, NoDentry
<1>6. Marks
  BY <1>4, <1>5 DEF Marks, MountInv, Unfound
<1> QED
  BY <1>1, <1>3, <1>6, ModestKeeps

\* What a change of a sequence does to walks.
LEMMA SequenceWalks ==
  ASSUME NEW f \in [Threads -> Thread], NEW p, NEW u \in Threads
  PROVE  /\ DirChanged(f, p)[u].stack = f[u].stack /\ DirChanged(f, p)[u].still = f[u].still
         /\ Renamed(f)[u].stack = f[u].stack /\ ~ Renamed(f)[u].still
<1>1. f[u] \in Thread
  OBVIOUS
<1>2. /\ DirChanged(f, p)[u] = [f[u] EXCEPT !.fresh = f[u].fresh /\ f[u].p # p]
      /\ Renamed(f)[u] = [f[u] EXCEPT !.still = FALSE]
  BY Zenon DEF DirChanged, Renamed
<1>3. [f[u] EXCEPT !.fresh = f[u].fresh /\ f[u].p # p] \in
        {[f[u] EXCEPT !.fresh = TRUE], [f[u] EXCEPT !.fresh = FALSE]}
  BY <1>1 DEF Thread
<1> QED
  BY <1>1, <1>2, <1>3 DEF Thread

LEMMA RenamedWalks ==
  ASSUME NEW f \in [Threads -> Thread], NEW u \in Threads
  PROVE  /\ Renamed(f)[u].pc = f[u].pc /\ Renamed(f)[u].d = f[u].d /\ Renamed(f)[u].p = f[u].p
         /\ Renamed(f)[u].stack = f[u].stack /\ ~ Renamed(f)[u].still
<1>1. f[u] \in Thread
  OBVIOUS
<1>2. Renamed(f)[u] = [f[u] EXCEPT !.still = FALSE]
  BY Zenon DEF Renamed
<1> QED
  BY <1>1, <1>2 DEF Thread

LEMMA AddStartMounts ==
  ASSUME TreeInv, MountInv, NEW t \in Threads, NEW i \in Inodes \cup {Nobody}, AddStart(t, i)
  PROVE  MountStep
<1>1. DnTyped /\ ThTyped /\ th[t].d \in Dentries
  BY DEF AddStart, TreeInv, Owned, Own, Owns, Naming, At
<1>2. StepFacts /\ Settled
  BY AddStartSort, OwnStepFacts
<1>3. Marks
  BY <1>1 DEF AddStart, Marks, DnTyped, Dentry, MountInv, Unfound
<1>4. rename_lock' = rename_lock
  BY DEF AddStart
<1> DEFINE f == [th EXCEPT ![t].pc = "adding", ![t].i = i, ![t].p = Nobody]
<1>5. /\ f \in [Threads -> Thread]
      /\ f[t].pc = "adding"
      /\ \A u \in Threads \ {t} : f[u] = th[u]
  <2>1. [th[t] EXCEPT !.pc = "adding", !.i = i, !.p = Nobody] \in Thread
    BY <1>1, ThreadFields, ThreadValues DEF Labels
  <2>2. QED
    BY <1>1, <2>1 DEF ThTyped, Thread
<1>6. th' = DirChanged(f, dn[th[t].d].parent)
  BY DEF AddStart
<1> HIDE DEF f
<1>7. th'[t].pc = "adding"
  BY <1>5, <1>6, SequenceSteps
<1>8. \A u \in Threads \ {t} : Along(u) /\ th'[u].pc = th[u].pc
  BY <1>4, <1>5, <1>6, SequenceSteps, SequenceWalks DEF Along
<1>9. \A u \in Threads : GoesAlong(u)
  BY <1>7, <1>8 DEF GoesAlong, Working, Invalidating, At
<1>10. Calm
  BY <1>7, <1>8 DEF Calm, At
<1> QED
  BY <1>2, <1>3, <1>9, <1>10, OrdinaryKeeps

LEMMA SpliceFailsMounts ==
  ASSUME TreeInv, MountInv, NEW t \in Threads, SpliceFails(t)
  PROVE  MountStep
<1>1. DnTyped /\ ThTyped /\ th[t].d \in Dentries
  BY DEF SpliceFails, TreeInv, Owned, Own, Owns, Naming, At
<1>2. StepFacts /\ Settled
  BY SpliceFailsSort, OwnStepFacts
<1>3. Marks
  <2>1. Private(th[t].d)
    BY DEF SpliceFails, Private, Owns, Naming, At
  <2>2. dn' = [dn EXCEPT ![th[t].d] = NoDentry]
    BY DEF SpliceFails
  <2> QED
    BY <1>1, <2>1, <2>2 DEF Marks, DnTyped, NoDentry, MountInv, Unfound
<1>4. rename_lock' = rename_lock
  BY DEF SpliceFails
<1> DEFINE f == [th EXCEPT ![t] = Idle]
<1>5. /\ f \in [Threads -> Thread]
      /\ f[t].pc = "idle"
      /\ \A u \in Threads \ {t} : f[u] = th[u]
  BY <1>1, IdleTyped DEF ThTyped, Idle
<1>6. th' = Renamed(f)
  BY DEF SpliceFails
<1> HIDE DEF f
<1>7. th'[t].pc = "idle"
  BY <1>5, <1>6, SequenceSteps
<1>8. \A u \in Threads \ {t} : Along(u) /\ th'[u].pc = th[u].pc
  BY <1>4, <1>5, <1>6, SequenceSteps, SequenceWalks DEF Along
<1>9. \A u \in Threads : GoesAlong(u)
  BY <1>7, <1>8 DEF GoesAlong, Working, Invalidating, At
<1>10. Calm
  BY <1>7, <1>8 DEF Calm, At
<1> QED
  BY <1>2, <1>3, <1>9, <1>10, OrdinaryKeeps

\* A move ends every pass.
LEMMA MoveStartMounts ==
  ASSUME TreeInv, MountInv, NEW t \in Threads, MoveStart(t)
  PROVE  MountStep
<1>1. DnTyped /\ ThTyped /\ th[t].d \in Dentries /\ th[t].a \in Dentries
  BY DEF MoveStart, TreeInv, Owned, Own, Owns, Naming, Aliased, At
<1>2. StepFacts /\ Settled
  BY MoveStartSort, OwnStepFacts
<1>3. Marks
  <2>1. dn' = [dn EXCEPT ![th[t].d].lookup = FALSE, ![th[t].a].hashed = FALSE]
    BY DEF MoveStart
  <2>2. \A x \in Dentries : /\ dn'[x].mounted = dn[x].mounted /\ dn'[x].invalid = dn[x].invalid
                            /\ dn'[x].live = dn[x].live /\ (dn'[x].hashed => dn[x].hashed)
    BY <1>1, <2>1 DEF DnTyped, Dentry
  <2> QED
    BY <2>2 DEF Marks, MountInv, Unfound
<1>4. rename_lock = Nobody /\ rename_lock' = t
  BY DEF MoveStart
<1> DEFINE f == [th EXCEPT ![t].pc = "moving", ![t].p = Nobody]
           g == DirChanged(f, dn[th[t].d].parent)
<1>5. /\ f \in [Threads -> Thread]
      /\ f[t].pc = "moving"
      /\ \A u \in Threads \ {t} : f[u] = th[u]
  <2>1. [th[t] EXCEPT !.pc = "moving", !.p = Nobody] \in Thread
    BY <1>1, ThreadFields, ThreadValues DEF Labels
  <2>2. QED
    BY <1>1, <2>1 DEF ThTyped, Thread
<1>6. th' = Renamed(g)
  BY DEF MoveStart
<1> HIDE DEF f
<1>7. g \in [Threads -> Thread] /\ \A u \in Threads : /\ g[u].pc = f[u].pc /\ g[u].d = f[u].d /\ g[u].p = f[u].p
                                                      /\ g[u].stack = f[u].stack
  BY <1>5, SequenceSteps, SequenceWalks
<1> HIDE DEF g
<1>8. \A u \in Threads : /\ th'[u].pc = f[u].pc /\ th'[u].d = f[u].d /\ th'[u].p = f[u].p
                         /\ th'[u].stack = f[u].stack /\ ~ th'[u].still
  BY <1>6, <1>7, RenamedWalks
<1>9. \A u \in Threads : GoesAlong(u)
  BY <1>4, <1>5, <1>8 DEF GoesAlong, Along, Working, Invalidating, At
<1>10. \A u \in Threads : ~ Sees(u)'
  BY <1>4, <1>5, <1>8 DEF Sees, At
<1> QED
  BY <1>2, <1>3, <1>9, <1>10, OrdinaryKeeps

LEMMA MoveEndMounts ==
  ASSUME TreeInv, LoopInv, MountInv, NEW t \in Threads, MoveEnd(t)
  PROVE  MountStep
<1>1. /\ DnTyped /\ ThTyped /\ th[t].d \in Dentries /\ th[t].a \in Dentries
      /\ At(t, "moving") /\ rename_lock = t /\ Private(th[t].d)
  BY DEF MoveEnd, TreeInv, Owned, Own, Owns, Naming, Aliased, Private, At
<1>2. StepFacts
  BY MoveEndSort, ReplacesFacts
<1>3. Marks
  <2>1. \A x \in Dentries \ {th[t].d, th[t].a} : dn'[x] = dn[x]
    BY <1>1 DEF MoveEnd, DnTyped
  <2>2. dn'[th[t].d] = NoDentry
    BY <1>1 DEF MoveEnd, DnTyped
  <2>3. th[t].a # th[t].d
    BY <1>1 DEF TreeInv, Aliased, Owns, Naming, At
  <2>4. ~ dn'[th[t].a].invalid /\ dn'[th[t].a].mounted = dn[th[t].a].mounted
    BY <1>1, <2>3 DEF MoveEnd, DnTyped, Dentry
  <2> QED
    BY <1>1, <2>1, <2>2, <2>4 DEF Marks, NoDentry, MountInv, Unfound
<1>4. /\ rename_lock' = Nobody /\ th'[t].pc = "idle"
      /\ \A u \in Threads \ {t} : th'[u] = th[u]
  BY <1>1 DEF MoveEnd, Returns, Idle, ThTyped
<1>5. \A u \in Threads : GoesAlong(u)
  BY <1>4, Bystander DEF GoesAlong, Working, Invalidating, At
<1>6. \A u \in Threads : ~ Sees(u) /\ ~ At(u, "mount")
  BY <1>1 DEF MountInv, WorkerInv, Shuffling, TreeInv, Mounting, At
<1>7. \A u \in Threads : ~ Sees(u)'
  BY <1>4, <1>6, TreeAssumption DEF Sees, At
<1> QED
  BY <1>2, <1>3, <1>5, <1>6, <1>7, OrdinaryKeeps

LEMMA RenameMounts ==
  ASSUME TreeInv, MountInv, NEW t \in Threads, NEW d \in Dentries, NEW e \in Dentries,
         Rename(t, d, e) \/ Exchange(t, d, e)
  PROVE  MountStep
<1>1. DnTyped /\ ThTyped /\ th \in [Threads -> Thread]
  BY DEF TreeInv, ThTyped
<1>2. Renames(d, e)
  BY RenameSort, ExchangeSort
<1>3. StepFacts
  BY <1>2, RenamesFacts
<1>4. Marks
  <2>1. d # e /\ dn[d].hashed
    BY <1>2 DEF Renames
  <2>2. \A x \in Dentries : /\ dn'[x].mounted = dn[x].mounted /\ dn'[x].invalid = dn[x].invalid
                            /\ dn'[x].live = dn[x].live /\ (dn'[x].hashed => dn[x].hashed)
    <3>1. CASE Rename(t, d, e)
      BY <1>1, <2>1, <3>1 DEF Rename, DnTyped, Dentry
    <3>2. CASE Exchange(t, d, e)
      <4>1. \A x \in Dentries \ {d, e} : dn'[x] = dn[x]
        BY <1>1, <3>2 DEF Exchange, DnTyped
      <4>2. /\ dn'[d] = [dn[d] EXCEPT !.parent = dn[e].parent, !.name = dn[e].name]
            /\ dn'[e] = [dn[e] EXCEPT !.parent = dn[d].parent, !.name = dn[d].name]
        BY <1>1, <2>1, <3>2 DEF Exchange, DnTyped
      <4>3. dn[d] \in Dentry /\ dn[e] \in Dentry
        BY <1>1 DEF DnTyped
      <4>4. \A x \in {d, e} : /\ dn'[x].mounted = dn[x].mounted /\ dn'[x].invalid = dn[x].invalid
                              /\ dn'[x].live = dn[x].live /\ dn'[x].hashed = dn[x].hashed
        BY ZenonT(30), <4>2, <4>3 DEF Dentry
      <4> QED
        BY <4>1, <4>4
    <3> QED
      BY <3>1, <3>2
  <2> QED
    BY <2>2 DEF Marks, MountInv, Unfound
<1>5. th' = Renamed(th) /\ rename_lock = Nobody /\ rename_lock' = Nobody
  BY DEF Rename, Exchange
<1>6. \A u \in Threads : Along(u) /\ ~ Sees(u)' /\ ~ At(u, "mount")
  <2>1. \A u \in Threads : /\ th'[u].pc = th[u].pc /\ th'[u].d = th[u].d /\ th'[u].p = th[u].p
                           /\ th'[u].stack = th[u].stack /\ ~ th'[u].still
    BY <1>1, <1>5, SequenceSteps, SequenceWalks
  <2> QED
    BY <1>5, <2>1, TreeAssumption DEF Along, Sees, At, TreeInv, Mounting
<1> QED
  BY <1>3, <1>4, <1>6, OrdinaryKeeps DEF GoesAlong

\* Steps that unhash, unmount or drop entries.
LEMMA DropSteps ==
  ASSUME TreeInv, MountInv,
         \/ \E d \in Dentries : Unmount(d) \/ Forget(d)
         \/ \E t \in Threads, d \in Dentries : Delete(t, d) \/ Invalidate(t, d)
         \/ \E t \in Threads : Shrink(t) \/ Detach(t)
  PROVE  MountStep
<1>1. DnTyped /\ ThTyped
  BY DEF TreeInv
<1>2. StepFacts /\ Settled
  BY UnmountSort, ForgetSort, DeleteSort, InvalidateSort, ShrinkSort, DetachSort, RemovesFacts
<1>3. Marks
  <2>1. \E d : \/ dn' = [dn EXCEPT ![d].mounted = FALSE]
               \/ dn' = [dn EXCEPT ![d].hashed = FALSE]
               \/ dn' = [dn EXCEPT ![d].inode = Nobody]
               \/ dn' = [dn EXCEPT ![d] = NoDentry]
               \/ dn' = dn
    BY DEF Unmount, Forget, Delete, Invalidate, Shrink, Detach
  <2>2. \A x \in Dentries :
          \/ /\ dn'[x].live = dn[x].live /\ dn'[x].invalid = dn[x].invalid
             /\ (dn'[x].mounted => dn[x].mounted) /\ (dn'[x].hashed => dn[x].hashed)
          \/ dn'[x] = NoDentry
    BY <1>1, <2>1 DEF DnTyped, Dentry
  <2> QED
    BY <2>2 DEF Marks, NoDentry, MountInv, Unfound
<1>4. ASSUME NEW u \in Threads
      PROVE  GoesAlong(u) /\ (th'[u].pc = th[u].pc \/ th'[u].pc \in {"shrink", "start"})
  <2>1. CASE /\ th' = th /\ rename_lock' = rename_lock
    BY <2>1 DEF GoesAlong, Along
  <2>2. ASSUME NEW t \in Threads, NEW d \in Dentries, Invalidate(t, d), th' = [th EXCEPT ![t].pc = "shrink", ![t].d = d]
        PROVE  GoesAlong(u) /\ (th'[u].pc = th[u].pc \/ th'[u].pc = "shrink")
    <3>1. CASE u = t
      <4>1. th'[u].pc = "shrink" /\ th'[u].d = d
        BY <1>1, <2>2, <3>1 DEF ThTyped, Thread
      <4>2. dn[d].hashed /\ dn[d].parent # d /\ dn[d].live
        BY <2>2 DEF Invalidate, IsRoot, TreeInv, DeadBlank
      <4>3. dn'[d].live
        BY <1>1, <2>2, <4>2 DEF Invalidate, DnTyped, Dentry
      <4> QED
        BY <4>1, <4>2, <4>3 DEF GoesAlong
    <3>2. CASE u # t
      <4>1. th'[u] = th[u] /\ rename_lock' = rename_lock
        BY <1>1, <2>2, <3>2 DEF Invalidate, ThTyped
      <4> QED
        BY <4>1 DEF GoesAlong, Along
    <3> QED
      BY <3>1, <3>2
  <2>3. ASSUME NEW t \in Threads, Shrink(t), Goes(t, "start")
        PROVE  GoesAlong(u) /\ (th'[u].pc = th[u].pc \/ th'[u].pc = "start")
    <3>1. CASE u = t
      BY <1>1, <2>3, <3>1 DEF Shrink, Goes, ThTyped, Thread, GoesAlong, Invalidating, At
    <3>2. CASE u # t
      BY <1>1, <2>3, <3>2 DEF Shrink, Goes, ThTyped, GoesAlong, Along
    <3> QED
      BY <3>1, <3>2
  <2>4. ASSUME NEW t \in Threads, Detach(t)
        PROVE  GoesAlong(u) /\ (th'[u].pc = th[u].pc \/ th'[u].pc = "start")
    <3>1. CASE u = t
      BY <1>1, <2>4, <3>1 DEF Detach, ThTyped, Thread, GoesAlong, Invalidating, At
    <3>2. CASE u # t
      <4>1. th'[u] = th[u] /\ rename_lock' \in {rename_lock, Nobody}
        BY <1>1, <2>4, <3>2 DEF Detach, ThTyped
      <4> QED
        BY <3>2, <4>1, Bystander DEF GoesAlong
    <3> QED
      BY <3>1, <3>2
  <2> QED
    BY <2>1, <2>2, <2>3, <2>4 DEF Unmount, Forget, Delete, Invalidate, Shrink
<1>5. Calm
  BY <1>4 DEF Calm, At
<1> QED
  BY <1>2, <1>3, <1>4, <1>5, OrdinaryKeeps

-----------------------------------------------------------------------------
(* What is above an entry                                                  *)

LEMMA ApartUp ==
  ASSUME NEW a, NEW d \in Dentries, dn[d].live, a # d, Apart(a, dn[d].parent)
  PROVE  Apart(a, d)
<1>1. PICK C \in SUBSET Dentries : dn[d].parent \in C /\ a \notin C /\ Closed(C)
  BY DEF Apart
<1> DEFINE D == C \cup {d}
<1>2. D \in SUBSET Dentries /\ d \in D /\ a \notin D
  BY <1>1
<1>3. \A x \in D : dn[x].live /\ dn[x].parent \in D
  BY <1>1 DEF Closed
<1> HIDE DEF D
<1> QED
  BY <1>2, <1>3 DEF Apart, Closed

LEMMA ApartRoot ==
  ASSUME NEW r \in Dentries, dn[r].live, IsRoot(r), NEW a, a # r
  PROVE  Apart(a, r)
<1>1. {r} \in SUBSET Dentries /\ r \in {r} /\ a \notin {r} /\ \A x \in {r} : dn[x].live /\ dn[x].parent \in {r}
  BY DEF IsRoot
<1> QED
  BY <1>1 DEF Apart, Closed

\* What is not apart from an entry is the least closed set that has it: the way from
\* an entry down to one below it begins with one of its children.
LEMMA NextBelow ==
  ASSUME TreeInv, NEW d \in Dentries, NEW c \in Dentries, dn[c].live, c # d, ~ Apart(d, c)
  PROVE  \E y \in Children(d) : ~ Apart(y, c)
<1> SUFFICES ASSUME \A y \in Children(d) : Apart(y, c) PROVE FALSE
  OBVIOUS
<1> DEFINE K == {x \in Dentries : ~ Apart(x, c)}
<1>1. c \in K
  BY DEF Apart
<1>2. ASSUME NEW x \in K PROVE dn[x].live
  <2> SUFFICES ASSUME ~ dn[x].live PROVE Apart(x, c)
    OBVIOUS
  <2> DEFINE L == {y \in Dentries : dn[y].live}
  <2>1. L \in SUBSET Dentries /\ c \in L /\ x \notin L
    OBVIOUS
  <2>2. \A y \in L : dn[y].live /\ dn[y].parent \in L
    BY DEF TreeInv, Parents
  <2> HIDE DEF L
  <2> QED
    BY <2>1, <2>2 DEF Apart, Closed
<1>3. ASSUME NEW x \in K PROVE dn[x].parent \in K
  <2>1. dn[x].parent \in Dentries
    BY <1>2, <1>3 DEF TreeInv, Parents
  <2>2. ASSUME Apart(dn[x].parent, c) PROVE FALSE
    <3>1. PICK C \in SUBSET Dentries : c \in C /\ dn[x].parent \notin C /\ Closed(C)
      BY <2>2 DEF Apart
    <3>2. x \notin C
      BY <3>1 DEF Closed
    <3>3. Apart(x, c)
      BY <3>1, <3>2 DEF Apart
    <3> QED
      BY <3>3
  <2> QED
    BY <2>1, <2>2
<1> DEFINE D == K \ {d}
<1>4. D \in SUBSET Dentries /\ c \in D /\ d \notin D
  BY <1>1
<1>5. ASSUME NEW x \in D PROVE dn[x].live /\ dn[x].parent \in D
  <2>1. x \in Dentries /\ x # d /\ ~ Apart(x, c) /\ dn[x].live
    BY <1>2, <1>5
  <2>2. dn[x].parent # d
    BY <2>1 DEF Children
  <2> QED
    BY <1>3, <1>5, <2>1, <2>2
<1>6. Apart(d, c)
  <2> HIDE DEF D
  <2> QED
    BY <1>4, <1>5 DEF Apart, Closed
<1> QED
  BY <1>6

\* What d_ancestor finds is in every closed set.
LEMMA AboveApart ==
  ASSUME TreeInv, NEW d \in Dentries, dn[d].live, NEW a, Above(a, d)
  PROVE  a # d /\ ~ Apart(a, d)
<1> DEFINE N == Cardinality(Dentries)
<1>1. PICK f \in WayUp(d, N) : Above(a, d) <=> a # d /\ \E k \in 0 .. N : f[k] = a
  BY AboveMeets
<1>2. N \in Nat
  BY TreeAssumption, FS_CardinalityType
<1>3. f[0] = d /\ \A k \in 1 .. N : f[k] = dn[f[k - 1]].parent
  BY <1>1 DEF WayUp
<1> HIDE DEF N
<1> SUFFICES ASSUME Apart(a, d) PROVE FALSE
  BY <1>1
<1>4. PICK C \in SUBSET Dentries : d \in C /\ a \notin C /\ Closed(C)
  BY DEF Apart
<1> DEFINE Out == {k \in 0 .. N : f[k] \notin C}
<1>5. Out # {} /\ Out \in SUBSET Nat
  BY <1>1, <1>4
<1>6. PICK k \in Out : \A j \in Out : k =< j
  <2> HIDE DEF Out
  <2> QED
    BY <1>5, LeastOf
<1>7. k \in 1 .. N /\ f[k] \notin C
  BY <1>2, <1>3, <1>4, <1>6
<1>8. k - 1 \in 0 .. N /\ ~ (k =< k - 1)
  BY <1>2, <1>7
<1>9. f[k - 1] \in C
  BY <1>6, <1>8
<1>10. f[k] \in C
  BY <1>3, <1>4, <1>7, <1>9 DEF Closed
<1> QED
  BY <1>7, <1>10

-----------------------------------------------------------------------------
(* d_set_mounted                                                           *)

LEMMA SameTree ==
  ASSUME MountInv, dn' = dn
  PROVE  /\ Marks /\ Settled /\ Respects
         /\ \A x, y : Apart(x, y)' <=> Apart(x, y)
         /\ \A x : Children(x)' = Children(x)
<1>1. Marks /\ Settled /\ Respects
  BY DEF Marks, MountInv, Unfound, Settled, Respects
<1>2. \A x, y : Apart(x, y)' <=> Apart(x, y)
  BY DEF Apart, Closed
<1>3. \A x : Children(x)' = Children(x)
  BY DEF Children
<1> QED
  BY <1>1, <1>2, <1>3

\* It begins below everything that has been invalidated above the entry.
LEMMA MountMounts ==
  ASSUME TreeInv, MountInv, NEW t \in Threads, NEW d \in Dentries, Mount(t, d)
  PROVE  MountStep
<1>1. DnTyped /\ ThTyped
  BY DEF TreeInv
<1>2. dn' = dn /\ rename_lock = Nobody /\ rename_lock' = t /\ dn[d].inode # Nobody
  BY DEF Mount
<1>3. StepFacts /\ Marks /\ Respects
  BY <1>2, MountSort, RemovesFacts, SameTree
<1> DEFINE f == [th EXCEPT ![t].pc = "mount", ![t].d = d, ![t].p = dn[d].parent]
<1>4. /\ f \in [Threads -> Thread]
      /\ f[t].pc = "mount" /\ f[t].d = d /\ f[t].p = dn[d].parent
      /\ \A u \in Threads \ {t} : f[u] = th[u]
  <2>1. [th[t] EXCEPT !.pc = "mount", !.d = d, !.p = dn[d].parent] \in Thread
    BY <1>1, ThreadFields, ThreadValues, DentryValues DEF Labels
  <2> QED
    BY <1>1, <2>1 DEF ThTyped, Thread
<1>5. th' = Renamed(f)
  BY DEF Mount
<1> HIDE DEF f
<1>6. th'[t].pc = "mount" /\ th'[t].d = d /\ th'[t].p = dn[d].parent
  BY <1>4, <1>5, RenamedWalks
<1>7. \A u \in Threads \ {t} : Along(u) /\ ~ Sees(u)' /\ ~ At(u, "mount")
  <2>1. \A u \in Threads \ {t} : /\ th'[u].pc = th[u].pc /\ th'[u].d = th[u].d /\ th'[u].p = th[u].p
                                 /\ th'[u].stack = th[u].stack /\ ~ th'[u].still
    BY <1>4, <1>5, RenamedWalks
  <2> QED
    BY <1>2, <2>1, TreeAssumption DEF Along, Sees, At, TreeInv, Mounting
<1>8. \A u \in Threads \ {t} : WorkerInv(u)'
  BY <1>3, <1>7, GoesAlongKeeps DEF GoesAlong
<1>9. WorkerInv(t)'
  <2>1. dn[d].live /\ \A u \in Threads : MayFail(u) => th[u].d # d
    BY <1>2 DEF TreeInv, DeadBlank, Owned, Own, MayFail, Owns
  <2>2. \A u \in Threads : MayFail(u)' => th'[u].d # d
    BY <1>6, <1>7, <2>1 DEF Along, MayFail, Owns, Naming, At
  <2>3. Lasting(d)'
    BY <1>2, <2>1, <2>2 DEF Lasting
  <2>4. ASSUME NEW a \in Dentries, a # d
        PROVE  Apart(a, d)' \/ ~ Apart(a, dn[d].parent)'
    BY <1>2, <2>1, <2>4, ApartUp DEF Apart, Closed
  <2>5. WayLeft(t)'
    BY <1>2, <1>6, <2>4 DEF WayLeft, Apart, Closed
  <2> QED
    BY <1>6, <2>3, <2>5 DEF WorkerInv, Working, Invalidating, Sees, At, Lasting
<1>10. MountInv'
  BY <1>3, <1>8, <1>9, MarksKeep DEF MountInv
<1> QED
  BY <1>3, <1>10 DEF MountStep

\* While it goes up nobody walks with success, or mounts too.
LEMMA MountAlone ==
  ASSUME TreeInv, MountInv, NEW t \in Threads, At(t, "mount")
  PROVE  /\ rename_lock = t
         /\ \A u \in Threads : ~ Sees(u)
         /\ \A u \in Threads \ {t} : ~ At(u, "mount")
         /\ th[t].d \in Dentries /\ Lasting(th[t].d) /\ dn[th[t].d].live
         /\ th[t].p \in Dentries /\ dn[th[t].p].live
  BY DEF TreeInv, Mounting, MountInv, WorkerInv, Working, Shuffling, Lasting

\* Who is found has not been invalidated.
LEMMA MountUpMounts ==
  ASSUME TreeInv, MountInv, NEW t \in Threads, MountUp(t)
  PROVE  MountStep
<1>1. DnTyped /\ ThTyped /\ At(t, "mount")
  BY DEF TreeInv, MountUp
<1>2. dn' = dn /\ rename_lock' \in {rename_lock, Nobody}
  BY DEF MountUp
<1>3. StepFacts /\ Marks /\ Respects
  BY <1>2, MountUpSort, RemovesFacts, SameTree
<1>4. \A u \in Threads \ {t} : th'[u] = th[u]
  BY <1>1 DEF MountUp, Returns, ThTyped
<1>5. \A u \in Threads \ {t} : WorkerInv(u)'
  <2>1. \A u \in Threads \ {t} : Along(u) /\ ~ At(u, "mount") /\ ~ Sees(u)
    BY <1>1, <1>2, <1>4, Bystander, MountAlone
  <2>2. \A u \in Threads \ {t} : ~ Sees(u)'
    BY <2>1 DEF Along, Sees, At
  <2> QED
    BY <1>3, <2>1, <2>2, GoesAlongKeeps DEF GoesAlong
<1>6. WorkerInv(t)'
  <2>1. CASE Returns(t)
    BY <1>1, <2>1 DEF Returns, Idle, ThTyped, WorkerInv, Working, Invalidating, Sees, At
  <2>2. CASE dn[th[t].p].hashed /\ th' = [th EXCEPT ![t].p = dn[th[t].p].parent]
    <3>1. PICK d \in Dentries, p \in Dentries : d = th[t].d /\ p = th[t].p
      BY <1>1, MountAlone
    <3>2. th'[t].pc = "mount" /\ th'[t].d = d /\ th'[t].p = dn[p].parent
      BY <1>1, <2>2, <3>1 DEF ThTyped, Thread, At
    <3>3. Lasting(d) /\ dn[p].live /\ dn[p].hashed
      BY <1>1, <2>2, <3>1, MountAlone
    <3>4. Lasting(d)'
      BY <3>1, <3>3, <1>3, LastingStays DEF Held
    <3>5. ASSUME NEW a \in Dentries \ {d}, dn[a].invalid
          PROVE  Apart(a, d) \/ ~ Apart(a, dn[p].parent)
      <4>1. Apart(a, d) \/ ~ Apart(a, p)
        BY <1>1, <3>1, <3>5 DEF MountInv, WorkerInv, WayLeft
      <4>2. a # p
        BY <3>3, <3>5 DEF MountInv, Unfound
      <4> QED
        BY <3>3, <4>1, <4>2, ApartUp
    <3>6. WayLeft(t)'
      BY <1>2, <3>2, <3>5 DEF WayLeft, Apart, Closed
    <3> QED
      BY <3>2, <3>4, <3>6 DEF WorkerInv, Working, Invalidating, Sees, At, Lasting
  <2> QED
    BY <2>1, <2>2 DEF MountUp, Blocks
<1>7. MountInv'
  BY <1>3, <1>5, <1>6, MarksKeep DEF MountInv
<1> QED
  BY <1>3, <1>7 DEF MountStep

\* At a root it has met everything above the entry.
LEMMA MountEndMounts ==
  ASSUME TreeInv, MountInv, NEW t \in Threads, MountEnd(t)
  PROVE  MountStep
<1>1. PICK d \in Dentries, p \in Dentries :
        d = th[t].d /\ p = th[t].p /\ Lasting(d) /\ dn[d].live /\ dn[p].live /\ IsRoot(p)
  BY MountAlone DEF MountEnd
<1>2. DnTyped /\ ThTyped /\ At(t, "mount")
  BY DEF TreeInv, MountEnd
<1>3. StepFacts /\ Settled
  BY MountEndSort, RemovesFacts
<1>4. \A x \in Dentries : /\ dn'[x].live = dn[x].live /\ dn'[x].hashed = dn[x].hashed
                          /\ dn'[x].invalid = dn[x].invalid
                          /\ x # d => dn'[x].mounted = dn[x].mounted
  BY <1>1, <1>2 DEF MountEnd, DnTyped, Dentry
<1>5. th'[t].pc = "idle" /\ rename_lock' = Nobody /\ \A u \in Threads \ {t} : th'[u] = th[u]
  BY <1>2 DEF MountEnd, Returns, Idle, ThTyped
<1>6. MountsLast'
  <2>1. \A x \in Dentries : dn'[x].mounted => Lasting(x) /\ Held(x)
    BY <1>1, <1>4 DEF MountInv, MountsLast, Held
  <2> QED
    BY <1>3, <2>1, MountsKept
<1>7. Unfound'
  BY <1>3, <1>4, UnfoundKept DEF MountInv, Unfound, IsRoot
<1>8. \A u \in Threads \ {t} : WorkerInv(u)'
  <2>1. \A u \in Threads \ {t} : Along(u) /\ ~ At(u, "mount") /\ ~ Sees(u)
    BY <1>2, <1>5, Bystander, MountAlone
  <2>2. \A u \in Threads \ {t} : ~ Sees(u)'
    BY <2>1 DEF Along, Sees, At
  <2> QED
    BY <1>3, <2>1, <2>2, AlongKeeps
<1>9. WorkerInv(t)'
  BY <1>5 DEF WorkerInv, Working, Invalidating, Sees, At
<1>10. ASSUME NEW a \in Dentries, Above(a, d)
       PROVE  ~ dn[a].invalid
  <2>1. a # d /\ ~ Apart(a, d)
    BY <1>1, <1>10, AboveApart
  <2>2. CASE a = p
    BY <1>1, <2>2 DEF MountInv, Unfound
  <2>3. CASE a # p
    BY <1>1, <1>2, <2>1, <2>3, ApartRoot DEF MountInv, WorkerInv, WayLeft
  <2> QED
    BY <2>2, <2>3
<1>11. Respects
  BY <1>4, <1>10 DEF Respects
<1> QED
  BY <1>6, <1>7, <1>8, <1>9, <1>11 DEF MountStep, MountInv

-----------------------------------------------------------------------------
(* The walks of d_invalidate                                               *)

\* While somebody sees nobody moves or mounts, nor does who takes a lock that is free.
LEMMA Still ==
  ASSUME TreeInv, MountInv, NEW t \in Threads, rename_lock = Nobody \/ Sees(t)
  PROVE  \A u \in Threads : ~ At(u, "moving") /\ ~ At(u, "mount")
  BY TreeAssumption DEF TreeInv, Aliased, Mounting, MountInv, WorkerInv, Shuffling, At

\* A step of a walk that marks nothing: what is asked of the one who walks.
LEMMA WalkKeeps ==
  ASSUME TreeInv, MountInv, StepFacts, dn' = dn, NEW t \in Threads, Invalidating(t),
         \A u \in Threads \ {t} : th'[u] = th[u],
         rename_lock' \in {rename_lock, Nobody, t},
         th'[t].pc \in {"walk", "detach"}, th'[t].d = th[t].d,
         Sees(t)' => (rename_lock = Nobody \/ Sees(t)) /\ PassLeft(t)'
  PROVE  MountStep
<1>1. Marks /\ Settled /\ Respects
  BY SameTree
<1>2. Calm
  BY DEF Calm, At
<1>3. \A u \in Threads \ {t} : WorkerInv(u)'
  BY <1>1, <1>2, Bystander, GoesAlongKeeps DEF GoesAlong
<1>4. WorkerInv(t)'
  <2>1. Sees(t)' => ~ Shuffling'
    BY <1>2, Still DEF Calm, Shuffling
  <2> QED
    BY <2>1, TargetStays DEF WorkerInv, At
<1>5. MountInv'
  BY <1>1, <1>3, <1>4, MarksKeep DEF MountInv
<1> QED
  BY <1>1, <1>5 DEF MountStep

\* What a walk has still to visit after a step.
LEMMA VisitsNext ==
  ASSUME dn' = dn, NEW t \in Threads, NEW s, th'[t].stack = s,
         NEW j \in DOMAIN s, NEW x \in s[j].todo, x \in Children(s[j].at)
  PROVE  x \in ToVisit(t)'
<1>1. x \in Dentries /\ x # s[j].at /\ dn'[x].live /\ dn'[x].parent = s[j].at
  BY DEF Children
<1>2. \E k \in DOMAIN th'[t].stack :
        /\ x \in th'[t].stack[k].todo /\ x # th'[t].stack[k].at
        /\ dn'[x].live /\ dn'[x].parent = th'[t].stack[k].at
  BY <1>1
<1> QED
  BY <1>1, <1>2 DEF ToVisit, Children

\* A pass that begins has everything to visit.
LEMMA PassBegins ==
  ASSUME TreeInv, MountInv, dn' = dn, NEW t \in Threads, NEW d \in Dentries,
         th'[t].d = d, th'[t].stack = <<Arrive(d)>>
  PROVE  PassLeft(t)'
<1>1. th'[t].stack[1] = Arrive(d) /\ 1 \in DOMAIN th'[t].stack
  OBVIOUS
<1>2. \A x \in Children(d) : x \in ToVisit(t)'
  <2>1. <<Arrive(d)>>[1].todo = Children(d) /\ <<Arrive(d)>>[1].at = d
    BY DEF Arrive
  <2> QED
    BY <1>1, <2>1, VisitsNext
<1>3. ASSUME NEW c \in Dentries \ {d}, dn[c].mounted
      PROVE  Apart(d, c)' \/ \E x \in ToVisit(t)' : ~ Apart(x, c)'
  <2>1. dn[c].live
    BY <1>3 DEF MountInv, MountsLast, Lasting
  <2> QED
    BY <1>2, <1>3, <2>1, NextBelow, SameTree
<1> QED
  BY <1>3 DEF PassLeft, Apart, Closed

\* The stack of a walk has a frame for each entry on the way down.
LEMMA WalkFrames ==
  ASSUME TreeInv, NEW t \in Threads
  PROVE  /\ th[t].stack \in Seq(Frame) /\ Len(th[t].stack) \in Nat
         /\ DOMAIN th[t].stack = 1 .. Len(th[t].stack)
         /\ \A k \in 1 .. Len(th[t].stack) : th[t].stack[k] \in Frame
<1>1. th[t].stack \in Seq(Frame)
  BY ThreadValues DEF TreeInv, Stack
<1> QED
  BY <1>1

LEMMA WalkStartMounts ==
  ASSUME TreeInv, MountInv, NEW t \in Threads, WalkStart(t)
  PROVE  MountStep
<1>1. ThTyped /\ Invalidating(t) /\ dn' = dn /\ rename_lock' = rename_lock /\ rename_lock = Nobody
  BY DEF TreeInv, WalkStart, Invalidating, At
<1>2. StepFacts
  BY WalkStartSort, RemovesFacts
<1>3. th[t].d \in Dentries
  BY <1>1 DEF MountInv, WorkerInv, Working
<1>4. CASE th' = [th EXCEPT ![t].pc = "detach", ![t].a = th[t].d]
  <2>1. th'[t].pc = "detach" /\ th'[t].d = th[t].d /\ \A u \in Threads \ {t} : th'[u] = th[u]
    BY <1>1, <1>4 DEF ThTyped, Thread
  <2> QED
    BY <1>1, <1>2, <2>1, WalkKeeps DEF Sees, At
<1>5. CASE th' = [th EXCEPT ![t].pc = "walk", ![t].still = TRUE, ![t].stack = <<Arrive(th[t].d)>>]
  <2>1. /\ th'[t].pc = "walk" /\ th'[t].d = th[t].d /\ th'[t].stack = <<Arrive(th[t].d)>>
        /\ \A u \in Threads \ {t} : th'[u] = th[u]
    BY <1>1, <1>5 DEF ThTyped, Thread
  <2>2. PassLeft(t)'
    BY <1>1, <1>3, <2>1, PassBegins
  <2> QED
    BY <1>1, <1>2, <2>1, <2>2, WalkKeeps
<1> QED
  BY <1>4, <1>5 DEF WalkStart

\* What is below an entry that is not mounted is below its children.
LEMMA VisitMounts ==
  ASSUME TreeInv, MountInv, NEW t \in Threads, Visit(t)
  PROVE  MountStep
<1>1. ThTyped /\ Invalidating(t) /\ At(t, "walk") /\ dn' = dn
  BY DEF TreeInv, Visit, Invalidating, At
<1>2. StepFacts
  BY VisitSort, RemovesFacts
<1> DEFINE k == Len(th[t].stack)
           done(c) == [th[t].stack EXCEPT ![k].todo = @ \ {c}]
<1>3. PICK c \in Left(t) :
        IF dn[c].mounted
        THEN /\ th' = [th EXCEPT ![t].pc = "detach", ![t].a = c, ![t].stack = <<>>]
             /\ rename_lock' = IF rename_lock = t THEN Nobody ELSE rename_lock
        ELSE /\ th' = [th EXCEPT ![t].stack = IF Children(c) = {} THEN done(c)
                                             ELSE Append(done(c), Arrive(c))]
             /\ UNCHANGED rename_lock
  BY DEF Visit
<1>4. c \in Dentries
  BY DEF Left, Children
<1>5. CASE dn[c].mounted
  <2>1. /\ th'[t].pc = "detach" /\ th'[t].d = th[t].d /\ \A u \in Threads \ {t} : th'[u] = th[u]
        /\ rename_lock' \in {rename_lock, Nobody}
    BY <1>1, <1>3, <1>5 DEF ThTyped, Thread
  <2> QED
    BY <1>1, <1>2, <2>1, WalkKeeps DEF Sees, At
<1>6. CASE ~ dn[c].mounted
  <2> DEFINE s == IF Children(c) = {} THEN done(c) ELSE Append(done(c), Arrive(c))
  <2>1. th' = [th EXCEPT ![t].stack = s] /\ rename_lock' = rename_lock
    BY <1>3, <1>6
  <2>2. /\ th[t].stack \in Seq(Frame) /\ k \in Nat /\ DOMAIN th[t].stack = 1 .. k
        /\ \A j \in 1 .. k : th[t].stack[j] \in Frame
    BY WalkFrames
  <2>3. /\ done(c) \in Seq(Frame) /\ Len(done(c)) = k
        /\ \A j \in 1 .. k : /\ done(c)[j].at = th[t].stack[j].at
                             /\ \A x : x # c /\ x \in th[t].stack[j].todo => x \in done(c)[j].todo
    <3>1. \A f \in Frame : /\ [f EXCEPT !.todo = @ \ {c}] \in Frame
                           /\ [f EXCEPT !.todo = @ \ {c}].at = f.at
                           /\ [f EXCEPT !.todo = @ \ {c}].todo = f.todo \ {c}
      BY DEF Frame
    <3>2. done(c) \in [1 .. k -> Frame]
      BY <2>2, <3>1
    <3>3. done(c) \in Seq(Frame) /\ Len(done(c)) = k
      BY <2>2, <3>2, SeqDef
    <3>4. \A j \in 1 .. k : done(c)[j] = IF j = k THEN [th[t].stack[k] EXCEPT !.todo = @ \ {c}] ELSE th[t].stack[j]
      BY <2>2
    <3> QED
      BY <2>2, <3>1, <3>3, <3>4
  <2> HIDE DEF done
  <2>4. /\ \A j \in 1 .. k : j \in DOMAIN s /\ s[j] = done(c)[j]
        /\ Children(c) # {} => k + 1 \in DOMAIN s /\ s[k + 1] = Arrive(c)
    BY <2>2, <2>3, Arriving, <1>4
  <2> HIDE DEF s
  <2>5. /\ th'[t].pc = "walk" /\ th'[t].d = th[t].d /\ th'[t].stack = s /\ th'[t].still = th[t].still
        /\ \A u \in Threads \ {t} : th'[u] = th[u]
    BY <1>1, <2>1 DEF ThTyped, Thread, At
  <2>6. ASSUME NEW x \in ToVisit(t), x # c
        PROVE  x \in ToVisit(t)'
    <3>1. PICK j \in 1 .. k : x \in th[t].stack[j].todo /\ x \in Children(th[t].stack[j].at)
      BY <2>2 DEF ToVisit
    <3>2. j \in DOMAIN s /\ x \in s[j].todo /\ x \in Children(s[j].at)
      BY <2>3, <2>4, <2>6, <3>1
    <3> QED
      BY <1>1, <2>5, <3>2, VisitsNext
  <2>7. ASSUME NEW y \in Children(c)
        PROVE  y \in ToVisit(t)'
    <3>1. k + 1 \in DOMAIN s /\ s[k + 1].at = c /\ y \in s[k + 1].todo
      BY <2>4, <2>7 DEF Arrive
    <3> QED
      BY <1>1, <2>5, <2>7, <3>1, VisitsNext
  <2>8. Sees(t)' => Sees(t)
    BY <1>1, <2>1, <2>5 DEF Sees
  <2>9. ASSUME Sees(t) PROVE PassLeft(t)'
    <3>1. ASSUME NEW b \in Dentries \ {th[t].d}, dn[b].mounted
          PROVE  Apart(th[t].d, b) \/ \E x \in ToVisit(t)' : ~ Apart(x, b)
      <4>1. dn[b].live /\ b # c
        BY <1>6, <3>1 DEF MountInv, MountsLast, Lasting
      <4>2. ASSUME NEW x \in ToVisit(t), ~ Apart(x, b)
            PROVE  \E y \in ToVisit(t)' : ~ Apart(y, b)
        BY <1>4, <2>6, <2>7, <4>1, <4>2, NextBelow
      <4> QED
        BY <2>9, <3>1, <4>2 DEF MountInv, WorkerInv, PassLeft
    <3>2. \A x, y : Apart(x, y)' <=> Apart(x, y)
      BY <1>1, SameTree
    <3> QED
      BY <1>1, <2>5, <3>1, <3>2 DEF PassLeft, Apart, Closed
  <2> QED
    BY <1>1, <1>2, <2>1, <2>5, <2>8, <2>9, WalkKeeps
<1> QED
  BY <1>5, <1>6

\* A pass that has to be repeated takes the lock.
LEMMA RetryMounts ==
  ASSUME TreeInv, MountInv, NEW t \in Threads, Ascend(t),
         rename_lock = Nobody, rename_lock' = t, dn' = dn,
         \/ th' = [th EXCEPT ![t].pc = "detach", ![t].a = th[t].d, ![t].stack = <<>>]
         \/ th' = [th EXCEPT ![t].stack = <<Arrive(th[t].d)>>]
  PROVE  MountStep
<1>1. ThTyped /\ Invalidating(t) /\ At(t, "walk")
  BY DEF TreeInv, Ascend, Invalidating, At
<1>2. StepFacts
  BY AscendSort, RemovesFacts
<1>3. th[t].d \in Dentries
  BY <1>1 DEF MountInv, WorkerInv, Working
<1>4. CASE th' = [th EXCEPT ![t].pc = "detach", ![t].a = th[t].d, ![t].stack = <<>>]
  <2>1. th'[t].pc = "detach" /\ th'[t].d = th[t].d /\ \A u \in Threads \ {t} : th'[u] = th[u]
    BY <1>1, <1>4 DEF ThTyped, Thread
  <2> QED
    BY <1>1, <1>2, <2>1, WalkKeeps DEF Sees, At
<1>5. CASE th' = [th EXCEPT ![t].stack = <<Arrive(th[t].d)>>]
  <2>1. /\ th'[t].pc = "walk" /\ th'[t].d = th[t].d /\ th'[t].stack = <<Arrive(th[t].d)>>
        /\ \A u \in Threads \ {t} : th'[u] = th[u]
    BY <1>1, <1>5 DEF ThTyped, Thread, At
  <2>2. PassLeft(t)'
    BY <1>3, <2>1, PassBegins
  <2> QED
    BY <1>1, <1>2, <2>1, <2>2, WalkKeeps
<1> QED
  BY <1>4, <1>5

\* The entry that is left has nothing to visit.
LEMMA PopMounts ==
  ASSUME TreeInv, MountInv, NEW t \in Threads, Ascend(t),
         Left(t) = {}, Len(th[t].stack) > 1, dn' = dn, rename_lock' = rename_lock,
         th' = [th EXCEPT ![t].stack = SubSeq(@, 1, Len(@) - 1)]
  PROVE  MountStep
<1>1. ThTyped /\ Invalidating(t) /\ At(t, "walk")
  BY DEF TreeInv, Ascend, Invalidating, At
<1>2. StepFacts
  BY AscendSort, RemovesFacts
<1> DEFINE k == Len(th[t].stack)
           s == SubSeq(th[t].stack, 1, k - 1)
<1>3. k \in Nat /\ DOMAIN th[t].stack = 1 .. k
  BY WalkFrames
<1>4. DOMAIN s = 1 .. k - 1 /\ \A j \in 1 .. k - 1 : s[j] = th[t].stack[j]
  BY WalkFrames
<1>5. /\ th'[t].pc = "walk" /\ th'[t].d = th[t].d /\ th'[t].stack = s /\ th'[t].still = th[t].still
      /\ \A u \in Threads \ {t} : th'[u] = th[u]
  BY <1>1 DEF ThTyped, Thread, At
<1> HIDE DEF s
<1>6. ASSUME NEW x \in ToVisit(t)
      PROVE  x \in ToVisit(t)'
  <2>1. PICK j \in 1 .. k : x \in th[t].stack[j].todo /\ x \in Children(th[t].stack[j].at)
    BY <1>3 DEF ToVisit
  <2>2. j # k
    BY <2>1 DEF Left, Top
  <2>3. j \in DOMAIN s /\ s[j] = th[t].stack[j]
    BY <1>3, <1>4, <2>2
  <2> QED
    BY <1>5, <2>1, <2>3, VisitsNext
<1>7. Sees(t)' => Sees(t)
  BY <1>1, <1>5 DEF Sees
<1>8. Sees(t) => PassLeft(t)'
  <2>1. \A x, y : Apart(x, y)' <=> Apart(x, y)
    BY SameTree
  <2> QED
    BY <1>5, <1>6, <2>1 DEF MountInv, WorkerInv, PassLeft, Apart, Closed
<1> QED
  BY <1>1, <1>2, <1>5, <1>7, <1>8, WalkKeeps

\* The pass ends: nothing below is mounted, and who mounts from now on finds the entry
\* unhashed on the way up.
LEMMA PassEndMounts ==
  ASSUME TreeInv, MountInv, NEW t \in Threads, Ascend(t),
         Left(t) = {}, ~ MustRetry(t), Len(th[t].stack) = 1,
         dn' = [dn EXCEPT ![th[t].d].invalid = ~ dn[th[t].d].hashed],
         rename_lock' = IF rename_lock = t THEN Nobody ELSE rename_lock,
         Returns(t)
  PROVE  MountStep
<1>1. DnTyped /\ ThTyped /\ Invalidating(t) /\ Sees(t)
  BY DEF TreeInv, Ascend, Invalidating, At, Sees, MustRetry
<1>2. StepFacts /\ Settled
  BY AscendSort, RemovesFacts
<1>3. PICK d \in Dentries : d = th[t].d /\ Lasting(d) /\ dn[d].live /\ dn[d].parent # d /\ ~ Private(d)
  BY <1>1 DEF MountInv, WorkerInv, Working, Lasting, IsRoot
<1>4. /\ \A x \in Dentries : /\ dn'[x].live = dn[x].live /\ dn'[x].mounted = dn[x].mounted
                             /\ dn'[x].hashed = dn[x].hashed
                             /\ x # d => dn'[x].invalid = dn[x].invalid
      /\ dn'[d].invalid => ~ dn[d].hashed
  BY <1>1, <1>3 DEF DnTyped, Dentry
<1>5. th'[t].pc = "idle" /\ rename_lock' \in {rename_lock, Nobody} /\ \A u \in Threads \ {t} : th'[u] = th[u]
  BY <1>1 DEF Returns, Idle, ThTyped
<1>6. MountsLast'
  <2>1. \A x \in Dentries : dn'[x].mounted => Lasting(x) /\ Held(x)
    BY <1>4 DEF MountInv, MountsLast, Held
  <2> QED
    BY <1>2, <2>1, MountsKept
<1>7. Unfound'
  <2>1. \A x \in Dentries : dn'[x].invalid =>
          dn[x].live /\ ~ dn[x].hashed /\ dn[x].parent # x /\ ~ Private(x)
    BY <1>3, <1>4 DEF MountInv, Unfound, IsRoot
  <2> QED
    BY <1>2, <1>4, <2>1, UnfoundKept
<1>8. \A u \in Threads \ {t} : WorkerInv(u)'
  <2>1. \A u \in Threads \ {t} : Along(u) /\ ~ At(u, "mount")
    BY <1>1, <1>5, Bystander, Still
  <2>2. FewerMounts /\ ~ Shuffling'
    BY <1>1, <1>4, <1>5, Still DEF FewerMounts, Shuffling, At
  <2> QED
    BY <1>2, <2>1, <2>2, AlongKeeps
<1>9. WorkerInv(t)'
  BY <1>5 DEF WorkerInv, Working, Invalidating, Sees, At
<1>10. ASSUME NEW c \in Dentries, Above(d, c)
       PROVE  ~ dn[c].mounted
  <2> SUFFICES ASSUME dn[c].mounted PROVE FALSE
    OBVIOUS
  <2>1. dn[c].live
    BY DEF MountInv, MountsLast, Lasting
  <2>2. c # d /\ ~ Apart(d, c)
    BY <1>10, <2>1, AboveApart
  <2>3. PICK x \in ToVisit(t) : TRUE
    BY <1>1, <1>3, <2>2 DEF MountInv, WorkerInv, PassLeft
  <2>4. PICK k \in DOMAIN th[t].stack : x \in th[t].stack[k].todo /\ x \in Children(th[t].stack[k].at)
    BY <2>3 DEF ToVisit
  <2>5. k = Len(th[t].stack)
    BY <2>4, WalkFrames
  <2> QED
    BY <2>4, <2>5 DEF Left, Top
<1>11. Respects
  BY <1>4, <1>10 DEF Respects
<1> QED
  BY <1>6, <1>7, <1>8, <1>9, <1>11 DEF MountStep, MountInv

LEMMA AscendMounts ==
  ASSUME TreeInv, MountInv, NEW t \in Threads, Ascend(t)
  PROVE  MountStep
  BY RetryMounts, PopMounts, PassEndMounts DEF Ascend

-----------------------------------------------------------------------------
(* The theorem                                                             *)

LEMMA MountNext == TreeInv /\ LoopInv /\ MountInv /\ [Next]_vars => MountStep
<1> SUFFICES ASSUME TreeInv, LoopInv, MountInv, [Next]_vars PROVE MountStep
  OBVIOUS
<1>1. ASSUME NEW t \in Threads, Step(t)
      PROVE  MountStep
  BY <1>1, NameSteps, AddStartMounts, SpliceFailsMounts, MoveStartMounts, MoveEndMounts, DropSteps,
     MountUpMounts, MountEndMounts, WalkStartMounts, VisitMounts, AscendMounts DEF Step
<1>2. ASSUME NEW t \in Threads, NEW d \in Dentries, Call(t, d)
      PROVE  MountStep
  BY <1>2, NewSteps, DropSteps, MountMounts, RenameMounts DEF Call
<1>3. ASSUME NEW d \in Dentries, Unmount(d) \/ Forget(d)
      PROVE  MountStep
  BY <1>3, DropSteps
<1>4. CASE UNCHANGED vars
  <2>1. dn' = dn /\ th' = th /\ rename_lock' = rename_lock
    BY <1>4 DEF vars
  <2>2. Removes
    BY <2>1 DEF Removes, SameNames, Stays, Owns, Naming, At
  <2>3. StepFacts /\ Marks /\ Settled
    BY <2>1, <2>2, RemovesFacts, SameTree
  <2>4. Calm /\ \A u \in Threads : GoesAlong(u)
    BY <2>1 DEF Calm, At, GoesAlong, Along
  <2> QED
    BY <2>3, <2>4, OrdinaryKeeps
<1> QED
  BY <1>1, <1>2, <1>3, <1>4 DEF Next

\* d_set_mounted and d_invalidate both go by rename_lock and by what is hashed: whatever
\* else moves in the tree, when an invalidation ends nothing below the entry is mounted,
\* and no mount that ends afterwards is below an entry that is still invalidated.
THEOREM TreeInvalidateOrMount == Spec => InvalidateOrMount
<1>1. Init => MountInv
  BY InitMount
<1>2. TreeInv /\ LoopInv /\ MountInv /\ [Next]_vars => MountInv'
  BY MountNext DEF MountStep
<1>3. TreeInv /\ LoopInv /\ MountInv /\ [Next]_vars =>
      [\A d \in Dentries :
         /\ dn'[d].mounted /\ ~ dn[d].mounted => \A a \in Dentries : Above(a, d) => ~ dn[a].invalid
         /\ dn'[d].invalid /\ ~ dn[d].invalid => \A c \in Dentries : Above(d, c) => ~ dn[c].mounted]_vars
  BY MountNext DEF MountStep, Respects
<1> QED
  BY Inductive, <1>1, <1>2, <1>3, PTL DEF Spec, InvalidateOrMount

=============================================================================
