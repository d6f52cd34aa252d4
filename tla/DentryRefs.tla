------------------------------ MODULE DentryRefs ------------------------------
(***************************************************************************)
(* The life of the entries of the kernel's cache of names, as in the copy  *)
(* of dcache.c that lab 7 patches (labs/7/task-1/dcache-export.c): who     *)
(* counts on an entry, on which list it waits, who kills it and when its   *)
(* memory goes.                                                            *)
(*                                                                         *)
(* A stretch of code from the taking of a free lock to its release is one  *)
(* step, and so is the taking of several locks one after the other when     *)
(* nothing is read in between: what others do while the thread waits for    *)
(* the second they could have done before it had the first.  A lock is held *)
(* from one step to the next only where the code has read something under   *)
(* it and waits for another: that is always the lock of an inode.  A        *)
(* trylock, and the compare-and-swap of a lockref, may fail at any time:    *)
(* some short stretch holds the lock.  Memory given to call_rcu goes when   *)
(* nobody who may still look at it is inside rcu_read_lock.  The reasons    *)
(* for not keeping an unused entry (DCACHE_DISCONNECTED, DCACHE_DONTCACHE,  *)
(* d_delete) are those of an unhashed one.                                  *)
(***************************************************************************)
EXTENDS Integers, Sequences, FiniteSets

CONSTANTS
  Dentries,  \* addresses of struct dentry
  Root,      \* the root of the file system, which the mount holds
  Inodes,    \* the inodes of the files
  Threads,
  Nobody,    \* no dentry, no inode, no thread
  MaxHeld    \* bound: the references that callers hold at a time

ASSUME DentryAssumption ==
  /\ Root \in Dentries
  /\ Nobody \notin Dentries \cup Inodes \cup Threads
  /\ MaxHeld \in Nat
  /\ IsFiniteSet(Dentries) /\ IsFiniteSet(Threads)

VARIABLES
  dn,      \* the dentries
  th,      \* the threads: where they are, their local variables, their list of
           \* dentries to dispose of, the references they hold, and whether they
           \* unmount the file system, with s_umount for themselves
  i_lock   \* who holds the lock of an inode from step to step

vars == <<dn, th, i_lock>>

Dead == -1        \* lockref_mark_dead
NoDentry == [mem |-> "free", count |-> Dead, parent |-> Nobody, hashed |-> FALSE,
             inode |-> Nobody, lru |-> "none", referenced |-> FALSE, may_free |-> FALSE]
Idle == [pc |-> "idle", op |-> "none", d |-> Nobody, p |-> Nobody, i |-> Nobody,
         list |-> <<>>, refs |-> {}, unmounts |-> FALSE]

Init ==
  /\ dn = [d \in Dentries |->
             IF d = Root THEN [NoDentry EXCEPT !.mem = "live", !.count = 1, !.parent = Root]
             ELSE NoDentry]
  /\ th = [t \in Threads |-> Idle]
  /\ i_lock = [i \in Inodes |-> Nobody]

InodeFree(i) == i \in Inodes => i_lock[i] = Nobody
Goes(t, pc) == th' = [th EXCEPT ![t].pc = pc]
\* The call that the thread is in returns.
Returned(r) == [Idle EXCEPT !.refs = r.refs, !.unmounts = r.unmounts]
Holds(t, d) == d \in th[t].refs
MayHold == Cardinality({x \in Threads \X Dentries : Holds(x[1], x[2])}) < MaxHeld
At(t, pc) == th[t].pc = pc
\* The file system is mounted, and the thread may call what it wants.
MayCall(t) == At(t, "idle") /\ \A u \in Threads : ~ th[u].unmounts
\* A thread gives back the lock that it holds.
Release(t) == i_lock' = [i \in Inodes |-> IF i_lock[i] = t THEN Nobody ELSE i_lock[i]]
Takes(t, i) == i_lock' = [j \in Inodes |-> IF j = i THEN t ELSE i_lock[j]]
-----------------------------------------------------------------------------
(* References                                                              *)

\* A lookup finds a hashed entry and counts on it under its lock.
Get(t, d) ==
  /\ MayCall(t) /\ dn[d].hashed
  /\ ~ Holds(t, d) /\ MayHold
  /\ dn' = [dn EXCEPT ![d].count = @ + 1]
  /\ th' = [th EXCEPT ![t].refs = @ \cup {d}]
  /\ UNCHANGED i_lock

\* d_find_any_alias, and d_find_alias, which of the aliases of a file takes one that
\* is hashed.
FindAlias(t, d) ==
  /\ MayCall(t) /\ dn[d].inode # Nobody /\ InodeFree(dn[d].inode)
  /\ ~ Holds(t, d) /\ MayHold
  /\ dn' = [dn EXCEPT ![d].count = @ + 1]
  /\ th' = [th EXCEPT ![t].refs = @ \cup {d}]
  /\ UNCHANGED i_lock

\* dget_parent reads the parent without a lock ...
ReadParent(t, d) ==
  /\ MayCall(t) /\ Holds(t, d) /\ ~ Holds(t, dn[d].parent) /\ MayHold
  /\ th' = [th EXCEPT ![t].pc = "got", ![t].d = d, ![t].p = dn[d].parent]
  /\ UNCHANGED <<dn, i_lock>>

\* ... counts on it unless nobody does, and looks whether it is still the parent:
\* if not, it gives the count back, and what it does next is a call of its own;
GetParent(t) ==
  /\ At(t, "got") /\ dn[th[t].p].count > 0
  /\ dn' = [dn EXCEPT ![th[t].p].count = @ + 1]
  /\ th' = IF dn[th[t].d].parent = th[t].p
           THEN [th EXCEPT ![t] = [Returned(th[t]) EXCEPT !.refs = th[t].refs \cup {th[t].p}]]
           ELSE [th EXCEPT ![t] = [Returned(th[t]) EXCEPT !.pc = "put", !.op = "put", !.d = th[t].p]]
  /\ UNCHANGED i_lock

\* if it could not count on it, it locks the parent.
GetParentLocked(t) ==
  LET p == dn[th[t].d].parent IN
  /\ At(t, "got") /\ ~ Holds(t, p)
  /\ dn' = [dn EXCEPT ![p].count = @ + 1]
  /\ th' = [th EXCEPT ![t] = [Returned(th[t]) EXCEPT !.refs = th[t].refs \cup {p}]]
  /\ UNCHANGED i_lock

\* d_alloc: a new negative, unhashed entry that counts on its parent.
Alloc(t, d, p) ==
  /\ MayCall(t) /\ dn[d].mem = "free"
  /\ p = Root \/ Holds(t, p)
  /\ MayHold
  /\ dn' = [dn EXCEPT ![p].count = @ + 1,
                      ![d] = [NoDentry EXCEPT !.mem = "live", !.count = 1, !.parent = p]]
  /\ th' = [th EXCEPT ![t].refs = @ \cup {d}]
  /\ UNCHANGED i_lock

\* d_add, with an inode or without; d_rehash is a part of it.
Add(t, d, i) ==
  /\ MayCall(t) /\ Holds(t, d) /\ ~ dn[d].hashed /\ dn[d].inode = Nobody
  /\ InodeFree(i)
  /\ dn' = [dn EXCEPT ![d].hashed = TRUE, ![d].inode = i]
  /\ UNCHANGED <<th, i_lock>>

\* d_instantiate and d_instantiate_new
Instantiate(t, d, i) ==
  /\ MayCall(t) /\ Holds(t, d) /\ dn[d].hashed /\ dn[d].inode = Nobody
  /\ i # Nobody /\ InodeFree(i)
  /\ dn' = [dn EXCEPT ![d].inode = i]
  /\ UNCHANGED <<th, i_lock>>

\* d_delete: who is alone makes the entry negative, else it is unhashed.
Delete(t, d) ==
  /\ MayCall(t) /\ Holds(t, d) /\ dn[d].inode # Nobody
  /\ InodeFree(dn[d].inode)
  /\ dn' = IF dn[d].count = 1 THEN [dn EXCEPT ![d].inode = Nobody]
           ELSE [dn EXCEPT ![d].hashed = FALSE]
  /\ UNCHANGED <<th, i_lock>>

Drop(t, d) ==
  /\ MayCall(t) /\ Holds(t, d) /\ dn[d].hashed
  /\ dn' = [dn EXCEPT ![d].hashed = FALSE]
  /\ UNCHANGED <<th, i_lock>>

\* Not d_ancestor(d, p): the way up from p comes to the root and not to d.
NotBelow(p, d) ==
  \E S \in SUBSET Dentries : p \in S /\ d \notin S /\ \A x \in S : dn[x].parent \in S

\* __d_move to another parent: the caller holds both parents.  The entry that it
\* replaces there and drops is left out.
Move(t, d, p) ==
  LET q == dn[d].parent IN
  /\ MayCall(t) /\ Holds(t, d) /\ dn[d].inode # Nobody
  /\ p # q /\ NotBelow(p, d)
  /\ \A x \in {p, q} : x = Root \/ Holds(t, x)
  /\ dn' = [dn EXCEPT ![d].parent = p, ![d].hashed = TRUE, ![p].count = @ + 1, ![q].count = @ - 1]
  /\ UNCHANGED <<th, i_lock>>
-----------------------------------------------------------------------------
(* dput                                                                    *)

Put(t, d) ==
  /\ MayCall(t) /\ Holds(t, d)
  /\ th' = [th EXCEPT ![t].pc = "put", ![t].op = "put", ![t].d = d, ![t].refs = @ \ {d}]
  /\ UNCHANGED <<dn, i_lock>>

\* fast_dput: lockref_put_return ...
PutFast(t) ==
  LET d == th[t].d IN
  /\ At(t, "put")
  /\ dn' = [dn EXCEPT ![d].count = @ - 1]
  /\ th' = [th EXCEPT ![t] = IF dn[d].count > 1 THEN Returned(@) ELSE [@ EXCEPT !.pc = "zero"]]
  /\ UNCHANGED i_lock

\* ... the flags, read without the lock, which may change before it is taken ...
Rests(r) == r.referenced /\ r.lru # "none" /\ r.hashed

PutFlags(t) ==
  /\ At(t, "zero") /\ Rests(dn[th[t].d])
  /\ th' = [th EXCEPT ![t] = Returned(@)]
  /\ UNCHANGED <<dn, i_lock>>

\* Slip: the count is not looked at again under the lock.
SomeoneElseNever(r) == FALSE

\* ... and what may have come between: a reference, or the end.
SomeoneElse(r) == r.count # 0

\* d_lru_add, d_lru_del, d_shrink_add, d_shrink_del, d_lru_isolate, d_lru_shrink_move:
\* each knows the list that the entry comes from, and D_FLAG_VERIFY asserts it.
OnList(r, from, to) == [r EXCEPT !.lru = IF r.lru = from THEN to ELSE "wrong"]

\* retain_dentry: the entry stays, on the list of unused ones.
Retained(r) ==
  IF r.lru = "none" THEN OnList([r EXCEPT !.count = r.count - 1], "none", "lru")
  ELSE [r EXCEPT !.count = r.count - 1, !.referenced = TRUE]

\* __dentry_kill, as long as it holds the locks.
Killed(r) ==
  LET dead == [r EXCEPT !.count = Dead, !.hashed = FALSE, !.inode = Nobody]
  IN  IF r.lru = "lru" THEN OnList(dead, "lru", "none") ELSE dead

\* All locks are there: the entry dies and its parent loses a reference, which
\* "left" says who gives up.
Kills(t, f, d, left) ==
  /\ dn' = [f EXCEPT ![d] = Killed(@)]
  /\ th' = [th EXCEPT ![t].pc = "killed", ![t].d = d, ![t].p = left, ![t].i = Nobody]
  /\ Release(t)

\* dentry_kill: trylock of the inode, then of the parent; f holds the count.
Decide(t, f) ==
  LET d == th[t].d
      i == f[d].inode
      p == f[d].parent
  IN  \/ /\ f[d].hashed
         /\ dn' = [f EXCEPT ![d] = Retained(@)]
         /\ th' = [th EXCEPT ![t] = Returned(@)]
         /\ UNCHANGED i_lock
      \/ /\ ~ f[d].hashed /\ i # Nobody
         /\ th' = [th EXCEPT ![t].pc = "kill inode", ![t].i = i]
         /\ dn' = f /\ UNCHANGED i_lock
      \/ /\ ~ f[d].hashed /\ InodeFree(i)
         /\ Kills(t, f, d, p)
      \/ /\ ~ f[d].hashed /\ InodeFree(i)
         /\ th' = [th EXCEPT ![t].pc = "kill parent", ![t].i = i, ![t].p = p]
         /\ Takes(t, i)
         /\ dn' = f

PutLocked(t) ==
  LET d == th[t].d IN
  /\ At(t, "put")
  /\ IF dn[d].count > 1
     THEN /\ dn' = [dn EXCEPT ![d].count = @ - 1]
          /\ th' = [th EXCEPT ![t] = Returned(@)] /\ UNCHANGED i_lock
     ELSE Decide(t, dn)

PutAgain(t) ==
  LET d == th[t].d IN
  /\ At(t, "zero")
  /\ IF SomeoneElse(dn[d])
     THEN th' = [th EXCEPT ![t] = Returned(@)] /\ UNCHANGED <<dn, i_lock>>
     ELSE Decide(t, [dn EXCEPT ![d].count = 1])
-----------------------------------------------------------------------------
(* The locks of an entry that is to die, in their order: inode, parent,    *)
(* entry.  dput and d_prune_aliases come here.                             *)

\* The entry, with all the locks there: keep it after all, or kill it.
Finish(t) ==
  LET d == th[t].d
      keep == /\ th' = [th EXCEPT ![t] = Returned(@)]
              /\ Release(t)
  IN  IF th[t].op = "prune"
      THEN IF dn[d].count = 0 THEN Kills(t, dn, d, dn[d].parent)
           ELSE keep /\ UNCHANGED dn
      ELSE IF dn[d].count # 1 THEN keep /\ dn' = [dn EXCEPT ![d].count = @ - 1]
      ELSE IF dn[d].hashed THEN keep /\ dn' = [dn EXCEPT ![d] = Retained(@)]
      ELSE Kills(t, dn, d, dn[d].parent)

\* lock_parent: a trylock; __lock_parent lets the entry go and waits.
LockInode(t) ==
  /\ At(t, "kill inode") /\ InodeFree(th[t].i)
  /\ \/ Finish(t)
     \/ /\ th' = [th EXCEPT ![t].pc = "kill parent", ![t].p = dn[th[t].d].parent]
        /\ Takes(t, th[t].i)
        /\ UNCHANGED dn

StillParent(d, p) == dn[d].parent = p

\* The parent may have changed: try the new one.  A negative entry that became
\* positive starts again with the inode.
LockParent(t) ==
  LET d == th[t].d
      unlocked == th[t].i = Nobody /\ dn[d].inode # Nobody
  IN  /\ At(t, "kill parent")
      /\ \/ /\ ~ StillParent(d, th[t].p)
            /\ th' = [th EXCEPT ![t].p = dn[d].parent]
            /\ UNCHANGED <<dn, i_lock>>
         \/ /\ StillParent(d, th[t].p) /\ unlocked
            /\ th' = [th EXCEPT ![t].pc = "kill inode", ![t].p = Nobody, ![t].i = dn[d].inode]
            /\ UNCHANGED <<dn, i_lock>>
         \/ /\ StillParent(d, th[t].p) /\ ~ unlocked
            /\ Finish(t)

\* d_prune_aliases, for one alias; it starts over after each that it kills.
PruneAlias(t, d) ==
  LET i == dn[d].inode
      p == dn[d].parent
  IN  /\ MayCall(t) /\ i # Nobody /\ InodeFree(i) /\ dn[d].count = 0
      /\ \/ /\ dn' = [dn EXCEPT ![d] = Killed(@)]
            /\ th' = [th EXCEPT ![t].pc = "killed", ![t].op = "prune", ![t].d = d, ![t].p = p]
            /\ UNCHANGED i_lock
         \/ /\ th' = [th EXCEPT ![t].pc = "kill parent", ![t].op = "prune", ![t].d = d, ![t].p = p, ![t].i = i]
            /\ Takes(t, i)
            /\ UNCHANGED dn

\* Slip: the memory goes although the entry is on a list.
CanFreeAlways(r) == TRUE

CanFree(r) == r.lru # "shrink"

\* The end of __dentry_kill: free the memory, or leave that to the owner of the
\* list; then dput goes on with the parent.
Bury(t) ==
  LET d == th[t].d IN
  /\ At(t, "killed")
  /\ dn' = IF CanFree(dn[d]) THEN [dn EXCEPT ![d].mem = "rcu"]
           ELSE [dn EXCEPT ![d].may_free = TRUE]
  /\ th' = [th EXCEPT ![t] = IF th[t].p # Nobody
                             THEN [@ EXCEPT !.pc = "put", !.op = "put", !.d = th[t].p, !.p = Nobody]
                             ELSE [@ EXCEPT !.pc = "dispose", !.op = "dispose", !.d = Nobody]]
  /\ UNCHANGED i_lock
-----------------------------------------------------------------------------
(* The shrinkers                                                           *)

\* A thread that begins or goes on with the walk of a shrinker.
Walks(t, op) ==
  \/ MayCall(t)
  \/ At(t, "idle") /\ th[t].unmounts /\ op = "parent"
  \/ At(t, "walk") /\ th[t].op = op

\* An entry that the walk visits gets r; it may go on the list of the thread.
Visits(t, op, d, r) ==
  /\ dn' = [dn EXCEPT ![d] = r]
  /\ th' = [th EXCEPT ![t].pc = "walk", ![t].op = op,
                      ![t].list = IF r.lru = "shrink" THEN Append(@, d) ELSE @]
  /\ UNCHANGED i_lock

\* prune_dcache_sb, dentry_lru_isolate: used entries leave the list, those
\* referenced stay, the others go to a list of the thread.
Isolate(t, d) ==
  /\ Walks(t, "prune") /\ dn[d].lru = "lru"
  /\ Visits(t, "prune", d,
       IF dn[d].count # 0 THEN OnList(dn[d], "lru", "none")
       ELSE IF dn[d].referenced THEN [dn[d] EXCEPT !.referenced = FALSE]
       ELSE OnList(dn[d], "lru", "shrink"))

\* shrink_dcache_sb, dentry_lru_isolate_shrink
IsolateAll(t, d) ==
  /\ Walks(t, "all") /\ dn[d].lru = "lru"
  /\ Visits(t, "all", d, OnList(dn[d], "lru", "shrink"))

\* select_collect and __dput_to_list take an entry off the list of unused ones and,
\* if it is unused, put it on that of the thread.
Disposable(r) ==
  LET off == IF r.lru = "lru" THEN OnList(r, "lru", "none") ELSE r
  IN  IF r.count = 0 THEN OnList(off, "none", "shrink") ELSE off

\* shrink_dcache_parent: select_collect.  d_walk goes through all that is below
\* an entry, and everything is below the root.
Collect(t, d) ==
  /\ Walks(t, "parent")
  /\ dn[d].count # Dead /\ dn[d].lru # "shrink"
  /\ dn[d].count = 0 \/ dn[d].lru = "lru"
  /\ Visits(t, "parent", d, Disposable(dn[d]))

Walked(t) ==
  /\ At(t, "walk")
  /\ th' = [th EXCEPT ![t] = IF @.list = <<>> THEN Returned(@)
                             ELSE [@ EXCEPT !.pc = "dispose", !.op = "dispose"]]
  /\ UNCHANGED <<dn, i_lock>>

\* Slip: the entry goes on the list although it is on one.
PutsOnListTwice(r) == r.count = 1

PutsOnList(r) == r.count = 1 /\ r.lru # "shrink"

\* __dput_to_list: the parent of a dying entry may be next.
PutToList(r) ==
  LET put == [r EXCEPT !.count = r.count - 1]
  IN  IF r.lru = "shrink" THEN put ELSE Disposable(put)

\* All locks are there.  The owner of the list takes the entry off; a thread
\* that found it on the list of another leaves it there.
ShrinkKills(t, d) ==
  LET p == dn[d].parent
      own == th[t].op = "dispose"
      off == IF own THEN [dn EXCEPT ![d] = OnList(@, "shrink", "none")] ELSE dn
      f == [off EXCEPT ![p] = PutToList(@)]
      rest == IF own THEN Tail(th[t].list) ELSE th[t].list
  IN  /\ dn' = [f EXCEPT ![d] = Killed(@)]
      /\ th' = [th EXCEPT ![t].pc = "killed", ![t].d = d, ![t].p = Nobody, ![t].i = Nobody,
                          ![t].list = IF PutsOnList(dn[p])
                                      THEN Append(rest, p) ELSE rest]
      /\ Release(t)

\* Slip: the owner of the list thinks that the killer frees the entry.
LeftNever(r) == FALSE

Left(r) == r.count = Dead /\ r.may_free

\* shrink_lock_dentry failed: the owner takes the entry off its list, and frees
\* it if someone else has killed it.
Kicks(t, d) ==
  /\ IF th[t].op = "dispose"
     THEN /\ dn' = [dn EXCEPT ![d] = OnList([dn[d] EXCEPT !.mem = IF Left(dn[d]) THEN "rcu" ELSE dn[d].mem],
                                            "shrink", "none")]
          /\ th' = [th EXCEPT ![t].pc = "dispose", ![t].d = Nobody, ![t].p = Nobody, ![t].i = Nobody,
                              ![t].list = Tail(@)]
     ELSE /\ th' = [th EXCEPT ![t].pc = "dispose", ![t].op = "dispose", ![t].d = Nobody,
                              ![t].p = Nobody, ![t].i = Nobody]
          /\ UNCHANGED dn
  /\ Release(t)

\* The parent, by a trylock, with the inode's lock.
TryParent(t, d, i) ==
  \/ ShrinkKills(t, d)
  \/ /\ th' = [th EXCEPT ![t].pc = "shrink parent", ![t].d = d, ![t].p = dn[d].parent, ![t].i = i]
     /\ Takes(t, i)
     /\ UNCHANGED dn

\* shrink_lock_dentry, with the lock of the entry.
ShrinkLock(t, d) ==
  LET i == dn[d].inode IN
  \/ dn[d].count # 0 /\ Kicks(t, d)
  \/ dn[d].count = 0 /\ InodeFree(i) /\ TryParent(t, d, i)
  \/ /\ dn[d].count = 0 /\ i # Nobody
     /\ th' = [th EXCEPT ![t].pc = "shrink inode", ![t].d = d, ![t].i = i]
     /\ UNCHANGED <<dn, i_lock>>

\* shrink_dentry_list
Dispose(t) ==
  /\ At(t, "dispose") /\ th[t].list # <<>>
  /\ ShrinkLock(t, Head(th[t].list))

Disposed(t) ==
  /\ At(t, "dispose") /\ th[t].list = <<>>
  /\ th' = [th EXCEPT ![t] = Returned(@)]
  /\ UNCHANGED <<dn, i_lock>>

\* select_collect2 of shrink_dcache_parent finds an entry on the list of another
\* thread, remembers it and, when the walk is over, takes it.
Victim(t, d) ==
  /\ Walks(t, "parent")
  /\ dn[d].lru = "shrink" /\ dn[d].count = 0 /\ \A k \in DOMAIN th[t].list : th[t].list[k] # d
  /\ th' = [th EXCEPT ![t].pc = "steal", ![t].op = "steal", ![t].d = d]
  /\ UNCHANGED <<dn, i_lock>>

Steal(t) ==
  /\ At(t, "steal") /\ ShrinkLock(t, th[t].d)

\* "changed inode means that somebody had grabbed it"
Grabbed(r, i) == r.count # 0 \/ r.inode # i

ShrinkInode(t) ==
  LET d == th[t].d
      i == th[t].i
  IN  /\ At(t, "shrink inode") /\ InodeFree(i)
      /\ IF Grabbed(dn[d], i) THEN Kicks(t, d) ELSE TryParent(t, d, i)

\* With the parent, no one looks at the inode again.
ShrinkParent(t) ==
  LET d == th[t].d
      i == th[t].i
  IN  /\ At(t, "shrink parent")
      /\ \/ /\ dn[d].parent # th[t].p
            /\ Goes(t, "shrink out")
            /\ UNCHANGED <<dn, i_lock>>
         \/ /\ dn[d].parent = th[t].p /\ dn[d].count # 0
            /\ Kicks(t, d)
         \/ /\ dn[d].parent = th[t].p /\ dn[d].count = 0 /\ dn[d].inode = i
            /\ ShrinkKills(t, d)
         \/ /\ dn[d].parent = th[t].p /\ dn[d].count = 0 /\ dn[d].inode # i
            /\ Goes(t, "unlocked")
            /\ UNCHANGED <<dn, i_lock>>

\* The thread is about to release a lock that it does not hold: what it does
\* from here on is not modelled.
Corrupted(t) == At(t, "unlocked") /\ UNCHANGED vars

ShrinkOut(t) == At(t, "shrink out") /\ Kicks(t, th[t].d)
-----------------------------------------------------------------------------
(* RCU                                                                     *)

\* Where a thread is inside rcu_read_lock.
Reading(t) ==
  th[t].pc \in {"got", "put", "zero", "kill parent", "steal", "shrink inode", "shrink parent", "shrink out",
                "unlocked"}

Reclaim(d) ==
  /\ dn[d].mem = "rcu"
  /\ \A t \in Threads : ~ (Reading(t) /\ d \in {th[t].d, th[t].p})
  /\ dn' = [dn EXCEPT ![d] = NoDentry]
  /\ UNCHANGED <<th, i_lock>>
-----------------------------------------------------------------------------
(* shrink_dcache_for_umount.  Nobody is in the file system any more: no     *)
(* path leads there, no file is open, and the shrinkers need s_umount.     *)

Quiet == \A t \in Threads : At(t, "idle") /\ th[t].refs = {}

Umount(t) ==
  /\ MayCall(t) /\ Quiet
  /\ th' = [th EXCEPT ![t].unmounts = TRUE]
  /\ UNCHANGED <<dn, i_lock>>

\* The last walk of shrink_dcache_parent finds no unused entry.
UmountShrunk(t) ==
  /\ th[t].unmounts /\ At(t, "idle")
  /\ \A d \in Dentries \ {Root} : dn[d].count # 0 /\ dn[d].lru # "shrink"
  /\ Goes(t, "check")
  /\ UNCHANGED <<dn, i_lock>>

\* do_one_tree drops and puts the root; the file system is mounted again.
UmountEnd(t) ==
  /\ At(t, "check")
  /\ dn' = [dn EXCEPT ![Root] = [NoDentry EXCEPT !.mem = "live", !.count = 1, !.parent = Root]]
  /\ th' = [th EXCEPT ![t] = Idle]
  /\ UNCHANGED i_lock
-----------------------------------------------------------------------------
Step(t) ==
  \/ GetParent(t) \/ GetParentLocked(t)
  \/ PutFast(t) \/ PutFlags(t) \/ PutLocked(t) \/ PutAgain(t)
  \/ LockInode(t) \/ LockParent(t) \/ Bury(t)
  \/ Walked(t) \/ Dispose(t) \/ Disposed(t) \/ Steal(t)
  \/ ShrinkInode(t) \/ ShrinkParent(t) \/ ShrinkOut(t) \/ Corrupted(t)

Call(t, d) ==
  \/ Get(t, d) \/ FindAlias(t, d) \/ ReadParent(t, d)
  \/ \E p \in Dentries : Alloc(t, d, p) \/ Move(t, d, p)
  \/ \E i \in Inodes \cup {Nobody} : Add(t, d, i) \/ Instantiate(t, d, i)
  \/ Delete(t, d) \/ Drop(t, d) \/ PruneAlias(t, d)
  \/ Isolate(t, d) \/ IsolateAll(t, d) \/ Collect(t, d) \/ Victim(t, d)

Next ==
  \/ \E t \in Threads : Step(t)
  \/ \E t \in Threads, d \in Dentries : Put(t, d)
  \/ \E t \in Threads, d \in Dentries \ {Root} : Call(t, d)
  \/ \E t \in Threads : Umount(t) \/ UmountShrunk(t) \/ UmountEnd(t)
  \/ \E d \in Dentries : Reclaim(d)

Spec == Init /\ [][Next]_vars
-----------------------------------------------------------------------------
(* The reference that a thread still has to give up: the one of its call to *)
(* dput, or the one that the entry it has just killed had on its parent.    *)
Owes(t, d) ==
  \/ th[t].op = "put" /\ th[t].d = d
       /\ th[t].pc \in {"put", "kill inode", "kill parent"}
  \/ th[t].pc = "killed" /\ th[t].p = d

(* The count of an entry is the number of those who count on it: the mount, *)
(* the threads, and its children, in spite of lookups that go without the   *)
(* lock, of parents that change, and of a count that is taken to zero and   *)
(* back by dput.                                                            *)
CountsExact ==
  \A d \in Dentries : dn[d].mem = "live" /\ dn[d].count # Dead =>
    dn[d].count = Cardinality({t \in Threads : Holds(t, d)})
                + Cardinality({t \in Threads : Owes(t, d)})
                + Cardinality({c \in Dentries \ {d} : dn[c].parent = d /\ dn[c].count # Dead})
                + (IF d = Root THEN 1 ELSE 0)

(* What a thread holds, works on or has on its list, and the parent of what *)
(* lives, is memory that was not given away: a killed entry that someone    *)
(* else has on a list is freed by the owner of the list only.               *)
NoUseAfterFree ==
  /\ \A t \in Threads :
       /\ \A d \in th[t].refs : dn[d].mem = "live" /\ dn[d].count > 0
       /\ \A k \in DOMAIN th[t].list : dn[th[t].list[k]].mem = "live"
       /\ \A d \in {th[t].d, th[t].p} \ {Nobody} : dn[d].mem # "free"
  /\ \A d \in Dentries : dn[d].mem = "live" /\ dn[d].count # Dead =>
       dn[dn[d].parent].mem = "live" /\ dn[dn[d].parent].count > 0

(* An entry is marked as one to be disposed of exactly when it is on one    *)
(* list of one thread, whoever takes it there or kills it in the meantime,   *)
(* and D_FLAG_VERIFY is always right about the list that it leaves.          *)
ListsExact ==
  \A d \in Dentries :
    LET places == {x \in Threads \X (1 .. Cardinality(Dentries)) :
                     x[2] \in DOMAIN th[x[1]].list /\ th[x[1]].list[x[2]] = d}
    IN  /\ Cardinality(places) = IF dn[d].lru = "shrink" THEN 1 ELSE 0
        /\ dn[d].lru # "wrong"

(* shrink_lock_dentry returns false when the entry has been grabbed;        *)
(* "Otherwise, return true and have that dentry's inode and parent both     *)
(* locked."                                                                 *)
ReturnsLocked == \A t \in Threads : ~ At(t, "unlocked")

(* A killed entry has someone to free it, whoever of the two comes last:    *)
(* the thread that killed it, or the owner of the list that it was on; and  *)
(* when an unmount has disposed of the unused entries umount_check finds    *)
(* none "still in use", however they were left by those who used them.      *)
NoneForgotten ==
  /\ \A d \in Dentries : dn[d].mem = "live" /\ dn[d].count = Dead =>
       \/ \E t \in Threads : At(t, "killed") /\ th[t].d = d
       \/ dn[d].lru = "shrink" /\ dn[d].may_free
  /\ \A t \in Threads : At(t, "check") =>
       \A d \in Dentries : IF d = Root THEN dn[d].count = 1 ELSE dn[d].mem # "live"
=============================================================================
