------------------------------ MODULE DentryTree ------------------------------
(***************************************************************************)
(* The tree that the entries of dcache.c form (lab 7,                      *)
(* labs/7/task-1/dcache-export.c): parallel lookups of one name, the       *)
(* splicing of directories that are already in the cache, moves, mounts    *)
(* and the invalidation of a subtree.  DentryRefs models the counts of the *)
(* same entries: here an entry that nobody holds, mounts or has as parent  *)
(* may be forgotten at any time, as its shrinkers do.                      *)
(*                                                                         *)
(* The two counters that lookups and walks compare, i_dir_seq of a         *)
(* directory and the sequence of rename_lock, are modelled by what is      *)
(* asked of them: has it changed since I read it?  A trylock may fail at   *)
(* any time.  The caller's locks of directories are shared in a lookup and *)
(* exclusive in a rename or a removal, which are one step each; the file   *)
(* system, which may be a remote one, may answer a lookup with any         *)
(* directory.                                                              *)
(***************************************************************************)
EXTENDS Naturals, Sequences, FiniteSets

CONSTANTS
  Dentries,  \* addresses of struct dentry
  Root,      \* the root of the file system
  RootInode, \* its inode
  Inodes,    \* the inodes of the other directories
  Names,
  Threads,
  Nobody     \* no dentry, inode, name or thread

ASSUME TreeAssumption ==
  /\ IsFiniteSet(Dentries) /\ Root \in Dentries
  /\ RootInode \notin Inodes
  /\ Nobody \notin Dentries \cup Inodes \cup Names \cup Threads \cup {RootInode}

VARIABLES
  dn,           \* the dentries; "invalid" remembers that d_invalidate has ended
                \* for an entry which was not hashed since
  th,           \* the threads: where they are and the local variables of the call
  rename_lock   \* who holds it

vars == <<dn, th, rename_lock>>

NoDentry == [live |-> FALSE, parent |-> Nobody, name |-> Nobody, hashed |-> FALSE, lookup |-> FALSE,
             inode |-> Nobody, mounted |-> FALSE, invalid |-> FALSE]
Idle == [pc |-> "idle", d |-> Nobody, p |-> Nobody, a |-> Nobody, i |-> Nobody,
         fresh |-> FALSE, still |-> FALSE, stack |-> <<>>]

Init ==
  /\ dn = [d \in Dentries |->
             IF d = Root THEN [NoDentry EXCEPT !.live = TRUE, !.parent = Root, !.inode = RootInode]
             ELSE NoDentry]
  /\ th = [t \in Threads |-> Idle]
  /\ rename_lock = Nobody

At(t, pc) == th[t].pc = pc
Goes(t, pc) == th' = [th EXCEPT ![t].pc = pc]
Returns(t) == th' = [th EXCEPT ![t] = Idle]
IsRoot(d) == dn[d].parent = d
Children(d) == {c \in Dentries \ {d} : dn[c].live /\ dn[c].parent = d}

\* d_ancestor: is a above d?
Above(a, d) ==
  LET up[k \in 0 .. Cardinality(Dentries)] == IF k = 0 THEN d ELSE dn[up[k - 1]].parent
  IN  a # d /\ dn[d].live /\ \E k \in DOMAIN up : up[k] = a

Held(d) ==
  \/ d = Root \/ dn[d].mounted \/ Children(d) # {}
  \/ \E t \in Threads : \/ d \in {th[t].d, th[t].p, th[t].a}
                        \/ \E k \in DOMAIN th[t].stack : th[t].stack[k].at = d

Aliases(i) == {d \in Dentries : dn[d].inode = i}
\* d is the entry of a name: same parent, same name.
Same(d, e) == d # e /\ dn[e].live /\ dn[d].parent = dn[e].parent /\ dn[d].name = dn[e].name
\* Memory; who waits for an entry keeps it.
Free == {d \in Dentries : ~ dn[d].live /\ \A t \in Threads : th[t].a # d}

\* write_seqlock(&rename_lock): all who compare the sequence see a change.
Renamed(f) == [t \in Threads |-> [f[t] EXCEPT !.still = FALSE]]
\* start_dir_add: lookups in the directory p see a change of i_dir_seq.
DirChanged(f, p) == [t \in Threads |-> [f[t] EXCEPT !.fresh = @ /\ f[t].p # p]]
\* The sequence of p is odd.
Adding(p) == \E t \in Threads : th[t].pc \in {"adding", "moving"} /\ dn[th[t].d].parent = p
\* The lock of an inode is held while an entry is given to it.
InodeFree(i) == ~ \E t \in Threads : At(t, "adding") /\ th[t].i = i
\* t holds the lock of the directory p, shared: it looks up a name there, or moves an
\* entry from there.
Shares(t, p) ==
  \/ th[t].p = p /\ ~ At(t, "mount")
  \/ th[t].pc \in {"adding", "moving"} /\ dn[th[t].d].parent = p
  \/ At(t, "moving") /\ dn[th[t].a].parent = p
Exclusive(p) == ~ \E t \in Threads : Shares(t, p)
-----------------------------------------------------------------------------
(* d_alloc_parallel                                                        *)

Lookup(t, p, n, d) ==
  /\ At(t, "idle") /\ dn[p].inode # Nobody /\ d \in Free
  /\ dn' = [dn EXCEPT ![d] = [NoDentry EXCEPT !.live = TRUE, !.parent = p, !.name = n]]
  /\ th' = [th EXCEPT ![t] = [Idle EXCEPT !.pc = "look", !.d = d, !.p = p]]
  /\ UNCHANGED rename_lock

\* __d_lookup_rcu finds the entry: the new one is put.
Found(t) ==
  /\ At(t, "look")
  /\ \E e \in Dentries : dn[e].hashed /\ Same(th[t].d, e)
  /\ dn' = [dn EXCEPT ![th[t].d] = NoDentry]
  /\ Returns(t) /\ UNCHANGED rename_lock

\* It does not, and at that moment nobody was writing to one of the sequences:
\* else it looks again.
NotFound(t) ==
  /\ At(t, "look") /\ rename_lock = Nobody /\ ~ Adding(th[t].p)
  /\ ~ \E e \in Dentries : dn[e].hashed /\ Same(th[t].d, e)
  /\ th' = [th EXCEPT ![t].pc = "chain", ![t].fresh = TRUE]
  /\ UNCHANGED <<dn, rename_lock>>

\* Slip: i_dir_seq is not compared under the lock of the chain.
UnchangedAlways(t) == TRUE

Unchanged(t) == th[t].fresh

\* With the lock of the chain of entries in lookup: start again, wait for the
\* lookup of someone else, or become the one that looks up.
Chain(t) ==
  LET others == {e \in Dentries : dn[e].lookup /\ Same(th[t].d, e)} IN
  /\ At(t, "chain")
  /\ \/ ~ Unchanged(t) /\ Goes(t, "look") /\ UNCHANGED dn
     \/ /\ Unchanged(t)
        /\ \E e \in others : th' = [th EXCEPT ![t].pc = "wait", ![t].a = e, ![t].fresh = FALSE]
        /\ UNCHANGED dn
     \/ /\ Unchanged(t) /\ others = {}
        /\ dn' = [dn EXCEPT ![th[t].d].lookup = TRUE]
        /\ th' = [th EXCEPT ![t].pc = "fs", ![t].fresh = FALSE]
  /\ UNCHANGED rename_lock

\* d_wait_lookup sleeps as long as the entry is in lookup, and then waits for its lock.
Ended(e) == ~ dn[e].lookup /\ \A t \in Threads : th[t].pc \in {"adding", "moving"} => th[t].d # e

\* It has ended; is the entry what was looked for?
Waited(t) ==
  LET d == th[t].d
      e == th[t].a
  IN  /\ At(t, "wait") /\ Ended(e)
      /\ IF dn[e].hashed /\ Same(d, e)
         THEN Returns(t) /\ dn' = [dn EXCEPT ![d] = NoDentry]
         ELSE th' = [th EXCEPT ![t].pc = "look", ![t].a = Nobody] /\ UNCHANGED dn
      /\ UNCHANGED rename_lock
-----------------------------------------------------------------------------
(* The file system answers: an error, nothing, or the inode of a           *)
(* directory, which it gives to d_splice_alias.                            *)

\* __d_lookup_unhash_wake and dput: the lookup has failed.
Fails(t) ==
  /\ dn' = [dn EXCEPT ![th[t].d] = NoDentry]
  /\ Returns(t)

FsError(t) == At(t, "fs") /\ Fails(t) /\ UNCHANGED rename_lock

\* __d_add, up to the point where the entry is in no list of the directory ...
AddStart(t, i) ==
  LET d == th[t].d IN
  /\ At(t, "fs") /\ InodeFree(i)
  /\ i = Nobody \/ Aliases(i) = {}
  /\ ~ Adding(dn[d].parent)
  /\ dn' = [dn EXCEPT ![d].lookup = FALSE, ![d].inode = i]
  /\ th' = DirChanged([th EXCEPT ![t].pc = "adding", ![t].i = i, ![t].p = Nobody], dn[d].parent)
  /\ UNCHANGED rename_lock

\* ... and the rest: the entry is hashed, waiters wake.
AddEnd(t) ==
  /\ At(t, "adding")
  /\ dn' = [dn EXCEPT ![th[t].d].hashed = TRUE]
  /\ Returns(t) /\ UNCHANGED rename_lock

\* d_splice_alias: the directory has an entry already.
SpliceFinds(t, i) ==
  /\ At(t, "fs") /\ InodeFree(i)
  /\ \E a \in Aliases(i) : th' = [th EXCEPT ![t].pc = "splice", ![t].a = a]
  /\ UNCHANGED <<dn, rename_lock>>

\* Slip: the alias goes below itself.
LoopNever(a, d) == FALSE

Loop(a, d) == Above(a, d)

\* __d_unalias gets the lock of renames and that of the other directory by trylocks,
\* and needs none in a common parent.
NeedsLocks(a, d) == ~ IsRoot(a) /\ dn[a].parent # dn[d].parent

\* rename_lock is there: a loop, or a directory that cannot be moved.
SpliceFails(t) ==
  LET d == th[t].d
      a == th[t].a
  IN  /\ At(t, "splice") /\ rename_lock = Nobody
      /\ Loop(a, d) \/ NeedsLocks(a, d)
      /\ dn' = [dn EXCEPT ![d] = NoDentry]
      /\ th' = Renamed([th EXCEPT ![t] = Idle])
      /\ UNCHANGED rename_lock

\* __d_move of the alias to the place of the entry in lookup, until both are out
\* of their lists ...
MoveStart(t) ==
  LET d == th[t].d
      a == th[t].a
  IN  /\ At(t, "splice") /\ rename_lock = Nobody
      /\ ~ Loop(a, d) /\ ~ Adding(dn[d].parent)
      /\ dn' = [dn EXCEPT ![d].lookup = FALSE, ![a].hashed = FALSE]
      /\ th' = Renamed(DirChanged([th EXCEPT ![t].pc = "moving", ![t].p = Nobody], dn[d].parent))
      /\ rename_lock' = t

\* ... and the rest.
MoveEnd(t) ==
  LET d == th[t].d
      a == th[t].a
  IN  /\ At(t, "moving")
      /\ dn' = [dn EXCEPT ![a].parent = dn[d].parent, ![a].name = dn[d].name, ![a].hashed = TRUE,
                          ![a].invalid = FALSE, ![d] = NoDentry]
      /\ Returns(t)
      /\ rename_lock' = Nobody

\* d_exact_alias: an unhashed entry of the name and the inode is hashed again.
ExactAlias(t, e) ==
  LET d == th[t].d IN
  /\ At(t, "fs") /\ \A u \in Threads \ {t} : ~ Shares(u, th[t].p)
  /\ Same(d, e) /\ ~ dn[e].hashed /\ dn[e].inode # Nobody /\ InodeFree(dn[e].inode)
  /\ dn' = [dn EXCEPT ![e].hashed = TRUE, ![e].invalid = FALSE, ![d] = NoDentry]
  /\ Returns(t) /\ UNCHANGED rename_lock
-----------------------------------------------------------------------------
(* d_obtain_alias and d_obtain_root                                        *)

\* There is no alias: a new entry without a name.
Obtain(t, i, d) ==
  /\ At(t, "idle") /\ InodeFree(i) /\ Aliases(i) = {} /\ d \in Free
  /\ dn' = [dn EXCEPT ![d] = [NoDentry EXCEPT !.live = TRUE, !.parent = d]]
  /\ th' = [th EXCEPT ![t].pc = "anon", ![t].d = d, ![t].i = i]
  /\ UNCHANGED rename_lock

\* Slip: __d_instantiate_anon does not look again for an alias.
TakenNever(i) == FALSE

Taken(i) == Aliases(i) # {}

InstantiateAnon(t, root) ==
  /\ At(t, "anon") /\ InodeFree(th[t].i)
  /\ dn' = [dn EXCEPT ![th[t].d] = IF Taken(th[t].i) THEN NoDentry
                                   ELSE [@ EXCEPT !.inode = th[t].i, !.hashed = root]]
  /\ Returns(t) /\ UNCHANGED rename_lock
-----------------------------------------------------------------------------
(* Under the exclusive locks of the directories                            *)

\* d_delete: the entry becomes negative if nobody else has it.
Delete(t, d) ==
  /\ At(t, "idle") /\ dn[d].hashed /\ dn[d].inode # Nobody /\ ~ IsRoot(d)
  /\ Children(d) = {} /\ ~ dn[d].mounted
  /\ Exclusive(dn[d].parent) /\ Exclusive(d) /\ \A u \in Threads : At(u, "mount") => th[u].d # d
  /\ dn' = IF Held(d) THEN [dn EXCEPT ![d].hashed = FALSE] ELSE [dn EXCEPT ![d].inode = Nobody]
  /\ UNCHANGED <<th, rename_lock>>

Movable(d, e) ==
  /\ dn[d].inode # Nobody /\ dn[d].hashed /\ dn[e].hashed /\ ~ IsRoot(d) /\ ~ IsRoot(e) /\ d # e
  /\ ~ Above(d, e) /\ ~ Above(e, d)
  /\ \A x \in {d, e} : /\ ~ dn[x].mounted /\ Exclusive(dn[x].parent) /\ Exclusive(x)
                       /\ \A u \in Threads : At(u, "mount") => th[u].d # x

\* rename: d_move to the place of e, which is dropped
Rename(t, d, e) ==
  /\ At(t, "idle") /\ rename_lock = Nobody
  /\ Movable(d, e) /\ Children(e) = {}
  /\ dn' = [dn EXCEPT ![d].parent = dn[e].parent, ![d].name = dn[e].name, ![e].hashed = FALSE]
  /\ th' = Renamed(th) /\ UNCHANGED rename_lock

Exchange(t, d, e) ==
  /\ At(t, "idle") /\ rename_lock = Nobody
  /\ Movable(d, e) /\ dn[e].inode # Nobody
  /\ dn' = [dn EXCEPT ![d].parent = dn[e].parent, ![d].name = dn[e].name,
                      ![e].parent = dn[d].parent, ![e].name = dn[d].name]
  /\ th' = Renamed(th) /\ UNCHANGED rename_lock
-----------------------------------------------------------------------------
(* Mounts and d_invalidate                                                 *)

\* d_set_mounted takes rename_lock and goes up.
Mount(t, d) ==
  /\ At(t, "idle") /\ rename_lock = Nobody /\ dn[d].inode # Nobody /\ ~ IsRoot(d)
  /\ rename_lock' = t
  /\ th' = Renamed([th EXCEPT ![t].pc = "mount", ![t].d = d, ![t].p = dn[d].parent])
  /\ UNCHANGED dn

Blocks(p) == ~ dn[p].hashed

MountUp(t) ==
  LET p == th[t].p IN
  /\ At(t, "mount") /\ ~ IsRoot(p)
  /\ IF Blocks(p) THEN Returns(t) /\ rename_lock' = Nobody
     ELSE th' = [th EXCEPT ![t].p = dn[p].parent] /\ UNCHANGED rename_lock
  /\ UNCHANGED dn

MountEnd(t) ==
  LET d == th[t].d IN
  /\ At(t, "mount") /\ IsRoot(th[t].p)
  /\ dn' = [dn EXCEPT ![d].mounted = @ \/ dn[d].hashed]
  /\ Returns(t) /\ rename_lock' = Nobody

Unmount(d) ==
  /\ dn[d].mounted
  /\ dn' = [dn EXCEPT ![d].mounted = FALSE]
  /\ UNCHANGED <<th, rename_lock>>

\* d_invalidate; negative entries are dropped without further checks.
Invalidate(t, d) ==
  /\ At(t, "idle") /\ dn[d].hashed /\ ~ IsRoot(d)
  /\ dn' = [dn EXCEPT ![d].hashed = FALSE]
  /\ th' = IF dn[d].inode = Nobody THEN th ELSE [th EXCEPT ![t].pc = "shrink", ![t].d = d]
  /\ UNCHANGED rename_lock

Killable(d) == dn[d].live /\ ~ Held(d)

\* shrink_dcache_parent
Shrink(t) ==
  LET unused == {c \in Dentries : Above(th[t].d, c) /\ Killable(c)} IN
  /\ At(t, "shrink")
  /\ \/ /\ \E c \in unused : dn' = [dn EXCEPT ![c] = NoDentry]
        /\ UNCHANGED th
     \/ unused = {} /\ Goes(t, "start") /\ UNCHANGED dn
  /\ UNCHANGED rename_lock

\* d_walk with find_submount: a first pass compares the sequence of rename_lock,
\* a second one holds it.
Arrive(d) == [at |-> d, todo |-> Children(d)]

WalkStart(t) ==
  /\ At(t, "start") /\ rename_lock = Nobody
  /\ IF dn[th[t].d].mounted THEN th' = [th EXCEPT ![t].pc = "detach", ![t].a = th[t].d]
     ELSE th' = [th EXCEPT ![t].pc = "walk", ![t].still = TRUE, ![t].stack = <<Arrive(th[t].d)>>]
  /\ UNCHANGED <<dn, rename_lock>>

Top(t) == th[t].stack[Len(th[t].stack)]
Left(t) == Top(t).todo \cap Children(Top(t).at)

Visit(t) ==
  /\ At(t, "walk")
  /\ \E c \in Left(t) :
       LET k == Len(th[t].stack)
           done == [th[t].stack EXCEPT ![k].todo = @ \ {c}]
       IN  IF dn[c].mounted
           THEN /\ th' = [th EXCEPT ![t].pc = "detach", ![t].a = c, ![t].stack = <<>>]
                /\ rename_lock' = IF rename_lock = t THEN Nobody ELSE rename_lock
           ELSE /\ th' = [th EXCEPT ![t].stack = IF Children(c) = {} THEN done
                                                ELSE Append(done, Arrive(c))]
                /\ UNCHANGED rename_lock
  /\ UNCHANGED dn

\* Slip: the walk does not notice a rename or a mount.
MustRetryNever(t) == FALSE

MustRetry(t) == rename_lock # t /\ ~ th[t].still

Ascend(t) ==
  /\ At(t, "walk") /\ Left(t) = {}
  /\ \/ /\ MustRetry(t) /\ rename_lock = Nobody
        /\ rename_lock' = t
        /\ IF dn[th[t].d].mounted
           THEN th' = [th EXCEPT ![t].pc = "detach", ![t].a = th[t].d, ![t].stack = <<>>]
           ELSE th' = [th EXCEPT ![t].stack = <<Arrive(th[t].d)>>]
        /\ UNCHANGED dn
     \/ /\ ~ MustRetry(t) /\ Len(th[t].stack) > 1
        /\ th' = [th EXCEPT ![t].stack = SubSeq(@, 1, Len(@) - 1)]
        /\ UNCHANGED <<dn, rename_lock>>
     \/ /\ ~ MustRetry(t) /\ Len(th[t].stack) = 1
        /\ dn' = [dn EXCEPT ![th[t].d].invalid = ~ dn[th[t].d].hashed]
        /\ rename_lock' = IF rename_lock = t THEN Nobody ELSE rename_lock
        /\ Returns(t)

Detach(t) ==
  /\ At(t, "detach")
  /\ dn' = [dn EXCEPT ![th[t].a].mounted = FALSE]
  /\ rename_lock' = IF rename_lock = t THEN Nobody ELSE rename_lock
  /\ th' = [th EXCEPT ![t].pc = "start", ![t].a = Nobody]

Forget(d) ==
  /\ Killable(d)
  /\ dn' = [dn EXCEPT ![d] = NoDentry]
  /\ UNCHANGED <<th, rename_lock>>
-----------------------------------------------------------------------------
Step(t) ==
  \/ Found(t) \/ NotFound(t) \/ Chain(t) \/ Waited(t)
  \/ FsError(t) \/ AddEnd(t) \/ SpliceFails(t) \/ MoveStart(t) \/ MoveEnd(t)
  \/ \E i \in Inodes \cup {Nobody} : AddStart(t, i)
  \/ \E i \in Inodes \cup {RootInode} : SpliceFinds(t, i)
  \/ \E e \in Dentries : ExactAlias(t, e)
  \/ \E root \in BOOLEAN : InstantiateAnon(t, root)
  \/ MountUp(t) \/ MountEnd(t)
  \/ Shrink(t) \/ WalkStart(t) \/ Visit(t) \/ Ascend(t) \/ Detach(t)

Call(t, d) ==
  \/ \E p \in Dentries, n \in Names : Lookup(t, p, n, d)
  \/ \E i \in Inodes : Obtain(t, i, d)
  \/ Delete(t, d) \/ Mount(t, d) \/ Invalidate(t, d)
  \/ \E e \in Dentries : Rename(t, d, e) \/ Exchange(t, d, e)

Next ==
  \/ \E t \in Threads : Step(t)
  \/ \E t \in Threads, d \in Dentries : Call(t, d)
  \/ \E d \in Dentries : Unmount(d) \/ Forget(d)

Spec == Init /\ [][Next]_vars
-----------------------------------------------------------------------------
(* A name of a directory has one entry that can be found and one that is   *)
(* being looked up, at most, although lookups of it run in parallel and     *)
(* hold no lock between their look at the hash table and at the list of     *)
(* entries in lookup.                                                       *)
NamesOnce ==
  \A d, e \in Dentries : Same(d, e) /\ dn[d].live /\ ~ IsRoot(d) =>
    /\ ~ (dn[d].hashed /\ dn[e].hashed)
    /\ ~ (dn[d].lookup /\ dn[e].lookup)

(* "directories can't have multiple aliases", whatever the lookups and the  *)
(* file handles that name one at the same time.                             *)
OneAlias == \A i \in Inodes \cup {RootInode} : Cardinality(Aliases(i)) <= 1

(* The parents of an entry lead to a root, whatever hierarchy a remote file *)
(* system pretends to have.                                                 *)
NoLoops == \A d \in Dentries : dn[d].live => \E r \in Dentries : IsRoot(r) /\ (r = d \/ Above(r, d))

(* "Only one of d_invalidate() and d_set_mounted() must succeed": when the   *)
(* first ends nothing below is mounted, and the second then mounts nothing  *)
(* there.                                                                   *)
InvalidateOrMount ==
  [][\A d \in Dentries :
       /\ dn'[d].mounted /\ ~ dn[d].mounted => \A a \in Dentries : Above(a, d) => ~ dn[a].invalid
       /\ dn'[d].invalid /\ ~ dn[d].invalid => \A c \in Dentries : Above(d, c) => ~ dn[c].mounted]_vars

=============================================================================
