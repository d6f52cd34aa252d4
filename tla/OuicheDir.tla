------------------------------ MODULE OuicheDir ------------------------------
(***************************************************************************)
(* Directories of ouichefs: the array of entries in a directory's block,   *)
(* the inode bitmap, link counts, and the operations lookup, create, mkdir,*)
(* unlink, rmdir, rename (inode.c) and iterate (dir.c).                    *)
(*                                                                         *)
(* The VFS holds the lock of each directory that an operation changes or   *)
(* looks into, so an operation is one action; a listing is several calls,  *)
(* between which others may come.  The VFS itself is modelled from how this*)
(* code depends on it: its cache of names (dentry) decides which operation *)
(* is called, and it refuses calls on a directory it has removed (dead).   *)
(* Blocks are the subject of OuicheFile: here an allocation may fail.      *)
(***************************************************************************)
EXTENDS Integers, FiniteSets, FiniteSetsExt

CONSTANTS
  NrInodes,     \* sbi->nr_inodes
  MaxSubfiles,  \* OUICHEFS_MAX_SUBFILES, the entries of a block
  Names,        \* names of at most OUICHEFS_FILENAME_LEN bytes
  NoName,       \* the name in an empty entry
  LongNames,    \* the names of exactly OUICHEFS_FILENAME_LEN bytes
  Cut,          \* such a name without its last byte
  Readers,      \* open descriptors on directories
  Listed        \* the directories that programs list

ASSUME DirAssumption ==
  /\ NrInodes \in Nat /\ NrInodes > 2
  /\ MaxSubfiles \in Nat \ {0}
  /\ NoName \notin Names
  /\ LongNames \subseteq Names
  /\ Cut \in [LongNames -> Names \ LongNames]
  /\ Listed \subseteq 1 .. NrInodes - 1

VARIABLES
  ifree,         \* sbi->ifree_bitmap: the bits that are set
  nrFreeInodes,  \* sbi->nr_free_inodes
  inode,         \* i_mode and i_nlink of each inode
  files,         \* the entries in each directory's block
  dentry,        \* the VFS's cache: an inode, Negative or Unknown
  dead,          \* cached inodes on which the VFS has set S_DEAD
  reader,        \* each open descriptor on a directory, with the entries that
                 \* it is still to give to the user
  corrupt,       \* a call has used memory outside a directory's block
  answer         \* what the last call returned

tree == <<ifree, nrFreeInodes, inode, files>>
vars == <<ifree, nrFreeInodes, inode, files, dentry, dead, reader, corrupt,
          answer>>

Root == 1
Inos == 2 .. NrInodes - 1
Slots == 0 .. MaxSubfiles - 1
Unknown == -1
Negative == 0

NoEntry == [ino |-> 0, name |-> NoName]
Entry == [ino : Inos \cup {0}, name : Names \cup {NoName}]
EmptyBlock == [s \in Slots |-> NoEntry]
NoReader == [dir |-> 0, pos |-> 0, owed |-> {}]

Errnos == {"EIO", "ENOSPC", "EMLINK", "EEXIST", "ENOTEMPTY"}
Answer(e, i) == [errno |-> e, ino |-> i]
Fails(e) == answer' = Answer(e, 0)

-----------------------------------------------------------------------------
(* The entries of a directory *)

\* strscpy leaves room for the final zero.
Stored(n) == IF n \in LongNames THEN Cut[n] ELSE n

\* Slip: the last entry is not looked at.
FindAllButLast(d, n) ==
  LET at == {s \in 0 .. MaxSubfiles - 2 : files[d][s].name = n}
  IN  IF at = {} THEN Negative ELSE files[d][Min(at)].ino

\* ouichefs_lookup: strncmp with the 28 bytes of the name that is looked for.
Find(d, n) ==
  LET at == {s \in Slots : /\ files[d][s].name = n
                           /\ \A t \in 0 .. s : files[d][t].ino # 0}
  IN  IF at = {} THEN Negative ELSE files[d][Min(at)].ino

Full(d) == files[d][MaxSubfiles - 1].ino # 0

\* The first free entry gets the inode and the name.
With(block, i, n) ==
  LET s == Min({t \in Slots : block[t].ino = 0} \cup {MaxSubfiles})
  IN  [block EXCEPT ![s] = [ino |-> i, name |-> Stored(n)]]

\* Slip: the entry is cleared and the ones after it stay where they are.
WithoutMove(block, i) ==
  [s \in Slots |-> IF block[s].ino = i THEN NoEntry ELSE block[s]]

\* Slip: the entry after the last one is cleared.
WithoutClear(block, i) ==
  [s \in Slots |->
     IF \A t \in 0 .. s : block[t].ino # i THEN block[s]
     ELSE IF s + 1 \in Slots /\ block[s + 1].ino # 0 THEN block[s + 1] ELSE block[s]]

\* The entries after that of inode i move down by one, the last is cleared.
Without(block, i) ==
  [s \in Slots |->
     IF \A t \in 0 .. s : block[t].ino # i THEN block[s]
     ELSE IF s + 1 \in Slots THEN block[s + 1] ELSE NoEntry]

Entries(d) == {files[d][s].ino : s \in Slots} \ {0}

\* The directories that the VFS passes to an operation.
Usable(d) ==
  /\ ~ corrupt
  /\ inode[d].mode = "dir"
  /\ d \notin dead

-----------------------------------------------------------------------------
(* Init: an empty partition from mkfs.  Bits 0 and 1 of the bitmap are used *)
(* but the superblock counts one inode as used.                             *)

Init ==
  /\ ifree = Inos
  /\ nrFreeInodes = NrInodes - 1
  /\ inode = [i \in Inos \cup {Root} |->
                IF i = Root THEN [mode |-> "dir", nlink |-> 2]
                            ELSE [mode |-> "none", nlink |-> 0]]
  /\ files = [i \in Inos \cup {Root} |-> EmptyBlock]
  /\ dentry = [i \in Inos \cup {Root} |-> [n \in Names |-> Unknown]]
  /\ dead = {}
  /\ reader = [r \in Readers |-> NoReader]
  /\ corrupt = FALSE
  /\ answer = Answer("OK", 0)

\* A lookup is answered by the cache, or by ouichefs_lookup and then cached.
Lookup(d, n) ==
  /\ Usable(d)
  /\ LET i == IF dentry[d][n] = Unknown THEN Find(d, n) ELSE dentry[d][n]
     IN  /\ dentry' = [dentry EXCEPT ![d][n] = i]
         /\ answer' = Answer("OK", i)
  /\ UNCHANGED <<tree, dead, reader, corrupt>>

\* The inode cannot be read: the error code is added to the cache as if it
\* were the address of an inode.
LookupBadInode(d, n) ==
  /\ Usable(d)
  /\ dentry[d][n] = Unknown /\ Find(d, n) # Negative
  /\ corrupt' = TRUE
  /\ UNCHANGED <<tree, dentry, dead, reader, answer>>

\* The VFS drops a name from its cache, those under a directory first.
Forget(d, n) ==
  /\ ~ corrupt
  /\ dentry[d][n] # Unknown
  /\ dentry[d][n] \in Inos => \A m \in Names : dentry[dentry[d][n]][m] = Unknown
  /\ dentry' = [dentry EXCEPT ![d][n] = Unknown]
  /\ UNCHANGED <<tree, dead, reader, corrupt, answer>>

\* The VFS drops an inode from its cache, and S_DEAD with it.
Evict(i) ==
  /\ ~ corrupt
  /\ i \in dead
  /\ \A r \in Readers : reader[r].dir # i
  /\ \A d \in Inos \cup {Root}, n \in Names : dentry[d][n] # i
  /\ dead' = dead \ {i}
  /\ UNCHANGED <<tree, dentry, reader, corrupt, answer>>

-----------------------------------------------------------------------------
(* create and mkdir *)

NewInode(mode) == [mode |-> mode, nlink |-> IF mode = "dir" THEN 2 ELSE 1]

\* The VFS creates only a name that its cache holds as absent.  S_DEAD is not
\* cleared: iget returns the inode from the cache if it is there.
Create(d, n, mode) ==
  /\ dentry[d][n] = Negative /\ Usable(d)
  /\ ~ Full(d)
  /\ nrFreeInodes # 0 /\ ifree # {}
  /\ LET ino == Min(ifree)
     IN  /\ ifree' = ifree \ {ino}
         /\ inode' = [inode EXCEPT
              ![ino] = NewInode(mode),
              ![d].nlink = IF mode = "dir" THEN @ + 1 ELSE @]
         /\ files' = [files EXCEPT ![d] = With(@, ino, n),
                                   ![ino] = EmptyBlock]
         /\ dentry' = [dentry EXCEPT ![d][n] = ino]
         /\ answer' = Answer("OK", ino)
  /\ nrFreeInodes' = nrFreeInodes - 1
  /\ UNCHANGED <<dead, reader, corrupt>>

\* No entry, inode or block is free, or a block cannot be read.  If that is the
\* block of the new inode, its number has been taken and is given back.  What
\* was written in the inode is in memory only and the next create replaces it.
CreateFails(d, n) ==
  /\ dentry[d][n] = Negative /\ Usable(d)
  /\ IF Full(d) THEN Fails("EMLINK") ELSE Fails("ENOSPC") \/ Fails("EIO")
  /\ UNCHANGED <<tree, dentry, dead, reader, corrupt>>

-----------------------------------------------------------------------------
(* unlink and rmdir *)

\* The listings of d after inode i has left it.  If a listing has passed i, the
\* entry at its position moves before it and is no longer owed to the user.
ListingsWithout(d, i) ==
  LET passed(r) == \E s \in Slots : s < reader[r].pos /\ files[d][s].ino = i
      skipped(r) == {files[d][s].ino : s \in {t \in Slots : passed(r) /\ t = reader[r].pos}}
  IN  [r \in Readers |->
         IF reader[r].dir # d THEN reader[r]
         ELSE [reader[r] EXCEPT !.owed = @ \ ({i} \cup skipped(r))]]

\* Slip: the bit is set and the counter forgotten.
PutInodeUncounted(i) ==
  /\ ifree' = ifree \cup {i}
  /\ UNCHANGED nrFreeInodes

\* put_inode, of a number below nr_inodes
PutInode(i) ==
  /\ ifree' = ifree \cup {i}
  /\ nrFreeInodes' = nrFreeInodes + 1

\* The links that a directory loses with the entry of inode i.
LinksLost(i) == IF inode[i].mode = "dir" THEN 1 ELSE 0

\* ouichefs_unlink.  The inode loses one link: a directory keeps another one,
\* so the VFS leaves it in its cache.  The name is now absent, or forgotten if
\* somebody else uses it.
Remove(d, n, i) ==
  /\ files' = [files EXCEPT ![d] = Without(@, i), ![i] = EmptyBlock]
  /\ inode' = [inode EXCEPT ![d].nlink = @ - LinksLost(i),
                            ![i] = [mode |-> "none", nlink |-> @.nlink - 1]]
  /\ PutInode(i)
  /\ reader' = ListingsWithout(d, i)
  /\ \E v \in {Negative, Unknown} :
       dentry' = [dentry EXCEPT ![d][n] = v, ![i] = [m \in Names |-> Unknown]]
  /\ answer' = Answer("OK", 0)
  /\ UNCHANGED corrupt

Unlink(d, n) ==
  /\ dentry[d][n] \in Inos /\ Usable(d)
  /\ inode[dentry[d][n]].mode = "file"
  /\ Remove(d, n, dentry[d][n])
  /\ UNCHANGED dead

IsEmptyDir(i) == inode[i].nlink =< 2 /\ files[i][0].ino = 0

\* The VFS marks the inode after ouichefs_rmdir has succeeded.
Rmdir(d, n) ==
  /\ dentry[d][n] \in Inos /\ Usable(d)
  /\ inode[dentry[d][n]].mode = "dir" /\ IsEmptyDir(dentry[d][n])
  /\ Remove(d, n, dentry[d][n])
  /\ dead' = dead \cup {dentry[d][n]}

RmdirFails(d, n) ==
  /\ dentry[d][n] \in Inos /\ Usable(d)
  /\ inode[dentry[d][n]].mode = "dir" /\ ~ IsEmptyDir(dentry[d][n])
  /\ Fails("ENOTEMPTY")
  /\ UNCHANGED <<tree, dentry, dead, reader, corrupt>>

-----------------------------------------------------------------------------
(* rename *)

\* The inode i and what is under it, as deep as there are inodes.
Under(i) ==
  LET level[k \in Nat] ==
        IF k = 0 THEN {i}
        ELSE LET above == level[k - 1]
             IN  above \cup UNION {Entries(j) : j \in above}
  IN  level[NrInodes - 2]

\* What the VFS has checked when it calls ouichefs_rename.
Renames(d, n, e, m) ==
  /\ dentry[d][n] \in Inos /\ dentry[e][m] # Unknown
  /\ Usable(d) /\ Usable(e) /\ <<d, n>> # <<e, m>>
  /\ e \notin Under(dentry[d][n])

\* Slip: no test for an entry with the new name.
NeverTaken(e, m) == FALSE

Taken(e, m) == \E s \in Slots : files[e][s].name = m

\* d_move: the old name is forgotten, the new one leads to the inode.
DentryMoved(d, n, e, m) ==
  [dentry EXCEPT ![d][n] = Unknown, ![e][m] = dentry[d][n]]

RenameFails(d, n, e, m) ==
  /\ Renames(d, n, e, m)
  /\ \/ Taken(e, m) /\ Fails("EEXIST")
     \/ ~ Taken(e, m) /\ d # e /\ Full(e) /\ Fails("EMLINK")
     \/ Fails("EIO")
  /\ UNCHANGED <<tree, dentry, dead, reader, corrupt>>

\* In the same directory: the last entry with the old name gets the new one.
RenameHere(d, n, m) ==
  /\ Renames(d, n, d, m) /\ ~ Taken(d, m)
  /\ LET at == {s \in Slots : files[d][s].name = n}
     IN  /\ at # {}
         /\ files' = [files EXCEPT ![d][Max(at)].name = Stored(m)]
  /\ dentry' = DentryMoved(d, n, d, m)
  /\ answer' = Answer("OK", 0)
  /\ UNCHANGED <<ifree, nrFreeInodes, inode, dead, reader, corrupt>>

\* Slip: the old directory keeps its link.
LinksGained(i, d, e) ==
  [inode EXCEPT ![e].nlink = @ + LinksLost(i)]

LinksMoved(i, d, e) ==
  [inode EXCEPT ![d].nlink = @ - LinksLost(i), ![e].nlink = @ + LinksLost(i)]

\* To another directory: the entry is added there, then removed here.
RenameAcross(d, n, e, m) ==
  /\ d # e
  /\ Renames(d, n, e, m) /\ ~ Taken(e, m) /\ ~ Full(e)
  /\ ~ Full(d)
  /\ LET i == dentry[d][n]
     IN  /\ files' = [files EXCEPT ![d] = Without(@, i), ![e] = With(@, i, m)]
         /\ inode' = LinksMoved(i, d, e)
         /\ reader' = ListingsWithout(d, i)
  /\ dentry' = DentryMoved(d, n, e, m)
  /\ answer' = Answer("OK", 0)
  /\ UNCHANGED <<ifree, nrFreeInodes, dead, corrupt>>

\* The search through the old directory has no bound: a full block is overrun.
\* Nor is f_pos tested: without an entry of the old name it is still -1.
RenameOverrun(d, n, e, m) ==
  /\ Renames(d, n, e, m) /\ ~ Taken(e, m)
  /\ IF d = e THEN \A s \in Slots : files[d][s].name # n
              ELSE ~ Full(e) /\ Full(d)
  /\ corrupt' = TRUE
  /\ UNCHANGED <<tree, dentry, dead, reader, answer>>

-----------------------------------------------------------------------------
(* iterate: pos is ctx->pos without the two entries "." and ".." *)

Open(r, d) ==
  /\ Usable(d)
  /\ reader[r] = NoReader
  /\ reader' = [reader EXCEPT ![r] = [NoReader EXCEPT !.dir = d,
                                                      !.owed = Entries(d)]]
  /\ UNCHANGED <<tree, dentry, dead, corrupt, answer>>

\* Slip: an entry that no longer fits in the user's buffer is passed too.
PosAfterLast(pos, n, left) == IF n < left THEN pos + n + 1 ELSE pos + n

\* The position after n of the entries left have been given to the user.
PosAfter(pos, n, left) == pos + n

\* One call of ouichefs_iterate that gives entries to the user: as many as fit
\* in the buffer.  A call that finds none changes nothing and ends the listing.
Iterate(r) ==
  LET d == reader[r].dir
      pos == reader[r].pos
      left == Cardinality({s \in Slots : /\ s >= pos
                                         /\ \A t \in pos .. s : files[d][t].ino # 0})
  IN  /\ ~ corrupt /\ d # 0 /\ d \notin dead
      /\ \E n \in 1 .. left :
           reader' = [reader EXCEPT
             ![r].owed = @ \ {files[d][s].ino : s \in pos .. pos + n - 1},
             ![r].pos = PosAfter(pos, n, left)]
      /\ UNCHANGED <<tree, dentry, dead, corrupt, answer>>

Close(r) ==
  /\ ~ corrupt
  /\ reader[r] # NoReader
  /\ reader' = [reader EXCEPT ![r] = NoReader]
  /\ UNCHANGED <<tree, dentry, dead, corrupt, answer>>

Next ==
  \/ \E d \in Inos \cup {Root}, n \in Names :
       \/ Lookup(d, n) \/ LookupBadInode(d, n) \/ Forget(d, n)
       \/ CreateFails(d, n)
       \/ \E mode \in {"dir", "file"} : Create(d, n, mode)
       \/ Unlink(d, n) \/ Rmdir(d, n) \/ RmdirFails(d, n)
       \/ \E m \in Names : RenameHere(d, n, m)
       \/ \E e \in Inos \cup {Root}, m \in Names :
            RenameAcross(d, n, e, m) \/ RenameFails(d, n, e, m)
              \/ RenameOverrun(d, n, e, m)
  \/ \E i \in Inos : Evict(i)
  \/ \E r \in Readers :
       \/ \E d \in Listed : Open(r, d)
       \/ Iterate(r) \/ Close(r)

Spec == Init /\ [][Next]_vars

-----------------------------------------------------------------------------
(* Properties *)

\* Types: link counts are never negative, entries hold numbers of the inode
\* bitmap, positions stay inside the block.
TypeOK ==
  /\ ifree \subseteq Inos
  /\ nrFreeInodes \in Nat
  /\ inode \in [Inos \cup {Root} -> [mode : {"none", "dir", "file"}, nlink : Nat]]
  /\ files \in [Inos \cup {Root} -> [Slots -> Entry]]
  /\ dentry \in [Inos \cup {Root} -> [Names -> Inos \cup {Negative, Unknown}]]
  /\ dead \subseteq Inos
  /\ reader \in [Readers -> [dir : Inos \cup {Root, 0}, pos : 0 .. MaxSubfiles,
                             owed : SUBSET Inos]]
  /\ corrupt \in BOOLEAN
  /\ answer.errno \in Errnos \cup {"OK"} /\ answer.ino \in Inos \cup {0}

\* Entries lie without gaps from the first slot on: every loop over a
\* directory stops at the first empty entry, and create and rename test the
\* last one only.
EntriesDense ==
  \A d \in Inos \cup {Root} : \A s \in Slots \ {0} :
    files[d][s].ino # 0 => files[d][s - 1].ino # 0

\* An inode is marked used as long as exactly one entry of one directory names
\* it, through every create, removal and rename.
OneParent ==
  \A i \in Inos :
    Cardinality({p \in (Inos \cup {Root}) \X Slots : files[p[1]][p[2]].ino = i})
      = IF i \in ifree THEN 0 ELSE 1

Subdirs(d) == {i \in Entries(d) : inode[i].mode = "dir"}

\* A file has one link, a directory two and one for each of its directories;
\* rmdir relies on it and rename moves the difference.
LinkCounts ==
  \A i \in (Inos \cup {Root}) \ ifree :
    inode[i].nlink = IF inode[i].mode = "dir" THEN 2 + Cardinality(Subdirs(i))
                                              ELSE 1

\* sbi->nr_free_inodes follows the bitmap from its first value on, which is
\* one too high.
FreeInodesFollow == nrFreeInodes = Cardinality(ifree) + 1

\* What the VFS remembers of a name is what a search of the directory finds:
\* a create relies on it not to add a name twice.
CacheTrue ==
  \A d \in Inos \cup {Root}, n \in Names :
    dentry[d][n] # Unknown => dentry[d][n] = Find(d, n)

\* What a listing still owes lies ahead of its position, so when it finds no
\* more it has given every entry that was there when it began and has not left,
\* save one for each removal of an entry it had already given.
ListingComplete ==
  \A r \in Readers : \A i \in reader[r].owed :
    \E s \in Slots : s >= reader[r].pos /\ files[reader[r].dir][s].ino = i

\* No directory has two entries with the same name.
NamesOnce ==
  \A d \in Inos \cup {Root} : \A s, t \in Slots :
    files[d][s].ino # 0 /\ files[d][t].ino # 0
      /\ files[d][s].name = files[d][t].name => s = t

\* A new directory can be used: it is not an inode that rmdir has left dead.
NewDirectoryUsable ==
  \A d \in Inos \ ifree : inode[d].mode = "dir" => d \notin dead

\* Entries, bitmap, link counts and cache together implement a tree of names.
BoundNames ==
  {p \in (Inos \cup {Root}) \X Names :
     \E s \in Slots : files[p[1]][s].ino # 0 /\ files[p[1]][s].name = p[2]}

Tree == INSTANCE Namespace WITH
  names <- [p \in BoundNames |->
              files[p[1]][CHOOSE s \in Slots : files[p[1]][s].name = p[2]].ino],
  dirs <- {i \in (Inos \cup {Root}) \ ifree : inode[i].mode = "dir"}

RefinesNamespace == Tree!Spec

=============================================================================
