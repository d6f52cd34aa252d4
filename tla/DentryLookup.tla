----------------------------- MODULE DentryLookup -----------------------------
(***************************************************************************)
(* The lookups of dcache.c that take no lock of the directory (lab 7,      *)
(* labs/7/task-1/dcache-export.c), beside the moves that they race with:   *)
(* the chains of the hash table, which are walked without a lock and       *)
(* change under the walk, the sequence of an entry (d_seq) and that of     *)
(* rename_lock, and the names too long for d_iname, which entries and      *)
(* snapshots share and count.                                              *)
(*                                                                         *)
(* A sequence is modelled by what its readers ask: is it odd, has it       *)
(* changed since I read it?  A step is what no other thread can see half   *)
(* done, or so taken: see RcuParent and RcuKey, which put two loads into   *)
(* one; the stores of a step are seen in the order of the code.  The       *)
(* references to entries are those of DentryRefs: here an entry that no    *)
(* move works on may be killed at any time.                                *)
(***************************************************************************)
EXTENDS Naturals, FiniteSets, SequencesExt

CONSTANTS
  Dentries, \* addresses of struct dentry
  Dirs,     \* the parents
  Comparing, \* those with DCACHE_OP_COMPARE: the file system compares names
  Names,
  Long,     \* the names that need a struct external_name
  Chains,   \* of dentry_hashtable
  Keys,     \* the names of directories that are used, <<directory, name>>
  Chain,    \* d_hash: their chains; the names of a chain have one hash value
  Storages, \* addresses of struct external_name
  Walkers,  \* threads that look up names
  Movers,   \* threads that move entries
  Nobody,   \* no dentry, directory, name or thread
  Inline    \* d_iname of the entry

Threads == Walkers \cup Movers

ASSUME LookupAssumption ==
  /\ Long \subseteq Names /\ Comparing \subseteq Dirs /\ Keys \subseteq Dirs \X Names /\ Chain \in [Keys -> Chains]
  /\ Nobody \notin Dentries \cup Dirs \cup Names \cup Keys \cup Threads
  /\ Inline \notin Storages
  /\ IsFiniteSet(Dentries) /\ IsFiniteSet(Threads) /\ Dentries \cap Threads = {}

VARIABLES
  dn,          \* the entries
  chain,       \* the entries in each chain of the hash table
  ext,         \* the external names
  th,          \* the threads: where they are and the local variables of the call
  rename_lock  \* who holds it: its sequence is odd then

vars == <<dn, chain, ext, th, rename_lock>>

\* key is d_name.hash_len, after is d_hash.next of an entry out of its chain.
NoDentry == [state |-> "free", parent |-> Nobody, key |-> Nobody, ptr |-> Inline, iname |-> Nobody,
             hashed |-> FALSE, after |-> Nobody, waits |-> {}]
NoName == [state |-> "free", text |-> Nobody, count |-> 0, waits |-> {}]
Idle == [pc |-> "idle", rcu |-> FALSE, key |-> Nobody, pos |-> Nobody, ptr |-> Inline, still |-> FALSE,
         ok |-> FALSE, absent |-> FALSE, d |-> Nobody, e |-> Nobody, exchange |-> FALSE]

Init ==
  /\ dn = [d \in Dentries |-> NoDentry]
  /\ chain = [b \in Chains |-> <<>>]
  /\ ext = [s \in Storages |-> NoName]
  /\ th = [t \in Threads |-> Idle]
  /\ rename_lock = Nobody

At(t, pc) == th[t].pc = pc
Goes(t, pc) == th' = [th EXCEPT ![t].pc = pc]

\* What the hash table says, whatever place of its chain a walk has reached.
Has(entries, k) == \E d \in Dentries : entries[d].hashed /\ entries[d].key = k
Present(k) == Has(dn, k)
Text(d, ptr) == IF ptr = Inline THEN dn[d].iname ELSE ext[ptr].text

\* rcu_read_lock to rcu_read_unlock
Walking == {t \in Threads : th[t].pc \in {"at", "lock", "next", "parent", "key", "stable", "cmp", "got"}}
\* d_lock, and an odd d_seq: a move has both from its first step to its last.
Moved(t) == IF th[t].pc \in {"unhash", "unhash target", "reparent", "rename", "rehash target", "rehash"}
            THEN {th[t].d, th[t].e} ELSE {}
Locked(d) == \E t \in Threads : d \in Moved(t)

\* What nobody can reach any more is forgotten: the pointer of an entry out of its
\* chain, the old text in d_iname.
Needed(entry) == IF entry.ptr = Inline THEN entry.iname ELSE Nobody

\* The end of a section: what waits for no other is freed.
Leave(objects, t, freed) ==
  [o \in DOMAIN objects |-> IF objects[o].waits = {t} THEN freed
                            ELSE [objects[o] EXCEPT !.waits = @ \ {t}]]
LeaveRcu(t) ==
  LET left == Leave(dn, t, NoDentry) IN
  /\ dn' = IF Walking = {t} THEN [d \in Dentries |-> [left[d] EXCEPT !.after = Nobody, !.iname = Needed(left[d])]]
           ELSE left
  /\ ext' = Leave(ext, t, NoName)

\* A lookup that is under way remembers that its name was absent.
Seen(f) == [t \in Threads |-> [f[t] EXCEPT !.absent = @ \/ (f[t].key # Nobody /\ ~ Has(dn', f[t].key))]]
-----------------------------------------------------------------------------
(* The hash table: a walk that stands on an entry taken out goes on along  *)
(* the pointer which the entry keeps.                                      *)

First(b) == IF chain[b] = <<>> THEN Nobody ELSE chain[b][1]
Place(d, s) == CHOOSE i \in DOMAIN s : s[i] = d
Follows(d, s) == IF Place(d, s) = Len(s) THEN Nobody ELSE s[Place(d, s) + 1]
InChain(d) == \E b \in Chains : Contains(chain[b], d)
After(d) == IF InChain(d) THEN Follows(d, chain[CHOOSE b \in Chains : Contains(chain[b], d)])
            ELSE dn[d].after

\* ___d_drop; where d goes on is kept only while somebody may stand on it.
Drops(d) == IF ~ dn[d].hashed THEN chain
            ELSE [chain EXCEPT ![Chain[dn[d].key]] = RemoveAt(@, Place(d, @))]
KeepsAfter(d) == IF dn[d].hashed /\ Walking # {} THEN After(d) ELSE Nobody
\* __d_rehash
Rehashes(d) == [chain EXCEPT ![Chain[dn[d].key]] = <<d>> \o @]

\* Slip: __d_drop leaves the sequence of the entry as it is.
InvalidatesNot(f, S) == f

\* write_seqcount_begin and write_seqcount_invalidate
Invalidates(f, S) == [t \in Threads |-> [f[t] EXCEPT !.ok = @ /\ f[t].pos \notin S]]
-----------------------------------------------------------------------------
(* Names                                                                   *)

\* One user less: the last one has kfree_rcu free it.
Put(names, s) ==
  IF s = Inline THEN names
  ELSE [names EXCEPT ![s] = IF @.count > 1 THEN [@ EXCEPT !.count = names[s].count - 1]
                            ELSE IF Walking = {} THEN NoName
                            ELSE [@ EXCEPT !.count = 0, !.state = "dying", !.waits = Walking]]

\* Slip: copy_name does not count the new user of an external name.
GotUncounted(s) == ext

Got(s) == IF s = Inline THEN ext ELSE [ext EXCEPT ![s].count = @ + 1]

\* __d_alloc
Alloc(d, k) ==
  /\ dn[d].state = "free"
  /\ \/ /\ k[2] \notin Long
        /\ dn' = [dn EXCEPT ![d] = [NoDentry EXCEPT !.state = "live", !.parent = k[1], !.key = k, !.iname = k[2]]]
        /\ UNCHANGED ext
     \/ /\ k[2] \in Long
        /\ \E s \in Storages :
             /\ ext[s].state = "free"
             /\ ext' = [ext EXCEPT ![s] = [state |-> "used", text |-> k[2], count |-> 1, waits |-> {}]]
             /\ dn' = [dn EXCEPT ![d] = [NoDentry EXCEPT !.state = "live", !.parent = k[1], !.key = k, !.ptr = s]]
  /\ UNCHANGED <<chain, th, rename_lock>>

\* d_rehash and the end of __d_add; no other entry has the name (DentryTree).
Rehash(d) ==
  /\ dn[d].state = "live" /\ ~ dn[d].hashed /\ ~ Locked(d) /\ ~ Present(dn[d].key)
  /\ \A t \in Threads : \A x \in Moved(t) : dn[x].key # dn[d].key
  /\ dn' = [dn EXCEPT ![d].hashed = TRUE, ![d].after = Nobody]
  /\ chain' = Rehashes(d)
  /\ UNCHANGED <<ext, th, rename_lock>>

\* d_drop
Drop(d) ==
  /\ dn[d].hashed /\ ~ Locked(d)
  /\ chain' = Drops(d)
  /\ dn' = [dn EXCEPT ![d].hashed = FALSE, ![d].after = KeepsAfter(d)]
  /\ th' = Seen(Invalidates(th, {d}))
  /\ UNCHANGED <<ext, rename_lock>>

\* __dentry_kill and dentry_free; the memory is free again as soon as the sections
\* under way have ended, which is the worst for those who still stand on it.
Kill(d) ==
  /\ dn[d].state = "live" /\ ~ Locked(d)
  /\ chain' = Drops(d)
  /\ dn' = [dn EXCEPT ![d] = IF Walking = {} THEN NoDentry
                             ELSE [@ EXCEPT !.hashed = FALSE, !.state = "dying", !.waits = Walking,
                                            !.after = IF dn[d].hashed THEN KeepsAfter(d) ELSE dn[d].after]]
  /\ ext' = Put(ext, dn[d].ptr)
  /\ th' = Seen(IF dn[d].hashed THEN Invalidates(th, {d}) ELSE th)
  /\ UNCHANGED rename_lock

\* take_dentry_name_snapshot; a short name is copied, and needs no care.
Snapshot(t, d) ==
  /\ At(t, "idle") /\ dn[d].state = "live" /\ ~ Locked(d) /\ dn[d].ptr # Inline
  /\ ext' = [ext EXCEPT ![dn[d].ptr].count = @ + 1]
  /\ th' = [th EXCEPT ![t] = [Idle EXCEPT !.pc = "snapshot", !.ptr = dn[d].ptr]]
  /\ UNCHANGED <<dn, chain, rename_lock>>

\* release_dentry_name_snapshot
Release(t) ==
  /\ At(t, "snapshot")
  /\ ext' = Put(ext, th[t].ptr)
  /\ th' = [th EXCEPT ![t] = Idle]
  /\ UNCHANGED <<dn, chain, rename_lock>>
-----------------------------------------------------------------------------
(* d_lookup                                                                *)

LookupStart(t, k) ==
  /\ At(t, "idle")
  /\ th' = [th EXCEPT ![t] = [Idle EXCEPT !.pc = "seq", !.key = k, !.absent = ~ Present(k)]]
  /\ UNCHANGED <<dn, chain, ext, rename_lock>>

\* read_seqbegin waits for the end of a move; the walk begins.
SeqBegin(t) ==
  /\ At(t, "seq") /\ rename_lock = Nobody
  /\ th' = [th EXCEPT ![t].pc = "at", ![t].still = TRUE, ![t].pos = First(Chain[th[t].key])]
  /\ UNCHANGED <<dn, chain, ext, rename_lock>>

\* The hash of the name is read without a lock ...
SeeHash(t) ==
  /\ At(t, "at") /\ ~ th[t].rcu /\ th[t].pos # Nobody
  /\ Goes(t, IF Chain[dn[th[t].pos].key] = Chain[th[t].key] THEN "lock" ELSE "next")
  /\ UNCHANGED <<dn, chain, ext, rename_lock>>

\* ... and the rest under d_lock.
Compare(t) ==
  LET d == th[t].pos IN
  /\ At(t, "lock") /\ ~ Locked(d)
  /\ IF dn[d].hashed /\ dn[d].parent = th[t].key[1] /\ Text(d, dn[d].ptr) = th[t].key[2]
     THEN /\ th' = [th EXCEPT ![t] = Idle]
          /\ LeaveRcu(t)
     ELSE Goes(t, "next") /\ UNCHANGED <<dn, ext>>
  /\ UNCHANGED <<chain, rename_lock>>

Advance(t) ==
  /\ At(t, "next")
  /\ th' = [th EXCEPT ![t].pc = "at", ![t].pos = After(th[t].pos), ![t].ok = FALSE]
  /\ UNCHANGED <<dn, chain, ext, rename_lock>>

\* Slip: no second look after a rename, as in __d_lookup alone
RetriesNever(t) == FALSE

\* read_seqretry(&rename_lock, seq)
Retries(t) == ~ th[t].still

LookupEnd(t) ==
  /\ At(t, "at") /\ ~ th[t].rcu /\ th[t].pos = Nobody
  /\ LeaveRcu(t)
  /\ Goes(t, IF Retries(t) THEN "seq" ELSE "none")
  /\ UNCHANGED <<chain, rename_lock>>

Return(t) ==
  /\ th[t].pc \in {"none", "valid"}
  /\ th' = [th EXCEPT ![t] = Idle]
  /\ UNCHANGED <<dn, chain, ext, rename_lock>>
-----------------------------------------------------------------------------
(* __d_lookup_rcu: one step per thing it reads                             *)

RcuStart(t, k) ==
  /\ At(t, "idle")
  /\ th' = [th EXCEPT ![t] = [Idle EXCEPT !.pc = "at", !.rcu = TRUE, !.key = k, !.pos = First(Chain[k])]]
  /\ UNCHANGED <<dn, chain, ext, rename_lock>>

\* raw_seqcount_begin: an odd sequence is taken for one that will have changed.
RcuSeq(t) ==
  /\ At(t, "at") /\ th[t].rcu /\ th[t].pos # Nobody
  /\ th' = [th EXCEPT ![t].pc = "parent", ![t].ok = ~ Locked(th[t].pos)]
  /\ UNCHANGED <<dn, chain, ext, rename_lock>>

\* d_parent and d_unhashed, which the code loads one after the other.
RcuParent(t) ==
  LET d == th[t].pos IN
  /\ At(t, "parent")
  /\ Goes(t, IF dn[d].parent = th[t].key[1] /\ dn[d].hashed THEN "key" ELSE "next")
  /\ UNCHANGED <<dn, chain, ext, rename_lock>>

\* hash_len, then the pointer to the name, in one step: that the length of one
\* name is compared with the text of another is not covered.
RcuKey(t) ==
  LET d == th[t].pos IN
  /\ At(t, "key")
  /\ IF Chain[dn[d].key] = Chain[th[t].key]
     THEN th' = [th EXCEPT ![t].pc = IF th[t].key[1] \in Comparing THEN "stable" ELSE "cmp",
                           ![t].ptr = dn[d].ptr]
     ELSE Goes(t, "next")
  /\ UNCHANGED <<dn, chain, ext, rename_lock>>

\* __d_lookup_rcu_op_compare wants the length and the pointer of one name: it looks
\* at the entry again until no move is in between.
RcuStable(t) ==
  /\ At(t, "stable")
  /\ th' = IF th[t].ok THEN [th EXCEPT ![t].pc = "cmp"]
           ELSE [th EXCEPT ![t].pc = "at", ![t].ptr = Inline]
  /\ UNCHANGED <<dn, chain, ext, rename_lock>>

RcuCompare(t) ==
  /\ At(t, "cmp")
  /\ th' = [th EXCEPT ![t].pc = IF Text(th[t].pos, th[t].ptr) = th[t].key[2] THEN "got" ELSE "next",
                      ![t].ptr = Inline]
  /\ UNCHANGED <<dn, chain, ext, rename_lock>>

RcuNone(t) ==
  /\ At(t, "at") /\ th[t].rcu /\ th[t].pos = Nobody
  /\ LeaveRcu(t)
  /\ th' = [th EXCEPT ![t] = Idle]
  /\ UNCHANGED <<chain, rename_lock>>

\* The caller checks the sequence before it uses the entry.
RcuConfirm(t) ==
  /\ At(t, "got")
  /\ LeaveRcu(t)
  /\ th' = [th EXCEPT ![t] = IF th[t].ok THEN [Idle EXCEPT !.pc = "valid", !.pos = th[t].pos, !.key = th[t].key]
                             ELSE Idle]
  /\ UNCHANGED <<chain, rename_lock>>
-----------------------------------------------------------------------------
(* __d_move under rename_lock and the d_lock of both entries               *)

\* d takes the place of e, or each that of the other.
MoveBegin(t, d, e, exchange) ==
  /\ At(t, "idle") /\ rename_lock = Nobody /\ d # e
  /\ dn[d].state = "live" /\ dn[e].state = "live" /\ ~ Locked(d) /\ ~ Locked(e)
  /\ IF exchange THEN dn[d].hashed /\ dn[e].hashed
     ELSE dn[e].hashed => dn[d].hashed
  /\ \A x \in Dentries \ {d, e} : dn[x].hashed => dn[x].key # dn[e].key
  /\ dn[d].hashed \/ dn[d].key = dn[e].key \/ ~ Present(dn[e].key)
  /\ rename_lock' = t
  /\ th' = LET f == [u \in Threads |-> [th[u] EXCEPT !.still = FALSE]]
           IN  Invalidates([f EXCEPT ![t] = [Idle EXCEPT !.pc = "unhash", !.d = d, !.e = e, !.exchange = exchange]],
                           {d, e})
  /\ UNCHANGED <<dn, chain, ext>>

\* The entry leaves its chain, but d_unhashed does not see it.
Unhash(t, d, pc, next) ==
  /\ At(t, pc)
  /\ chain' = Drops(d)
  /\ dn' = [dn EXCEPT ![d].after = IF dn[d].hashed THEN KeepsAfter(d) ELSE @]
  /\ Goes(t, next)
  /\ UNCHANGED <<ext, rename_lock>>

Reparent(t) ==
  LET d == th[t].d
      e == th[t].e
  IN  /\ At(t, "reparent")
      /\ dn' = [dn EXCEPT ![d].parent = dn[e].parent,
                          ![e].parent = IF th[t].exchange THEN dn[d].parent ELSE @]
      /\ Goes(t, "rename")
      /\ UNCHANGED <<chain, ext, rename_lock>>

\* d_iname of d when it gets the name of e
NewText(d, e) == IF dn[e].ptr = Inline THEN dn[e].iname
                 ELSE IF Walking = {} THEN Nobody ELSE dn[d].iname

\* copy_name; the target is unhashed.
CopyName(t) ==
  LET d == th[t].d
      e == th[t].e
  IN  /\ At(t, "rename") /\ ~ th[t].exchange
      /\ ext' = Put(Got(dn[e].ptr), dn[d].ptr)
      /\ dn' = [dn EXCEPT ![d].key = dn[e].key, ![d].ptr = dn[e].ptr,
                          ![d].iname = NewText(d, e), ![e].hashed = FALSE]
      /\ th' = Seen([th EXCEPT ![t].pc = "rehash"])
      /\ UNCHANGED <<chain, rename_lock>>

\* swap_names: an external name changes its owner, a short one is copied.
SwapNames(t) ==
  LET d == th[t].d
      e == th[t].e
  IN  /\ At(t, "rename") /\ th[t].exchange
      /\ dn' = [dn EXCEPT ![d].key = dn[e].key, ![d].ptr = dn[e].ptr,
                          ![d].iname = NewText(d, e),
                          ![e].key = dn[d].key, ![e].ptr = dn[d].ptr,
                          ![e].iname = NewText(e, d)]
      /\ th' = Seen([th EXCEPT ![t].pc = "rehash target"])
      /\ UNCHANGED <<chain, ext, rename_lock>>

\* An exchange hashes the target first.
RehashTarget(t) ==
  /\ At(t, "rehash target")
  /\ chain' = Rehashes(th[t].e)
  /\ dn' = [dn EXCEPT ![th[t].e].after = Nobody]
  /\ Goes(t, "rehash")
  /\ UNCHANGED <<ext, rename_lock>>

\* The entry is hashed, the sequences become even, the locks are free.
MoveEnd(t) ==
  LET d == th[t].d IN
  /\ At(t, "rehash")
  /\ chain' = Rehashes(d)
  /\ dn' = [dn EXCEPT ![d].hashed = TRUE, ![d].after = Nobody]
  /\ th' = Seen([th EXCEPT ![t] = Idle])
  /\ rename_lock' = Nobody
  /\ UNCHANGED ext
-----------------------------------------------------------------------------
Move(t) ==
  \/ Unhash(t, th[t].d, "unhash", "unhash target")
  \/ Unhash(t, th[t].e, "unhash target", "reparent")
  \/ Reparent(t) \/ CopyName(t) \/ SwapNames(t)
  \/ RehashTarget(t) \/ MoveEnd(t)

Step(t) ==
  \/ SeqBegin(t) \/ SeeHash(t) \/ Compare(t) \/ Advance(t) \/ LookupEnd(t) \/ Return(t)
  \/ RcuSeq(t) \/ RcuParent(t) \/ RcuKey(t) \/ RcuStable(t) \/ RcuCompare(t) \/ RcuNone(t) \/ RcuConfirm(t)
  \/ Move(t) \/ Release(t)

Next ==
  \/ \E t \in Threads : Step(t)
  \/ \E t \in Walkers, k \in Keys : LookupStart(t, k) \/ RcuStart(t, k)
  \/ \E t \in Movers, d, e \in Dentries, exchange \in BOOLEAN : MoveBegin(t, d, e, exchange)
  \/ \E t \in Walkers, d \in Dentries : Snapshot(t, d)
  \/ \E d \in Dentries : Rehash(d) \/ Drop(d) \/ Kill(d)
  \/ \E d \in Dentries, k \in Keys : Alloc(d, k)

Spec == Init /\ [][Next]_vars
-----------------------------------------------------------------------------
(* d_lookup returns NULL only if at some moment of the call the name had no *)
(* entry, although moves carry the walk into other chains, and hide an      *)
(* entry of the very name from it.                                          *)
NoFalseNegative == \A t \in Threads : At(t, "none") => th[t].absent

\* What the caller wants to know of the entry.
Wanted(t) ==
  LET d == th[t].pos IN
  dn[d].hashed /\ dn[d].key = th[t].key /\ dn[d].parent = th[t].key[1]

(* An entry that __d_lookup_rcu returns and whose sequence the caller finds *)
(* unchanged has the parent and the name that were looked for, and is       *)
(* hashed, at that moment: no half of a move is ever believed.              *)
RcuTrue == [][\A t \in Threads : ~ At(t, "valid") /\ At(t, "valid")' => Wanted(t)]_vars

Users(s) == {d \in Dentries : dn[d].state = "live" /\ dn[d].ptr = s}
            \cup {t \in Threads : At(t, "snapshot") /\ th[t].ptr = s}

(* The count of an external name is the number of its entries and           *)
(* snapshots, none of them has the text of another name, and no walk stands *)
(* on an entry or reads a name that was freed under it.                     *)
NamesHeld ==
  /\ \A s \in Storages : /\ ext[s].count = Cardinality(Users(s))
                         /\ Users(s) # {} => ext[s].state = "used"
  /\ \A d \in Dentries : dn[d].state = "live" => Text(d, dn[d].ptr) = dn[d].key[2]
  /\ \A t \in Walking :
       /\ th[t].pos # Nobody => dn[th[t].pos].state # "free"
       /\ At(t, "cmp") /\ th[t].ptr # Inline => ext[th[t].ptr].state # "free"

=============================================================================
