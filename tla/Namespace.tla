------------------------------ MODULE Namespace ------------------------------
(***************************************************************************)
(* What the directories of ouichefs promise to programs: a tree in which a *)
(* name of a directory leads to one inode and an inode has one name.  It   *)
(* has no slots, link counts, bitmap or cache of names.                    *)
(***************************************************************************)
EXTENDS Naturals, FiniteSets

CONSTANTS Root, Inos, Names, Errnos

VARIABLES
  names,   \* the inode behind <<directory, name>>, on the pairs in use
  dirs,    \* the inodes that are directories
  answer   \* what the last call returned: an errno and an inode, or 0

Answer(e, i) == [errno |-> e, ino |-> i]
Used == {names[p] : p \in DOMAIN names}

\* i and everything under it; a tree is no higher than it has inodes.
Under(i) ==
  LET level[k \in Nat] ==
        IF k = 0 THEN {i}
        ELSE LET above == level[k - 1]
             IN  above \cup {names[p] : p \in {q \in DOMAIN names : q[1] \in above}}
  IN  level[Cardinality(Inos)]

Init ==
  /\ names = <<>>
  /\ dirs = {Root}
  /\ answer = Answer("OK", 0)

Bind(d, n, i, isDir) ==
  /\ answer' = Answer("OK", i)
  /\ <<d, n>> \notin DOMAIN names
  /\ i \notin Used \cup {Root}
  /\ names' = [p \in DOMAIN names \cup {<<d, n>>} |->
                 IF p = <<d, n>> THEN i ELSE names[p]]
  /\ dirs' = IF isDir THEN dirs \cup {i} ELSE dirs

\* A directory is removed only when nothing is in it.
Unbind(p) ==
  /\ answer' = Answer("OK", 0)
  /\ \A q \in DOMAIN names : q[1] # names[p]
  /\ names' = [q \in DOMAIN names \ {p} |-> names[q]]
  /\ dirs' = dirs \ {names[p]}

\* A rename replaces nothing, and moves no directory below itself.
Move(p, e, m) ==
  /\ answer' = Answer("OK", 0)
  /\ <<e, m>> \notin DOMAIN names
  /\ e \notin Under(names[p])
  /\ names' = [q \in (DOMAIN names \ {p}) \cup {<<e, m>>} |->
                 IF q = <<e, m>> THEN names[p] ELSE names[q]]
  /\ UNCHANGED dirs

Resolve(d, n) ==
  /\ answer' = Answer("OK", IF <<d, n>> \in DOMAIN names THEN names[d, n] ELSE 0)
  /\ UNCHANGED <<names, dirs>>

Refuse ==
  /\ \E e \in Errnos : answer' = Answer(e, 0)
  /\ UNCHANGED <<names, dirs>>

Next ==
  \/ Refuse
  \/ \E d \in dirs, n \in Names : Resolve(d, n)
  \/ \E i \in Inos, d \in dirs, n \in Names, isDir \in BOOLEAN :
       Bind(d, n, i, isDir)
  \/ \E p \in DOMAIN names : Unbind(p)
  \/ \E p \in DOMAIN names, e \in dirs, m \in Names : Move(p, e, m)

Spec == Init /\ [][Next]_<<names, dirs, answer>>

=============================================================================
