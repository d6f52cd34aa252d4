------------------------------ MODULE FileStore ------------------------------
(***************************************************************************)
(* What ouichefs promises to the programs that use its files: a file is a  *)
(* sequence of bytes, a write inserts its bytes at an offset, a read       *)
(* returns the bytes from an offset on, and a call that returns an error   *)
(* changes no file.  Blocks, index blocks and the bitmap do not exist here.*)
(***************************************************************************)
EXTENDS Integers, Sequences, FiniteSetsExt

CONSTANTS Inodes, Byte, Payloads, Offsets, ReadLens

VARIABLES
  files,  \* the bytes of each file, a function on the files that exist
  ret     \* what the last call returned

Ret(e, bytes) == [errno |-> e, bytes |-> bytes]

Init == files = <<>> /\ ret = Ret("OK", <<>>)

Create(f) ==
  /\ f \notin DOMAIN files
  /\ files' = [g \in DOMAIN files \cup {f} |-> IF g = f THEN <<>> ELSE files[g]]
  /\ ret' = Ret("OK", <<>>)

Remove(f) ==
  /\ f \in DOMAIN files
  /\ files' = [g \in DOMAIN files \ {f} |-> files[g]]
  /\ ret' = Ret("OK", <<>>)

\* e is c with d inserted at off.  A write after the end of the file leaves
\* a gap whose bytes are not specified.
Inserted(c, off, d, e) ==
  IF off =< Len(c)
  THEN e = SubSeq(c, 1, off) \o d \o SubSeq(c, off + 1, Len(c))
  ELSE /\ Len(e) = off + Len(d)
       /\ SubSeq(e, 1, Len(c)) = c
       /\ SubSeq(e, off + 1, Len(e)) = d

Insert(f, off, d) ==
  /\ f \in DOMAIN files
  /\ DOMAIN files' = DOMAIN files
  /\ Inserted(files[f], off, d, files'[f])
  /\ \A g \in DOMAIN files \ {f} : files'[g] = files[g]
  /\ ret' = Ret("OK", <<>>)

Fetch(f, off, len) ==
  /\ f \in DOMAIN files
  /\ off < Len(files[f])
  /\ ret' = Ret("OK", SubSeq(files[f], off + 1, Min({off + len, Len(files[f])})))
  /\ UNCHANGED files

Refuse ==
  /\ \E e \in {"EIO", "ENOSPC", "ESPIPE", "EFBIG", "EFAULT"} : ret' = Ret(e, <<>>)
  /\ UNCHANGED files

Next ==
  \/ \E f \in Inodes :
       \/ Create(f) \/ Remove(f)
       \/ \E off \in Offsets, d \in Payloads : Insert(f, off, d)
       \/ \E off \in Offsets, len \in ReadLens : Fetch(f, off, len)
  \/ Refuse

Spec == Init /\ [][Next]_<<files, ret>>

=============================================================================
