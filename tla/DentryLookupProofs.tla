------------------------- MODULE DentryLookupProofs -------------------------
(***************************************************************************)
(* Theorems about DentryLookup, for any number of entries, directories,    *)
(* names, chains, walkers and movers: a lookup that finds nothing was      *)
(* right at some moment, what __d_lookup_rcu returns with an unchanged     *)
(* sequence is what was looked for, and the users of a name are counted.   *)
(*                                                                         *)
(* A walk is described by the set of entries that it may still reach: the  *)
(* chains, and those taken out of them in the meantime.                    *)
(***************************************************************************)
EXTENDS DentryLookup, SequenceTheorems, FiniteSetTheorems, WellFoundedInduction, TLAPS

-----------------------------------------------------------------------------
(* Types                                                                   *)

Moves == {"unhash", "unhash target", "reparent", "rename", "rehash target", "rehash"}
Reads == {"parent", "key", "stable", "cmp", "got"}
Walks == {"at", "lock", "next"} \cup Reads
Calls == {"seq", "none"} \cup Walks

Entry == [state : {"free", "live", "dying"}, parent : Dirs \cup {Nobody}, key : Keys \cup {Nobody},
          ptr : Storages \cup {Inline}, iname : Names \cup {Nobody}, hashed : BOOLEAN,
          after : Dentries \cup {Nobody}, waits : SUBSET Threads]
External == [state : {"free", "used", "dying"}, text : Names \cup {Nobody}, count : Nat,
             waits : SUBSET Threads]
Thread == [pc : {"idle", "snapshot", "valid"} \cup Calls \cup Moves, rcu : BOOLEAN,
           key : Keys \cup {Nobody}, pos : Dentries \cup {Nobody}, ptr : Storages \cup {Inline},
           still : BOOLEAN, ok : BOOLEAN, absent : BOOLEAN,
           d : Dentries \cup {Nobody}, e : Dentries \cup {Nobody}, exchange : BOOLEAN]

DnTyped == dn \in [Dentries -> Entry]
ExtTyped == ext \in [Storages -> External]
ThTyped == th \in [Threads -> Thread]
LockTyped == rename_lock \in Threads \cup {Nobody}
ChainTyped == chain \in [Chains -> Seq(Dentries)]

\* An entry has one place in one chain at most.
Distinct ==
  \A b, c \in Chains : \A i \in DOMAIN chain[b], j \in DOMAIN chain[c] :
    chain[b][i] = chain[c][j] => b = c /\ i = j

-----------------------------------------------------------------------------
(* Chains                                                                  *)

LEMMA LeastOf ==
  ASSUME NEW S \in SUBSET Nat, S # {}
  PROVE  \E x \in S : \A y \in S : x =< y
<1> DEFINE R == OpToRel(<, Nat)
<1>1. IsWellFoundedOn(R, Nat)
  BY NatLessThanWellFounded
<1>2. \A x, y \in Nat : <<x, y>> \in R <=> x < y
  BY DEF OpToRel
<1> HIDE DEF R
<1>3. PICK x \in S : \A y \in S : ~ (<<y, x>> \in R)
  BY <1>1, WFMin
<1>4. ASSUME NEW y \in S PROVE x =< y
  <2>1. x \in Nat /\ y \in Nat /\ ~ (y < x)
    BY <1>2, <1>3
  <2> QED
    BY <2>1
<1> QED
  BY <1>4

LEMMA InIs ==
  ASSUME ChainTyped, NEW d
  PROVE  InChain(d) <=> \E b \in Chains : \E i \in DOMAIN chain[b] : chain[b][i] = d
<1>1. \A b \in Chains : DOMAIN chain[b] = 1 .. Len(chain[b])
  BY DEF ChainTyped
<1>2. QED
  BY <1>1 DEF InChain, Contains

\* The entry that follows one in a chain.
LEMMA AfterIs ==
  ASSUME ChainTyped, Distinct, NEW b \in Chains, NEW i \in DOMAIN chain[b]
  PROVE  /\ InChain(chain[b][i])
         /\ Place(chain[b][i], chain[b]) = i
         /\ After(chain[b][i]) = IF i = Len(chain[b]) THEN Nobody ELSE chain[b][i + 1]
<1> DEFINE d == chain[b][i]
<1>1. InChain(d)
  BY InIs
<1>2. \A c \in Chains : Contains(chain[c], d) => c = b
  <2>1. \A c \in Chains : DOMAIN chain[c] = 1 .. Len(chain[c])
    BY DEF ChainTyped
  <2>2. QED
    BY <2>1 DEF Distinct, Contains
<1>3. (CHOOSE c \in Chains : Contains(chain[c], d)) = b
  BY <1>1, <1>2 DEF InChain
<1>4. Place(d, chain[b]) = i
  <2>1. \A j \in DOMAIN chain[b] : chain[b][j] = d => j = i
    BY DEF Distinct
  <2>2. QED
    BY <2>1 DEF Place
<1>5. After(d) = IF i = Len(chain[b]) THEN Nobody ELSE chain[b][i + 1]
  <2> DEFINE c == CHOOSE x \in Chains : Contains(chain[x], d)
  <2> HIDE DEF d
  <2>1. After(d) = Follows(d, chain[c])
    BY <1>1 DEF After
  <2>2. c = b
    BY <1>3
  <2> HIDE DEF c
  <2>3. QED
    BY <2>1, <2>2, <1>4 DEF Follows
<1>6. QED
  BY <1>1, <1>4, <1>5

\* The same, of every state and thus of the next one too.
Order ==
  \A b \in Chains : \A i \in DOMAIN chain[b] :
    /\ InChain(chain[b][i])
    /\ After(chain[b][i]) = IF i = Len(chain[b]) THEN Nobody ELSE chain[b][i + 1]
Members == \A d : InChain(d) <=> \E b \in Chains : \E i \in DOMAIN chain[b] : chain[b][i] = d
Others == \A d : ~ InChain(d) => After(d) = dn[d].after

LEMMA Ordered == ChainTyped /\ Distinct => Order /\ Members /\ Others
<1>1. SUFFICES ASSUME ChainTyped, Distinct PROVE Order /\ Members /\ Others
  OBVIOUS
<1>2. Order
  BY <1>1, AfterIs DEF Order
<1>3. Members
  BY <1>1, InIs DEF Members
<1>4. Others
  BY DEF Others, After
<1>5. QED
  BY <1>2, <1>3, <1>4

LEMMA OrderedNext == (ChainTyped /\ Distinct)' => (Order /\ Members /\ Others)'
  BY Ordered, PTL

LEMMA AfterOut ==
  ASSUME NEW d, ~ InChain(d)
  PROVE  After(d) = dn[d].after
  BY DEF After

LEMMA AfterTyped ==
  ASSUME DnTyped, ChainTyped, Distinct, NEW d \in Dentries
  PROVE  After(d) \in Dentries \cup {Nobody}
<1>1. CASE ~ InChain(d)
  BY <1>1, AfterOut DEF DnTyped, Entry
<1>2. CASE InChain(d)
  <2>0. PICK b \in Chains : \E i \in DOMAIN chain[b] : chain[b][i] = d
    BY <1>2, InIs
  <2>1. PICK i \in DOMAIN chain[b] : chain[b][i] = d
    BY <2>0
  <2>2. chain[b] \in Seq(Dentries)
    BY DEF ChainTyped
  <2>3. CASE i = Len(chain[b])
    BY <2>1, <2>3, AfterIs
  <2>4. CASE i # Len(chain[b])
    <3>1. i \in 1 .. Len(chain[b]) /\ Len(chain[b]) \in Nat
      BY <2>2
    <3>2. i + 1 \in 1 .. Len(chain[b])
      BY <3>1, <2>4
    <3>3. chain[b][i + 1] \in Dentries
      BY <2>2, <3>2
    <3>4. After(d) = chain[b][i + 1]
      BY <2>1, <2>4, AfterIs
    <3>5. QED
      BY <3>3, <3>4
  <2>5. QED
    BY <2>3, <2>4
<1>3. QED
  BY <1>1, <1>2

LEMMA FirstTyped ==
  ASSUME ChainTyped, NEW b \in Chains
  PROVE  /\ First(b) \in Dentries \cup {Nobody}
         /\ First(b) # Nobody => 1 \in DOMAIN chain[b] /\ First(b) = chain[b][1]
<1>1. chain[b] \in Seq(Dentries)
  BY DEF ChainTyped
<1>2. CASE chain[b] = <<>>
  BY <1>2 DEF First
<1>3. CASE chain[b] # <<>>
  <2>1. 1 \in DOMAIN chain[b] /\ chain[b][1] \in Dentries
    BY <1>1, <1>3
  <2>2. QED
    BY <2>1, <1>3 DEF First
<1>4. QED
  BY <1>2, <1>3

\* A set that has the first entry of a chain and what follows its own has the chain.
LEMMA FromFirst ==
  ASSUME ChainTyped, Distinct, NEW b \in Chains, NEW S,
         First(b) \in S \cup {Nobody},
         \A i \in DOMAIN chain[b] : chain[b][i] \in S => After(chain[b][i]) \in S \cup {Nobody}
  PROVE  \A i \in DOMAIN chain[b] : chain[b][i] \in S
<1>1. chain[b] \in Seq(Dentries)
  BY DEF ChainTyped
<1> DEFINE s == chain[b]
           Bad == {i \in DOMAIN s : s[i] \notin S}
<1>2. SUFFICES ASSUME Bad # {} PROVE FALSE
  OBVIOUS
<1>3. Bad \in SUBSET Nat
  BY <1>1
<1>4. PICK i \in Bad : \A j \in Bad : i =< j
  BY <1>2, <1>3, LeastOf
<1>5. i \in 1 .. Len(s) /\ Len(s) \in Nat /\ s[i] \notin S /\ s[i] \in Dentries
  BY <1>1, <1>4
<1>6. i # 1
  <2>1. SUFFICES ASSUME i = 1 PROVE FALSE
    OBVIOUS
  <2>2. s # <<>>
    BY <1>5
  <2>3. First(b) = s[1]
    BY <2>2 DEF First
  <2>4. QED
    BY <2>1, <2>3, <1>5, LookupAssumption
<1>7. i - 1 \in 1 .. Len(s) /\ i - 1 # Len(s) /\ (i - 1) + 1 = i /\ ~ (i =< i - 1)
  BY <1>5, <1>6
<1>8. i - 1 \in DOMAIN s
  BY <1>7, <1>1
<1>9. s[i - 1] \in S
  BY <1>4, <1>7, <1>8
<1>10. After(s[i - 1]) = s[i]
  BY <1>7, <1>8, AfterIs
<1>11. QED
  BY <1>5, <1>8, <1>9, <1>10, LookupAssumption

\* Those after the one taken out move up by one place.
LEMMA Without ==
  ASSUME NEW s \in Seq(Dentries), NEW k \in 1 .. Len(s)
  PROVE  /\ RemoveAt(s, k) \in Seq(Dentries)
         /\ Len(RemoveAt(s, k)) = Len(s) - 1
         /\ \A i \in 1 .. Len(s) - 1 : RemoveAt(s, k)[i] = IF i < k THEN s[i] ELSE s[i + 1]
<1> DEFINE a == SubSeq(s, 1, k - 1)
           z == SubSeq(s, k + 1, Len(s))
<1>1. Len(s) \in Nat /\ k \in Nat /\ k =< Len(s) /\ k >= 1
  OBVIOUS
<1>2. /\ a \in Seq(Dentries) /\ Len(a) = k - 1
      /\ \A i \in 1 .. k - 1 : a[i] = s[i]
  BY <1>1
<1>3. /\ z \in Seq(Dentries) /\ Len(z) = Len(s) - k
      /\ \A i \in 1 .. Len(s) - k : z[i] = s[k + i]
  BY <1>1
<1> HIDE DEF a, z
<1>4. a \o z \in Seq(Dentries) /\ Len(a \o z) = Len(s) - 1
  <2>1. a \o z \in Seq(Dentries) /\ Len(a \o z) = Len(a) + Len(z)
    BY <1>2, <1>3, ConcatProperties
  <2>2. Len(a) + Len(z) = Len(s) - 1
    BY <1>1, <1>2, <1>3
  <2>3. QED
    BY <2>1, <2>2
<1>5. ASSUME NEW i \in 1 .. Len(s) - 1
      PROVE  (a \o z)[i] = IF i < k THEN s[i] ELSE s[i + 1]
  <2>1. (a \o z)[i] = IF i =< Len(a) THEN a[i] ELSE z[i - Len(a)]
    BY <1>1, <1>2, <1>3
  <2>2. CASE i < k
    BY <1>1, <1>2, <2>1, <2>2
  <2>3. CASE ~ (i < k)
    <3>0. Len(a) = k - 1 /\ i \in Int /\ i =< Len(s) - 1 /\ i >= k
      BY <1>1, <1>2, <2>3
    <3>1. i - Len(a) = i - k + 1 /\ i - k + 1 \in 1 .. Len(s) - k /\ ~ (i =< Len(a))
      BY <3>0, <1>1
    <3>2. z[i - k + 1] = s[k + (i - k + 1)]
      BY <1>3, <3>1
    <3>3. k + (i - k + 1) = i + 1
      BY <1>1
    <3>4. QED
      BY <2>1, <2>3, <3>1, <3>2, <3>3
  <2>4. QED
    BY <2>2, <2>3
<1>6. QED
  BY <1>4, <1>5 DEF RemoveAt, a, z

\* ___d_drop of a hashed entry: who stood before it stands before what follows it.
LEMMA TakenOut ==
  ASSUME ChainTyped, Distinct, NEW d \in Dentries, dn[d].hashed, NEW b \in Chains,
         b = Chain[dn[d].key], NEW k \in DOMAIN chain[b], chain[b][k] = d, chain' = Drops(d)
  PROVE  /\ ChainTyped' /\ Distinct'
         /\ \A c \in Chains : \A i \in DOMAIN chain'[c] :
              chain'[c][i] # d /\ \E j \in DOMAIN chain[c] : chain'[c][i] = chain[c][j]
         /\ \A y : InChain(y)' <=> InChain(y) /\ y # d
         /\ \A y : InChain(y) /\ y # d => After(y)' = IF After(y) = d THEN After(d) ELSE After(y)
<1> DEFINE s == chain[b]
           n == Len(s)
           r == RemoveAt(s, k)
           f(i) == IF i < k THEN i ELSE i + 1
<1>1. s \in Seq(Dentries) /\ DOMAIN s = 1 .. n /\ n \in Nat /\ k \in 1 .. n
  BY DEF ChainTyped
<1>2. chain' = [chain EXCEPT ![b] = r]
  <2>1. Place(d, s) = k
    BY AfterIs
  <2>2. QED
    BY <2>1 DEF Drops
<1>3. /\ r \in Seq(Dentries) /\ DOMAIN r = 1 .. n - 1 /\ Len(r) = n - 1
      /\ \A i \in 1 .. n - 1 : r[i] = s[f(i)]
  <2>1. /\ r \in Seq(Dentries) /\ Len(r) = n - 1
        /\ \A i \in 1 .. n - 1 : r[i] = IF i < k THEN s[i] ELSE s[i + 1]
    BY <1>1, Without
  <2>2. QED
    BY <2>1
<1>4. chain'[b] = r /\ (\A c \in Chains \ {b} : chain'[c] = chain[c])
  BY <1>2 DEF ChainTyped
<1>5. \A i \in 1 .. n - 1 : f(i) \in 1 .. n /\ f(i) # k
  BY <1>1
<1>6. \A i, j \in 1 .. n - 1 : f(i) = f(j) => i = j
  BY <1>1
<1>7. \A i, j \in 1 .. n : s[i] = s[j] => i = j
  BY <1>1 DEF Distinct
<1> HIDE DEF r
<1>8. ChainTyped'
  BY <1>2, <1>3 DEF ChainTyped
<1>9. \A c \in Chains : \A i \in DOMAIN chain'[c] :
        \E j \in DOMAIN chain[c] : chain'[c][i] = chain[c][j] /\ (c = b => j = f(i) /\ j # k) /\ (c # b => j = i)
  <2> SUFFICES ASSUME NEW c \in Chains, NEW i \in DOMAIN chain'[c]
               PROVE  \E j \in DOMAIN chain[c] : chain'[c][i] = chain[c][j] /\ (c = b => j = f(i) /\ j # k)
                                                 /\ (c # b => j = i)
    OBVIOUS
  <2>1. CASE c = b
    <3>1. i \in 1 .. n - 1
      BY <2>1, <1>3, <1>4
    <3>2. QED
      BY <2>1, <3>1, <1>1, <1>3, <1>4, <1>5
  <2>2. CASE c # b
    BY <2>2, <1>4
  <2>3. QED
    BY <2>1, <2>2
<1>10. Distinct'
  <2> SUFFICES ASSUME NEW c \in Chains, NEW e \in Chains, NEW i \in DOMAIN chain'[c], NEW j \in DOMAIN chain'[e],
                      chain'[c][i] = chain'[e][j]
               PROVE  c = e /\ i = j
    BY DEF Distinct
  <2>1. PICK i1 \in DOMAIN chain[c] : chain'[c][i] = chain[c][i1] /\ (c = b => i1 = f(i)) /\ (c # b => i1 = i)
    BY <1>9
  <2>2. PICK j1 \in DOMAIN chain[e] : chain'[e][j] = chain[e][j1] /\ (e = b => j1 = f(j)) /\ (e # b => j1 = j)
    BY <1>9
  <2>3. c = e /\ i1 = j1
    <3>1. chain[c][i1] = chain[e][j1]
      BY <2>1, <2>2
    <3>2. QED
      BY <3>1 DEF Distinct
  <2>4. c = b => i \in 1 .. n - 1 /\ j \in 1 .. n - 1
    BY <2>3, <1>3, <1>4
  <2>5. QED
    BY <2>1, <2>2, <2>3, <2>4, <1>6
<1>11. \A c \in Chains : \A i \in DOMAIN chain'[c] :
         chain'[c][i] # d /\ \E j \in DOMAIN chain[c] : chain'[c][i] = chain[c][j]
  <2> SUFFICES ASSUME NEW c \in Chains, NEW i \in DOMAIN chain'[c]
               PROVE  chain'[c][i] # d /\ \E j \in DOMAIN chain[c] : chain'[c][i] = chain[c][j]
    OBVIOUS
  <2>1. PICK j \in DOMAIN chain[c] : chain'[c][i] = chain[c][j] /\ (c = b => j # k)
    BY <1>9
  <2>2. chain[c][j] # d
    BY <2>1 DEF Distinct
  <2>3. QED
    BY <2>1, <2>2
<1>12. \A c \in Chains : \A j \in DOMAIN chain[c] : chain[c][j] # d =>
         \E i \in DOMAIN chain'[c] : chain'[c][i] = chain[c][j] /\ (c = b => j = f(i)) /\ (c # b => i = j)
  <2> SUFFICES ASSUME NEW c \in Chains, NEW j \in DOMAIN chain[c], chain[c][j] # d
               PROVE  \E i \in DOMAIN chain'[c] : chain'[c][i] = chain[c][j] /\ (c = b => j = f(i)) /\ (c # b => i = j)
    OBVIOUS
  <2>1. CASE c = b
    <3>1. j # k /\ j \in 1 .. n
      BY <2>1, <1>1
    <3>2. CASE j < k
      <4>1. j \in 1 .. n - 1 /\ f(j) = j
        BY <3>1, <3>2, <1>1
      <4>2. QED
        BY <4>1, <2>1, <1>3, <1>4
    <3>3. CASE ~ (j < k)
      <4>1. j - 1 \in 1 .. n - 1 /\ f(j - 1) = j
        BY <3>1, <3>3, <1>1
      <4>2. QED
        BY <4>1, <2>1, <1>3, <1>4
    <3>4. QED
      BY <3>2, <3>3
  <2>2. CASE c # b
    BY <2>2, <1>4
  <2>3. QED
    BY <2>1, <2>2
<1>13. Order /\ Members /\ Order' /\ Members'
  BY <1>8, <1>10, Ordered, OrderedNext
<1>14. \A y : InChain(y)' <=> InChain(y) /\ y # d
  BY <1>11, <1>12, <1>13 DEF Members
<1>15. \A y : InChain(y) /\ y # d => After(y)' = IF After(y) = d THEN After(d) ELSE After(y)
  <2> SUFFICES ASSUME NEW y, InChain(y), y # d
               PROVE  After(y)' = IF After(y) = d THEN After(d) ELSE After(y)
    OBVIOUS
  <2>1. PICK c \in Chains : \E j \in DOMAIN chain[c] : chain[c][j] = y
    BY <1>13 DEF Members
  <2>2. PICK j \in DOMAIN chain[c] : chain[c][j] = y
    BY <2>1
  <2>3. PICK i \in DOMAIN chain'[c] : chain'[c][i] = y /\ (c = b => j = f(i)) /\ (c # b => i = j)
    BY <2>2, <1>12
  <2>4. After(y)' = IF i = Len(chain'[c]) THEN Nobody ELSE chain'[c][i + 1]
    BY <2>3, <1>13 DEF Order
  <2>5. After(y) = IF j = Len(chain[c]) THEN Nobody ELSE chain[c][j + 1]
    BY <2>2, <1>13 DEF Order
  <2>6. CASE c # b
    <3>1. j + 1 \in DOMAIN chain[c] => chain[c][j + 1] # d
      BY <2>6 DEF Distinct
    <3>2. j # Len(chain[c]) => j + 1 \in DOMAIN chain[c]
      BY DEF ChainTyped
    <3>3. chain'[c] = chain[c] /\ i = j
      BY <2>6, <2>3, <1>4
    <3>4. d # Nobody
      BY LookupAssumption
    <3>5. After(y)' = After(y)
      BY <2>4, <2>5, <3>3
    <3>6. After(y) # d
      BY <2>5, <3>1, <3>2, <3>4
    <3>7. QED
      BY <3>5, <3>6
  <2>7. CASE c = b
    <3>1. i \in 1 .. n - 1 /\ j = f(i)
      BY <2>3, <2>7, <1>3, <1>4
    <3>2. After(d) = IF k = n THEN Nobody ELSE s[k + 1]
      BY <1>13 DEF Order
    <3>3. CASE f(i) + 1 = k
      <4>1. i + 1 = k /\ (i = n - 1 <=> k = n) /\ (i # n - 1 => i + 1 \in 1 .. n - 1 /\ f(i + 1) = k + 1) /\ f(i) # n
        BY <3>1, <3>3, <1>1
      <4>2. After(y) = d
        BY <4>1, <2>5, <2>7, <3>1, <3>3
      <4>3. After(y)' = IF i = n - 1 THEN Nobody ELSE r[i + 1]
        BY <2>4, <2>7, <1>3, <1>4
      <4>4. i # n - 1 => r[i + 1] = s[k + 1]
        BY <4>1, <1>3
      <4>5. QED
        BY <4>1, <4>2, <4>3, <4>4, <3>2
    <3>4. CASE f(i) + 1 # k
      <4>1. (i = n - 1 <=> f(i) = n) /\ (i # n - 1 => i + 1 \in 1 .. n - 1 /\ f(i + 1) = f(i) + 1)
            /\ (f(i) # n => f(i) + 1 \in 1 .. n)
        <5>1. i \in Nat /\ 1 =< i /\ i =< n - 1 /\ k \in Nat /\ 1 =< k /\ k =< n
          BY <3>1, <1>1
        <5>2. CASE i < k
          BY <5>1, <5>2, <3>4, <1>1
        <5>3. CASE ~ (i < k)
          BY <5>1, <5>3, <1>1
        <5>4. QED
          BY <5>2, <5>3
      <4>2. f(i) # n => s[f(i) + 1] # d
        BY <4>1, <3>4, <1>1, <1>7
      <4>3. After(y)' = IF i = n - 1 THEN Nobody ELSE r[i + 1]
        BY <2>4, <2>7, <1>3, <1>4
      <4>4. i # n - 1 => r[i + 1] = s[f(i) + 1]
        BY <4>1, <1>3
      <4>5. After(y) = IF f(i) = n THEN Nobody ELSE s[f(i) + 1]
        BY <2>5, <2>7, <3>1
      <4>6. d # Nobody
        BY LookupAssumption
      <4>7. QED
        BY <4>1, <4>2, <4>3, <4>4, <4>5, <4>6
    <3>5. QED
      BY <3>3, <3>4
  <2>8. QED
    BY <2>6, <2>7
<1>16. QED
  BY <1>8, <1>10, <1>11, <1>14, <1>15

\* __d_rehash: the entry is the first of its chain.
LEMMA PutIn ==
  ASSUME ChainTyped, Distinct, NEW d \in Dentries, ~ InChain(d), NEW b \in Chains,
         b = Chain[dn[d].key], chain' = Rehashes(d)
  PROVE  /\ ChainTyped' /\ Distinct'
         /\ \A c \in Chains : \A i \in DOMAIN chain'[c] :
              (c = b /\ chain'[c][i] = d) \/ \E j \in DOMAIN chain[c] : chain'[c][i] = chain[c][j]
         /\ \A y : InChain(y)' <=> InChain(y) \/ y = d
         /\ \A y : InChain(y) => After(y)' = After(y)
         /\ After(d)' = First(b)
<1> DEFINE s == chain[b]
           n == Len(s)
           r == <<d>> \o s
<1>1. s \in Seq(Dentries) /\ DOMAIN s = 1 .. n /\ n \in Nat
  BY DEF ChainTyped
<1>2. chain' = [chain EXCEPT ![b] = r]
  BY DEF Rehashes
<1>3. /\ r \in Seq(Dentries) /\ DOMAIN r = 1 .. n + 1 /\ Len(r) = n + 1 /\ r[1] = d
      /\ \A i \in 1 .. n : r[i + 1] = s[i]
  <2>1. <<d>> \in Seq(Dentries) /\ Len(<<d>>) = 1
    OBVIOUS
  <2>2. r \in Seq(Dentries) /\ Len(r) = 1 + n
    BY <2>1, <1>1, ConcatProperties
  <2>3. QED
    BY <2>2, <1>1
<1>4. chain'[b] = r /\ (\A c \in Chains \ {b} : chain'[c] = chain[c])
  BY <1>2 DEF ChainTyped
<1> HIDE DEF r
<1>5. ChainTyped'
  BY <1>2, <1>3 DEF ChainTyped
<1>6. \A c \in Chains : \A i \in DOMAIN chain'[c] :
        \/ c = b /\ i = 1 /\ chain'[c][i] = d
        \/ \E j \in DOMAIN chain[c] : chain'[c][i] = chain[c][j] /\ (c = b => j + 1 = i) /\ (c # b => j = i)
  <2> SUFFICES ASSUME NEW c \in Chains, NEW i \in DOMAIN chain'[c], ~ (c = b /\ i = 1)
               PROVE  \E j \in DOMAIN chain[c] : chain'[c][i] = chain[c][j] /\ (c = b => j + 1 = i) /\ (c # b => j = i)
    BY <1>3, <1>4
  <2>1. CASE c = b
    <3>1. i \in 1 .. n + 1 /\ i - 1 \in 1 .. n /\ (i - 1) + 1 = i
      BY <2>1, <1>1, <1>3, <1>4
    <3>2. r[(i - 1) + 1] = s[i - 1]
      BY <3>1, <1>3
    <3>3. QED
      BY <2>1, <3>1, <3>2, <1>1, <1>4
  <2>2. CASE c # b
    BY <2>2, <1>4
  <2>3. QED
    BY <2>1, <2>2
<1>7. \A c \in Chains : \A j \in DOMAIN chain[c] :
        \E i \in DOMAIN chain'[c] : chain'[c][i] = chain[c][j] /\ (c = b => i = j + 1) /\ (c # b => i = j)
  <2> SUFFICES ASSUME NEW c \in Chains, NEW j \in DOMAIN chain[c]
               PROVE  \E i \in DOMAIN chain'[c] : chain'[c][i] = chain[c][j] /\ (c = b => i = j + 1) /\ (c # b => i = j)
    OBVIOUS
  <2>1. CASE c = b
    <3>1. j \in 1 .. n /\ j + 1 \in 1 .. n + 1
      BY <2>1, <1>1
    <3>2. QED
      BY <2>1, <3>1, <1>3, <1>4
  <2>2. CASE c # b
    BY <2>2, <1>4
  <2>3. QED
    BY <2>1, <2>2
<1>8. Members
  BY Ordered
<1>9. \A c \in Chains : \A j \in DOMAIN chain[c] : chain[c][j] # d
  BY <1>8 DEF Members
<1>10. Distinct'
  <2> SUFFICES ASSUME NEW c \in Chains, NEW e \in Chains, NEW i \in DOMAIN chain'[c], NEW j \in DOMAIN chain'[e],
                      chain'[c][i] = chain'[e][j]
               PROVE  c = e /\ i = j
    BY DEF Distinct
  <2>1. CASE chain'[c][i] = d
    <3>1. c = b /\ i = 1
      BY <2>1, <1>6, <1>9
    <3>2. e = b /\ j = 1
      BY <2>1, <1>6, <1>9
    <3>3. QED
      BY <3>1, <3>2
  <2>2. CASE chain'[c][i] # d
    <3>1. PICK i1 \in DOMAIN chain[c] : chain'[c][i] = chain[c][i1] /\ (c = b => i1 + 1 = i) /\ (c # b => i1 = i)
      BY <2>2, <1>6
    <3>2. PICK j1 \in DOMAIN chain[e] : chain'[e][j] = chain[e][j1] /\ (e = b => j1 + 1 = j) /\ (e # b => j1 = j)
      BY <2>2, <1>6
    <3>3. c = e /\ i1 = j1
      <4>1. chain[c][i1] = chain[e][j1]
        BY <3>1, <3>2
      <4>2. QED
        BY <4>1 DEF Distinct
    <3>4. QED
      BY <3>1, <3>2, <3>3
  <2>3. QED
    BY <2>1, <2>2
<1>11. Order /\ Order' /\ Members'
  BY <1>5, <1>10, Ordered, OrderedNext
<1>12. InChain(d)' /\ 1 \in DOMAIN chain'[b] /\ chain'[b][1] = d
  BY <1>1, <1>3, <1>4, <1>11 DEF Members
<1>13. \A y : InChain(y)' <=> InChain(y) \/ y = d
  <2>1. \A y : InChain(y)' => InChain(y) \/ y = d
    BY <1>6, <1>8, <1>11 DEF Members
  <2>2. \A y : InChain(y) => InChain(y)'
    BY <1>7, <1>8, <1>11 DEF Members
  <2>3. QED
    BY <2>1, <2>2, <1>12
<1>14. \A y : InChain(y) => After(y)' = After(y)
  <2> SUFFICES ASSUME NEW y, InChain(y) PROVE After(y)' = After(y)
    OBVIOUS
  <2>1. PICK c \in Chains : \E j \in DOMAIN chain[c] : chain[c][j] = y
    BY <1>8 DEF Members
  <2>2. PICK j \in DOMAIN chain[c] : chain[c][j] = y
    BY <2>1
  <2>3. PICK i \in DOMAIN chain'[c] : chain'[c][i] = y /\ (c = b => i = j + 1) /\ (c # b => i = j)
    BY <2>2, <1>7
  <2>4. After(y)' = IF i = Len(chain'[c]) THEN Nobody ELSE chain'[c][i + 1]
    BY <2>3, <1>11 DEF Order
  <2>5. After(y) = IF j = Len(chain[c]) THEN Nobody ELSE chain[c][j + 1]
    BY <2>2, <1>11 DEF Order
  <2>6. CASE c # b
    <3>1. chain'[c] = chain[c] /\ i = j
      BY <2>6, <2>3, <1>4
    <3>2. QED
      BY <2>4, <2>5, <3>1
  <2>7. CASE c = b
    <3>1. j \in 1 .. n /\ i = j + 1
      BY <2>3, <2>7, <1>1
    <3>2. (i = n + 1 <=> j = n) /\ (j # n => j + 1 \in 1 .. n)
      BY <3>1, <1>1
    <3>3. j # n => r[i + 1] = s[j + 1]
      BY <3>1, <3>2, <1>3
    <3>4. After(y)' = IF i = n + 1 THEN Nobody ELSE r[i + 1]
      BY <2>4, <2>7, <1>3, <1>4
    <3>5. After(y) = IF j = n THEN Nobody ELSE s[j + 1]
      BY <2>5, <2>7
    <3>6. QED
      BY <3>2, <3>3, <3>4, <3>5
  <2>8. QED
    BY <2>6, <2>7
<1>15. After(d)' = First(b)
  <2>1. After(d)' = IF 1 = n + 1 THEN Nobody ELSE r[1 + 1]
    <3>1. ASSUME NEW y, NEW i \in DOMAIN chain'[b], chain'[b][i] = y
          PROVE  After(y)' = IF i = Len(chain'[b]) THEN Nobody ELSE chain'[b][i + 1]
      BY <3>1, <1>11 DEF Order
    <3>2. After(d)' = IF 1 = Len(chain'[b]) THEN Nobody ELSE chain'[b][1 + 1]
      BY <3>1, <1>12
    <3>3. QED
      BY <3>2, <1>3, <1>4
  <2>2. CASE n = 0
    <3>1. s = <<>>
      BY <2>2, <1>1
    <3>2. QED
      BY <2>1, <2>2, <3>1 DEF First
  <2>3. CASE n # 0
    <3>1. s # <<>> /\ 1 \in 1 .. n /\ 1 # n + 1
      BY <2>3, <1>1
    <3>2. r[1 + 1] = s[1]
      BY <3>1, <1>3
    <3>3. QED
      BY <2>1, <3>1, <3>2 DEF First
  <2>4. QED
    BY <2>2, <2>3
<1>16. \A c \in Chains : \A i \in DOMAIN chain'[c] :
         (c = b /\ chain'[c][i] = d) \/ \E j \in DOMAIN chain[c] : chain'[c][i] = chain[c][j]
  BY <1>6
<1>17. QED
  BY <1>5, <1>10, <1>13, <1>14, <1>15, <1>16

-----------------------------------------------------------------------------
(* The invariant                                                           *)

Moving(t) == th[t].pc \in Moves

\* What the place of a thread says about its local variables.
LocalOf(t) ==
  /\ th[t].pc \in Calls \cup {"valid"} => th[t].key \in Keys
  /\ th[t].key # Nobody => th[t].pc \in Calls \cup {"valid"}
  /\ th[t].pc \in {"lock", "next"} \cup Reads => th[t].pos \in Dentries
  /\ th[t].pc \in Reads => th[t].rcu
  /\ th[t].pc \in {"seq", "lock", "none"} => ~ th[t].rcu
  /\ At(t, "snapshot") => th[t].ptr \in Storages
  /\ Moving(t) <=> rename_lock = t
  /\ th[t].still => rename_lock = Nobody
  /\ Moving(t) => th[t].d \in Dentries /\ th[t].e \in Dentries /\ th[t].d # th[t].e
  /\ At(t, "rehash target") => th[t].exchange
  /\ th[t].ok => th[t].rcu

\* An entry is unlocked between its two names only; who waits for it walks.
EntryOf(d) ==
  /\ dn[d].state # "free" => dn[d].key \in Keys
  /\ dn[d].state # "dying" => dn[d].waits = {}
  /\ dn[d].state = "dying" => dn[d].waits # {}
  /\ dn[d].waits \subseteq Walking
  /\ dn[d].hashed => dn[d].state = "live"
  /\ Locked(d) => dn[d].state = "live"
  /\ dn[d].state = "live" /\ ~ Locked(d) => dn[d].parent = dn[d].key[1]

\* What a move has taken out of its chain.
Gone(t) ==
  CASE th[t].pc \in {"unhash target", "rehash"} -> {th[t].d}
    [] th[t].pc \in {"reparent", "rename", "rehash target"} -> {th[t].d, th[t].e}
    [] OTHER -> {}
Out(d) == \E t \in Threads : d \in Gone(t)

\* The chains have the hashed entries.
Placed ==
  /\ \A b \in Chains : \A i \in DOMAIN chain[b] :
       dn[chain[b][i]].hashed /\ ~ Out(chain[b][i]) /\ Chain[dn[chain[b][i]].key] = b
  /\ \A d \in Dentries : dn[d].hashed /\ ~ Out(d) => InChain(d)

\* A name has one hashed entry, and what a move will hash stays the only one.
MoveAlone(t) ==
  /\ th[t].exchange => dn[th[t].d].hashed /\ dn[th[t].e].hashed
  /\ ~ th[t].exchange =>
       /\ \A x \in Dentries \ {th[t].d, th[t].e} : dn[x].hashed => dn[x].key # dn[th[t].e].key
       /\ At(t, "rehash") => ~ dn[th[t].e].hashed /\ dn[th[t].d].key = dn[th[t].e].key
OneHashed ==
  /\ \A x, y \in Dentries : dn[x].hashed /\ dn[y].hashed /\ dn[x].key = dn[y].key => x = y
  /\ \A t \in Threads : Moving(t) => MoveAlone(t)

\* The parents of a move: those of the names, but for the step between the two.
ParentsOf(t) ==
  LET d == th[t].d
      e == th[t].e
  IN  Moving(t) =>
        IF At(t, "rename")
        THEN /\ dn[d].parent = dn[e].key[1]
             /\ dn[e].parent = IF th[t].exchange THEN dn[d].key[1] ELSE dn[e].key[1]
        ELSE dn[d].parent = dn[d].key[1] /\ dn[e].parent = dn[e].key[1]

CountedName(s) ==
  /\ ext[s].count = Cardinality(Users(s))
  /\ Users(s) # {} => ext[s].state = "used"
  /\ ext[s].state # "dying" => ext[s].waits = {}

TextOf(d) == dn[d].state = "live" => Text(d, dn[d].ptr) = dn[d].key[2]

\* What a walk may stand on, and read.
Alive(t, d) == dn[d].state = "live" \/ t \in dn[d].waits
NameAlive(t, s) == s = Inline \/ ext[s].state = "used" \/ t \in ext[s].waits

\* What the walk of t may reach is in S, and has its name in the chains B.
Around(t, B, S) ==
  /\ th[t].pos \in S \cup {Nobody}
  /\ \A b \in B : \A i \in DOMAIN chain[b] : chain[b][i] \in S
  /\ \A d \in S : Alive(t, d) /\ Chain[dn[d].key] \in B /\ After(d) \in S \cup {Nobody}
Surrounded(t, B) == \E S \in SUBSET Dentries : Around(t, B, S)

\* A walk beside no move.
Steady(t) == th[t].still /\ ~ th[t].rcu

ReachOf(t) ==
  t \in Walking =>
    /\ Surrounded(t, Chains)
    /\ Steady(t) => Surrounded(t, {Chain[th[t].key]})
NamesOf(t) ==
  t \in Walking =>
    /\ \A d \in Dentries : Alive(t, d) => NameAlive(t, dn[d].ptr)
    /\ At(t, "cmp") => NameAlive(t, th[t].ptr)

\* While the sequence of an entry has not changed, what was read of it is so.
SequenceOf(t) ==
  th[t].ok =>
    /\ th[t].pos \in Dentries /\ ~ Locked(th[t].pos)
    /\ th[t].pc \in {"key", "stable", "cmp", "got"} =>
         dn[th[t].pos].hashed /\ dn[th[t].pos].parent = th[t].key[1]
    /\ th[t].pc \in {"stable", "cmp"} => th[t].ptr = dn[th[t].pos].ptr
    /\ At(t, "got") => dn[th[t].pos].key = th[t].key

PresentOf(t) == th[t].pc \in Calls /\ ~ th[t].rcu /\ ~ th[t].absent => Present(th[t].key)

\* The walk that goes on from p comes to x.
Leads(p, x) ==
  \A S \in SUBSET Dentries : p \in S /\ (\A y \in S : After(y) \in S \cup {Nobody}) => x \in S
AheadOf(t) ==
  t \in Walking /\ Steady(t) /\ ~ th[t].absent =>
    \E x \in Dentries :
      /\ dn[x].hashed /\ dn[x].key = th[t].key
      /\ th[t].pos \in Dentries /\ Leads(th[t].pos, x)
      /\ At(t, "next") => th[t].pos # x
NoneOf(t) == At(t, "none") => th[t].absent

Typed == DnTyped /\ ExtTyped /\ ThTyped /\ LockTyped /\ ChainTyped
Table == Distinct /\ Placed /\ OneHashed
ThreadInv(t) == LocalOf(t) /\ ReachOf(t) /\ NamesOf(t) /\ SequenceOf(t) /\ PresentOf(t) /\ AheadOf(t) /\ NoneOf(t)
LookupInv ==
  /\ Typed
  /\ \A d \in Dentries : EntryOf(d) /\ TextOf(d)
  /\ Table
  /\ \A s \in Storages : CountedName(s)
  /\ \A t \in Threads : ThreadInv(t) /\ ParentsOf(t)

-----------------------------------------------------------------------------
(* The set around a walk, and where it leads, when entries leave a chain   *)
(* or come into one.                                                       *)

LEMMA InOrOut ==
  ASSUME ChainTyped, Distinct, NEW d \in Dentries, InChain(d), After(d) # Nobody
  PROVE  InChain(After(d))
<1>1. Order /\ Members
  BY Ordered
<1>2. PICK b \in Chains : \E i \in DOMAIN chain[b] : chain[b][i] = d
  BY <1>1 DEF Members
<1>3. PICK i \in DOMAIN chain[b] : chain[b][i] = d
  BY <1>2
<1>4. After(d) = chain[b][i + 1] /\ i # Len(chain[b])
  BY <1>1, <1>3 DEF Order
<1>5. i + 1 \in DOMAIN chain[b]
  BY <1>4 DEF ChainTyped
<1>6. QED
  BY <1>1, <1>4, <1>5 DEF Members

\* Nothing that the walk may reach has changed its place.
AfterSame(t) == \A y \in Dentries : Alive(t, y) => After(y)' = After(y)
\* d has left its chain, but who stands on it goes on.
AfterDrop(d) ==
  /\ After(d)' = After(d)
  /\ \A y \in Dentries \ {d} : After(y)' = IF InChain(y) /\ After(y) = d THEN After(d) ELSE After(y)
\* d is the first of the chain b.
AfterPut(d, b) ==
  /\ After(d)' = First(b)
  /\ \A y \in Dentries \ {d} : After(y)' = After(y)
\* What the walk may reach stays.
StaysAlive(t) == \A y \in Dentries : Alive(t, y) => Alive(t, y)' /\ dn'[y].key = dn[y].key

LEMMA SurroundedSame ==
  ASSUME NEW t \in Threads, NEW B, Surrounded(t, B), th'[t].pos = th[t].pos, StaysAlive(t), AfterSame(t),
         \A b \in B : \A i \in DOMAIN chain'[b] : \E j \in DOMAIN chain[b] : chain'[b][i] = chain[b][j]
  PROVE  Surrounded(t, B)'
<1>1. PICK S \in SUBSET Dentries : Around(t, B, S)
  BY DEF Surrounded
<1>2. th'[t].pos \in S \cup {Nobody}
  BY <1>1 DEF Around
<1>3. \A b \in B : \A i \in DOMAIN chain'[b] : chain'[b][i] \in S
  BY <1>1 DEF Around
<1>4. ASSUME NEW d \in S
      PROVE  Alive(t, d)' /\ Chain[dn'[d].key] \in B /\ After(d)' \in S \cup {Nobody}
  <2>1. Alive(t, d) /\ Chain[dn[d].key] \in B /\ After(d) \in S \cup {Nobody}
    BY <1>1 DEF Around
  <2>2. Alive(t, d)' /\ dn'[d].key = dn[d].key /\ After(d)' = After(d)
    BY <2>1 DEF StaysAlive, AfterSame
  <2>3. QED
    BY <2>1, <2>2
<1>5. QED
  BY <1>2, <1>3, <1>4 DEF Surrounded, Around

LEMMA SurroundedDrop ==
  ASSUME NEW t \in Threads, NEW B, Surrounded(t, B), th'[t].pos = th[t].pos, StaysAlive(t),
         NEW d \in Dentries, AfterDrop(d),
         \A b \in B : \A i \in DOMAIN chain'[b] : \E j \in DOMAIN chain[b] : chain'[b][i] = chain[b][j]
  PROVE  Surrounded(t, B)'
<1>1. PICK S \in SUBSET Dentries : Around(t, B, S)
  BY DEF Surrounded
<1>2. th'[t].pos \in S \cup {Nobody}
  BY <1>1 DEF Around
<1>3. \A b \in B : \A i \in DOMAIN chain'[b] : chain'[b][i] \in S
  BY <1>1 DEF Around
<1>4. \A y \in S : Alive(t, y) /\ Chain[dn[y].key] \in B /\ After(y) \in S \cup {Nobody}
  BY <1>1 DEF Around
<1>5. ASSUME NEW y \in S
      PROVE  Alive(t, y)' /\ Chain[dn'[y].key] \in B /\ After(y)' \in S \cup {Nobody}
  <2>1. Alive(t, y)' /\ dn'[y].key = dn[y].key
    BY <1>4 DEF StaysAlive
  <2>2. After(y)' \in S \cup {Nobody}
    <3>1. CASE y = d
      BY <3>1, <1>4 DEF AfterDrop
    <3>2. CASE y # d /\ After(y) = d /\ InChain(y)
      <4>1. d \in S
        BY <3>2, <1>4, LookupAssumption
      <4>2. After(y)' = After(d)
        BY <3>2 DEF AfterDrop
      <4>3. QED
        BY <4>1, <4>2, <1>4
    <3>3. CASE y # d /\ ~ (After(y) = d /\ InChain(y))
      <4>1. After(y)' = After(y)
        BY <3>3 DEF AfterDrop
      <4>2. QED
        BY <4>1, <1>4
    <3>4. QED
      BY <3>1, <3>2, <3>3
  <2>3. QED
    BY <2>1, <2>2, <1>4
<1>6. QED
  BY <1>2, <1>3, <1>5 DEF Surrounded, Around

LEMMA SurroundedPut ==
  ASSUME NEW t \in Threads, NEW B, Surrounded(t, B), th'[t].pos = th[t].pos, StaysAlive(t), ChainTyped,
         NEW d \in Dentries, Alive(t, d), NEW b \in Chains, b = Chain[dn[d].key], AfterPut(d, b),
         \A c \in B : \A i \in DOMAIN chain'[c] :
           (c = b /\ chain'[c][i] = d) \/ \E j \in DOMAIN chain[c] : chain'[c][i] = chain[c][j]
  PROVE  Surrounded(t, B)'
<1>1. PICK S \in SUBSET Dentries : Around(t, B, S)
  BY DEF Surrounded
<1>2. \A y \in S : Alive(t, y) /\ Chain[dn[y].key] \in B /\ After(y) \in S \cup {Nobody}
  BY <1>1 DEF Around
<1>3. \A c \in B : \A j \in DOMAIN chain[c] : chain[c][j] \in S
  BY <1>1 DEF Around
<1> DEFINE T == IF b \in B THEN S \cup {d} ELSE S
<1>4. th'[t].pos \in T \cup {Nobody}
  BY <1>1 DEF Around
<1>5. \A c \in B : \A i \in DOMAIN chain'[c] : chain'[c][i] \in T
  BY <1>3
<1>6. ASSUME NEW y \in T
      PROVE  Alive(t, y)' /\ Chain[dn'[y].key] \in B /\ After(y)' \in T \cup {Nobody}
  <2>1. Alive(t, y) /\ Chain[dn[y].key] \in B /\ y \in Dentries
    BY <1>2
  <2>2. Alive(t, y)' /\ dn'[y].key = dn[y].key
    BY <2>1 DEF StaysAlive
  <2>3. CASE y = d
    <3>1. b \in B
      BY <2>1, <2>3
    <3>2. First(b) \in S \cup {Nobody}
      BY <3>1, <1>3, FirstTyped
    <3>3. After(y)' = First(b)
      BY <2>3 DEF AfterPut
    <3>4. QED
      BY <2>1, <2>2, <3>2, <3>3
  <2>4. CASE y # d
    <3>1. y \in S
      BY <2>4
    <3>2. After(y)' = After(y)
      BY <2>4, <2>1 DEF AfterPut
    <3>3. QED
      BY <2>1, <2>2, <3>1, <3>2, <1>2
  <2>5. QED
    BY <2>3, <2>4
<1>7. T \in SUBSET Dentries
  OBVIOUS
<1> HIDE DEF T
<1>8. QED
  BY <1>4, <1>5, <1>6, <1>7 DEF Surrounded, Around

LEMMA LeadsSame ==
  ASSUME NEW t \in Threads, NEW B, Surrounded(t, B), AfterSame(t),
         NEW p \in Dentries, p = th[t].pos, NEW x \in Dentries, Leads(p, x)
  PROVE  Leads(p, x)'
<1>1. PICK A \in SUBSET Dentries : Around(t, B, A)
  BY DEF Surrounded
<1>2. p \in A /\ \A y \in A : Alive(t, y) /\ After(y) \in A \cup {Nobody}
  BY <1>1, LookupAssumption DEF Around
<1>3. SUFFICES ASSUME NEW S \in SUBSET Dentries, p \in S, \A y \in S : After(y)' \in S \cup {Nobody}
               PROVE  x \in S
  BY DEF Leads
<1> DEFINE T == S \cap A
<1>4. T \in SUBSET Dentries /\ p \in T
  BY <1>2, <1>3
<1>5. ASSUME NEW y \in T PROVE After(y) \in T \cup {Nobody}
  <2>1. After(y)' = After(y)
    BY <1>2 DEF AfterSame
  <2>2. QED
    BY <2>1, <1>2, <1>3
<1> HIDE DEF T
<1>6. x \in T
  BY <1>4, <1>5 DEF Leads
<1>7. QED
  BY <1>6 DEF T

LEMMA LeadsDrop ==
  ASSUME NEW d \in Dentries, AfterDrop(d), NEW p \in Dentries, NEW x \in Dentries, x # d, Leads(p, x)
  PROVE  Leads(p, x)'
<1>1. SUFFICES ASSUME NEW S \in SUBSET Dentries, p \in S, \A y \in S : After(y)' \in S \cup {Nobody}
               PROVE  x \in S
  BY DEF Leads
<1> DEFINE T == IF \E y \in S \ {d} : InChain(y) /\ After(y) = d THEN S \cup {d} ELSE S
<1>2. T \in SUBSET Dentries /\ p \in T
  BY <1>1
<1>3. ASSUME NEW y \in T PROVE After(y) \in T \cup {Nobody}
  <2>1. CASE y = d /\ d \in S
    <3>1. After(y)' = After(y)
      BY <2>1 DEF AfterDrop
    <3>2. QED
      BY <2>1, <3>1, <1>1
  <2>2. CASE y = d /\ d \notin S
    <3>1. PICK z \in S \ {d} : InChain(z) /\ After(z) = d
      BY <2>2
    <3>2. After(z)' = After(d)
      BY <3>1 DEF AfterDrop
    <3>3. QED
      BY <2>2, <3>1, <3>2, <1>1
  <2>3. CASE y # d /\ InChain(y) /\ After(y) = d
    BY <2>3
  <2>4. CASE y # d /\ ~ (InChain(y) /\ After(y) = d)
    <3>1. After(y)' = After(y) /\ y \in S
      BY <2>4 DEF AfterDrop
    <3>2. QED
      BY <3>1, <1>1
  <2>5. QED
    BY <2>1, <2>2, <2>3, <2>4
<1>4. x \in T
  <2> HIDE DEF T
  <2>1. QED
    BY <1>2, <1>3 DEF Leads
<1>5. QED
  BY <1>4

LEMMA LeadsPut ==
  ASSUME NEW t \in Threads, NEW b \in Chains, Surrounded(t, {b}), ChainTyped, Distinct,
         NEW d \in Dentries, ~ InChain(d), AfterPut(d, Chain[dn[d].key]),
         NEW p \in Dentries, p = th[t].pos, NEW x \in Dentries, Leads(p, x),
         NEW k \in DOMAIN chain[b], chain[b][k] = x
  PROVE  Leads(p, x)'
<1>1. PICK A \in SUBSET Dentries : Around(t, {b}, A)
  BY DEF Surrounded
<1>2. p \in A /\ \A y \in A : Chain[dn[y].key] = b /\ After(y) \in A \cup {Nobody}
  BY <1>1, LookupAssumption DEF Around
<1>3. SUFFICES ASSUME NEW S \in SUBSET Dentries, p \in S, \A y \in S : After(y)' \in S \cup {Nobody}
               PROVE  x \in S
  BY DEF Leads
<1>4. Members
  BY Ordered
<1>5. \A i \in DOMAIN chain[b] : chain[b][i] # d /\ chain[b][i] \in Dentries
  BY <1>4 DEF Members, ChainTyped
<1>6. CASE d \in S \cap A
  <2>1. First(b) \in S \cup {Nobody}
    <3>1. After(d)' = First(b)
      BY <1>6, <1>2 DEF AfterPut
    <3>2. QED
      BY <3>1, <1>3, <1>6
  <2>2. \A i \in DOMAIN chain[b] : chain[b][i] \in S => After(chain[b][i]) \in S \cup {Nobody}
    <3> SUFFICES ASSUME NEW i \in DOMAIN chain[b], chain[b][i] \in S
                 PROVE  After(chain[b][i]) \in S \cup {Nobody}
      OBVIOUS
    <3>1. PICK y \in S : y = chain[b][i]
      OBVIOUS
    <3>2. After(y)' = After(y)
      BY <3>1, <1>5 DEF AfterPut
    <3>3. After(y) \in S \cup {Nobody}
      BY <3>2, <1>3
    <3>4. QED
      BY <3>1, <3>3
  <2>3. QED
    BY <2>1, <2>2, FromFirst
<1>7. CASE d \notin S \cap A
  <2> DEFINE T == S \cap A
  <2>1. T \in SUBSET Dentries /\ p \in T
    BY <1>2, <1>3
  <2>2. ASSUME NEW y \in T PROVE After(y) \in T \cup {Nobody}
    <3>1. After(y)' = After(y)
      BY <1>7 DEF AfterPut
    <3>2. QED
      BY <3>1, <1>2, <1>3
  <2> HIDE DEF T
  <2>3. x \in T
    BY <2>1, <2>2 DEF Leads
  <2>4. QED
    BY <2>3 DEF T
<1>8. QED
  BY <1>6, <1>7

\* One step of the walk.
LEMMA LeadsOn ==
  ASSUME NEW p \in Dentries, NEW x \in Dentries, x # p, Leads(p, x), After(p) \in Dentries \cup {Nobody}
  PROVE  After(p) \in Dentries /\ Leads(After(p), x)
<1>1. After(p) \in Dentries
  <2>1. SUFFICES ASSUME After(p) = Nobody PROVE FALSE
    OBVIOUS
  <2>2. x \in {p}
    BY <2>1 DEF Leads
  <2>3. QED
    BY <2>2
<1>2. ASSUME NEW S \in SUBSET Dentries, After(p) \in S, \A y \in S : After(y) \in S \cup {Nobody}
      PROVE  x \in S
  <2> DEFINE T == S \cup {p}
  <2>1. T \in SUBSET Dentries /\ p \in T
    OBVIOUS
  <2>2. \A y \in T : After(y) \in T \cup {Nobody}
    BY <1>2
  <2> HIDE DEF T
  <2>3. x \in T
    BY <2>1, <2>2 DEF Leads
  <2>4. QED
    BY <2>3 DEF T
<1>3. QED
  BY <1>1, <1>2 DEF Leads

\* Where a walk begins.
LEMMA LeadsFirst ==
  ASSUME ChainTyped, Distinct, NEW b \in Chains, NEW k \in DOMAIN chain[b]
  PROVE  First(b) \in Dentries /\ Leads(First(b), chain[b][k])
<1>1. chain[b] \in Seq(Dentries) /\ chain[b] # <<>>
  BY DEF ChainTyped
<1>2. First(b) \in Dentries
  BY <1>1 DEF First
<1>3. ASSUME NEW S \in SUBSET Dentries, First(b) \in S, \A y \in S : After(y) \in S \cup {Nobody}
      PROVE  chain[b][k] \in S
  BY <1>3, FromFirst
<1>4. QED
  BY <1>2, <1>3 DEF Leads

-----------------------------------------------------------------------------
(* What keeps the parts of the invariant.                                  *)

LEMMA MoverAlone ==
  ASSUME \A t \in Threads : LocalOf(t), NEW t \in Threads, NEW u \in Threads, Moving(t), Moving(u)
  PROVE  t = u
  BY DEF LocalOf

\* Without a move nothing is locked and nothing is out of its chain.
LEMMA NoMove ==
  ASSUME \A t \in Threads : LocalOf(t), rename_lock = Nobody
  PROVE  /\ \A u \in Threads : ~ Moving(u)
         /\ \A d : ~ Locked(d) /\ ~ Out(d)
<1>1. \A u \in Threads : ~ Moving(u)
  BY LookupAssumption DEF LocalOf
<1>2. ASSUME NEW u \in Threads PROVE Moved(u) = {} /\ Gone(u) = {}
  BY <1>1 DEF Moved, Gone, Moving, Moves
<1>3. QED
  BY <1>1, <1>2 DEF Locked, Out

LEMMA HashedLive ==
  ASSUME LookupInv
  PROVE  \A d \in Dentries : dn[d].hashed => dn[d].state = "live"
  BY DEF LookupInv, EntryOf

\* What is hashed and not between two chains has a place in its own.
LEMMA HasPlace ==
  ASSUME LookupInv, NEW d \in Dentries, dn[d].hashed, ~ Out(d)
  PROVE  /\ dn[d].key \in Keys /\ Chain[dn[d].key] \in Chains /\ InChain(d)
         /\ \E k \in DOMAIN chain[Chain[dn[d].key]] : chain[Chain[dn[d].key]][k] = d
<1>1. dn[d].key \in Keys
  BY DEF LookupInv, EntryOf
<1>2. Chain[dn[d].key] \in Chains
  BY <1>1, LookupAssumption
<1>3. InChain(d)
  BY DEF LookupInv, Table, Placed
<1>4. Members
  BY Ordered DEF LookupInv, Typed, Table
<1>5. PICK b \in Chains : \E k \in DOMAIN chain[b] : chain[b][k] = d
  BY <1>3, <1>4 DEF Members
<1>6. b = Chain[dn[d].key]
  BY <1>5 DEF LookupInv, Table, Placed
<1>7. QED
  BY <1>1, <1>2, <1>3, <1>5, <1>6

\* The entries of the chains are hashed.
LEMMA ChainHashed ==
  ASSUME LookupInv, NEW d, InChain(d)
  PROVE  d \in Dentries /\ dn[d].hashed /\ ~ Out(d)
<1>1. Members
  BY Ordered DEF LookupInv, Typed, Table
<1>2. PICK b \in Chains : \E k \in DOMAIN chain[b] : chain[b][k] = d
  BY <1>1 DEF Members
<1>3. PICK k \in DOMAIN chain[b] : chain[b][k] = d
  BY <1>2
<1>4. d \in Dentries
  BY <1>3 DEF LookupInv, Typed, ChainTyped
<1>5. QED
  BY <1>3, <1>4 DEF LookupInv, Table, Placed

\* ___d_drop
LEMMA Dropped ==
  ASSUME LookupInv, NEW d \in Dentries, ~ Out(d), chain' = Drops(d)
  PROVE  /\ ChainTyped' /\ Distinct'
         /\ \A c \in Chains : \A i \in DOMAIN chain'[c] :
              chain'[c][i] # d /\ \E j \in DOMAIN chain[c] : chain'[c][i] = chain[c][j]
         /\ \A y : InChain(y)' <=> InChain(y) /\ y # d
         /\ \A y : InChain(y) /\ y # d => After(y)' = IF After(y) = d THEN After(d) ELSE After(y)
<1>1. ChainTyped /\ Distinct
  BY DEF LookupInv, Typed, Table
<1>2. CASE dn[d].hashed
  <2>1. PICK b \in Chains : b = Chain[dn[d].key]
    BY <1>2, HasPlace
  <2>2. PICK k \in DOMAIN chain[b] : chain[b][k] = d
    BY <1>2, <2>1, HasPlace
  <2>3. QED
    BY <1>1, <1>2, <2>1, <2>2, TakenOut
<1>3. CASE ~ dn[d].hashed
  <2>1. chain' = chain
    BY <1>3 DEF Drops
  <2>2. ChainTyped' /\ Distinct'
    BY <1>1, <2>1 DEF ChainTyped, Distinct
  <2>3. ~ InChain(d)
    BY <1>3, ChainHashed
  <2>4. Order /\ Members /\ Order' /\ Members'
    BY <1>1, <2>2, Ordered, OrderedNext
  <2>5. \A c \in Chains : \A i \in DOMAIN chain'[c] :
          chain'[c][i] # d /\ \E j \in DOMAIN chain[c] : chain'[c][i] = chain[c][j]
    BY <2>1, <2>3, <2>4 DEF Members
  <2>6. \A y : InChain(y)' <=> InChain(y)
    BY <2>1, <2>4 DEF Members
  <2>7. \A y : InChain(y) => After(y)' = After(y)
    <3> SUFFICES ASSUME NEW y, InChain(y) PROVE After(y)' = After(y)
      OBVIOUS
    <3>1. PICK c \in Chains : \E j \in DOMAIN chain[c] : chain[c][j] = y
      BY <2>4 DEF Members
    <3>2. PICK j \in DOMAIN chain[c] : chain[c][j] = y
      BY <3>1
    <3>3. After(y) = IF j = Len(chain[c]) THEN Nobody ELSE chain[c][j + 1]
      BY <3>2, <2>4 DEF Order
    <3>4. j \in DOMAIN chain'[c] /\ chain'[c][j] = y
      BY <3>2, <2>1
    <3>5. After(y)' = IF j = Len(chain'[c]) THEN Nobody ELSE chain'[c][j + 1]
      BY <3>4, <2>4 DEF Order
    <3>6. QED
      BY <3>3, <3>5, <2>1
  <2>8. \A y : InChain(y) => After(y) # d
    <3> SUFFICES ASSUME NEW y, InChain(y), After(y) = d PROVE FALSE
      OBVIOUS
    <3>1. y \in Dentries /\ d # Nobody
      BY ChainHashed, LookupAssumption
    <3>2. QED
      BY <3>1, <2>3, <1>1, InOrOut
  <2>9. QED
    BY <2>2, <2>3, <2>5, <2>6, <2>7, <2>8
<1>4. QED
  BY <1>2, <1>3

\* The same chains, whatever else has changed.
LEMMA ChainSame ==
  ASSUME LookupInv, chain' = chain
  PROVE  /\ ChainTyped' /\ Distinct'
         /\ \A y : InChain(y)' <=> InChain(y)
         /\ \A y : InChain(y) => After(y)' = After(y)
         /\ \A y : ~ InChain(y) => After(y)' = dn'[y].after
<1>1. ChainTyped /\ Distinct
  BY DEF LookupInv, Typed, Table
<1>2. ChainTyped' /\ Distinct'
  BY <1>1 DEF ChainTyped, Distinct
<1>3. Order /\ Members /\ Order' /\ Members' /\ Others'
  BY <1>1, <1>2, Ordered, OrderedNext
<1>4. \A y : InChain(y)' <=> InChain(y)
  BY <1>3 DEF Members
<1>5. \A y : InChain(y) => After(y)' = After(y)
  <2> SUFFICES ASSUME NEW y, InChain(y) PROVE After(y)' = After(y)
    OBVIOUS
  <2>1. PICK c \in Chains : \E j \in DOMAIN chain[c] : chain[c][j] = y
    BY <1>3 DEF Members
  <2>2. PICK j \in DOMAIN chain[c] : chain[c][j] = y
    BY <2>1
  <2>3. After(y) = IF j = Len(chain[c]) THEN Nobody ELSE chain[c][j + 1]
    BY <2>2, <1>3 DEF Order
  <2>4. j \in DOMAIN chain'[c] /\ chain'[c][j] = y
    BY <2>2
  <2>5. After(y)' = IF j = Len(chain'[c]) THEN Nobody ELSE chain'[c][j + 1]
    BY <2>4, <1>3 DEF Order
  <2>6. QED
    BY <2>3, <2>5
<1>6. \A y : ~ InChain(y) => After(y)' = dn'[y].after
  BY <1>3, <1>4 DEF Others
<1>7. QED
  BY <1>2, <1>4, <1>5, <1>6

\* Steps that leave every hashed entry and every move as they are.
SameMove(u) ==
  /\ Moving(u)' <=> Moving(u)
  /\ Moving(u) =>
       /\ th'[u].d = th[u].d /\ th'[u].e = th[u].e /\ th'[u].exchange = th[u].exchange
       /\ th'[u].pc = "rehash" => th[u].pc = "rehash"
SameEntries ==
  \A d \in Dentries :
    /\ dn'[d].hashed = dn[d].hashed
    /\ dn[d].state = "live" => dn'[d].key = dn[d].key

LEMMA OneHashedSame ==
  ASSUME LookupInv, SameEntries, \A u \in Threads : SameMove(u)
  PROVE  OneHashed'
<1>1. \A d \in Dentries : dn'[d].hashed => dn[d].hashed /\ dn'[d].key = dn[d].key
  BY HashedLive DEF SameEntries
<1>2. \A x, y \in Dentries : dn'[x].hashed /\ dn'[y].hashed /\ dn'[x].key = dn'[y].key => x = y
  BY <1>1 DEF LookupInv, Table, OneHashed
<1>3. ASSUME NEW u \in Threads, Moving(u)' PROVE MoveAlone(u)'
  <2>1. Moving(u) /\ MoveAlone(u)
    BY <1>3 DEF LookupInv, Table, OneHashed, SameMove
  <2>2. /\ th'[u].d = th[u].d /\ th'[u].e = th[u].e /\ th'[u].exchange = th[u].exchange
        /\ th'[u].pc = "rehash" => th[u].pc = "rehash"
    BY <2>1 DEF SameMove
  <2>3. th[u].d \in Dentries /\ th[u].e \in Dentries
    BY <2>1 DEF LookupInv, ThreadInv, LocalOf
  <2>4. Locked(th[u].d) /\ Locked(th[u].e)
    BY <2>1 DEF Locked, Moved, Moving, Moves
  <2>5. dn[th[u].d].state = "live" /\ dn[th[u].e].state = "live"
    BY <2>3, <2>4 DEF LookupInv, EntryOf
  <2>6. /\ dn'[th[u].d].key = dn[th[u].d].key /\ dn'[th[u].e].key = dn[th[u].e].key
        /\ dn'[th[u].d].hashed = dn[th[u].d].hashed /\ dn'[th[u].e].hashed = dn[th[u].e].hashed
    BY <2>3, <2>5 DEF SameEntries
  <2>7. QED
    BY <2>1, <2>2, <2>3, <2>6, <1>1 DEF MoveAlone, At
<1>4. QED
  BY <1>2, <1>3 DEF OneHashed

LEMMA TableSame ==
  ASSUME LookupInv, SameEntries, \A u \in Threads : SameMove(u) /\ Gone(u)' = Gone(u), chain' = chain
  PROVE  Table'
<1>1. \A d : Out(d)' <=> Out(d)
  BY DEF Out
<1>2. \A d \in Dentries : dn[d].hashed => dn'[d].hashed /\ dn'[d].key = dn[d].key
  BY HashedLive DEF SameEntries
<1>3. \A b \in Chains : \A i \in DOMAIN chain[b] :
        /\ chain[b][i] \in Dentries /\ dn[chain[b][i]].hashed /\ ~ Out(chain[b][i])
        /\ Chain[dn[chain[b][i]].key] = b
  BY DEF LookupInv, Typed, ChainTyped, Table, Placed
<1>4. \A b \in Chains : \A i \in DOMAIN chain'[b] : \A x :
        x = chain'[b][i] => dn'[x].hashed /\ ~ Out(x)' /\ Chain[dn'[x].key] = b
  <2> SUFFICES ASSUME NEW b \in Chains, NEW i \in DOMAIN chain'[b], NEW x, x = chain'[b][i]
               PROVE  dn'[x].hashed /\ ~ Out(x)' /\ Chain[dn'[x].key] = b
    OBVIOUS
  <2>1. i \in DOMAIN chain[b] /\ x = chain[b][i]
    OBVIOUS
  <2>2. x \in Dentries /\ dn[x].hashed /\ ~ Out(x) /\ Chain[dn[x].key] = b
    BY <2>1, <1>3
  <2>3. QED
    BY <2>2, <1>1, <1>2
<1>5. \A d \in Dentries : dn'[d].hashed /\ ~ Out(d)' => InChain(d)'
  <2>1. \A d \in Dentries : dn'[d].hashed => dn[d].hashed
    BY DEF SameEntries
  <2>2. \A d \in Dentries : dn[d].hashed /\ ~ Out(d) => InChain(d)
    BY DEF LookupInv, Table, Placed
  <2>3. QED
    BY <2>1, <2>2, <1>1, ChainSame
<1>6. Placed'
  BY <1>4, <1>5 DEF Placed
<1>7. QED
  BY <1>6, ChainSame, OneHashedSame DEF Table

\* The variables of the call of a thread are its own; what others do to it is to
\* change a sequence, and to make its name absent.
Faded(u) ==
  /\ th'[u].pc = th[u].pc /\ th'[u].rcu = th[u].rcu /\ th'[u].key = th[u].key
  /\ th'[u].pos = th[u].pos /\ th'[u].ptr = th[u].ptr
  /\ th'[u].d = th[u].d /\ th'[u].e = th[u].e /\ th'[u].exchange = th[u].exchange
  /\ th'[u].still => th[u].still
  /\ th'[u].ok => th[u].ok
  /\ th[u].absent => th'[u].absent

LEMMA FadedMove ==
  ASSUME NEW u, Faded(u)
  PROVE  SameMove(u) /\ Gone(u)' = Gone(u) /\ Moved(u)' = Moved(u)
  BY DEF Faded, SameMove, Gone, Moved, Moving

LEMMA FadedWalk ==
  ASSUME NEW u, Faded(u)
  PROVE  (u \in Walking)' <=> u \in Walking
  BY DEF Faded, Walking

LEMMA LocalKept ==
  ASSUME NEW u \in Threads, LocalOf(u), Faded(u), rename_lock' = u <=> rename_lock = u,
         th'[u].still => rename_lock' = Nobody
  PROVE  LocalOf(u)'
  BY DEF LocalOf, Faded, At, Moving

LEMMA NamesKept ==
  ASSUME NEW u \in Threads, NamesOf(u), Faded(u),
         \A d \in Dentries : \A s \in Storages \cup {Inline} :
           Alive(u, d)' /\ s = dn'[d].ptr => NameAlive(u, s)' \/ (Alive(u, d) /\ s = dn[d].ptr),
         \A s \in Storages \cup {Inline} : NameAlive(u, s) => NameAlive(u, s)',
         ThTyped, DnTyped'
  PROVE  NamesOf(u)'
<1> SUFFICES ASSUME (u \in Walking)'
             PROVE  /\ \A d \in Dentries : Alive(u, d)' => NameAlive(u, dn[d].ptr)'
                    /\ At(u, "cmp")' => NameAlive(u, th[u].ptr)'
  BY DEF NamesOf
<1>1. /\ \A d \in Dentries : Alive(u, d) => NameAlive(u, dn[d].ptr)
      /\ At(u, "cmp") => NameAlive(u, th[u].ptr)
  BY FadedWalk DEF NamesOf
<1>2. ASSUME NEW d \in Dentries, Alive(u, d)' PROVE NameAlive(u, dn[d].ptr)'
  <2>1. PICK s \in Storages \cup {Inline} : s = dn'[d].ptr
    BY DEF DnTyped, Entry
  <2>2. NameAlive(u, s)' \/ NameAlive(u, s)
    BY <2>1, <1>1, <1>2
  <2>3. NameAlive(u, s)'
    BY <2>2
  <2>4. QED
    BY <2>1, <2>3 DEF NameAlive
<1>3. ASSUME At(u, "cmp")' PROVE NameAlive(u, th[u].ptr)'
  <2>1. PICK s \in Storages \cup {Inline} : s = th[u].ptr
    BY DEF ThTyped, Thread
  <2>2. NameAlive(u, s)
    BY <2>1, <1>1, <1>3 DEF At, Faded
  <2>3. NameAlive(u, s)'
    BY <2>2
  <2>4. QED
    BY <2>1, <2>3 DEF NameAlive, Faded
<1>4. QED
  BY <1>2, <1>3

LEMMA SequenceKept ==
  ASSUME NEW u \in Threads, SequenceOf(u), Faded(u),
         \A d \in Dentries : th'[u].ok /\ d = th[u].pos => ~ Locked(d)',
         \A d \in Dentries : th'[u].ok /\ d = th[u].pos /\ dn[d].hashed =>
           /\ dn'[d].hashed /\ dn'[d].key = dn[d].key
           /\ dn'[d].parent = dn[d].parent /\ dn'[d].ptr = dn[d].ptr
  PROVE  SequenceOf(u)'
<1> SUFFICES ASSUME th'[u].ok PROVE SequenceOf(u)'
  BY DEF SequenceOf
<1>1. PICK d \in Dentries : d = th[u].pos
  BY DEF SequenceOf, Faded
<1>2. /\ th[u].pc \in {"key", "stable", "cmp", "got"} =>
           dn[d].hashed /\ dn[d].parent = th[u].key[1]
      /\ th[u].pc \in {"stable", "cmp"} => th[u].ptr = dn[d].ptr
      /\ th[u].pc = "got" => dn[d].key = th[u].key
  BY <1>1 DEF SequenceOf, Faded, At
<1>3. ~ Locked(d)'
  BY <1>1
<1>4. /\ th'[u].pos = d /\ th'[u].pc = th[u].pc /\ th'[u].key = th[u].key /\ th'[u].ptr = th[u].ptr
  BY <1>1 DEF Faded
<1>5. dn[d].hashed => /\ dn'[d].hashed /\ dn'[d].key = dn[d].key
                      /\ dn'[d].parent = dn[d].parent /\ dn'[d].ptr = dn[d].ptr
  BY <1>1
<1>6. QED
  BY <1>2, <1>3, <1>4, <1>5 DEF SequenceOf, At

LEMMA PresentKept ==
  ASSUME NEW u \in Threads, PresentOf(u), Faded(u), LocalOf(u),
         \A k \in Keys : k = th[u].key /\ ~ th'[u].absent /\ Present(k) => Present(k)'
  PROVE  PresentOf(u)'
<1> SUFFICES ASSUME th'[u].pc \in Calls, ~ th'[u].rcu, ~ th'[u].absent PROVE Present(th[u].key)'
  BY DEF PresentOf
<1>1. PICK k \in Keys : k = th[u].key
  BY DEF LocalOf, Faded
<1>2. Present(k)
  BY <1>1 DEF PresentOf, Faded
<1>3. Present(k)'
  BY <1>1, <1>2
<1>4. QED
  BY <1>1, <1>3 DEF Faded

LEMMA AheadKept ==
  ASSUME NEW u \in Threads, AheadOf(u), Faded(u),
         \A p, x \in Dentries :
           /\ th'[u].still /\ ~ th'[u].absent /\ ~ th[u].rcu /\ u \in Walking
           /\ dn[x].hashed /\ dn[x].key = th[u].key /\ p = th[u].pos /\ Leads(p, x)
           => dn'[x].hashed /\ dn'[x].key = dn[x].key /\ Leads(p, x)'
  PROVE  AheadOf(u)'
<1> SUFFICES ASSUME (u \in Walking)', Steady(u)', ~ th'[u].absent
             PROVE  \E x \in Dentries :
                      /\ dn'[x].hashed /\ dn'[x].key = th'[u].key
                      /\ th'[u].pos \in Dentries /\ Leads(th[u].pos, x)'
                      /\ At(u, "next")' => th'[u].pos # x
  BY DEF AheadOf
<1>1. u \in Walking /\ Steady(u) /\ ~ th[u].absent /\ th'[u].still /\ ~ th[u].rcu
  BY FadedWalk DEF Faded, Steady
<1>2. PICK x \in Dentries :
        /\ dn[x].hashed /\ dn[x].key = th[u].key
        /\ th[u].pos \in Dentries /\ Leads(th[u].pos, x)
        /\ At(u, "next") => th[u].pos # x
  BY <1>1 DEF AheadOf
<1>3. PICK p \in Dentries : p = th[u].pos
  BY <1>2
<1>4. Leads(p, x)
  BY <1>2, <1>3
<1>5. dn'[x].hashed /\ dn'[x].key = dn[x].key /\ Leads(p, x)'
  BY <1>1, <1>2, <1>3, <1>4
<1>6. th'[u].pos = p /\ th'[u].key = th[u].key /\ (At(u, "next")' <=> At(u, "next"))
  BY <1>3 DEF Faded, At
<1>7. Leads(th[u].pos, x)'
  BY <1>5, <1>6
<1>8. QED
  BY <1>2, <1>3, <1>5, <1>6, <1>7

LEMMA NoneKept ==
  ASSUME NEW u \in Threads, NoneOf(u), Faded(u)
  PROVE  NoneOf(u)'
  BY DEF NoneOf, Faded, At

-----------------------------------------------------------------------------
(* A step that a walk makes by itself.                                     *)

LEMMA AllAfterSame ==
  ASSUME LookupInv, UNCHANGED <<dn, chain>>
  PROVE  \A y : After(y)' = After(y)
<1>1. \A y : ~ InChain(y) => After(y) = dn[y].after
  BY AfterOut
<1>2. QED
  BY <1>1, ChainSame

LEMMA PresentSame ==
  ASSUME \A d \in Dentries : dn[d].hashed => dn'[d].hashed /\ dn'[d].key = dn[d].key
  PROVE  \A k : Present(k) => Present(k)'
  BY DEF Present, Has

\* Threads beside a step that changes no entry and no name.
LEMMA BesideKept ==
  ASSUME LookupInv, UNCHANGED <<dn, chain, ext>>, NEW u \in Threads, Faded(u), ThTyped',
         rename_lock' = u <=> rename_lock = u, th'[u].still => rename_lock' = Nobody,
         \A d \in Dentries : th'[u].ok /\ d = th[u].pos => ~ Locked(d)'
  PROVE  ThreadInv(u)'
<1>1. ThreadInv(u)
  BY DEF LookupInv
<1>2. LocalOf(u)'
  BY <1>1, LocalKept DEF ThreadInv
<1>3. StaysAlive(u) /\ AfterSame(u)
  BY AllAfterSame DEF StaysAlive, AfterSame, Alive
<1>4. \A B : Surrounded(u, B) => Surrounded(u, B)'
  <2> SUFFICES ASSUME NEW B, Surrounded(u, B) PROVE Surrounded(u, B)'
    OBVIOUS
  <2>1. \A b \in B : \A i \in DOMAIN chain'[b] : \E j \in DOMAIN chain[b] : chain'[b][i] = chain[b][j]
    OBVIOUS
  <2>2. th'[u].pos = th[u].pos
    BY DEF Faded
  <2>3. QED
    BY <1>3, <2>1, <2>2, SurroundedSame
<1>5. ReachOf(u)'
  <2> SUFFICES ASSUME (u \in Walking)'
               PROVE  Surrounded(u, Chains)' /\ (Steady(u)' => Surrounded(u, {Chain[th[u].key]})')
    BY DEF ReachOf
  <2>1. Surrounded(u, Chains) /\ (Steady(u) => Surrounded(u, {Chain[th[u].key]}))
    BY <1>1, FadedWalk DEF ThreadInv, ReachOf
  <2>2. Surrounded(u, Chains)'
    BY <2>1, <1>4
  <2>3. ASSUME Steady(u)' PROVE Surrounded(u, {Chain[th[u].key]})'
    <3>1. Steady(u)
      BY <2>3 DEF Steady, Faded
    <3>2. PICK B : B = {Chain[th[u].key]}
      OBVIOUS
    <3>3. Surrounded(u, B)
      BY <2>1, <3>1, <3>2
    <3>4. Surrounded(u, B)'
      BY <3>3, <1>4
    <3>5. B = {Chain[th'[u].key]}
      BY <3>2 DEF Faded
    <3>6. QED
      BY <3>4, <3>5
  <2>4. QED
    BY <2>2, <2>3
<1>6. NamesOf(u)'
  <2>1. \A s : NameAlive(u, s) => NameAlive(u, s)'
    BY DEF NameAlive
  <2>2. \A d : Alive(u, d)' => Alive(u, d)
    BY DEF Alive
  <2>3. DnTyped'
    BY DEF LookupInv, Typed, DnTyped
  <2>4. \A d \in Dentries : \A s \in Storages \cup {Inline} :
          Alive(u, d)' /\ s = dn'[d].ptr => NameAlive(u, s)' \/ (Alive(u, d) /\ s = dn[d].ptr)
    BY <2>2
  <2>5. NamesOf(u) /\ ThTyped
    BY <1>1 DEF ThreadInv, LookupInv, Typed
  <2>6. QED
    BY <2>1, <2>3, <2>4, <2>5, NamesKept
<1>7. SequenceOf(u)'
  BY <1>1, SequenceKept DEF ThreadInv
<1>8. PresentOf(u)'
  BY <1>1, PresentSame, PresentKept DEF ThreadInv
<1>9. AheadOf(u)'
  <2>1. ASSUME NEW p \in Dentries, NEW x \in Dentries, Leads(p, x) PROVE Leads(p, x)'
    BY <2>1, AllAfterSame DEF Leads
  <2>2. QED
    BY <1>1, <2>1, AheadKept DEF ThreadInv
<1>10. QED
  BY <1>1, <1>2, <1>5, <1>6, <1>7, <1>8, <1>9, NoneKept DEF ThreadInv

LEMMA ParentsKept ==
  ASSUME LookupInv, NEW u \in Threads,
         Moving(u)' => /\ th'[u].pc = th[u].pc /\ th'[u].exchange = th[u].exchange
                       /\ th'[u].d = th[u].d /\ th'[u].e = th[u].e,
         \A x \in Dentries : Locked(x) => dn'[x].parent = dn[x].parent /\ dn'[x].key = dn[x].key
  PROVE  ParentsOf(u)'
<1>1. SUFFICES ASSUME Moving(u)' PROVE ParentsOf(u)'
  BY DEF ParentsOf
<1>2. Moving(u) /\ ParentsOf(u) /\ LocalOf(u)
  BY <1>1 DEF Moving, LookupInv, ThreadInv
<1>3. PICK d, e \in Dentries : d = th[u].d /\ e = th[u].e
  BY <1>2 DEF LocalOf
<1>4. Locked(d) /\ Locked(e)
  BY <1>2, <1>3 DEF Locked, Moved, Moving, Moves
<1>5. /\ dn'[d].parent = dn[d].parent /\ dn'[d].key = dn[d].key
      /\ dn'[e].parent = dn[e].parent /\ dn'[e].key = dn[e].key
  BY <1>4
<1>6. /\ th'[u].pc = th[u].pc /\ th'[u].exchange = th[u].exchange
      /\ th'[u].d = d /\ th'[u].e = e
  BY <1>1, <1>3
<1>7. QED
  BY <1>2, <1>3, <1>5, <1>6 DEF ParentsOf, At

WalkStep(t) ==
  /\ UNCHANGED <<dn, chain, ext, rename_lock>>
  /\ \A u \in Threads \ {t} : th'[u] = th[u]
  /\ th[t].pc \in {"idle", "valid"} \cup Calls /\ th'[t].pc \in {"idle", "valid"} \cup Calls
  /\ th[t].pc \in Walks => th'[t].pc \in Walks

LEMMA SameFaded ==
  ASSUME NEW u, th'[u] = th[u]
  PROVE  Faded(u)
  BY DEF Faded

LEMMA NotMoving ==
  ASSUME NEW u, th[u].pc \in {"idle", "snapshot", "valid"} \cup Calls
  PROVE  ~ Moving(u) /\ Gone(u) = {} /\ Moved(u) = {}
<1>1. th[u].pc \notin {"unhash", "unhash target", "reparent", "rename", "rehash target", "rehash"}
  BY DEF Calls, Walks, Reads
<1>2. QED
  BY <1>1 DEF Moving, Gone, Moved, Moves

LEMMA NotMovingNext ==
  ASSUME NEW u, th'[u].pc \in {"idle", "snapshot", "valid"} \cup Calls
  PROVE  ~ Moving(u)' /\ Gone(u)' = {} /\ Moved(u)' = {}
<1>1. th'[u].pc \notin {"unhash", "unhash target", "reparent", "rename", "rehash target", "rehash"}
  BY DEF Calls, Walks, Reads
<1>2. QED
  BY <1>1 DEF Moving, Gone, Moved, Moves

LEMMA WalkingIs == Walking = {u \in Threads : th[u].pc \in Walks}
  BY DEF Walking, Walks, Reads

LEMMA WalkKeeps ==
  ASSUME LookupInv, NEW t \in Threads, WalkStep(t), ThTyped', ThreadInv(t)'
  PROVE  LookupInv'
<1>1. UNCHANGED <<dn, chain, ext, rename_lock>> /\ \A u \in Threads \ {t} : Faded(u)
  BY SameFaded DEF WalkStep
<1>2. \A u \in Threads : SameMove(u) /\ Gone(u)' = Gone(u) /\ Moved(u)' = Moved(u)
  <2>1. \A u \in Threads \ {t} : SameMove(u) /\ Gone(u)' = Gone(u) /\ Moved(u)' = Moved(u)
    BY <1>1, FadedMove
  <2>2. SameMove(t) /\ Gone(t)' = Gone(t) /\ Moved(t)' = Moved(t)
    BY NotMoving, NotMovingNext DEF WalkStep, SameMove
  <2>3. QED
    BY <2>1, <2>2
<1>3. Walking \subseteq Walking'
  <2>1. \A u \in Threads : th[u].pc \in Walks => th'[u].pc \in Walks
    BY DEF WalkStep
  <2>2. QED
    BY <2>1 DEF Walking, Walks, Reads
<1>4. \A d : Locked(d)' <=> Locked(d)
  BY <1>2 DEF Locked
<1>5. Typed'
  BY <1>1 DEF LookupInv, Typed, DnTyped, ExtTyped, ChainTyped, LockTyped
<1>6. Table'
  <2>1. SameEntries
    BY <1>1 DEF SameEntries
  <2>2. QED
    BY <1>1, <1>2, <2>1, TableSame
<1>7. ASSUME NEW d \in Dentries PROVE EntryOf(d)' /\ TextOf(d)'
  <2>1. EntryOf(d) /\ TextOf(d)
    BY DEF LookupInv
  <2>2. EntryOf(d)'
    BY <2>1, <1>1, <1>3, <1>4 DEF EntryOf
  <2>3. TextOf(d)'
    BY <2>1, <1>1 DEF TextOf, Text
  <2>4. QED
    BY <2>2, <2>3
<1>8. ASSUME NEW s \in Storages PROVE CountedName(s)'
  <2>1. \A u \in Threads : (At(u, "snapshot") /\ th[u].ptr = s)' <=> At(u, "snapshot") /\ th[u].ptr = s
    <3>1. \A u \in Threads \ {t} : (At(u, "snapshot") /\ th[u].ptr = s)' <=> At(u, "snapshot") /\ th[u].ptr = s
      BY <1>1 DEF At, Faded
    <3>2. th[t].pc # "snapshot" /\ th'[t].pc # "snapshot"
      BY DEF WalkStep, Calls, Walks, Reads
    <3>3. QED
      BY <3>1, <3>2 DEF At
  <2>2. Users(s)' = Users(s)
    BY <1>1, <2>1 DEF Users
  <2>3. CountedName(s)
    BY DEF LookupInv
  <2>4. QED
    BY <1>1, <2>2, <2>3 DEF CountedName
<1>9. ASSUME NEW u \in Threads \ {t} PROVE ThreadInv(u)'
  <2>1. ThreadInv(u) /\ Faded(u) /\ th'[u] = th[u]
    BY <1>1 DEF LookupInv, WalkStep
  <2>2. th'[u].still => rename_lock' = Nobody
    BY <2>1, <1>1 DEF ThreadInv, LocalOf
  <2>3. \A d \in Dentries : th'[u].ok /\ d = th[u].pos => ~ Locked(d)'
    BY <2>1, <1>4 DEF ThreadInv, SequenceOf
  <2>4. QED
    BY <2>1, <2>2, <2>3, <1>1, BesideKept
<1>10. ASSUME NEW u \in Threads PROVE ParentsOf(u)'
  <2>1. CASE u = t
    BY <2>1, NotMovingNext DEF WalkStep, ParentsOf
  <2>2. CASE u # t
    BY <2>2, <1>1, ParentsKept DEF Faded
  <2>3. QED
    BY <2>1, <2>2
<1>11. QED
  BY <1>5, <1>6, <1>7, <1>8, <1>9, <1>10 DEF LookupInv

\* The thread that walks: the same place, the next one, or the first.
LEMMA WalksOn ==
  ASSUME LookupInv, UNCHANGED <<dn, chain>>, NEW t \in Threads, NEW B, Surrounded(t, B),
         th'[t].pos = th[t].pos \/ (th[t].pos # Nobody /\ th'[t].pos = After(th[t].pos))
  PROVE  Surrounded(t, B)'
<1>1. PICK S \in SUBSET Dentries : Around(t, B, S)
  BY DEF Surrounded
<1>2. /\ th[t].pos \in S \cup {Nobody}
      /\ \A b \in B : \A i \in DOMAIN chain[b] : chain[b][i] \in S
      /\ \A d \in S : Alive(t, d) /\ Chain[dn[d].key] \in B /\ After(d) \in S \cup {Nobody}
  BY <1>1 DEF Around
<1>3. th'[t].pos \in S \cup {Nobody}
  BY <1>2
<1>4. \A d \in S : Alive(t, d)' /\ After(d)' \in S \cup {Nobody}
  BY <1>2, AllAfterSame DEF Alive
<1>5. QED
  BY <1>2, <1>3, <1>4 DEF Surrounded, Around

LEMMA WalkBegins ==
  ASSUME LookupInv, UNCHANGED <<dn, chain>>, NEW t \in Threads, NEW B \in SUBSET Chains, NEW b \in B,
         th'[t].pos = First(b)
  PROVE  Surrounded(t, B)'
<1> DEFINE S == {d \in Dentries : InChain(d) /\ Chain[dn[d].key] \in B}
<1>1. ChainTyped /\ Distinct /\ Members
  BY Ordered DEF LookupInv, Typed, Table
<1>2. \A c \in Chains : \A i \in DOMAIN chain[c] :
        /\ InChain(chain[c][i]) /\ chain[c][i] \in Dentries /\ Chain[dn[chain[c][i]].key] = c
  BY <1>1 DEF ChainTyped, Members, LookupInv, Table, Placed
<1>3. \A c \in B : \A i \in DOMAIN chain[c] : chain[c][i] \in S
  BY <1>2
<1>4. th'[t].pos \in S \cup {Nobody}
  BY <1>1, <1>3, FirstTyped
<1>5. ASSUME NEW d \in S
      PROVE  Alive(t, d)' /\ Chain[dn'[d].key] \in B /\ After(d)' \in S \cup {Nobody}
  <2>1. dn[d].state = "live"
    BY ChainHashed, HashedLive
  <2>2. PICK c \in Chains : \E i \in DOMAIN chain[c] : chain[c][i] = d
    BY <1>1 DEF Members
  <2>3. PICK i \in DOMAIN chain[c] : chain[c][i] = d
    BY <2>2
  <2>4. c \in B
    BY <2>3, <1>2
  <2>5. After(d) = IF i = Len(chain[c]) THEN Nobody ELSE chain[c][i + 1]
    BY <2>3, <1>1, AfterIs
  <2>6. i # Len(chain[c]) => i + 1 \in DOMAIN chain[c]
    BY <1>1 DEF ChainTyped
  <2>7. After(d) \in S \cup {Nobody}
    BY <2>4, <2>5, <2>6, <1>3
  <2>8. QED
    BY <2>1, <2>7, AllAfterSame DEF Alive
<1>6. S \in SUBSET Dentries
  OBVIOUS
<1> HIDE DEF S
<1>7. QED
  BY <1>3, <1>4, <1>5, <1>6 DEF Surrounded, Around

LEMMA NamesBegin ==
  ASSUME LookupInv, UNCHANGED <<dn, ext>>, NEW t \in Threads, t \notin Walking, th'[t].pc # "cmp"
  PROVE  NamesOf(t)'
<1>1. ASSUME NEW d \in Dentries, Alive(t, d) PROVE NameAlive(t, dn[d].ptr)
  <2>1. dn[d].state = "live"
    BY <1>1 DEF Alive, LookupInv, EntryOf
  <2>2. CASE dn[d].ptr = Inline
    BY <2>2 DEF NameAlive
  <2>3. CASE dn[d].ptr # Inline
    <3>1. dn[d].ptr \in Storages
      BY <2>3 DEF LookupInv, Typed, DnTyped, Entry
    <3>2. d \in Users(dn[d].ptr)
      BY <2>1 DEF Users
    <3>3. CountedName(dn[d].ptr)
      BY <3>1 DEF LookupInv
    <3>4. ext[dn[d].ptr].state = "used"
      BY <3>2, <3>3 DEF CountedName
    <3>5. QED
      BY <3>4 DEF NameAlive
  <2>4. QED
    BY <2>2, <2>3
<1>2. \A d \in Dentries : Alive(t, d)' => NameAlive(t, dn[d].ptr)'
  BY <1>1 DEF Alive, NameAlive
<1>3. QED
  BY <1>2 DEF NamesOf, At

LEMMA NamesOn ==
  ASSUME LookupInv, UNCHANGED <<dn, ext>>, NEW t \in Threads, t \in Walking,
         At(t, "cmp")' => NameAlive(t, th[t].ptr)'
  PROVE  NamesOf(t)'
<1>1. \A d \in Dentries : Alive(t, d) => NameAlive(t, dn[d].ptr)
  BY DEF LookupInv, ThreadInv, NamesOf
<1>2. \A d \in Dentries : Alive(t, d)' => NameAlive(t, dn[d].ptr)'
  BY <1>1 DEF Alive, NameAlive
<1>3. QED
  BY <1>2 DEF NamesOf

\* What a thread has to keep, by what it does.
LEMMA RcuThread ==
  ASSUME NEW t \in Threads, th'[t].rcu, th'[t].pc \in Walks,
         LocalOf(t)', Surrounded(t, Chains)', NamesOf(t)', SequenceOf(t)'
  PROVE  ThreadInv(t)'
<1>1. th'[t].pc # "none"
  BY DEF Walks, Reads
<1>2. QED
  BY <1>1 DEF ThreadInv, ReachOf, PresentOf, AheadOf, NoneOf, Steady, At

LEMMA IdleThread ==
  ASSUME NEW t \in Threads, th'[t].pc \notin Calls, ~ th'[t].ok, LocalOf(t)'
  PROVE  ThreadInv(t)'
<1>1. th'[t].pc # "none" /\ t \notin Walking'
  BY DEF Calls, Walks, Reads, Walking
<1>2. QED
  BY <1>1 DEF ThreadInv, ReachOf, NamesOf, SequenceOf, PresentOf, AheadOf, NoneOf, At

LEMMA LookupThread ==
  ASSUME NEW t \in Threads, ~ th'[t].rcu, th'[t].pc \in {"seq", "at", "lock", "next", "none"}, LocalOf(t)',
         ReachOf(t)', NamesOf(t)', AheadOf(t)', NoneOf(t)',
         \A k \in Keys : k = th'[t].key /\ ~ th'[t].absent => Present(k)'
  PROVE  ThreadInv(t)'
<1>1. ~ th'[t].ok /\ th'[t].key \in Keys
  BY DEF LocalOf, Calls, Walks
<1>2. PICK k \in Keys : k = th'[t].key
  BY <1>1
<1>3. ~ th'[t].absent => Present(k)'
  BY <1>2
<1>4. PresentOf(t)'
  BY <1>2, <1>3 DEF PresentOf
<1>5. QED
  BY <1>1, <1>4 DEF ThreadInv, SequenceOf


-----------------------------------------------------------------------------
(* The steps of the walks.                                                 *)

LEMMA LookupStartKeeps ==
  ASSUME LookupInv, NEW t \in Threads, NEW k \in Keys, LookupStart(t, k)
  PROVE  LookupInv'
<1>1. th[t].pc = "idle" /\ th[t] \in Thread /\ LocalOf(t)
  BY DEF LookupStart, At, LookupInv, Typed, ThTyped, ThreadInv
<1>2. /\ th' = [th EXCEPT ![t] = [Idle EXCEPT !.pc = "seq", !.key = k, !.absent = ~ Present(k)]]
      /\ UNCHANGED <<dn, chain, ext, rename_lock>>
  BY DEF LookupStart
<1>3. Idle \in Thread
  BY DEF Idle, Thread
<1>4. PICK r \in Thread : r = [Idle EXCEPT !.pc = "seq", !.key = k, !.absent = ~ Present(k)]
  <2>1. Present(k) \in BOOLEAN
    BY DEF Present, Has
  <2>2. QED
    BY <1>3, <2>1 DEF Thread, Calls
<1>5. ThTyped' /\ th'[t] = r /\ \A u \in Threads \ {t} : th'[u] = th[u]
  BY <1>2, <1>4 DEF LookupInv, Typed, ThTyped
<1>6. /\ r.pc = "seq" /\ ~ r.rcu /\ r.key = k /\ ~ r.still /\ ~ r.ok /\ r.absent = ~ Present(k)
  BY <1>4 DEF Idle
<1>7. WalkStep(t)
  BY <1>1, <1>2, <1>5, <1>6 DEF WalkStep, Calls, Walks, Reads
<1>8. LocalOf(t)'
  BY <1>1, <1>2, <1>5, <1>6 DEF LocalOf, At, Moving, Moves, Calls, Walks, Reads
<1>9. th'[t].pc \notin Walks
  BY <1>5, <1>6 DEF Walks, Reads
<1>10. ReachOf(t)' /\ NamesOf(t)' /\ AheadOf(t)' /\ NoneOf(t)'
  <2>1. (t \notin Walking)'
    BY <1>9 DEF Walking, Walks, Reads
  <2>2. QED
    BY <2>1, <1>5, <1>6 DEF ReachOf, NamesOf, AheadOf, NoneOf, At
<1>11. Present(k) => Present(k)'
  BY <1>2 DEF Present, Has
<1>12. ThreadInv(t)'
  BY <1>5, <1>6, <1>8, <1>10, <1>11, LookupThread
<1>13. QED
  BY <1>5, <1>7, <1>12, WalkKeeps

LEMMA RcuStartKeeps ==
  ASSUME LookupInv, NEW t \in Threads, NEW k \in Keys, RcuStart(t, k)
  PROVE  LookupInv'
<1>1. th[t].pc = "idle" /\ th[t] \in Thread /\ LocalOf(t)
  BY DEF RcuStart, At, LookupInv, Typed, ThTyped, ThreadInv
<1>2. /\ th' = [th EXCEPT ![t] = [Idle EXCEPT !.pc = "at", !.rcu = TRUE, !.key = k, !.pos = First(Chain[k])]]
      /\ UNCHANGED <<dn, chain, ext, rename_lock>>
  BY DEF RcuStart
<1>3. PICK b \in Chains : b = Chain[k]
  BY LookupAssumption
<1>4. First(b) \in Dentries \cup {Nobody}
  BY FirstTyped DEF LookupInv, Typed
<1>5. PICK r \in Thread : r = [Idle EXCEPT !.pc = "at", !.rcu = TRUE, !.key = k, !.pos = First(b)]
  <2>1. Idle \in Thread
    BY DEF Idle, Thread
  <2>2. QED
    BY <1>4, <2>1 DEF Thread, Calls, Walks
<1>6. ThTyped' /\ th'[t] = r /\ \A u \in Threads \ {t} : th'[u] = th[u]
  BY <1>2, <1>3, <1>5 DEF LookupInv, Typed, ThTyped
<1>7. /\ r.pc = "at" /\ r.rcu /\ r.key = k /\ ~ r.still /\ ~ r.ok /\ r.pos = First(b)
  BY <1>5 DEF Idle
<1>8. WalkStep(t)
  BY <1>1, <1>2, <1>6, <1>7 DEF WalkStep, Calls, Walks, Reads
<1>9. LocalOf(t)'
  BY <1>1, <1>2, <1>6, <1>7 DEF LocalOf, At, Moving, Moves, Calls, Walks, Reads
<1>10. Surrounded(t, Chains)'
  BY <1>2, <1>6, <1>7, WalkBegins
<1>11. NamesOf(t)'
  <2>1. t \notin Walking
    BY <1>1 DEF Walking
  <2>2. QED
    BY <2>1, <1>2, <1>6, <1>7, NamesBegin
<1>12. SequenceOf(t)' /\ th'[t].rcu /\ th'[t].pc \in Walks
  BY <1>6, <1>7 DEF SequenceOf, Walks
<1>13. ThreadInv(t)'
  BY <1>9, <1>10, <1>11, <1>12, RcuThread
<1>14. QED
  BY <1>6, <1>8, <1>13, WalkKeeps

LEMMA ReturnKeeps ==
  ASSUME LookupInv, NEW t \in Threads, Return(t)
  PROVE  LookupInv'
<1>1. th[t].pc \in {"none", "valid"} /\ LocalOf(t)
  BY DEF Return, LookupInv, ThreadInv
<1>2. th' = [th EXCEPT ![t] = Idle] /\ UNCHANGED <<dn, chain, ext, rename_lock>>
  BY DEF Return
<1>3. Idle \in Thread /\ Idle.pc = "idle" /\ ~ Idle.ok /\ ~ Idle.still /\ Idle.key = Nobody
  BY DEF Idle, Thread
<1>4. ThTyped' /\ th'[t] = Idle /\ \A u \in Threads \ {t} : th'[u] = th[u]
  BY <1>2, <1>3 DEF LookupInv, Typed, ThTyped
<1>5. WalkStep(t)
  BY <1>1, <1>2, <1>3, <1>4 DEF WalkStep, Calls, Walks, Reads
<1>6. LocalOf(t)' /\ th'[t].pc \notin Calls /\ ~ th'[t].ok
  BY <1>1, <1>2, <1>3, <1>4 DEF LocalOf, At, Moving, Moves, Calls, Walks, Reads
<1>7. QED
  BY <1>4, <1>5, <1>6, IdleThread, WalkKeeps


LEMMA LeadsStay ==
  ASSUME LookupInv, UNCHANGED <<dn, chain>>, NEW p \in Dentries, NEW x \in Dentries, Leads(p, x)
  PROVE  Leads(p, x)'
<1>1. SUFFICES ASSUME NEW S \in SUBSET Dentries, p \in S, \A y \in S : After(y)' \in S \cup {Nobody}
               PROVE  x \in S
  BY DEF Leads
<1>2. \A y \in S : After(y) \in S \cup {Nobody}
  BY <1>1, AllAfterSame
<1>3. QED
  BY <1>1, <1>2 DEF Leads

LEMMA AheadBy ==
  ASSUME NEW t \in Threads, NEW p \in Dentries, th'[t].pos = p, NEW x \in Dentries,
         dn'[x].hashed, dn'[x].key = th'[t].key, Leads(p, x)', th'[t].pc = "next" => p # x
  PROVE  AheadOf(t)'
<1>1. Leads(th[t].pos, x)'
  OBVIOUS
<1>2. QED
  BY <1>1 DEF AheadOf, At

\* The steps of d_lookup between the first entry of the chain and the end of it.
LEMMA LookupOn ==
  ASSUME LookupInv, NEW t \in Threads, t \in Walking, ~ th[t].rcu,
         UNCHANGED <<dn, chain, ext, rename_lock>>, NEW r \in Thread, th' = [th EXCEPT ![t] = r],
         r.pc \in {"at", "lock", "next"}, ~ r.rcu, r.key = th[t].key, r.still = th[t].still, ~ r.ok,
         r.absent = th[t].absent,
         r.pos = th[t].pos \/ (th[t].pos # Nobody /\ r.pos = After(th[t].pos)),
         r.pc # "at" => r.pos \in Dentries,
         \A p, x \in Dentries :
           /\ dn[x].hashed /\ dn[x].key = th[t].key /\ p = th[t].pos /\ Leads(p, x)
           /\ At(t, "next") => p # x
           => r.pos \in Dentries /\ Leads(r.pos, x) /\ (r.pc = "next" => r.pos # x)
  PROVE  LookupInv'
<1>1. ThreadInv(t) /\ th[t].pc \in Walks
  BY WalkingIs DEF LookupInv
<1>2. ThTyped' /\ th'[t] = r /\ \A u \in Threads \ {t} : th'[u] = th[u]
  BY DEF LookupInv, Typed, ThTyped
<1>3. WalkStep(t)
  BY <1>1, <1>2 DEF WalkStep, Calls, Walks
<1>4. LocalOf(t)'
  BY <1>1, <1>2 DEF ThreadInv, LocalOf, At, Moving, Moves, Calls, Walks, Reads
<1>5. \A B : Surrounded(t, B) => Surrounded(t, B)'
  BY <1>2, WalksOn
<1>6. ReachOf(t)'
  <2>1. Surrounded(t, Chains) /\ (Steady(t) => Surrounded(t, {Chain[th[t].key]}))
    BY <1>1 DEF ThreadInv, ReachOf
  <2>2. PICK B : B = {Chain[th[t].key]}
    OBVIOUS
  <2>3. Steady(t) => Surrounded(t, B)'
    BY <2>1, <2>2, <1>5
  <2>4. Steady(t)' => Steady(t)
    BY <1>2 DEF Steady
  <2>5. B = {Chain[th'[t].key]}
    BY <2>2, <1>2
  <2>6. Steady(t)' => Surrounded(t, {Chain[th[t].key]})'
    BY <2>3, <2>4, <2>5
  <2>7. QED
    BY <2>1, <1>5, <2>6 DEF ReachOf
<1>7. NamesOf(t)'
  BY <1>2, NamesOn DEF At
<1>8. AheadOf(t)'
  <2>1. SUFFICES ASSUME Steady(t)', ~ th'[t].absent PROVE AheadOf(t)'
    BY DEF AheadOf
  <2>2. Steady(t) /\ ~ th[t].absent
    BY <2>1, <1>2 DEF Steady
  <2>3. PICK x \in Dentries :
          /\ dn[x].hashed /\ dn[x].key = th[t].key
          /\ th[t].pos \in Dentries /\ Leads(th[t].pos, x)
          /\ At(t, "next") => th[t].pos # x
    BY <1>1, <2>2 DEF ThreadInv, AheadOf
  <2>4. r.pos \in Dentries /\ Leads(r.pos, x) /\ (r.pc = "next" => r.pos # x)
    BY <2>3
  <2>5. PICK p \in Dentries : p = r.pos
    BY <2>4
  <2>6. Leads(p, x)'
    BY <2>4, <2>5, LeadsStay
  <2>7. QED
    BY <2>3, <2>4, <2>5, <2>6, <1>2, AheadBy
<1>9. NoneOf(t)'
  BY <1>2 DEF NoneOf, At
<1>10. \A k \in Keys : k = th'[t].key /\ ~ th'[t].absent => Present(k)'
  <2>1. \A k \in Keys : k = th[t].key /\ ~ th[t].absent => Present(k)
    BY <1>1 DEF ThreadInv, PresentOf, Calls
  <2>2. QED
    BY <2>1, <1>2 DEF Present, Has
<1>11. ThreadInv(t)'
  BY <1>2, <1>4, <1>6, <1>7, <1>8, <1>9, <1>10, LookupThread
<1>12. QED
  BY <1>2, <1>3, <1>11, WalkKeeps

LEMMA SeeHashKeeps ==
  ASSUME LookupInv, NEW t \in Threads, SeeHash(t)
  PROVE  LookupInv'
<1>1. th[t].pc = "at" /\ ~ th[t].rcu /\ th[t].pos # Nobody /\ th[t] \in Thread /\ LocalOf(t)
  BY DEF SeeHash, At, LookupInv, Typed, ThTyped, ThreadInv
<1>2. PICK pc \in {"lock", "next"} : pc = IF Chain[dn[th[t].pos].key] = Chain[th[t].key] THEN "lock" ELSE "next"
  OBVIOUS
<1>3. PICK r : r = [th[t] EXCEPT !.pc = pc]
  OBVIOUS
<1>4. r \in Thread
  BY <1>1, <1>3 DEF Thread, Calls, Walks
<1>5. /\ r.pc = pc /\ r.rcu = th[t].rcu /\ r.key = th[t].key /\ r.still = th[t].still /\ r.ok = th[t].ok
      /\ r.absent = th[t].absent /\ r.pos = th[t].pos
  BY <1>1, <1>3 DEF Thread
<1>6. th' = [th EXCEPT ![t] = r] /\ UNCHANGED <<dn, chain, ext, rename_lock>>
  BY <1>2, <1>3 DEF SeeHash, Goes
<1>7. t \in Walking /\ th[t].pos \in Dentries /\ ~ r.ok
  BY <1>1, <1>5 DEF Walking, LocalOf, Thread
<1>8. \A p, x \in Dentries :
        /\ dn[x].hashed /\ dn[x].key = th[t].key /\ p = th[t].pos /\ Leads(p, x)
        /\ At(t, "next") => p # x
        => r.pos \in Dentries /\ Leads(r.pos, x) /\ (r.pc = "next" => r.pos # x)
  BY <1>2, <1>5
<1>9. r.pos = th[t].pos \/ (th[t].pos # Nobody /\ r.pos = After(th[t].pos))
  BY <1>5
<1>10. r.pc \in {"at", "lock", "next"} /\ ~ r.rcu /\ (r.pc # "at" => r.pos \in Dentries)
  BY <1>1, <1>5, <1>7
<1>11. QED
  BY <1>1, <1>4, <1>5, <1>6, <1>7, <1>8, <1>9, <1>10, LookupOn

LEMMA CompareOn ==
  ASSUME LookupInv, NEW t \in Threads, Compare(t),
         ~ (/\ dn[th[t].pos].hashed /\ dn[th[t].pos].parent = th[t].key[1]
            /\ Text(th[t].pos, dn[th[t].pos].ptr) = th[t].key[2])
  PROVE  LookupInv'
<1>1. /\ th[t].pc = "lock" /\ ~ th[t].rcu /\ th[t].pos \in Dentries /\ th[t] \in Thread
      /\ LocalOf(t) /\ ~ th[t].ok
  BY DEF Compare, At, LookupInv, Typed, ThTyped, ThreadInv, LocalOf
<1>2. ~ Locked(th[t].pos)
  BY DEF Compare
<1>3. PICK r : r = [th[t] EXCEPT !.pc = "next"]
  OBVIOUS
<1>4. r \in Thread
  BY <1>1, <1>3 DEF Thread, Calls, Walks
<1>5. /\ r.pc = "next" /\ r.rcu = th[t].rcu /\ r.key = th[t].key /\ r.still = th[t].still /\ r.ok = th[t].ok
      /\ r.absent = th[t].absent /\ r.pos = th[t].pos
  BY <1>1, <1>3 DEF Thread
<1>6. th' = [th EXCEPT ![t] = r] /\ UNCHANGED <<dn, chain, ext, rename_lock>>
  BY <1>3 DEF Compare, Goes
<1>7. t \in Walking
  BY <1>1 DEF Walking
<1>8. ASSUME dn[th[t].pos].hashed, dn[th[t].pos].key = th[t].key PROVE FALSE
  <2>1. EntryOf(th[t].pos) /\ TextOf(th[t].pos)
    BY <1>1 DEF LookupInv
  <2>2. dn[th[t].pos].state = "live" /\ dn[th[t].pos].parent = dn[th[t].pos].key[1]
    BY <2>1, <1>2, <1>8 DEF EntryOf
  <2>3. Text(th[t].pos, dn[th[t].pos].ptr) = dn[th[t].pos].key[2]
    BY <2>1, <2>2 DEF TextOf
  <2>4. QED
    BY <2>2, <2>3, <1>8
<1>9. \A p, x \in Dentries :
        /\ dn[x].hashed /\ dn[x].key = th[t].key /\ p = th[t].pos /\ Leads(p, x)
        /\ At(t, "next") => p # x
        => r.pos \in Dentries /\ Leads(r.pos, x) /\ (r.pc = "next" => r.pos # x)
  BY <1>1, <1>5, <1>8
<1>10. r.pos = th[t].pos \/ (th[t].pos # Nobody /\ r.pos = After(th[t].pos))
  BY <1>5
<1>11. r.pc \in {"at", "lock", "next"} /\ ~ r.rcu /\ (r.pc # "at" => r.pos \in Dentries) /\ ~ r.ok
  BY <1>1, <1>5
<1>12. QED
  BY <1>1, <1>4, <1>5, <1>6, <1>7, <1>9, <1>10, <1>11, LookupOn


LEMMA SeqBeginKeeps ==
  ASSUME LookupInv, NEW t \in Threads, SeqBegin(t)
  PROVE  LookupInv'
<1>1. /\ th[t].pc = "seq" /\ th[t] \in Thread /\ ThreadInv(t) /\ LocalOf(t) /\ rename_lock = Nobody
      /\ ~ th[t].rcu /\ ~ th[t].ok /\ th[t].key \in Keys
  BY DEF SeqBegin, At, LookupInv, Typed, ThTyped, ThreadInv, LocalOf, Calls
<1>2. PICK b \in Chains : b = Chain[th[t].key]
  BY <1>1, LookupAssumption
<1>3. First(b) \in Dentries \cup {Nobody}
  BY FirstTyped DEF LookupInv, Typed
<1>4. PICK r : r = [th[t] EXCEPT !.pc = "at", !.still = TRUE, !.pos = First(b)]
  OBVIOUS
<1>5. r \in Thread
  BY <1>1, <1>3, <1>4 DEF Thread, Calls, Walks
<1>6. /\ r.pc = "at" /\ ~ r.rcu /\ r.key = th[t].key /\ r.still /\ ~ r.ok
      /\ r.absent = th[t].absent /\ r.pos = First(b)
  BY <1>1, <1>4 DEF Thread
<1>7. th' = [th EXCEPT ![t] = r] /\ UNCHANGED <<dn, chain, ext, rename_lock>>
  BY <1>2, <1>4 DEF SeqBegin
<1>8. ThTyped' /\ th'[t] = r /\ \A u \in Threads \ {t} : th'[u] = th[u]
  BY <1>5, <1>7 DEF LookupInv, Typed, ThTyped
<1>9. WalkStep(t)
  BY <1>1, <1>6, <1>7, <1>8 DEF WalkStep, Calls, Walks, Reads
<1>10. LocalOf(t)'
  BY <1>1, <1>6, <1>7, <1>8 DEF LocalOf, At, Moving, Moves, Calls, Walks, Reads
<1>11. ReachOf(t)'
  <2>1. Surrounded(t, Chains)'
    BY <1>6, <1>7, <1>8, WalkBegins
  <2>2. PICK B \in SUBSET Chains : B = {b}
    OBVIOUS
  <2>3. Surrounded(t, B)'
    BY <2>2, <1>6, <1>7, <1>8, WalkBegins
  <2>4. B = {Chain[th'[t].key]}
    BY <2>2, <1>2, <1>6, <1>8
  <2>5. Surrounded(t, {Chain[th[t].key]})'
    BY <2>3, <2>4
  <2>6. QED
    BY <2>1, <2>5 DEF ReachOf
<1>12. NamesOf(t)'
  <2>1. t \notin Walking
    BY <1>1 DEF Walking
  <2>2. QED
    BY <2>1, <1>6, <1>7, <1>8, NamesBegin
<1>13. \A k \in Keys : k = th'[t].key /\ ~ th'[t].absent => Present(k)'
  <2>1. \A k \in Keys : k = th[t].key /\ ~ th[t].absent => Present(k)
    BY <1>1 DEF ThreadInv, PresentOf, Calls
  <2>2. QED
    BY <2>1, <1>6, <1>7, <1>8 DEF Present, Has
<1>14. AheadOf(t)'
  <2>1. SUFFICES ASSUME ~ th'[t].absent PROVE AheadOf(t)'
    BY DEF AheadOf
  <2>2. PICK x \in Dentries : dn[x].hashed /\ dn[x].key = th[t].key
    BY <1>1, <1>6, <1>8, <2>1 DEF ThreadInv, PresentOf, Present, Has, Calls
  <2>3. ~ Out(x)
    BY <1>1, NoMove DEF LookupInv, ThreadInv
  <2>4. PICK k \in DOMAIN chain[b] : chain[b][k] = x
    BY <2>2, <2>3, <1>2, HasPlace
  <2>5. First(b) \in Dentries /\ Leads(First(b), x)
    BY <2>4, LeadsFirst DEF LookupInv, Typed, Table
  <2>6. PICK p \in Dentries : p = First(b)
    BY <2>5
  <2>7. Leads(p, x)'
    BY <2>5, <2>6, <1>7, LeadsStay
  <2>8. QED
    BY <2>2, <2>6, <2>7, <1>6, <1>7, <1>8, AheadBy
<1>15. NoneOf(t)'
  BY <1>6, <1>8 DEF NoneOf, At
<1>16. ThreadInv(t)'
  BY <1>6, <1>8, <1>10, <1>11, <1>12, <1>13, <1>14, <1>15, LookupThread
<1>17. QED
  BY <1>8, <1>9, <1>16, WalkKeeps

\* The steps of __d_lookup_rcu up to the end of its chain.
LEMMA RcuOn ==
  ASSUME LookupInv, NEW t \in Threads, t \in Walking, th[t].rcu,
         UNCHANGED <<dn, chain, ext, rename_lock>>, NEW r \in Thread, th' = [th EXCEPT ![t] = r],
         r.pc \in Walks \ {"lock"}, r.rcu, r.key = th[t].key, r.still = th[t].still,
         r.pos = th[t].pos \/ (th[t].pos # Nobody /\ r.pos = After(th[t].pos)),
         r.pc # "at" => r.pos \in Dentries,
         \A s \in Storages \cup {Inline} : r.pc = "cmp" /\ s = r.ptr => NameAlive(t, s),
         r.ok => /\ r.pos = th[t].pos /\ r.pos \in Dentries /\ ~ Locked(r.pos)
                 /\ r.pc \in {"key", "stable", "cmp", "got"} =>
                      dn[r.pos].hashed /\ dn[r.pos].parent = r.key[1]
                 /\ r.pc \in {"stable", "cmp"} => r.ptr = dn[r.pos].ptr
                 /\ r.pc = "got" => dn[r.pos].key = r.key
  PROVE  LookupInv'
<1>1. ThreadInv(t) /\ th[t].pc \in Walks
  BY WalkingIs DEF LookupInv
<1>2. ThTyped' /\ th'[t] = r /\ \A u \in Threads \ {t} : th'[u] = th[u]
  BY DEF LookupInv, Typed, ThTyped
<1>3. WalkStep(t)
  BY <1>1, <1>2 DEF WalkStep, Calls
<1>4. LocalOf(t)'
  BY <1>1, <1>2 DEF ThreadInv, LocalOf, At, Moving, Moves, Calls, Walks, Reads
<1>5. Surrounded(t, Chains)'
  BY <1>1, <1>2, WalksOn DEF ThreadInv, ReachOf
<1>6. NamesOf(t)'
  <2>1. PICK s \in Storages \cup {Inline} : s = r.ptr
    BY DEF Thread
  <2>2. r.pc = "cmp" => NameAlive(t, s)'
    BY <2>1 DEF NameAlive
  <2>3. At(t, "cmp")' => NameAlive(t, th[t].ptr)'
    BY <2>1, <2>2, <1>2 DEF At, NameAlive
  <2>4. QED
    BY <2>3, NamesOn
<1>7. SequenceOf(t)'
  <2>1. SUFFICES ASSUME r.ok PROVE SequenceOf(t)'
    BY <1>2 DEF SequenceOf
  <2>2. PICK d \in Dentries : d = r.pos
    BY <2>1
  <2>3. ~ Locked(d)'
    <3>1. \A u \in Threads \ {t} : Moved(u)' = Moved(u)
      BY <1>2 DEF Moved
    <3>2. Moved(t)' = {}
      BY <1>2, <1>3, NotMovingNext DEF WalkStep
    <3>3. QED
      BY <3>1, <3>2, <2>1, <2>2 DEF Locked
  <2>4. QED
    BY <2>1, <2>2, <2>3, <1>2 DEF SequenceOf, At
<1>8. ThreadInv(t)'
  BY <1>2, <1>4, <1>5, <1>6, <1>7, RcuThread
<1>9. QED
  BY <1>2, <1>3, <1>8, WalkKeeps


LEMMA WalkAlive ==
  ASSUME LookupInv, NEW t \in Walking, th[t].pos \in Dentries
  PROVE  Alive(t, th[t].pos) /\ NameAlive(t, dn[th[t].pos].ptr)
<1>1. t \in Threads
  BY DEF Walking
<1>2. ReachOf(t) /\ NamesOf(t)
  BY <1>1 DEF LookupInv, ThreadInv
<1>3. PICK S \in SUBSET Dentries : Around(t, Chains, S)
  BY <1>2 DEF ReachOf, Surrounded
<1>4. Alive(t, th[t].pos)
  BY <1>3, LookupAssumption DEF Around
<1>5. QED
  BY <1>2, <1>4 DEF NamesOf

LEMMA AdvanceKeeps ==
  ASSUME LookupInv, NEW t \in Threads, Advance(t)
  PROVE  LookupInv'
<1>1. th[t].pc = "next" /\ th[t].pos \in Dentries /\ th[t] \in Thread /\ LocalOf(t)
  BY DEF Advance, At, LookupInv, Typed, ThTyped, ThreadInv, LocalOf
<1>2. PICK p \in Dentries : p = th[t].pos
  BY <1>1
<1>3. After(p) \in Dentries \cup {Nobody} /\ p # Nobody
  BY AfterTyped, LookupAssumption DEF LookupInv, Typed, Table
<1>4. PICK r : r = [th[t] EXCEPT !.pc = "at", !.pos = After(p), !.ok = FALSE]
  OBVIOUS
<1>5. r \in Thread
  BY <1>1, <1>3, <1>4 DEF Thread, Calls, Walks
<1>6. /\ r.pc = "at" /\ r.rcu = th[t].rcu /\ r.key = th[t].key /\ r.still = th[t].still /\ ~ r.ok
      /\ r.absent = th[t].absent /\ r.pos = After(p)
  BY <1>1, <1>4 DEF Thread
<1>7. th' = [th EXCEPT ![t] = r] /\ UNCHANGED <<dn, chain, ext, rename_lock>>
  BY <1>2, <1>4 DEF Advance
<1>8. t \in Walking
  BY <1>1 DEF Walking
<1>9. r.pos = th[t].pos \/ (th[t].pos # Nobody /\ r.pos = After(th[t].pos))
  BY <1>2, <1>3, <1>6
<1>10. CASE th[t].rcu
  <2>1. r.pc \in Walks \ {"lock"}
    BY <1>6 DEF Walks
  <2>2. QED
    BY <1>5, <1>6, <1>7, <1>8, <1>9, <1>10, <2>1, RcuOn
<1>11. CASE ~ th[t].rcu
  <2>1. ASSUME NEW q \in Dentries, NEW x \in Dentries, dn[x].hashed, dn[x].key = th[t].key,
               q = th[t].pos, Leads(q, x), At(t, "next") => q # x
        PROVE  r.pos \in Dentries /\ Leads(r.pos, x) /\ (r.pc = "next" => r.pos # x)
    <3>1. q = p /\ q # x
      BY <2>1, <1>1, <1>2 DEF At
    <3>2. After(p) \in Dentries /\ Leads(After(p), x)
      BY <2>1, <3>1, <1>3, LeadsOn
    <3>3. QED
      BY <3>2, <1>6
  <2>2. QED
    BY <1>5, <1>6, <1>7, <1>8, <1>9, <1>11, <2>1, LookupOn
<1>12. QED
  BY <1>10, <1>11

LEMMA RcuSeqKeeps ==
  ASSUME LookupInv, NEW t \in Threads, RcuSeq(t)
  PROVE  LookupInv'
<1>1. th[t].pc = "at" /\ th[t].rcu /\ th[t].pos \in Dentries /\ th[t] \in Thread /\ t \in Walking
  BY DEF RcuSeq, At, LookupInv, Typed, ThTyped, Thread, Walking
<1>2. PICK ok \in BOOLEAN : ok = ~ Locked(th[t].pos)
  BY DEF Locked
<1>3. PICK r : r = [th[t] EXCEPT !.pc = "parent", !.ok = ok]
  OBVIOUS
<1>4. r \in Thread
  BY <1>1, <1>3 DEF Thread, Calls, Walks, Reads
<1>5. /\ r.pc = "parent" /\ r.rcu /\ r.key = th[t].key /\ r.still = th[t].still /\ r.ok = ok
      /\ r.pos = th[t].pos
  BY <1>1, <1>3 DEF Thread
<1>6. th' = [th EXCEPT ![t] = r] /\ UNCHANGED <<dn, chain, ext, rename_lock>>
  BY <1>2, <1>3 DEF RcuSeq
<1>7. r.pc \in Walks \ {"lock"}
  BY <1>5 DEF Walks, Reads
<1>8. QED
  BY <1>1, <1>2, <1>4, <1>5, <1>6, <1>7, RcuOn

LEMMA RcuParentKeeps ==
  ASSUME LookupInv, NEW t \in Threads, RcuParent(t)
  PROVE  LookupInv'
<1>1. /\ th[t].pc = "parent" /\ th[t].rcu /\ th[t].pos \in Dentries /\ th[t] \in Thread /\ t \in Walking
      /\ SequenceOf(t)
  BY DEF RcuParent, At, LookupInv, Typed, ThTyped, ThreadInv, LocalOf, Reads, Walking
<1>2. PICK pc \in {"key", "next"} :
        pc = IF dn[th[t].pos].parent = th[t].key[1] /\ dn[th[t].pos].hashed THEN "key" ELSE "next"
  OBVIOUS
<1>3. PICK r : r = [th[t] EXCEPT !.pc = pc]
  OBVIOUS
<1>4. r \in Thread
  BY <1>1, <1>3 DEF Thread, Calls, Walks, Reads
<1>5. /\ r.pc = pc /\ r.rcu /\ r.key = th[t].key /\ r.still = th[t].still /\ r.ok = th[t].ok
      /\ r.pos = th[t].pos
  BY <1>1, <1>3 DEF Thread
<1>6. th' = [th EXCEPT ![t] = r] /\ UNCHANGED <<dn, chain, ext, rename_lock>>
  BY <1>2, <1>3 DEF RcuParent, Goes
<1>7. r.pc \in Walks \ {"lock"}
  BY <1>5 DEF Walks, Reads
<1>8. th[t].ok => ~ Locked(th[t].pos)
  BY <1>1 DEF SequenceOf
<1>9. QED
  BY <1>1, <1>2, <1>4, <1>5, <1>6, <1>7, <1>8, RcuOn

LEMMA RcuKeyKeeps ==
  ASSUME LookupInv, NEW t \in Threads, RcuKey(t)
  PROVE  LookupInv'
<1>1. /\ th[t].pc = "key" /\ th[t].rcu /\ th[t].pos \in Dentries /\ th[t] \in Thread /\ t \in Walking
      /\ SequenceOf(t)
  BY DEF RcuKey, At, LookupInv, Typed, ThTyped, ThreadInv, LocalOf, Reads, Walking
<1>2. th[t].ok => /\ ~ Locked(th[t].pos) /\ dn[th[t].pos].hashed
                  /\ dn[th[t].pos].parent = th[t].key[1]
  BY <1>1 DEF SequenceOf
<1>3. PICK s \in Storages \cup {Inline} : s = dn[th[t].pos].ptr
  BY <1>1 DEF LookupInv, Typed, DnTyped, Entry
<1>4. NameAlive(t, s)
  BY <1>1, <1>3, WalkAlive
<1>5. CASE Chain[dn[th[t].pos].key] = Chain[th[t].key]
  <2>1. PICK pc \in {"stable", "cmp"} : pc = IF th[t].key[1] \in Comparing THEN "stable" ELSE "cmp"
    OBVIOUS
  <2>2. PICK r : r = [th[t] EXCEPT !.pc = pc, !.ptr = s]
    OBVIOUS
  <2>3. r \in Thread
    BY <1>1, <2>2 DEF Thread, Calls, Walks, Reads
  <2>4. /\ r.pc = pc /\ r.rcu /\ r.key = th[t].key /\ r.still = th[t].still /\ r.ok = th[t].ok
        /\ r.pos = th[t].pos /\ r.ptr = s
    BY <1>1, <2>2 DEF Thread
  <2>5. th' = [th EXCEPT ![t] = r] /\ UNCHANGED <<dn, chain, ext, rename_lock>>
    BY <1>3, <1>5, <2>1, <2>2 DEF RcuKey
  <2>6. r.pc \in Walks \ {"lock"}
    BY <2>4 DEF Walks, Reads
  <2>7. QED
    BY <1>1, <1>2, <1>3, <1>4, <2>1, <2>3, <2>4, <2>5, <2>6, RcuOn
<1>6. CASE Chain[dn[th[t].pos].key] # Chain[th[t].key]
  <2>1. PICK r : r = [th[t] EXCEPT !.pc = "next"]
    OBVIOUS
  <2>2. r \in Thread
    BY <1>1, <2>1 DEF Thread, Calls, Walks, Reads
  <2>3. /\ r.pc = "next" /\ r.rcu /\ r.key = th[t].key /\ r.still = th[t].still /\ r.ok = th[t].ok
        /\ r.pos = th[t].pos
    BY <1>1, <2>1 DEF Thread
  <2>4. th' = [th EXCEPT ![t] = r] /\ UNCHANGED <<dn, chain, ext, rename_lock>>
    BY <1>6, <2>1 DEF RcuKey, Goes
  <2>5. r.pc \in Walks \ {"lock"}
    BY <2>3 DEF Walks, Reads
  <2>6. QED
    BY <1>1, <1>2, <2>2, <2>3, <2>4, <2>5, RcuOn
<1>7. QED
  BY <1>5, <1>6

LEMMA RcuStableKeeps ==
  ASSUME LookupInv, NEW t \in Threads, RcuStable(t)
  PROVE  LookupInv'
<1>1. /\ th[t].pc = "stable" /\ th[t].rcu /\ th[t].pos \in Dentries /\ th[t] \in Thread /\ t \in Walking
      /\ SequenceOf(t)
  BY DEF RcuStable, At, LookupInv, Typed, ThTyped, ThreadInv, LocalOf, Reads, Walking
<1>2. th[t].ok => /\ ~ Locked(th[t].pos) /\ dn[th[t].pos].hashed
                  /\ dn[th[t].pos].parent = th[t].key[1] /\ th[t].ptr = dn[th[t].pos].ptr
  BY <1>1 DEF SequenceOf
<1>3. NameAlive(t, dn[th[t].pos].ptr)
  BY <1>1, WalkAlive
<1>4. CASE th[t].ok
  <2>1. PICK r : r = [th[t] EXCEPT !.pc = "cmp"]
    OBVIOUS
  <2>2. r \in Thread
    BY <1>1, <2>1 DEF Thread, Calls, Walks, Reads
  <2>3. /\ r.pc = "cmp" /\ r.rcu /\ r.key = th[t].key /\ r.still = th[t].still /\ r.ok = th[t].ok
        /\ r.pos = th[t].pos /\ r.ptr = th[t].ptr
    BY <1>1, <2>1 DEF Thread
  <2>4. th' = [th EXCEPT ![t] = r] /\ UNCHANGED <<dn, chain, ext, rename_lock>>
    BY <1>4, <2>1 DEF RcuStable
  <2>5. r.pc \in Walks \ {"lock"}
    BY <2>3 DEF Walks, Reads
  <2>6. \A s \in Storages \cup {Inline} : r.pc = "cmp" /\ s = r.ptr => NameAlive(t, s)
    BY <1>2, <1>3, <1>4, <2>3
  <2>7. QED
    BY <1>1, <1>2, <2>2, <2>3, <2>4, <2>5, <2>6, RcuOn
<1>5. CASE ~ th[t].ok
  <2>1. PICK r : r = [th[t] EXCEPT !.pc = "at", !.ptr = Inline]
    OBVIOUS
  <2>2. r \in Thread
    BY <1>1, <2>1 DEF Thread, Calls, Walks, Reads
  <2>3. /\ r.pc = "at" /\ r.rcu /\ r.key = th[t].key /\ r.still = th[t].still /\ ~ r.ok
        /\ r.pos = th[t].pos
    BY <1>1, <1>5, <2>1 DEF Thread
  <2>4. th' = [th EXCEPT ![t] = r] /\ UNCHANGED <<dn, chain, ext, rename_lock>>
    BY <1>5, <2>1 DEF RcuStable
  <2>5. r.pc \in Walks \ {"lock"}
    BY <2>3 DEF Walks, Reads
  <2>6. QED
    BY <1>1, <2>2, <2>3, <2>4, <2>5, RcuOn
<1>6. QED
  BY <1>4, <1>5

LEMMA RcuCompareKeeps ==
  ASSUME LookupInv, NEW t \in Threads, RcuCompare(t)
  PROVE  LookupInv'
<1>1. /\ th[t].pc = "cmp" /\ th[t].rcu /\ th[t].pos \in Dentries /\ th[t] \in Thread /\ t \in Walking
      /\ SequenceOf(t) /\ th[t].key \in Keys
  BY DEF RcuCompare, At, LookupInv, Typed, ThTyped, ThreadInv, LocalOf, Reads, Walks, Calls, Walking
<1>2. th[t].ok => /\ ~ Locked(th[t].pos) /\ dn[th[t].pos].hashed
                  /\ dn[th[t].pos].parent = th[t].key[1] /\ th[t].ptr = dn[th[t].pos].ptr
  BY <1>1 DEF SequenceOf
<1>3. PICK pc \in {"got", "next"} : pc = IF Text(th[t].pos, th[t].ptr) = th[t].key[2] THEN "got" ELSE "next"
  OBVIOUS
<1>4. PICK r : r = [th[t] EXCEPT !.pc = pc, !.ptr = Inline]
  OBVIOUS
<1>5. r \in Thread
  BY <1>1, <1>4 DEF Thread, Calls, Walks, Reads
<1>6. /\ r.pc = pc /\ r.rcu /\ r.key = th[t].key /\ r.still = th[t].still /\ r.ok = th[t].ok
      /\ r.pos = th[t].pos
  BY <1>1, <1>4 DEF Thread
<1>7. th' = [th EXCEPT ![t] = r] /\ UNCHANGED <<dn, chain, ext, rename_lock>>
  BY <1>3, <1>4 DEF RcuCompare
<1>8. r.pc \in Walks \ {"lock"}
  BY <1>6 DEF Walks, Reads
<1>9. r.ok /\ r.pc = "got" => dn[r.pos].key = r.key
  <2>1. SUFFICES ASSUME th[t].ok, pc = "got" PROVE dn[th[t].pos].key = th[t].key
    BY <1>6
  <2>2. EntryOf(th[t].pos) /\ TextOf(th[t].pos)
    BY <1>1 DEF LookupInv
  <2>3. /\ dn[th[t].pos].state = "live" /\ dn[th[t].pos].key \in Keys
        /\ dn[th[t].pos].parent = dn[th[t].pos].key[1]
    BY <1>2, <2>1, <2>2 DEF EntryOf
  <2>4. dn[th[t].pos].key[2] = th[t].key[2]
    BY <1>2, <1>3, <2>1, <2>2, <2>3 DEF TextOf
  <2>5. dn[th[t].pos].key[1] = th[t].key[1]
    BY <1>2, <2>1, <2>3
  <2>6. dn[th[t].pos].key \in Dirs \X Names /\ th[t].key \in Dirs \X Names
    BY <1>1, <2>3, LookupAssumption
  <2>7. QED
    BY <2>4, <2>5, <2>6
<1>10. QED
  BY <1>1, <1>2, <1>3, <1>5, <1>6, <1>7, <1>8, <1>9, RcuOn


-----------------------------------------------------------------------------
(* Threads beside a step that changes entries and names.                   *)

LEMMA ThreadKept ==
  ASSUME LookupInv, NEW u \in Threads, Faded(u), DnTyped',
         rename_lock' = u <=> rename_lock = u, th'[u].still => rename_lock' = Nobody,
         u \in Walking /\ Surrounded(u, Chains) => Surrounded(u, Chains)',
         \A B \in SUBSET Chains :
           u \in Walking /\ th'[u].still /\ Surrounded(u, B) => Surrounded(u, B)',
         u \in Walking =>
           \A d \in Dentries : \A s \in Storages \cup {Inline} :
             Alive(u, d)' /\ s = dn'[d].ptr => NameAlive(u, s)' \/ (Alive(u, d) /\ s = dn[d].ptr),
         u \in Walking => \A s \in Storages \cup {Inline} : NameAlive(u, s) => NameAlive(u, s)',
         \A d \in Dentries : th'[u].ok /\ d = th[u].pos => ~ Locked(d)',
         \A d \in Dentries : th'[u].ok /\ d = th[u].pos /\ dn[d].hashed =>
           /\ dn'[d].hashed /\ dn'[d].key = dn[d].key
           /\ dn'[d].parent = dn[d].parent /\ dn'[d].ptr = dn[d].ptr,
         \A k \in Keys : k = th[u].key /\ ~ th'[u].absent /\ Present(k) => Present(k)',
         \A p, x \in Dentries :
           /\ th'[u].still /\ ~ th'[u].absent /\ ~ th[u].rcu /\ u \in Walking
           /\ dn[x].hashed /\ dn[x].key = th[u].key /\ p = th[u].pos /\ Leads(p, x)
           => dn'[x].hashed /\ dn'[x].key = dn[x].key /\ Leads(p, x)'
  PROVE  ThreadInv(u)'
<1>1. ThreadInv(u) /\ ThTyped
  BY DEF LookupInv, Typed
<1>2. LocalOf(u)'
  BY <1>1, LocalKept DEF ThreadInv
<1>3. ReachOf(u)'
  <2> SUFFICES ASSUME (u \in Walking)'
               PROVE  Surrounded(u, Chains)' /\ (Steady(u)' => Surrounded(u, {Chain[th[u].key]})')
    BY DEF ReachOf
  <2>1. u \in Walking /\ Surrounded(u, Chains) /\ (Steady(u) => Surrounded(u, {Chain[th[u].key]}))
    BY <1>1, FadedWalk DEF ThreadInv, ReachOf
  <2>2. Surrounded(u, Chains)'
    BY <2>1
  <2>3. ASSUME Steady(u)' PROVE Surrounded(u, {Chain[th[u].key]})'
    <3>1. Steady(u) /\ th'[u].still
      BY <2>3 DEF Steady, Faded
    <3>2. th[u].key \in Keys
      BY <2>1, <1>1, WalkingIs DEF ThreadInv, LocalOf, Calls
    <3>9. Chain[th[u].key] \in Chains
      BY <3>2, LookupAssumption
    <3>3. PICK B \in SUBSET Chains : B = {Chain[th[u].key]}
      BY <3>9
    <3>4. Surrounded(u, B)
      BY <2>1, <3>1, <3>3
    <3>5. Surrounded(u, B)'
      BY <3>1, <3>4, <2>1
    <3>6. B = {Chain[th'[u].key]}
      BY <3>3 DEF Faded
    <3>7. QED
      BY <3>5, <3>6
  <2>4. QED
    BY <2>2, <2>3
<1>4. NamesOf(u)'
  <2>1. CASE u \in Walking
    BY <2>1, <1>1, NamesKept DEF ThreadInv
  <2>2. CASE u \notin Walking
    BY <2>2, FadedWalk DEF NamesOf
  <2>3. QED
    BY <2>1, <2>2
<1>5. SequenceOf(u)'
  BY <1>1, SequenceKept DEF ThreadInv
<1>6. PresentOf(u)'
  BY <1>1, PresentKept DEF ThreadInv
<1>7. AheadOf(u)'
  BY <1>1, AheadKept DEF ThreadInv
<1>8. QED
  BY <1>1, <1>2, <1>3, <1>4, <1>5, <1>6, <1>7, NoneKept DEF ThreadInv

-----------------------------------------------------------------------------
(* The end of a walk: what waited for it alone is freed.                   *)

\* What the end of a section does to an entry and to a name.
LeftEntry(t, d) ==
  /\ dn[d].waits = {t} => dn'[d] = NoDentry
  /\ dn[d].waits # {t} =>
       /\ dn'[d].state = dn[d].state /\ dn'[d].parent = dn[d].parent /\ dn'[d].key = dn[d].key
       /\ dn'[d].ptr = dn[d].ptr /\ dn'[d].hashed = dn[d].hashed /\ dn'[d].waits = dn[d].waits \ {t}
       /\ Walking # {t} => dn'[d].after = dn[d].after /\ dn'[d].iname = dn[d].iname
       /\ dn[d].ptr = Inline => dn'[d].iname = dn[d].iname
LeftName(t, s) ==
  /\ ext[s].waits = {t} => ext'[s] = NoName
  /\ ext[s].waits # {t} =>
       /\ ext'[s].state = ext[s].state /\ ext'[s].text = ext[s].text /\ ext'[s].count = ext[s].count
       /\ ext'[s].waits = ext[s].waits \ {t}

LEMMA NoDentryTyped == NoDentry \in Entry
  BY DEF NoDentry, Entry

LEMMA LeftOf ==
  ASSUME LookupInv, NEW t \in Threads, LeaveRcu(t)
  PROVE  /\ DnTyped' /\ ExtTyped'
         /\ \A d \in Dentries : LeftEntry(t, d)
         /\ \A s \in Storages : LeftName(t, s)
<1>1. dn \in [Dentries -> Entry] /\ ext \in [Storages -> External]
  BY DEF LookupInv, Typed, DnTyped, ExtTyped
<1>2. PICK left : left = Leave(dn, t, NoDentry)
  OBVIOUS
<1>3. left = [d \in Dentries |-> IF dn[d].waits = {t} THEN NoDentry ELSE [dn[d] EXCEPT !.waits = @ \ {t}]]
  BY <1>1, <1>2 DEF Leave
<1>4. left \in [Dentries -> Entry]
  <2>1. ASSUME NEW d \in Dentries PROVE left[d] \in Entry
    <3>1. dn[d] \in Entry
      BY <1>1
    <3>2. [dn[d] EXCEPT !.waits = @ \ {t}] \in Entry
      BY <3>1 DEF Entry
    <3>3. QED
      BY <3>2, <1>3, NoDentryTyped
  <2>2. QED
    BY <2>1, <1>3
<1>5. dn' = IF Walking = {t} THEN [d \in Dentries |-> [left[d] EXCEPT !.after = Nobody, !.iname = Needed(left[d])]]
            ELSE left
  BY <1>2 DEF LeaveRcu
<1>6. \A d \in Dentries : dn'[d] = IF Walking = {t} THEN [left[d] EXCEPT !.after = Nobody, !.iname = Needed(left[d])]
                                   ELSE left[d]
  BY <1>5
<1>7. ASSUME NEW d \in Dentries PROVE dn'[d] \in Entry /\ LeftEntry(t, d)
  <2>1. left[d] \in Entry /\ dn[d] \in Entry
    BY <1>1, <1>4
  <2>2. CASE Walking # {t}
    <3>1. dn'[d] = left[d]
      BY <2>2, <1>6
    <3>2. left[d] = IF dn[d].waits = {t} THEN NoDentry ELSE [dn[d] EXCEPT !.waits = @ \ {t}]
      BY <1>3
    <3>3. QED
      BY <2>1, <3>1, <3>2 DEF LeftEntry, Entry
  <2>3. CASE Walking = {t}
    <3>1. dn'[d] = [left[d] EXCEPT !.after = Nobody, !.iname = Needed(left[d])]
      BY <2>3, <1>6
    <3>2. left[d] = IF dn[d].waits = {t} THEN NoDentry ELSE [dn[d] EXCEPT !.waits = @ \ {t}]
      BY <1>3
    <3>3. Needed(left[d]) \in Names \cup {Nobody}
      BY <2>1 DEF Needed, Entry
    <3>4. dn'[d] \in Entry
      BY <2>1, <3>1, <3>3 DEF Entry
    <3>5. CASE dn[d].waits = {t}
      <4>1. dn'[d] = [NoDentry EXCEPT !.after = Nobody, !.iname = Nobody]
        BY <3>1, <3>2, <3>5 DEF Needed, NoDentry
      <4>2. QED
        BY <4>1, <3>4, <3>5 DEF LeftEntry, NoDentry
    <3>6. CASE dn[d].waits # {t}
      <4>1. left[d] = [dn[d] EXCEPT !.waits = @ \ {t}]
        BY <3>2, <3>6
      <4>2. dn[d].ptr = Inline => Needed(left[d]) = dn[d].iname
        BY <4>1, <2>1 DEF Needed, Entry
      <4>3. QED
        BY <4>1, <4>2, <2>1, <2>3, <3>1, <3>4, <3>6 DEF LeftEntry, Entry
    <3>7. QED
      BY <3>5, <3>6
  <2>4. QED
    BY <2>2, <2>3
<1>8. DnTyped'
  <2>1. dn' = [d \in Dentries |-> dn'[d]]
    BY <1>4, <1>5
  <2>2. QED
    BY <2>1, <1>7 DEF DnTyped
<1>9. ext' = [s \in Storages |-> IF ext[s].waits = {t} THEN NoName ELSE [ext[s] EXCEPT !.waits = @ \ {t}]]
  BY <1>1 DEF LeaveRcu, Leave
<1>10. ASSUME NEW s \in Storages PROVE ext'[s] \in External /\ LeftName(t, s)
  <2>1. ext[s] \in External /\ NoName \in External
    BY <1>1 DEF NoName, External
  <2>2. ext'[s] = IF ext[s].waits = {t} THEN NoName ELSE [ext[s] EXCEPT !.waits = @ \ {t}]
    BY <1>9
  <2>3. QED
    BY <2>1, <2>2 DEF LeftName, External
<1>11. ExtTyped'
  BY <1>9, <1>10 DEF ExtTyped
<1>12. QED
  BY <1>7, <1>8, <1>10, <1>11


LEMMA LeaveKeeps ==
  ASSUME LookupInv, NEW t \in Threads, t \in Walking, LeaveRcu(t), UNCHANGED <<chain, rename_lock>>,
         NEW r \in Thread, th' = [th EXCEPT ![t] = r], r.pc \in {"idle", "valid", "seq", "none"}, ThreadInv(t)'
  PROVE  LookupInv'
<1>1. ThTyped' /\ th'[t] = r /\ \A u \in Threads \ {t} : th'[u] = th[u]
  BY DEF LookupInv, Typed, ThTyped
<1>2. DnTyped' /\ ExtTyped' /\ (\A d \in Dentries : LeftEntry(t, d)) /\ \A s \in Storages : LeftName(t, s)
  BY LeftOf
<1>3. Walking' = Walking \ {t}
  BY <1>1 DEF Walking
<1>4. /\ \A d \in Dentries : EntryOf(d)
      /\ \A s \in Storages : CountedName(s)
  BY DEF LookupInv
<1>5. \A d \in Dentries : dn[d].waits = {t} => dn[d].state = "dying" /\ dn[d].hashed = FALSE
  <2>1. \A d \in Dentries : dn[d].waits = {t} => dn[d].state = "dying" /\ ~ dn[d].hashed
    BY <1>4, HashedLive DEF EntryOf
  <2>2. \A d \in Dentries : dn[d].hashed \in BOOLEAN
    BY DEF LookupInv, Typed, DnTyped, Entry
  <2>3. QED
    BY <2>1, <2>2
<1>6. \A d \in Dentries :
        /\ dn'[d].hashed = dn[d].hashed
        /\ dn[d].state = "live" => /\ dn'[d].state = "live" /\ dn'[d].key = dn[d].key /\ dn'[d].parent = dn[d].parent
                                   /\ dn'[d].ptr = dn[d].ptr /\ (dn[d].ptr = Inline => dn'[d].iname = dn[d].iname)
        /\ dn'[d].state = "live" => dn[d].state = "live"
  <2> SUFFICES ASSUME NEW d \in Dentries
               PROVE  /\ dn'[d].hashed = dn[d].hashed
                      /\ dn[d].state = "live" => /\ dn'[d].state = "live" /\ dn'[d].key = dn[d].key /\ dn'[d].parent = dn[d].parent
                                                 /\ dn'[d].ptr = dn[d].ptr /\ (dn[d].ptr = Inline => dn'[d].iname = dn[d].iname)
                      /\ dn'[d].state = "live" => dn[d].state = "live"
    OBVIOUS
  <2>1. LeftEntry(t, d)
    BY <1>2
  <2>2. CASE dn[d].waits = {t}
    <3>1. dn'[d] = NoDentry
      BY <2>1, <2>2 DEF LeftEntry
    <3>2. dn'[d].hashed = FALSE /\ dn'[d].state = "free"
      BY <3>1 DEF NoDentry
    <3>3. QED
      BY <2>2, <3>2, <1>5
  <2>3. CASE dn[d].waits # {t}
    BY <2>1, <2>3 DEF LeftEntry
  <2>4. QED
    BY <2>2, <2>3
<1>7. \A u \in Threads : SameMove(u) /\ Gone(u)' = Gone(u) /\ Moved(u)' = Moved(u)
  <2>1. \A u \in Threads \ {t} : SameMove(u) /\ Gone(u)' = Gone(u) /\ Moved(u)' = Moved(u)
    BY <1>1, SameFaded, FadedMove
  <2>2. th[t].pc \in {"idle", "snapshot", "valid"} \cup Calls /\ th'[t].pc \in {"idle", "snapshot", "valid"} \cup Calls
    BY <1>1, WalkingIs DEF Calls
  <2>3. SameMove(t) /\ Gone(t)' = Gone(t) /\ Moved(t)' = Moved(t)
    BY <2>2, NotMoving, NotMovingNext DEF SameMove
  <2>4. QED
    BY <2>1, <2>3
<1>8. \A d : Locked(d)' <=> Locked(d)
  BY <1>7 DEF Locked
<1>9. Table'
  <2>1. SameEntries
    BY <1>6 DEF SameEntries
  <2>2. QED
    BY <1>7, <2>1, TableSame
<1>10. \A s \in Storages : Users(s)' = Users(s)
  <2> SUFFICES ASSUME NEW s \in Storages PROVE Users(s)' = Users(s)
    OBVIOUS
  <2>1. \A d \in Dentries : dn'[d].state = "live" /\ dn'[d].ptr = s <=> dn[d].state = "live" /\ dn[d].ptr = s
    BY <1>6
  <2>2. \A u \in Threads : (At(u, "snapshot") /\ th[u].ptr = s)' <=> At(u, "snapshot") /\ th[u].ptr = s
    BY <1>1, WalkingIs DEF At, Walking
  <2>3. QED
    BY <2>1, <2>2 DEF Users
<1>11. ASSUME NEW s \in Storages PROVE CountedName(s)'
  <2>1. CountedName(s) /\ LeftName(t, s) /\ Users(s)' = Users(s)
    BY <1>2, <1>4, <1>10
  <2>2. CASE ext[s].waits = {t}
    <3>1. ext[s].state # "used"
      BY <2>1, <2>2 DEF CountedName
    <3>2. Users(s) = {}
      BY <2>1, <3>1 DEF CountedName
    <3>3. Cardinality(Users(s)) = 0
      BY <3>2, FS_EmptySet
    <3>4. ext'[s] = NoName /\ NoName.count = 0 /\ NoName.waits = {}
      BY <2>1, <2>2 DEF LeftName, NoName
    <3>5. QED
      BY <2>1, <3>2, <3>3, <3>4 DEF CountedName
  <2>3. CASE ext[s].waits # {t}
    BY <2>1, <2>3 DEF LeftName, CountedName
  <2>4. QED
    BY <2>2, <2>3
<1>12. ASSUME NEW d \in Dentries PROVE EntryOf(d)' /\ TextOf(d)'
  <2>1. EntryOf(d) /\ TextOf(d) /\ LeftEntry(t, d)
    BY <1>2 DEF LookupInv
  <2>2. EntryOf(d)'
    <3>1. CASE dn[d].waits = {t}
      <4>1. dn'[d] = NoDentry
        BY <2>1, <3>1 DEF LeftEntry
      <4>2. ~ Locked(d)'
        BY <2>1, <3>1, <1>5, <1>8 DEF EntryOf
      <4>3. QED
        BY <4>1, <4>2 DEF EntryOf, NoDentry
    <3>2. CASE dn[d].waits # {t}
      BY <2>1, <3>2, <1>3, <1>8 DEF LeftEntry, EntryOf
    <3>3. QED
      BY <3>1, <3>2
  <2>3. TextOf(d)'
    <3>1. SUFFICES ASSUME dn'[d].state = "live" PROVE Text(d, dn[d].ptr)' = dn'[d].key[2]
      BY DEF TextOf
    <3>2. dn[d].state = "live" /\ dn'[d].ptr = dn[d].ptr /\ dn'[d].key = dn[d].key
      BY <3>1, <1>6
    <3>3. Text(d, dn[d].ptr) = dn[d].key[2]
      BY <2>1, <3>2 DEF TextOf
    <3>4. CASE dn[d].ptr = Inline
      BY <3>2, <3>3, <3>4, <1>6 DEF Text
    <3>5. CASE dn[d].ptr # Inline
      <4>1. PICK s \in Storages : s = dn[d].ptr
        BY <3>5 DEF LookupInv, Typed, DnTyped, Entry
      <4>2. d \in Users(s)
        BY <4>1, <3>2 DEF Users
      <4>3. ext[s].waits = {}
        BY <4>2, <1>4 DEF CountedName
      <4>4. ext'[s].text = ext[s].text
        BY <4>3, <1>2 DEF LeftName
      <4>5. QED
        BY <3>2, <3>3, <3>5, <4>1, <4>4 DEF Text
    <3>6. QED
      BY <3>4, <3>5
  <2>4. QED
    BY <2>2, <2>3
<1>13. ASSUME NEW u \in Threads \ {t} PROVE ThreadInv(u)'
  <2>1. ThreadInv(u) /\ Faded(u) /\ th'[u] = th[u]
    BY <1>1, SameFaded DEF LookupInv
  <2>2. th'[u].still => rename_lock' = Nobody
    BY <2>1 DEF ThreadInv, LocalOf
  <2>3. ASSUME u \in Walking
        PROVE  /\ StaysAlive(u) /\ AfterSame(u)
               /\ \A s \in Storages \cup {Inline} : NameAlive(u, s) => NameAlive(u, s)'
    <3>1. Walking # {t}
      BY <2>3
    <3>2. \A d \in Dentries : Alive(u, d) => dn[d].waits # {t}
      BY <1>5 DEF Alive
    <3>3. StaysAlive(u)
      BY <3>2, <1>2 DEF StaysAlive, Alive, LeftEntry
    <3>4. ASSUME NEW y \in Dentries, Alive(u, y) PROVE After(y)' = After(y)
      <4>1. dn'[y].after = dn[y].after
        BY <3>1, <3>2, <3>4, <1>2 DEF LeftEntry
      <4>2. QED
        BY <4>1, ChainSame, AfterOut
    <3>5. \A s \in Storages \cup {Inline} : NameAlive(u, s) => NameAlive(u, s)'
      <4> SUFFICES ASSUME NEW s \in Storages, NameAlive(u, s) PROVE NameAlive(u, s)'
        BY DEF NameAlive
      <4>1. ext[s].waits # {t} \/ s = Inline
        BY <1>4 DEF CountedName, NameAlive
      <4>2. QED
        BY <4>1, <1>2 DEF LeftName, NameAlive
    <3>6. QED
      BY <3>3, <3>4, <3>5 DEF AfterSame
  <2>4. \A B : u \in Walking /\ Surrounded(u, B) => Surrounded(u, B)'
    <3> SUFFICES ASSUME NEW B, u \in Walking, Surrounded(u, B) PROVE Surrounded(u, B)'
      OBVIOUS
    <3>1. \A b \in B : \A i \in DOMAIN chain'[b] : \E j \in DOMAIN chain[b] : chain'[b][i] = chain[b][j]
      OBVIOUS
    <3>2. QED
      BY <2>1, <2>3, <3>1, SurroundedSame
  <2>5. u \in Walking =>
           \A d \in Dentries : \A s \in Storages \cup {Inline} :
             Alive(u, d)' /\ s = dn'[d].ptr => NameAlive(u, s)' \/ (Alive(u, d) /\ s = dn[d].ptr)
    <3> SUFFICES ASSUME NEW d \in Dentries, Alive(u, d)' PROVE Alive(u, d) /\ dn'[d].ptr = dn[d].ptr
      OBVIOUS
    <3>1. dn[d].waits # {t}
      BY <1>2 DEF LeftEntry, NoDentry, Alive
    <3>2. QED
      BY <3>1, <1>2 DEF LeftEntry, Alive
  <2>6. \A d \in Dentries : th'[u].ok /\ d = th[u].pos => ~ Locked(d)'
    BY <2>1, <1>8 DEF ThreadInv, SequenceOf
  <2>7. \A d \in Dentries : dn[d].hashed =>
           /\ dn'[d].hashed /\ dn'[d].key = dn[d].key
           /\ dn'[d].parent = dn[d].parent /\ dn'[d].ptr = dn[d].ptr
    BY <1>6, HashedLive
  <2>8. \A k : Present(k) => Present(k)'
    BY <2>7, PresentSame
  <2>9. \A p, x \in Dentries : p = th[u].pos /\ u \in Walking /\ Leads(p, x) => Leads(p, x)'
    <3> SUFFICES ASSUME NEW p \in Dentries, NEW x \in Dentries, p = th[u].pos, u \in Walking, Leads(p, x)
                 PROVE  Leads(p, x)'
      OBVIOUS
    <3>1. Surrounded(u, Chains)
      BY <2>1 DEF ThreadInv, ReachOf
    <3>2. QED
      BY <2>3, <3>1, LeadsSame
  <2>10. QED
    BY <1>2, <2>1, <2>2, <2>3, <2>4, <2>5, <2>6, <2>7, <2>8, <2>9, ThreadKept
<1>14. Typed'
  BY <1>1, <1>2, ChainSame DEF LookupInv, Typed, LockTyped
<1>15. ASSUME NEW u \in Threads PROVE ParentsOf(u)'
  <2>1. CASE u = t
    BY <2>1, <1>1, NotMovingNext DEF ParentsOf, Calls
  <2>2. CASE u # t
    <3>1. \A x \in Dentries : Locked(x) => dn'[x].parent = dn[x].parent /\ dn'[x].key = dn[x].key
      BY <1>4, <1>6 DEF EntryOf
    <3>2. QED
      BY <2>2, <1>1, <3>1, ParentsKept
  <2>3. QED
    BY <2>1, <2>2
<1>16. QED
  BY <1>9, <1>11, <1>12, <1>13, <1>14, <1>15 DEF LookupInv


\* Where the thread that leaves comes to.
LEMMA LeaveToIdle ==
  ASSUME LookupInv, NEW t \in Threads, t \in Walking, LeaveRcu(t), UNCHANGED <<chain, rename_lock>>,
         NEW r \in Thread, th' = [th EXCEPT ![t] = r], r.pc \in {"idle", "valid"},
         ~ r.ok, ~ r.still, r.pc = "idle" => r.key = Nobody, r.pc = "valid" => r.key \in Keys
  PROVE  LookupInv'
<1>1. th'[t] = r /\ LocalOf(t) /\ th[t].pc \in Walks
  BY WalkingIs DEF LookupInv, Typed, ThTyped, ThreadInv
<1>2. LocalOf(t)' /\ th'[t].pc \notin Calls
  BY <1>1 DEF LocalOf, At, Moving, Moves, Calls, Walks, Reads
<1>3. ThreadInv(t)'
  BY <1>1, <1>2, IdleThread
<1>4. QED
  BY <1>3, LeaveKeeps

LEMMA IdleTyped == Idle \in Thread /\ Idle.pc = "idle" /\ ~ Idle.ok /\ ~ Idle.still /\ Idle.key = Nobody
  BY DEF Idle, Thread

LEMMA CompareFound ==
  ASSUME LookupInv, NEW t \in Threads, Compare(t),
         dn[th[t].pos].hashed, dn[th[t].pos].parent = th[t].key[1],
         Text(th[t].pos, dn[th[t].pos].ptr) = th[t].key[2]
  PROVE  LookupInv'
<1>1. /\ th' = [th EXCEPT ![t] = Idle] /\ LeaveRcu(t) /\ UNCHANGED <<chain, rename_lock>>
      /\ t \in Walking
  BY DEF Compare, At, Walking
<1>2. QED
  BY <1>1, IdleTyped, LeaveToIdle

LEMMA RcuNoneKeeps ==
  ASSUME LookupInv, NEW t \in Threads, RcuNone(t)
  PROVE  LookupInv'
<1>1. /\ th' = [th EXCEPT ![t] = Idle] /\ LeaveRcu(t) /\ UNCHANGED <<chain, rename_lock>>
      /\ t \in Walking
  BY DEF RcuNone, At, Walking
<1>2. QED
  BY <1>1, IdleTyped, LeaveToIdle

LEMMA RcuConfirmKeeps ==
  ASSUME LookupInv, NEW t \in Threads, RcuConfirm(t)
  PROVE  LookupInv'
<1>1. /\ LeaveRcu(t) /\ UNCHANGED <<chain, rename_lock>> /\ t \in Walking
      /\ th[t].key \in Keys /\ th[t].pos \in Dentries /\ th[t].pc = "got"
  BY DEF RcuConfirm, At, Walking, LookupInv, ThreadInv, LocalOf, Calls, Walks, Reads
<1>2. CASE th[t].ok
  <2>1. PICK r : r = [Idle EXCEPT !.pc = "valid", !.pos = th[t].pos, !.key = th[t].key]
    OBVIOUS
  <2>2. r \in Thread /\ r.pc = "valid" /\ ~ r.ok /\ ~ r.still /\ r.key = th[t].key
    BY <1>1, <2>1, IdleTyped DEF Thread
  <2>3. th' = [th EXCEPT ![t] = r]
    BY <1>2, <2>1 DEF RcuConfirm
  <2>4. QED
    BY <1>1, <2>2, <2>3, LeaveToIdle
<1>3. CASE ~ th[t].ok
  <2>1. th' = [th EXCEPT ![t] = Idle]
    BY <1>3 DEF RcuConfirm
  <2>2. QED
    BY <1>1, <2>1, IdleTyped, LeaveToIdle
<1>4. QED
  BY <1>2, <1>3

LEMMA LookupEndKeeps ==
  ASSUME LookupInv, NEW t \in Threads, LookupEnd(t)
  PROVE  LookupInv'
<1>1. /\ th[t].pc = "at" /\ ~ th[t].rcu /\ th[t].pos = Nobody /\ LeaveRcu(t) /\ UNCHANGED <<chain, rename_lock>>
      /\ t \in Walking /\ th[t] \in Thread /\ ThreadInv(t)
  BY DEF LookupEnd, At, Walking, LookupInv, Typed, ThTyped
<1>2. PICK pc \in {"seq", "none"} : pc = IF th[t].still THEN "none" ELSE "seq"
  OBVIOUS
<1>3. PICK r : r = [th[t] EXCEPT !.pc = pc]
  OBVIOUS
<1>4. r \in Thread
  BY <1>1, <1>3 DEF Thread, Calls
<1>5. /\ r.pc = pc /\ r.rcu = th[t].rcu /\ r.key = th[t].key /\ r.still = th[t].still /\ r.ok = th[t].ok
      /\ r.absent = th[t].absent
  BY <1>1, <1>3 DEF Thread
<1>6. th' = [th EXCEPT ![t] = r]
  BY <1>2, <1>3 DEF LookupEnd, Goes, Retries
<1>7. th'[t] = r
  BY <1>6 DEF LookupInv, Typed, ThTyped
<1>8. LocalOf(t)'
  BY <1>1, <1>2, <1>5, <1>7 DEF ThreadInv, LocalOf, At, Moving, Moves, Calls, Walks, Reads
<1>9. (t \notin Walking)'
  BY <1>5, <1>7 DEF Walking
<1>10. pc = "none" => th[t].absent
  <2>1. SUFFICES ASSUME th[t].still, ~ th[t].absent PROVE FALSE
    BY <1>2
  <2>2. th[t].pos \in Dentries
    BY <1>1, <2>1 DEF ThreadInv, AheadOf, Steady
  <2>3. QED
    BY <1>1, <2>2, LookupAssumption
<1>11. NoneOf(t)'
  BY <1>5, <1>7, <1>10 DEF NoneOf, At
<1>12. \A k \in Keys : k = th'[t].key /\ ~ th'[t].absent => Present(k)'
  <2> SUFFICES ASSUME NEW k \in Keys, k = th[t].key, ~ th[t].absent PROVE Present(k)'
    BY <1>5, <1>7
  <2>1. Present(k)
    BY <1>1 DEF ThreadInv, PresentOf, Calls, Walks
  <2>2. PICK x \in Dentries : dn[x].hashed /\ dn[x].key = k
    BY <2>1 DEF Present, Has
  <2>3. dn[x].waits # {t} /\ LeftEntry(t, x)
    <3>1. dn[x].waits = {}
      BY <2>2, HashedLive DEF LookupInv, EntryOf
    <3>2. QED
      BY <3>1, <1>1, LeftOf
  <2>4. dn'[x].hashed /\ dn'[x].key = k
    BY <2>2, <2>3 DEF LeftEntry
  <2>5. QED
    BY <2>4 DEF Present, Has
<1>13. ThreadInv(t)'
  BY <1>1, <1>2, <1>5, <1>7, <1>8, <1>9, <1>11, <1>12, LookupThread DEF ReachOf, NamesOf, AheadOf
<1>14. QED
  BY <1>1, <1>2, <1>4, <1>5, <1>6, <1>13, LeaveKeeps


-----------------------------------------------------------------------------
(* What steps on entries do to the threads, to names and to the table.     *)

LEMMA SeenOf ==
  ASSUME NEW f \in [Threads -> Thread], th' = Seen(f)
  PROVE  /\ ThTyped'
         /\ \A u \in Threads :
              /\ th'[u].pc = f[u].pc /\ th'[u].rcu = f[u].rcu /\ th'[u].key = f[u].key
              /\ th'[u].pos = f[u].pos /\ th'[u].ptr = f[u].ptr /\ th'[u].still = f[u].still
              /\ th'[u].ok = f[u].ok /\ th'[u].d = f[u].d /\ th'[u].e = f[u].e
              /\ th'[u].exchange = f[u].exchange
              /\ f[u].absent => th'[u].absent
              /\ \A k \in Keys : k = f[u].key /\ ~ th'[u].absent => Present(k)'
<1>1. ASSUME NEW u \in Threads
      PROVE  /\ th'[u] \in Thread
             /\ th'[u].pc = f[u].pc /\ th'[u].rcu = f[u].rcu /\ th'[u].key = f[u].key
             /\ th'[u].pos = f[u].pos /\ th'[u].ptr = f[u].ptr /\ th'[u].still = f[u].still
             /\ th'[u].ok = f[u].ok /\ th'[u].d = f[u].d /\ th'[u].e = f[u].e
             /\ th'[u].exchange = f[u].exchange
             /\ f[u].absent => th'[u].absent
             /\ \A k \in Keys : k = f[u].key /\ ~ th'[u].absent => Present(k)'
  <2>1. PICK a \in BOOLEAN : a = (f[u].absent \/ (f[u].key # Nobody /\ ~ Has(dn', f[u].key)))
    BY DEF Has
  <2>2. f[u] \in Thread
    OBVIOUS
  <2>3. th'[u] = [f[u] EXCEPT !.absent = a]
    BY <2>1 DEF Seen
  <2>4. th'[u] \in Thread /\ th'[u].absent = a
    BY <2>2, <2>3 DEF Thread
  <2>5. \A k \in Keys : k # Nobody
    BY LookupAssumption
  <2>6. \A k \in Keys : k = f[u].key /\ ~ a => Has(dn', k)
    BY <2>1, <2>5
  <2>7. \A k \in Keys : k = f[u].key /\ ~ th'[u].absent => Present(k)'
    BY <2>4, <2>6 DEF Present
  <2>8. f[u].absent => a
    BY <2>1
  <2>9. QED
    BY <2>2, <2>3, <2>4, <2>7, <2>8 DEF Thread
<1>2. th' = [u \in Threads |-> th'[u]]
  BY DEF Seen
<1>3. ThTyped'
  BY <1>1, <1>2 DEF ThTyped
<1>4. QED
  BY <1>1, <1>3

LEMMA InvalidatesOf ==
  ASSUME NEW f \in [Threads -> Thread], NEW S, NEW g, g = Invalidates(f, S)
  PROVE  /\ g \in [Threads -> Thread]
         /\ \A u \in Threads :
              /\ g[u].pc = f[u].pc /\ g[u].rcu = f[u].rcu /\ g[u].key = f[u].key
              /\ g[u].pos = f[u].pos /\ g[u].ptr = f[u].ptr /\ g[u].still = f[u].still
              /\ g[u].absent = f[u].absent /\ g[u].d = f[u].d /\ g[u].e = f[u].e
              /\ g[u].exchange = f[u].exchange
              /\ g[u].ok => f[u].ok /\ f[u].pos \notin S
<1>1. ASSUME NEW u \in Threads
      PROVE  /\ g[u] \in Thread
             /\ g[u].pc = f[u].pc /\ g[u].rcu = f[u].rcu /\ g[u].key = f[u].key
             /\ g[u].pos = f[u].pos /\ g[u].ptr = f[u].ptr /\ g[u].still = f[u].still
             /\ g[u].absent = f[u].absent /\ g[u].d = f[u].d /\ g[u].e = f[u].e
             /\ g[u].exchange = f[u].exchange
             /\ g[u].ok => f[u].ok /\ f[u].pos \notin S
  <2>1. PICK a \in BOOLEAN : a = (f[u].ok /\ f[u].pos \notin S)
    BY DEF Thread
  <2>2. f[u] \in Thread
    OBVIOUS
  <2>3. g[u] = [f[u] EXCEPT !.ok = a]
    BY <2>1 DEF Invalidates
  <2>4. QED
    BY <2>1, <2>2, <2>3 DEF Thread
<1>2. g = [u \in Threads |-> g[u]]
  BY DEF Invalidates
<1>3. QED
  BY <1>1, <1>2

LEMMA OutLocked ==
  ASSUME NEW d, Out(d)
  PROVE  Locked(d)
<1>1. \A t \in Threads : Gone(t) \subseteq Moved(t)
  BY DEF Gone, Moved
<1>2. QED
  BY <1>1 DEF Out, Locked

\* kfree_rcu of a name waits for the walks under way.
LEMMA PutOf ==
  ASSUME NEW f \in [Storages -> External], NEW s \in Storages, f[s].count # 0
  PROVE  /\ Put(f, s) \in [Storages -> External]
         /\ \A x \in Storages \ {s} : Put(f, s)[x] = f[x]
         /\ Put(f, s)[s].count = f[s].count - 1
         /\ f[s].count # 1 => /\ Put(f, s)[s].state = f[s].state /\ Put(f, s)[s].text = f[s].text
                              /\ Put(f, s)[s].waits = f[s].waits
         /\ f[s].count = 1 => Put(f, s)[s].state # "used"
         /\ f[s].count = 1 /\ Put(f, s)[s].state # "dying" => Put(f, s)[s].waits = {}
         /\ f[s].count = 1 /\ Walking # {} => Put(f, s)[s].waits = Walking
<1>1. f[s] \in External /\ f[s].count \in Nat
  BY DEF External
<1> DEFINE z == IF f[s].count > 1 THEN [f[s] EXCEPT !.count = @ - 1]
                ELSE IF Walking = {} THEN NoName
                ELSE [f[s] EXCEPT !.count = 0, !.state = "dying", !.waits = Walking]
<1>2. Put(f, s) = [f EXCEPT ![s] = z]
  BY LookupAssumption DEF Put
<1>3. Walking \in SUBSET Threads
  BY DEF Walking
<1>4. z \in External /\ z.count = f[s].count - 1
  <2>1. CASE f[s].count > 1
    <3>1. f[s].count - 1 \in Nat
      BY <1>1, <2>1
    <3>2. QED
      BY <1>1, <2>1, <3>1 DEF External
  <2>2. CASE ~ (f[s].count > 1)
    <3>1. f[s].count = 1
      BY <1>1, <2>2
    <3>2. CASE Walking = {}
      <4>1. z = NoName
        BY <2>2, <3>2
      <4>2. NoName \in External /\ NoName.count = 0
        BY DEF External, NoName
      <4> HIDE DEF z
      <4>3. QED
        BY <3>1, <4>1, <4>2
    <3>3. CASE Walking # {}
      <4>1. z = [f[s] EXCEPT !.count = 0, !.state = "dying", !.waits = Walking]
        BY <2>2, <3>3
      <4> HIDE DEF z
      <4>2. z \in External /\ z.count = 0
        BY <1>1, <1>3, <4>1 DEF External
      <4>3. QED
        BY <3>1, <4>2
    <3>4. QED
      BY <3>2, <3>3
  <2>3. QED
    BY <2>1, <2>2
<1>5. f[s].count # 1 => z.state = f[s].state /\ z.text = f[s].text /\ z.waits = f[s].waits
  BY <1>1 DEF External
<1>6. f[s].count = 1 => z.state # "used"
  BY <1>1 DEF NoName, External
<1>7. f[s].count = 1 /\ Walking # {} => z.waits = Walking
  BY <1>1 DEF External
<1>8. f[s].count = 1 /\ z.state # "dying" => z.waits = {}
  <2>1. CASE Walking = {}
    BY <1>1, <2>1 DEF NoName, External
  <2>2. CASE Walking # {}
    BY <1>1, <2>2 DEF External
  <2>3. QED
    BY <2>1, <2>2
<1> HIDE DEF z
<1>9. QED
  BY <1>2, <1>4, <1>5, <1>6, <1>7, <1>8

LEMMA UsersFinite ==
  ASSUME NEW s
  PROVE  IsFiniteSet(Users(s)) /\ IsFiniteSet(Users(s))'
<1>1. IsFiniteSet(Dentries \cup Threads)
  BY LookupAssumption, FS_Union
<1>2. Users(s) \subseteq Dentries \cup Threads /\ Users(s)' \subseteq Dentries \cup Threads
  BY DEF Users
<1>3. QED
  BY <1>1, <1>2, FS_Subset

\* A use more, a use less.
LEMMA UseMore ==
  ASSUME NEW U, IsFiniteSet(U), NEW x, x \notin U
  PROVE  Cardinality(U \cup {x}) = Cardinality(U) + 1 /\ Cardinality(U) \in Nat
  BY FS_AddElement, FS_CardinalityType

LEMMA UseLess ==
  ASSUME NEW U, IsFiniteSet(U), NEW x \in U
  PROVE  /\ Cardinality(U \ {x}) = Cardinality(U) - 1 /\ Cardinality(U) \in Nat /\ Cardinality(U) # 0
         /\ Cardinality(U) = 1 => U \ {x} = {}
<1>1. Cardinality(U \ {x}) = Cardinality(U) - 1 /\ Cardinality(U) \in Nat
  BY FS_RemoveElement, FS_CardinalityType
<1>2. Cardinality(U) # 0
  BY FS_EmptySet
<1>3. IsFiniteSet(U \ {x})
  BY FS_RemoveElement
<1>4. Cardinality(U) = 1 => U \ {x} = {}
  BY <1>1, <1>3, FS_EmptySet
<1>5. QED
  BY <1>1, <1>2, <1>4


\* A name is counted after the step, its text stays while it is used, and it stays
\* for those who may read it.
NameStep(s) ==
  /\ CountedName(s)'
  /\ ext[s].state = "used" /\ ext'[s].state = "used" => ext'[s].text = ext[s].text
  /\ \A u \in Walking : NameAlive(u, s) => NameAlive(u, s)'

LEMMA NameSame ==
  ASSUME LookupInv, NEW s \in Storages, ext'[s] = ext[s],
         Users(s)' = Users(s) \/ \E x, y : x \in Users(s) /\ y \notin Users(s) /\ Users(s)' = (Users(s) \ {x}) \cup {y}
  PROVE  NameStep(s)
<1>1. CountedName(s)
  BY DEF LookupInv
<1>2. Cardinality(Users(s))' = Cardinality(Users(s)) /\ (Users(s)' # {} => Users(s) # {})
  <2>1. CASE Users(s)' = Users(s)
    <3>1. PICK U : U = Users(s) /\ U = Users(s)'
      BY <2>1
    <3>2. QED
      BY <3>1
  <2>2. CASE \E x, y : x \in Users(s) /\ y \notin Users(s) /\ Users(s)' = (Users(s) \ {x}) \cup {y}
    <3>1. PICK x, y : x \in Users(s) /\ y \notin Users(s) /\ Users(s)' = (Users(s) \ {x}) \cup {y}
      BY <2>2
    <3>2. PICK U : U = Users(s)
      OBVIOUS
    <3>3. IsFiniteSet(U) /\ x \in U /\ y \notin U
      BY <3>1, <3>2, UsersFinite
    <3>4. Cardinality(U \ {x}) = Cardinality(U) - 1 /\ Cardinality(U) \in Nat
      BY <3>3, UseLess
    <3>5. IsFiniteSet(U \ {x}) /\ y \notin U \ {x}
      BY <3>3, FS_RemoveElement
    <3>6. Cardinality((U \ {x}) \cup {y}) = Cardinality(U \ {x}) + 1
      BY <3>5, UseMore
    <3>7. Cardinality((U \ {x}) \cup {y}) = Cardinality(U)
      BY <3>4, <3>6
    <3>8. PICK V : V = Users(s)' /\ V = (U \ {x}) \cup {y}
      BY <3>1, <3>2
    <3>9. Cardinality(V) = Cardinality(U)
      BY <3>7, <3>8
    <3>10. QED
      BY <3>2, <3>3, <3>8, <3>9
  <2>3. QED
    BY <2>1, <2>2
<1>3. CountedName(s)'
  BY <1>1, <1>2 DEF CountedName
<1>4. QED
  BY <1>3 DEF NameStep, NameAlive

LEMMA NameMore ==
  ASSUME LookupInv, NEW s \in Storages, ext[s].state = "used", NEW x, x \notin Users(s), Users(s)' = Users(s) \cup {x},
         ext'[s].state = ext[s].state, ext'[s].text = ext[s].text, ext'[s].waits = ext[s].waits,
         ext'[s].count = ext[s].count + 1
  PROVE  NameStep(s)
<1>1. CountedName(s)
  BY DEF LookupInv
<1>2. PICK U : U = Users(s)
  OBVIOUS
<1>3. Cardinality(U \cup {x}) = Cardinality(U) + 1
  BY <1>2, UsersFinite, UseMore
<1>4. PICK V : V = Users(s)' /\ V = U \cup {x}
  BY <1>2
<1>5. Cardinality(V) = ext'[s].count
  BY <1>1, <1>2, <1>3, <1>4 DEF CountedName
<1>6. CountedName(s)'
  BY <1>1, <1>4, <1>5 DEF CountedName
<1>7. QED
  BY <1>6 DEF NameStep, NameAlive

LEMMA NameLess ==
  ASSUME LookupInv, NEW s \in Storages, NEW x \in Users(s), Users(s)' = Users(s) \ {x},
         NEW f \in [Storages -> External], f[s] = ext[s], ext'[s] = Put(f, s)[s]
  PROVE  NameStep(s)
<1>1. CountedName(s) /\ ext[s].state = "used" /\ ext[s].waits = {}
  BY DEF LookupInv, CountedName
<1>2. PICK U : U = Users(s)
  OBVIOUS
<1>3. /\ Cardinality(U \ {x}) = Cardinality(U) - 1 /\ Cardinality(U) \in Nat /\ Cardinality(U) # 0
      /\ Cardinality(U) = 1 => U \ {x} = {}
  BY <1>2, UsersFinite, UseLess
<1>4. f[s].count = Cardinality(U)
  BY <1>1, <1>2 DEF CountedName
<1>5. /\ ext'[s].count = f[s].count - 1
      /\ f[s].count # 1 => /\ ext'[s].state = f[s].state /\ ext'[s].text = f[s].text
                           /\ ext'[s].waits = f[s].waits
      /\ f[s].count = 1 => ext'[s].state # "used"
      /\ f[s].count = 1 /\ ext'[s].state # "dying" => ext'[s].waits = {}
      /\ f[s].count = 1 /\ Walking # {} => ext'[s].waits = Walking
  BY <1>3, <1>4, PutOf
<1>6. PICK V : V = Users(s)' /\ V = U \ {x}
  BY <1>2
<1>7. CountedName(s)'
  <2>1. ext'[s].count = Cardinality(V)
    BY <1>3, <1>4, <1>5, <1>6
  <2>2. V # {} => ext'[s].state = "used"
    BY <1>1, <1>3, <1>4, <1>5, <1>6
  <2>3. ext'[s].state # "dying" => ext'[s].waits = {}
    BY <1>1, <1>5
  <2>4. QED
    BY <1>6, <2>1, <2>2, <2>3 DEF CountedName
<1>8. \A u \in Walking : NameAlive(u, s)'
  BY <1>1, <1>5 DEF NameAlive
<1>9. ext[s].state = "used" /\ ext'[s].state = "used" => ext'[s].text = ext[s].text
  BY <1>5
<1>10. QED
  BY <1>7, <1>8, <1>9 DEF NameStep

LEMMA UsedBy ==
  ASSUME LookupInv, NEW d \in Dentries, dn[d].state = "live", dn[d].ptr # Inline
  PROVE  dn[d].ptr \in Storages /\ d \in Users(dn[d].ptr) /\ ext[dn[d].ptr].state = "used"
<1>1. dn[d].ptr \in Storages
  BY DEF LookupInv, Typed, DnTyped, Entry
<1>2. d \in Users(dn[d].ptr)
  BY DEF Users
<1>3. CountedName(dn[d].ptr)
  BY <1>1 DEF LookupInv
<1>4. QED
  BY <1>1, <1>2, <1>3 DEF CountedName

\* The text of an entry that has got the name of e, or has kept its own.
LEMMA TextKept ==
  ASSUME LookupInv, DnTyped', NEW d \in Dentries, NEW e \in Dentries, \A s \in Storages : NameStep(s),
         dn'[d].state = "live" =>
           /\ dn[e].state = "live" /\ dn'[d].ptr = dn[e].ptr /\ dn'[d].key = dn[e].key
           /\ dn[e].ptr = Inline => dn'[d].iname = dn[e].iname
  PROVE  TextOf(d)'
<1>1. SUFFICES ASSUME dn'[d].state = "live" PROVE Text(d, dn[d].ptr)' = dn'[d].key[2]
  BY DEF TextOf
<1>2. Text(e, dn[e].ptr) = dn[e].key[2]
  BY <1>1 DEF LookupInv, TextOf
<1>3. CASE dn[e].ptr = Inline
  BY <1>1, <1>2, <1>3 DEF Text
<1>4. CASE dn[e].ptr # Inline
  <2>1. PICK s \in Storages : s = dn[e].ptr
    BY <1>1, <1>4, UsedBy
  <2>2. ext[s].state = "used"
    BY <1>1, <1>4, <2>1, UsedBy
  <2>3. d \in Users(s)'
    BY <1>1, <2>1 DEF Users
  <2>4. ext'[s].state = "used"
    BY <2>3 DEF NameStep, CountedName
  <2>5. ext'[s].text = ext[s].text
    BY <2>2, <2>4 DEF NameStep
  <2>6. QED
    BY <1>1, <1>2, <1>4, <2>1, <2>5 DEF Text
<1>5. QED
  BY <1>3, <1>4


\* A step that changes the names alone.
LEMMA NamesOnly ==
  ASSUME LookupInv, UNCHANGED <<dn, chain, rename_lock>>, NEW t \in Threads, NEW r \in Thread,
         th' = [th EXCEPT ![t] = r], th[t].pc \in {"idle", "snapshot"}, r.pc \in {"idle", "snapshot"},
         ThreadInv(t)', ExtTyped', \A s \in Storages : NameStep(s)
  PROVE  LookupInv'
<1>1. ThTyped' /\ th'[t] = r /\ \A u \in Threads \ {t} : th'[u] = th[u]
  BY DEF LookupInv, Typed, ThTyped
<1>2. \A u \in Threads \ {t} : Faded(u)
  BY <1>1, SameFaded
<1>3. \A u \in Threads : SameMove(u) /\ Gone(u)' = Gone(u) /\ Moved(u)' = Moved(u)
  <2>1. \A u \in Threads \ {t} : SameMove(u) /\ Gone(u)' = Gone(u) /\ Moved(u)' = Moved(u)
    BY <1>2, FadedMove
  <2>2. SameMove(t) /\ Gone(t)' = Gone(t) /\ Moved(t)' = Moved(t)
    BY <1>1, NotMoving, NotMovingNext DEF SameMove
  <2>3. QED
    BY <2>1, <2>2
<1>4. Walking' = Walking
  BY <1>1 DEF Walking
<1>5. \A d : Locked(d)' <=> Locked(d)
  BY <1>3 DEF Locked
<1>6. DnTyped' /\ Typed'
  BY <1>1, ChainSame DEF LookupInv, Typed, DnTyped, LockTyped
<1>7. Table'
  <2>1. SameEntries
    BY DEF SameEntries
  <2>2. QED
    BY <1>3, <2>1, TableSame
<1>8. ASSUME NEW d \in Dentries PROVE EntryOf(d)' /\ TextOf(d)'
  <2>1. EntryOf(d)
    BY DEF LookupInv
  <2>2. EntryOf(d)'
    BY <2>1, <1>4, <1>5 DEF EntryOf
  <2>3. TextOf(d)'
    BY <1>6, TextKept
  <2>4. QED
    BY <2>2, <2>3
<1>9. ASSUME NEW u \in Threads \ {t} PROVE ThreadInv(u)' /\ ParentsOf(u)'
  <2>1. ThreadInv(u) /\ Faded(u) /\ th'[u] = th[u]
    BY <1>1, <1>2 DEF LookupInv
  <2>2. th'[u].still => rename_lock' = Nobody
    BY <2>1 DEF ThreadInv, LocalOf
  <2>3. StaysAlive(u) /\ AfterSame(u)
    BY AllAfterSame DEF StaysAlive, AfterSame, Alive
  <2>4. \A B : Surrounded(u, B) => Surrounded(u, B)'
    <3> SUFFICES ASSUME NEW B, Surrounded(u, B) PROVE Surrounded(u, B)'
      OBVIOUS
    <3>1. \A b \in B : \A i \in DOMAIN chain'[b] : \E j \in DOMAIN chain[b] : chain'[b][i] = chain[b][j]
      OBVIOUS
    <3>2. QED
      BY <2>1, <2>3, <3>1, SurroundedSame
  <2>5. u \in Walking => \A s \in Storages \cup {Inline} : NameAlive(u, s) => NameAlive(u, s)'
    BY DEF NameStep, NameAlive
  <2>6. \A d \in Dentries : \A s \in Storages \cup {Inline} :
          Alive(u, d)' /\ s = dn'[d].ptr => Alive(u, d) /\ s = dn[d].ptr
    BY DEF Alive
  <2>7. \A d \in Dentries : th'[u].ok /\ d = th[u].pos => ~ Locked(d)'
    BY <2>1, <1>5 DEF ThreadInv, SequenceOf
  <2>8. \A k : Present(k) => Present(k)'
    BY DEF Present, Has
  <2>9. \A p, x \in Dentries : Leads(p, x) => Leads(p, x)'
    BY LeadsStay
  <2>10. ThreadInv(u)'
    BY <1>6, <2>1, <2>2, <2>4, <2>5, <2>6, <2>7, <2>8, <2>9, ThreadKept
  <2>11. ParentsOf(u)'
    BY <2>1, ParentsKept
  <2>12. QED
    BY <2>10, <2>11
<1>10. ParentsOf(t)'
  BY <1>1, NotMovingNext DEF ParentsOf
<1>11. QED
  BY <1>6, <1>7, <1>8, <1>9, <1>10 DEF LookupInv, NameStep

LEMMA SnapshotKeeps ==
  ASSUME LookupInv, NEW t \in Threads, NEW d \in Dentries, Snapshot(t, d)
  PROVE  LookupInv'
<1>1. /\ th[t].pc = "idle" /\ dn[d].state = "live" /\ dn[d].ptr # Inline
      /\ UNCHANGED <<dn, chain, rename_lock>> /\ LocalOf(t)
  BY DEF Snapshot, At, LookupInv, ThreadInv
<1>2. PICK p \in Storages : p = dn[d].ptr /\ ext[p].state = "used" /\ d \in Users(p)
  BY <1>1, UsedBy
<1>3. ext' = [ext EXCEPT ![p].count = @ + 1]
  BY <1>2 DEF Snapshot
<1>4. ext \in [Storages -> External]
  BY DEF LookupInv, Typed, ExtTyped
<1>5. PICK z : z = [ext[p] EXCEPT !.count = ext[p].count + 1]
  OBVIOUS
<1>6. ext[p] \in External /\ ext[p].count \in Nat
  BY <1>4 DEF External
<1>7. z \in External /\ z.state = ext[p].state /\ z.text = ext[p].text /\ z.waits = ext[p].waits /\ z.count = ext[p].count + 1
  BY <1>5, <1>6 DEF External
<1>8. ext' = [ext EXCEPT ![p] = z]
  BY <1>3, <1>5
<1>9. ExtTyped' /\ ext'[p] = z /\ \A s \in Storages \ {p} : ext'[s] = ext[s]
  BY <1>4, <1>7, <1>8 DEF ExtTyped
<1>10. PICK r : r = [Idle EXCEPT !.pc = "snapshot", !.ptr = p]
  OBVIOUS
<1>11. r \in Thread /\ r.pc = "snapshot" /\ r.ptr = p /\ ~ r.ok /\ ~ r.still /\ r.key = Nobody
  BY <1>10, IdleTyped DEF Thread, Idle
<1>12. th' = [th EXCEPT ![t] = r]
  BY <1>2, <1>10 DEF Snapshot
<1>13. th'[t] = r /\ \A u \in Threads \ {t} : th'[u] = th[u]
  BY <1>12 DEF LookupInv, Typed, ThTyped
<1>14. LocalOf(t)' /\ th'[t].pc \notin Calls
  BY <1>1, <1>11, <1>13 DEF LocalOf, At, Moving, Moves, Calls, Walks, Reads
<1>15. ThreadInv(t)'
  BY <1>11, <1>13, <1>14, IdleThread
<1>16. ASSUME NEW s \in Storages PROVE NameStep(s)
  <2>1. \A u \in Threads \ {t} : (At(u, "snapshot") /\ th[u].ptr = s)' <=> At(u, "snapshot") /\ th[u].ptr = s
    BY <1>13 DEF At
  <2>2. ~ At(t, "snapshot") /\ (At(t, "snapshot") /\ th[t].ptr = s)' <=> s = p
    BY <1>1, <1>11, <1>13 DEF At
  <2>3. CASE s = p
    <3>1. Users(s)' = Users(s) \cup {t}
      BY <1>1, <2>1, <2>2, <2>3 DEF Users
    <3>2. t \notin Users(s)
      BY <1>1, LookupAssumption DEF Users, At
    <3>3. QED
      BY <1>2, <1>7, <1>9, <2>3, <3>1, <3>2, NameMore
  <2>4. CASE s # p
    <3>1. Users(s)' = Users(s)
      BY <1>1, <1>11, <1>13, <2>1, <2>4 DEF Users, At
    <3>2. QED
      BY <1>9, <2>4, <3>1, NameSame
  <2>5. QED
    BY <2>3, <2>4
<1>17. QED
  BY <1>1, <1>9, <1>11, <1>12, <1>15, <1>16, NamesOnly

LEMMA ReleaseKeeps ==
  ASSUME LookupInv, NEW t \in Threads, Release(t)
  PROVE  LookupInv'
<1>1. /\ th[t].pc = "snapshot" /\ UNCHANGED <<dn, chain, rename_lock>> /\ LocalOf(t)
      /\ th' = [th EXCEPT ![t] = Idle]
  BY DEF Release, At, LookupInv, ThreadInv
<1>2. PICK p \in Storages : p = th[t].ptr
  BY <1>1 DEF LocalOf, At
<1>3. t \in Users(p)
  BY <1>1, <1>2 DEF Users, At
<1>4. ext' = Put(ext, p) /\ ext \in [Storages -> External]
  BY <1>2 DEF Release, LookupInv, Typed, ExtTyped
<1>5. ext[p].count # 0
  <2>1. CountedName(p)
    BY DEF LookupInv
  <2>2. PICK U : U = Users(p)
    OBVIOUS
  <2>3. Cardinality(U) # 0
    BY <2>2, <1>3, UsersFinite, UseLess
  <2>4. QED
    BY <2>1, <2>2, <2>3 DEF CountedName
<1>6. ExtTyped' /\ \A s \in Storages \ {p} : ext'[s] = ext[s]
  BY <1>4, <1>5, PutOf DEF ExtTyped
<1>7. th'[t] = Idle /\ \A u \in Threads \ {t} : th'[u] = th[u]
  BY <1>1 DEF LookupInv, Typed, ThTyped
<1>8. LocalOf(t)' /\ th'[t].pc \notin Calls
  BY <1>1, <1>7, IdleTyped DEF LocalOf, At, Moving, Moves, Calls, Walks, Reads
<1>9. ThreadInv(t)'
  BY <1>7, <1>8, IdleTyped, IdleThread
<1>10. ASSUME NEW s \in Storages PROVE NameStep(s)
  <2>1. \A u \in Threads \ {t} : (At(u, "snapshot") /\ th[u].ptr = s)' <=> At(u, "snapshot") /\ th[u].ptr = s
    BY <1>7 DEF At
  <2>2. ~ At(t, "snapshot")' /\ (At(t, "snapshot") /\ th[t].ptr = s <=> s = p)
    BY <1>1, <1>2, <1>7, IdleTyped DEF At
  <2>3. CASE s = p
    <3>1. Users(s)' = Users(s) \ {t}
      BY <1>1, <2>1, <2>2, <2>3, LookupAssumption DEF Users
    <3>2. QED
      BY <1>3, <1>4, <2>3, <3>1, NameLess
  <2>4. CASE s # p
    <3>1. Users(s)' = Users(s)
      BY <1>1, <2>1, <2>2, <2>4 DEF Users
    <3>2. QED
      BY <1>6, <2>4, <3>1, NameSame
  <2>5. QED
    BY <2>3, <2>4
<1>11. QED
  BY <1>1, <1>6, <1>9, <1>10, IdleTyped, NamesOnly


-----------------------------------------------------------------------------
(* The steps on entries outside of moves.                                  *)

LEMMA SameThreads ==
  ASSUME UNCHANGED th
  PROVE  /\ \A u \in Threads : Faded(u) /\ SameMove(u) /\ Gone(u)' = Gone(u) /\ Moved(u)' = Moved(u)
         /\ Walking' = Walking
         /\ \A d : (Locked(d)' <=> Locked(d)) /\ (Out(d)' <=> Out(d))
<1>1. \A u \in Threads : Faded(u) /\ SameMove(u) /\ Gone(u)' = Gone(u) /\ Moved(u)' = Moved(u)
  BY SameFaded, FadedMove
<1>2. QED
  BY <1>1 DEF Walking, Locked, Out

LEMMA FreeIs ==
  ASSUME LookupInv, NEW d \in Dentries, dn[d].state = "free"
  PROVE  dn[d].hashed = FALSE /\ ~ Locked(d) /\ \A u : ~ Alive(u, d)
<1>1. EntryOf(d) /\ dn[d].hashed \in BOOLEAN
  BY DEF LookupInv, Typed, DnTyped, Entry
<1>2. QED
  BY <1>1 DEF EntryOf, Alive

LEMMA AllocKeeps ==
  ASSUME LookupInv, NEW d \in Dentries, NEW k \in Keys, Alloc(d, k)
  PROVE  LookupInv'
<1>1. dn[d].state = "free" /\ UNCHANGED <<chain, th, rename_lock>> /\ k[1] \in Dirs /\ k[2] \in Names
  BY LookupAssumption DEF Alloc
<1>2. dn \in [Dentries -> Entry] /\ ext \in [Storages -> External]
  BY DEF LookupInv, Typed, DnTyped, ExtTyped
<1>3. \E n \in Entry :
        /\ dn' = [dn EXCEPT ![d] = n]
        /\ n.state = "live" /\ n.parent = k[1] /\ n.key = k /\ n.hashed = FALSE /\ n.waits = {}
        /\ \/ n.ptr = Inline /\ n.iname = k[2] /\ ext' = ext
           \/ \E s \in Storages :
                /\ ext[s].state = "free" /\ n.ptr = s
                /\ ext' = [ext EXCEPT ![s] = [state |-> "used", text |-> k[2], count |-> 1, waits |-> {}]]
  <2>1. CASE k[2] \notin Long
    <3>1. PICK n : n = [NoDentry EXCEPT !.state = "live", !.parent = k[1], !.key = k, !.iname = k[2]]
      OBVIOUS
    <3>2. /\ n \in Entry
          /\ n.state = "live" /\ n.parent = k[1] /\ n.key = k /\ n.hashed = FALSE /\ n.waits = {}
          /\ n.ptr = Inline /\ n.iname = k[2]
      BY <3>1, <1>1 DEF NoDentry, Entry
    <3>3. dn' = [dn EXCEPT ![d] = n] /\ ext' = ext
      BY <2>1, <3>1 DEF Alloc
    <3>4. QED
      BY <3>2, <3>3
  <2>2. CASE k[2] \in Long
    <3>1. PICK s \in Storages :
             /\ ext[s].state = "free"
             /\ ext' = [ext EXCEPT ![s] = [state |-> "used", text |-> k[2], count |-> 1, waits |-> {}]]
             /\ dn' = [dn EXCEPT ![d] = [NoDentry EXCEPT !.state = "live", !.parent = k[1], !.key = k, !.ptr = s]]
      BY <2>2 DEF Alloc
    <3>2. PICK n : n = [NoDentry EXCEPT !.state = "live", !.parent = k[1], !.key = k, !.ptr = s]
      OBVIOUS
    <3>3. /\ n \in Entry
          /\ n.state = "live" /\ n.parent = k[1] /\ n.key = k /\ n.hashed = FALSE /\ n.waits = {}
          /\ n.ptr = s
      BY <3>2, <1>1 DEF NoDentry, Entry
    <3>4. QED
      BY <3>1, <3>2, <3>3
  <2>3. QED
    BY <2>1, <2>2
<1>4. PICK n \in Entry :
        /\ dn' = [dn EXCEPT ![d] = n]
        /\ n.state = "live" /\ n.parent = k[1] /\ n.key = k /\ n.hashed = FALSE /\ n.waits = {}
        /\ \/ n.ptr = Inline /\ n.iname = k[2] /\ ext' = ext
           \/ \E s \in Storages :
                /\ ext[s].state = "free" /\ n.ptr = s
                /\ ext' = [ext EXCEPT ![s] = [state |-> "used", text |-> k[2], count |-> 1, waits |-> {}]]
  BY <1>3
<1>5. dn'[d] = n /\ \A x \in Dentries \ {d} : dn'[x] = dn[x]
  BY <1>2, <1>4
<1>6. /\ \A u \in Threads : Faded(u) /\ SameMove(u) /\ Gone(u)' = Gone(u) /\ Moved(u)' = Moved(u)
      /\ Walking' = Walking
      /\ \A x : (Locked(x)' <=> Locked(x)) /\ (Out(x)' <=> Out(x))
  BY <1>1, SameThreads
<1>7. dn[d].hashed = FALSE /\ ~ Locked(d) /\ \A u : ~ Alive(u, d)
  BY <1>1, FreeIs
<1>8. DnTyped' /\ ExtTyped'
  <2>1. \A s \in Storages : [state |-> "used", text |-> k[2], count |-> 1, waits |-> {}] \in External
    BY <1>1 DEF External
  <2>2. QED
    BY <1>2, <1>4, <2>1 DEF DnTyped, ExtTyped
<1>9. Typed'
  BY <1>1, <1>8, ChainSame DEF LookupInv, Typed, ThTyped, LockTyped
<1>10. Table'
  <2>1. SameEntries
    BY <1>1, <1>4, <1>5, <1>7 DEF SameEntries
  <2>2. QED
    BY <1>1, <1>6, <2>1, TableSame
<1>11. ASSUME NEW s \in Storages PROVE NameStep(s)
  <2>1. CASE ext[s].state = "free" /\ n.ptr = s
    <3>1. ext'[s] = [state |-> "used", text |-> k[2], count |-> 1, waits |-> {}]
      BY <1>2, <1>4, <2>1, LookupAssumption
    <3>2. Users(s) = {}
      BY <2>1 DEF LookupInv, CountedName
    <3>3. Users(s)' = {d}
      BY <1>1, <1>4, <1>5, <2>1, <3>2 DEF Users, At
    <3>4. Cardinality({d}) = 1
      BY FS_Singleton
    <3>5. PICK V : V = Users(s)' /\ V = {d}
      BY <3>3
    <3>6. CountedName(s)'
      BY <3>1, <3>4, <3>5 DEF CountedName
    <3>7. QED
      BY <2>1, <3>1, <3>6 DEF NameStep, NameAlive
  <2>2. CASE ~ (ext[s].state = "free" /\ n.ptr = s)
    <3>1. ext'[s] = ext[s] /\ n.ptr # s
      BY <1>2, <1>4, <2>2, LookupAssumption
    <3>2. Users(s)' = Users(s)
      BY <1>1, <1>4, <1>5, <3>1 DEF Users, At
    <3>3. QED
      BY <3>1, <3>2, NameSame
  <2>3. QED
    BY <2>1, <2>2
<1>12. ASSUME NEW x \in Dentries PROVE EntryOf(x)' /\ TextOf(x)'
  <2>1. CASE x = d
    <3>1. EntryOf(d)'
      BY <1>4, <1>5 DEF EntryOf
    <3>2. TextOf(d)'
      <4>1. CASE n.ptr = Inline
        <5>1. n.iname = k[2]
          BY <1>4, <4>1, LookupAssumption
        <5>2. QED
          BY <1>4, <1>5, <4>1, <5>1 DEF TextOf, Text
      <4>2. CASE n.ptr # Inline
        <5>1. PICK s \in Storages :
                /\ n.ptr = s
                /\ ext' = [ext EXCEPT ![s] = [state |-> "used", text |-> k[2], count |-> 1, waits |-> {}]]
          BY <1>4, <4>2
        <5>2. ext'[s].text = k[2]
          BY <5>1, <1>2
        <5>3. QED
          BY <1>4, <1>5, <4>2, <5>1, <5>2 DEF TextOf, Text
      <4>3. QED
        BY <4>1, <4>2
    <3>3. QED
      BY <2>1, <3>1, <3>2
  <2>2. CASE x # d
    <3>1. EntryOf(x)'
      BY <2>2, <1>5, <1>6 DEF LookupInv, EntryOf
    <3>2. TextOf(x)'
      BY <2>2, <1>5, <1>8, <1>11, TextKept
    <3>3. QED
      BY <3>1, <3>2
  <2>3. QED
    BY <2>1, <2>2
<1>13. ASSUME NEW u \in Threads PROVE ThreadInv(u)' /\ ParentsOf(u)'
  <2>1. ThreadInv(u) /\ Faded(u) /\ th'[u] = th[u]
    BY <1>1, <1>6 DEF LookupInv
  <2>2. th'[u].still => rename_lock' = Nobody
    BY <2>1, <1>1 DEF ThreadInv, LocalOf
  <2>3. StaysAlive(u)
    BY <1>5, <1>7 DEF StaysAlive, Alive
  <2>4. AfterSame(u)
    <3> SUFFICES ASSUME NEW y \in Dentries, Alive(u, y) PROVE After(y)' = After(y)
      BY DEF AfterSame
    <3>1. dn'[y] = dn[y]
      BY <1>5, <1>7
    <3>2. QED
      BY <1>1, <3>1, ChainSame, AfterOut
  <2>5. \A B : Surrounded(u, B) => Surrounded(u, B)'
    <3> SUFFICES ASSUME NEW B, Surrounded(u, B) PROVE Surrounded(u, B)'
      OBVIOUS
    <3>1. \A b \in B : \A i \in DOMAIN chain'[b] : \E j \in DOMAIN chain[b] : chain'[b][i] = chain[b][j]
      BY <1>1
    <3>2. QED
      BY <2>1, <2>3, <2>4, <3>1, SurroundedSame
  <2>6. u \in Walking => \A s \in Storages \cup {Inline} : NameAlive(u, s) => NameAlive(u, s)'
    BY <1>11 DEF NameStep, NameAlive
  <2>7. \A x \in Dentries : \A s \in Storages \cup {Inline} :
          Alive(u, x)' /\ s = dn'[x].ptr => NameAlive(u, s)' \/ (Alive(u, x) /\ s = dn[x].ptr)
    <3> SUFFICES ASSUME NEW x \in Dentries, NEW s \in Storages, Alive(u, x)', s = dn'[x].ptr
                 PROVE  NameAlive(u, s)' \/ (Alive(u, x) /\ s = dn[x].ptr)
      BY DEF NameAlive
    <3>1. CASE x = d
      <4>1. d \in Users(s)'
        BY <3>1, <1>4, <1>5 DEF Users
      <4>2. ext'[s].state = "used"
        BY <4>1, <1>11 DEF NameStep, CountedName
      <4>3. QED
        BY <4>2 DEF NameAlive
    <3>2. CASE x # d
      BY <3>2, <1>5 DEF Alive
    <3>3. QED
      BY <3>1, <3>2
  <2>8. \A x \in Dentries : th'[u].ok /\ x = th[u].pos => ~ Locked(x)'
    BY <2>1, <1>6 DEF ThreadInv, SequenceOf
  <2>9. \A x \in Dentries : dn[x].hashed => dn'[x] = dn[x]
    BY <1>5, <1>7
  <2>10. \A q : Present(q) => Present(q)'
    BY <2>9, PresentSame
  <2>11. \A p, x \in Dentries : p = th[u].pos /\ u \in Walking /\ Leads(p, x) => Leads(p, x)'
    <3> SUFFICES ASSUME NEW p \in Dentries, NEW x \in Dentries, p = th[u].pos, u \in Walking, Leads(p, x)
                 PROVE  Leads(p, x)'
      OBVIOUS
    <3>1. Surrounded(u, Chains)
      BY <2>1 DEF ThreadInv, ReachOf
    <3>2. QED
      BY <2>4, <3>1, LeadsSame
  <2>12. ThreadInv(u)'
    BY <1>1, <1>8, <2>1, <2>2, <2>5, <2>6, <2>7, <2>8, <2>9, <2>10, <2>11, ThreadKept
  <2>13. ParentsOf(u)'
    BY <2>1, <1>5, <1>7, ParentsKept
  <2>14. QED
    BY <2>12, <2>13
<1>14. QED
  BY <1>9, <1>10, <1>11, <1>12, <1>13 DEF LookupInv, NameStep


\* ___d_drop, and the pointer that is kept for those who stand on the entry.
LEMMA AfterDropOf ==
  ASSUME LookupInv, NEW d \in Dentries, ~ Out(d), chain' = Drops(d), Walking # {},
         \A y \in Dentries \ {d} : dn'[y].after = dn[y].after,
         dn'[d].after = IF dn[d].hashed THEN KeepsAfter(d) ELSE dn[d].after
  PROVE  AfterDrop(d)
<1>1. /\ ChainTyped' /\ Distinct'
      /\ \A y : InChain(y)' <=> InChain(y) /\ y # d
      /\ \A y : InChain(y) /\ y # d => After(y)' = IF After(y) = d THEN After(d) ELSE After(y)
  BY Dropped
<1>2. Others'
  BY <1>1, OrderedNext
<1>3. dn'[d].after = After(d)
  <2>1. CASE dn[d].hashed
    BY <2>1 DEF KeepsAfter
  <2>2. CASE ~ dn[d].hashed
    BY <2>2, ChainHashed, AfterOut
  <2>3. QED
    BY <2>1, <2>2
<1>4. After(d)' = After(d)
  BY <1>1, <1>2, <1>3 DEF Others
<1>5. ASSUME NEW y \in Dentries \ {d}
      PROVE  After(y)' = IF InChain(y) /\ After(y) = d THEN After(d) ELSE After(y)
  <2>1. CASE InChain(y)
    BY <2>1, <1>1
  <2>2. CASE ~ InChain(y)
    <3>1. After(y)' = dn'[y].after /\ After(y) = dn[y].after
      BY <2>2, <1>1, <1>2, AfterOut DEF Others
    <3>2. QED
      BY <2>2, <3>1
  <2>3. QED
    BY <2>1, <2>2
<1>6. QED
  BY <1>4, <1>5 DEF AfterDrop

LEMMA AfterPutOf ==
  ASSUME LookupInv, NEW d \in Dentries, ~ InChain(d), NEW b \in Chains, b = Chain[dn[d].key], chain' = Rehashes(d),
         \A y \in Dentries \ {d} : dn'[y].after = dn[y].after
  PROVE  AfterPut(d, b)
<1>1. ChainTyped /\ Distinct
  BY DEF LookupInv, Typed, Table
<1>2. /\ ChainTyped' /\ Distinct'
      /\ \A y : InChain(y)' <=> InChain(y) \/ y = d
      /\ \A y : InChain(y) => After(y)' = After(y)
      /\ After(d)' = First(b)
  BY <1>1, PutIn
<1>3. Others'
  BY <1>2, OrderedNext
<1>4. ASSUME NEW y \in Dentries \ {d} PROVE After(y)' = After(y)
  <2>1. CASE InChain(y)
    BY <2>1, <1>2
  <2>2. CASE ~ InChain(y)
    <3>1. After(y)' = dn'[y].after /\ After(y) = dn[y].after
      BY <2>2, <1>2, <1>3, AfterOut DEF Others
    <3>2. QED
      BY <3>1
  <2>3. QED
    BY <2>1, <2>2
<1>5. QED
  BY <1>2, <1>4 DEF AfterPut

LEMMA PlacedDrop ==
  ASSUME LookupInv, NEW d \in Dentries, ~ Out(d), chain' = Drops(d), ~ dn'[d].hashed \/ Out(d)',
         \A y \in Dentries \ {d} :
           /\ dn'[y].hashed = dn[y].hashed /\ (dn[y].hashed => dn'[y].key = dn[y].key)
           /\ Out(y)' <=> Out(y)
  PROVE  Placed'
<1>1. /\ ChainTyped'
      /\ \A c \in Chains : \A i \in DOMAIN chain'[c] :
           chain'[c][i] # d /\ \E j \in DOMAIN chain[c] : chain'[c][i] = chain[c][j]
      /\ \A y : InChain(y)' <=> InChain(y) /\ y # d
  BY Dropped
<1>2. \A b \in Chains : \A i \in DOMAIN chain'[b] : \A x :
        x = chain'[b][i] => dn'[x].hashed /\ ~ Out(x)' /\ Chain[dn'[x].key] = b
  <2> SUFFICES ASSUME NEW b \in Chains, NEW i \in DOMAIN chain'[b], NEW x, x = chain'[b][i]
               PROVE  dn'[x].hashed /\ ~ Out(x)' /\ Chain[dn'[x].key] = b
    OBVIOUS
  <2>1. PICK j \in DOMAIN chain[b] : x = chain[b][j]
    BY <1>1
  <2>5. x # d
    BY <1>1
  <2>6. chain[b] \in Seq(Dentries)
    BY DEF LookupInv, Typed, ChainTyped
  <2>2. x # d /\ x \in Dentries
    BY <2>1, <2>5, <2>6
  <2>3. dn[x].hashed /\ ~ Out(x) /\ Chain[dn[x].key] = b
    BY <2>1 DEF LookupInv, Table, Placed
  <2>4. QED
    BY <2>2, <2>3
<1>3. \A x \in Dentries : dn'[x].hashed /\ ~ Out(x)' => InChain(x)'
  <2> SUFFICES ASSUME NEW x \in Dentries, dn'[x].hashed, ~ Out(x)' PROVE InChain(x)'
    OBVIOUS
  <2>1. x # d /\ dn[x].hashed /\ ~ Out(x)
    OBVIOUS
  <2>2. InChain(x)
    BY <2>1 DEF LookupInv, Table, Placed
  <2>3. QED
    BY <2>1, <2>2, <1>1
<1>4. QED
  BY <1>2, <1>3 DEF Placed

LEMMA PlacedPut ==
  ASSUME LookupInv, NEW d \in Dentries, ~ InChain(d), NEW b \in Chains, b = Chain[dn[d].key], chain' = Rehashes(d),
         dn'[d].hashed, dn'[d].key = dn[d].key, ~ Out(d)',
         \A y \in Dentries \ {d} :
           /\ dn'[y].hashed = dn[y].hashed /\ (dn[y].hashed => dn'[y].key = dn[y].key)
           /\ Out(y)' <=> Out(y)
  PROVE  ChainTyped' /\ Distinct' /\ Placed'
<1>0. ChainTyped /\ Distinct
  BY DEF LookupInv, Typed, Table
<1>1. /\ ChainTyped' /\ Distinct'
      /\ \A c \in Chains : \A i \in DOMAIN chain'[c] :
           (c = b /\ chain'[c][i] = d) \/ \E j \in DOMAIN chain[c] : chain'[c][i] = chain[c][j]
      /\ \A y : InChain(y)' <=> InChain(y) \/ y = d
  BY <1>0, PutIn
<1>2. \A c \in Chains : \A i \in DOMAIN chain'[c] : \A x :
        x = chain'[c][i] => dn'[x].hashed /\ ~ Out(x)' /\ Chain[dn'[x].key] = c
  <2> SUFFICES ASSUME NEW c \in Chains, NEW i \in DOMAIN chain'[c], NEW x, x = chain'[c][i]
               PROVE  dn'[x].hashed /\ ~ Out(x)' /\ Chain[dn'[x].key] = c
    OBVIOUS
  <2>1. CASE c = b /\ x = d
    BY <2>1
  <2>2. CASE ~ (c = b /\ x = d)
    <3>1. PICK j \in DOMAIN chain[c] : x = chain[c][j]
      BY <2>2, <1>1
    <3>2. Members
      BY <1>0, Ordered
    <3>6. InChain(x)
      BY <3>1, <3>2 DEF Members
    <3>7. x \in Dentries
      BY <3>6, ChainHashed
    <3>3. x # d /\ x \in Dentries
      BY <3>6, <3>7
    <3>4. dn[x].hashed /\ ~ Out(x) /\ Chain[dn[x].key] = c
      BY <3>1 DEF LookupInv, Table, Placed
    <3>5. QED
      BY <3>3, <3>4
  <2>3. QED
    BY <2>1, <2>2
<1>3. \A x \in Dentries : dn'[x].hashed /\ ~ Out(x)' => InChain(x)'
  <2> SUFFICES ASSUME NEW x \in Dentries, x # d, dn'[x].hashed, ~ Out(x)' PROVE InChain(x)'
    BY <1>1
  <2>1. dn[x].hashed /\ ~ Out(x)
    OBVIOUS
  <2>2. InChain(x)
    BY <2>1 DEF LookupInv, Table, Placed
  <2>3. QED
    BY <2>2, <1>1
<1>4. QED
  BY <1>1, <1>2, <1>3 DEF Placed

LEMMA OneHashedLess ==
  ASSUME LookupInv, \A u \in Threads : SameMove(u),
         \A x \in Dentries :
           /\ dn'[x].hashed => dn[x].hashed /\ dn'[x].key = dn[x].key
           /\ Locked(x) => dn'[x].hashed = dn[x].hashed /\ dn'[x].key = dn[x].key
  PROVE  OneHashed'
<1>1. \A x, y \in Dentries : dn'[x].hashed /\ dn'[y].hashed /\ dn'[x].key = dn'[y].key => x = y
  BY DEF LookupInv, Table, OneHashed
<1>2. ASSUME NEW u \in Threads, Moving(u)' PROVE MoveAlone(u)'
  <2>1. Moving(u) /\ MoveAlone(u)
    BY <1>2 DEF LookupInv, Table, OneHashed, SameMove
  <2>2. /\ th'[u].d = th[u].d /\ th'[u].e = th[u].e /\ th'[u].exchange = th[u].exchange
        /\ th'[u].pc = "rehash" => th[u].pc = "rehash"
    BY <2>1 DEF SameMove
  <2>3. th[u].d \in Dentries /\ th[u].e \in Dentries
    BY <2>1 DEF LookupInv, ThreadInv, LocalOf
  <2>4. Locked(th[u].d) /\ Locked(th[u].e)
    BY <2>1 DEF Locked, Moved, Moving, Moves
  <2>5. /\ dn'[th[u].d].key = dn[th[u].d].key /\ dn'[th[u].e].key = dn[th[u].e].key
        /\ dn'[th[u].d].hashed = dn[th[u].d].hashed /\ dn'[th[u].e].hashed = dn[th[u].e].hashed
    BY <2>3, <2>4
  <2>6. QED
    BY <2>1, <2>2, <2>3, <2>5 DEF MoveAlone, At
<1>3. QED
  BY <1>1, <1>2 DEF OneHashed


\* A thread beside a step that takes an entry out of its chain.
LEMMA DropThread ==
  ASSUME LookupInv, NEW u \in Threads, NEW d \in Dentries, ~ Out(d), chain' = Drops(d), Faded(u), DnTyped',
         rename_lock' = u <=> rename_lock = u, th'[u].still => rename_lock' = Nobody,
         \A y \in Dentries \ {d} : dn'[y] = dn[y],
         u \in Walking => AfterDrop(d) /\ StaysAlive(u) /\ dn'[d].ptr = dn[d].ptr /\ (Alive(u, d)' => Alive(u, d)),
         \A s \in Storages : NameStep(s), \A x : Locked(x)' <=> Locked(x),
         th'[u].ok /\ th[u].pos = d /\ dn[d].hashed =>
           /\ dn'[d].hashed /\ dn'[d].key = dn[d].key
           /\ dn'[d].parent = dn[d].parent /\ dn'[d].ptr = dn[d].ptr,
         \A k \in Keys : k = th[u].key /\ ~ th'[u].absent /\ Present(k) => Present(k)',
         th'[u].still /\ ~ th'[u].absent /\ ~ th[u].rcu /\ u \in Walking => ~ (dn[d].hashed /\ dn[d].key = th[u].key)
  PROVE  ThreadInv(u)'
<1>1. ThreadInv(u) /\ th'[u].pos = th[u].pos
  BY DEF LookupInv, Faded
<1>2. \A b \in Chains : \A i \in DOMAIN chain'[b] : \E j \in DOMAIN chain[b] : chain'[b][i] = chain[b][j]
  BY Dropped
<1>3. \A B \in SUBSET Chains : u \in Walking /\ Surrounded(u, B) => Surrounded(u, B)'
  BY <1>1, <1>2, SurroundedDrop
<1>4. u \in Walking => \A s \in Storages \cup {Inline} : NameAlive(u, s) => NameAlive(u, s)'
  BY DEF NameStep, NameAlive
<1>5. u \in Walking =>
        \A x \in Dentries : \A s \in Storages \cup {Inline} :
          Alive(u, x)' /\ s = dn'[x].ptr => Alive(u, x) /\ s = dn[x].ptr
  BY DEF Alive
<1>6. \A x \in Dentries : th'[u].ok /\ x = th[u].pos => ~ Locked(x)'
  BY <1>1 DEF ThreadInv, SequenceOf, Faded
<1>7. \A x \in Dentries : th'[u].ok /\ x = th[u].pos /\ dn[x].hashed =>
        /\ dn'[x].hashed /\ dn'[x].key = dn[x].key
        /\ dn'[x].parent = dn[x].parent /\ dn'[x].ptr = dn[x].ptr
  OBVIOUS
<1>8. \A p, x \in Dentries :
        /\ th'[u].still /\ ~ th'[u].absent /\ ~ th[u].rcu /\ u \in Walking
        /\ dn[x].hashed /\ dn[x].key = th[u].key /\ p = th[u].pos /\ Leads(p, x)
        => dn'[x].hashed /\ dn'[x].key = dn[x].key /\ Leads(p, x)'
  <2> SUFFICES ASSUME NEW p \in Dentries, NEW x \in Dentries,
                      th'[u].still, ~ th'[u].absent, ~ th[u].rcu, u \in Walking,
                      dn[x].hashed, dn[x].key = th[u].key, p = th[u].pos, Leads(p, x)
               PROVE  dn'[x].hashed /\ dn'[x].key = dn[x].key /\ Leads(p, x)'
    OBVIOUS
  <2>1. x # d
    OBVIOUS
  <2>2. Leads(p, x)'
    BY <2>1, LeadsDrop
  <2>3. QED
    BY <2>1, <2>2
<1>9. QED
  BY <1>1, <1>3, <1>4, <1>5, <1>6, <1>7, <1>8, ThreadKept

\* What d_drop and __dentry_kill have in common.
LEMMA TakeOut ==
  ASSUME LookupInv, NEW d \in Dentries, ~ Locked(d), chain' = Drops(d), UNCHANGED rename_lock,
         NEW f \in [Threads -> Thread], f = Invalidates(th, {d}) \/ (f = th /\ ~ dn[d].hashed), th' = Seen(f),
         NEW n \in Entry, dn' = [dn EXCEPT ![d] = n], ~ n.hashed,
         Walking # {} =>
           /\ n.key = dn[d].key /\ n.ptr = dn[d].ptr
           /\ n.after = (IF dn[d].hashed THEN KeepsAfter(d) ELSE dn[d].after)
           /\ \A u \in Walking : Alive(u, d) => Alive(u, d)',
         \A u \in Walking : Alive(u, d)' => Alive(u, d),
         n.state = "live" => /\ dn[d].state = "live" /\ n.parent = dn[d].parent /\ n.key = dn[d].key
                             /\ n.ptr = dn[d].ptr /\ n.iname = dn[d].iname,
         n.state # "free" => n.key \in Keys,
         n.state # "dying" => n.waits = {}, n.state = "dying" => n.waits # {} /\ n.waits \subseteq Walking,
         ExtTyped', \A s \in Storages : NameStep(s)
  PROVE  LookupInv'
<1>1. dn'[d] = n /\ (\A x \in Dentries \ {d} : dn'[x] = dn[x]) /\ DnTyped'
  BY DEF LookupInv, Typed, DnTyped
<1>2. ~ Out(d)
  BY OutLocked
<1>3. /\ ThTyped'
      /\ \A u \in Threads :
           /\ Faded(u) /\ th'[u].still = th[u].still
           /\ th'[u].ok => th[u].pos # d \/ ~ dn[d].hashed
           /\ \A k \in Keys : k = th[u].key /\ ~ th'[u].absent => Present(k)'
  <2>1. th \in [Threads -> Thread]
    BY DEF LookupInv, Typed, ThTyped
  <2>2. \A u \in Threads :
          /\ f[u].pc = th[u].pc /\ f[u].rcu = th[u].rcu /\ f[u].key = th[u].key
          /\ f[u].pos = th[u].pos /\ f[u].ptr = th[u].ptr /\ f[u].still = th[u].still
          /\ f[u].absent = th[u].absent /\ f[u].d = th[u].d /\ f[u].e = th[u].e
          /\ f[u].exchange = th[u].exchange
          /\ f[u].ok => th[u].ok /\ (th[u].pos # d \/ ~ dn[d].hashed)
    <3>1. CASE f = th /\ ~ dn[d].hashed
      BY <3>1
    <3>2. CASE f = Invalidates(th, {d})
      BY <3>2, <2>1, InvalidatesOf
    <3>3. QED
      BY <3>1, <3>2
  <2>3. ThTyped' /\ \A u \in Threads :
          /\ th'[u].pc = f[u].pc /\ th'[u].rcu = f[u].rcu /\ th'[u].key = f[u].key
          /\ th'[u].pos = f[u].pos /\ th'[u].ptr = f[u].ptr /\ th'[u].still = f[u].still
          /\ th'[u].ok = f[u].ok /\ th'[u].d = f[u].d /\ th'[u].e = f[u].e
          /\ th'[u].exchange = f[u].exchange
          /\ f[u].absent => th'[u].absent
          /\ \A k \in Keys : k = f[u].key /\ ~ th'[u].absent => Present(k)'
    BY SeenOf
  <2>4. QED
    BY <2>2, <2>3 DEF Faded
<1>4. \A u \in Threads : SameMove(u) /\ Gone(u)' = Gone(u) /\ Moved(u)' = Moved(u)
  BY <1>3, FadedMove
<1>5. Walking' = Walking
  <2>1. \A u \in Threads : (u \in Walking)' <=> u \in Walking
    BY <1>3, FadedWalk
  <2>2. QED
    BY <2>1 DEF Walking
<1>6. \A x : (Locked(x)' <=> Locked(x)) /\ (Out(x)' <=> Out(x))
  BY <1>4 DEF Locked, Out
<1>7. Table'
  <2>1. Distinct'
    BY <1>2, Dropped
  <2>2. Placed'
    BY <1>1, <1>2, <1>6, PlacedDrop
  <2>3. OneHashed'
    BY <1>1, <1>4, OneHashedLess
  <2>4. QED
    BY <2>1, <2>2, <2>3 DEF Table
<1>8. Typed'
  BY <1>1, <1>2, <1>3, Dropped DEF LookupInv, Typed, LockTyped
<1>9. ASSUME NEW x \in Dentries PROVE EntryOf(x)' /\ TextOf(x)'
  <2>1. EntryOf(x)
    BY DEF LookupInv
  <2>2. EntryOf(x)'
    <3>1. CASE x = d
      BY <2>1, <3>1, <1>1, <1>5, <1>6 DEF EntryOf
    <3>2. CASE x # d
      BY <2>1, <3>2, <1>1, <1>5, <1>6 DEF EntryOf
    <3>3. QED
      BY <3>1, <3>2
  <2>3. TextOf(x)'
    BY <1>1, TextKept
  <2>4. QED
    BY <2>2, <2>3
<1>10. Walking # {} => AfterDrop(d)
  BY <1>1, <1>2, AfterDropOf
<1>11. ASSUME NEW u \in Threads PROVE ThreadInv(u)' /\ ParentsOf(u)'
  <2>1. ThreadInv(u) /\ Faded(u)
    BY <1>3 DEF LookupInv
  <2>2. th'[u].still => rename_lock' = Nobody
    BY <2>1, <1>3 DEF ThreadInv, LocalOf
  <2>3. u \in Walking => AfterDrop(d) /\ StaysAlive(u) /\ dn'[d].ptr = dn[d].ptr /\ (Alive(u, d)' => Alive(u, d))
    <3>1. SUFFICES ASSUME u \in Walking
                   PROVE  AfterDrop(d) /\ StaysAlive(u) /\ dn'[d].ptr = dn[d].ptr /\ (Alive(u, d)' => Alive(u, d))
      OBVIOUS
    <3>2. Walking # {}
      BY <3>1
    <3>3. \A y \in Dentries \ {d} : Alive(u, y) => Alive(u, y)' /\ dn'[y].key = dn[y].key
      BY <1>1 DEF Alive
    <3>4. Alive(u, d) => Alive(u, d)' /\ dn'[d].key = dn[d].key
      BY <3>1, <3>2, <1>1
    <3>5. StaysAlive(u)
      BY <3>3, <3>4 DEF StaysAlive
    <3>6. QED
      BY <3>1, <3>2, <3>5, <1>1, <1>10
  <2>4. th'[u].ok /\ th[u].pos = d => ~ dn[d].hashed
    BY <1>3
  <2>5. \A k \in Keys : k = th[u].key /\ ~ th'[u].absent => Present(k)'
    BY <1>3
  <2>6. th'[u].still /\ ~ th'[u].absent /\ ~ th[u].rcu /\ u \in Walking => ~ (dn[d].hashed /\ dn[d].key = th[u].key)
    <3> SUFFICES ASSUME ~ th'[u].absent, u \in Walking, dn[d].hashed, dn[d].key = th[u].key PROVE FALSE
      OBVIOUS
    <3>1. PICK k \in Keys : k = th[u].key
      BY <2>1, WalkingIs DEF ThreadInv, LocalOf, Calls
    <3>2. PICK y \in Dentries : dn'[y].hashed /\ dn'[y].key = k
      BY <3>1, <2>5 DEF Present, Has
    <3>3. y # d /\ dn[y].hashed /\ dn[y].key = dn[d].key
      BY <3>1, <3>2, <1>1
    <3>4. QED
      BY <3>3 DEF LookupInv, Table, OneHashed
  <2>7. ThreadInv(u)'
    BY <1>1, <1>2, <1>6, <2>1, <2>2, <2>3, <2>4, <2>5, <2>6, DropThread
  <2>8. ParentsOf(u)'
    BY <1>1, <2>1, ParentsKept DEF Faded
  <2>9. QED
    BY <2>7, <2>8
<1>12. QED
  BY <1>7, <1>8, <1>9, <1>11 DEF LookupInv, NameStep


LEMMA DropKeeps ==
  ASSUME LookupInv, NEW d \in Dentries, Drop(d)
  PROVE  LookupInv'
<1>1. /\ dn[d].hashed /\ ~ Locked(d) /\ chain' = Drops(d) /\ UNCHANGED <<ext, rename_lock>>
      /\ th' = Seen(Invalidates(th, {d}))
      /\ dn' = [dn EXCEPT ![d].hashed = FALSE, ![d].after = KeepsAfter(d)]
  BY DEF Drop
<1>2. dn[d] \in Entry /\ EntryOf(d) /\ dn[d].state = "live"
  BY <1>1, HashedLive DEF LookupInv, Typed, DnTyped
<1>3. PICK a \in Dentries \cup {Nobody} : a = KeepsAfter(d)
  <2>1. After(d) \in Dentries \cup {Nobody}
    BY AfterTyped DEF LookupInv, Typed, Table
  <2>2. QED
    BY <2>1 DEF KeepsAfter
<1>4. PICK n : n = [dn[d] EXCEPT !.hashed = FALSE, !.after = a]
  OBVIOUS
<1>5. /\ n \in Entry /\ ~ n.hashed /\ n.after = a /\ n.state = dn[d].state /\ n.parent = dn[d].parent
      /\ n.key = dn[d].key /\ n.ptr = dn[d].ptr /\ n.iname = dn[d].iname /\ n.waits = dn[d].waits
  BY <1>2, <1>4 DEF Entry
<1>6. dn' = [dn EXCEPT ![d] = n]
  BY <1>1, <1>3, <1>4
<1>7. dn'[d] = n /\ \A x \in Dentries \ {d} : dn'[x] = dn[x]
  BY <1>5, <1>6 DEF LookupInv, Typed, DnTyped
<1>8. PICK f : f = Invalidates(th, {d})
  OBVIOUS
<1>9. f \in [Threads -> Thread] /\ th' = Seen(f)
  BY <1>1, <1>8, InvalidatesOf DEF LookupInv, Typed, ThTyped
<1>10. ExtTyped'
  BY <1>1 DEF LookupInv, Typed, ExtTyped
<1>11. ASSUME NEW s \in Storages PROVE NameStep(s)
  <2>1. \A u \in Threads : (At(u, "snapshot") /\ th[u].ptr = s)' <=> At(u, "snapshot") /\ th[u].ptr = s
    <3>1. th \in [Threads -> Thread]
      BY DEF LookupInv, Typed, ThTyped
    <3>2. \A u \in Threads : f[u].pc = th[u].pc /\ f[u].ptr = th[u].ptr
      BY <3>1, <1>8, InvalidatesOf
    <3>3. \A u \in Threads : th'[u].pc = f[u].pc /\ th'[u].ptr = f[u].ptr
      BY <1>9, SeenOf
    <3>4. QED
      BY <3>2, <3>3 DEF At
  <2>2. \A x \in Dentries : dn'[x].state = dn[x].state /\ dn'[x].ptr = dn[x].ptr
    BY <1>5, <1>7
  <2>3. Users(s)' = Users(s)
    BY <2>1, <2>2 DEF Users
  <2>4. QED
    BY <1>1, <2>3, NameSame
<1>12. \A u \in Walking : Alive(u, d) <=> Alive(u, d)'
  BY <1>5, <1>7 DEF Alive
<1>13. n.state # "free" => n.key \in Keys
  BY <1>2, <1>5 DEF EntryOf
<1>14. n.waits = {}
  BY <1>2, <1>5 DEF EntryOf
<1>15. QED
  BY <1>1, <1>2, <1>3, <1>5, <1>6, <1>8, <1>9, <1>10, <1>11, <1>12, <1>13, <1>14, TakeOut

LEMMA KillKeeps ==
  ASSUME LookupInv, NEW d \in Dentries, Kill(d)
  PROVE  LookupInv'
<1>1. /\ dn[d].state = "live" /\ ~ Locked(d) /\ chain' = Drops(d) /\ UNCHANGED rename_lock
      /\ ext' = Put(ext, dn[d].ptr)
      /\ th' = Seen(IF dn[d].hashed THEN Invalidates(th, {d}) ELSE th)
  BY DEF Kill
<1>2. dn[d] \in Entry /\ EntryOf(d)
  BY DEF LookupInv, Typed, DnTyped
<1>3. PICK a \in Dentries \cup {Nobody} : a = IF dn[d].hashed THEN KeepsAfter(d) ELSE dn[d].after
  <2>1. After(d) \in Dentries \cup {Nobody} /\ dn[d].after \in Dentries \cup {Nobody}
    BY <1>2, AfterTyped DEF LookupInv, Typed, Table, Entry
  <2>2. QED
    BY <2>1 DEF KeepsAfter
<1>4. PICK n : n = IF Walking = {} THEN NoDentry
                   ELSE [dn[d] EXCEPT !.hashed = FALSE, !.state = "dying", !.waits = Walking, !.after = a]
  OBVIOUS
<1>5. dn' = [dn EXCEPT ![d] = n]
  BY <1>1, <1>3, <1>4 DEF Kill
<1>6. Walking \in SUBSET Threads
  BY DEF Walking
<1>7. /\ n \in Entry /\ n.hashed = FALSE /\ n.state # "live"
      /\ Walking = {} => n.state = "free" /\ n.waits = {}
      /\ Walking # {} => /\ n.state = "dying" /\ n.waits = Walking /\ n.after = a
                         /\ n.key = dn[d].key /\ n.ptr = dn[d].ptr
  <2>1. CASE Walking = {}
    <3>1. n = NoDentry /\ NoDentry.hashed = FALSE /\ NoDentry.state = "free" /\ NoDentry.waits = {}
      BY <1>4, <2>1 DEF NoDentry
    <3>2. QED
      BY <2>1, <3>1, NoDentryTyped
  <2>2. CASE Walking # {}
    <3>1. n = [dn[d] EXCEPT !.hashed = FALSE, !.state = "dying", !.waits = Walking, !.after = a]
      BY <1>4, <2>2
    <3>2. QED
      BY <1>2, <1>6, <2>2, <3>1 DEF Entry
  <2>3. QED
    BY <2>1, <2>2
<1>8. dn'[d] = n /\ \A x \in Dentries \ {d} : dn'[x] = dn[x]
  BY <1>5, <1>7 DEF LookupInv, Typed, DnTyped
<1>9. th \in [Threads -> Thread] /\ ext \in [Storages -> External]
  BY DEF LookupInv, Typed, ThTyped, ExtTyped
<1>10. PICK f : f = IF dn[d].hashed THEN Invalidates(th, {d}) ELSE th
  OBVIOUS
<1>11. /\ f \in [Threads -> Thread]
       /\ f = Invalidates(th, {d}) \/ (f = th /\ ~ dn[d].hashed)
       /\ \A u \in Threads : f[u].pc = th[u].pc /\ f[u].ptr = th[u].ptr
  <2>1. CASE dn[d].hashed
    <3>1. f = Invalidates(th, {d})
      BY <1>10, <2>1
    <3>2. QED
      BY <3>1, <1>9, InvalidatesOf
  <2>2. CASE ~ dn[d].hashed
    BY <1>9, <1>10, <2>2
  <2>3. QED
    BY <2>1, <2>2
<1>12. th' = Seen(f)
  BY <1>1, <1>10
<1>13. \A u \in Threads : th'[u].pc = th[u].pc /\ th'[u].ptr = th[u].ptr
  BY <1>11, <1>12, SeenOf
<1>14. \A s \in Storages : Users(s)' = Users(s) \ {d}
  <2> SUFFICES ASSUME NEW s \in Storages PROVE Users(s)' = Users(s) \ {d}
    OBVIOUS
  <2>1. \A u \in Threads : (At(u, "snapshot") /\ th[u].ptr = s)' <=> At(u, "snapshot") /\ th[u].ptr = s
    BY <1>13 DEF At
  <2>2. \A x \in Dentries : dn'[x].state = "live" /\ dn'[x].ptr = s <=> dn[x].state = "live" /\ dn[x].ptr = s /\ x # d
    BY <1>7, <1>8
  <2>3. d \notin Threads
    BY LookupAssumption
  <2>4. QED
    BY <2>1, <2>2, <2>3 DEF Users
<1>15. ExtTyped' /\ \A s \in Storages : NameStep(s)
  <2>1. CASE dn[d].ptr = Inline
    <3>1. ext' = ext
      BY <1>1, <2>1 DEF Put
    <3>2. \A s \in Storages : Users(s)' = Users(s)
      <4> SUFFICES ASSUME NEW s \in Storages PROVE d \notin Users(s)
        BY <1>14
      <4>1. s # Inline /\ d \notin Threads
        BY LookupAssumption
      <4>2. QED
        BY <2>1, <4>1 DEF Users
    <3>3. QED
      BY <3>1, <3>2, <1>9, NameSame DEF ExtTyped
  <2>2. CASE dn[d].ptr # Inline
    <3>1. PICK p \in Storages : p = dn[d].ptr /\ d \in Users(p)
      BY <1>1, <2>2, UsedBy
    <3>2. ext[p].count # 0
      <4>1. CountedName(p)
        BY DEF LookupInv
      <4>2. PICK U : U = Users(p)
        OBVIOUS
      <4>3. Cardinality(U) # 0
        BY <4>2, <3>1, UsersFinite, UseLess
      <4>4. QED
        BY <4>1, <4>2, <4>3 DEF CountedName
    <3>3. ext' = Put(ext, p)
      BY <1>1, <3>1
    <3>4. ExtTyped' /\ \A s \in Storages \ {p} : ext'[s] = ext[s]
      BY <1>9, <3>2, <3>3, PutOf DEF ExtTyped
    <3>5. ASSUME NEW s \in Storages PROVE NameStep(s)
      <4>1. CASE s = p
        BY <4>1, <3>1, <3>3, <1>9, <1>14, NameLess
      <4>2. CASE s # p
        <5>1. d \notin Users(s)
          BY <4>2, <3>1, LookupAssumption DEF Users
        <5>2. Users(s)' = Users(s)
          BY <5>1, <1>14
        <5>3. QED
          BY <4>2, <5>2, <3>4, NameSame
      <4>3. QED
        BY <4>1, <4>2
    <3>6. QED
      BY <3>4, <3>5
  <2>3. QED
    BY <2>1, <2>2
<1>16. \A u \in Walking : Alive(u, d) /\ Alive(u, d)'
  <2>1. \A u \in Walking : Walking # {}
    OBVIOUS
  <2>2. QED
    BY <1>1, <1>7, <1>8, <2>1 DEF Alive
<1>17. n.state # "free" => n.key \in Keys
  BY <1>1, <1>2, <1>7 DEF EntryOf
<1>18. /\ n.state # "dying" => n.waits = {}
       /\ n.state = "dying" => n.waits # {} /\ n.waits \subseteq Walking
       /\ n.state # "live" /\ ~ n.hashed
  BY <1>7
<1>19. Walking # {} =>
         /\ n.key = dn[d].key /\ n.ptr = dn[d].ptr
         /\ n.after = (IF dn[d].hashed THEN KeepsAfter(d) ELSE dn[d].after)
         /\ \A u \in Walking : Alive(u, d) => Alive(u, d)'
  BY <1>3, <1>7, <1>16
<1>20. QED
  BY <1>1, <1>5, <1>7, <1>11, <1>12, <1>15, <1>16, <1>17, <1>18, <1>19, TakeOut


\* A thread beside a step that brings an entry into its chain.
LEMMA PutThread ==
  ASSUME LookupInv, NEW u \in Threads, NEW d \in Dentries, dn[d].state = "live", ~ InChain(d),
         NEW b \in Chains, b = Chain[dn[d].key], chain' = Rehashes(d), Faded(u), DnTyped', UNCHANGED ext,
         rename_lock' = u <=> rename_lock = u, th'[u].still => rename_lock' = Nobody,
         \A y \in Dentries \ {d} : dn'[y] = dn[y],
         dn'[d].state = "live", dn'[d].key = dn[d].key, dn'[d].ptr = dn[d].ptr, dn'[d].parent = dn[d].parent,
         dn[d].hashed => dn'[d].hashed,
         \A x \in Dentries : th'[u].ok /\ x = th[u].pos => ~ Locked(x)'
  PROVE  ThreadInv(u)'
<1>1. ThreadInv(u) /\ th'[u].pos = th[u].pos /\ ChainTyped /\ Distinct
  BY DEF LookupInv, Faded, Typed, Table
<1>2. AfterPut(d, b)
  BY AfterPutOf
<1>3. StaysAlive(u) /\ Alive(u, d)
  BY DEF StaysAlive, Alive
<1>4. \A c \in Chains : \A i \in DOMAIN chain'[c] :
        (c = b /\ chain'[c][i] = d) \/ \E j \in DOMAIN chain[c] : chain'[c][i] = chain[c][j]
  BY <1>1, PutIn
<1>5. \A B \in SUBSET Chains : Surrounded(u, B) => Surrounded(u, B)'
  <2> SUFFICES ASSUME NEW B \in SUBSET Chains, Surrounded(u, B) PROVE Surrounded(u, B)'
    OBVIOUS
  <2>1. \A c \in B : \A i \in DOMAIN chain'[c] :
          (c = b /\ chain'[c][i] = d) \/ \E j \in DOMAIN chain[c] : chain'[c][i] = chain[c][j]
    BY <1>4
  <2>2. QED
    BY <1>1, <1>2, <1>3, <2>1, SurroundedPut
<1>6. \A s \in Storages \cup {Inline} : NameAlive(u, s) => NameAlive(u, s)'
  BY DEF NameAlive
<1>7. \A x \in Dentries : \A s \in Storages \cup {Inline} :
        Alive(u, x)' /\ s = dn'[x].ptr => Alive(u, x) /\ s = dn[x].ptr
  BY DEF Alive
<1>8. \A x \in Dentries : dn[x].hashed =>
        /\ dn'[x].hashed /\ dn'[x].key = dn[x].key
        /\ dn'[x].parent = dn[x].parent /\ dn'[x].ptr = dn[x].ptr
  OBVIOUS
<1>9. \A k : Present(k) => Present(k)'
  BY <1>8, PresentSame
<1>10. \A p, x \in Dentries :
        /\ th'[u].still /\ ~ th'[u].absent /\ ~ th[u].rcu /\ u \in Walking
        /\ dn[x].hashed /\ dn[x].key = th[u].key /\ p = th[u].pos /\ Leads(p, x)
        => dn'[x].hashed /\ dn'[x].key = dn[x].key /\ Leads(p, x)'
  <2> SUFFICES ASSUME NEW p \in Dentries, NEW x \in Dentries,
                      th'[u].still, ~ th'[u].absent, ~ th[u].rcu, u \in Walking,
                      dn[x].hashed, dn[x].key = th[u].key, p = th[u].pos, Leads(p, x)
               PROVE  dn'[x].hashed /\ dn'[x].key = dn[x].key /\ Leads(p, x)'
    OBVIOUS
  <2>1. th[u].still /\ rename_lock = Nobody
    BY <1>1 DEF Faded, ThreadInv, LocalOf
  <2>2. ~ Out(x)
    BY <2>1, NoMove DEF LookupInv, ThreadInv
  <2>3. PICK c \in Chains : c = Chain[dn[x].key]
    BY <2>2, HasPlace
  <2>4. PICK k \in DOMAIN chain[c] : chain[c][k] = x
    BY <2>2, <2>3, HasPlace
  <2>5. Surrounded(u, {Chain[th[u].key]})
    BY <1>1, <2>1 DEF ThreadInv, ReachOf, Steady
  <2>6. Surrounded(u, {c})
    BY <2>3, <2>5
  <2>7. Leads(p, x)'
    BY <1>1, <1>2, <2>4, <2>6, LeadsPut
  <2>8. QED
    BY <2>7, <1>8
<1>11. QED
  BY <1>1, <1>5, <1>6, <1>7, <1>8, <1>9, <1>10, ThreadKept

LEMMA RehashKeeps ==
  ASSUME LookupInv, NEW d \in Dentries, Rehash(d)
  PROVE  LookupInv'
<1>1. /\ dn[d].state = "live" /\ ~ dn[d].hashed /\ ~ Locked(d) /\ ~ Present(dn[d].key)
      /\ \A t \in Threads : \A x \in Moved(t) : dn[x].key # dn[d].key
      /\ dn' = [dn EXCEPT ![d].hashed = TRUE, ![d].after = Nobody]
      /\ chain' = Rehashes(d) /\ UNCHANGED <<ext, th, rename_lock>>
  BY DEF Rehash
<1>2. dn[d] \in Entry /\ EntryOf(d)
  BY DEF LookupInv, Typed, DnTyped
<1>3. PICK n : n = [dn[d] EXCEPT !.hashed = TRUE, !.after = Nobody]
  OBVIOUS
<1>4. /\ n \in Entry /\ n.hashed /\ n.state = dn[d].state /\ n.parent = dn[d].parent
      /\ n.key = dn[d].key /\ n.ptr = dn[d].ptr /\ n.iname = dn[d].iname /\ n.waits = dn[d].waits
  BY <1>2, <1>3 DEF Entry
<1>5. dn' = [dn EXCEPT ![d] = n]
  BY <1>1, <1>3
<1>6. dn'[d] = n /\ (\A x \in Dentries \ {d} : dn'[x] = dn[x]) /\ DnTyped'
  BY <1>4, <1>5 DEF LookupInv, Typed, DnTyped
<1>7. /\ \A u \in Threads : Faded(u) /\ SameMove(u) /\ Gone(u)' = Gone(u) /\ Moved(u)' = Moved(u)
      /\ Walking' = Walking
      /\ \A x : (Locked(x)' <=> Locked(x)) /\ (Out(x)' <=> Out(x))
  BY <1>1, SameThreads
<1>8. ~ InChain(d) /\ ~ Out(d)
  BY <1>1, ChainHashed, OutLocked
<1>9. PICK b \in Chains : b = Chain[dn[d].key]
  <2>1. dn[d].key \in Keys
    BY <1>1, <1>2 DEF EntryOf
  <2>2. QED
    BY <2>1, LookupAssumption
<1>10. \A y \in Dentries \ {d} :
         /\ dn'[y].hashed = dn[y].hashed /\ (dn[y].hashed => dn'[y].key = dn[y].key)
         /\ Out(y)' <=> Out(y)
  BY <1>6, <1>7
<1>11. ChainTyped' /\ Distinct' /\ Placed'
  BY <1>1, <1>4, <1>6, <1>7, <1>8, <1>9, <1>10, PlacedPut
<1>12. OneHashed'
  <2>1. \A x \in Dentries : dn[x].hashed => dn[x].key # dn[d].key
    BY <1>1 DEF Present, Has
  <2>2. \A x, y \in Dentries : dn'[x].hashed /\ dn'[y].hashed /\ dn'[x].key = dn'[y].key => x = y
    <3> SUFFICES ASSUME NEW x \in Dentries, NEW y \in Dentries, dn'[x].hashed, dn'[y].hashed, dn'[x].key = dn'[y].key,
                        x # y
                 PROVE  FALSE
      OBVIOUS
    <3>1. CASE x # d /\ y # d
      BY <3>1, <1>6 DEF LookupInv, Table, OneHashed
    <3>2. CASE x = d \/ y = d
      BY <3>2, <2>1, <1>4, <1>6
    <3>3. QED
      BY <3>1, <3>2
  <2>3. ASSUME NEW u \in Threads, Moving(u)' PROVE MoveAlone(u)'
    <3>1. Moving(u) /\ MoveAlone(u) /\ th'[u] = th[u]
      BY <2>3, <1>1, <1>7 DEF LookupInv, Table, OneHashed, SameMove
    <3>2. th[u].d \in Dentries /\ th[u].e \in Dentries
      BY <3>1 DEF LookupInv, ThreadInv, LocalOf
    <3>3. Moved(u) = {th[u].d, th[u].e}
      BY <3>1 DEF Moved, Moving, Moves
    <3>4. th[u].d # d /\ th[u].e # d /\ dn[th[u].e].key # dn[d].key
      BY <1>1, <3>3 DEF Locked
    <3>5. dn'[th[u].d] = dn[th[u].d] /\ dn'[th[u].e] = dn[th[u].e]
      BY <3>2, <3>4, <1>6
    <3>6. \A x \in Dentries : dn'[x].hashed => (dn[x].hashed /\ dn'[x].key = dn[x].key) \/ (x = d /\ dn'[x].key = dn[d].key)
      BY <1>4, <1>6
    <3>7. QED
      BY <3>1, <3>2, <3>4, <3>5, <3>6 DEF MoveAlone, At
  <2>4. QED
    BY <2>2, <2>3 DEF OneHashed
<1>13. Typed'
  BY <1>1, <1>6, <1>11 DEF LookupInv, Typed, ThTyped, LockTyped, ExtTyped
<1>14. ASSUME NEW s \in Storages PROVE NameStep(s)
  <2>1. \A x \in Dentries : dn'[x].state = dn[x].state /\ dn'[x].ptr = dn[x].ptr
    BY <1>4, <1>6
  <2>2. Users(s)' = Users(s)
    BY <1>1, <2>1 DEF Users, At
  <2>3. QED
    BY <1>1, <2>2, NameSame
<1>15. ASSUME NEW x \in Dentries PROVE EntryOf(x)' /\ TextOf(x)'
  <2>1. EntryOf(x) /\ dn'[x].state = dn[x].state /\ dn'[x].key = dn[x].key /\ dn'[x].parent = dn[x].parent
        /\ dn'[x].waits = dn[x].waits /\ dn'[x].ptr = dn[x].ptr /\ dn'[x].iname = dn[x].iname
        /\ (dn'[x].hashed => dn[x].hashed \/ x = d)
    BY <1>4, <1>6 DEF LookupInv
  <2>2. EntryOf(x)'
    BY <2>1, <1>1, <1>7 DEF EntryOf
  <2>3. TextOf(x)'
    BY <2>1, <1>6, <1>14, TextKept
  <2>4. QED
    BY <2>2, <2>3
<1>16. ASSUME NEW u \in Threads PROVE ThreadInv(u)' /\ ParentsOf(u)'
  <2>1. ThreadInv(u) /\ Faded(u) /\ th'[u] = th[u]
    BY <1>1, <1>7 DEF LookupInv
  <2>2. th'[u].still => rename_lock' = Nobody
    BY <2>1, <1>1 DEF ThreadInv, LocalOf
  <2>3. \A x \in Dentries : th'[u].ok /\ x = th[u].pos => ~ Locked(x)'
    BY <2>1, <1>7 DEF ThreadInv, SequenceOf
  <2>4. ThreadInv(u)'
    BY <1>1, <1>4, <1>6, <1>8, <1>9, <2>1, <2>2, <2>3, PutThread
  <2>5. ParentsOf(u)'
    BY <2>1, <1>4, <1>6, ParentsKept
  <2>6. QED
    BY <2>4, <2>5
<1>17. QED
  BY <1>11, <1>12, <1>13, <1>14, <1>15, <1>16 DEF LookupInv, Table, NameStep


-----------------------------------------------------------------------------
(* The steps of a move.                                                    *)

LEMMA MoveBeginKeeps ==
  ASSUME LookupInv, NEW t \in Threads, NEW d \in Dentries, NEW e \in Dentries, NEW exchange \in BOOLEAN,
         MoveBegin(t, d, e, exchange)
  PROVE  LookupInv'
<1>1. /\ th[t].pc = "idle" /\ rename_lock = Nobody /\ d # e
      /\ dn[d].state = "live" /\ dn[e].state = "live" /\ ~ Locked(d) /\ ~ Locked(e)
      /\ exchange => dn[d].hashed /\ dn[e].hashed
      /\ \A x \in Dentries \ {d, e} : dn[x].hashed => dn[x].key # dn[e].key
      /\ rename_lock' = t /\ UNCHANGED <<dn, chain, ext>>
  BY DEF MoveBegin, At
<1>2. th \in [Threads -> Thread]
  BY DEF LookupInv, Typed, ThTyped
<1>3. PICK r : r = [Idle EXCEPT !.pc = "unhash", !.d = d, !.e = e, !.exchange = exchange]
  OBVIOUS
<1>4. /\ r \in Thread /\ r.pc = "unhash" /\ r.d = d /\ r.e = e /\ r.exchange = exchange
      /\ ~ r.ok /\ ~ r.still /\ r.key = Nobody
  BY <1>3, IdleTyped DEF Thread, Moves
<1>5. PICK f : f = [u \in Threads |-> [th[u] EXCEPT !.still = FALSE]]
  OBVIOUS
<1>6. PICK g : g = [f EXCEPT ![t] = r]
  OBVIOUS
<1>7. th' = Invalidates(g, {d, e})
  BY <1>3, <1>5, <1>6 DEF MoveBegin
<1>8. f \in [Threads -> Thread] /\ \A u \in Threads :
        /\ f[u].pc = th[u].pc /\ f[u].rcu = th[u].rcu /\ f[u].key = th[u].key
        /\ f[u].pos = th[u].pos /\ f[u].ptr = th[u].ptr /\ f[u].still = FALSE
        /\ f[u].absent = th[u].absent /\ f[u].d = th[u].d /\ f[u].e = th[u].e
        /\ f[u].exchange = th[u].exchange /\ f[u].ok = th[u].ok
  <2>1. ASSUME NEW u \in Threads
        PROVE  f[u] \in Thread /\ f[u] = [th[u] EXCEPT !.still = FALSE] /\ th[u] \in Thread
    <3>1. th[u] \in Thread /\ f[u] = [th[u] EXCEPT !.still = FALSE]
      BY <1>2, <1>5
    <3>2. [th[u] EXCEPT !.still = FALSE] \in Thread
      BY <3>1 DEF Thread
    <3>3. QED
      BY <3>1, <3>2
  <2>2. f = [u \in Threads |-> f[u]]
    BY <1>5
  <2>3. f \in [Threads -> Thread]
    BY <2>1, <2>2
  <2>4. QED
    BY <2>1, <2>3 DEF Thread
<1>9. g \in [Threads -> Thread] /\ g[t] = r /\ \A u \in Threads \ {t} : g[u] = f[u]
  BY <1>4, <1>6, <1>8
<1>10. ThTyped' /\ \A u \in Threads :
         /\ th'[u].pc = g[u].pc /\ th'[u].rcu = g[u].rcu /\ th'[u].key = g[u].key
         /\ th'[u].pos = g[u].pos /\ th'[u].ptr = g[u].ptr /\ th'[u].still = g[u].still
         /\ th'[u].absent = g[u].absent /\ th'[u].d = g[u].d /\ th'[u].e = g[u].e
         /\ th'[u].exchange = g[u].exchange
         /\ th'[u].ok => g[u].ok /\ g[u].pos \notin {d, e}
  BY <1>7, <1>9, InvalidatesOf DEF ThTyped
<1>11. \A u \in Threads \ {t} :
         Faded(u) /\ ~ th'[u].still /\ (th'[u].ok => th[u].ok /\ th[u].pos \notin {d, e})
  BY <1>8, <1>9, <1>10 DEF Faded
<1>12. /\ th'[t].pc = "unhash" /\ th'[t].d = d /\ th'[t].e = e /\ th'[t].exchange = exchange
       /\ ~ th'[t].ok /\ ~ th'[t].still /\ th'[t].key = Nobody
  BY <1>4, <1>9, <1>10
<1>13. /\ \A u \in Threads : ~ Moving(u)
       /\ \A x : ~ Locked(x) /\ ~ Out(x)
  BY <1>1, NoMove DEF LookupInv, ThreadInv
<1>14. \A u \in Threads \ {t} : ~ Moving(u)' /\ Moved(u)' = {} /\ Gone(u)' = {}
  <2>1. \A u \in Threads \ {t} : SameMove(u) /\ Gone(u)' = Gone(u) /\ Moved(u)' = Moved(u)
    BY <1>11, FadedMove
  <2>2. \A u \in Threads : Moved(u) = {} /\ Gone(u) = {}
    BY <1>13 DEF Locked, Out, Moved, Gone
  <2>3. QED
    BY <1>13, <2>1, <2>2 DEF SameMove
<1>15. Moving(t)' /\ Moved(t)' = {d, e} /\ Gone(t)' = {}
  BY <1>12 DEF Moving, Moves, Moved, Gone
<1>16. /\ \A x : Locked(x)' <=> x \in {d, e}
       /\ \A x : ~ Out(x)'
  BY <1>14, <1>15 DEF Locked, Out
<1>17. Walking' = Walking
  <2>1. \A u \in Threads \ {t} : (u \in Walking)' <=> u \in Walking
    BY <1>11, FadedWalk
  <2>2. t \notin Walking /\ (t \notin Walking)'
    BY <1>1, <1>12 DEF Walking
  <2>3. QED
    BY <2>1, <2>2 DEF Walking
<1>18. DnTyped' /\ Typed'
  BY <1>1, <1>10, ChainSame DEF LookupInv, Typed, DnTyped, ExtTyped, LockTyped
<1>19. Table'
  <2>1. Distinct' /\ \A y : InChain(y)' <=> InChain(y)
    BY <1>1, ChainSame
  <2>2. Placed'
    <3>1. \A b \in Chains : \A i \in DOMAIN chain[b] :
            dn[chain[b][i]].hashed /\ Chain[dn[chain[b][i]].key] = b
      BY DEF LookupInv, Table, Placed
    <3>2. \A x \in Dentries : dn[x].hashed => InChain(x)
      BY <1>13 DEF LookupInv, Table, Placed
    <3>3. QED
      BY <3>1, <3>2, <2>1, <1>1, <1>16 DEF Placed
  <2>3. OneHashed'
    <3>1. \A x, y \in Dentries : dn[x].hashed /\ dn[y].hashed /\ dn[x].key = dn[y].key => x = y
      BY DEF LookupInv, Table, OneHashed
    <3>2. MoveAlone(t)'
      BY <1>1, <1>12 DEF MoveAlone, At
    <3>3. QED
      BY <3>1, <3>2, <1>1, <1>14 DEF OneHashed
  <2>4. QED
    BY <2>1, <2>2, <2>3 DEF Table
<1>20. ASSUME NEW x \in Dentries PROVE EntryOf(x)' /\ TextOf(x)'
  <2>1. EntryOf(x) /\ TextOf(x)
    BY DEF LookupInv
  <2>2. EntryOf(x)'
    BY <2>1, <1>1, <1>13, <1>16, <1>17 DEF EntryOf
  <2>3. TextOf(x)'
    BY <2>1, <1>1 DEF TextOf, Text
  <2>4. QED
    BY <2>2, <2>3
<1>21. ASSUME NEW s \in Storages PROVE CountedName(s)'
  <2>1. \A u \in Threads : (At(u, "snapshot") /\ th[u].ptr = s)' <=> At(u, "snapshot") /\ th[u].ptr = s
    <3>1. \A u \in Threads \ {t} : (At(u, "snapshot") /\ th[u].ptr = s)' <=> At(u, "snapshot") /\ th[u].ptr = s
      BY <1>11 DEF At, Faded
    <3>2. QED
      BY <3>1, <1>1, <1>12 DEF At
  <2>2. Users(s)' = Users(s)
    BY <1>1, <2>1 DEF Users
  <2>3. NameStep(s)
    BY <1>1, <2>2, NameSame
  <2>4. QED
    BY <2>3 DEF NameStep
<1>22. ASSUME NEW u \in Threads PROVE ThreadInv(u)' /\ ParentsOf(u)'
  <2>1. CASE u # t
    <3>1. Faded(u) /\ ~ th'[u].still /\ (th'[u].ok => th[u].pos \notin {d, e})
      BY <2>1, <1>11
    <3>2. rename_lock' = u <=> rename_lock = u
      BY <2>1, <1>1, LookupAssumption
    <3>3. \A x \in Dentries : th'[u].ok /\ x = th[u].pos => ~ Locked(x)'
      BY <3>1, <1>16
    <3>4. ThreadInv(u)'
      BY <1>1, <1>10, <3>1, <3>2, <3>3, BesideKept
    <3>5. ParentsOf(u)'
      BY <2>1, <1>14 DEF ParentsOf
    <3>6. QED
      BY <3>4, <3>5
  <2>2. CASE u = t
    <3>1. LocalOf(t)'
      BY <1>1, <1>12 DEF LocalOf, At, Moving, Moves, Calls, Walks, Reads
    <3>2. th'[t].pc \notin Calls
      BY <1>12 DEF Calls, Walks, Reads
    <3>3. ThreadInv(t)'
      BY <1>12, <3>1, <3>2, IdleThread
    <3>4. EntryOf(d) /\ EntryOf(e)
      BY DEF LookupInv
    <3>5. dn[d].parent = dn[d].key[1] /\ dn[e].parent = dn[e].key[1]
      BY <1>1, <3>4 DEF EntryOf
    <3>6. ParentsOf(t)'
      BY <1>1, <1>12, <3>5 DEF ParentsOf, At
    <3>7. QED
      BY <2>2, <3>3, <3>6
  <2>3. QED
    BY <2>1, <2>2
<1>23. QED
  BY <1>18, <1>19, <1>20, <1>21, <1>22 DEF LookupInv

\* The thread that moves goes on, the others are beside it.
MoverGoes(t, next) ==
  /\ ThTyped'
  /\ \A u \in Threads \ {t} : Faded(u)
  /\ th'[t].pc = next /\ th'[t].rcu = th[t].rcu /\ th'[t].key = th[t].key /\ th'[t].pos = th[t].pos
  /\ th'[t].still = th[t].still /\ th'[t].ok = th[t].ok
  /\ th'[t].d = th[t].d /\ th'[t].e = th[t].e /\ th'[t].exchange = th[t].exchange

LEMMA MoverGoesOf ==
  ASSUME LookupInv, NEW t \in Threads, NEW next \in Moves, NEW f, f = [th EXCEPT ![t].pc = next],
         th' = f \/ th' = Seen(f)
  PROVE  /\ MoverGoes(t, next)
         /\ th' = Seen(f) => \A u \in Threads : \A k \in Keys : k = th[u].key /\ ~ th'[u].absent => Present(k)'
<1>1. th \in [Threads -> Thread]
  BY DEF LookupInv, Typed, ThTyped
<1>2. th[t] \in Thread
  BY <1>1
<1>3. PICK r : r = [th[t] EXCEPT !.pc = next]
  OBVIOUS
<1>4. /\ r \in Thread /\ r.pc = next /\ r.rcu = th[t].rcu /\ r.key = th[t].key /\ r.pos = th[t].pos
      /\ r.still = th[t].still /\ r.ok = th[t].ok /\ r.absent = th[t].absent
      /\ r.d = th[t].d /\ r.e = th[t].e /\ r.exchange = th[t].exchange
  BY <1>2, <1>3 DEF Thread
<1>5. f \in [Threads -> Thread] /\ f[t] = r /\ \A u \in Threads \ {t} : f[u] = th[u]
  BY <1>1, <1>3, <1>4
<1>6. CASE th' = f
  <2>1. \A u \in Threads \ {t} : Faded(u)
    BY <1>5, <1>6, SameFaded
  <2>2. ThTyped'
    BY <1>5, <1>6 DEF ThTyped
  <2>3. MoverGoes(t, next)
    BY <2>1, <2>2, <1>4, <1>5, <1>6 DEF MoverGoes
  <2>4. CASE th' # Seen(f)
    BY <2>3, <2>4
  <2>5. CASE th' = Seen(f)
    <3>1. \A u \in Threads : \A k \in Keys : k = f[u].key /\ ~ th'[u].absent => Present(k)'
      BY <1>5, <2>5, SeenOf
    <3>2. \A u \in Threads : f[u].key = th[u].key
      BY <1>4, <1>5
    <3>3. QED
      BY <2>3, <3>1, <3>2
  <2>6. QED
    BY <2>4, <2>5
<1>7. CASE th' = Seen(f)
  <2>1. /\ ThTyped'
        /\ \A u \in Threads :
              /\ th'[u].pc = f[u].pc /\ th'[u].rcu = f[u].rcu /\ th'[u].key = f[u].key
              /\ th'[u].pos = f[u].pos /\ th'[u].ptr = f[u].ptr /\ th'[u].still = f[u].still
              /\ th'[u].ok = f[u].ok /\ th'[u].d = f[u].d /\ th'[u].e = f[u].e
              /\ th'[u].exchange = f[u].exchange
              /\ f[u].absent => th'[u].absent
              /\ \A k \in Keys : k = f[u].key /\ ~ th'[u].absent => Present(k)'
    BY <1>5, <1>7, SeenOf
  <2>2. \A u \in Threads \ {t} : Faded(u)
    BY <2>1, <1>5 DEF Faded
  <2>3. MoverGoes(t, next)
    BY <2>1, <2>2, <1>4, <1>5 DEF MoverGoes
  <2>4. \A u \in Threads : f[u].key = th[u].key
    BY <1>4, <1>5
  <2>5. QED
    BY <2>1, <2>3, <2>4
<1>8. QED
  BY <1>6, <1>7

\* A step inside of a move: who is locked, who is out of its chain.
LEMMA MoverStep ==
  ASSUME LookupInv, NEW t \in Threads, Moving(t), NEW next \in Moves, MoverGoes(t, next), UNCHANGED rename_lock,
         next = "rehash target" => th[t].exchange
  PROVE  /\ th[t].d \in Dentries /\ th[t].e \in Dentries /\ th[t].d # th[t].e
         /\ dn[th[t].d].state = "live" /\ dn[th[t].e].state = "live"
         /\ rename_lock = t /\ rename_lock # Nobody
         /\ Moving(t)' /\ \A u \in Threads \ {t} : ~ Moving(u) /\ ~ Moving(u)'
         /\ \A x : (Locked(x) <=> x \in {th[t].d, th[t].e}) /\ (Locked(x)' <=> Locked(x))
         /\ \A x : (Out(x) <=> x \in Gone(t)) /\ (Out(x)' <=> x \in Gone(t)')
         /\ Walking' = Walking /\ t \notin Walking
         /\ \A s : {u \in Threads : At(u, "snapshot") /\ th[u].ptr = s}' = {u \in Threads : At(u, "snapshot") /\ th[u].ptr = s}
         /\ \A u \in Threads \ {t} :
              /\ Faded(u) /\ ~ th'[u].still
              /\ th'[u].ok => th[u].pos \notin {th[t].d, th[t].e}
              /\ rename_lock' = u <=> rename_lock = u
         /\ ThreadInv(t)'
<1>1. LocalOf(t) /\ SequenceOf(t) /\ \A u \in Threads : LocalOf(u)
  BY DEF LookupInv, ThreadInv
<1>2. th[t].d \in Dentries /\ th[t].e \in Dentries /\ th[t].d # th[t].e
  BY <1>1 DEF LocalOf
<1>3. rename_lock = t /\ t # Nobody
  BY <1>1, LookupAssumption DEF LocalOf
<1>4. th'[t].pc = next /\ th'[t].d = th[t].d /\ th'[t].e = th[t].e /\ th'[t].exchange = th[t].exchange
  BY DEF MoverGoes
<1>5. Moving(t)' /\ Moved(t) = {th[t].d, th[t].e} /\ Moved(t)' = {th[t].d, th[t].e}
  BY <1>4 DEF Moving, Moves, Moved
<1>6. \A u \in Threads \ {t} : ~ Moving(u) /\ Moved(u) = {} /\ Gone(u) = {}
  <2>1. \A u \in Threads \ {t} : ~ Moving(u)
    BY <1>1, MoverAlone
  <2>2. QED
    BY <2>1 DEF Moving, Moves, Moved, Gone
<1>7. \A u \in Threads \ {t} : Faded(u) /\ ~ Moving(u)' /\ Moved(u)' = {} /\ Gone(u)' = {}
  <2>1. \A u \in Threads \ {t} : Faded(u) /\ SameMove(u) /\ Gone(u)' = Gone(u) /\ Moved(u)' = Moved(u)
    BY FadedMove DEF MoverGoes
  <2>2. QED
    BY <2>1, <1>6 DEF SameMove
<1>8. \A x : (Locked(x) <=> x \in {th[t].d, th[t].e}) /\ (Locked(x)' <=> Locked(x))
  BY <1>5, <1>6, <1>7 DEF Locked
<1>9. \A x : (Out(x) <=> x \in Gone(t)) /\ (Out(x)' <=> x \in Gone(t)')
  BY <1>6, <1>7 DEF Out
<1>10. th[t].pc \notin {"idle", "snapshot", "valid"} \cup Calls /\ th'[t].pc \notin {"idle", "snapshot", "valid"} \cup Calls
  BY <1>4, NotMoving DEF Moving, Moves, Calls, Walks, Reads
<1>11. Walking' = Walking /\ t \notin Walking
  <2>1. \A u \in Threads \ {t} : (u \in Walking)' <=> u \in Walking
    BY <1>7, FadedWalk
  <2>2. t \notin Walking /\ (t \notin Walking)'
    BY <1>10 DEF Walking, Calls, Walks, Reads
  <2>3. QED
    BY <2>1, <2>2 DEF Walking
<1>12. ASSUME NEW s
       PROVE  {u \in Threads : At(u, "snapshot") /\ th[u].ptr = s}' = {u \in Threads : At(u, "snapshot") /\ th[u].ptr = s}
  <2>1. \A u \in Threads \ {t} : (At(u, "snapshot") /\ th[u].ptr = s)' <=> At(u, "snapshot") /\ th[u].ptr = s
    BY <1>7 DEF At, Faded
  <2>2. ~ At(t, "snapshot") /\ ~ At(t, "snapshot")'
    BY <1>10 DEF At
  <2>3. QED
    BY <2>1, <2>2
<1>13. ASSUME NEW u \in Threads \ {t}
       PROVE  /\ Faded(u) /\ ~ th'[u].still
              /\ th'[u].ok => th[u].pos \notin {th[t].d, th[t].e}
              /\ rename_lock' = u <=> rename_lock = u
  <2>1. Faded(u) /\ LocalOf(u) /\ SequenceOf(u)
    BY <1>7 DEF LookupInv, ThreadInv
  <2>2. ~ th'[u].still
    BY <2>1, <1>3 DEF Faded, LocalOf
  <2>3. th'[u].ok => ~ Locked(th[u].pos)
    BY <2>1 DEF Faded, SequenceOf
  <2>4. QED
    BY <2>1, <2>2, <2>3, <1>8
<1>14. ThreadInv(t)'
  <2>1. LocalOf(t)'
    BY <1>1, <1>2, <1>3, <1>4, <1>5, <1>10 DEF LocalOf, At, MoverGoes, Moves, Moving, Calls, Walks, Reads
  <2>2. SequenceOf(t)'
    BY <1>1, <1>4, <1>8, <1>10 DEF SequenceOf, MoverGoes, At, Calls, Walks, Reads
  <2>3. th'[t].pc # "none" /\ t \notin Walking' /\ th'[t].pc \notin Calls
    BY <1>10, <1>11 DEF Calls
  <2>4. QED
    BY <2>1, <2>2, <2>3 DEF ThreadInv, ReachOf, NamesOf, PresentOf, AheadOf, NoneOf, At
<1>15. dn[th[t].d].state = "live" /\ dn[th[t].e].state = "live"
  BY <1>2, <1>8 DEF LookupInv, EntryOf
<1>16. QED
  BY <1>2, <1>3, <1>5, <1>6, <1>7, <1>8, <1>9, <1>11, <1>12, <1>13, <1>14, <1>15

\* Both entries of a move leave their chains, and stay hashed for d_unhashed.
LEMMA UnhashKeeps ==
  ASSUME LookupInv, NEW t \in Threads, NEW x, NEW pc, NEW next, Unhash(t, x, pc, next),
         \/ pc = "unhash" /\ next = "unhash target" /\ x = th[t].d
         \/ pc = "unhash target" /\ next = "reparent" /\ x = th[t].e
  PROVE  LookupInv'
<1>1. /\ th[t].pc = pc /\ chain' = Drops(x) /\ th' = [th EXCEPT ![t].pc = next]
      /\ dn' = [dn EXCEPT ![x].after = IF dn[x].hashed THEN KeepsAfter(x) ELSE dn[x].after]
      /\ UNCHANGED <<ext, rename_lock>>
  BY DEF Unhash, At, Goes
<1>2. Moving(t) /\ next \in Moves /\ next \notin {"rehash", "rehash target"}
  BY <1>1 DEF Moving, Moves
<1>3. MoverGoes(t, next)
  BY <1>1, <1>2, MoverGoesOf
<1> DEFINE d == th[t].d
           e == th[t].e
<1>4. /\ d \in Dentries /\ e \in Dentries /\ d # e /\ dn[d].state = "live" /\ dn[e].state = "live"
      /\ rename_lock = t /\ rename_lock # Nobody
      /\ Moving(t)' /\ \A u \in Threads \ {t} : ~ Moving(u) /\ ~ Moving(u)'
      /\ \A y : (Locked(y) <=> y \in {d, e}) /\ (Locked(y)' <=> Locked(y))
      /\ \A y : (Out(y) <=> y \in Gone(t)) /\ (Out(y)' <=> y \in Gone(t)')
      /\ Walking' = Walking
      /\ ThreadInv(t)'
  BY <1>1, <1>2, <1>3, MoverStep
<1>5. /\ \A s : {u \in Threads : At(u, "snapshot") /\ th[u].ptr = s}' = {u \in Threads : At(u, "snapshot") /\ th[u].ptr = s}
      /\ \A u \in Threads \ {t} :
              /\ Faded(u) /\ ~ th'[u].still
              /\ th'[u].ok => th[u].pos \notin {d, e}
              /\ rename_lock' = u <=> rename_lock = u
  BY <1>1, <1>2, <1>3, MoverStep
<1>6. x \in {d, e} /\ x \in Dentries /\ dn[x].state = "live"
  BY <1>4
<1>7. th'[t].pc = next /\ th'[t].d = d /\ th'[t].e = e /\ th'[t].exchange = th[t].exchange
  BY <1>3 DEF MoverGoes
<1>8. x \notin Gone(t) /\ Gone(t)' = Gone(t) \cup {x}
  BY <1>1, <1>4, <1>7 DEF Gone
<1>9. ~ Out(x) /\ Out(x)' /\ \A y : y # x => (Out(y)' <=> Out(y))
  BY <1>4, <1>8
<1> HIDE DEF d, e
<1>10. PICK n : n = [dn[x] EXCEPT !.after = IF dn[x].hashed THEN KeepsAfter(x) ELSE dn[x].after]
  OBVIOUS
<1>11. /\ n \in Entry /\ n.hashed = dn[x].hashed /\ n.state = dn[x].state /\ n.parent = dn[x].parent
       /\ n.key = dn[x].key /\ n.ptr = dn[x].ptr /\ n.iname = dn[x].iname /\ n.waits = dn[x].waits
       /\ n.after = IF dn[x].hashed THEN KeepsAfter(x) ELSE dn[x].after
  <2>1. dn[x] \in Entry
    BY <1>6 DEF LookupInv, Typed, DnTyped
  <2>2. KeepsAfter(x) \in Dentries \cup {Nobody}
    BY <1>6, AfterTyped DEF KeepsAfter, LookupInv, Typed, Table
  <2>3. QED
    BY <2>1, <2>2, <1>10 DEF Entry
<1>12. dn' = [dn EXCEPT ![x] = n]
  BY <1>1, <1>10
<1>13. dn'[x] = n /\ (\A y \in Dentries \ {x} : dn'[y] = dn[y]) /\ DnTyped'
  BY <1>6, <1>11, <1>12 DEF LookupInv, Typed, DnTyped
<1>14. \A y \in Dentries :
         /\ dn'[y].hashed = dn[y].hashed /\ dn'[y].state = dn[y].state /\ dn'[y].parent = dn[y].parent
         /\ dn'[y].key = dn[y].key /\ dn'[y].ptr = dn[y].ptr /\ dn'[y].iname = dn[y].iname
         /\ dn'[y].waits = dn[y].waits
  BY <1>11, <1>13
<1>15. Table'
  <2>1. Distinct'
    BY <1>1, <1>6, <1>9, Dropped
  <2>2. Placed'
    BY <1>1, <1>6, <1>9, <1>14, PlacedDrop
  <2>3. \A u \in Threads : SameMove(u)
    <3>1. SameMove(t)
      BY <1>2, <1>4, <1>7 DEF SameMove, d, e
    <3>2. QED
      BY <3>1, <1>5, FadedMove
  <2>4. OneHashed'
    BY <1>14, <2>3, OneHashedLess
  <2>5. QED
    BY <2>1, <2>2, <2>4 DEF Table
<1>16. Typed'
  BY <1>1, <1>3, <1>6, <1>9, <1>13, Dropped DEF LookupInv, Typed, LockTyped, ExtTyped, MoverGoes
<1>17. ASSUME NEW s \in Storages PROVE NameStep(s)
  <2>1. Users(s)' = Users(s)
    BY <1>5, <1>14 DEF Users
  <2>2. QED
    BY <1>1, <2>1, NameSame
<1>18. ASSUME NEW y \in Dentries PROVE EntryOf(y)' /\ TextOf(y)'
  <2>1. EntryOf(y)
    BY DEF LookupInv
  <2>2. EntryOf(y)'
    <3>1. (Locked(y)' <=> Locked(y)) /\ Walking' = Walking
      BY <1>4
    <3>2. /\ dn'[y].hashed = dn[y].hashed /\ dn'[y].state = dn[y].state /\ dn'[y].parent = dn[y].parent
          /\ dn'[y].key = dn[y].key /\ dn'[y].waits = dn[y].waits
      BY <1>14
    <3>3. QED
      BY <2>1, <3>1, <3>2 DEF EntryOf
  <2>3. TextOf(y)'
    BY <1>13, <1>14, <1>17, TextKept
  <2>4. QED
    BY <2>2, <2>3
<1>19. ASSUME NEW u \in Threads PROVE ThreadInv(u)' /\ ParentsOf(u)'
  <2>1. CASE u = t
    <3>1. ParentsOf(t) /\ ~ At(t, "rename") /\ ~ At(t, "rename")'
      BY <1>1, <1>7 DEF LookupInv, At
    <3>2. dn[d].parent = dn[d].key[1] /\ dn[e].parent = dn[e].key[1]
      BY <3>1, <1>2 DEF ParentsOf, d, e
    <3>3. ParentsOf(t)'
      BY <3>1, <3>2, <1>4, <1>7, <1>14 DEF ParentsOf
    <3>4. QED
      BY <2>1, <3>3, <1>4
  <2>2. CASE u # t
    <3>1. Faded(u) /\ ~ th'[u].still /\ (rename_lock' = u <=> rename_lock = u)
      BY <2>2, <1>5
    <3>2. u \in Walking => AfterDrop(x) /\ StaysAlive(u) /\ (Alive(u, x)' => Alive(u, x))
      <4>1. u \in Walking => AfterDrop(x)
        BY <1>1, <1>6, <1>9, <1>11, <1>13, AfterDropOf
      <4>2. StaysAlive(u) /\ (Alive(u, x)' => Alive(u, x))
        BY <1>6, <1>14 DEF StaysAlive, Alive
      <4>3. QED
        BY <4>1, <4>2
    <3>3. \A k : Present(k) => Present(k)'
      BY <1>14, PresentSame
    <3>4. ThreadInv(u)'
      BY <3>1, <3>2, <3>3, <1>1, <1>4, <1>5, <1>6, <1>9, <1>11, <1>13, <1>17, <2>2, DropThread
    <3>5. ParentsOf(u)'
      BY <2>2, <1>4 DEF ParentsOf
    <3>6. QED
      BY <3>4, <3>5
  <2>3. QED
    BY <2>1, <2>2
<1>20. QED
  BY <1>15, <1>16, <1>17, <1>18, <1>19 DEF LookupInv, NameStep

\* The parents change before the names do.
LEMMA ReparentKeeps ==
  ASSUME LookupInv, NEW t \in Threads, Reparent(t)
  PROVE  LookupInv'
<1> DEFINE d == th[t].d
           e == th[t].e
<1>1. /\ th[t].pc = "reparent" /\ th' = [th EXCEPT ![t].pc = "rename"]
      /\ dn' = [dn EXCEPT ![d].parent = dn[e].parent,
                          ![e].parent = IF th[t].exchange THEN dn[d].parent ELSE @]
      /\ UNCHANGED <<chain, ext, rename_lock>>
  BY DEF Reparent, At, Goes
<1>2. Moving(t) /\ "rename" \in Moves
  BY <1>1 DEF Moving, Moves
<1>3. MoverGoes(t, "rename")
  BY <1>1, <1>2, MoverGoesOf
<1>4. /\ d \in Dentries /\ e \in Dentries /\ d # e /\ dn[d].state = "live" /\ dn[e].state = "live"
      /\ rename_lock = t /\ rename_lock # Nobody
      /\ Moving(t)' /\ \A u \in Threads \ {t} : ~ Moving(u) /\ ~ Moving(u)'
      /\ \A y : (Locked(y) <=> y \in {d, e}) /\ (Locked(y)' <=> Locked(y))
      /\ \A y : (Out(y) <=> y \in Gone(t)) /\ (Out(y)' <=> y \in Gone(t)')
      /\ Walking' = Walking
      /\ ThreadInv(t)'
  BY <1>1, <1>2, <1>3, MoverStep
<1>5. /\ \A s : {u \in Threads : At(u, "snapshot") /\ th[u].ptr = s}' = {u \in Threads : At(u, "snapshot") /\ th[u].ptr = s}
      /\ \A u \in Threads \ {t} :
              /\ Faded(u) /\ ~ th'[u].still
              /\ th'[u].ok => th[u].pos \notin {d, e}
              /\ rename_lock' = u <=> rename_lock = u
  BY <1>1, <1>2, <1>3, MoverStep
<1>7. th'[t].pc = "rename" /\ th'[t].d = d /\ th'[t].e = e /\ th'[t].exchange = th[t].exchange
  BY <1>3 DEF MoverGoes
<1>8. Gone(t)' = Gone(t)
  BY <1>1, <1>7 DEF Gone
<1>9. \A y : Out(y)' <=> Out(y)
  BY <1>4, <1>8
<1> HIDE DEF d, e
<1>10. PICK n, m : n = [dn[d] EXCEPT !.parent = dn[e].parent]
                   /\ m = [dn[e] EXCEPT !.parent = IF th[t].exchange THEN dn[d].parent ELSE dn[e].parent]
  OBVIOUS
<1>11. dn[d] \in Entry /\ dn[e] \in Entry
  BY <1>4 DEF LookupInv, Typed, DnTyped
<1>12. /\ n \in Entry /\ n.hashed = dn[d].hashed /\ n.state = dn[d].state /\ n.after = dn[d].after
       /\ n.key = dn[d].key /\ n.ptr = dn[d].ptr /\ n.iname = dn[d].iname /\ n.waits = dn[d].waits
       /\ n.parent = dn[e].parent
  BY <1>10, <1>11 DEF Entry
<1>13. /\ m \in Entry /\ m.hashed = dn[e].hashed /\ m.state = dn[e].state /\ m.after = dn[e].after
       /\ m.key = dn[e].key /\ m.ptr = dn[e].ptr /\ m.iname = dn[e].iname /\ m.waits = dn[e].waits
       /\ m.parent = IF th[t].exchange THEN dn[d].parent ELSE dn[e].parent
  BY <1>10, <1>11 DEF Entry
<1>14. dn' = [dn EXCEPT ![d] = n, ![e] = m]
  BY <1>1, <1>4, <1>10 DEF LookupInv, Typed, DnTyped
<1>15. dn'[d] = n /\ dn'[e] = m /\ (\A y \in Dentries \ {d, e} : dn'[y] = dn[y]) /\ DnTyped'
  BY <1>4, <1>12, <1>13, <1>14 DEF LookupInv, Typed, DnTyped
<1>16. \A y \in Dentries :
         /\ dn'[y].hashed = dn[y].hashed /\ dn'[y].state = dn[y].state
         /\ dn'[y].key = dn[y].key /\ dn'[y].ptr = dn[y].ptr /\ dn'[y].iname = dn[y].iname
         /\ dn'[y].waits = dn[y].waits /\ dn'[y].after = dn[y].after
         /\ y \notin {d, e} => dn'[y].parent = dn[y].parent
  BY <1>12, <1>13, <1>15
<1>17. Table'
  <2>1. \A u \in Threads : SameMove(u) /\ Gone(u)' = Gone(u)
    <3>1. SameMove(t)
      BY <1>2, <1>4, <1>7 DEF SameMove, d, e
    <3>2. QED
      BY <3>1, <1>5, <1>8, FadedMove
  <2>2. QED
    BY <1>1, <1>16, <2>1, TableSame DEF SameEntries
<1>18. Typed'
  BY <1>1, <1>3, <1>15, ChainSame DEF LookupInv, Typed, LockTyped, ExtTyped, MoverGoes
<1>19. ASSUME NEW s \in Storages PROVE NameStep(s)
  <2>1. Users(s)' = Users(s)
    BY <1>5, <1>16 DEF Users
  <2>2. QED
    BY <1>1, <2>1, NameSame
<1>20. ASSUME NEW y \in Dentries PROVE EntryOf(y)' /\ TextOf(y)'
  <2>1. EntryOf(y)
    BY DEF LookupInv
  <2>2. EntryOf(y)'
    BY <2>1, <1>4, <1>16 DEF EntryOf
  <2>3. TextOf(y)'
    BY <1>15, <1>16, <1>19, TextKept
  <2>4. QED
    BY <2>2, <2>3
<1>21. ASSUME NEW u \in Threads PROVE ThreadInv(u)' /\ ParentsOf(u)'
  <2>1. CASE u = t
    <3>1. dn[d].parent = dn[d].key[1] /\ dn[e].parent = dn[e].key[1]
      BY <1>1, <1>2 DEF LookupInv, ParentsOf, At, d, e
    <3>2. ParentsOf(t)'
      BY <3>1, <1>4, <1>7, <1>12, <1>13, <1>15 DEF ParentsOf, At
    <3>3. QED
      BY <2>1, <3>2, <1>4
  <2>2. CASE u # t
    <3>1. Faded(u) /\ ~ th'[u].still /\ (rename_lock' = u <=> rename_lock = u)
      BY <2>2, <1>5
    <3>2. StaysAlive(u) /\ AfterSame(u) /\ \A y \in Dentries : Alive(u, y)' => Alive(u, y)
      <4>1. StaysAlive(u) /\ \A y \in Dentries : Alive(u, y)' => Alive(u, y)
        BY <1>16 DEF StaysAlive, Alive
      <4>2. ASSUME NEW y \in Dentries PROVE After(y)' = After(y)
        <5>1. CASE InChain(y)
          BY <5>1, <1>1, ChainSame
        <5>2. CASE ~ InChain(y)
          <6>1. After(y) = dn[y].after
            BY <5>2, AfterOut
          <6>2. After(y)' = dn'[y].after
            BY <5>2, <1>1, ChainSame
          <6>3. QED
            BY <6>1, <6>2, <1>16
        <5>3. QED
          BY <5>1, <5>2
      <4>3. QED
        BY <4>1, <4>2 DEF AfterSame
    <3>3. \A B \in SUBSET Chains : Surrounded(u, B) => Surrounded(u, B)'
      <4> SUFFICES ASSUME NEW B \in SUBSET Chains, Surrounded(u, B) PROVE Surrounded(u, B)'
        OBVIOUS
      <4>1. \A b \in B : \A i \in DOMAIN chain'[b] : \E j \in DOMAIN chain[b] : chain'[b][i] = chain[b][j]
        BY <1>1
      <4>2. th'[u].pos = th[u].pos
        BY <3>1 DEF Faded
      <4>3. QED
        BY <3>2, <4>1, <4>2, SurroundedSame
    <3>4. \A k : Present(k) => Present(k)'
      BY <1>16, PresentSame
    <3>5. \A s \in Storages \cup {Inline} : NameAlive(u, s) => NameAlive(u, s)'
      BY <1>1 DEF NameAlive
    <3>6. \A y \in Dentries : th'[u].ok /\ y = th[u].pos => ~ Locked(y)' /\ y \notin {d, e}
      BY <1>4, <1>5, <2>2
    <3>7. ThreadInv(u)'
      <4>1. \A y \in Dentries : \A s \in Storages \cup {Inline} :
              Alive(u, y)' /\ s = dn'[y].ptr => Alive(u, y) /\ s = dn[y].ptr
        BY <3>2, <1>16
      <4>2. \A y \in Dentries : th'[u].ok /\ y = th[u].pos /\ dn[y].hashed =>
              /\ dn'[y].hashed /\ dn'[y].key = dn[y].key
              /\ dn'[y].parent = dn[y].parent /\ dn'[y].ptr = dn[y].ptr
        BY <3>6, <1>16
      <4>3. rename_lock' = u <=> rename_lock = u
        BY <1>1
      <4>4. Surrounded(u, Chains) => Surrounded(u, Chains)'
        BY <3>3
      <4>5. QED
        BY <3>1, <3>3, <3>4, <3>5, <3>6, <4>1, <4>2, <4>3, <4>4, <1>15, ThreadKept
    <3>8. ParentsOf(u)'
      BY <2>2, <1>4 DEF ParentsOf
    <3>9. QED
      BY <3>7, <3>8
  <2>3. QED
    BY <2>1, <2>2
<1>22. QED
  BY <1>17, <1>18, <1>19, <1>20, <1>21 DEF LookupInv, NameStep

\* The set around a walk beside a step that changes names: any chain will do.
LEMMA SurroundedKeys ==
  ASSUME NEW t \in Threads, Surrounded(t, Chains), th'[t].pos = th[t].pos, chain' = chain,
         \A y \in Dentries : Alive(t, y) => Alive(t, y)' /\ Chain[dn'[y].key] \in Chains /\ After(y)' = After(y)
  PROVE  Surrounded(t, Chains)'
<1>1. PICK S \in SUBSET Dentries : Around(t, Chains, S)
  BY DEF Surrounded
<1>2. th'[t].pos \in S \cup {Nobody} /\ \A b \in Chains : \A i \in DOMAIN chain'[b] : chain'[b][i] \in S
  BY <1>1 DEF Around
<1>3. ASSUME NEW d \in S
      PROVE  Alive(t, d)' /\ Chain[dn'[d].key] \in Chains /\ After(d)' \in S \cup {Nobody}
  <2>1. Alive(t, d) /\ After(d) \in S \cup {Nobody}
    BY <1>1 DEF Around
  <2>2. Alive(t, d)' /\ Chain[dn'[d].key] \in Chains /\ After(d)' = After(d)
    BY <2>1
  <2>3. QED
    BY <2>1, <2>2
<1>4. QED
  BY <1>2, <1>3 DEF Surrounded, Around

\* The table when the two entries of a move, which are in no chain, change their names.
LEMMA PlacedRename ==
  ASSUME LookupInv, NEW d \in Dentries, NEW e \in Dentries, chain' = chain, Out(d), Out(e),
         \A y \in Dentries : y # d /\ y # e => dn'[y] = dn[y] /\ (Out(y)' <=> Out(y)),
         Out(d)', Out(e)' \/ ~ dn'[e].hashed
  PROVE  Placed'
<1>1. \A b \in Chains : \A i \in DOMAIN chain'[b] : \A x :
        x = chain'[b][i] => dn'[x].hashed /\ ~ Out(x)' /\ Chain[dn'[x].key] = b
  <2> SUFFICES ASSUME NEW b \in Chains, NEW i \in DOMAIN chain'[b], NEW x, x = chain'[b][i]
               PROVE  dn'[x].hashed /\ ~ Out(x)' /\ Chain[dn'[x].key] = b
    OBVIOUS
  <2>1. i \in DOMAIN chain[b] /\ x = chain[b][i]
    OBVIOUS
  <2>2. dn[x].hashed /\ ~ Out(x) /\ Chain[dn[x].key] = b
    BY <2>1 DEF LookupInv, Table, Placed
  <2>3. chain[b] \in Seq(Dentries)
    BY DEF LookupInv, Typed, ChainTyped
  <2>4. x \in Dentries
    BY <2>1, <2>3
  <2>5. x # d /\ x # e
    BY <2>2
  <2>6. dn'[x] = dn[x] /\ ~ Out(x)'
    BY <2>2, <2>4, <2>5
  <2>7. QED
    BY <2>2, <2>6
<1>2. \A x \in Dentries : dn'[x].hashed /\ ~ Out(x)' => InChain(x)'
  <2> SUFFICES ASSUME NEW x \in Dentries, dn'[x].hashed, ~ Out(x)' PROVE InChain(x)'
    OBVIOUS
  <2>1. x # d /\ x # e
    OBVIOUS
  <2>2. dn[x].hashed /\ ~ Out(x)
    BY <2>1
  <2>3. InChain(x)
    BY <2>2 DEF LookupInv, Table, Placed
  <2>4. QED
    BY <2>3, ChainSame
<1>3. QED
  BY <1>1, <1>2 DEF Placed

LEMMA OneHashedCopy ==
  ASSUME LookupInv, NEW d \in Dentries, NEW e \in Dentries,
         \A x \in Dentries : x # d /\ x # e => dn'[x] = dn[x] /\ (dn[x].hashed => dn[x].key # dn[e].key),
         dn'[d].key = dn[e].key, ~ dn'[e].hashed
  PROVE  \A x, y \in Dentries : dn'[x].hashed /\ dn'[y].hashed /\ dn'[x].key = dn'[y].key => x = y
<1> SUFFICES ASSUME NEW x \in Dentries, NEW y \in Dentries, dn'[x].hashed, dn'[y].hashed, dn'[x].key = dn'[y].key
             PROVE  x = y
  OBVIOUS
<1>1. x # e /\ y # e
  OBVIOUS
<1>2. CASE x # d /\ y # d
  <2>1. dn[x].hashed /\ dn[y].hashed /\ dn[x].key = dn[y].key
    BY <1>1, <1>2
  <2>2. QED
    BY <2>1 DEF LookupInv, Table, OneHashed
<1>3. CASE x = d /\ y # d
  BY <1>1, <1>3
<1>4. CASE x # d /\ y = d
  BY <1>1, <1>4
<1>5. QED
  BY <1>2, <1>3, <1>4

LEMMA OneHashedSwap ==
  ASSUME LookupInv, NEW d \in Dentries, NEW e \in Dentries, d # e,
         \A x \in Dentries : x # d /\ x # e => dn'[x] = dn[x],
         dn'[d].key = dn[e].key, dn'[e].key = dn[d].key, dn[d].hashed, dn[e].hashed
  PROVE  \A x, y \in Dentries : dn'[x].hashed /\ dn'[y].hashed /\ dn'[x].key = dn'[y].key => x = y
<1> SUFFICES ASSUME NEW x \in Dentries, NEW y \in Dentries, dn'[x].hashed, dn'[y].hashed, dn'[x].key = dn'[y].key
             PROVE  x = y
  OBVIOUS
<1> DEFINE Other(w) == IF w = d THEN e ELSE IF w = e THEN d ELSE w
<1>1. \A w \in Dentries : Other(w) \in Dentries /\ (dn'[w].hashed => dn[Other(w)].hashed) /\ dn'[w].key = dn[Other(w)].key
  OBVIOUS
<1>2. \A v, w \in Dentries : Other(v) = Other(w) => v = w
  OBVIOUS
<1> HIDE DEF Other
<1>3. PICK p, q \in Dentries : p = Other(x) /\ q = Other(y)
  BY <1>1
<1>4. dn[p].hashed /\ dn[q].hashed /\ dn[p].key = dn[q].key
  BY <1>1, <1>3
<1>5. p = q
  BY <1>4 DEF LookupInv, Table, OneHashed
<1>6. QED
  BY <1>2, <1>3, <1>5

\* What copy_name and swap_names have in common: d gets the name of e, and e that of z.
Renamed(t, d, e, z, next) ==
  /\ d = th[t].d /\ e = th[t].e /\ th[t].pc = "rename" /\ z = IF th[t].exchange THEN d ELSE e
  /\ next \in {"rehash", "rehash target"} /\ (next = "rehash" <=> ~ th[t].exchange)
  /\ th' = Seen([th EXCEPT ![t].pc = next]) /\ UNCHANGED <<chain, rename_lock>>
  /\ DnTyped' /\ ExtTyped'
  /\ \A y \in Dentries \ {d, e} : dn'[y] = dn[y]
  /\ \A y \in {d, e} : /\ dn'[y].state = dn[y].state /\ dn'[y].after = dn[y].after
                       /\ dn'[y].waits = dn[y].waits /\ dn'[y].parent = dn[y].parent
  /\ dn'[d].key = dn[e].key /\ dn'[d].ptr = dn[e].ptr /\ (dn[e].ptr = Inline => dn'[d].iname = dn[e].iname)
  /\ dn'[e].key = dn[z].key /\ dn'[e].ptr = dn[z].ptr /\ (dn[z].ptr = Inline => dn'[e].iname = dn[z].iname)
  /\ dn'[d].hashed = dn[d].hashed /\ dn'[e].hashed = (th[t].exchange /\ dn[e].hashed)
  /\ \A s \in Storages : NameStep(s)

LEMMA RenameKeeps ==
  ASSUME LookupInv, NEW t \in Threads, NEW d, NEW e, NEW z, NEW next, Renamed(t, d, e, z, next)
  PROVE  LookupInv'
<1> USE DEF Renamed
<1>1. Moving(t) /\ next \in Moves
  BY DEF Moving, Moves
<1>2. /\ MoverGoes(t, next)
      /\ \A u \in Threads : \A k \in Keys : k = th[u].key /\ ~ th'[u].absent => Present(k)'
  BY <1>1, MoverGoesOf
<1>3. /\ d \in Dentries /\ e \in Dentries /\ d # e /\ dn[d].state = "live" /\ dn[e].state = "live"
      /\ rename_lock = t /\ rename_lock # Nobody
      /\ Moving(t)' /\ \A u \in Threads \ {t} : ~ Moving(u) /\ ~ Moving(u)'
      /\ \A y : (Locked(y) <=> y \in {d, e}) /\ (Locked(y)' <=> Locked(y))
      /\ \A y : (Out(y) <=> y \in Gone(t)) /\ (Out(y)' <=> y \in Gone(t)')
      /\ Walking' = Walking
      /\ ThreadInv(t)'
  BY <1>1, <1>2, MoverStep
<1>4. \A u \in Threads \ {t} :
         /\ Faded(u) /\ ~ th'[u].still
         /\ th'[u].ok => th[u].pos \notin {d, e}
         /\ rename_lock' = u <=> rename_lock = u
  BY <1>1, <1>2, MoverStep
<1>5. th'[t].pc = next /\ th'[t].d = d /\ th'[t].e = e /\ th'[t].exchange = th[t].exchange
  BY <1>2 DEF MoverGoes
<1>6. Gone(t) = {d, e} /\ Gone(t)' = IF th[t].exchange THEN {d, e} ELSE {d}
  BY <1>5 DEF Gone
<1>7. /\ \A y : Out(y) <=> y \in {d, e}
      /\ Out(d)' /\ (Out(e)' \/ ~ th[t].exchange) /\ \A y : Out(y)' => Out(y)
  BY <1>3, <1>6
<1>8. /\ \A y \in Dentries : dn'[y].state = dn[y].state /\ dn'[y].after = dn[y].after
                             /\ dn'[y].waits = dn[y].waits /\ dn'[y].parent = dn[y].parent
      /\ \A y \in Dentries : dn'[y].hashed => dn[y].hashed
  OBVIOUS
<1>9. \A y \in {d, e} : dn[y].key \in Keys
  BY <1>3 DEF LookupInv, EntryOf
<1>10. z \in {d, e} /\ \A y \in {d, e} : dn'[y].key \in Keys
  <2>1. z \in {d, e}
    OBVIOUS
  <2>2. dn'[d].key \in Keys /\ dn'[e].key \in Keys
    BY <2>1, <1>9
  <2>3. QED
    BY <2>1, <2>2
<1>11. th[t].exchange \in BOOLEAN /\ \A y \in Dentries : dn[y].hashed \in BOOLEAN
  BY DEF LookupInv, Typed, ThTyped, Thread, DnTyped, Entry
<1>12. MoveAlone(t) /\ ParentsOf(t)
  BY <1>1 DEF LookupInv, Table, OneHashed
<1>20. \A y \in Dentries : y # d /\ y # e => dn'[y] = dn[y]
  OBVIOUS
<1>13. OneHashed'
  <2>1. CASE ~ th[t].exchange
    <3>1. \A x \in Dentries : x # d /\ x # e => dn'[x] = dn[x] /\ (dn[x].hashed => dn[x].key # dn[e].key)
      BY <2>1, <1>12, <1>20 DEF MoveAlone
    <3>2. ~ dn'[e].hashed /\ dn'[d].key = dn[e].key /\ dn'[e].key = dn[e].key
      BY <2>1
    <3>3. \A x, y \in Dentries : dn'[x].hashed /\ dn'[y].hashed /\ dn'[x].key = dn'[y].key => x = y
      BY <3>1, <3>2, <1>3, OneHashedCopy
    <3>4. \A x \in Dentries : x # d /\ x # e /\ dn'[x].hashed => dn'[x].key # dn'[e].key
      <4> SUFFICES ASSUME NEW x \in Dentries, x # d, x # e, dn'[x].hashed PROVE dn'[x].key # dn'[e].key
        OBVIOUS
      <4>1. dn'[x] = dn[x] /\ (dn[x].hashed => dn[x].key # dn[e].key)
        BY <3>1
      <4>2. dn[x].key # dn[e].key
        BY <4>1
      <4>3. QED
        BY <4>1, <4>2, <3>2
    <3>5. MoveAlone(t)'
      BY <2>1, <3>2, <3>4, <1>5 DEF MoveAlone
    <3>6. QED
      BY <3>3, <3>5, <1>3 DEF OneHashed
  <2>2. CASE th[t].exchange
    <3>1. dn[d].hashed /\ dn[e].hashed
      BY <2>2, <1>12 DEF MoveAlone
    <3>2. dn'[d].hashed /\ dn'[e].hashed /\ dn'[d].key = dn[e].key /\ dn'[e].key = dn[d].key
      BY <2>2, <3>1
    <3>3. \A x, y \in Dentries : dn'[x].hashed /\ dn'[y].hashed /\ dn'[x].key = dn'[y].key => x = y
      BY <3>1, <3>2, <1>3, <1>20, OneHashedSwap
    <3>4. MoveAlone(t)'
      BY <2>2, <3>2, <1>5 DEF MoveAlone
    <3>5. QED
      BY <3>3, <3>4, <1>3 DEF OneHashed
  <2>3. QED
    BY <2>1, <2>2
<1>14. Placed'
  <2>1. \A y \in Dentries : y # d /\ y # e => dn'[y] = dn[y] /\ (Out(y)' <=> Out(y))
    BY <1>7, <1>20
  <2>2. Out(d) /\ Out(e) /\ Out(d)' /\ (Out(e)' \/ ~ dn'[e].hashed)
    BY <1>7
  <2>3. QED
    BY <2>1, <2>2, <1>3, PlacedRename
<1>15. ChainTyped' /\ Distinct'
  BY ChainSame
<1>16. Typed'
  BY <1>2, <1>15 DEF LookupInv, Typed, LockTyped, MoverGoes
<1>17. ASSUME NEW y \in Dentries PROVE EntryOf(y)' /\ TextOf(y)'
  <2>1. EntryOf(y)
    BY DEF LookupInv
  <2>2. EntryOf(y)'
    <3>1. (Locked(y)' <=> Locked(y)) /\ Walking' = Walking /\ (Locked(y) <=> y \in {d, e})
      BY <1>3
    <3>2. /\ dn'[y].state = dn[y].state /\ dn'[y].parent = dn[y].parent
          /\ dn'[y].waits = dn[y].waits /\ (dn'[y].hashed => dn[y].hashed)
      BY <1>8
    <3>3. y \notin {d, e} => dn'[y].key = dn[y].key
      OBVIOUS
    <3>4. QED
      BY <2>1, <3>1, <3>2, <3>3, <1>10 DEF EntryOf
  <2>3. TextOf(y)'
    <3>1. CASE y = d
      BY <3>1, <1>3, TextKept
    <3>2. CASE y = e
      BY <3>2, <1>3, <1>10, TextKept
    <3>3. CASE y \notin {d, e}
      BY <3>3, TextKept
    <3>4. QED
      BY <3>1, <3>2, <3>3
  <2>4. QED
    BY <2>2, <2>3
<1>18. ASSUME NEW u \in Threads PROVE ThreadInv(u)' /\ ParentsOf(u)'
  <2>1. CASE u = t
    <3>1. /\ dn[d].parent = dn[e].key[1]
          /\ dn[e].parent = IF th[t].exchange THEN dn[d].key[1] ELSE dn[e].key[1]
      BY <1>1, <1>12 DEF ParentsOf, At
    <3>2. dn'[d].parent = dn'[d].key[1] /\ dn'[e].parent = dn'[e].key[1]
      BY <3>1
    <3>3. ParentsOf(t)'
      BY <3>2, <1>5 DEF ParentsOf, At
    <3>4. QED
      BY <2>1, <3>3, <1>3
  <2>2. CASE u # t
    <3>1. Faded(u) /\ ~ th'[u].still /\ (rename_lock' = u <=> rename_lock = u)
      BY <2>2, <1>4
    <3>2. \A y \in Dentries : Alive(u, y)' <=> Alive(u, y)
      BY <1>8 DEF Alive
    <3>3. ASSUME NEW y \in Dentries PROVE After(y)' = After(y)
      <4>1. CASE InChain(y)
        BY <4>1, ChainSame
      <4>2. CASE ~ InChain(y)
        <5>1. After(y) = dn[y].after
          BY <4>2, AfterOut
        <5>2. After(y)' = dn'[y].after
          BY <4>2, ChainSame
        <5>3. QED
          BY <5>1, <5>2, <1>8
      <4>3. QED
        BY <4>1, <4>2
    <3>4. ASSUME NEW y \in Dentries, Alive(u, y) PROVE Chain[dn'[y].key] \in Chains
      <4>1. EntryOf(y)
        BY DEF LookupInv
      <4>2. dn[y].state # "free"
        BY <3>4, <4>1 DEF EntryOf, Alive
      <4>3. dn'[y].key \in Keys
        BY <4>1, <4>2, <1>10 DEF EntryOf
      <4>4. QED
        BY <4>3, LookupAssumption
    <3>5. Surrounded(u, Chains) => Surrounded(u, Chains)'
      <4>1. th'[u].pos = th[u].pos
        BY <3>1 DEF Faded
      <4>2. QED
        BY <3>2, <3>3, <3>4, <4>1, SurroundedKeys
    <3>6. ThreadInv(u)'
      <4>1. u \in Walking => \A s \in Storages \cup {Inline} : NameAlive(u, s) => NameAlive(u, s)'
        BY DEF NameStep, NameAlive
      <4>2. u \in Walking =>
              \A y \in Dentries : \A s \in Storages \cup {Inline} :
                Alive(u, y)' /\ s = dn'[y].ptr => NameAlive(u, s)' \/ (Alive(u, y) /\ s = dn[y].ptr)
        <5> SUFFICES ASSUME u \in Walking, NEW y \in Dentries, NEW s \in Storages \cup {Inline},
                            Alive(u, y)', s = dn'[y].ptr
                     PROVE  NameAlive(u, s)' \/ (Alive(u, y) /\ s = dn[y].ptr)
          OBVIOUS
        <5>1. CASE y \notin {d, e}
          BY <5>1, <3>2
        <5>2. CASE y \in {d, e}
          <6>1. PICK x \in {d, e} : s = dn[x].ptr
            BY <5>2, <1>10
          <6>2. x \in Dentries /\ Alive(u, x)
            BY <1>3 DEF Alive
          <6>3. NamesOf(u)
            BY DEF LookupInv, ThreadInv
          <6>4. NameAlive(u, s)
            BY <6>1, <6>2, <6>3 DEF NamesOf
          <6>5. QED
            BY <6>4, <4>1
        <5>3. QED
          BY <5>1, <5>2
      <4>3. \A y \in Dentries : th'[u].ok /\ y = th[u].pos => ~ Locked(y)' /\ y \notin {d, e}
        BY <1>3, <1>4, <2>2
      <4>4. \A y \in Dentries : th'[u].ok /\ y = th[u].pos /\ dn[y].hashed =>
              /\ dn'[y].hashed /\ dn'[y].key = dn[y].key
              /\ dn'[y].parent = dn[y].parent /\ dn'[y].ptr = dn[y].ptr
        BY <4>3
      <4>5. \A k \in Keys : k = th[u].key /\ ~ th'[u].absent => Present(k)'
        BY <1>2
      <4>6. QED
        BY <3>1, <3>5, <4>1, <4>2, <4>3, <4>4, <4>5, ThreadKept
    <3>7. ParentsOf(u)'
      BY <2>2, <1>3 DEF ParentsOf
    <3>8. QED
      BY <3>6, <3>7
  <2>3. QED
    BY <2>1, <2>2
<1>19. QED
  BY <1>13, <1>14, <1>15, <1>16, <1>17, <1>18 DEF LookupInv, Table, NameStep

\* The use of a name that copy_name gets.
LEMMA GotOf ==
  ASSUME LookupInv, NEW s \in Storages \cup {Inline}, NEW f, f = Got(s)
  PROVE  /\ f \in [Storages -> External]
         /\ \A x \in Storages : x # s => f[x] = ext[x]
         /\ s # Inline => /\ f[s].count = ext[s].count + 1 /\ f[s].state = ext[s].state
                          /\ f[s].text = ext[s].text /\ f[s].waits = ext[s].waits
<1>1. ext \in [Storages -> External]
  BY DEF LookupInv, Typed, ExtTyped
<1>2. CASE s = Inline
  BY <1>1, <1>2 DEF Got
<1>3. CASE s # Inline
  <2>1. PICK r : r = [ext[s] EXCEPT !.count = @ + 1]
    OBVIOUS
  <2>2. s \in Storages /\ ext[s] \in External
    BY <1>1, <1>3
  <2>3. /\ r \in External /\ r.count = ext[s].count + 1 /\ r.state = ext[s].state
        /\ r.text = ext[s].text /\ r.waits = ext[s].waits
    BY <2>1, <2>2 DEF External
  <2>4. f = [ext EXCEPT ![s] = r]
    BY <1>3, <2>1 DEF Got
  <2>5. QED
    BY <1>1, <2>2, <2>3, <2>4
<1>4. QED
  BY <1>2, <1>3

\* The users of a name when d gets that of e, and when they swap them.
LEMMA CopyUsers ==
  ASSUME LookupInv, NEW d \in Dentries, NEW e \in Dentries, dn[d].state = "live", dn[e].state = "live",
         \A y \in Dentries : dn'[y].state = dn[y].state /\ (y # d => dn'[y].ptr = dn[y].ptr),
         dn'[d].ptr = dn[e].ptr, NEW s,
         {u \in Threads : At(u, "snapshot") /\ th[u].ptr = s}' = {u \in Threads : At(u, "snapshot") /\ th[u].ptr = s}
  PROVE  /\ dn[d].ptr = s /\ dn[e].ptr # s => d \in Users(s) /\ Users(s)' = Users(s) \ {d}
         /\ dn[d].ptr # s /\ dn[e].ptr = s => d \notin Users(s) /\ Users(s)' = Users(s) \cup {d}
         /\ (dn[d].ptr = s <=> dn[e].ptr = s) => Users(s)' = Users(s)
<1> DEFINE A == {y \in Dentries : dn[y].state = "live" /\ dn[y].ptr = s}
           B == {y \in Dentries : dn'[y].state = "live" /\ dn'[y].ptr = s}
           T == {u \in Threads : At(u, "snapshot") /\ th[u].ptr = s}
<1>1. Users(s) = A \cup T /\ Users(s)' = B \cup T
  BY DEF Users
<1>2. d \notin T
  BY LookupAssumption
<1>3. dn[d].ptr = s /\ dn[e].ptr # s => d \in A /\ B = A \ {d}
  OBVIOUS
<1>4. dn[d].ptr # s /\ dn[e].ptr = s => d \notin A /\ B = A \cup {d}
  OBVIOUS
<1>5. (dn[d].ptr = s <=> dn[e].ptr = s) => B = A
  OBVIOUS
<1> HIDE DEF A, B, T
<1>6. QED
  BY <1>1, <1>2, <1>3, <1>4, <1>5

LEMMA SwapUsers ==
  ASSUME LookupInv, NEW d \in Dentries, NEW e \in Dentries, d # e, dn[d].state = "live", dn[e].state = "live",
         \A y \in Dentries : dn'[y].state = dn[y].state /\ (y # d /\ y # e => dn'[y].ptr = dn[y].ptr),
         dn'[d].ptr = dn[e].ptr, dn'[e].ptr = dn[d].ptr, NEW s,
         {u \in Threads : At(u, "snapshot") /\ th[u].ptr = s}' = {u \in Threads : At(u, "snapshot") /\ th[u].ptr = s}
  PROVE  Users(s)' = Users(s) \/ \E x, y : x \in Users(s) /\ y \notin Users(s) /\ Users(s)' = (Users(s) \ {x}) \cup {y}
<1> DEFINE A == {y \in Dentries : dn[y].state = "live" /\ dn[y].ptr = s}
           B == {y \in Dentries : dn'[y].state = "live" /\ dn'[y].ptr = s}
           T == {u \in Threads : At(u, "snapshot") /\ th[u].ptr = s}
<1>1. Users(s) = A \cup T /\ Users(s)' = B \cup T
  BY DEF Users
<1>2. d \notin T /\ e \notin T
  BY LookupAssumption
<1>3. dn[d].ptr = s /\ dn[e].ptr # s => d \in A /\ e \notin A /\ B = (A \ {d}) \cup {e}
  OBVIOUS
<1>4. dn[d].ptr # s /\ dn[e].ptr = s => e \in A /\ d \notin A /\ B = (A \ {e}) \cup {d}
  OBVIOUS
<1>5. (dn[d].ptr = s <=> dn[e].ptr = s) => B = A
  OBVIOUS
<1> HIDE DEF A, B, T
<1>6. CASE dn[d].ptr = s /\ dn[e].ptr # s
  <2>1. d \in Users(s) /\ e \notin Users(s) /\ Users(s)' = (Users(s) \ {d}) \cup {e}
    BY <1>1, <1>2, <1>3, <1>6
  <2>2. QED
    BY <2>1
<1>7. CASE dn[d].ptr # s /\ dn[e].ptr = s
  <2>1. e \in Users(s) /\ d \notin Users(s) /\ Users(s)' = (Users(s) \ {e}) \cup {d}
    BY <1>1, <1>2, <1>4, <1>7
  <2>2. QED
    BY <2>1
<1>8. CASE dn[d].ptr = s <=> dn[e].ptr = s
  BY <1>1, <1>5, <1>8
<1>9. QED
  BY <1>6, <1>7, <1>8

\* copy_name: one use more of the one name, one less of the other.
LEMMA CopyNames ==
  ASSUME LookupInv, NEW d \in Dentries, NEW e \in Dentries, dn[d].state = "live", dn[e].state = "live",
         \A y \in Dentries : dn'[y].state = dn[y].state /\ (y # d => dn'[y].ptr = dn[y].ptr),
         dn'[d].ptr = dn[e].ptr, ext' = Put(Got(dn[e].ptr), dn[d].ptr),
         \A s : {u \in Threads : At(u, "snapshot") /\ th[u].ptr = s}' = {u \in Threads : At(u, "snapshot") /\ th[u].ptr = s}
  PROVE  ExtTyped' /\ \A s \in Storages : NameStep(s)
<1>1. PICK a, b \in Storages \cup {Inline} : a = dn[d].ptr /\ b = dn[e].ptr
  BY DEF LookupInv, Typed, DnTyped, Entry
<1>2. PICK f : f = Got(b)
  OBVIOUS
<1>3. /\ f \in [Storages -> External]
      /\ \A x \in Storages : x # b => f[x] = ext[x]
      /\ b # Inline => /\ f[b].count = ext[b].count + 1 /\ f[b].state = ext[b].state
                       /\ f[b].text = ext[b].text /\ f[b].waits = ext[b].waits
  BY <1>2, GotOf
<1>4. ext' = Put(f, a)
  BY <1>1, <1>2
<1>5. ASSUME NEW s
      PROVE  /\ a = s /\ b # s => d \in Users(s) /\ Users(s)' = Users(s) \ {d}
             /\ a # s /\ b = s => d \notin Users(s) /\ Users(s)' = Users(s) \cup {d}
             /\ (a = s <=> b = s) => Users(s)' = Users(s)
  <2>1. {u \in Threads : At(u, "snapshot") /\ th[u].ptr = s}' = {u \in Threads : At(u, "snapshot") /\ th[u].ptr = s}
    OBVIOUS
  <2>2. /\ dn[d].ptr = s /\ dn[e].ptr # s => d \in Users(s) /\ Users(s)' = Users(s) \ {d}
        /\ dn[d].ptr # s /\ dn[e].ptr = s => d \notin Users(s) /\ Users(s)' = Users(s) \cup {d}
        /\ (dn[d].ptr = s <=> dn[e].ptr = s) => Users(s)' = Users(s)
    BY <2>1, CopyUsers
  <2>3. QED
    BY <1>1, <2>2
<1>6. /\ a # Inline => ext[a].state = "used" /\ d \in Users(a)
      /\ b # Inline => ext[b].state = "used"
  BY <1>1, UsedBy
<1>7. a # Inline => ext[a].count \in Nat /\ ext[a].count # 0
  <2>1. SUFFICES ASSUME a # Inline PROVE ext[a].count \in Nat /\ ext[a].count # 0
    OBVIOUS
  <2>2. PICK U : U = Users(a)
    OBVIOUS
  <2>3. IsFiniteSet(U) /\ d \in U
    BY <2>1, <2>2, <1>6, UsersFinite
  <2>4. Cardinality(U) \in Nat /\ Cardinality(U) # 0
    BY <2>3, UseLess
  <2>5. ext[a].count = Cardinality(U)
    BY <2>1, <2>2 DEF LookupInv, CountedName
  <2>6. QED
    BY <2>4, <2>5
<1>8. CASE a = Inline
  <2>1. ext' = f
    BY <1>4, <1>8 DEF Put
  <2>2. ExtTyped'
    BY <2>1, <1>3 DEF ExtTyped
  <2>3. ASSUME NEW s \in Storages PROVE NameStep(s)
    <3>1. a # s
      BY <1>8, LookupAssumption
    <3>2. CASE s = b
      <4>1. b # Inline
        BY <3>2, LookupAssumption
      <4>2. /\ ext'[s].count = ext[s].count + 1 /\ ext'[s].state = ext[s].state
            /\ ext'[s].text = ext[s].text /\ ext'[s].waits = ext[s].waits /\ ext[s].state = "used"
        BY <4>1, <3>2, <2>1, <1>3, <1>6
      <4>3. d \notin Users(s) /\ Users(s)' = Users(s) \cup {d}
        BY <3>1, <3>2, <1>5
      <4>4. QED
        BY <4>2, <4>3, NameMore
    <3>3. CASE s # b
      <4>1. ext'[s] = ext[s] /\ Users(s)' = Users(s)
        BY <3>1, <3>3, <2>1, <1>3, <1>5
      <4>2. QED
        BY <4>1, NameSame
    <3>4. QED
      BY <3>2, <3>3
  <2>4. QED
    BY <2>2, <2>3
<1>9. CASE a # Inline
  <2>1. a \in Storages /\ f[a].count # 0
    <3>1. a = b => f[a].count = ext[a].count + 1
      BY <1>3, <1>9
    <3>2. a # b => f[a] = ext[a]
      BY <1>3, <1>9
    <3>3. QED
      BY <3>1, <3>2, <1>7, <1>9
  <2>2. /\ Put(f, a) \in [Storages -> External]
        /\ \A x \in Storages \ {a} : Put(f, a)[x] = f[x]
        /\ Put(f, a)[a].count = f[a].count - 1
        /\ f[a].count # 1 => /\ Put(f, a)[a].state = f[a].state /\ Put(f, a)[a].text = f[a].text
                             /\ Put(f, a)[a].waits = f[a].waits
    BY <2>1, <1>3, PutOf
  <2>3. ExtTyped'
    BY <2>2, <1>4 DEF ExtTyped
  <2>4. ASSUME NEW s \in Storages PROVE NameStep(s)
    <3>1. CASE s = a /\ a = b
      <4>1. f[a].count = ext[a].count + 1 /\ f[a].count # 1 /\ f[a].count - 1 = ext[a].count
        BY <3>1, <1>3, <1>7, <1>9
      <4>2. /\ ext'[a].count = ext[a].count /\ ext'[a].state = ext[a].state
            /\ ext'[a].text = ext[a].text /\ ext'[a].waits = ext[a].waits
        BY <4>1, <3>1, <2>2, <1>3, <1>4, <1>9
      <4>3. ext'[a] \in External /\ ext[a] \in External
        BY <2>1, <2>3 DEF ExtTyped, LookupInv, Typed
      <4>4. ext'[a] = ext[a]
        BY <4>2, <4>3 DEF External
      <4>5. Users(s)' = Users(s)
        BY <3>1, <1>5
      <4>6. QED
        BY <3>1, <4>4, <4>5, NameSame
    <3>2. CASE s = a /\ a # b
      <4>1. f[s] = ext[s] /\ ext'[s] = Put(f, s)[s]
        BY <3>2, <1>3, <1>4
      <4>2. d \in Users(s) /\ Users(s)' = Users(s) \ {d}
        BY <3>2, <1>5
      <4>3. QED
        BY <4>1, <4>2, <1>3, NameLess
    <3>3. CASE s # a /\ s = b
      <4>1. ext'[s] = f[s]
        BY <3>3, <2>2, <1>4
      <4>2. b # Inline
        BY <3>3, LookupAssumption
      <4>3. /\ ext'[s].count = ext[s].count + 1 /\ ext'[s].state = ext[s].state
            /\ ext'[s].text = ext[s].text /\ ext'[s].waits = ext[s].waits /\ ext[s].state = "used"
        BY <4>1, <4>2, <3>3, <1>3, <1>6
      <4>4. d \notin Users(s) /\ Users(s)' = Users(s) \cup {d}
        BY <3>3, <1>5
      <4>5. QED
        BY <4>3, <4>4, NameMore
    <3>4. CASE s # a /\ s # b
      <4>1. ext'[s] = ext[s]
        BY <3>4, <2>2, <1>3, <1>4
      <4>2. Users(s)' = Users(s)
        BY <3>4, <1>5
      <4>3. QED
        BY <4>1, <4>2, NameSame
    <3>5. QED
      BY <3>1, <3>2, <3>3, <3>4
  <2>5. QED
    BY <2>3, <2>4
<1>10. QED
  BY <1>8, <1>9


LEMMA CopyNameKeeps ==
  ASSUME LookupInv, NEW t \in Threads, CopyName(t)
  PROVE  LookupInv'
<1>1. PICK d, e : d = th[t].d /\ e = th[t].e
  OBVIOUS
<1>2. /\ th[t].pc = "rename" /\ ~ th[t].exchange
      /\ ext' = Put(Got(dn[e].ptr), dn[d].ptr)
      /\ dn' = [dn EXCEPT ![d].key = dn[e].key, ![d].ptr = dn[e].ptr,
                          ![d].iname = NewText(d, e), ![e].hashed = FALSE]
      /\ th' = Seen([th EXCEPT ![t].pc = "rehash"]) /\ UNCHANGED <<chain, rename_lock>>
  BY <1>1 DEF CopyName, At
<1>3. PICK f : f = [th EXCEPT ![t].pc = "rehash"]
  OBVIOUS
<1>4. Moving(t) /\ "rehash" \in Moves
  BY <1>2 DEF Moving, Moves
<1>5. MoverGoes(t, "rehash")
  BY <1>2, <1>3, <1>4, MoverGoesOf
<1>6. /\ d \in Dentries /\ e \in Dentries /\ d # e /\ dn[d].state = "live" /\ dn[e].state = "live"
      /\ \A s : {u \in Threads : At(u, "snapshot") /\ th[u].ptr = s}' = {u \in Threads : At(u, "snapshot") /\ th[u].ptr = s}
  BY <1>1, <1>2, <1>4, <1>5, MoverStep
<1>7. dn[d] \in Entry /\ dn[e] \in Entry
  BY <1>6 DEF LookupInv, Typed, DnTyped
<1>8. PICK w : w = NewText(d, e)
  OBVIOUS
<1>9. w \in Names \cup {Nobody} /\ (dn[e].ptr = Inline => w = dn[e].iname)
  BY <1>7, <1>8 DEF NewText, Entry
<1>10. PICK n, m : n = [dn[d] EXCEPT !.key = dn[e].key, !.ptr = dn[e].ptr, !.iname = w] /\ m = [dn[e] EXCEPT !.hashed = FALSE]
  OBVIOUS
<1>11. /\ n \in Entry /\ n.key = dn[e].key /\ n.ptr = dn[e].ptr /\ n.iname = w /\ n.hashed = dn[d].hashed
       /\ n.state = dn[d].state /\ n.after = dn[d].after /\ n.waits = dn[d].waits /\ n.parent = dn[d].parent
  BY <1>7, <1>9, <1>10 DEF Entry
<1>12. /\ m \in Entry /\ m.key = dn[e].key /\ m.ptr = dn[e].ptr /\ m.iname = dn[e].iname /\ m.hashed = FALSE
       /\ m.state = dn[e].state /\ m.after = dn[e].after /\ m.waits = dn[e].waits /\ m.parent = dn[e].parent
  BY <1>7, <1>10 DEF Entry
<1>13. dn' = [dn EXCEPT ![d] = n, ![e] = m]
  BY <1>2, <1>6, <1>8, <1>10 DEF LookupInv, Typed, DnTyped
<1>14. dn'[d] = n /\ dn'[e] = m /\ (\A y \in Dentries \ {d, e} : dn'[y] = dn[y]) /\ DnTyped'
  BY <1>6, <1>11, <1>12, <1>13 DEF LookupInv, Typed, DnTyped
<1>15. \A y \in Dentries : dn'[y].state = dn[y].state /\ (y # d => dn'[y].ptr = dn[y].ptr)
  BY <1>11, <1>12, <1>14
<1>16. ExtTyped' /\ \A s \in Storages : NameStep(s)
  BY <1>2, <1>6, <1>11, <1>14, <1>15, CopyNames
<1>17. \A y \in {d, e} : /\ dn'[y].state = dn[y].state /\ dn'[y].after = dn[y].after
                         /\ dn'[y].waits = dn[y].waits /\ dn'[y].parent = dn[y].parent
  BY <1>11, <1>12, <1>14
<1>18. /\ dn'[d].key = dn[e].key /\ dn'[d].ptr = dn[e].ptr /\ (dn[e].ptr = Inline => dn'[d].iname = dn[e].iname)
       /\ dn'[e].key = dn[e].key /\ dn'[e].ptr = dn[e].ptr /\ (dn[e].ptr = Inline => dn'[e].iname = dn[e].iname)
       /\ dn'[d].hashed = dn[d].hashed /\ dn'[e].hashed = (th[t].exchange /\ dn[e].hashed)
  BY <1>2, <1>9, <1>11, <1>12, <1>14
<1>19. Renamed(t, d, e, e, "rehash")
  BY <1>1, <1>2, <1>14, <1>16, <1>17, <1>18 DEF Renamed
<1>20. QED
  BY <1>19, RenameKeeps

LEMMA SwapNamesKeeps ==
  ASSUME LookupInv, NEW t \in Threads, SwapNames(t)
  PROVE  LookupInv'
<1>1. PICK d, e : d = th[t].d /\ e = th[t].e
  OBVIOUS
<1>2. /\ th[t].pc = "rename" /\ th[t].exchange
      /\ dn' = [dn EXCEPT ![d].key = dn[e].key, ![d].ptr = dn[e].ptr,
                          ![d].iname = NewText(d, e),
                          ![e].key = dn[d].key, ![e].ptr = dn[d].ptr,
                          ![e].iname = NewText(e, d)]
      /\ th' = Seen([th EXCEPT ![t].pc = "rehash target"]) /\ UNCHANGED <<chain, ext, rename_lock>>
  BY <1>1 DEF SwapNames, At
<1>3. PICK f : f = [th EXCEPT ![t].pc = "rehash target"]
  OBVIOUS
<1>4. Moving(t) /\ "rehash target" \in Moves
  BY <1>2 DEF Moving, Moves
<1>5. MoverGoes(t, "rehash target")
  BY <1>2, <1>3, <1>4, MoverGoesOf
<1>6. /\ d \in Dentries /\ e \in Dentries /\ d # e /\ dn[d].state = "live" /\ dn[e].state = "live"
      /\ \A s : {u \in Threads : At(u, "snapshot") /\ th[u].ptr = s}' = {u \in Threads : At(u, "snapshot") /\ th[u].ptr = s}
  BY <1>1, <1>2, <1>4, <1>5, MoverStep
<1>7. dn[d] \in Entry /\ dn[e] \in Entry
  BY <1>6 DEF LookupInv, Typed, DnTyped
<1>8. PICK v, w : v = NewText(d, e) /\ w = NewText(e, d)
  OBVIOUS
<1>9. /\ v \in Names \cup {Nobody} /\ (dn[e].ptr = Inline => v = dn[e].iname)
      /\ w \in Names \cup {Nobody} /\ (dn[d].ptr = Inline => w = dn[d].iname)
  BY <1>7, <1>8 DEF NewText, Entry
<1>10. PICK n, m : /\ n = [dn[d] EXCEPT !.key = dn[e].key, !.ptr = dn[e].ptr, !.iname = v]
                   /\ m = [dn[e] EXCEPT !.key = dn[d].key, !.ptr = dn[d].ptr, !.iname = w]
  OBVIOUS
<1>11. /\ n \in Entry /\ n.key = dn[e].key /\ n.ptr = dn[e].ptr /\ n.iname = v /\ n.hashed = dn[d].hashed
       /\ n.state = dn[d].state /\ n.after = dn[d].after /\ n.waits = dn[d].waits /\ n.parent = dn[d].parent
  BY <1>7, <1>9, <1>10 DEF Entry
<1>12. /\ m \in Entry /\ m.key = dn[d].key /\ m.ptr = dn[d].ptr /\ m.iname = w /\ m.hashed = dn[e].hashed
       /\ m.state = dn[e].state /\ m.after = dn[e].after /\ m.waits = dn[e].waits /\ m.parent = dn[e].parent
  BY <1>7, <1>9, <1>10 DEF Entry
<1>13. dn' = [dn EXCEPT ![d] = n, ![e] = m]
  BY <1>2, <1>6, <1>8, <1>10 DEF LookupInv, Typed, DnTyped
<1>14. dn'[d] = n /\ dn'[e] = m /\ (\A y \in Dentries \ {d, e} : dn'[y] = dn[y]) /\ DnTyped'
  BY <1>6, <1>11, <1>12, <1>13 DEF LookupInv, Typed, DnTyped
<1>15. \A y \in Dentries : dn'[y].state = dn[y].state /\ (y # d /\ y # e => dn'[y].ptr = dn[y].ptr)
  BY <1>11, <1>12, <1>14
<1>16. ExtTyped'
  BY <1>2 DEF LookupInv, Typed, ExtTyped
<1>17. ASSUME NEW s \in Storages PROVE NameStep(s)
  <2>1. Users(s)' = Users(s) \/ \E x, y : x \in Users(s) /\ y \notin Users(s) /\ Users(s)' = (Users(s) \ {x}) \cup {y}
    BY <1>6, <1>11, <1>12, <1>14, <1>15, SwapUsers
  <2>2. ext'[s] = ext[s]
    BY <1>2
  <2>3. QED
    BY <2>1, <2>2, NameSame
<1>18. \A y \in {d, e} : /\ dn'[y].state = dn[y].state /\ dn'[y].after = dn[y].after
                         /\ dn'[y].waits = dn[y].waits /\ dn'[y].parent = dn[y].parent
  BY <1>11, <1>12, <1>14
<1>19. dn[e].hashed \in BOOLEAN
  BY <1>7 DEF Entry
<1>20. /\ dn'[d].key = dn[e].key /\ dn'[d].ptr = dn[e].ptr /\ (dn[e].ptr = Inline => dn'[d].iname = dn[e].iname)
       /\ dn'[e].key = dn[d].key /\ dn'[e].ptr = dn[d].ptr /\ (dn[d].ptr = Inline => dn'[e].iname = dn[d].iname)
       /\ dn'[d].hashed = dn[d].hashed /\ dn'[e].hashed = (th[t].exchange /\ dn[e].hashed)
  BY <1>2, <1>9, <1>11, <1>12, <1>14, <1>19
<1>21. Renamed(t, d, e, d, "rehash target")
  BY <1>1, <1>2, <1>14, <1>16, <1>17, <1>18, <1>20 DEF Renamed
<1>22. QED
  BY <1>21, RenameKeeps


\* An exchange brings its second entry back first.
LEMMA RehashTargetKeeps ==
  ASSUME LookupInv, NEW t \in Threads, RehashTarget(t)
  PROVE  LookupInv'
<1>1. PICK d, e : d = th[t].d /\ e = th[t].e
  OBVIOUS
<1>2. /\ th[t].pc = "rehash target" /\ chain' = Rehashes(e) /\ dn' = [dn EXCEPT ![e].after = Nobody]
      /\ th' = [th EXCEPT ![t].pc = "rehash"] /\ UNCHANGED <<ext, rename_lock>>
  BY <1>1 DEF RehashTarget, At, Goes
<1>3. Moving(t) /\ "rehash" \in Moves
  BY <1>2 DEF Moving, Moves
<1>4. MoverGoes(t, "rehash")
  BY <1>2, <1>3, MoverGoesOf
<1>5. /\ d \in Dentries /\ e \in Dentries /\ d # e /\ dn[d].state = "live" /\ dn[e].state = "live"
      /\ rename_lock = t /\ rename_lock # Nobody
      /\ Moving(t)' /\ \A u \in Threads \ {t} : ~ Moving(u) /\ ~ Moving(u)'
      /\ \A y : (Locked(y) <=> y \in {d, e}) /\ (Locked(y)' <=> Locked(y))
      /\ \A y : (Out(y) <=> y \in Gone(t)) /\ (Out(y)' <=> y \in Gone(t)')
      /\ Walking' = Walking
      /\ ThreadInv(t)'
  BY <1>1, <1>2, <1>3, <1>4, MoverStep
<1>6. /\ \A s : {u \in Threads : At(u, "snapshot") /\ th[u].ptr = s}' = {u \in Threads : At(u, "snapshot") /\ th[u].ptr = s}
      /\ \A u \in Threads \ {t} :
              /\ Faded(u) /\ ~ th'[u].still
              /\ th'[u].ok => th[u].pos \notin {d, e}
              /\ rename_lock' = u <=> rename_lock = u
  BY <1>1, <1>2, <1>3, <1>4, MoverStep
<1>7. th'[t].pc = "rehash" /\ th'[t].d = d /\ th'[t].e = e /\ th'[t].exchange = th[t].exchange
  BY <1>1, <1>4 DEF MoverGoes
<1>8. Gone(t) = {d, e} /\ Gone(t)' = {d}
  BY <1>1, <1>2, <1>7 DEF Gone
<1>9. Out(e) /\ ~ Out(e)' /\ \A y : y # e => (Out(y)' <=> Out(y))
  BY <1>5, <1>8
<1>10. th[t].exchange /\ dn[d].hashed /\ dn[e].hashed
  <2>1. LocalOf(t) /\ MoveAlone(t)
    BY <1>3 DEF LookupInv, ThreadInv, Table, OneHashed
  <2>2. QED
    BY <2>1, <1>1, <1>2 DEF LocalOf, At, MoveAlone
<1>11. ~ InChain(e)
  BY <1>9, ChainHashed
<1>12. PICK b \in Chains : b = Chain[dn[e].key]
  <2>1. dn[e].key \in Keys
    BY <1>5 DEF LookupInv, EntryOf
  <2>2. QED
    BY <2>1, LookupAssumption
<1>13. PICK n : n = [dn[e] EXCEPT !.after = Nobody]
  OBVIOUS
<1>14. /\ n \in Entry /\ n.hashed = dn[e].hashed /\ n.state = dn[e].state /\ n.parent = dn[e].parent
       /\ n.key = dn[e].key /\ n.ptr = dn[e].ptr /\ n.iname = dn[e].iname /\ n.waits = dn[e].waits
  <2>1. dn[e] \in Entry
    BY <1>5 DEF LookupInv, Typed, DnTyped
  <2>2. QED
    BY <2>1, <1>13 DEF Entry
<1>15. dn' = [dn EXCEPT ![e] = n]
  BY <1>2, <1>13
<1>16. dn'[e] = n /\ (\A y \in Dentries \ {e} : dn'[y] = dn[y]) /\ DnTyped'
  BY <1>5, <1>14, <1>15 DEF LookupInv, Typed, DnTyped
<1>17. \A y \in Dentries :
         /\ dn'[y].hashed = dn[y].hashed /\ dn'[y].state = dn[y].state /\ dn'[y].parent = dn[y].parent
         /\ dn'[y].key = dn[y].key /\ dn'[y].ptr = dn[y].ptr /\ dn'[y].iname = dn[y].iname
         /\ dn'[y].waits = dn[y].waits
  BY <1>14, <1>16
<1>18. ChainTyped' /\ Distinct' /\ Placed'
  <2>1. dn'[e].hashed /\ dn'[e].key = dn[e].key /\ ~ Out(e)'
    BY <1>9, <1>10, <1>14, <1>16
  <2>2. \A y \in Dentries \ {e} :
          /\ dn'[y].hashed = dn[y].hashed /\ (dn[y].hashed => dn'[y].key = dn[y].key)
          /\ Out(y)' <=> Out(y)
    BY <1>9, <1>17
  <2>3. QED
    BY <2>1, <2>2, <1>2, <1>5, <1>11, <1>12, PlacedPut
<1>19. OneHashed'
  <2>1. \A x, y \in Dentries : dn'[x].hashed /\ dn'[y].hashed /\ dn'[x].key = dn'[y].key => x = y
    BY <1>17 DEF LookupInv, Table, OneHashed
  <2>2. MoveAlone(t)'
    BY <1>5, <1>7, <1>10, <1>17 DEF MoveAlone
  <2>3. QED
    BY <2>1, <2>2, <1>5 DEF OneHashed
<1>20. Typed'
  BY <1>2, <1>4, <1>16, <1>18 DEF LookupInv, Typed, LockTyped, ExtTyped, MoverGoes
<1>21. ASSUME NEW s \in Storages PROVE NameStep(s)
  <2>1. Users(s)' = Users(s)
    BY <1>6, <1>17 DEF Users
  <2>2. QED
    BY <1>2, <2>1, NameSame
<1>22. ASSUME NEW y \in Dentries PROVE EntryOf(y)' /\ TextOf(y)'
  <2>1. EntryOf(y)
    BY DEF LookupInv
  <2>2. EntryOf(y)'
    <3>1. (Locked(y)' <=> Locked(y)) /\ Walking' = Walking
      BY <1>5
    <3>2. /\ dn'[y].hashed = dn[y].hashed /\ dn'[y].state = dn[y].state /\ dn'[y].parent = dn[y].parent
          /\ dn'[y].key = dn[y].key /\ dn'[y].waits = dn[y].waits
      BY <1>17
    <3>3. QED
      BY <2>1, <3>1, <3>2 DEF EntryOf
  <2>3. TextOf(y)'
    BY <1>16, <1>17, <1>21, TextKept
  <2>4. QED
    BY <2>2, <2>3
<1>23. ASSUME NEW u \in Threads PROVE ThreadInv(u)' /\ ParentsOf(u)'
  <2>1. CASE u = t
    <3>1. dn[d].parent = dn[d].key[1] /\ dn[e].parent = dn[e].key[1]
      BY <1>1, <1>2, <1>3 DEF LookupInv, ParentsOf, At
    <3>2. ParentsOf(t)'
      BY <3>1, <1>5, <1>7, <1>17 DEF ParentsOf, At
    <3>3. QED
      BY <2>1, <3>2, <1>5
  <2>2. CASE u # t
    <3>1. Faded(u) /\ ~ th'[u].still /\ (rename_lock' = u <=> rename_lock = u)
      BY <2>2, <1>6
    <3>2. \A x \in Dentries : th'[u].ok /\ x = th[u].pos => ~ Locked(x)'
      BY <2>2, <1>5, <1>6
    <3>3. /\ dn'[e].state = "live" /\ dn'[e].key = dn[e].key /\ dn'[e].ptr = dn[e].ptr
          /\ dn'[e].parent = dn[e].parent /\ (dn[e].hashed => dn'[e].hashed)
      BY <1>5, <1>17
    <3>4. ThreadInv(u)'
      BY <3>1, <3>2, <3>3, <1>2, <1>5, <1>11, <1>12, <1>16, PutThread
    <3>5. ParentsOf(u)'
      BY <2>2, <1>5 DEF ParentsOf
    <3>6. QED
      BY <3>4, <3>5
  <2>3. QED
    BY <2>1, <2>2
<1>24. QED
  BY <1>18, <1>19, <1>20, <1>21, <1>22, <1>23 DEF LookupInv, Table, NameStep


\* The last step of a move: nothing is locked after it, nothing is out of its chain.
LEMMA MoveEnds ==
  ASSUME LookupInv, NEW t \in Threads, Moving(t), th' = Seen([th EXCEPT ![t] = Idle]), rename_lock' = Nobody
  PROVE  /\ th[t].d \in Dentries /\ th[t].e \in Dentries /\ th[t].d # th[t].e
         /\ dn[th[t].d].state = "live" /\ dn[th[t].e].state = "live"
         /\ ThTyped'
         /\ \A u \in Threads : ~ Moving(u)'
         /\ \A x : (Locked(x) <=> x \in {th[t].d, th[t].e}) /\ ~ Locked(x)'
         /\ \A x : (Out(x) <=> x \in Gone(t)) /\ ~ Out(x)'
         /\ Walking' = Walking
         /\ \A s : {u \in Threads : At(u, "snapshot") /\ th[u].ptr = s}' = {u \in Threads : At(u, "snapshot") /\ th[u].ptr = s}
         /\ \A u \in Threads \ {t} :
              /\ Faded(u) /\ ~ th'[u].still
              /\ rename_lock' = u <=> rename_lock = u
         /\ ThreadInv(t)'
<1>1. LocalOf(t) /\ \A u \in Threads : LocalOf(u)
  BY DEF LookupInv, ThreadInv
<1>2. th[t].d \in Dentries /\ th[t].e \in Dentries /\ th[t].d # th[t].e
  BY <1>1 DEF LocalOf
<1>3. rename_lock = t /\ \A u \in Threads : u # Nobody
  <2>1. rename_lock = t
    BY <1>1 DEF LocalOf
  <2>2. \A u \in Threads : u # Nobody
    BY LookupAssumption
  <2>3. QED
    BY <2>1, <2>2
<1>4. PICK f : f = [th EXCEPT ![t] = Idle]
  OBVIOUS
<1>5. f \in [Threads -> Thread] /\ f[t] = Idle /\ \A u \in Threads \ {t} : f[u] = th[u]
  BY <1>4, IdleTyped DEF LookupInv, Typed, ThTyped
<1>6. /\ ThTyped'
      /\ \A u \in Threads :
              /\ th'[u].pc = f[u].pc /\ th'[u].rcu = f[u].rcu /\ th'[u].key = f[u].key
              /\ th'[u].pos = f[u].pos /\ th'[u].ptr = f[u].ptr /\ th'[u].still = f[u].still
              /\ th'[u].ok = f[u].ok /\ th'[u].d = f[u].d /\ th'[u].e = f[u].e
              /\ th'[u].exchange = f[u].exchange
              /\ f[u].absent => th'[u].absent
  BY <1>4, <1>5, SeenOf
<1>7. th'[t].pc = "idle" /\ ~ th'[t].ok /\ ~ th'[t].still /\ th'[t].key = Nobody
  BY <1>5, <1>6, IdleTyped
<1>8. ASSUME NEW u \in Threads \ {t} PROVE Faded(u)
  <2>1. f[u] = th[u]
    BY <1>5
  <2>2. /\ th'[u].pc = f[u].pc /\ th'[u].rcu = f[u].rcu /\ th'[u].key = f[u].key
        /\ th'[u].pos = f[u].pos /\ th'[u].ptr = f[u].ptr /\ th'[u].still = f[u].still
        /\ th'[u].ok = f[u].ok /\ th'[u].d = f[u].d /\ th'[u].e = f[u].e
        /\ th'[u].exchange = f[u].exchange
        /\ f[u].absent => th'[u].absent
    BY <1>6
  <2>3. QED
    BY <2>1, <2>2 DEF Faded
<1>9. \A u \in Threads \ {t} : ~ Moving(u) /\ Moved(u) = {} /\ Gone(u) = {}
  <2>1. \A u \in Threads \ {t} : ~ Moving(u)
    BY <1>1, MoverAlone
  <2>2. QED
    BY <2>1 DEF Moving, Moves, Moved, Gone
<1>10. \A u \in Threads : ~ Moving(u)' /\ Moved(u)' = {} /\ Gone(u)' = {}
  <2>1. \A u \in Threads \ {t} : ~ Moving(u)' /\ Moved(u)' = {} /\ Gone(u)' = {}
    <3>1. \A u \in Threads \ {t} : SameMove(u) /\ Gone(u)' = Gone(u) /\ Moved(u)' = Moved(u)
      BY <1>8, FadedMove
    <3>2. QED
      BY <3>1, <1>9 DEF SameMove
  <2>2. ~ Moving(t)' /\ Moved(t)' = {} /\ Gone(t)' = {}
    BY <1>7, NotMovingNext
  <2>3. QED
    BY <2>1, <2>2
<1>11. Moved(t) = {th[t].d, th[t].e}
  BY DEF Moved, Moving, Moves
<1>12. \A x : (Locked(x) <=> x \in {th[t].d, th[t].e}) /\ ~ Locked(x)'
  BY <1>9, <1>10, <1>11 DEF Locked
<1>13. \A x : (Out(x) <=> x \in Gone(t)) /\ ~ Out(x)'
  BY <1>9, <1>10 DEF Out
<1>14. th[t].pc \notin {"idle", "snapshot", "valid"} \cup Calls
  BY NotMoving
<1>15. Walking' = Walking
  <2>1. \A u \in Threads \ {t} : (u \in Walking)' <=> u \in Walking
    BY <1>8, FadedWalk
  <2>2. t \notin Walking /\ (t \notin Walking)'
    BY <1>7, <1>14 DEF Walking, Calls, Walks, Reads
  <2>3. QED
    BY <2>1, <2>2 DEF Walking
<1>16. ASSUME NEW s
       PROVE  {u \in Threads : At(u, "snapshot") /\ th[u].ptr = s}' = {u \in Threads : At(u, "snapshot") /\ th[u].ptr = s}
  <2>1. \A u \in Threads \ {t} : (At(u, "snapshot") /\ th[u].ptr = s)' <=> At(u, "snapshot") /\ th[u].ptr = s
    BY <1>8 DEF At, Faded
  <2>2. ~ At(t, "snapshot") /\ ~ At(t, "snapshot")'
    BY <1>7, <1>14 DEF At
  <2>3. QED
    BY <2>1, <2>2
<1>17. ASSUME NEW u \in Threads \ {t}
       PROVE  /\ Faded(u) /\ ~ th'[u].still
              /\ rename_lock' = u <=> rename_lock = u
  <2>1. Faded(u) /\ LocalOf(u)
    BY <1>1, <1>8
  <2>2. ~ th'[u].still
    BY <2>1, <1>3 DEF Faded, LocalOf
  <2>3. QED
    BY <2>1, <2>2, <1>3
<1>18. ThreadInv(t)'
  <2>1. th'[t].pc \notin Calls \cup {"valid", "snapshot"}
    BY <1>7 DEF Calls, Walks, Reads
  <2>2. LocalOf(t)'
    BY <2>1, <1>3, <1>7, <1>10 DEF LocalOf, At, Calls, Walks, Reads
  <2>3. QED
    BY <2>1, <2>2, <1>7, IdleThread
<1>19. dn[th[t].d].state = "live" /\ dn[th[t].e].state = "live"
  BY <1>2, <1>12 DEF LookupInv, EntryOf
<1>20. QED
  BY <1>2, <1>6, <1>10, <1>12, <1>13, <1>15, <1>16, <1>17, <1>18, <1>19

LEMMA MoveEndKeeps ==
  ASSUME LookupInv, NEW t \in Threads, MoveEnd(t)
  PROVE  LookupInv'
<1>1. PICK d, e : d = th[t].d /\ e = th[t].e
  OBVIOUS
<1>2. /\ th[t].pc = "rehash" /\ chain' = Rehashes(d) /\ dn' = [dn EXCEPT ![d].hashed = TRUE, ![d].after = Nobody]
      /\ th' = Seen([th EXCEPT ![t] = Idle]) /\ rename_lock' = Nobody /\ ext' = ext
  BY <1>1 DEF MoveEnd, At
<1>3. Moving(t)
  BY <1>2 DEF Moving, Moves
<1>4. /\ d \in Dentries /\ e \in Dentries /\ d # e /\ dn[d].state = "live" /\ dn[e].state = "live"
      /\ ThTyped'
      /\ \A u \in Threads : ~ Moving(u)'
      /\ \A x : (Locked(x) <=> x \in {d, e}) /\ ~ Locked(x)'
      /\ \A x : (Out(x) <=> x \in Gone(t)) /\ ~ Out(x)'
      /\ Walking' = Walking
      /\ ThreadInv(t)'
  BY <1>1, <1>2, <1>3, MoveEnds
<1>5. /\ \A s : {u \in Threads : At(u, "snapshot") /\ th[u].ptr = s}' = {u \in Threads : At(u, "snapshot") /\ th[u].ptr = s}
      /\ \A u \in Threads \ {t} :
              /\ Faded(u) /\ ~ th'[u].still
              /\ rename_lock' = u <=> rename_lock = u
  BY <1>2, <1>3, MoveEnds
<1>6. Gone(t) = {d}
  BY <1>1, <1>2 DEF Gone
<1>7. Out(d) /\ \A y : y # d => ~ Out(y)
  BY <1>4, <1>6
<1>8. MoveAlone(t)
  BY <1>3 DEF LookupInv, Table, OneHashed
<1>9. ~ InChain(d)
  BY <1>7, ChainHashed
<1>10. PICK b \in Chains : b = Chain[dn[d].key]
  <2>1. dn[d].key \in Keys
    BY <1>4 DEF LookupInv, EntryOf
  <2>2. QED
    BY <2>1, LookupAssumption
<1>11. PICK n : n = [dn[d] EXCEPT !.hashed = TRUE, !.after = Nobody]
  OBVIOUS
<1>12. /\ n \in Entry /\ n.hashed /\ n.state = dn[d].state /\ n.parent = dn[d].parent
       /\ n.key = dn[d].key /\ n.ptr = dn[d].ptr /\ n.iname = dn[d].iname /\ n.waits = dn[d].waits
  <2>1. dn[d] \in Entry
    BY <1>4 DEF LookupInv, Typed, DnTyped
  <2>2. QED
    BY <2>1, <1>11 DEF Entry
<1>13. dn' = [dn EXCEPT ![d] = n]
  BY <1>2, <1>11
<1>14. dn'[d] = n /\ (\A y \in Dentries \ {d} : dn'[y] = dn[y]) /\ DnTyped'
  BY <1>4, <1>12, <1>13 DEF LookupInv, Typed, DnTyped
<1>15. \A y \in Dentries :
         /\ dn'[y].state = dn[y].state /\ dn'[y].parent = dn[y].parent
         /\ dn'[y].key = dn[y].key /\ dn'[y].ptr = dn[y].ptr /\ dn'[y].iname = dn[y].iname
         /\ dn'[y].waits = dn[y].waits
         /\ dn'[y].hashed => dn[y].hashed \/ y = d
  BY <1>12, <1>14
<1>16. ChainTyped' /\ Distinct' /\ Placed'
  <2>1. dn'[d].hashed /\ dn'[d].key = dn[d].key /\ ~ Out(d)'
    BY <1>4, <1>12, <1>14
  <2>2. \A y \in Dentries \ {d} :
          /\ dn'[y].hashed = dn[y].hashed /\ (dn[y].hashed => dn'[y].key = dn[y].key)
          /\ Out(y)' <=> Out(y)
    BY <1>4, <1>7, <1>14
  <2>3. QED
    BY <2>1, <2>2, <1>2, <1>4, <1>9, <1>10, PlacedPut
<1>17. OneHashed'
  <2>1. \A y \in Dentries : dn[y].hashed /\ dn[y].key = dn[d].key => y = d
    <3>1. CASE th[t].exchange
      BY <3>1, <1>1, <1>4, <1>8 DEF MoveAlone, LookupInv, Table, OneHashed
    <3>2. CASE ~ th[t].exchange
      BY <3>2, <1>1, <1>2, <1>4, <1>8 DEF MoveAlone, At
    <3>3. QED
      BY <3>1, <3>2
  <2>2. \A x, y \in Dentries : dn'[x].hashed /\ dn'[y].hashed /\ dn'[x].key = dn'[y].key => x = y
    <3> SUFFICES ASSUME NEW x \in Dentries, NEW y \in Dentries, dn'[x].hashed, dn'[y].hashed, dn'[x].key = dn'[y].key
                 PROVE  x = y
      OBVIOUS
    <3>1. dn[x].key = dn[y].key /\ (dn[x].hashed \/ x = d) /\ (dn[y].hashed \/ y = d)
      BY <1>15
    <3>2. CASE x = d \/ y = d
      BY <3>1, <3>2, <2>1
    <3>3. CASE x # d /\ y # d
      BY <3>1, <3>3 DEF LookupInv, Table, OneHashed
    <3>4. QED
      BY <3>2, <3>3
  <2>3. QED
    BY <2>2, <1>4 DEF OneHashed
<1>18. Typed'
  BY <1>2, <1>4, <1>14, <1>16 DEF LookupInv, Typed, LockTyped, ExtTyped
<1>19. ASSUME NEW s \in Storages PROVE NameStep(s)
  <2>1. Users(s)' = Users(s)
    BY <1>5, <1>15 DEF Users
  <2>2. QED
    BY <1>2, <2>1, NameSame
<1>20. th[t].pc # "rename" /\ Moving(t)
  BY <1>2, <1>3
<1>21. dn[d].parent = dn[d].key[1] /\ dn[e].parent = dn[e].key[1]
  BY <1>1, <1>20 DEF LookupInv, ParentsOf, At
<1>22. ASSUME NEW y \in Dentries PROVE EntryOf(y)' /\ TextOf(y)'
  <2>1. EntryOf(y)
    BY DEF LookupInv
  <2>2. EntryOf(y)'
    <3>1. ~ Locked(y)' /\ Walking' = Walking
      BY <1>4
    <3>2. /\ dn'[y].state = dn[y].state /\ dn'[y].parent = dn[y].parent
          /\ dn'[y].key = dn[y].key /\ dn'[y].waits = dn[y].waits
          /\ dn'[y].hashed => dn[y].hashed \/ y = d
      BY <1>15
    <3>3. dn[y].state = "live" => dn[y].parent = dn[y].key[1]
      BY <2>1, <1>4, <1>21 DEF EntryOf
    <3>4. dn'[y].hashed => dn'[y].state = "live"
      BY <2>1, <3>2, <1>4 DEF EntryOf
    <3>5. QED
      BY <2>1, <3>1, <3>2, <3>3, <3>4 DEF EntryOf
  <2>3. TextOf(y)'
    BY <1>14, <1>15, <1>19, TextKept
  <2>4. QED
    BY <2>2, <2>3
<1>23. ASSUME NEW u \in Threads PROVE ThreadInv(u)' /\ ParentsOf(u)'
  <2>1. ParentsOf(u)'
    BY <1>4 DEF ParentsOf
  <2>2. CASE u = t
    BY <2>1, <2>2, <1>4
  <2>3. CASE u # t
    <3>1. Faded(u) /\ ~ th'[u].still /\ (rename_lock' = u <=> rename_lock = u)
      BY <2>3, <1>5
    <3>2. \A x \in Dentries : th'[u].ok /\ x = th[u].pos => ~ Locked(x)'
      BY <1>4
    <3>3. /\ dn'[d].state = "live" /\ dn'[d].key = dn[d].key /\ dn'[d].ptr = dn[d].ptr
          /\ dn'[d].parent = dn[d].parent /\ (dn[d].hashed => dn'[d].hashed)
      BY <1>4, <1>12, <1>14
    <3>4. ThreadInv(u)'
      BY <3>1, <3>2, <3>3, <1>2, <1>4, <1>9, <1>10, <1>14, PutThread
    <3>5. QED
      BY <2>1, <3>4
  <2>4. QED
    BY <2>2, <2>3
<1>24. QED
  BY <1>16, <1>17, <1>18, <1>19, <1>22, <1>23 DEF LookupInv, Table, NameStep


-----------------------------------------------------------------------------
(* The specification keeps the invariant.                                  *)

LEMMA InitLookup == Init => LookupInv
<1> SUFFICES ASSUME Init PROVE LookupInv
  OBVIOUS
<1>1. /\ \A d \in Dentries : dn[d] = NoDentry
      /\ \A b \in Chains : chain[b] = <<>>
      /\ \A s \in Storages : ext[s] = NoName
      /\ \A t \in Threads : th[t] = Idle
      /\ rename_lock = Nobody
  BY DEF Init
<1>2. Typed
  <2>1. NoName \in External
    BY DEF NoName, External
  <2>2. DnTyped /\ ExtTyped /\ ThTyped /\ LockTyped
    BY <2>1, NoDentryTyped, IdleTyped DEF Init, DnTyped, ExtTyped, ThTyped, LockTyped
  <2>3. ChainTyped
    BY DEF Init, ChainTyped
  <2>4. QED
    BY <2>2, <2>3 DEF Typed
<1>3. /\ \A d \in Dentries : /\ dn[d].state = "free" /\ dn[d].hashed = FALSE /\ dn[d].waits = {}
      /\ \A s \in Storages : ext[s].count = 0 /\ ext[s].state = "free" /\ ext[s].waits = {}
      /\ \A t \in Threads : /\ th[t].pc = "idle" /\ ~ th[t].ok /\ ~ th[t].still /\ th[t].key = Nobody
  <2>1. NoDentry.state = "free" /\ NoDentry.hashed = FALSE /\ NoDentry.waits = {}
    BY DEF NoDentry
  <2>2. NoName.count = 0 /\ NoName.state = "free" /\ NoName.waits = {}
    BY DEF NoName
  <2>3. QED
    BY <1>1, <2>1, <2>2, IdleTyped
<1>4. \A t \in Threads : ~ Moving(t) /\ Gone(t) = {} /\ Moved(t) = {} /\ th[t].pc \notin Calls /\ t \notin Walking
  BY <1>3, NotMoving DEF Calls, Walks, Reads, Walking
<1>5. \A d : ~ Locked(d) /\ ~ Out(d)
  BY <1>4 DEF Locked, Out
<1>6. Table
  <2>1. \A b \in Chains : DOMAIN chain[b] = {}
    BY <1>1
  <2>2. QED
    BY <2>1, <1>3, <1>4 DEF Table, Distinct, Placed, OneHashed
<1>7. ASSUME NEW s \in Storages PROVE CountedName(s)
  <2>1. Users(s) = {}
    BY <1>3 DEF Users, At
  <2>2. Cardinality(Users(s)) = 0
    BY <2>1, FS_EmptySet
  <2>3. QED
    BY <2>1, <2>2, <1>3 DEF CountedName
<1>8. \A d \in Dentries : EntryOf(d) /\ TextOf(d)
  BY <1>3, <1>5 DEF EntryOf, TextOf
<1>9. ASSUME NEW t \in Threads PROVE ThreadInv(t) /\ ParentsOf(t)
  <2>1. th[t].pc \notin Calls /\ th[t].pc = "idle" /\ t \notin Walking /\ ~ Moving(t)
    BY <1>3, <1>4
  <2>2. rename_lock # t
    BY <1>1, LookupAssumption
  <2>3. LocalOf(t)
    BY <1>1, <1>3, <2>1, <2>2 DEF LocalOf, At, Calls, Walks, Reads
  <2>4. ~ th[t].ok
    BY <1>3
  <2>5. ThreadInv(t)
    BY <2>1, <2>3, <2>4 DEF ThreadInv, ReachOf, NamesOf, SequenceOf, PresentOf, AheadOf, NoneOf, At
  <2>6. QED
    BY <2>1, <2>5 DEF ParentsOf
<1>10. QED
  BY <1>2, <1>6, <1>7, <1>8, <1>9 DEF LookupInv

\* Nothing has changed.
LEMMA StutterKeeps ==
  ASSUME LookupInv, UNCHANGED vars
  PROVE  LookupInv'
<1>1. dn' = dn /\ chain' = chain /\ ext' = ext /\ th' = th /\ rename_lock' = rename_lock
  BY DEF vars
<1>2. /\ \A u \in Threads : Faded(u) /\ SameMove(u) /\ Gone(u)' = Gone(u) /\ Moved(u)' = Moved(u)
      /\ Walking' = Walking
      /\ \A x : (Locked(x)' <=> Locked(x)) /\ (Out(x)' <=> Out(x))
  BY <1>1, SameThreads
<1>3. Typed'
  BY <1>1 DEF LookupInv, Typed, DnTyped, ExtTyped, ThTyped, LockTyped, ChainTyped
<1>4. Table'
  <2>1. SameEntries
    BY <1>1 DEF SameEntries
  <2>2. QED
    BY <1>1, <1>2, <2>1, TableSame
<1>5. ASSUME NEW d \in Dentries PROVE EntryOf(d)' /\ TextOf(d)'
  <2>1. EntryOf(d) /\ TextOf(d)
    BY DEF LookupInv
  <2>2. QED
    BY <2>1, <1>1, <1>2 DEF EntryOf, TextOf, Text
<1>6. ASSUME NEW s \in Storages PROVE CountedName(s)'
  <2>1. CountedName(s)
    BY DEF LookupInv
  <2>2. Users(s)' = Users(s)
    BY <1>1 DEF Users, At
  <2>3. QED
    BY <1>1, <2>1, <2>2 DEF CountedName
<1>7. ASSUME NEW u \in Threads PROVE ThreadInv(u)' /\ ParentsOf(u)'
  <2>1. ThreadInv(u) /\ ParentsOf(u)
    BY DEF LookupInv
  <2>2. th'[u].still => rename_lock' = Nobody
    BY <1>1, <2>1 DEF ThreadInv, LocalOf
  <2>3. \A d \in Dentries : th'[u].ok /\ d = th[u].pos => ~ Locked(d)'
    BY <1>1, <1>2, <2>1 DEF ThreadInv, SequenceOf
  <2>4. ThTyped' /\ (rename_lock' = u <=> rename_lock = u)
    BY <1>1, <1>3 DEF Typed
  <2>5. ThreadInv(u)'
    BY <1>1, <1>2, <2>2, <2>3, <2>4, BesideKept
  <2>6. ParentsOf(u)'
    BY <1>1, <2>1 DEF ParentsOf, Moving, At
  <2>7. QED
    BY <2>5, <2>6
<1>8. QED
  BY <1>3, <1>4, <1>5, <1>6, <1>7 DEF LookupInv

LEMMA CompareKeeps ==
  ASSUME LookupInv, NEW t \in Threads, Compare(t)
  PROVE  LookupInv'
  BY CompareOn, CompareFound

LEMMA MoveKeeps ==
  ASSUME LookupInv, NEW t \in Threads, Move(t)
  PROVE  LookupInv'
<1>1. CASE Unhash(t, th[t].d, "unhash", "unhash target")
  BY <1>1, UnhashKeeps
<1>2. CASE Unhash(t, th[t].e, "unhash target", "reparent")
  BY <1>2, UnhashKeeps
<1>3. CASE Reparent(t)
  BY <1>3, ReparentKeeps
<1>4. CASE CopyName(t)
  BY <1>4, CopyNameKeeps
<1>5. CASE SwapNames(t)
  BY <1>5, SwapNamesKeeps
<1>6. CASE RehashTarget(t)
  BY <1>6, RehashTargetKeeps
<1>7. CASE MoveEnd(t)
  BY <1>7, MoveEndKeeps
<1>8. QED
  BY <1>1, <1>2, <1>3, <1>4, <1>5, <1>6, <1>7 DEF Move

LEMMA StepKeeps ==
  ASSUME LookupInv, NEW t \in Threads, Step(t)
  PROVE  LookupInv'
<1>1. CASE SeqBegin(t) \/ SeeHash(t) \/ Compare(t) \/ Advance(t) \/ LookupEnd(t) \/ Return(t)
  BY <1>1, SeqBeginKeeps, SeeHashKeeps, CompareKeeps, AdvanceKeeps, LookupEndKeeps, ReturnKeeps
<1>2. CASE \/ RcuSeq(t) \/ RcuParent(t) \/ RcuKey(t) \/ RcuStable(t)
           \/ RcuCompare(t) \/ RcuNone(t) \/ RcuConfirm(t)
  BY <1>2, RcuSeqKeeps, RcuParentKeeps, RcuKeyKeeps, RcuStableKeeps, RcuCompareKeeps, RcuNoneKeeps, RcuConfirmKeeps
<1>3. CASE Move(t) \/ Release(t)
  BY <1>3, MoveKeeps, ReleaseKeeps
<1>4. QED
  BY <1>1, <1>2, <1>3 DEF Step

LEMMA LookupStep == LookupInv /\ [Next]_vars => LookupInv'
<1> SUFFICES ASSUME LookupInv, [Next]_vars PROVE LookupInv'
  OBVIOUS
<1>1. ASSUME NEW t \in Threads, Step(t) PROVE LookupInv'
  BY <1>1, StepKeeps
<1>2. ASSUME NEW t \in Walkers, NEW k \in Keys, LookupStart(t, k) \/ RcuStart(t, k) PROVE LookupInv'
  BY <1>2, LookupStartKeeps, RcuStartKeeps DEF Threads
<1>3. ASSUME NEW t \in Movers, NEW d \in Dentries, NEW e \in Dentries, NEW exchange \in BOOLEAN,
             MoveBegin(t, d, e, exchange)
      PROVE  LookupInv'
  BY <1>3, MoveBeginKeeps DEF Threads
<1>4. ASSUME NEW t \in Walkers, NEW d \in Dentries, Snapshot(t, d) PROVE LookupInv'
  BY <1>4, SnapshotKeeps DEF Threads
<1>5. ASSUME NEW d \in Dentries, Rehash(d) \/ Drop(d) \/ Kill(d) PROVE LookupInv'
  BY <1>5, RehashKeeps, DropKeeps, KillKeeps
<1>6. ASSUME NEW d \in Dentries, NEW k \in Keys, Alloc(d, k) PROVE LookupInv'
  BY <1>6, AllocKeeps
<1>7. CASE UNCHANGED vars
  BY <1>7, StutterKeeps
<1>8. QED
  BY <1>1, <1>2, <1>3, <1>4, <1>5, <1>6, <1>7 DEF Next

LEMMA LookupAlways == Spec => []LookupInv
  BY InitLookup, LookupStep, PTL DEF Spec

\* No lookup under rename_lock's sequence misses a name that was there all the
\* time, whatever the moves beside it do to the chain under its feet.
THEOREM LookupNoFalseNegative == Spec => []NoFalseNegative
<1>1. LookupInv => NoFalseNegative
  BY DEF LookupInv, ThreadInv, NoneOf, NoFalseNegative
<1>2. QED
  BY <1>1, LookupAlways, PTL

\* The count of a long name is that of its users, its text is theirs, and no
\* section under way stands on an entry, or reads a name, that was freed.
THEOREM LookupNamesHeld == Spec => []NamesHeld
<1>1. ASSUME LookupInv PROVE NamesHeld
  <2>1. \A s \in Storages : /\ ext[s].count = Cardinality(Users(s))
                            /\ Users(s) # {} => ext[s].state = "used"
    BY <1>1 DEF LookupInv, CountedName
  <2>2. \A d \in Dentries : dn[d].state = "live" => Text(d, dn[d].ptr) = dn[d].key[2]
    BY <1>1 DEF LookupInv, TextOf
  <2>3. ASSUME NEW t \in Walking
        PROVE  /\ th[t].pos # Nobody => dn[th[t].pos].state # "free"
               /\ At(t, "cmp") /\ th[t].ptr # Inline => ext[th[t].ptr].state # "free"
    <3>1. t \in Threads /\ ReachOf(t) /\ NamesOf(t)
      BY <1>1 DEF Walking, LookupInv, ThreadInv
    <3>2. PICK S \in SUBSET Dentries : Around(t, Chains, S)
      BY <3>1 DEF ReachOf, Surrounded
    <3>3. ASSUME th[t].pos # Nobody PROVE dn[th[t].pos].state # "free"
      <4>1. th[t].pos \in Dentries /\ Alive(t, th[t].pos)
        BY <3>2, <3>3 DEF Around
      <4>2. EntryOf(th[t].pos)
        BY <1>1, <4>1 DEF LookupInv
      <4>3. QED
        BY <4>1, <4>2 DEF Alive, EntryOf
    <3>4. ASSUME At(t, "cmp"), th[t].ptr # Inline PROVE ext[th[t].ptr].state # "free"
      <4>1. NameAlive(t, th[t].ptr)
        BY <3>1, <3>4 DEF NamesOf
      <4>2. th[t].ptr \in Storages
        BY <1>1, <3>1, <3>4 DEF LookupInv, Typed, ThTyped, Thread
      <4>3. CountedName(th[t].ptr)
        BY <1>1, <4>2 DEF LookupInv
      <4>4. QED
        BY <3>4, <4>1, <4>3 DEF NameAlive, CountedName
    <3>5. QED
      BY <3>3, <3>4
  <2>4. QED
    BY <2>1, <2>2, <2>3 DEF NamesHeld
<1>2. QED
  BY <1>1, LookupAlways, PTL

\* Only a caller that finds the sequence unchanged takes an entry for valid.
LEMMA ValidBy ==
  ASSUME LookupInv, [Next]_vars, NEW u \in Threads, th[u].pc # "valid", th'[u].pc = "valid"
  PROVE  RcuConfirm(u) /\ th[u].ok
<1>1. th \in [Threads -> Thread] /\ Idle \in Thread /\ Idle.pc = "idle"
  BY IdleTyped DEF LookupInv, Typed, ThTyped
<1>0. ASSUME NEW t \in Threads, th' = [th EXCEPT ![t].pc = "next"] PROVE FALSE
  BY <1>0, <1>1
<1>2. ASSUME NEW t \in Threads, NEW r, th' = [th EXCEPT ![t] = r], r.pc # "valid" PROVE FALSE
  BY <1>1, <1>2
<1>3. ASSUME NEW f \in [Threads -> Thread], th' = Seen(f), f[u].pc # "valid" PROVE FALSE
  BY <1>3, SeenOf
<1>4. ASSUME NEW t \in Threads,
             SeqBegin(t) \/ SeeHash(t) \/ Compare(t) \/ Advance(t) \/ LookupEnd(t) \/ Return(t)
      PROVE  FALSE
  <2>1. CASE SeqBegin(t)
    BY <2>1, <1>1 DEF SeqBegin
  <2>2. CASE SeeHash(t)
    BY <2>2, <1>1 DEF SeeHash, Goes
  <2>3. CASE Compare(t)
    <3>1. th' = [th EXCEPT ![t] = Idle] \/ th' = [th EXCEPT ![t].pc = "next"]
      BY <2>3 DEF Compare, Goes
    <3>2. CASE th' = [th EXCEPT ![t] = Idle]
      BY <3>2, <1>1, <1>2
    <3>3. QED
      BY <3>1, <3>2, <1>0
  <2>4. CASE Advance(t)
    BY <2>4, <1>1 DEF Advance
  <2>5. CASE LookupEnd(t)
    BY <2>5, <1>1 DEF LookupEnd, Goes
  <2>6. CASE Return(t)
    BY <2>6, <1>1, <1>2 DEF Return
  <2>7. QED
    BY <1>4, <2>1, <2>2, <2>3, <2>4, <2>5, <2>6
<1>5. ASSUME NEW t \in Threads,
             RcuSeq(t) \/ RcuParent(t) \/ RcuKey(t) \/ RcuStable(t) \/ RcuCompare(t) \/ RcuNone(t)
      PROVE  FALSE
  <2>1. CASE RcuSeq(t)
    BY <2>1, <1>1 DEF RcuSeq
  <2>2. CASE RcuParent(t)
    BY <2>2, <1>1 DEF RcuParent, Goes
  <2>3. CASE RcuKey(t)
    <3>1. PICK r : r = [th[t] EXCEPT !.pc = IF th[t].key[1] \in Comparing THEN "stable" ELSE "cmp",
                                     !.ptr = dn[th[t].pos].ptr]
      OBVIOUS
    <3>2. r.pc # "valid"
      <4>1. th[t] \in Thread
        BY <1>1
      <4>2. QED
        BY <3>1, <4>1 DEF Thread
    <3>3. th' = [th EXCEPT ![t] = r] \/ th' = [th EXCEPT ![t].pc = "next"]
      BY <2>3, <3>1 DEF RcuKey, Goes
    <3>4. QED
      BY <3>2, <3>3, <1>0, <1>2
  <2>4. CASE RcuStable(t)
    BY <2>4, <1>1 DEF RcuStable
  <2>5. CASE RcuCompare(t)
    BY <2>5, <1>1 DEF RcuCompare
  <2>6. CASE RcuNone(t)
    BY <2>6, <1>1, <1>2 DEF RcuNone
  <2>7. QED
    BY <1>5, <2>1, <2>2, <2>3, <2>4, <2>5, <2>6
<1>6. ASSUME NEW t \in Threads, RcuConfirm(t) PROVE RcuConfirm(u) /\ th[u].ok
  <2>1. t = u
    BY <1>1, <1>6 DEF RcuConfirm
  <2>2. th[u].ok
    BY <1>1, <1>6, <2>1 DEF RcuConfirm
  <2>3. QED
    BY <1>6, <2>1, <2>2
<1>7. ASSUME NEW t \in Threads, Move(t) PROVE FALSE
  <2>1. ASSUME NEW f, NEW pc, f = [th EXCEPT ![t].pc = pc], pc \in Moves, th' = f \/ th' = Seen(f) PROVE FALSE
    <3>1. f[u].pc # "valid"
      <4>1. CASE u = t
        <5>1. f[u].pc = pc
          BY <1>1, <2>1, <4>1 DEF Thread
        <5>2. QED
          BY <2>1, <5>1 DEF Moves
      <4>2. CASE u # t
        BY <1>1, <2>1, <4>2
      <4>3. QED
        BY <4>1, <4>2
    <3>2. f \in [Threads -> Thread]
      BY <1>1, <2>1 DEF Thread
    <3>3. QED
      BY <1>3, <2>1, <3>1, <3>2
  <2>2. CASE Unhash(t, th[t].d, "unhash", "unhash target") \/ Unhash(t, th[t].e, "unhash target", "reparent")
    BY <2>1, <2>2 DEF Unhash, Goes, Moves
  <2>3. CASE Reparent(t)
    BY <2>1, <2>3 DEF Reparent, Goes, Moves
  <2>4. CASE CopyName(t)
    BY <2>1, <2>4 DEF CopyName, Moves
  <2>5. CASE SwapNames(t)
    BY <2>1, <2>5 DEF SwapNames, Moves
  <2>6. CASE RehashTarget(t)
    BY <2>1, <2>6 DEF RehashTarget, Goes, Moves
  <2>7. CASE MoveEnd(t)
    <3>1. PICK f : f = [th EXCEPT ![t] = Idle]
      OBVIOUS
    <3>2. f \in [Threads -> Thread] /\ f[u].pc # "valid"
      BY <1>1, <3>1
    <3>3. th' = Seen(f)
      BY <2>7, <3>1 DEF MoveEnd
    <3>4. QED
      BY <1>3, <3>2, <3>3
  <2>8. QED
    BY <1>7, <2>2, <2>3, <2>4, <2>5, <2>6, <2>7 DEF Move
<1>8. ASSUME NEW t \in Threads, Release(t) PROVE FALSE
  BY <1>1, <1>2, <1>8 DEF Release
<1>9. ASSUME NEW t \in Threads, NEW k \in Keys, LookupStart(t, k) \/ RcuStart(t, k) PROVE FALSE
  <2>1. PICK r : r = [Idle EXCEPT !.pc = "seq", !.key = k, !.absent = ~ Present(k)]
    OBVIOUS
  <2>2. PICK q : q = [Idle EXCEPT !.pc = "at", !.rcu = TRUE, !.key = k, !.pos = First(Chain[k])]
    OBVIOUS
  <2>3. r.pc # "valid" /\ q.pc # "valid"
    BY <2>1, <2>2 DEF Idle
  <2>4. QED
    BY <1>2, <1>9, <2>1, <2>2, <2>3 DEF LookupStart, RcuStart
<1>10. ASSUME NEW t \in Threads, NEW d \in Dentries, NEW e \in Dentries, NEW exchange \in BOOLEAN,
              MoveBegin(t, d, e, exchange)
       PROVE  FALSE
  <2>1. PICK f : f = [x \in Threads |-> [th[x] EXCEPT !.still = FALSE]]
    OBVIOUS
  <2>2. PICK r : r = [Idle EXCEPT !.pc = "unhash", !.d = d, !.e = e, !.exchange = exchange]
    OBVIOUS
  <2>3. f \in [Threads -> Thread] /\ f[u].pc # "valid"
    BY <1>1, <2>1 DEF Thread
  <2>4. r \in Thread /\ r.pc # "valid"
    BY <1>1, <2>2 DEF Thread, Moves
  <2>5. PICK g : g = [f EXCEPT ![t] = r]
    OBVIOUS
  <2>6. g \in [Threads -> Thread] /\ g[u].pc # "valid"
    BY <2>3, <2>4, <2>5
  <2>7. th' = Invalidates(g, {d, e})
    BY <1>10, <2>1, <2>2, <2>5 DEF MoveBegin
  <2>8. th'[u].pc = g[u].pc
    BY <2>6, <2>7, InvalidatesOf
  <2>9. QED
    BY <2>6, <2>8
<1>11. ASSUME NEW t \in Threads, NEW d \in Dentries, Snapshot(t, d) PROVE FALSE
  <2>1. PICK r : r = [Idle EXCEPT !.pc = "snapshot", !.ptr = dn[d].ptr]
    OBVIOUS
  <2>2. r.pc # "valid"
    BY <2>1 DEF Idle
  <2>3. QED
    BY <1>2, <1>11, <2>1, <2>2 DEF Snapshot
<1>12. ASSUME NEW d \in Dentries, Rehash(d) \/ Drop(d) \/ Kill(d) PROVE FALSE
  <2>1. PICK g : g = Invalidates(th, {d})
    OBVIOUS
  <2>2. g \in [Threads -> Thread] /\ g[u].pc # "valid"
    BY <1>1, <2>1, InvalidatesOf
  <2>3. th' = th \/ th' = Seen(g) \/ th' = Seen(th)
    BY <1>12, <2>1 DEF Rehash, Drop, Kill
  <2>4. QED
    BY <1>1, <1>3, <2>2, <2>3
<1>13. ASSUME NEW d \in Dentries, NEW k \in Keys, Alloc(d, k) PROVE FALSE
  BY <1>13 DEF Alloc
<1>14. CASE Next
  <2>1. ASSUME NEW t \in Threads, Step(t) PROVE RcuConfirm(u) /\ th[u].ok
    BY <2>1, <1>4, <1>5, <1>6, <1>7, <1>8 DEF Step
  <2>2. QED
    BY <1>14, <2>1, <1>9, <1>10, <1>11, <1>12, <1>13 DEF Next, Threads
<1>15. CASE UNCHANGED vars
  BY <1>15 DEF vars
<1>16. QED
  BY <1>14, <1>15

\* An entry found without a lock whose sequence is unchanged is hashed and has
\* the parent and the name that were looked for when the caller takes it.
THEOREM LookupRcuTrue == Spec => RcuTrue
<1>1. LookupInv /\ [Next]_vars => [\A t \in Threads : ~ At(t, "valid") /\ At(t, "valid")' => Wanted(t)]_vars
  <2> SUFFICES ASSUME LookupInv, [Next]_vars, NEW t \in Threads, ~ At(t, "valid"), At(t, "valid")'
               PROVE  Wanted(t)
    OBVIOUS
  <2>1. RcuConfirm(t) /\ th[t].ok
    BY ValidBy DEF At
  <2>2. SequenceOf(t) /\ At(t, "got")
    BY <2>1 DEF LookupInv, ThreadInv, RcuConfirm
  <2>3. dn[th[t].pos].hashed /\ dn[th[t].pos].parent = th[t].key[1] /\ dn[th[t].pos].key = th[t].key
    BY <2>1, <2>2 DEF SequenceOf, At
  <2>4. QED
    BY <2>3 DEF Wanted
<1>2. QED
  BY <1>1, LookupAlways, PTL DEF Spec, RcuTrue

=============================================================================
