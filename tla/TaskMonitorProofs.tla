------------------------- MODULE TaskMonitorProofs -------------------------
(***************************************************************************)
(* What the monitor keeps and what a read of it shows, for any number of   *)
(* processes, monitors, threads, writers and controllers.  The samples of  *)
(* a monitor need nothing but themselves.  That a pass of the reader is    *)
(* complete rests on who has the mutex and in which stage of the module:   *)
(* of all that can change the lists, only a removal goes on beside it.     *)
(***************************************************************************)
EXTENDS TaskMonitor, SequenceTheorems, FiniteSetTheorems, TLAPS

Samples == [pid : Pids \cup {Nobody}, head : Seq(Nat), count : Nat, num : Nat, to_shrink : Nat]
Thread == [pc : {"none", "top", "lock", "in"}, at : Monitors \cup {Nobody}, stop : BOOLEAN]
Read == [pc : {"idle", "show", "stop", "end"}, pos : Nat, at : Monitors \cup {Nobody},
         k : Nat, shown : Seq(Monitors \X Nat)]

Writes(f) == f = [c \in Clients |-> f[c]] /\ \A c \in Clients : f[c].pid \in Pids \cup {Nobody}

Newest(r) ==
  /\ \A k \in DOMAIN r.head : r.head[k] = r.num - Len(r.head) + k - 1
  /\ r.count >= Len(r.head)

Typed ==
  /\ list \in Seq(Monitors)
  /\ tm \in [Monitors -> Samples]
  /\ thread \in [Threads -> Thread]
  /\ Writes(client)
  /\ reader \in Read

Distinct(s) == \A j, k \in DOMAIN s : s[j] = s[k] => j = k

\* No monitor is listed twice, and each has its newest samples.
Lists ==
  /\ Distinct(list)
  /\ \A m \in Monitors : Newest(tm[m])

\* Who has the mutex, and when there is none.
Mutex ==
  /\ stage \in {"absent", "visible", "starting", "failing"} => mtx = "null"
  /\ stage = "unlocked" => mtx = "freed"
  /\ \A t \in Threads : thread[t].pc = "in" => mtx = t
  /\ reader.pc # "idle" => mtx = Reader /\ stage = "ready"

\* Of the listed monitors only those up to place i, and of that one only the
\* samples before the reader's, have been shown.
ShownTo(i) ==
  \A a \in DOMAIN reader.shown, j \in DOMAIN list :
    list[j] = reader.shown[a][1] =>
      \/ j < i
      \/ j = i /\ \E k \in DOMAIN tm[list[i]].head :
                    k < reader.k /\ reader.shown[a][2] = tm[list[i]].head[k]

\* All of them have been shown.
AllTo(i) ==
  \A j \in DOMAIN list : \A k \in DOMAIN tm[list[j]].head :
    j < i \/ (j = i /\ k < reader.k) => <<list[j], tm[list[j]].head[k]>> \in Ran(reader.shown)

Whole == reader.pos = Len(reader.shown)

Pass ==
  /\ Distinct(reader.shown)
  /\ reader.pc = "idle" => reader.shown = <<>>
  /\ reader.pc = "show" => \A i \in DOMAIN list :
                             list[i] = reader.at => ShownTo(i) /\ (Whole => AllTo(i))
  /\ reader.pc = "end" /\ Whole => AllTo(Len(list) + 1)

MonitorInv == Typed /\ Lists /\ Mutex /\ Pass

\* A monitor without samples.
LEMMA NoMonitorNewest == NoMonitor \in Samples /\ Newest(NoMonitor)
BY DEF NoMonitor, Samples, Newest

\* What the fields of a monitor are.
LEMMA SamplesFields ==
  ASSUME NEW r \in Samples
  PROVE  /\ r.head \in Seq(Nat) /\ r.num \in Nat /\ r.count \in Nat /\ r.to_shrink \in Nat
         /\ Len(r.head) \in Nat /\ DOMAIN r.head = 1 .. Len(r.head)
BY DEF Samples

\* A sample at the end.
LEMMA OneMore ==
  ASSUME NEW h \in Seq(Nat), NEW n \in Nat,
         \A k \in DOMAIN h : h[k] = n - Len(h) + k - 1
  PROVE  LET g == Append(h, n)
         IN  /\ g \in Seq(Nat) /\ Len(g) = Len(h) + 1
             /\ \A k \in DOMAIN g : g[k] = n + 1 - Len(g) + k - 1
<1> DEFINE g == Append(h, n)
<1>1. /\ g \in Seq(Nat) /\ Len(g) = Len(h) + 1
      /\ \A k \in 1 .. Len(h) : g[k] = h[k]
      /\ g[Len(h) + 1] = n
  BY AppendProperties
<1>2. DOMAIN h = 1 .. Len(h) /\ DOMAIN g = 1 .. Len(g) /\ Len(h) \in Nat
  BY <1>1
<1> HIDE DEF g
<1>3. ASSUME NEW k \in DOMAIN g PROVE g[k] = n + 1 - Len(g) + k - 1
  <2>1. CASE k \in 1 .. Len(h)
    BY <1>1, <1>2, <2>1
  <2>2. CASE k = Len(h) + 1
    BY <1>1, <1>2, <2>2
  <2> QED
    BY <1>1, <1>2, <2>1, <2>2
<1> QED
  BY <1>1, <1>3 DEF g

\* The first d samples are dropped.
LEMMA SomeLess ==
  ASSUME NEW h \in Seq(Nat), NEW n \in Nat, NEW d \in 0 .. Len(h),
         \A k \in DOMAIN h : h[k] = n - Len(h) + k - 1
  PROVE  LET g == SubSeq(h, d + 1, Len(h))
         IN  /\ g \in Seq(Nat) /\ Len(g) = Len(h) - d
             /\ \A k \in DOMAIN g : g[k] = n - Len(g) + k - 1
<1> DEFINE l == Len(h)
           e == d + 1
           g == SubSeq(h, e, l)
<1>1. DOMAIN h = 1 .. l /\ l \in Nat /\ d \in Nat /\ d =< l
  OBVIOUS
<1>2. /\ e \in Int /\ l \in Int /\ e = d + 1
      /\ \A j \in e .. l : h[j] \in Nat
  BY <1>1
<1> HIDE DEF l, e
<1>3. /\ g \in Seq(Nat) /\ Len(g) = (IF e <= l THEN l - e + 1 ELSE 0)
      /\ \A k \in 1 .. l - e + 1 : g[k] = h[e + k - 1]
  BY <1>2, SubSeqProperties
<1> HIDE DEF g
<1>4. Len(g) = l - d /\ l - e + 1 = l - d
  BY <1>1, <1>2, <1>3
<1>5. DOMAIN g = 1 .. l - d
  BY <1>3, <1>4
<1>6. ASSUME NEW k \in DOMAIN g
      PROVE  g[k] = n - Len(g) + k - 1
  <2>1. k \in 1 .. l - d /\ k \in Nat /\ e + k - 1 \in 1 .. l
    BY <1>1, <1>2, <1>5
  <2>2. g[k] = n - l + (e + k - 1) - 1
    BY <1>1, <1>3, <1>4, <2>1 DEF l
  <2> QED
    BY <1>1, <1>2, <1>4, <2>1, <2>2
<1> QED
  BY <1>3, <1>4, <1>6 DEF g, l, e

\* save_sample
LEMMA SampleNewest ==
  ASSUME NEW r \in Samples, Newest(r)
  PROVE  LET q == [r EXCEPT !.head = Added(@, r.num), !.num = @ + 1, !.count = @ + 1]
         IN  q \in Samples /\ Newest(q)
<1> DEFINE g == Append(r.head, r.num)
           n == r.num + 1
           c == r.count + 1
           q == [r EXCEPT !.head = g, !.num = n, !.count = c]
<1>1. r.head \in Seq(Nat) /\ r.num \in Nat /\ r.count \in Nat /\ Len(r.head) \in Nat
  BY SamplesFields
<1>2. /\ g \in Seq(Nat) /\ Len(g) = Len(r.head) + 1
      /\ \A k \in DOMAIN g : g[k] = n - Len(g) + k - 1
  <2> DEFINE h == r.head
             m == r.num
  <2>1. h \in Seq(Nat) /\ m \in Nat /\ \A k \in DOMAIN h : h[k] = m - Len(h) + k - 1
    BY <1>1 DEF Newest
  <2> HIDE DEF h, m
  <2>2. /\ Append(h, m) \in Seq(Nat) /\ Len(Append(h, m)) = Len(h) + 1
        /\ \A k \in DOMAIN Append(h, m) : Append(h, m)[k] = m + 1 - Len(Append(h, m)) + k - 1
    BY <2>1, OneMore
  <2> QED
    BY <2>2 DEF h, m
<1>3. n \in Nat /\ c \in Nat /\ c >= Len(g)
  BY <1>1, <1>2 DEF Newest
<1> HIDE DEF g, n, c
<1>4. q \in Samples /\ q.head = g /\ q.num = n /\ q.count = c
  BY <1>2, <1>3 DEF Samples
<1> HIDE DEF q
<1>5. Newest(q)
  BY <1>2, <1>3, <1>4 DEF Newest
<1> QED
  BY <1>4, <1>5 DEF Added, g, n, c, q

\* shrink_scan_task_monitor: it drops one sample more than it counts.
LEMMA ShrunkNewest ==
  ASSUME NEW r \in Samples, Newest(r)
  PROVE  Shrunk(r) \in Samples /\ Newest(Shrunk(r))
<1>1. /\ r.head \in Seq(Nat) /\ r.num \in Nat /\ r.count \in Nat /\ r.to_shrink \in Nat
      /\ Len(r.head) \in Nat
  BY SamplesFields
<1>2. CASE Len(r.head) > r.to_shrink
  <2> DEFINE d == r.to_shrink + 1
             g == SubSeq(r.head, d + 1, Len(r.head))
             c == r.count - r.to_shrink
             q == [r EXCEPT !.head = g, !.count = c, !.to_shrink = 0]
  <2>1. d \in 0 .. Len(r.head) /\ d + 1 = r.to_shrink + 2
    BY <1>1, <1>2
  <2>2. c \in Nat /\ c >= Len(r.head) - d
    BY <1>1, <1>2 DEF Newest
  <2>3. Shrunk(r) = q
    BY <1>2, <2>1 DEF Shrunk
  <2> HIDE DEF d, c
  <2>4. /\ g \in Seq(Nat) /\ Len(g) = Len(r.head) - d
        /\ \A k \in DOMAIN g : g[k] = r.num - Len(g) + k - 1
    BY <1>1, <2>1, SomeLess DEF Newest
  <2> HIDE DEF g
  <2>5. q \in Samples /\ q.head = g /\ q.num = r.num /\ q.count = c
    BY <2>2, <2>4 DEF Samples
  <2> HIDE DEF q
  <2>6. Newest(q)
    BY <2>2, <2>4, <2>5 DEF Newest
  <2> QED
    BY <2>3, <2>5, <2>6
<1>3. CASE ~ (Len(r.head) > r.to_shrink)
  <2> DEFINE e == <<>>
             q == [r EXCEPT !.head = e]
  <2>1. Shrunk(r) = q /\ e \in Seq(Nat) /\ Len(e) = 0 /\ DOMAIN e = {}
    BY <1>3 DEF Shrunk
  <2> HIDE DEF e
  <2>2. q \in Samples /\ q.head = e /\ q.count = r.count
    BY <2>1 DEF Samples
  <2> HIDE DEF q
  <2>3. Newest(q)
    BY <1>1, <2>1, <2>2 DEF Newest
  <2> QED
    BY <2>1, <2>2, <2>3
<1> QED
  BY <1>2, <1>3

\* list_del of a monitor: those after it move up by one place.
LEMMA RemovedAt ==
  ASSUME NEW s \in Seq(Monitors), NEW i \in 1 .. Len(s)
  PROVE  /\ RemoveAt(s, i) \in Seq(Monitors) /\ DOMAIN RemoveAt(s, i) = 1 .. Len(s) - 1
         /\ Len(RemoveAt(s, i)) = Len(s) - 1
         /\ \A k \in 1 .. Len(s) - 1 : RemoveAt(s, i)[k] = IF k < i THEN s[k] ELSE s[k + 1]
<1> DEFINE a == SubSeq(s, 1, i - 1)
           b == SubSeq(s, i + 1, Len(s))
<1>1. Len(s) \in Nat /\ i \in Nat /\ i =< Len(s) /\ i >= 1
  OBVIOUS
<1>2. /\ a \in Seq(Monitors) /\ Len(a) = i - 1
      /\ \A k \in 1 .. i - 1 : a[k] = s[k]
  BY <1>1
<1>3. /\ b \in Seq(Monitors) /\ Len(b) = Len(s) - i
      /\ \A k \in 1 .. Len(s) - i : b[k] = s[i + k]
  BY <1>1
<1> HIDE DEF a, b
<1>4. /\ a \o b \in Seq(Monitors) /\ Len(a \o b) = Len(s) - 1
      /\ DOMAIN (a \o b) = 1 .. Len(s) - 1
  <2>1. a \o b \in Seq(Monitors) /\ Len(a \o b) = Len(a) + Len(b)
    BY <1>2, <1>3, ConcatProperties
  <2>2. Len(a) + Len(b) = Len(s) - 1
    BY <1>1, <1>2, <1>3
  <2> QED
    BY <2>1, <2>2
<1>5. ASSUME NEW k \in 1 .. Len(s) - 1
      PROVE  (a \o b)[k] = IF k < i THEN s[k] ELSE s[k + 1]
  <2>1. (a \o b)[k] = IF k =< Len(a) THEN a[k] ELSE b[k - Len(a)]
    BY <1>1, <1>2, <1>3
  <2>2. CASE k < i
    BY <1>1, <1>2, <2>1, <2>2
  <2>3. CASE ~ (k < i)
    <3>1. k - Len(a) = k - i + 1 /\ k - i + 1 \in 1 .. Len(s) - i /\ ~ (k =< Len(a))
      BY <1>1, <1>2, <2>3
    <3>2. b[k - i + 1] = s[i + (k - i + 1)]
      BY <1>3, <3>1
    <3>3. i + (k - i + 1) = k + 1
      BY <1>1
    <3> QED
      BY <2>1, <2>3, <3>1, <3>2, <3>3
  <2> QED
    BY <2>2, <2>3
<1> QED
  BY <1>4, <1>5 DEF RemoveAt, a, b

\* The place of a listed monitor, and the monitor after it.
LEMMA Places ==
  ASSUME Typed, Lists
  PROVE  /\ DOMAIN list = 1 .. Len(list) /\ Len(list) \in Nat
         /\ \A m : Listed(m) => m \in Monitors /\ IndexOf(m) \in DOMAIN list
                                /\ list[IndexOf(m)] = m
         /\ \A i \in DOMAIN list : list[i] \in Monitors /\ Listed(list[i])
                                   /\ IndexOf(list[i]) = i
         /\ \A m : Listed(m) => After(m) \in Monitors \cup {Nobody}
<1>1. DOMAIN list = 1 .. Len(list) /\ Len(list) \in Nat
      /\ \A i \in DOMAIN list : list[i] \in Monitors
  BY DEF Typed
<1>2. \A m : Listed(m) => m \in Monitors /\ IndexOf(m) \in DOMAIN list /\ list[IndexOf(m)] = m
  BY <1>1 DEF Listed, Ran, IndexOf
<1>3. \A i \in DOMAIN list : list[i] \in Monitors /\ Listed(list[i])
  BY <1>1 DEF Listed, Ran
<1>4. \A i \in DOMAIN list : IndexOf(list[i]) = i
  BY <1>2, <1>3 DEF Lists, Distinct
<1>5. \A m : Listed(m) => After(m) \in Monitors \cup {Nobody}
  BY <1>1, <1>2 DEF After
<1> QED
  BY <1>1, <1>2, <1>3, <1>4, <1>5

-----------------------------------------------------------------------------
(* What keeps a pass of the reader as it is.                               *)

\* tm_init has not begun.
LEMMA MonitorInit == Init => MonitorInv
<1> SUFFICES ASSUME Init PROVE MonitorInv
  OBVIOUS
<1>1. Typed
  BY NoMonitorNewest DEF Init, Typed, NoThread, Thread, NoWrite, Writes, NoRead, Read
<1>2. Lists
  BY NoMonitorNewest DEF Init, Lists, Distinct
<1>3. Mutex
  BY DEF Init, Mutex, NoThread, NoRead
<1>4. Pass
  BY DEF Init, Pass, NoRead, Distinct
<1> QED
  BY <1>1, <1>2, <1>3, <1>4 DEF MonitorInv

\* Of a machine that has used memory that is not there nothing is said.
LEMMA BreaksInv == Breaks => MonitorInv'
<1> SUFFICES ASSUME Breaks PROVE MonitorInv'
  OBVIOUS
<1>1. Typed'
  BY NoMonitorNewest DEF Breaks, Typed, NoThread, Thread, NoWrite, Writes, NoRead, Read
<1>2. Lists'
  BY NoMonitorNewest DEF Breaks, Lists, Distinct
<1>3. Mutex'
  BY DEF Breaks, Mutex, NoThread, NoRead
<1>4. Pass'
  BY DEF Breaks, Pass, NoRead, Distinct
<1> QED
  BY <1>1, <1>2, <1>3, <1>4 DEF MonitorInv

\* A step that changes neither the lists nor the reader.
LEMMA PassStays ==
  ASSUME MonitorInv, reader' = reader, list' = list,
         \A m \in Monitors : tm'[m].head = tm[m].head
  PROVE  Pass'
<1>1. \A j \in DOMAIN list : list[j] \in Monitors
  BY DEF MonitorInv, Typed
<1>2. \A i \in DOMAIN list : ShownTo(i) => ShownTo(i)'
  BY <1>1 DEF ShownTo
<1>3. \A i : AllTo(i) => AllTo(i)'
  BY <1>1 DEF AllTo, Ran
<1>4. Whole' <=> Whole
  BY DEF Whole
<1> QED
  BY <1>2, <1>3, <1>4 DEF MonitorInv, Pass

\* Nobody reads.
LEMMA PassIdle ==
  ASSUME MonitorInv, reader' = reader, reader.pc = "idle"
  PROVE  Pass'
BY DEF MonitorInv, Pass

\* Those who have the mutex are not disturbed.
LEMMA StaysInv ==
  ASSUME MonitorInv, UNCHANGED <<stage, mtx, list, tm, reader>>,
         thread' \in [Threads -> Thread], Writes(client'),
         \A t \in Threads : thread'[t].pc = "in" => thread[t].pc = "in"
  PROVE  MonitorInv'
<1>1. Typed' /\ Lists' /\ Mutex'
  BY DEF MonitorInv, Typed, Lists, Mutex
<1>2. Pass'
  BY PassStays
<1> QED
  BY <1>1, <1>2 DEF MonitorInv

\* A thread goes on to another place.
LEMMA ThreadGoes ==
  ASSUME MonitorInv, NEW t \in Threads, NEW x \in Thread
  PROVE  LET th == [thread EXCEPT ![t] = x]
         IN  /\ th \in [Threads -> Thread]
             /\ \A u \in Threads : th[u].pc = IF u = t THEN x.pc ELSE thread[u].pc
BY DEF MonitorInv, Typed

LEMMA TopInv == ASSUME MonitorInv, NEW t \in Threads, Top(t) PROVE MonitorInv'
<1> DEFINE x == [thread[t] EXCEPT !.pc = NextTop(t), !.stop = @ /\ NextTop(t) # "none"]
<1>1. thread[t] \in Thread /\ NextTop(t) \in {"none", "lock"}
  BY DEF MonitorInv, Typed, NextTop
<1>2. x \in Thread /\ x.pc \in {"none", "lock"}
  BY <1>1 DEF Thread
<1>3. thread' = [thread EXCEPT ![t] = x]
  BY DEF Top
<1> HIDE DEF x
<1>4. /\ thread' \in [Threads -> Thread]
      /\ \A u \in Threads : thread'[u].pc = IF u = t THEN x.pc ELSE thread[u].pc
  BY <1>2, <1>3, ThreadGoes
<1>5. Writes(client')
  BY DEF Top, MonitorInv, Typed
<1> QED
  BY <1>2, <1>4, <1>5, StaysInv DEF Top

LEMMA LockThreadInv == ASSUME MonitorInv, NEW t \in Threads, LockThread(t) PROVE MonitorInv'
<1> DEFINE a == IF list = <<>> THEN Nobody ELSE list[1]
           x == [thread[t] EXCEPT !.pc = "in", !.at = a]
<1>1. thread[t] \in Thread /\ a \in Monitors \cup {Nobody}
  BY DEF MonitorInv, Typed
<1>2. thread' = [thread EXCEPT ![t] = x]
  BY DEF LockThread
<1> HIDE DEF a
<1>3. x \in Thread /\ x.pc = "in"
  BY <1>1 DEF Thread
<1> HIDE DEF x
<1>4. /\ thread' \in [Threads -> Thread]
      /\ \A u \in Threads : thread'[u].pc = IF u = t THEN x.pc ELSE thread[u].pc
  BY <1>2, <1>3, ThreadGoes
<1>5. mtx = Nobody /\ mtx' = t /\ UNCHANGED <<stage, list, tm, client, reader>>
  BY DEF LockThread
<1>6. Typed' /\ Lists'
  BY <1>4, <1>5 DEF MonitorInv, Typed, Lists
<1>7. Mutex'
  BY <1>3, <1>4, <1>5, MonitorAssumption DEF MonitorInv, Mutex
<1>8. Pass'
  BY <1>5, PassStays
<1> QED
  BY <1>6, <1>7, <1>8 DEF MonitorInv

LEMMA SampleInv == ASSUME MonitorInv, NEW t \in Threads, Sample(t) PROVE MonitorInv'
<1> DEFINE m == thread[t].at
           q == [tm[m] EXCEPT !.head = Added(@, tm[m].num), !.num = @ + 1, !.count = @ + 1]
           x == [thread[t] EXCEPT !.at = After(m)]
<1>1. m \in Monitors /\ After(m) \in Monitors \cup {Nobody} /\ Listed(m)
  BY Places DEF Sample, MonitorInv
<1>2. tm[m] \in Samples /\ Newest(tm[m]) /\ thread[t] \in Thread
  BY <1>1 DEF MonitorInv, Typed, Lists
<1>3. q \in Samples /\ Newest(q)
  BY <1>2, SampleNewest
<1>4. tm' = [tm EXCEPT ![m] = q]
  BY DEF Sample
<1>9. thread' = [thread EXCEPT ![t] = x]
  BY DEF Sample
<1> HIDE DEF q
<1>5. x \in Thread /\ x.pc = thread[t].pc
  BY <1>1, <1>2 DEF Thread
<1> HIDE DEF x, m
<1>6. /\ thread' \in [Threads -> Thread]
      /\ \A u \in Threads : thread'[u].pc = IF u = t THEN x.pc ELSE thread[u].pc
  BY <1>5, <1>9, ThreadGoes
<1>7. UNCHANGED <<stage, mtx, list, client, reader>> /\ thread[t].pc = "in"
  BY DEF Sample
<1>8. Typed' /\ Lists' /\ Mutex'
  BY <1>1, <1>3, <1>4, <1>5, <1>6, <1>7 DEF MonitorInv, Typed, Lists, Mutex
<1>10. reader.pc = "idle"
  BY <1>7, MonitorAssumption DEF MonitorInv, Mutex
<1> QED
  BY <1>7, <1>8, <1>10, PassIdle DEF MonitorInv

LEMMA UnlockThreadInv == ASSUME MonitorInv, NEW t \in Threads, UnlockThread(t) PROVE MonitorInv'
<1> DEFINE x == [thread[t] EXCEPT !.pc = "top"]
<1>1. thread[t] \in Thread
  BY DEF MonitorInv, Typed
<1>2. thread' = [thread EXCEPT ![t] = x] /\ x \in Thread /\ x.pc = "top"
  BY <1>1 DEF UnlockThread, Thread
<1> HIDE DEF x
<1>3. /\ thread' \in [Threads -> Thread]
      /\ \A u \in Threads : thread'[u].pc = IF u = t THEN x.pc ELSE thread[u].pc
  BY <1>2, ThreadGoes
<1>4. mtx' = Nobody /\ UNCHANGED <<stage, list, tm, client, reader>> /\ mtx = t
  BY DEF UnlockThread, MonitorInv, Mutex
<1>5. Typed' /\ Lists'
  BY <1>3, <1>4 DEF MonitorInv, Typed, Lists
<1>6. Mutex'
  BY <1>2, <1>3, <1>4, MonitorAssumption DEF MonitorInv, Mutex
<1> QED
  BY <1>4, <1>5, <1>6, PassStays DEF MonitorInv

\* A writer has another process in mind.
LEMMA WriterGoes ==
  ASSUME MonitorInv, NEW c \in Clients, NEW x, x.pid \in Pids \cup {Nobody},
         client' = [client EXCEPT ![c] = x]
  PROVE  Writes(client')
BY DEF MonitorInv, Typed, Writes

LEMMA SearchInv ==
  ASSUME MonitorInv, NEW c \in Clients, NEW p \in Pids, NEW cmd \in {"add", "remove"}, Search(c, p, cmd)
  PROVE  MonitorInv'
<1>1. PICK m : client' = [client EXCEPT ![c] = [pc |-> cmd, pid |-> p, tm |-> m]]
  BY DEF Search
<1>2. Writes(client')
  BY <1>1, WriterGoes
<1>3. thread' \in [Threads -> Thread] /\ UNCHANGED <<stage, mtx, list, tm, thread, reader>>
  BY DEF Search, MonitorInv, Typed
<1> QED
  BY <1>2, <1>3, StaysInv

\* The places of the monitors that stay in the list.
LEMMA TakenPlaces ==
  ASSUME MonitorInv, NEW r \in DOMAIN list, list' = RemoveAt(list, r),
         NEW j \in DOMAIN list'
  PROVE  LET u == IF j < r THEN j ELSE j + 1
         IN  u \in DOMAIN list /\ u # r /\ list'[j] = list[u] /\ list'[j] # list[r]
<1>1. DOMAIN list = 1 .. Len(list) /\ Len(list) \in Nat /\ list \in Seq(Monitors)
  BY DEF MonitorInv, Typed
<1>2. /\ DOMAIN list' = 1 .. Len(list) - 1
      /\ \A k \in 1 .. Len(list) - 1 : list'[k] = IF k < r THEN list[k] ELSE list[k + 1]
  BY <1>1, RemovedAt
<1> QED
  BY <1>1, <1>2 DEF MonitorInv, Lists, Distinct

LEMMA TakeInv == ASSUME MonitorInv, NEW c \in Clients, Take(c) PROVE MonitorInv'
<1> DEFINE m == client[c].tm
           r == IndexOf(m)
           up(j) == IF j < r THEN j ELSE j + 1
<1>1. m \in Monitors /\ r \in DOMAIN list /\ list[r] = m
  BY Places DEF Take, MonitorInv
<1>2. list' = RemoveAt(list, r)
  BY DEF Take, Without
<1>3. tm' = [tm EXCEPT ![m] = NoMonitor] /\ UNCHANGED <<stage, mtx, thread, reader>>
  BY DEF Take
<1>4. Writes(client')
  BY WriterGoes DEF Take, NoWrite
<1>5. DOMAIN list = 1 .. Len(list) /\ Len(list) \in Nat /\ list \in Seq(Monitors)
  BY DEF MonitorInv, Typed
<1>6. list' \in Seq(Monitors) /\ DOMAIN list' = 1 .. Len(list) - 1 /\ Len(list') = Len(list) - 1
  BY <1>1, <1>2, <1>5, RemovedAt
<1> HIDE DEF r, m
<1>7. \A j \in DOMAIN list' :
        up(j) \in DOMAIN list /\ up(j) # r /\ list'[j] = list[up(j)] /\ list'[j] # m
  BY <1>1, <1>2, TakenPlaces
<1>8. r \in Nat /\ \A j \in DOMAIN list' : j \in Nat /\ up(j) \in Nat
  BY <1>1, <1>5, <1>6
<1>9. \A i, j \in DOMAIN list' : /\ up(i) = up(j) => i = j
                                 /\ up(i) < up(j) => i < j
                                 /\ i < j => up(i) < up(j)
  BY <1>8
<1> HIDE DEF up
<1>10. Typed'
  BY <1>1, <1>3, <1>4, <1>6, NoMonitorNewest DEF MonitorInv, Typed
<1>11. Lists'
  <2>1. Distinct(list')
    BY <1>7, <1>9 DEF MonitorInv, Lists, Distinct
  <2>2. \A x \in Monitors : Newest(tm'[x])
    BY <1>1, <1>3, NoMonitorNewest DEF MonitorInv, Typed, Lists
  <2> QED
    BY <2>1, <2>2 DEF Lists
<1>12. Mutex'
  BY <1>3 DEF MonitorInv, Mutex
<1>13. \A j \in DOMAIN list' : tm'[list'[j]] = tm[list[up(j)]]
  BY <1>3, <1>6, <1>7 DEF MonitorInv, Typed
<1>14. ASSUME NEW i \in DOMAIN list', ShownTo(up(i))
       PROVE  ShownTo(i)'
  BY <1>3, <1>7, <1>9, <1>13, <1>14 DEF ShownTo
<1>15. ASSUME NEW i \in DOMAIN list', AllTo(up(i))
       PROVE  AllTo(i)'
  BY <1>3, <1>7, <1>9, <1>13, <1>15 DEF AllTo
<1>16. ASSUME AllTo(Len(list) + 1)
       PROVE  AllTo(Len(list) + 1)'
  <2>1. \A j \in DOMAIN list : j < Len(list) + 1
    BY <1>5
  <2>2. \A j \in DOMAIN list' : \A k \in DOMAIN tm'[list'[j]].head :
          <<list'[j], tm'[list'[j]].head[k]>> \in Ran(reader.shown)
    BY <1>7, <1>13, <1>16, <2>1 DEF AllTo
  <2> QED
    BY <1>3, <2>2 DEF AllTo
<1>17. Pass'
  <2>1. Whole' <=> Whole
    BY <1>3 DEF Whole
  <2>2. Distinct(reader'.shown) /\ (reader'.pc = "idle" => reader'.shown = <<>>)
    BY <1>3 DEF MonitorInv, Pass
  <2>3. ASSUME reader'.pc = "show", NEW i \in DOMAIN list', list'[i] = reader'.at
        PROVE  ShownTo(i)' /\ (Whole' => AllTo(i)')
    BY <1>3, <1>7, <1>14, <1>15, <2>1, <2>3 DEF MonitorInv, Pass
  <2>4. ASSUME reader'.pc = "end", Whole'
        PROVE  AllTo(Len(list) + 1)'
    BY <1>3, <1>16, <2>1, <2>4 DEF MonitorInv, Pass
  <2> QED
    BY <2>2, <2>3, <2>4 DEF Pass
<1> QED
  BY <1>10, <1>11, <1>12, <1>17 DEF MonitorInv
\* A new monitor goes to the end of the list.
LEMMA AddInv == ASSUME MonitorInv, NEW c \in Clients, Add(c) PROVE MonitorInv'
<1> DEFINE p == client[c].pid
           q == [NoMonitor EXCEPT !.pid = p]
<1>1. PICK m \in Monitors \ Ran(list) :
        tm' = [tm EXCEPT ![m] = q] /\ list' = Append(list, m)
  BY DEF Add
<1>2. mtx = Nobody /\ UNCHANGED <<stage, mtx, thread, reader>> /\ client' = [client EXCEPT ![c] = NoWrite]
  BY DEF Add
<1>3. p \in Pids \cup {Nobody}
  BY DEF MonitorInv, Typed, Writes
<1>4. q \in Samples /\ Newest(q)
  <2>1. NoMonitor \in Samples /\ NoMonitor.head = <<>> /\ NoMonitor.count = 0
    BY NoMonitorNewest DEF NoMonitor
  <2>2. q \in Samples /\ q.head = NoMonitor.head /\ q.count = NoMonitor.count
    BY <1>3, <2>1 DEF Samples
  <2> HIDE DEF q
  <2> QED
    BY <2>1, <2>2 DEF Newest
<1> HIDE DEF q, p
<1>5. Writes(client')
  BY <1>2, WriterGoes DEF NoWrite
<1>6. list \in Seq(Monitors) /\ DOMAIN list = 1 .. Len(list) /\ Len(list) \in Nat
  BY DEF MonitorInv, Typed
<1>7. /\ list' \in Seq(Monitors) /\ DOMAIN list' = 1 .. Len(list) + 1
      /\ \A k \in 1 .. Len(list) : list'[k] = list[k]
      /\ list'[Len(list) + 1] = m
  <2>1. /\ list' \in Seq(Monitors) /\ Len(list') = Len(list) + 1
        /\ \A k \in 1 .. Len(list) : list'[k] = list[k]
        /\ list'[Len(list) + 1] = m
    BY <1>1, <1>6, AppendProperties
  <2> QED
    BY <2>1
<1>8. Typed'
  BY <1>1, <1>2, <1>4, <1>5, <1>7 DEF MonitorInv, Typed
<1>9. Lists'
  <2>1. \A k \in DOMAIN list : list[k] # m
    BY <1>1 DEF Ran
  <2>2. Distinct(list')
    BY <1>6, <1>7, <2>1 DEF MonitorInv, Lists, Distinct
  <2>3. \A x \in Monitors : Newest(tm'[x])
    BY <1>1, <1>4 DEF MonitorInv, Typed, Lists
  <2> QED
    BY <2>2, <2>3 DEF Lists
<1>10. Mutex'
  BY <1>2 DEF MonitorInv, Mutex
<1>11. reader.pc = "idle"
  BY <1>2, MonitorAssumption DEF MonitorInv, Mutex
<1> QED
  BY <1>2, <1>8, <1>9, <1>10, <1>11, PassIdle DEF MonitorInv

LEMMA AddNoProcessInv == ASSUME MonitorInv, NEW c \in Clients, AddNoProcess(c) PROVE MonitorInv'
<1>1. CASE ~ Breaks
  <2>1. client' = [client EXCEPT ![c] = NoWrite] /\ UNCHANGED <<stage, mtx, list, tm, thread, reader>>
    BY <1>1 DEF AddNoProcess
  <2>2. Writes(client')
    BY <2>1, WriterGoes DEF NoWrite
  <2>3. thread' \in [Threads -> Thread]
    BY <2>1 DEF MonitorInv, Typed
  <2> QED
    BY <2>1, <2>2, <2>3, StaysInv
<1> QED
  BY <1>1, BreaksInv
-----------------------------------------------------------------------------
(* The reader.                                                             *)

\* Where the reader goes.
LEMMA ReaderGoes ==
  ASSUME MonitorInv, UNCHANGED <<stage, list, tm, thread, client>>, reader' \in Read,
         mtx' = mtx \/ (mtx = Nobody /\ mtx' = Reader) \/ (mtx = Reader /\ mtx' = Nobody),
         reader'.pc # "idle" => mtx' = Reader /\ stage = "ready"
  PROVE  Typed' /\ Lists' /\ Mutex'
<1>1. Typed' /\ Lists'
  BY DEF MonitorInv, Typed, Lists
<1>2. \A t \in Threads : thread[t].pc = "in" => mtx' = t
  BY MonitorAssumption DEF MonitorInv, Mutex
<1>3. mtx # mtx' => stage \notin {"absent", "visible", "starting", "failing", "unlocked"}
  BY MonitorAssumption DEF MonitorInv, Mutex
<1>4. Mutex'
  BY <1>2, <1>3 DEF MonitorInv, Mutex
<1> QED
  BY <1>1, <1>4

\* The file is not being read.
LEMMA NoReadReads == NoRead \in Read /\ NoRead.pc = "idle" /\ NoRead.shown = <<>>
BY DEF NoRead, Read

LEMMA SeqStartInv == ASSUME MonitorInv, SeqStart PROVE MonitorInv'
<1>1. /\ reader \in Read /\ reader.pc = "idle" /\ reader.shown = <<>> /\ reader.pos \in Nat
      /\ mtx = Nobody /\ mtx' = Reader /\ UNCHANGED <<stage, list, tm, thread, client>>
  BY DEF SeqStart, MonitorInv, Typed, Pass, Read
<1>2. stage = "ready"
  BY <1>1, MonitorAssumption DEF SeqStart, Opens, MonitorInv, Mutex
<1>3. CASE reader.pos >= Len(list)
  <2>1. reader' = [NoRead EXCEPT !.pc = "stop"]
    BY <1>3 DEF SeqStart
  <2>2. reader' \in Read /\ reader'.pc = "stop" /\ reader'.shown = NoRead.shown
    BY <2>1, NoReadReads DEF Read
  <2>3. Pass'
    BY <2>2, NoReadReads DEF Pass, Distinct
  <2> QED
    BY <1>1, <1>2, <2>2, <2>3, ReaderGoes DEF MonitorInv
<1>4. CASE ~ (reader.pos >= Len(list))
  <2> DEFINE m == list[reader.pos + 1]
  <2>1. reader' = [reader EXCEPT !.pc = "show", !.at = m, !.k = 1]
    BY <1>4 DEF SeqStart
  <2>2. list \in Seq(Monitors) /\ DOMAIN list = 1 .. Len(list) /\ Len(list) \in Nat
    BY DEF MonitorInv, Typed
  <2>3. reader.pos + 1 \in DOMAIN list /\ m \in Monitors
    BY <1>1, <1>4, <2>2
  <2>4. m = list[reader.pos + 1]
    OBVIOUS
  <2> HIDE DEF m
  <2>5. /\ reader' \in Read /\ reader'.pc = "show" /\ reader'.at = m /\ reader'.k = 1
        /\ reader'.pos = reader.pos /\ reader'.shown = reader.shown
    BY <1>1, <2>1, <2>3 DEF Read
  <2>6. \A i : ShownTo(i)'
    BY <1>1, <2>5 DEF ShownTo
  <2>7. ASSUME NEW i \in DOMAIN list', list'[i] = reader'.at, Whole'
        PROVE  AllTo(i)'
    <3>1. reader.pos = 0
      BY <1>1, <2>5, <2>7 DEF Whole
    <3>2. i = 1
      BY <1>1, <2>3, <2>4, <2>5, <2>7, <3>1 DEF MonitorInv, Lists, Distinct
    <3>3. \A j \in DOMAIN list' : ~ (j < 1)
      BY <1>1, <2>2
    <3>4. \A j \in DOMAIN list' : tm'[list'[j]].head \in Seq(Nat)
      BY <1>1, <2>2, SamplesFields DEF MonitorInv, Typed
    <3>5. \A j \in DOMAIN list' : \A k \in DOMAIN tm'[list'[j]].head : ~ (k < 1)
      BY <3>4
    <3> QED
      BY <2>5, <3>2, <3>3, <3>5 DEF AllTo
  <2>8. Pass'
    BY <1>1, <2>5, <2>6, <2>7 DEF Pass, Distinct
  <2> QED
    BY <1>1, <1>2, <2>5, <2>8, ReaderGoes DEF MonitorInv
<1> QED
  BY <1>3, <1>4

LEMMA SeqFullInv == ASSUME MonitorInv, SeqFull PROVE MonitorInv'
<1>1. /\ reader \in Read /\ reader.pc = "show" /\ reader' = [reader EXCEPT !.pc = "stop"]
      /\ UNCHANGED <<stage, mtx, list, tm, thread, client>>
  BY DEF SeqFull, MonitorInv, Typed
<1>2. reader' \in Read /\ reader'.pc = "stop" /\ reader'.shown = reader.shown
  BY <1>1 DEF Read
<1>3. Pass'
  BY <1>2 DEF MonitorInv, Pass
<1> QED
  BY <1>1, <1>2, <1>3, ReaderGoes DEF MonitorInv, Mutex

LEMMA SeqStopInv == ASSUME MonitorInv, SeqStop PROVE MonitorInv'
<1>1. /\ reader \in Read /\ reader.pc # "idle" /\ reader' = [NoRead EXCEPT !.pos = reader.pos]
      /\ mtx' = Nobody /\ UNCHANGED <<stage, list, tm, thread, client>>
  BY DEF SeqStop, MonitorInv, Typed
<1>2. mtx = Reader
  BY <1>1 DEF MonitorInv, Mutex
<1>3. reader.pos \in Nat
  BY <1>1 DEF Read
<1>4. reader' \in Read /\ reader'.pc = NoRead.pc /\ reader'.shown = NoRead.shown
  BY <1>1, <1>3, NoReadReads DEF Read
<1>5. Pass'
  BY <1>4, NoReadReads DEF Pass, Distinct
<1> QED
  BY <1>1, <1>2, <1>4, <1>5, NoReadReads, ReaderGoes DEF MonitorInv
\* What show and next make of the descriptor.
LEMMA ShowTo ==
  ASSUME NEW x \in Read, NEW p \in Nat, NEW sh \in Seq(Monitors \X Nat)
  PROVE  LET y == [x EXCEPT !.pos = p, !.shown = sh]
         IN  /\ y \in Read /\ y.pc = x.pc /\ y.at = x.at /\ y.k = x.k
             /\ y.pos = p /\ y.shown = sh
BY DEF Read

\* One more sample has been shown, and it is another one.
LEMMA OneShown ==
  ASSUME MonitorInv, reader.pc = "show", NEW i \in DOMAIN list, list[i] = reader.at,
         reader.k \in DOMAIN tm[reader.at].head
  PROVE  LET x == <<reader.at, tm[reader.at].head[reader.k]>>
             shown == Append(reader.shown, x)
         IN  /\ shown \in Seq(Monitors \X Nat)
             /\ Distinct(shown)
             /\ DOMAIN shown = 1 .. Len(reader.shown) + 1
             /\ Len(reader.shown) \in Nat /\ DOMAIN reader.shown = 1 .. Len(reader.shown)
             /\ Len(shown) = Len(reader.shown) + 1
             /\ \A a \in 1 .. Len(reader.shown) : shown[a] = reader.shown[a]
             /\ shown[Len(reader.shown) + 1] = x
             /\ Ran(shown) = Ran(reader.shown) \cup {x}
<1> DEFINE m == reader.at
           h == tm[m].head
           x == <<m, h[reader.k]>>
           s == reader.shown
           shown == Append(s, x)
<1>1. m \in Monitors /\ tm[m] \in Samples /\ s \in Seq(Monitors \X Nat) /\ Newest(tm[m])
  BY DEF MonitorInv, Typed, Lists, Read
<1>2. h \in Seq(Nat) /\ h[reader.k] \in Nat /\ DOMAIN h = 1 .. Len(h) /\ Len(h) \in Nat /\ tm[m].num \in Nat
  BY <1>1, SamplesFields
<1>3. x \in Monitors \X Nat /\ x[1] = m /\ x[2] = h[reader.k]
  BY <1>1, <1>2
<1>4. \A a \in DOMAIN s : s[a] # x
  <2> SUFFICES ASSUME NEW a \in DOMAIN s, s[a] = x PROVE FALSE
    OBVIOUS
  <2>1. ShownTo(i)
    BY DEF MonitorInv, Pass
  <2>2. list[i] = s[a][1] /\ s[a][2] = h[reader.k]
    BY <1>3
  <2>3. i \in Nat
    BY DEF MonitorInv, Typed
  <2>4. PICK k \in DOMAIN h : k < reader.k /\ s[a][2] = h[k]
    BY <2>1, <2>2, <2>3 DEF ShownTo
  <2>5. h[k] = h[reader.k]
    BY <2>2, <2>4
  <2>6. h[k] = tm[m].num - Len(h) + k - 1 /\ h[reader.k] = tm[m].num - Len(h) + reader.k - 1
    BY <1>1 DEF Newest
  <2>7. k \in Nat /\ reader.k \in Nat
    BY <1>2
  <2>8. k = reader.k
    <3> DEFINE r == reader.k
               l == Len(h)
               n == tm[m].num
    <3>1. n - l + k - 1 = n - l + r - 1
      BY <2>5, <2>6
    <3>2. n \in Nat /\ l \in Nat /\ r \in Nat /\ k \in Nat
      BY <1>2, <2>7
    <3> HIDE DEF r, l, n
    <3>3. k = r
      BY <3>1, <3>2
    <3> QED
      BY <3>3 DEF r
  <2> QED
    BY <2>4, <2>7, <2>8
<1> HIDE DEF x, s
<1>5. /\ shown \in Seq(Monitors \X Nat) /\ Len(shown) = Len(s) + 1
      /\ \A a \in 1 .. Len(s) : shown[a] = s[a]
      /\ shown[Len(s) + 1] = x
  BY <1>1, <1>3, AppendProperties
<1>6. DOMAIN s = 1 .. Len(s) /\ Len(s) \in Nat /\ DOMAIN shown = 1 .. Len(s) + 1
  BY <1>1, <1>5
<1> HIDE DEF shown
<1>7. Distinct(s)
  BY DEF MonitorInv, Pass, s
<1>8. Distinct(shown)
  <2> SUFFICES ASSUME NEW j \in DOMAIN shown, NEW k \in DOMAIN shown, shown[j] = shown[k]
               PROVE  j = k
    BY DEF Distinct
  <2>1. \A a \in DOMAIN shown : a \in DOMAIN s \/ a = Len(s) + 1
    BY <1>6
  <2>2. \A a \in DOMAIN s : shown[a] = s[a] /\ shown[a] # x
    BY <1>4, <1>5, <1>6
  <2> QED
    BY <1>5, <1>7, <2>1, <2>2 DEF Distinct
<1>9. Ran(shown) = Ran(s) \cup {x}
  <2>1. \A a \in DOMAIN s : a \in DOMAIN shown
    BY <1>6
  <2>2. \A a \in DOMAIN shown : a \in DOMAIN s \/ a = Len(s) + 1
    BY <1>6
  <2> QED
    BY <1>5, <1>6, <2>1, <2>2 DEF Ran
<1> QED
  BY <1>5, <1>6, <1>8, <1>9 DEF x, s, shown

LEMMA SeqShowInv == ASSUME MonitorInv, SeqShow PROVE MonitorInv'
<1> DEFINE m == reader.at
           h == tm[m].head
           x == <<m, h[reader.k]>>
           s == reader.shown
           shown == Append(s, x)
           last == reader.k = Len(h)
           next == IF ~ last THEN [reader EXCEPT !.k = @ + 1]
                   ELSE IF After(m) # Nobody THEN [reader EXCEPT !.at = After(m), !.k = FirstOf]
                   ELSE [reader EXCEPT !.pc = "end"]
<1>1. /\ reader.pc = "show" /\ Listed(m) /\ reader.k \in DOMAIN h
      /\ UNCHANGED <<stage, mtx, list, tm, thread, client>>
  BY DEF SeqShow
<1>20. /\ m \in Monitors /\ IndexOf(m) \in DOMAIN list /\ list[IndexOf(m)] = m
       /\ After(m) \in Monitors \cup {Nobody}
  BY <1>1, Places DEF MonitorInv
<1>21. PICK i \in DOMAIN list : i = IndexOf(m)
  BY <1>20
<1>2. /\ m \in Monitors /\ list[i] = m
      /\ After(m) \in Monitors \cup {Nobody}
  BY <1>20, <1>21
<1>3. reader' = [next EXCEPT !.pos = @ + 1, !.shown = shown]
  BY DEF SeqShow
<1>4. reader \in Read /\ reader.k \in Nat /\ reader.pos \in Nat
  BY DEF MonitorInv, Typed, Read
<1>5. /\ next \in Read /\ next.pos = reader.pos
      /\ next.pc = IF last /\ After(m) = Nobody THEN "end" ELSE "show"
      /\ next.at = IF last /\ After(m) # Nobody THEN After(m) ELSE m
      /\ next.k = IF ~ last THEN reader.k + 1 ELSE IF After(m) # Nobody THEN 1 ELSE reader.k
  <2>1. CASE ~ last
    <3> DEFINE k == reader.k + 1
    <3>1. next = [reader EXCEPT !.k = k] /\ k \in Nat
      BY <1>4, <2>1
    <3> HIDE DEF k
    <3>2. next \in Read /\ next.pos = reader.pos /\ next.pc = reader.pc
          /\ next.at = reader.at /\ next.k = k
      BY <1>4, <3>1 DEF Read
    <3> HIDE DEF next
    <3> QED
      BY <1>1, <2>1, <3>2 DEF k
  <2>2. CASE last /\ After(m) # Nobody
    BY <1>1, <1>2, <1>4, <2>2 DEF Read, FirstOf
  <2>3. CASE last /\ After(m) = Nobody
    BY <1>1, <1>4, <2>3 DEF Read
  <2> QED
    BY <2>1, <2>2, <2>3
<1> HIDE DEF next
<1>6. /\ shown \in Seq(Monitors \X Nat) /\ Distinct(shown)
      /\ DOMAIN shown = 1 .. Len(s) + 1 /\ Len(s) \in Nat /\ DOMAIN s = 1 .. Len(s)
      /\ Len(shown) = Len(s) + 1
      /\ \A a \in 1 .. Len(s) : shown[a] = s[a]
      /\ shown[Len(s) + 1] = x
      /\ Ran(shown) = Ran(s) \cup {x}
  BY <1>1, <1>2, OneShown
<1> HIDE DEF shown
<1>7. /\ reader' \in Read /\ reader'.pc = next.pc /\ reader'.at = next.at /\ reader'.k = next.k
      /\ reader'.pos = reader.pos + 1 /\ reader'.shown = shown
  <2> DEFINE p == reader.pos + 1
  <2>1. reader' = [next EXCEPT !.pos = p, !.shown = shown] /\ p \in Nat
    BY <1>3, <1>4, <1>5
  <2> HIDE DEF p
  <2>2. /\ reader' \in Read /\ reader'.pc = next.pc /\ reader'.at = next.at /\ reader'.k = next.k
        /\ reader'.pos = p /\ reader'.shown = shown
    BY <1>5, <1>6, <2>1 DEF Read
  <2> QED
    BY <2>2 DEF p
<1>8. Typed' /\ Lists' /\ Mutex'
  BY <1>1, <1>7, ReaderGoes DEF MonitorInv, Mutex
<1>9. Whole' <=> Whole
  BY <1>4, <1>6, <1>7 DEF Whole
<1>10. /\ DOMAIN list = 1 .. Len(list) /\ Len(list) \in Nat /\ i \in Nat
       /\ \A j \in DOMAIN list : j \in Nat /\ (list[j] = m => j = i)
  BY <1>2 DEF MonitorInv, Typed, Lists, Distinct
<1>11. x[1] = m /\ x[2] = h[reader.k]
  OBVIOUS
<1> HIDE DEF x
<1>12. ShownTo(i) /\ (Whole => AllTo(i))
  BY <1>1, <1>2 DEF MonitorInv, Pass
<1>13. h \in Seq(Nat) /\ DOMAIN h = 1 .. Len(h) /\ Len(h) \in Nat
  BY <1>2, SamplesFields DEF MonitorInv, Typed
<1>14. CASE ~ last
  <2>1. reader'.pc = "show" /\ reader'.at = m /\ reader'.k = reader.k + 1
    BY <1>5, <1>7, <1>14
  <2>2. ShownTo(i)'
    <3> SUFFICES ASSUME NEW a \in DOMAIN shown, NEW j \in DOMAIN list, list[j] = shown[a][1]
                 PROVE  \/ j < i
                        \/ j = i /\ \E k \in DOMAIN h : k < reader.k + 1 /\ shown[a][2] = h[k]
      BY <1>1, <1>2, <1>7, <2>1 DEF ShownTo
    <3>1. CASE a \in DOMAIN s
      <4>1. list[j] = s[a][1] /\ shown[a] = s[a]
        BY <1>6, <3>1
      <4>2. j < i \/ (j = i /\ \E k \in DOMAIN h : k < reader.k /\ s[a][2] = h[k])
        BY <1>2, <1>12, <3>1, <4>1 DEF ShownTo
      <4>3. ASSUME NEW k \in DOMAIN h, k < reader.k PROVE k < reader.k + 1
        BY <1>4, <1>13, <4>3
      <4> QED
        BY <4>1, <4>2, <4>3
    <3>2. CASE a = Len(s) + 1
      <4>1. shown[a] = x /\ reader.k < reader.k + 1
        BY <1>4, <1>6, <3>2
      <4> QED
        BY <1>1, <1>10, <1>11, <4>1
    <3> QED
      BY <1>6, <3>1, <3>2
  <2>3. Whole => AllTo(i)'
    <3> SUFFICES ASSUME Whole, NEW j \in DOMAIN list, NEW k \in DOMAIN tm[list[j]].head,
                        j < i \/ (j = i /\ k < reader.k + 1)
                 PROVE  <<list[j], tm[list[j]].head[k]>> \in Ran(shown)
      BY <1>1, <1>7, <2>1 DEF AllTo
    <3>1. CASE j < i \/ (j = i /\ k < reader.k)
      BY <1>6, <1>12, <3>1 DEF AllTo
    <3>2. CASE j = i /\ ~ (k < reader.k)
      <4>1. list[j] = m /\ k \in DOMAIN h
        BY <1>2, <3>2
      <4>2. k \in Nat /\ k < reader.k + 1
        BY <1>10, <1>13, <3>2, <4>1
      <4>3. k = reader.k
        BY <1>4, <3>2, <4>2
      <4> QED
        BY <1>6, <4>1, <4>3 DEF x
    <3> QED
      BY <1>10, <3>1, <3>2
  <2>4. Pass'
    BY <1>1, <1>6, <1>7, <1>9, <1>10, <2>1, <2>2, <2>3 DEF Pass
  <2> QED
    BY <1>8, <2>4 DEF MonitorInv
<1>15. ASSUME last, NEW j \in DOMAIN list, NEW k \in DOMAIN tm[list[j]].head, j =< i, Whole
       PROVE  <<list[j], tm[list[j]].head[k]>> \in Ran(shown)
  <2>1. CASE j < i \/ (j = i /\ k < reader.k)
    BY <1>6, <1>12, <1>15, <2>1 DEF AllTo
  <2>2. CASE j = i /\ ~ (k < reader.k)
    <3>1. k = reader.k /\ list[j] = m
      BY <1>2, <1>4, <1>10, <1>13, <1>15, <2>2
    <3> QED
      BY <1>6, <3>1 DEF x
  <2> QED
    BY <1>10, <1>15, <2>1, <2>2
<1>16. CASE last /\ After(m) # Nobody
  <2>1. reader'.pc = "show" /\ reader'.at = After(m) /\ reader'.k = 1
    BY <1>5, <1>7, <1>16
  <2>2. i + 1 \in DOMAIN list /\ After(m) = list[i + 1]
    BY <1>10, <1>16, <1>21 DEF After
  <2>3. \A j \in DOMAIN list : list[j] = After(m) => j = i + 1
    BY <2>2 DEF MonitorInv, Lists, Distinct
  <2>4. ShownTo(i + 1)'
    <3> SUFFICES ASSUME NEW a \in DOMAIN shown, NEW j \in DOMAIN list, list[j] = shown[a][1]
                 PROVE  j < i + 1
      BY <1>1, <1>7 DEF ShownTo
    <3>1. CASE a \in DOMAIN s
      <4>1. list[j] = s[a][1]
        BY <1>6, <3>1
      <4>2. j < i \/ j = i
        BY <1>2, <1>12, <3>1, <4>1 DEF ShownTo
      <4> QED
        BY <1>10, <4>2
    <3>3. a \in DOMAIN s \/ a = Len(s) + 1
      BY <1>6
    <3>2. CASE a = Len(s) + 1
      BY <1>6, <1>10, <1>11, <3>2
    <3> QED
      BY <3>1, <3>2, <3>3
  <2>5. Whole => AllTo(i + 1)'
    <3> SUFFICES ASSUME Whole, NEW j \in DOMAIN list, NEW k \in DOMAIN tm[list[j]].head,
                        j < i + 1 \/ (j = i + 1 /\ k < 1)
                 PROVE  <<list[j], tm[list[j]].head[k]>> \in Ran(shown)
      BY <1>1, <1>7, <2>1 DEF AllTo
    <3>1. \A y \in DOMAIN list : DOMAIN tm[list[y]].head \subseteq Nat \ {0}
      <4> SUFFICES ASSUME NEW y \in DOMAIN list PROVE DOMAIN tm[list[y]].head \subseteq Nat \ {0}
        OBVIOUS
      <4>1. tm[list[y]] \in Samples
        BY DEF MonitorInv, Typed
      <4> QED
        BY <4>1, SamplesFields
    <3>2. j =< i
      BY <1>10, <3>1
    <3> QED
      BY <1>15, <1>16, <3>2
  <2>6. Pass'
    BY <1>1, <1>6, <1>7, <1>9, <2>1, <2>3, <2>4, <2>5 DEF Pass
  <2> QED
    BY <1>8, <2>6 DEF MonitorInv
<1>17. CASE last /\ After(m) = Nobody
  <2>1. reader'.pc = "end"
    BY <1>5, <1>7, <1>17
  <2>2. i = Len(list)
    <3>1. \A j \in DOMAIN list : list[j] # Nobody
      BY MonitorAssumption DEF MonitorInv, Typed
    <3>2. i < Len(list) => i + 1 \in DOMAIN list /\ After(m) = list[i + 1]
      BY <1>10, <1>21 DEF After
    <3> QED
      BY <1>2, <1>10, <1>17, <3>1, <3>2
  <2>3. Whole => AllTo(Len(list) + 1)'
    <3> SUFFICES ASSUME Whole, NEW j \in DOMAIN list, NEW k \in DOMAIN tm[list[j]].head
                 PROVE  <<list[j], tm[list[j]].head[k]>> \in Ran(shown)
      BY <1>1, <1>7 DEF AllTo
    <3>1. j =< i
      BY <1>10, <2>2
    <3> QED
      BY <1>15, <1>17, <3>1
  <2>4. Pass'
    BY <1>1, <1>6, <1>7, <1>9, <2>1, <2>3 DEF Pass
  <2> QED
    BY <1>8, <2>4 DEF MonitorInv
<1> QED
  BY <1>14, <1>16, <1>17
-----------------------------------------------------------------------------
(* The shrinker.                                                           *)

LEMMA ShrinkCountInv == ASSUME MonitorInv, ShrinkCount PROVE MonitorInv'
<1> DEFINE new(m) == IF Listed(m) THEN [tm[m] EXCEPT !.to_shrink = Excess(tm[m].count)] ELSE tm[m]
<1>1. /\ tm' = [m \in Monitors |-> new(m)]
      /\ UNCHANGED <<stage, mtx, list, thread, client, reader>>
  BY DEF ShrinkCount
<1>2. ASSUME NEW m \in Monitors
      PROVE  new(m) \in Samples /\ Newest(new(m)) /\ new(m).head = tm[m].head
  <2> DEFINE e == Excess(tm[m].count)
             q == [tm[m] EXCEPT !.to_shrink = e]
  <2>1. tm[m] \in Samples /\ Newest(tm[m]) /\ tm[m].count \in Nat
    BY SamplesFields DEF MonitorInv, Typed, Lists
  <2>2. e \in Nat
    BY <2>1, MonitorAssumption DEF Excess
  <2> HIDE DEF e
  <2>3. /\ q \in Samples /\ q.head = tm[m].head /\ q.num = tm[m].num /\ q.count = tm[m].count
    BY <2>1, <2>2 DEF Samples
  <2>4. new(m) = q \/ new(m) = tm[m]
    BY DEF e
  <2> HIDE DEF q
  <2>5. Newest(q)
    BY <2>1, <2>3 DEF Newest
  <2> QED
    BY <2>1, <2>3, <2>4, <2>5
<1> HIDE DEF new
<1>3. Typed' /\ Lists' /\ Mutex'
  BY <1>1, <1>2 DEF MonitorInv, Typed, Lists, Mutex
<1>4. \A m \in Monitors : tm'[m].head = tm[m].head
  BY <1>1, <1>2
<1> QED
  BY <1>1, <1>3, <1>4, PassStays DEF MonitorInv

LEMMA ShrinkScanInv == ASSUME MonitorInv, ShrinkScan PROVE MonitorInv'
<1>1. /\ tm' = [m \in Monitors |-> IF Listed(m) THEN Shrunk(tm[m]) ELSE tm[m]]
      /\ mtx = Nobody /\ UNCHANGED <<stage, mtx, list, thread, client, reader>>
  BY DEF ShrinkScan
<1>2. \A m \in Monitors : tm[m] \in Samples /\ Newest(tm[m])
  BY DEF MonitorInv, Typed, Lists
<1>3. \A m \in Monitors : Shrunk(tm[m]) \in Samples /\ Newest(Shrunk(tm[m]))
  BY <1>2, ShrunkNewest
<1>4. \A m \in Monitors : tm'[m] = Shrunk(tm[m]) \/ tm'[m] = tm[m]
  BY <1>1
<1>5. \A m \in Monitors : tm'[m] \in Samples /\ Newest(tm'[m])
  BY <1>2, <1>3, <1>4
<1>6. tm' = [m \in Monitors |-> tm'[m]]
  BY <1>1
<1>7. Typed' /\ Lists' /\ Mutex'
  BY <1>1, <1>5, <1>6 DEF MonitorInv, Typed, Lists, Mutex
<1>8. reader.pc = "idle"
  BY <1>1, MonitorAssumption DEF MonitorInv, Mutex
<1> QED
  BY <1>1, <1>7, <1>8, PassIdle DEF MonitorInv
-----------------------------------------------------------------------------
(* The sysfs file, and tm_init and tm_exit.                                *)

\* kthread_run and kthread_stop bring no thread under the mutex.
LEMMA RunKeeps ==
  ASSUME MonitorInv, NEW t \in Threads, Run(t)
  PROVE  /\ thread' \in [Threads -> Thread]
         /\ \A u \in Threads : thread'[u].pc = "in" => thread[u].pc = "in"
<1> DEFINE x == [NoThread EXCEPT !.pc = "top"]
<1>1. x \in Thread /\ x.pc = "top" /\ thread' = [thread EXCEPT ![t] = x]
  BY DEF Run, NoThread, Thread
<1> HIDE DEF x
<1> QED
  BY <1>1, ThreadGoes

LEMMA StoppingKeeps ==
  ASSUME MonitorInv, NEW c, Stopping(c)
  PROVE  /\ thread' \in [Threads -> Thread]
         /\ \A u \in Threads : thread'[u].pc = "in" => thread[u].pc = "in"
<1>1. thread \in [Threads -> Thread] /\ thread' = [thread EXCEPT ![kt].stop = TRUE]
  BY DEF MonitorInv, Typed, Stopping
<1>2. CASE kt \in Threads
  <2> DEFINE x == [thread[kt] EXCEPT !.stop = TRUE]
  <2>1. x \in Thread /\ x.pc = thread[kt].pc /\ thread' = [thread EXCEPT ![kt] = x]
    BY <1>1, <1>2 DEF Thread
  <2> HIDE DEF x
  <2> QED
    BY <1>2, <2>1, ThreadGoes
<1>3. CASE kt \notin Threads
  <2>1. thread' = thread
    BY <1>1, <1>3
  <2> QED
    BY <1>1, <2>1
<1> QED
  BY <1>2, <1>3

\* A stage of the module begins.
LEMMA StageGoes ==
  ASSUME MonitorInv, UNCHANGED <<list, tm, client, reader>>, mtx' = mtx,
         thread' \in [Threads -> Thread],
         \A t \in Threads : thread'[t].pc = "in" => thread[t].pc = "in",
         stage' \in {"absent", "visible", "starting", "failing"} => mtx = "null",
         stage' # "unlocked",
         reader.pc # "idle" => stage' = "ready"
  PROVE  MonitorInv'
<1>1. Typed' /\ Lists' /\ Mutex'
  BY DEF MonitorInv, Typed, Lists, Mutex
<1>2. Pass'
  BY PassStays
<1> QED
  BY <1>1, <1>2 DEF MonitorInv

LEMMA ModuleInv ==
  ASSUME MonitorInv,
         \/ InitSysfs \/ InitThread \/ InitMutex \/ InitFails
         \/ ExitBegin \/ ExitNoThread \/ ExitFree \/ ExitEnd
  PROVE  MonitorInv'
<1>1. thread \in [Threads -> Thread] /\ reader \in Read
  BY DEF MonitorInv, Typed
<1>2. CASE InitSysfs
  <2>1. /\ stage = "absent" /\ stage' = "visible"
        /\ UNCHANGED <<mtx, list, tm, thread, client, reader>>
    BY <1>2 DEF InitSysfs
  <2> QED
    BY <1>1, <2>1, StageGoes DEF MonitorInv, Mutex
<1>3. CASE InitThread
  <2>1. /\ stage = "visible" /\ stage' = "starting"
        /\ UNCHANGED <<mtx, list, tm, client, reader>>
    BY <1>3 DEF InitThread
  <2>2. /\ thread' \in [Threads -> Thread]
        /\ \A u \in Threads : thread'[u].pc = "in" => thread[u].pc = "in"
    BY <1>3, RunKeeps DEF InitThread
  <2> QED
    BY <2>1, <2>2, StageGoes DEF MonitorInv, Mutex
<1>4. CASE InitMutex
  <2>1. /\ stage = "starting" /\ stage' = "ready" /\ mtx' = Nobody
        /\ UNCHANGED <<list, tm, thread, client, reader>>
    BY <1>4 DEF InitMutex
  <2>2. reader.pc = "idle" /\ \A t \in Threads : thread[t].pc # "in"
    BY <2>1, MonitorAssumption DEF MonitorInv, Mutex
  <2>3. Typed' /\ Lists' /\ Mutex'
    BY <2>1, <2>2 DEF MonitorInv, Typed, Lists, Mutex
  <2> QED
    BY <2>1, <2>2, <2>3, PassIdle DEF MonitorInv
<1>5. CASE InitFails
  <2>1. /\ stage = "starting" /\ stage' = "failing"
        /\ UNCHANGED <<mtx, list, tm, client, reader>> /\ Stopping(Module)
    BY <1>5 DEF InitFails, StopForModule
  <2> QED
    BY <2>1, StoppingKeeps, StageGoes DEF MonitorInv, Mutex
<1>6. CASE ExitBegin
  <2>1. /\ stage = "ready" /\ stage' = "stopping" /\ reader.pc = "idle"
        /\ UNCHANGED <<mtx, list, tm, client, reader>> /\ Stopping(Module)
    BY <1>6 DEF ExitBegin, StopForModule, AllClosed, NoRead
  <2> QED
    BY <2>1, StoppingKeeps, StageGoes
<1>7. CASE ExitNoThread
  <2>1. /\ stage = "ready" /\ stage' = "stopping" /\ reader.pc = "idle"
        /\ UNCHANGED <<mtx, list, tm, thread, client, reader>>
    BY <1>7 DEF ExitNoThread, AllClosed, NoRead
  <2> QED
    BY <1>1, <2>1, StageGoes
<1>8. CASE ExitFree
  <2>1. /\ stage = "stopping" /\ stage' = "unlocked" /\ mtx = Nobody /\ mtx' = "freed"
        /\ list' = <<>> /\ tm' = [m \in Monitors |-> NoMonitor]
        /\ UNCHANGED <<thread, client, reader>>
    BY <1>8 DEF ExitFree
  <2>2. reader.pc = "idle" /\ \A t \in Threads : thread[t].pc # "in"
    BY <2>1, MonitorAssumption DEF MonitorInv, Mutex
  <2>3. Typed' /\ Lists' /\ Mutex'
    BY <2>1, <2>2, NoMonitorNewest DEF MonitorInv, Typed, Lists, Mutex, Distinct
  <2> QED
    BY <2>1, <2>2, <2>3, PassIdle DEF MonitorInv
<1>9. CASE ExitEnd
  <2>1. /\ stage \in {"failing", "unlocked"} /\ stage' = "absent" /\ mtx' = "null"
        /\ \A t \in Threads : thread[t].pc = "none"
        /\ UNCHANGED <<list, tm, thread, client, reader>>
    BY <1>9 DEF ExitEnd
  <2>2. reader.pc = "idle"
    BY <2>1 DEF MonitorInv, Mutex
  <2>3. Typed' /\ Lists' /\ Mutex'
    BY <2>1, <2>2 DEF MonitorInv, Typed, Lists, Mutex
  <2> QED
    BY <2>1, <2>2, <2>3, PassIdle DEF MonitorInv
<1> QED
  BY <1>2, <1>3, <1>4, <1>5, <1>6, <1>7, <1>8, <1>9

LEMMA StoreInv ==
  ASSUME MonitorInv, NEW c,
         StoreStart(c) \/ Start(c) \/ StoreStop(c) \/ Stop(c)
  PROVE  MonitorInv'
<1>1. UNCHANGED <<stage, mtx, list, tm, client, reader>>
  BY DEF StoreStart, Start, StoreStop, Stop
<1>2. Writes(client')
  BY <1>1 DEF MonitorInv, Typed
<1>3. /\ thread' \in [Threads -> Thread]
      /\ \A u \in Threads : thread'[u].pc = "in" => thread[u].pc = "in"
  <2>1. CASE StoreStart(c) \/ Stop(c)
    BY <2>1 DEF StoreStart, Stop, MonitorInv, Typed
  <2>2. CASE Start(c)
    BY <2>2, RunKeeps DEF Start
  <2>3. CASE StoreStop(c)
    BY <2>3, StoppingKeeps DEF StoreStop
  <2> QED
    BY <2>1, <2>2, <2>3
<1> QED
  BY <1>1, <1>2, <1>3, StaysInv

\* A process dies, or the machine has stopped.
LEMMA NothingInv ==
  ASSUME MonitorInv, (\E p \in Pids : Die(p)) \/ UNCHANGED vars
  PROVE  MonitorInv'
<1>1. UNCHANGED <<stage, mtx, list, tm, thread, client, reader>>
  BY DEF Die, vars
<1>2. thread' \in [Threads -> Thread] /\ Writes(client')
  BY <1>1 DEF MonitorInv, Typed
<1> QED
  BY <1>1, <1>2, StaysInv

\* Every step keeps it all.
LEMMA MonitorStep == MonitorInv /\ [Next]_vars => MonitorInv'
<1> SUFFICES ASSUME MonitorInv, [Next]_vars PROVE MonitorInv'
  OBVIOUS
<1>1. CASE (\E p \in Pids : Die(p)) \/ Oops \/ UNCHANGED vars
  BY <1>1, NothingInv DEF Oops
<1>2. ASSUME NEW t \in Threads, ThreadStep(t) \/ LockThread(t)
      PROVE  MonitorInv'
  BY <1>2, TopInv, SampleInv, UnlockThreadInv, LockThreadInv, BreaksInv
     DEF ThreadStep, LockNothing, SampleFreed
<1>3. CASE \E c \in Clients, p \in Pids, cmd \in {"add", "remove"} : Search(c, p, cmd)
  BY <1>3, SearchInv
<1>4. CASE \E c \in Clients : Take(c) \/ TakeFreed(c) \/ Add(c) \/ AddNoProcess(c)
  BY <1>4, TakeInv, AddInv, AddNoProcessInv, BreaksInv DEF TakeFreed
<1>5. CASE SeqStart \/ ReaderStep \/ SeqFull \/ TooEarly
  BY <1>5, SeqStartInv, SeqShowInv, SeqFullInv, SeqStopInv, BreaksInv
     DEF ReaderStep, SeqShowNothing, TooEarly
<1>6. CASE ShrinkCount \/ ShrinkScan \/ ShrinkNothing
  BY <1>6, ShrinkCountInv, ShrinkScanInv, BreaksInv DEF ShrinkNothing
<1>7. CASE \E c \in Controllers : StoreStart(c) \/ Start(c) \/ StoreStop(c) \/ StoreStopGone(c)
  BY <1>7, StoreInv, BreaksInv DEF StoreStopGone
<1>8. CASE \E c \in Controllers \cup {Module} : Stop(c)
  BY <1>8, StoreInv
<1>9. CASE \/ InitSysfs \/ InitThread \/ InitMutex \/ InitFails
           \/ ExitBegin \/ ExitNoThread \/ ExitFree \/ ExitEnd
  BY <1>9, ModuleInv
<1>10. CASE StopForModuleGone \/ ExitLeaves
  BY <1>10, BreaksInv DEF StopForModuleGone, ExitLeaves
<1> QED
  BY <1>1, <1>2, <1>3, <1>4, <1>5, <1>6, <1>7, <1>8, <1>9, <1>10 DEF Next

LEMMA MonitorAlways == Spec => []MonitorInv
<1>1. Spec => Init /\ [][Next]_vars
  BY DEF Spec
<1> QED
  BY <1>1, MonitorInit, MonitorStep, PTL

\* Whatever the shrinker drops and whoever removes monitors beside it, a
\* monitor has its newest samples, without a gap, and counts no fewer.
THEOREM MonitorNewestKept == Spec => []NewestKept
<1>1. MonitorInv => NewestKept
  <2> SUFFICES ASSUME MonitorInv, NEW m \in Ran(list)
               PROVE  /\ \A k \in DOMAIN tm[m].head :
                           tm[m].head[k] = tm[m].num - Len(tm[m].head) + k - 1
                      /\ tm[m].count >= Len(tm[m].head)
    BY DEF NewestKept
  <2>1. m \in Monitors
    BY DEF MonitorInv, Typed, Ran
  <2> QED
    BY <2>1 DEF MonitorInv, Lists, Newest
<1> QED
  BY <1>1, MonitorAlways, PTL

\* A pass that was not interrupted has shown every sample, and none twice.
THEOREM MonitorPassComplete == Spec => []PassComplete
<1>1. MonitorInv => PassComplete
  <2> SUFFICES ASSUME MonitorInv, reader.pc = "end", Whole
               PROVE  /\ \A m \in Ran(list) : \A k \in DOMAIN tm[m].head :
                           <<m, tm[m].head[k]>> \in Ran(reader.shown)
                      /\ Cardinality(Ran(reader.shown)) = Len(reader.shown)
    BY DEF PassComplete, Whole
  <2>1. AllTo(Len(list) + 1) /\ DOMAIN list = 1 .. Len(list) /\ Len(list) \in Nat
    BY DEF MonitorInv, Typed, Pass
  <2>2. ASSUME NEW m \in Ran(list), NEW k \in DOMAIN tm[m].head
        PROVE  <<m, tm[m].head[k]>> \in Ran(reader.shown)
    <3>1. PICK j \in DOMAIN list : m = list[j]
      BY DEF Ran
    <3>2. j < Len(list) + 1
      BY <2>1
    <3> QED
      BY <2>1, <3>1, <3>2 DEF AllTo
  <2>4. reader.shown \in Seq(Monitors \X Nat)
    BY DEF MonitorInv, Typed, Read
  <2>3. Cardinality(Ran(reader.shown)) = Len(reader.shown)
    <3> DEFINE s == reader.shown
    <3>1. DOMAIN s = 1 .. Len(s) /\ Len(s) \in Nat /\ Distinct(s)
      BY DEF MonitorInv, Typed, Read, Pass
    <3> HIDE DEF s
    <3>2. ExistsBijection(1 .. Len(s), Ran(s))
      <4>1. s \in [1 .. Len(s) -> Ran(s)]
        BY <2>4, <3>1 DEF Ran, s
      <4>2. s \in Injection(1 .. Len(s), Ran(s))
        BY <3>1, <4>1 DEF Injection, IsInjective, Distinct
      <4>3. s \in Surjection(1 .. Len(s), Ran(s))
        BY <3>1, <4>1 DEF Surjection, Ran
      <4> QED
        BY <4>2, <4>3 DEF ExistsBijection, Bijection
    <3>3. IsFiniteSet(1 .. Len(s)) /\ Cardinality(1 .. Len(s)) = Len(s)
      <4> DEFINE n == Len(s)
      <4>1. n \in Nat
        BY <3>1
      <4> HIDE DEF n
      <4>2. IsFiniteSet(1 .. n) /\ Cardinality(1 .. n) = IF 1 > n THEN 0 ELSE n - 1 + 1
        BY <4>1, FS_Interval
      <4> QED
        BY <4>1, <4>2 DEF n
    <3> QED
      BY <3>1, <3>2, <3>3, FS_Bijection DEF s
  <2> QED
    BY <2>2, <2>3
<1> QED
  BY <1>1, MonitorAlways, PTL
=============================================================================
