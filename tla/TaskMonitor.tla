----------------------------- MODULE TaskMonitor -----------------------------
(***************************************************************************)
(* The task monitor of lab 6 (labs/6/harena/task_monitor.c): a kernel      *)
(* thread that samples the processes of a list, a debugfs file that adds   *)
(* and removes processes and lists the samples, a sysfs file that starts   *)
(* and stops the thread, and a shrinker that drops old samples.            *)
(*                                                                         *)
(* mtx_taskmonitor protects the list, but not everywhere.  Where the code  *)
(* uses memory that is not there (yet, or any more), "broken" is set and   *)
(* nothing more is said of the machine.  A monitor and a sample have one   *)
(* reference, so that putting it frees them.                               *)
(***************************************************************************)
EXTENDS Integers, FiniteSets, SequencesExt

CONSTANTS
  Pids,         \* processes that are monitored
  Monitors,     \* addresses of struct task_monitor
  Threads,      \* the threads that kthread_run can give
  Clients,      \* processes that write to the debugfs file
  Controllers,  \* processes that write to the sysfs file
  Reader,       \* the process that reads the debugfs file
  Module,       \* the process that runs tm_init or tm_exit
  Nobody,       \* no process, no thread, no monitor
  Fit,          \* the samples that make up a page: PAGE_SIZE / SIZE, rounded up
  MaxNum        \* bound: with so many samples of a process, the threads sleep

ASSUME MonitorAssumption ==
  /\ Fit \in Nat \ {0} /\ MaxNum \in Nat
  /\ Nobody \notin Pids \cup Monitors \cup Threads \cup Clients \cup Controllers \cup {Reader, Module}
  /\ Threads # {} /\ Reader \notin Threads /\ Module \notin Controllers
  /\ {"null", "freed"} \cap (Threads \cup {Reader, Nobody}) = {}

VARIABLES
  stage,    \* how far tm_init or tm_exit has come
  mtx,      \* mtx_taskmonitor: "null", "freed", or who holds it (or Nobody)
  list,     \* head_taskmonitor
  tm,       \* the monitors: pid, head (the samples), count, num, to_shrink
  alive,    \* the processes that live
  thread,   \* where each sampling thread is, at which monitor, told to stop
  kt,       \* ktmonitor_thread
  client,   \* a write to the debugfs file between its two parts
  control,  \* a write to the sysfs file, or the module, between its two parts:
            \* the thread that kthread_stop waits for
  reader,   \* a read of the debugfs file: seq_file's position, the sample it is
            \* at, and the samples shown since it took the mutex
  broken    \* memory has been used that is not there

vars == <<stage, mtx, list, tm, alive, thread, kt, client, control, reader, broken>>

Stages == {"absent", "visible", "starting", "ready", "failing", "stopping", "unlocked"}
NoMonitor == [pid |-> Nobody, head |-> <<>>, count |-> 0, num |-> 0, to_shrink |-> 0]
NoThread == [pc |-> "none", at |-> Nobody, stop |-> FALSE]
NoWrite == [pc |-> "idle", pid |-> Nobody, tm |-> Nobody]
NoControl == [pc |-> "idle", at |-> Nobody]
NoRead == [pc |-> "idle", pos |-> 0, at |-> Nobody, k |-> 0, shown |-> <<>>]

Ran(s) == {s[k] : k \in DOMAIN s}
Listed(m) == m \in Ran(list)
IndexOf(m) == CHOOSE k \in DOMAIN list : list[k] = m
After(m) == IF IndexOf(m) < Len(list) THEN list[IndexOf(m) + 1] ELSE Nobody
Without(m) == RemoveAt(list, IndexOf(m))

\* A mutex that is not there is used: the null pointer, or freed memory.
NoMutex == mtx \in {"null", "freed"}

Init ==
  /\ stage = "absent" /\ mtx = "null"
  /\ list = <<>> /\ tm = [m \in Monitors |-> NoMonitor]
  /\ alive = Pids
  /\ thread = [t \in Threads |-> NoThread] /\ kt = Nobody
  /\ client = [c \in Clients |-> NoWrite]
  /\ control = [c \in Controllers \cup {Module} |-> NoControl]
  /\ reader = NoRead
  /\ broken = FALSE

\* What the machine does from here on is of no interest.
Breaks ==
  /\ broken' = TRUE
  /\ stage' = "absent" /\ mtx' = "null"
  /\ list' = <<>> /\ tm' = [m \in Monitors |-> NoMonitor]
  /\ alive' = Pids
  /\ thread' = [t \in Threads |-> NoThread] /\ kt' = Nobody
  /\ client' = [c \in Clients |-> NoWrite]
  /\ control' = [c \in Controllers \cup {Module} |-> NoControl]
  /\ reader' = NoRead

\* Of a process that is no longer there, the memory map that a sample points
\* to may be anything.
Die(p) ==
  /\ ~ broken /\ p \in alive
  /\ alive' = alive \ {p}
  /\ UNCHANGED <<stage, mtx, list, tm, thread, kt, client, control, reader, broken>>
-----------------------------------------------------------------------------
(* The sampling thread                                                     *)

\* kthread_run.  The thread that a kthread_stop waits for is not given again.
Run(t) ==
  /\ thread[t].pc = "none" /\ \A c \in DOMAIN control : control[c].at # t
  /\ thread' = [thread EXCEPT ![t] = [NoThread EXCEPT !.pc = "top"]]
  /\ kt' = t

\* Slip: the thread looks at the command instead of whether it should stop.
NextTopNever(t) == "lock"

\* kthread_should_stop
NextTop(t) == IF thread[t].stop THEN "none" ELSE "lock"

\* The thread wakes up; at the bound it only does so to stop.
Top(t) ==
  /\ ~ broken /\ thread[t].pc = "top"
  /\ thread[t].stop \/ \A m \in Ran(list) : tm[m].num < MaxNum
  /\ thread' = [thread EXCEPT ![t].pc = NextTop(t), ![t].stop = @ /\ NextTop(t) # "none"]
  /\ UNCHANGED <<stage, mtx, list, tm, alive, kt, client, control, reader, broken>>

LockThread(t) ==
  /\ ~ broken /\ thread[t].pc = "lock" /\ mtx = Nobody
  /\ mtx' = t
  /\ thread' = [thread EXCEPT ![t].pc = "in",
                              ![t].at = IF list = <<>> THEN Nobody ELSE list[1]]
  /\ UNCHANGED <<stage, list, tm, alive, kt, client, control, reader, broken>>

\* tm_init starts the thread before it allocates the mutex.
LockNothing(t) ==
  /\ ~ broken /\ thread[t].pc = "lock" /\ NoMutex
  /\ Breaks

\* Slip: the new sample goes to the front of the list.
AddedFirst(s, n) == <<n>> \o s

\* list_add_tail
Added(s, n) == Append(s, n)

\* save_sample for a process that lives.
Sample(t) ==
  /\ ~ broken /\ thread[t].pc = "in"
  /\ LET m == thread[t].at
     IN  /\ m # Nobody /\ Listed(m)
         /\ tm[m].pid \in alive
         /\ tm' = [tm EXCEPT ![m] = [tm[m] EXCEPT !.head = Added(@, tm[m].num),
                                                  !.num = @ + 1, !.count = @ + 1]]
         /\ thread' = [thread EXCEPT ![t].at = After(m)]
  /\ UNCHANGED <<stage, mtx, list, alive, kt, client, control, reader, broken>>

\* The monitor was removed meanwhile; or the process is dead, save_sample
\* frees its monitor, and list_for_each goes on from the freed one.
SampleFreed(t) ==
  /\ ~ broken /\ thread[t].pc = "in"
  /\ LET m == thread[t].at
     IN  m # Nobody /\ (Listed(m) => tm[m].pid \notin alive)
  /\ Breaks

UnlockThread(t) ==
  /\ ~ broken /\ thread[t].pc = "in" /\ thread[t].at = Nobody
  /\ mtx' = Nobody
  /\ thread' = [thread EXCEPT ![t].pc = "top"]
  /\ UNCHANGED <<stage, list, tm, alive, kt, client, control, reader, broken>>
-----------------------------------------------------------------------------
(* The debugfs file: write.  The list is searched under the mutex, and what *)
(* was found is used after the mutex was released.                          *)

\* Opening the file fails once the module is going away.
Opens == stage \in {"starting", "ready"}

\* The file is there before the mutex and the pool of monitors.
TooEarly ==
  /\ ~ broken /\ Opens /\ NoMutex
  /\ Breaks

Search(c, p, cmd) ==
  /\ ~ broken /\ Opens /\ client[c].pc = "idle" /\ mtx = Nobody
  /\ LET found == {m \in Ran(list) : tm[m].pid = p}
         at == IF found = {} THEN Nobody
               ELSE list[CHOOSE k \in DOMAIN list :
                           list[k] \in found /\ \A j \in 1 .. k - 1 : list[j] \notin found]
     IN  /\ IF cmd = "remove" THEN found # {} ELSE found = {}
         /\ client' = [client EXCEPT ![c] = [pc |-> cmd, pid |-> p, tm |-> IF cmd = "add" THEN Nobody ELSE at]]
  /\ UNCHANGED <<stage, mtx, list, tm, alive, thread, kt, control, reader, broken>>

\* kref_put, and release_taskmonitor with it: the samples, then the monitor, as
\* one step.  The code holds no lock between them; what others do with a monitor
\* that is half released is not covered.
Take(c) ==
  /\ ~ broken /\ client[c].pc = "remove" /\ Listed(client[c].tm)
  /\ list' = Without(client[c].tm)
  /\ tm' = [tm EXCEPT ![client[c].tm] = NoMonitor]
  /\ client' = [client EXCEPT ![c] = NoWrite]
  /\ UNCHANGED <<stage, mtx, alive, thread, kt, control, reader, broken>>

\* Someone else has removed it since.
TakeFreed(c) ==
  /\ ~ broken /\ client[c].pc = "remove" /\ ~ Listed(client[c].tm)
  /\ Breaks

Add(c) ==
  /\ ~ broken /\ client[c].pc = "add" /\ mtx = Nobody
  /\ client[c].pid \in alive
  /\ \E m \in Monitors \ Ran(list) :
       /\ tm' = [tm EXCEPT ![m] = [NoMonitor EXCEPT !.pid = client[c].pid]]
       /\ list' = Append(list, m)
  /\ client' = [client EXCEPT ![c] = NoWrite]
  /\ UNCHANGED <<stage, mtx, alive, thread, kt, control, reader, broken>>

\* There is no such process: the error path puts a reference that was never
\* set, and what it does depends on what the memory held.
AddNoProcess(c) ==
  /\ ~ broken /\ client[c].pc = "add" /\ client[c].pid \notin alive
  /\ \/ Breaks
     \/ /\ client' = [client EXCEPT ![c] = NoWrite]
        /\ UNCHANGED <<stage, mtx, list, tm, alive, thread, kt, control, reader, broken>>
-----------------------------------------------------------------------------
(* The debugfs file: read.  seq_file calls start, then show and next until  *)
(* it has what it wants, then stop.  The position it starts from is that of *)
(* a monitor; the position it goes on with counts samples.  When there is   *)
(* nothing at the position, the reader closes the file.                     *)

SeqStart ==
  /\ ~ broken /\ Opens /\ reader.pc = "idle" /\ mtx = Nobody
  /\ mtx' = Reader
  /\ reader' = IF reader.pos >= Len(list) THEN [NoRead EXCEPT !.pc = "stop"]
               ELSE [reader EXCEPT !.pc = "show", !.at = list[reader.pos + 1], !.k = 1]
  /\ UNCHANGED <<stage, list, tm, alive, thread, kt, client, control, broken>>

\* Slip: the first sample of the next monitor is passed over.
FirstOfSecond == 2

\* taskmonitor_seq_next goes to head->next of the next monitor.
FirstOf == 1

\* show, then next.
SeqShow ==
  /\ ~ broken /\ reader.pc = "show"
  /\ Listed(reader.at) /\ reader.k \in DOMAIN tm[reader.at].head
  /\ LET m == reader.at
         last == reader.k = Len(tm[m].head)
         shown == Append(reader.shown, <<m, tm[m].head[reader.k]>>)
         after == After(m)
         next == IF ~ last THEN [reader EXCEPT !.k = @ + 1]
                 ELSE IF after # Nobody THEN [reader EXCEPT !.at = after, !.k = FirstOf]
                 ELSE [reader EXCEPT !.pc = "end"]
     IN  reader' = [next EXCEPT !.pos = @ + 1, !.shown = shown]
  /\ UNCHANGED <<stage, mtx, list, tm, alive, thread, kt, client, control, broken>>

\* The buffer of the reader is full.
SeqFull ==
  /\ ~ broken /\ reader.pc = "show" /\ reader.shown # <<>>
  /\ reader' = [reader EXCEPT !.pc = "stop"]
  /\ UNCHANGED <<stage, mtx, list, tm, alive, thread, kt, client, control, broken>>

\* The list of a monitor is empty, so that its head is taken for a sample; the
\* monitor was removed; or the memory map of a dead process is read.
SeqShowNothing ==
  /\ ~ broken /\ reader.pc = "show"
  /\ \/ ~ Listed(reader.at)
     \/ Listed(reader.at) /\ reader.k \notin DOMAIN tm[reader.at].head
     \/ Listed(reader.at) /\ tm[reader.at].pid \notin alive
  /\ Breaks

SeqStop ==
  /\ ~ broken /\ reader.pc \in {"stop", "end"}
  /\ mtx' = Nobody
  /\ reader' = [NoRead EXCEPT !.pos = reader.pos]
  /\ UNCHANGED <<stage, list, tm, alive, thread, kt, client, control, broken>>
-----------------------------------------------------------------------------
(* The shrinker                                                            *)

\* count(): the samples that do not fit in a page.
Excess(n) == IF n < Fit THEN 0 ELSE n - Fit

ShrinkCount ==
  /\ ~ broken /\ stage \notin {"absent", "visible"}
  /\ tm' = [m \in Monitors |->
              IF Listed(m) THEN [tm[m] EXCEPT !.to_shrink = Excess(tm[m].count)] ELSE tm[m]]
  /\ UNCHANGED <<stage, mtx, list, alive, thread, kt, client, control, reader, broken>>

\* shrink_scan_task_monitor: a sample is put before the number is compared.
Shrunk(r) ==
  IF Len(r.head) > r.to_shrink
  THEN [r EXCEPT !.head = SubSeq(r.head, r.to_shrink + 2, Len(r.head)),
                 !.count = @ - r.to_shrink, !.to_shrink = 0]
  ELSE [r EXCEPT !.head = <<>>]

\* The kernel scans when something was announced (once, a bound).
Due == \E m \in Ran(list) : tm[m].to_shrink > 0

ShrinkScan ==
  /\ ~ broken /\ stage \notin {"absent", "visible"} /\ mtx = Nobody /\ Due
  /\ tm' = [m \in Monitors |-> IF Listed(m) THEN Shrunk(tm[m]) ELSE tm[m]]
  /\ UNCHANGED <<stage, mtx, list, alive, thread, kt, client, control, reader, broken>>

\* The count came before tm_exit emptied the list, the scan after it freed the
\* mutex.
ShrinkNothing ==
  /\ ~ broken /\ stage = "unlocked"
  /\ Breaks
-----------------------------------------------------------------------------
(* The sysfs file, and tm_init and tm_exit                                 *)

\* The test of ktmonitor_thread comes before the call that changes it.
StoreStart(c) ==
  /\ ~ broken /\ stage # "absent" /\ control[c].pc = "idle" /\ kt = Nobody
  /\ control' = [control EXCEPT ![c].pc = "start"]
  /\ UNCHANGED <<stage, mtx, list, tm, alive, thread, kt, client, reader, broken>>

Start(c) ==
  /\ ~ broken /\ control[c].pc = "start"
  /\ \E t \in Threads : Run(t)
  /\ control' = [control EXCEPT ![c] = NoControl]
  /\ UNCHANGED <<stage, mtx, list, tm, alive, client, reader, broken>>

\* kthread_stop, for a thread that has not left.
Stopping(c) ==
  /\ thread' = [thread EXCEPT ![kt].stop = TRUE]
  /\ control' = [control EXCEPT ![c] = [pc |-> "stop", at |-> kt]]

StoreStop(c) ==
  /\ ~ broken /\ stage # "absent" /\ control[c].pc = "idle"
  /\ kt # Nobody /\ thread[kt].pc # "none"
  /\ Stopping(c)
  /\ UNCHANGED <<stage, mtx, list, tm, alive, kt, client, reader, broken>>

\* Another kthread_stop has returned and the pointer is still there: the task
\* of the thread may be freed.
StoreStopGone(c) ==
  /\ ~ broken /\ stage # "absent" /\ control[c].pc = "idle"
  /\ kt # Nobody /\ thread[kt].pc = "none"
  /\ Breaks

\* kthread_stop returns when its thread has left.
Stop(c) ==
  /\ ~ broken /\ control[c].pc = "stop" /\ thread[control[c].at].pc = "none"
  /\ kt' = IF c = Module THEN kt ELSE Nobody
  /\ control' = [control EXCEPT ![c] = NoControl]
  /\ UNCHANGED <<stage, mtx, list, tm, alive, thread, client, reader, broken>>

\* The file of sysfs comes first, then the thread, then all that it uses.
InitSysfs ==
  /\ ~ broken /\ stage = "absent"
  /\ stage' = "visible"
  /\ UNCHANGED <<mtx, list, tm, alive, thread, kt, client, control, reader, broken>>

InitThread ==
  /\ ~ broken /\ stage = "visible"
  /\ stage' = "starting"
  /\ \E t \in Threads : Run(t)
  /\ UNCHANGED <<mtx, list, tm, alive, client, control, reader, broken>>

InitMutex ==
  /\ ~ broken /\ stage = "starting"
  /\ stage' = "ready" /\ mtx' = Nobody
  /\ UNCHANGED <<list, tm, alive, thread, kt, client, control, reader, broken>>

\* kthread_stop by the module.
StopForModule(from, to) ==
  /\ ~ broken /\ stage = from /\ stage' = to
  /\ kt # Nobody /\ thread[kt].pc # "none" /\ Stopping(Module)
  /\ UNCHANGED <<mtx, list, tm, alive, kt, client, reader, broken>>

\* A later step of tm_init fails.
InitFails == StopForModule("starting", "failing")

\* rmmod waits for the files that are open.
AllClosed == reader = NoRead /\ \A c \in Clients : client[c].pc = "idle"

ExitBegin == AllClosed /\ StopForModule("ready", "stopping")

ExitNoThread ==
  /\ ~ broken /\ stage = "ready" /\ AllClosed /\ kt = Nobody
  /\ stage' = "stopping"
  /\ UNCHANGED <<mtx, list, tm, alive, thread, kt, client, control, reader, broken>>

\* The error path of tm_init does not look whether there is a thread to stop;
\* and the pointer may be that of a thread that has left.
StopForModuleGone ==
  /\ ~ broken
  /\ \/ stage = "starting" /\ kt = Nobody
     \/ stage \in {"starting", "ready"} /\ kt # Nobody /\ thread[kt].pc = "none"
  /\ Breaks

ExitFree ==
  /\ ~ broken /\ stage = "stopping" /\ mtx = Nobody
  /\ control[Module].pc = "idle"
  /\ list' = <<>> /\ tm' = [m \in Monitors |-> NoMonitor]
  /\ stage' = "unlocked" /\ mtx' = "freed"
  /\ UNCHANGED <<alive, thread, kt, client, control, reader, broken>>

\* sysfs_remove_file waits for the calls of store_cmd that are under way; the
\* shrinker is unregistered, the caches and the debugfs file go.
ExitEnd ==
  /\ ~ broken /\ stage \in {"failing", "unlocked"}
  /\ \A c \in DOMAIN control : control[c].pc = "idle"
  /\ \A t \in Threads : thread[t].pc = "none"
  /\ stage' = "absent" /\ mtx' = "null"
  /\ kt' = Nobody
  /\ UNCHANGED <<list, tm, alive, thread, client, control, reader, broken>>

\* A thread that was started since tm_exit stopped the other one is left
\* behind: its code is gone.
ExitLeaves ==
  /\ ~ broken /\ stage \in {"failing", "unlocked"}
  /\ \A c \in DOMAIN control : control[c].pc = "idle"
  /\ \E t \in Threads : thread[t].pc # "none"
  /\ Breaks
-----------------------------------------------------------------------------
ThreadStep(t) == Top(t) \/ LockNothing(t) \/ Sample(t) \/ SampleFreed(t) \/ UnlockThread(t)
ReaderStep == SeqShow \/ SeqShowNothing \/ SeqStop

\* Nothing runs on.
Oops == broken /\ UNCHANGED vars

Next ==
  \/ \E p \in Pids : Die(p)
  \/ \E t \in Threads : ThreadStep(t) \/ LockThread(t)
  \/ \E c \in Clients, p \in Pids, cmd \in {"add", "remove"} : Search(c, p, cmd)
  \/ \E c \in Clients : Take(c) \/ TakeFreed(c) \/ Add(c) \/ AddNoProcess(c)
  \/ SeqStart \/ ReaderStep \/ SeqFull \/ TooEarly
  \/ ShrinkCount \/ ShrinkScan \/ ShrinkNothing
  \/ \E c \in Controllers : StoreStart(c) \/ Start(c) \/ StoreStop(c) \/ StoreStopGone(c)
  \/ \E c \in Controllers \cup {Module} : Stop(c)
  \/ InitSysfs \/ InitThread \/ InitMutex \/ InitFails \/ StopForModuleGone
  \/ ExitBegin \/ ExitNoThread \/ ExitFree \/ ExitEnd \/ ExitLeaves
  \/ Oops

\* The kernel runs a thread that can run; a mutex is handed to who waits for
\* it; a read that holds the mutex does not wait for anything.
Fairness ==
  /\ \A t \in Threads : WF_vars(ThreadStep(t)) /\ SF_vars(LockThread(t))
  /\ WF_vars(ReaderStep)
  /\ \A c \in Controllers \cup {Module} : WF_vars(Stop(c))

Spec == Init /\ [][Next]_vars /\ Fairness
-----------------------------------------------------------------------------
(* Every variable has the shape of the code's data; a sample's number is    *)
(* below the count of its monitor, and the process that the mutex is held   *)
(* by is one of those that take it.                                         *)
Nums == 0 .. MaxNum + Cardinality(Threads)
TypeOK ==
  /\ stage \in Stages /\ broken \in BOOLEAN
  /\ mtx \in {"null", "freed", Nobody, Reader} \cup Threads
  /\ \A k \in DOMAIN list : list[k] \in Monitors /\ \A j \in 1 .. k - 1 : list[j] # list[k]
  /\ \A m \in Monitors :
       /\ tm[m].pid \in Pids \cup {Nobody} /\ tm[m].num \in Nums /\ tm[m].count \in Nums
       /\ tm[m].to_shrink \in Nums
       /\ \A k \in DOMAIN tm[m].head : tm[m].head[k] \in 0 .. tm[m].num - 1
  /\ alive \subseteq Pids
  /\ thread \in [Threads -> [pc : {"none", "top", "lock", "in"}, at : Monitors \cup {Nobody}, stop : BOOLEAN]]
  /\ kt \in Threads \cup {Nobody}
  /\ client \in [Clients -> [pc : {"idle", "add", "remove"}, pid : Pids \cup {Nobody}, tm : Monitors \cup {Nobody}]]
  /\ control \in [Controllers \cup {Module} -> [pc : {"idle", "start", "stop"}, at : Threads \cup {Nobody}]]
  /\ reader.pc \in {"idle", "show", "stop", "end"} /\ reader.at \in Monitors \cup {Nobody}

(* What a monitor keeps are its newest samples, without a gap, whatever the *)
(* shrinker dropped in between; and count, from which the shrinker derives  *)
(* what to drop, is never below their number.                               *)
NewestKept ==
  \A m \in Ran(list) :
    LET h == tm[m].head
    IN  /\ \A k \in DOMAIN h : h[k] = tm[m].num - Len(h) + k - 1
        /\ tm[m].count >= Len(h)

(* A read that reaches the end of the lists without letting the mutex go    *)
(* has shown every sample that they hold, and none twice, in spite of the   *)
(* writers that remove monitors without the mutex.                          *)
PassComplete ==
  reader.pc = "end" /\ reader.pos = Len(reader.shown) =>
    /\ \A m \in Ran(list) : \A k \in DOMAIN tm[m].head :
         <<m, tm[m].head[k]>> \in Ran(reader.shown)
    /\ Cardinality(Ran(reader.shown)) = Len(reader.shown)

(* A "stop" returns: the thread that it waits for leaves, whoever holds the *)
(* mutex and however many samples there are to take, unless the machine     *)
(* breaks first.                                                            *)
StopReturns ==
  \A c \in Controllers \cup {Module} :
    control[c].pc = "stop" ~> control[c].pc # "stop" \/ broken
=============================================================================
