-------------------------- MODULE CondQueueProofs ---------------------------
(***************************************************************************)
(* Proofs about CondQueue, for every capacity and every number of writes:  *)
(* type correctness, the order of the values, the absence of lost wakeups, *)
(* and that the queue implements BoundedQueue.                             *)
(***************************************************************************)
EXTENDS CondQueue, QueueThreadsProofs

(* A thread in a wait set is inside pthread_cond_wait(). *)
WaitersWait ==
    /\ queue_not_empty # {} => pc["reader"] = "get_wait"
    /\ queue_not_full # {} => pc["writer"] = "add_wait"

IInv ==
    /\ ThreadsInv
    /\ TypeOK
    /\ WaitersWait
    /\ NoLostWakeup

-----------------------------------------------------------------------------
LEMMA IInvInit == Init => IInv
  <1> SUFFICES ASSUME Init PROVE IInv
    OBVIOUS
  <1>1. ThreadsInv
    BY ThreadsInvInit DEF Init
  <1>2. TypeOK
    BY <1>1 DEF Init, ThreadsInit, ThreadsInv, TypeOK, ReaderLabels, WriterLabels, Threads
  <1>3. WaitersWait /\ NoLostWakeup
    BY DEF Init, WaitersWait, NoLostWakeup
  <1>4. QED
    BY <1>1, <1>2, <1>3 DEF IInv

(* pthread_cond_wait() and pthread_cond_signal() and the calls around them *)
(* keep the shared part of the invariant.                                  *)
LEMMA QueueAddKeeps == ThreadsInv /\ TypeOK /\ queue_add => ThreadsInv'
  <1> SUFFICES ASSUME ThreadsInv, TypeOK, queue_add
               PROVE  ThreadsInv'
    OBVIOUS
  <1> USE DEF Threads, Nobody, queue, locals, conds, Goto, Lock, Unlock
  <1>1. CASE add_node
    BY <1>1, AddNodeKeeps DEF add_node
  <1>2. CASE add_lock
    BY <1>2 DEF add_lock, Assert, ThreadsInv, ThreadsTypeOK, MutexOwned, Contents,
       Counted, StartOrder, StopOrder, NoCrash
  <1>3. CASE add_wait
    BY <1>3 DEF add_wait, cond_wait, ThreadsInv, ThreadsTypeOK, MutexOwned, Contents,
       Counted, StartOrder, StopOrder, NoCrash
  <1>4. CASE add_signal
    BY <1>4 DEF add_signal, ThreadsInv, ThreadsTypeOK, MutexOwned, Contents,
       Counted, StartOrder, StopOrder, NoCrash
  <1>5. CASE add_unlock
    <2>1. ThreadsTypeOK' /\ Counted'
      BY <1>5 DEF add_unlock, ThreadsInv, ThreadsTypeOK, Counted
    <2>2. MutexOwned' /\ Contents' /\ NoCrash'
      BY <1>5 DEF add_unlock, ThreadsInv, ThreadsTypeOK, MutexOwned, Contents, NoCrash
    <2>3. StartOrder' /\ StopOrder'
      BY <1>5 DEF add_unlock, ThreadsInv, ThreadsTypeOK, StartOrder, StopOrder
    <2>4. QED
      BY <2>1, <2>2, <2>3 DEF ThreadsInv
  <1>6. CASE cond_return("writer", queue_not_full, "add_wait", "add_check")
    BY <1>6 DEF cond_return, ThreadsInv, ThreadsTypeOK, MutexOwned, Contents,
       Counted, StartOrder, StopOrder, NoCrash
  <1>7. CASE cond_cancelled("writer", queue_not_full, "add_wait")
    BY <1>7 DEF cond_cancelled, ThreadsInv, ThreadsTypeOK, MutexOwned, Contents,
       Counted, StartOrder, StopOrder, NoCrash
  <1>8. CASE cond_die("writer")
    BY <1>8 DEF cond_die, ThreadsInv, ThreadsTypeOK, MutexOwned, Contents,
       Counted, StartOrder, StopOrder, NoCrash
  <1>9. QED
    BY <1>1, <1>2, <1>3, <1>4, <1>5, <1>6, <1>7, <1>8 DEF queue_add

LEMMA QueueGetKeeps == ThreadsInv /\ TypeOK /\ queue_get => ThreadsInv'
  <1> SUFFICES ASSUME ThreadsInv, TypeOK, queue_get
               PROVE  ThreadsInv'
    OBVIOUS
  <1> USE DEF Threads, Nobody, queue, locals, conds, Goto, Lock, Unlock
  <1>1. CASE get_node
    BY <1>1, TakeNodeKeeps DEF get_node
  <1>2. CASE get_lock
    <2>1. count \in 0..MaxCount
      BY CountRange
    <2>2. process' = process
      BY <1>2, <2>1, QueueAssumption DEF get_lock, Assert
    <2>3. QED
      BY <1>2, <2>2 DEF get_lock, ThreadsInv, ThreadsTypeOK, MutexOwned, Contents,
         Counted, StartOrder, StopOrder, NoCrash
  <1>3. CASE get_wait
    BY <1>3 DEF get_wait, cond_wait, ThreadsInv, ThreadsTypeOK, MutexOwned, Contents,
       Counted, StartOrder, StopOrder, NoCrash
  <1>4. CASE get_signal
    BY <1>4 DEF get_signal, ThreadsInv, ThreadsTypeOK, MutexOwned, Contents,
       Counted, StartOrder, StopOrder, NoCrash
  <1>5. CASE get_unlock
    BY <1>5 DEF get_unlock, ThreadsInv, ThreadsTypeOK, MutexOwned, Contents,
       Counted, StartOrder, StopOrder, NoCrash
  <1>6. CASE cond_return("reader", queue_not_empty, "get_wait", "get_check")
    BY <1>6 DEF cond_return, ThreadsInv, ThreadsTypeOK, MutexOwned, Contents,
       Counted, StartOrder, StopOrder, NoCrash
  <1>7. CASE cond_cancelled("reader", queue_not_empty, "get_wait")
    BY <1>7 DEF cond_cancelled, ThreadsInv, ThreadsTypeOK, MutexOwned, Contents,
       Counted, StartOrder, StopOrder, NoCrash
  <1>8. CASE cond_die("reader")
    BY <1>8 DEF cond_die, ThreadsInv, ThreadsTypeOK, MutexOwned, Contents,
       Counted, StartOrder, StopOrder, NoCrash
  <1>9. QED
    BY <1>1, <1>2, <1>3, <1>4, <1>5, <1>6, <1>7, <1>8 DEF queue_get

-----------------------------------------------------------------------------
(* The steps of the two threads that use the condition variables keep the  *)
(* types and the wait sets as they should be.                              *)
LEMMA TypeOKNext == IInv /\ Next /\ ThreadsInv' => TypeOK'
  <1> SUFFICES ASSUME IInv, Next, ThreadsInv'
               PROVE  TypeOK'
    OBVIOUS
  <1> USE DEF IInv, TypeOK, ThreadsInv, ThreadsTypeOK, Threads, ReaderLabels, WriterLabels,
          conds, Goto, Lock, Unlock
  <1>1. CASE MainStep
    BY <1>1 DEF MainStep, main, queue_init, main_create, main_stop, queue_destroy,
       main_exit, pthread_create, pthread_cancel, pthread_join
  <1>2. CASE QmonitorStep
    BY <1>2 DEF QmonitorStep, qmonitor, qmonitor_start, print_lock, print_unlock, qmonitor_sleep,
       qmonitor_cancelled, Die
  <1>3. CASE ReaderStep
    BY <1>3 DEF ReaderStep, reader_loop, testcancel, reader_get, reader_check, Die,
       queue_get, get_lock, get_wait, get_node, get_signal, get_unlock, cond_wait,
       cond_return, cond_signal, cond_cancelled, cond_die, TakeNode
  <1>4. CASE WriterStep
    BY <1>4 DEF WriterStep, writer_loop, testcancel, writer_add, Die,
       queue_add, add_lock, add_wait, add_node, add_signal, add_unlock, cond_wait,
       cond_return, cond_signal, cond_cancelled, cond_die, AddNode
  <1>5. CASE SpuriousWakeup
    BY <1>5 DEF SpuriousWakeup, cond_spurious, threadVars
  <1>6. QED
    BY <1>1, <1>2, <1>3, <1>4, <1>5 DEF Next

(* A thread waits only while its condition fails or its wakeup is on the   *)
(* way, through every step: this is where the while loops around           *)
(* pthread_cond_wait() and the order of node, signal and unlock matter.    *)
LEMMA WakeupNext == IInv /\ Next => WaitersWait' /\ NoLostWakeup'
  <1> SUFFICES ASSUME IInv, Next
               PROVE  WaitersWait' /\ NoLostWakeup'
    OBVIOUS
  <1> USE DEF IInv, ThreadsInv, ThreadsTypeOK, TypeOK, Threads, WaitersWait, NoLostWakeup,
          queue, conds, Goto, Lock, Unlock
  <1>1. count = Len(items) /\ count \in 0..MaxCount /\ (count = 0 => items = <<>>)
    <2>1. items \in Seq(Nat) /\ count = Len(items)
      BY DEF Contents
    <2>2. Len(items) = 0 => items = <<>>
      BY <2>1
    <2>3. QED
      BY <2>1, <2>2, CountRange
  <1>2. CASE MainStep
    <2>1. /\ UNCHANGED <<items, conds>>
          /\ pc'["reader"] = pc["reader"] \/ (pc["reader"] = "new" /\ pc'["reader"] = "loop")
          /\ pc'["writer"] = pc["writer"] \/ (pc["writer"] = "new" /\ pc'["writer"] = "loop")
      BY <1>2 DEF MainStep, main, queue_init, main_create, main_stop, queue_destroy,
         main_exit, pthread_create, pthread_cancel, pthread_join, StartOrder
    <2>2. QED
      BY <2>1
  <1>3. CASE QmonitorStep
    BY <1>3 DEF QmonitorStep, qmonitor, qmonitor_start, print_lock, print_unlock, qmonitor_sleep,
       qmonitor_cancelled, Die
  <1>4. CASE SpuriousWakeup
    BY <1>4 DEF SpuriousWakeup, cond_spurious, threadVars
  <1>5. CASE reader_loop /\ UNCHANGED conds
    BY <1>5 DEF reader_loop, testcancel, reader_get, reader_check, Die
  <1>6. CASE writer_loop /\ UNCHANGED conds
    BY <1>6 DEF writer_loop, testcancel, writer_add, Die
  <1>7. CASE queue_get
    <2>1. CASE get_wait
      BY <1>1, <2>1 DEF get_wait, cond_wait
    <2>2. CASE get_node
      BY <1>1, <2>2, QueueAssumption DEF get_node, TakeNode, MutexOwned
    <2>3. CASE get_signal
      BY <2>3 DEF get_signal, cond_signal
    <2>4. CASE get_lock \/ get_unlock
      BY <2>4 DEF get_lock, get_unlock
    <2>5. CASE cond_return("reader", queue_not_empty, "get_wait", "get_check")
      BY <2>5 DEF cond_return
    <2>6. CASE cond_cancelled("reader", queue_not_empty, "get_wait") /\ UNCHANGED queue_not_full
      BY <2>6 DEF cond_cancelled
    <2>7. CASE cond_die("reader")
      BY <2>7 DEF cond_die
    <2>8. QED
      BY <1>7, <2>1, <2>2, <2>3, <2>4, <2>5, <2>6, <2>7 DEF queue_get
  <1>8. CASE queue_add
    <2>1. CASE add_wait
      <3>1. Len(items) = MaxCount /\ queue_not_empty' = queue_not_empty
        BY <1>1, <2>1 DEF add_wait
      <3>2. items' = items /\ (queue_not_empty # {} => items = <<>>)
        BY <2>1 DEF add_wait
      <3>3. /\ queue_not_full' # {} => pc'["writer"] = "add_wait"
            /\ pc'["reader"] = pc["reader"]
        BY <2>1 DEF add_wait, cond_wait
      <3>4. ~(Len(items') < MaxCount)
        BY <3>1, <3>2, QueueAssumption
      <3>5. QED
        BY <3>1, <3>2, <3>3, <3>4
    <2>2. CASE add_node
      <3>1. queue_not_full = {} /\ queue_not_full' = {} /\ queue_not_empty' = queue_not_empty
        BY <2>2 DEF add_node
      <3>2. (process' = "aborted" /\ UNCHANGED <<pc, items>>) \/ Goto("writer", "add_signal")
        BY <2>2 DEF add_node, AddNode
      <3>3. QED
        BY <3>1, <3>2
    <2>3. CASE add_signal
      BY <2>3 DEF add_signal, cond_signal
    <2>4. CASE add_lock \/ add_unlock
      BY <2>4 DEF add_lock, add_unlock
    <2>5. CASE cond_return("writer", queue_not_full, "add_wait", "add_check")
      BY <2>5 DEF cond_return
    <2>6. CASE cond_cancelled("writer", queue_not_full, "add_wait") /\ UNCHANGED queue_not_empty
      BY <2>6 DEF cond_cancelled
    <2>7. CASE cond_die("writer")
      BY <2>7 DEF cond_die
    <2>8. QED
      BY <1>8, <2>1, <2>2, <2>3, <2>4, <2>5, <2>6, <2>7 DEF queue_add
  <1>9. QED
    BY <1>2, <1>3, <1>4, <1>5, <1>6, <1>7, <1>8 DEF Next, ReaderStep, WriterStep

-----------------------------------------------------------------------------
(* The invariant is inductive. *)
LEMMA IInvNext == IInv /\ [Next]_vars => IInv'
  <1> SUFFICES ASSUME IInv, [Next]_vars
               PROVE  IInv'
    OBVIOUS
  <1>1. CASE Next
    <2>1. ASSUME SpuriousWakeup
          PROVE  ThreadsInv'
      BY <2>1 DEF SpuriousWakeup, cond_spurious, threadVars, queue, locals, IInv, ThreadsInv,
         ThreadsTypeOK, MutexOwned, Contents, Counted, StartOrder, StopOrder, NoCrash
    <2>2. ThreadsInv'
      BY <1>1, <2>1, MainKeeps, QmonitorKeeps, LoopsKeep, QueueAddKeeps, QueueGetKeeps
         DEF IInv, Next, MainStep, QmonitorStep, ReaderStep, WriterStep
    <2>3. QED
      BY <1>1, <2>2, TypeOKNext, WakeupNext DEF IInv
  <1>2. CASE UNCHANGED vars
    BY <1>2 DEF vars, threadVars, conds, queue, locals, IInv, ThreadsInv, TypeOK,
       ThreadsTypeOK, MutexOwned, Contents, Counted, StartOrder, StopOrder, NoCrash,
       WaitersWait, NoLostWakeup
  <1>3. QED
    BY <1>1, <1>2

(* Every variable keeps its type, whatever the capacity and the workload.  *)
THEOREM TypeCorrect == Spec => []TypeOK
  <1>1. IInv => TypeOK
    BY DEF IInv
  <1>2. QED
    BY IInvInit, IInvNext, <1>1, PTL DEF Spec

(* reader() never prints its ERROR line: all values arrive, once and in    *)
(* order, for every capacity of the queue.                                 *)
THEOREM NoOrderErrorHolds == Spec => []NoOrderError
  <1>1. IInv => NoOrderError
    BY ThreadsInvImplies DEF IInv
  <1>2. QED
    BY IInvInit, IInvNext, <1>1, PTL DEF Spec

(* The assertions of queue_add() and queue_get() hold and q->first is      *)
(* never NULL when queue_get() takes a node.                               *)
THEOREM NoCrashHolds == Spec => []NoCrash
  <1>1. IInv => NoCrash
    BY ThreadsInvImplies DEF IInv
  <1>2. QED
    BY IInvInit, IInvNext, <1>1, PTL DEF Spec

(* main() frees the queue after the last thread that uses it has ended.    *)
THEOREM NoUseAfterFreeHolds == Spec => []NoUseAfterFree
  <1>1. IInv => NoUseAfterFree
    BY ThreadsInvImplies DEF IInv
  <1>2. QED
    BY IInvInit, IInvNext, <1>1, PTL DEF Spec

(* A monitor that dies in printf() with the mutex harms nobody: it is      *)
(* cancelled after reader() and writer() have ended.                       *)
THEOREM MonitorOrphanHarmlessHolds == Spec => []MonitorOrphanHarmless
  <1>1. IInv => MonitorOrphanHarmless
    BY ThreadsInvImplies DEF IInv
  <1>2. QED
    BY IInvInit, IInvNext, <1>1, PTL DEF Spec

(* No wakeup is lost between pthread_cond_signal() and pthread_cond_wait(). *)
THEOREM NoLostWakeupHolds == Spec => []NoLostWakeup
  <1>1. IInv => NoLostWakeup
    BY DEF IInv
  <1>2. QED
    BY IInvInit, IInvNext, <1>1, PTL DEF Spec

-----------------------------------------------------------------------------
(* The queue with its mutex, its condition variables and its cancellations *)
(* implements the bounded FIFO: adding a node is Put, taking one is Get,   *)
(* and every other step leaves the FIFO as it is.                          *)
THEOREM Refinement == Spec => RefinesBoundedQueue
  <1>1. Init => Abstract!Init
    BY DEF Init, ThreadsInit, Abstract!Init, LastReceived, Threads
  <1>2. IInv /\ [Next]_vars => [Abstract!Next]_Abstract!vars
    <2> SUFFICES ASSUME IInv, [Next]_vars
                 PROVE  [Abstract!Next]_Abstract!vars
      OBVIOUS
    <2> USE DEF Abstract!Next, Abstract!vars, queue, locals
    <2>1. /\ LastReceived = get_count - 1 /\ LastReceived' = get_count' - 1
          /\ get_count \in Nat /\ add_count \in Nat
      <3>1. IInv'
        BY IInvNext
      <3>2. QED
        BY <3>1 DEF IInv, ThreadsInv, ThreadsTypeOK, Counted, LastReceived
    <2>2. CASE add_node
      <3>1. count \in 0..MaxCount /\ count = add_count - get_count /\ count # MaxCount
        BY <2>2, CountRange DEF IInv, ThreadsInv, Contents, add_node
      <3>2. add_count - get_count < MaxCount
        BY <3>1, QueueAssumption
      <3>3. QED
        BY <2>1, <2>2, <3>2 DEF add_node, AddNode, Abstract!Put
    <2>3. CASE get_node
      BY <2>1, <2>3, TakeNodeKeeps DEF get_node, IInv, Abstract!Get
    <2>4. CASE UNCHANGED vars
      BY <2>1, <2>4 DEF vars, threadVars
    <2>5. CASE Next /\ ~add_node /\ ~get_node
      <3>1. UNCHANGED <<add_count, get_count>>
        BY <2>5 DEF Next, MainStep, main, queue_init, main_create, main_stop, queue_destroy,
           main_exit, pthread_create, pthread_cancel, pthread_join, QmonitorStep, qmonitor, qmonitor_start,
           print_lock, print_unlock, qmonitor_sleep, qmonitor_cancelled, ReaderStep,
           WriterStep, reader_loop, writer_loop, testcancel, reader_get, reader_check,
           writer_add, queue_get, queue_add, get_lock, get_wait, get_signal, get_unlock,
           add_lock, add_wait, add_signal, add_unlock, cond_return, cond_cancelled,
           cond_die, SpuriousWakeup, cond_spurious, threadVars
      <3>2. QED
        BY <2>1, <3>1
    <2>6. QED
      BY <2>2, <2>3, <2>4, <2>5
  <1>3. QED
    BY IInvInit, IInvNext, <1>1, <1>2, PTL DEF Spec, RefinesBoundedQueue, Abstract!Spec

-----------------------------------------------------------------------------
(* The hang that cancellation in pthread_cond_wait() leaves behind.        *)

(* One of reader and writer was cancelled in pthread_cond_wait() and has   *)
(* taken the mutex along; the other one is on its way to lock it.          *)
HungWriter ==
    /\ mutex = "reader" /\ pc["reader"] = "dead"
    /\ pc["writer"] \in {"add", "add_wait", "cancelled"}

HungReader ==
    /\ mutex = "writer" /\ pc["writer"] = "dead"
    /\ pc["reader"] \in {"get", "get_wait", "cancelled"}

Hung == process = "running" /\ (HungWriter \/ HungReader)

(* What main() and the monitor can still do changes nothing about it. *)
LEMMA HungMain == ThreadsInv /\ Hung /\ (main \/ qmonitor) => Hung' /\ UNCHANGED queue
  <1> SUFFICES ASSUME ThreadsInv, Hung, main \/ qmonitor PROVE Hung' /\ UNCHANGED queue
    OBVIOUS
  <1>1. /\ DOMAIN pc = Threads /\ pc["main"] \in MainLabels
        /\ pc["main"] \notin {"queue_init", "create_reader", "create_writer"}
        /\ pc["main"] \notin {"cancel_qmonitor", "join_qmonitor", "free", "pthread_exit"}
    BY DEF ThreadsInv, ThreadsTypeOK, StartOrder, StopOrder, Hung, HungWriter, HungReader
  <1>2. CASE main
    <2>1. /\ pc' = [pc EXCEPT !["main"] = pc'["main"]]
          /\ UNCHANGED <<mutex, process, queue>>
      BY <1>1, <1>2 DEF main, queue_init, main_create, main_stop, queue_destroy, main_exit,
         pthread_create, pthread_cancel, pthread_join, Goto, queue, Threads
    <2>2. pc'["reader"] = pc["reader"] /\ pc'["writer"] = pc["writer"]
      BY <1>1, <2>1 DEF Threads
    <2>3. QED
      BY <2>1, <2>2 DEF Hung, HungWriter, HungReader
  <1>3. CASE qmonitor
    <2>1. pc["qmonitor"] # "print" /\ mutex # Nobody
      BY DEF ThreadsInv, MutexOwned, Hung, HungWriter, HungReader, Nobody
    <2>2. /\ pc'["reader"] = pc["reader"] /\ pc'["writer"] = pc["writer"]
          /\ UNCHANGED <<mutex, process, queue>>
      BY <1>1, <1>3, <2>1 DEF qmonitor, qmonitor_start, print_lock, print_unlock, qmonitor_sleep,
         qmonitor_cancelled, Die, Lock, Goto, Threads, queue
    <2>3. QED
      BY <2>2 DEF Hung, HungWriter, HungReader
  <1>4. QED
    BY <1>2, <1>3

LEMMA HungStep == IInv /\ Hung /\ [Next]_vars => Hung' /\ UNCHANGED queue
  <1> SUFFICES ASSUME IInv, Hung, [Next]_vars PROVE Hung' /\ UNCHANGED queue
    OBVIOUS
  <1>1. DOMAIN pc = Threads /\ mutex # Nobody
    BY DEF IInv, ThreadsInv, ThreadsTypeOK, Hung, HungWriter, HungReader, Nobody
  <1>2. CASE MainStep \/ QmonitorStep
    BY <1>2, HungMain DEF IInv, MainStep, QmonitorStep
  <1>3. CASE ReaderStep
    <2>1. /\ HungReader /\ pc'["writer"] = pc["writer"] /\ pc'["reader"] \in {pc["reader"], "cancelled"}
          /\ UNCHANGED <<mutex, process, queue>>
      BY <1>1, <1>3 DEF Hung, HungWriter, HungReader, ReaderStep, reader_loop, testcancel, reader_get, reader_check,
         queue_get, get_lock, get_wait, get_node, get_signal, get_unlock, cond_return, cond_cancelled,
         cond_die, Die, Lock, Goto, queue, Threads
    <2>2. QED
      BY <2>1 DEF Hung, HungReader
  <1>4. CASE WriterStep
    <2>1. /\ HungWriter /\ pc'["reader"] = pc["reader"] /\ pc'["writer"] \in {pc["writer"], "cancelled"}
          /\ UNCHANGED <<mutex, process, queue>>
      BY <1>1, <1>4 DEF Hung, HungWriter, HungReader, WriterStep, writer_loop, testcancel, writer_add,
         queue_add, add_lock, add_wait, add_node, add_signal, add_unlock, cond_return, cond_cancelled,
         cond_die, Die, Lock, Goto, queue, Threads
    <2>2. QED
      BY <2>1 DEF Hung, HungWriter
  <1>5. CASE SpuriousWakeup
    BY <1>5 DEF SpuriousWakeup, cond_spurious, threadVars, queue, Hung, HungWriter, HungReader
  <1>6. CASE UNCHANGED vars
    BY <1>6 DEF vars, threadVars, queue, Hung, HungWriter, HungReader
  <1>7. QED
    BY <1>2, <1>3, <1>4, <1>5, <1>6 DEF Next

(* There is no way out: once a thread was cancelled in pthread_cond_wait() *)
(* while the other one is in queue_add() or queue_get() without the mutex, *)
(* the process keeps running and main() never returns from its joins, for  *)
(* every capacity.  The queue has no cleanup handler that would unlock.    *)
THEOREM HungForGood == Spec => [](Hung => [](process = "running" /\ pc["main"] # "pthread_exit"))
  <1>1. IInv /\ Hung => process = "running" /\ pc["main"] # "pthread_exit"
    BY DEF IInv, ThreadsInv, StopOrder, Hung, HungWriter, HungReader
  <1>2. QED
    BY IInvInit, IInvNext, HungStep, <1>1, PTL DEF Spec
=============================================================================
