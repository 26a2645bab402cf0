------------------------- MODULE LockedQueueProofs --------------------------
(***************************************************************************)
(* Proofs about LockedQueue, for every capacity, every number of writes    *)
(* and all three locks.                                                    *)
(***************************************************************************)
EXTENDS LockedQueue, QueueThreadsProofs

(* A reader or writer that holds the lock is between its lock and unlock.  *)
HolderInside ==
    /\ mutex = "reader" => pc["reader"] \in {"get_check", "get_unlock"}
    /\ mutex = "writer" => pc["writer"] \in {"add_check", "add_unlock"}

IInv ==
    /\ ThreadsInv
    /\ TypeOK
    /\ HolderInside

-----------------------------------------------------------------------------
LEMMA IInvInit == Init => IInv
  <1> SUFFICES ASSUME Init PROVE IInv
    OBVIOUS
  <1>1. ThreadsInv
    BY ThreadsInvInit DEF Init
  <1>2. TypeOK /\ HolderInside
    BY <1>1 DEF Init, ThreadsInit, ThreadsInv, TypeOK, ReaderLabels, WriterLabels,
       Threads, HolderInside, Nobody
  <1>3. QED
    BY <1>1, <1>2 DEF IInv

(* The locked operations keep the shared part of the invariant.            *)
LEMMA OperationsKeep ==
  ThreadsInv /\ (queue_add \/ queue_get \/ lock_cancelled("qmonitor", "stats")) => ThreadsInv'
  <1> SUFFICES ASSUME ThreadsInv,
                      queue_add \/ queue_get \/ lock_cancelled("qmonitor", "stats")
               PROVE  ThreadsInv'
    OBVIOUS
  <1> USE DEF Threads, Nobody, queue, locals, Goto, Lock, Unlock
  <1>1. CASE add_node
    BY <1>1, AddNodeKeeps DEF add_node
  <1>2. CASE get_node
    BY <1>2, TakeNodeKeeps DEF get_node
  <1>3. CASE add_lock \/ get_lock
    <2>1. count \in 0..MaxCount
      BY CountRange
    <2>2. process' = process
      BY <1>3, <2>1, QueueAssumption DEF add_lock, get_lock, Assert
    <2>3. QED
      BY <1>3, <2>2 DEF add_lock, get_lock, ThreadsInv, ThreadsTypeOK, MutexOwned,
         Contents, Counted, StartOrder, StopOrder, NoCrash
  <1>4. CASE add_full \/ get_empty
    BY <1>4 DEF add_full, get_empty, ThreadsInv, ThreadsTypeOK, MutexOwned, Contents,
       Counted, StartOrder, StopOrder, NoCrash
  <1>5. CASE add_unlock
    <2>1. ThreadsTypeOK' /\ Counted'
      BY <1>5 DEF add_unlock, ThreadsInv, ThreadsTypeOK, Counted
    <2>2. MutexOwned' /\ Contents' /\ NoCrash'
      BY <1>5 DEF add_unlock, ThreadsInv, ThreadsTypeOK, MutexOwned, Contents, NoCrash
    <2>3. StartOrder' /\ StopOrder'
      BY <1>5 DEF add_unlock, ThreadsInv, ThreadsTypeOK, StartOrder, StopOrder
    <2>4. QED
      BY <2>1, <2>2, <2>3 DEF ThreadsInv
  <1>6. CASE get_unlock
    BY <1>6 DEF get_unlock, ThreadsInv, ThreadsTypeOK, MutexOwned, Contents,
       Counted, StartOrder, StopOrder, NoCrash
  <1>7. CASE lock_cancelled("writer", "add") \/ lock_cancelled("reader", "get")
    BY <1>7 DEF lock_cancelled, Die, ThreadsInv, ThreadsTypeOK, MutexOwned, Contents,
       Counted, StartOrder, StopOrder, NoCrash
  <1>8. CASE lock_cancelled("qmonitor", "stats")
    BY <1>8 DEF lock_cancelled, Die, ThreadsInv, ThreadsTypeOK, QmonitorLabels, MutexOwned,
       Contents, Counted, StartOrder, StopOrder, NoCrash
  <1>9. QED
    BY <1>1, <1>2, <1>3, <1>4, <1>5, <1>6, <1>7, <1>8 DEF queue_add, queue_get

(* The lock is taken and released by the same thread, and no thread can be *)
(* cancelled in between.                                                   *)
LEMMA HolderNext == IInv /\ Next /\ ThreadsInv' => TypeOK' /\ HolderInside'
  <1> SUFFICES ASSUME IInv, Next, ThreadsInv'
               PROVE  TypeOK' /\ HolderInside'
    OBVIOUS
  <1> lockCancels' = lockCancels
    BY DEF Next
  <1> USE DEF IInv, TypeOK, ThreadsInv, ThreadsTypeOK, Threads, Nobody, ReaderLabels,
          WriterLabels, HolderInside, MutexOwned, Goto, Lock, Unlock, Die, lock_cancelled
  <1>1. CASE main
    BY <1>1 DEF main, queue_init, main_create, main_stop, queue_destroy, main_exit,
       pthread_create, pthread_cancel, pthread_join, StartOrder
  <1>2. CASE QmonitorStep
    BY <1>2 DEF QmonitorStep, qmonitor, qmonitor_start, print_lock, print_unlock, qmonitor_sleep,
       qmonitor_cancelled
  <1>3. CASE ReaderStep
    BY <1>3 DEF ReaderStep, reader_loop, testcancel, reader_get, reader_check,
       queue_get, get_lock, get_empty, get_node, get_unlock, TakeNode
  <1>4. CASE WriterStep
    BY <1>4 DEF WriterStep, writer_loop, testcancel, writer_add,
       queue_add, add_lock, add_full, add_node, add_unlock, AddNode
  <1>5. QED
    BY <1>1, <1>2, <1>3, <1>4 DEF Next

LEMMA IInvNext == IInv /\ [Next]_vars => IInv'
  <1> SUFFICES ASSUME IInv, [Next]_vars
               PROVE  IInv'
    OBVIOUS
  <1>1. CASE Next
    <2>1. ThreadsInv'
      BY <1>1, MainKeeps, QmonitorKeeps, LoopsKeep, OperationsKeep
         DEF IInv, Next, QmonitorStep, ReaderStep, WriterStep
    <2>2. QED
      BY <1>1, <2>1, HolderNext DEF IInv
  <1>2. CASE UNCHANGED vars
    BY <1>2 DEF vars, threadVars, queue, locals, IInv, ThreadsInv, TypeOK, ThreadsTypeOK,
       MutexOwned, Contents, Counted, StartOrder, StopOrder, NoCrash, HolderInside
  <1>3. QED
    BY <1>1, <1>2

-----------------------------------------------------------------------------
(* Every variable keeps its type, with any of the three locks.             *)
THEOREM TypeCorrect == Spec => []TypeOK
  <1>1. IInv => TypeOK
    BY DEF IInv
  <1>2. QED
    BY IInvInit, IInvNext, <1>1, PTL DEF Spec

(* reader() never prints its ERROR line, with any of the three locks.      *)
THEOREM NoOrderErrorHolds == Spec => []NoOrderError
  <1>1. IInv => NoOrderError
    BY ThreadsInvImplies DEF IInv
  <1>2. QED
    BY IInvInit, IInvNext, <1>1, PTL DEF Spec

(* No assertion of queue_add() and queue_get() fails and queue_get() takes *)
(* no node from an empty list.                                             *)
THEOREM NoCrashHolds == Spec => []NoCrash
  <1>1. IInv => NoCrash
    BY ThreadsInvImplies DEF IInv
  <1>2. QED
    BY IInvInit, IInvNext, <1>1, PTL DEF Spec

(* main() frees the queue after the last thread that uses it has ended.    *)
THEOREM NoUseAfterFreeHolds == Spec => []NoUseAfterFree
  <1>1. IInv => NoUseAfterFree
    BY ThreadsInvImplies DEF IInv
  <1>2. QED
    BY IInvInit, IInvNext, <1>1, PTL DEF Spec

(* A monitor that dies in printf() and leaves the mutex, spinlock or       *)
(* semaphore taken harms nobody: reader() and writer() have ended by then. *)
THEOREM MonitorOrphanHarmlessHolds == Spec => []MonitorOrphanHarmless
  <1>1. IInv => MonitorOrphanHarmless
    BY ThreadsInvImplies DEF IInv
  <1>2. QED
    BY IInvInit, IInvNext, <1>1, PTL DEF Spec

(* A cancelled reader or writer never dies with the lock, although         *)
(* sem_wait() lets it die before it has taken it.                          *)
THEOREM CancelLeavesLockFreeHolds == Spec => []CancelLeavesLockFree
  <1>1. IInv => CancelLeavesLockFree
    BY DEF IInv, HolderInside, CancelLeavesLockFree
  <1>2. QED
    BY IInvInit, IInvNext, <1>1, PTL DEF Spec

(* The queue under one lock implements the bounded FIFO: a queue_add()     *)
(* that finds it full and a queue_get() that finds it empty change nothing. *)
THEOREM Refinement == Spec => RefinesBoundedQueue
  <1>1. Init => Abstract!Init
    BY DEF Init, ThreadsInit, Abstract!Init, LastReceived, Threads
  <1>2. IInv /\ [Next]_vars => [Abstract!Next]_Abstract!vars
    <2> SUFFICES ASSUME IInv, [Next]_vars
                 PROVE  [Abstract!Next]_Abstract!vars
      OBVIOUS
    <2> USE DEF Abstract!Next, Abstract!vars, queue, locals
    <2>1. /\ LastReceived = get_count - 1 /\ LastReceived' = get_count' - 1
          /\ get_count \in Nat /\ add_count \in Nat
      <3>1. IInv'
        BY IInvNext
      <3>2. QED
        BY <3>1 DEF IInv, ThreadsInv, ThreadsTypeOK, Counted, LastReceived
    <2>2. CASE add_node
      <3>1. count \in 0..MaxCount /\ count = add_count - get_count /\ count # MaxCount
        BY <2>2, CountRange DEF IInv, ThreadsInv, Contents, add_node
      <3>2. add_count - get_count < MaxCount
        BY <3>1, QueueAssumption
      <3>3. QED
        BY <2>1, <2>2, <3>2 DEF add_node, AddNode, Abstract!Put
    <2>3. CASE get_node
      BY <2>1, <2>3, TakeNodeKeeps DEF get_node, IInv, Abstract!Get
    <2>4. CASE UNCHANGED vars
      BY <2>1, <2>4 DEF vars, threadVars
    <2>5. CASE Next /\ ~add_node /\ ~get_node
      <3>1. UNCHANGED <<add_count, get_count>>
        BY <2>5 DEF Next, main, queue_init, main_create, main_stop, queue_destroy,
           main_exit, pthread_create, pthread_cancel, pthread_join, QmonitorStep, qmonitor, qmonitor_start,
           print_lock, print_unlock, qmonitor_sleep, qmonitor_cancelled, ReaderStep,
           WriterStep, reader_loop, writer_loop, testcancel, reader_get, reader_check,
           writer_add, queue_get, queue_add, get_lock, get_empty, get_unlock,
           add_lock, add_full, add_unlock, lock_cancelled
      <3>2. QED
        BY <2>1, <3>1
    <2>6. QED
      BY <2>2, <2>3, <2>4, <2>5
  <1>3. QED
    BY IInvInit, IInvNext, <1>1, <1>2, PTL DEF Spec, RefinesBoundedQueue, Abstract!Spec
=============================================================================
