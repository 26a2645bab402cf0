---------------------------- MODULE LockedQueue -----------------------------
(***************************************************************************)
(* The queues of sem2/sync/lab2.2/mutex, spinlock and sem: one lock around *)
(* each operation, and an operation that finds the queue full or empty     *)
(* returns 0 at once.  The three sources differ in the lock only.  None of *)
(* the locks is handed over in order, and of the three calls that take     *)
(* them only sem_wait() is a cancellation point.                           *)
(***************************************************************************)
EXTENDS QueueThreads

VARIABLE lockCancels   \* which program runs: TRUE for the one with sem_wait(),
                       \* FALSE for those with the mutex and the spinlock

vars == <<threadVars, lockCancels>>

ReaderLabels == {"new", "loop", "get", "get_check", "get_unlock", "check", "dead"}
WriterLabels == {"new", "loop", "add", "add_check", "add_unlock", "dead"}

Init == ThreadsInit /\ lockCancels \in BOOLEAN

-----------------------------------------------------------------------------
(* Fault of lock_cancelled: the thread dies with the semaphore. *)
lock_cancelled_locked(t, label) ==
    /\ lockCancels
    /\ pc[t] = label
    /\ Lock(t)
    /\ Die(t)
    /\ UNCHANGED <<cancel, queue, locals, process>>

(* A thread cancelled in sem_wait() dies without the semaphore. *)
lock_cancelled(t, label) ==
    /\ lockCancels
    /\ pc[t] = label
    /\ Die(t)
    /\ UNCHANGED <<cancel, mutex, queue, locals, process>>

-----------------------------------------------------------------------------
(* queue_add() *)

add_lock ==
    /\ pc["writer"] = "add"
    /\ "writer" \in cancel => ~lockCancels
    /\ Lock("writer")
    /\ Assert(count <= MaxCount)
    /\ Goto("writer", "add_check")
    /\ UNCHANGED <<cancel, queue, locals>>

(* Fault of add_full: the early return leaves the queue locked. *)
add_full_locked ==
    /\ pc["writer"] = "add_check"
    /\ count = MaxCount
    /\ Goto("writer", "loop")
    /\ UNCHANGED <<cancel, mutex, queue, locals, process>>

(* The queue is full: queue_add() returns 0 and writer() tries again. *)
add_full ==
    /\ pc["writer"] = "add_check"
    /\ count = MaxCount
    /\ Unlock("writer")
    /\ Goto("writer", "loop")
    /\ UNCHANGED <<cancel, queue, locals, process>>

(* Fault of add_node: the test for a full queue is missing. *)
add_node_unguarded ==
    /\ pc["writer"] = "add_check"
    /\ AddNode("add_unlock")
    /\ UNCHANGED <<cancel, mutex, locals>>

add_node ==
    /\ pc["writer"] = "add_check"
    /\ count # MaxCount
    /\ AddNode("add_unlock")
    /\ UNCHANGED <<cancel, mutex, locals>>

(* queue_add() returns 1; the usleep(1) that follows in writer() is a      *)
(* cancellation point, as is the head of the loop.                         *)
add_unlock ==
    /\ pc["writer"] = "add_unlock"
    /\ Unlock("writer")
    /\ next_val' = next_val + 1
    /\ Goto("writer", "loop")
    /\ UNCHANGED <<cancel, queue, val, expected, process>>

queue_add ==
    add_lock \/ add_full \/ add_node \/ add_unlock \/ lock_cancelled("writer", "add")

-----------------------------------------------------------------------------
(* queue_get() *)

get_lock ==
    /\ pc["reader"] = "get"
    /\ "reader" \in cancel => ~lockCancels
    /\ Lock("reader")
    /\ Assert(count >= 0)
    /\ Goto("reader", "get_check")
    /\ UNCHANGED <<cancel, queue, locals>>

(* Fault of get_empty: the early return leaves the queue locked. *)
get_empty_locked ==
    /\ pc["reader"] = "get_check"
    /\ count = 0
    /\ Goto("reader", "loop")
    /\ UNCHANGED <<cancel, mutex, queue, locals, process>>

(* The queue is empty: queue_get() returns 0 and reader() tries again. *)
get_empty ==
    /\ pc["reader"] = "get_check"
    /\ count = 0
    /\ Unlock("reader")
    /\ Goto("reader", "loop")
    /\ UNCHANGED <<cancel, queue, locals, process>>

(* Fault of get_node: the test for an empty queue is missing. *)
get_node_unguarded ==
    /\ pc["reader"] = "get_check"
    /\ TakeNode("get_unlock")
    /\ UNCHANGED <<cancel, mutex, next_val, expected>>

get_node ==
    /\ pc["reader"] = "get_check"
    /\ count # 0
    /\ TakeNode("get_unlock")
    /\ UNCHANGED <<cancel, mutex, next_val, expected>>

get_unlock ==
    /\ pc["reader"] = "get_unlock"
    /\ Unlock("reader")
    /\ Goto("reader", "check")
    /\ UNCHANGED <<cancel, queue, locals, process>>

queue_get ==
    get_lock \/ get_empty \/ get_node \/ get_unlock \/ lock_cancelled("reader", "get")

-----------------------------------------------------------------------------
QmonitorStep == qmonitor \/ lock_cancelled("qmonitor", "stats")
ReaderStep == reader_loop \/ queue_get
WriterStep == writer_loop \/ queue_add

Next ==
    /\ process = "running"
    /\ main \/ QmonitorStep \/ ReaderStep \/ WriterStep
    /\ UNCHANGED lockCancels

Spec == Init /\ [][Next]_vars

(* Every thread that can run is run, and a thread that finds the lock free *)
(* again and again gets it in the end: between two uses the monitor sleeps *)
(* for a second and the reader and the writer leave the lock alone.        *)
Running(A) == process = "running" /\ A /\ UNCHANGED lockCancels

FairSpec ==
    /\ Spec
    /\ WF_vars(Running(QmonitorStep)) /\ SF_vars(Running(print_lock))
    /\ WF_vars(Running(ReaderStep)) /\ SF_vars(Running(get_lock))
    /\ WF_vars(Running(WriterStep)) /\ SF_vars(Running(add_lock))
    /\ WF_vars(Running(main_awake))

-----------------------------------------------------------------------------
(* Properties *)

TypeOK ==
    /\ ThreadsTypeOK
    /\ lockCancels \in BOOLEAN
    /\ pc["reader"] \in ReaderLabels
    /\ pc["writer"] \in WriterLabels

(* A reader or writer that main() cancels never takes the lock with it:    *)
(* whatever it was doing in queue_add() or queue_get(), it unlocks before  *)
(* it dies.                                                                *)
CancelLeavesLockFree ==
    \A t \in {"reader", "writer"} : pc[t] = "dead" => mutex # t

(* Every value added is received, unless main() stops the threads first,   *)
(* which it need not do: its sleep may last.                               *)
Delivered ==
    \A k \in 1..MaxWrites :
        add_count >= k ~> (get_count >= k \/ cancel # {} \/ process # "running")

(* Once main() has begun to stop its threads, it gets through its joins and *)
(* queue_destroy(), and the process ends.                                  *)
Stops == cancel # {} ~> process # "running"

(* The queue with its lock is a bounded FIFO. *)
Abstract == INSTANCE BoundedQueue
    WITH Capacity <- MaxCount, sent <- add_count, got <- get_count, last <- LastReceived

RefinesBoundedQueue == Abstract!Spec
=============================================================================
