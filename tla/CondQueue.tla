----------------------------- MODULE CondQueue ------------------------------
(***************************************************************************)
(* The queue of sem2/sync/lab2.2/cond: a mutex and two condition           *)
(* variables.  queue_add() and queue_get() block while the queue is full   *)
(* or empty.  pthread_cond_wait() may wake up without a signal and is a    *)
(* cancellation point: a thread cancelled in it first takes the mutex      *)
(* again, and dies with it.                                                *)
(***************************************************************************)
EXTENDS QueueThreads

VARIABLES
    queue_not_full,   \* the threads waiting on q->queue_not_full
    queue_not_empty   \* the threads waiting on q->queue_not_empty

conds == <<queue_not_full, queue_not_empty>>
vars == <<threadVars, conds>>

ReaderLabels == {"new", "loop", "get", "get_check", "get_wait", "get_signal",
                 "get_unlock", "check", "cancelled", "dead"}
WriterLabels == {"new", "loop", "add", "add_check", "add_wait", "add_signal",
                 "add_unlock", "cancelled", "dead"}

Init ==
    /\ ThreadsInit
    /\ queue_not_full = {}
    /\ queue_not_empty = {}

-----------------------------------------------------------------------------
(* pthread_cond_wait() gives up the mutex and starts to wait in one step;  *)
(* a request that is already pending is acted on without waiting.          *)
cond_wait(t, waiters, label) ==
    /\ Unlock(t)
    /\ \/ /\ t \notin cancel
          /\ waiters' = waiters \cup {t}
          /\ Goto(t, label)
       \/ /\ t \in cancel
          /\ Goto(t, "cancelled")
          /\ UNCHANGED waiters

(* A waiting thread has been signalled once it is no waiter any more: it   *)
(* takes the mutex and tests its condition again.                          *)
cond_return(t, waiters, from, to) ==
    /\ pc[t] = from
    /\ t \notin waiters
    /\ Lock(t)
    /\ Goto(t, to)
    /\ UNCHANGED <<cancel, queue, locals, process, conds>>

cond_spurious(t, waiters) ==
    /\ t \in waiters
    /\ waiters' = waiters \ {t}
    /\ UNCHANGED threadVars

(* pthread_cond_signal() wakes one waiter if there is any. *)
cond_signal(waiters) ==
    \/ waiters = {} /\ UNCHANGED waiters
    \/ \E t \in waiters : waiters' = waiters \ {t}

(* A request that arrives during the wait ends it, unless the thread is    *)
(* faster to take a wakeup.                                                *)
cond_cancelled(t, waiters, from) ==
    /\ pc[t] = from
    /\ t \in cancel
    /\ waiters' = waiters \ {t}
    /\ Goto(t, "cancelled")
    /\ UNCHANGED <<cancel, mutex, queue, locals, process>>

cond_die(t) ==
    /\ pc[t] = "cancelled"
    /\ Lock(t)
    /\ Goto(t, "dead")
    /\ UNCHANGED <<cancel, queue, locals, process, conds>>

-----------------------------------------------------------------------------
(* queue_add() *)

add_lock ==
    /\ pc["writer"] = "add"
    /\ Lock("writer")
    /\ Assert(count <= MaxCount)
    /\ Goto("writer", "add_check")
    /\ UNCHANGED <<cancel, queue, locals, conds>>

add_wait ==
    /\ pc["writer"] = "add_check"
    /\ count = MaxCount
    /\ cond_wait("writer", queue_not_full, "add_wait")
    /\ UNCHANGED <<cancel, queue, locals, process, queue_not_empty>>

(* Fault of add_node: the test of the while loop is missing. *)
add_node_unguarded ==
    /\ pc["writer"] = "add_check"
    /\ AddNode("add_signal")
    /\ UNCHANGED <<cancel, mutex, locals, conds>>

add_node ==
    /\ pc["writer"] = "add_check"
    /\ count # MaxCount
    /\ AddNode("add_signal")
    /\ UNCHANGED <<cancel, mutex, locals, conds>>

(* Fault of add_signal: the call is missing. *)
add_signal_missing ==
    /\ pc["writer"] = "add_signal"
    /\ Goto("writer", "add_unlock")
    /\ UNCHANGED <<cancel, mutex, queue, locals, process, conds>>

add_signal ==
    /\ pc["writer"] = "add_signal"
    /\ cond_signal(queue_not_empty)
    /\ Goto("writer", "add_unlock")
    /\ UNCHANGED <<cancel, mutex, queue, locals, process, queue_not_full>>

(* queue_add() returns 1 and writer() goes on to the next value. *)
add_unlock ==
    /\ pc["writer"] = "add_unlock"
    /\ Unlock("writer")
    /\ next_val' = next_val + 1
    /\ Goto("writer", "loop")
    /\ UNCHANGED <<cancel, queue, val, expected, process, conds>>

queue_add ==
    \/ add_lock \/ add_wait \/ add_node \/ add_signal \/ add_unlock
    \/ cond_return("writer", queue_not_full, "add_wait", "add_check")
    \/ cond_cancelled("writer", queue_not_full, "add_wait") /\ UNCHANGED queue_not_empty
    \/ cond_die("writer")

-----------------------------------------------------------------------------
(* queue_get() *)

get_lock ==
    /\ pc["reader"] = "get"
    /\ Lock("reader")
    /\ Assert(count >= 0)
    /\ Goto("reader", "get_check")
    /\ UNCHANGED <<cancel, queue, locals, conds>>

get_wait ==
    /\ pc["reader"] = "get_check"
    /\ count = 0
    /\ cond_wait("reader", queue_not_empty, "get_wait")
    /\ UNCHANGED <<cancel, queue, locals, process, queue_not_full>>

(* Fault of get_node: the test of the while loop is missing. *)
get_node_unguarded ==
    /\ pc["reader"] = "get_check"
    /\ TakeNode("get_signal")
    /\ UNCHANGED <<cancel, mutex, next_val, expected, conds>>

get_node ==
    /\ pc["reader"] = "get_check"
    /\ count # 0
    /\ TakeNode("get_signal")
    /\ UNCHANGED <<cancel, mutex, next_val, expected, conds>>

get_signal ==
    /\ pc["reader"] = "get_signal"
    /\ cond_signal(queue_not_full)
    /\ Goto("reader", "get_unlock")
    /\ UNCHANGED <<cancel, mutex, queue, locals, process, queue_not_empty>>

get_unlock ==
    /\ pc["reader"] = "get_unlock"
    /\ Unlock("reader")
    /\ Goto("reader", "check")
    /\ UNCHANGED <<cancel, queue, locals, process, conds>>

queue_get ==
    \/ get_lock \/ get_wait \/ get_node \/ get_signal \/ get_unlock
    \/ cond_return("reader", queue_not_empty, "get_wait", "get_check")
    \/ cond_cancelled("reader", queue_not_empty, "get_wait") /\ UNCHANGED queue_not_full
    \/ cond_die("reader")

-----------------------------------------------------------------------------
MainStep == main /\ UNCHANGED conds
QmonitorStep == qmonitor /\ UNCHANGED conds
ReaderStep == (reader_loop /\ UNCHANGED conds) \/ queue_get
WriterStep == (writer_loop /\ UNCHANGED conds) \/ queue_add

SpuriousWakeup ==
    \/ cond_spurious("writer", queue_not_full) /\ UNCHANGED queue_not_empty
    \/ cond_spurious("reader", queue_not_empty) /\ UNCHANGED queue_not_full

Next ==
    /\ process = "running"
    /\ MainStep \/ QmonitorStep \/ ReaderStep \/ WriterStep \/ SpuriousWakeup

Spec == Init /\ [][Next]_vars

-----------------------------------------------------------------------------
(* Every thread that can run is run, and a thread that finds the mutex     *)
(* free again and again gets it in the end: the monitor sleeps for a       *)
(* second between two uses and the others block in their waits.            *)
Running(A) == process = "running" /\ A

FairSpec ==
    /\ Spec
    /\ WF_vars(Running(QmonitorStep)) /\ SF_vars(Running(print_lock /\ UNCHANGED conds))
    /\ WF_vars(Running(ReaderStep)) /\ SF_vars(Running(queue_get))
    /\ WF_vars(Running(WriterStep)) /\ SF_vars(Running(queue_add))
    /\ WF_vars(Running(main_awake /\ UNCHANGED conds))

-----------------------------------------------------------------------------
(* Properties *)

TypeOK ==
    /\ ThreadsTypeOK
    /\ pc["reader"] \in ReaderLabels
    /\ pc["writer"] \in WriterLabels
    /\ queue_not_full \subseteq {"writer"}
    /\ queue_not_empty \subseteq {"reader"}

(* No lost wakeup.  While the reader waits on queue_not_empty and the list *)
(* has a node, the writer that added it has its signal still to send; the  *)
(* same for a writer that waits although the list has room.                *)
NoLostWakeup ==
    /\ queue_not_empty # {} /\ items # <<>> => pc["writer"] = "add_signal"
    /\ queue_not_full # {} /\ Len(items) < MaxCount => pc["reader"] = "get_signal"

(* The mutex has been left locked by a reader or writer that is gone:      *)
(* every later pthread_mutex_lock() blocks for ever.                       *)
OrphanedMutex == mutex \in {"reader", "writer"} /\ pc[mutex] = "dead"

(* Every value added is received, unless main() stops the threads first,   *)
(* which it need not do: its sleep may last.                               *)
Delivered ==
    \A k \in 1..MaxWrites :
        add_count >= k ~> (get_count >= k \/ cancel # {} \/ process # "running")

(* Once main() has begun to stop its threads, it gets through its joins and *)
(* queue_destroy(), unless a thread was cancelled in pthread_cond_wait()   *)
(* and took the mutex along.                                               *)
StopsUnlessOrphaned == cancel # {} ~> (process # "running" \/ OrphanedMutex)

(* Once main() has begun to stop its threads, it gets through its joins and *)
(* queue_destroy(), and the process ends.                                  *)
Stops == cancel # {} ~> process # "running"

(* The queue with its mutex and its condition variables is a bounded FIFO. *)
Abstract == INSTANCE BoundedQueue
    WITH Capacity <- MaxCount, sent <- add_count, got <- get_count, last <- LastReceived

RefinesBoundedQueue == Abstract!Spec
=============================================================================
