---------------------------- MODULE QueueThreads ----------------------------
(***************************************************************************)
(* The program around the synchronised queues of sem2/sync/lab2.2: main(), *)
(* reader() and writer() of queue-threads.c, and the parts of queue.c that *)
(* do not depend on the primitive: queue_init(), queue_destroy() and       *)
(* qmonitor().  CondQueue and LockedQueue extend this module with          *)
(* queue_add() and queue_get() for their primitive.                        *)
(*                                                                         *)
(* A linked list is a sequence of the values in its nodes, from q->first   *)
(* on; q->first is NULL exactly when the sequence is empty.  The attempt   *)
(* counters are only ever printed and are left out.                        *)
(***************************************************************************)
EXTENDS Integers, Sequences

CONSTANTS
    MaxCount,   \* q->max_count, the argument of queue_init()
    MaxWrites   \* bound: calls of queue_add() that writer() makes

ASSUME QueueAssumption == MaxCount \in Nat \ {0} /\ MaxWrites \in Nat

VARIABLES
    pc,         \* the statement each thread is at
    cancel,     \* the threads with a pending pthread_cancel()
    mutex,      \* the thread that holds the queue's lock, or Nobody
    items,      \* the values in the nodes of the list
    count,      \* q->count
    add_count,  \* q->add_count
    get_count,  \* q->get_count
    next_val,   \* i of writer(), the value it adds next
    val,        \* val of reader(), the value it got last
    expected,   \* expected of reader()
    process     \* whether the process runs, and if not, how it ended

queue == <<items, count, add_count, get_count>>
locals == <<next_val, val, expected>>
threadVars == <<pc, cancel, mutex, queue, locals, process>>

Threads == {"main", "reader", "writer", "qmonitor"}
Nobody == "nobody"
Outcomes == {"running", "exited", "aborted", "assert", "segv"}

MainLabels == {"queue_init", "create_reader", "create_writer",
               "cancel_reader", "cancel_writer", "join_reader", "join_writer",
               "cancel_qmonitor", "join_qmonitor", "free", "pthread_exit"}
QmonitorLabels == {"new", "hello", "stats", "print", "sleep", "dead"}

-----------------------------------------------------------------------------
(* The state once queue_init() has filled in the fields of q and main() is *)
(* about to start its threads.                                             *)
ThreadsInit ==
    /\ pc = [t \in Threads |-> IF t = "main" THEN "queue_init" ELSE "new"]
    /\ cancel = {}
    /\ mutex = Nobody
    /\ items = <<>>
    /\ count = 0 /\ add_count = 0 /\ get_count = 0
    /\ next_val = 0 /\ val = -1 /\ expected = 0
    /\ process = "running"

Goto(t, label) == pc' = [pc EXCEPT ![t] = label]

(* pthread_mutex_lock(), pthread_spin_lock(), sem_wait() on the free lock. *)
Lock(t) == mutex = Nobody /\ mutex' = t

Unlock(t) == mutex' = Nobody

(* The thread acts on its cancellation.  No cleanup handler is installed,  *)
(* so a lock that it holds stays locked.                                   *)
Die(t) == t \in cancel /\ Goto(t, "dead")

-----------------------------------------------------------------------------
(* main() *)

(* main() starts thread t, which begins at label first, or cannot: the     *)
(* process then ends as given by failure.                                  *)
pthread_create(t, from, to, first, failure) ==
    /\ pc["main"] = from
    /\ \/ /\ pc' = [pc EXCEPT !["main"] = to, ![t] = first]
          /\ UNCHANGED process
       \/ process' = failure /\ UNCHANGED pc
    /\ UNCHANGED <<cancel, mutex, queue, locals>>

pthread_cancel(t, from, to) ==
    /\ pc["main"] = from
    /\ cancel' = cancel \cup {t}
    /\ Goto("main", to)
    /\ UNCHANGED <<mutex, queue, locals, process>>

pthread_join(t, from, to) ==
    /\ pc["main"] = from
    /\ pc[t] = "dead"
    /\ Goto("main", to)
    /\ UNCHANGED <<cancel, mutex, queue, locals, process>>

(* queue_init() aborts when it cannot start its monitor thread. *)
queue_init ==
    pthread_create("qmonitor", "queue_init", "create_reader", "hello", "aborted")

(* main() returns -1 when it cannot start a thread, which ends the process. *)
main_create ==
    \/ pthread_create("reader", "create_reader", "create_writer", "loop", "exited")
    \/ pthread_create("writer", "create_writer", "cancel_reader", "loop", "exited")

(* Faults of main_stop: the joins are forgotten; the writer is not cancelled. *)
main_stop_unjoined ==
    \/ pthread_cancel("reader", "cancel_reader", "cancel_writer")
    \/ pthread_cancel("writer", "cancel_writer", "cancel_qmonitor")

main_stop_reader_only ==
    \/ pthread_cancel("reader", "cancel_reader", "join_reader")
    \/ pthread_join("reader", "join_reader", "join_writer")
    \/ pthread_join("writer", "join_writer", "cancel_qmonitor")

(* After its sleep, which may last as long as it likes, main() cancels both *)
(* threads and waits for both.                                             *)
main_stop ==
    \/ pthread_cancel("reader", "cancel_reader", "cancel_writer")
    \/ pthread_cancel("writer", "cancel_writer", "join_reader")
    \/ pthread_join("reader", "join_reader", "join_writer")
    \/ pthread_join("writer", "join_writer", "cancel_qmonitor")

(* queue_destroy() stops the monitor, then frees the nodes and q: from     *)
(* label pthread_exit on the queue does not exist any more.                *)
queue_destroy ==
    \/ pthread_cancel("qmonitor", "cancel_qmonitor", "join_qmonitor")
    \/ pthread_join("qmonitor", "join_qmonitor", "free")
    \/ /\ pc["main"] = "free"
       /\ Goto("main", "pthread_exit")
       /\ UNCHANGED <<cancel, mutex, queue, locals, process>>

(* pthread_exit(NULL) of the last thread ends the process. *)
main_exit ==
    /\ pc["main"] = "pthread_exit"
    /\ \A t \in Threads \ {"main"} : pc[t] \in {"new", "dead"}
    /\ process' = "exited"
    /\ UNCHANGED <<pc, cancel, mutex, queue, locals>>

main == queue_init \/ main_create \/ main_stop \/ queue_destroy \/ main_exit

(* main() other than waking up from its sleep, which may last for ever. *)
main_awake == pc["main"] # "cancel_reader" /\ main

-----------------------------------------------------------------------------
(* qmonitor(): a greeting, then queue_print_stats() and sleep(1), for      *)
(* ever.  sleep() is a cancellation point, and printf(), which also runs   *)
(* with the queue locked, may be one: a cancelled monitor dies in it or    *)
(* gets past it.                                                           *)

qmonitor_start ==
    /\ pc["qmonitor"] = "hello"
    /\ Goto("qmonitor", "stats")
    /\ UNCHANGED <<cancel, mutex, queue, locals, process>>

print_lock ==
    /\ pc["qmonitor"] = "stats"
    /\ Lock("qmonitor")
    /\ Goto("qmonitor", "print")
    /\ UNCHANGED <<cancel, queue, locals, process>>

print_unlock ==
    /\ pc["qmonitor"] = "print"
    /\ Unlock("qmonitor")
    /\ Goto("qmonitor", "sleep")
    /\ UNCHANGED <<cancel, queue, locals, process>>

qmonitor_sleep ==
    /\ pc["qmonitor"] = "sleep"
    /\ "qmonitor" \notin cancel
    /\ Goto("qmonitor", "stats")
    /\ UNCHANGED <<cancel, mutex, queue, locals, process>>

qmonitor_cancelled ==
    /\ pc["qmonitor"] \in {"hello", "print", "sleep"}
    /\ Die("qmonitor")
    /\ UNCHANGED <<cancel, mutex, queue, locals, process>>

qmonitor ==
    qmonitor_start \/ print_lock \/ print_unlock \/ qmonitor_sleep \/ qmonitor_cancelled

-----------------------------------------------------------------------------
(* The loops of reader() and writer() around queue_get() and queue_add(),  *)
(* which start at labels get and add and return to check and loop.         *)

testcancel(t) ==
    /\ pc[t] = "loop"
    /\ Die(t)
    /\ UNCHANGED <<cancel, mutex, queue, locals, process>>

reader_get ==
    /\ pc["reader"] = "loop"
    /\ "reader" \notin cancel
    /\ val' = -1
    /\ Goto("reader", "get")
    /\ UNCHANGED <<cancel, mutex, queue, next_val, expected, process>>

(* The value that reader() has received last: in val until it has been     *)
(* checked, and one less than expected from then on.                       *)
LastReceived ==
    IF pc["reader"] \in {"get_signal", "get_unlock", "check"} THEN val ELSE expected - 1

(* The test of expected against val only prints; see NoOrderError. *)
reader_check ==
    /\ pc["reader"] = "check"
    /\ expected' = val + 1
    /\ Goto("reader", "loop")
    /\ UNCHANGED <<cancel, mutex, queue, next_val, val, process>>

writer_add ==
    /\ pc["writer"] = "loop"
    /\ "writer" \notin cancel
    /\ next_val < MaxWrites
    /\ Goto("writer", "add")
    /\ UNCHANGED <<cancel, mutex, queue, locals, process>>

reader_loop == testcancel("reader") \/ reader_get \/ reader_check
writer_loop == testcancel("writer") \/ writer_add

-----------------------------------------------------------------------------
(* The list operations that queue_add() and queue_get() share.             *)

(* assert() at the head of an operation. *)
Assert(holds) == process' = IF holds THEN process ELSE "assert"

(* Fault of AddNode: the new node becomes the first one. *)
AddNode_first(label) ==
    /\ items' = <<next_val>> \o items
    /\ count' = count + 1
    /\ add_count' = add_count + 1
    /\ Goto("writer", label)
    /\ UNCHANGED <<get_count, process>>

(* A new node at the end of the list, unless malloc() fails: abort().      *)
AddNode(label) ==
    \/ /\ items' = Append(items, next_val)
       /\ count' = count + 1
       /\ add_count' = add_count + 1
       /\ Goto("writer", label)
       /\ UNCHANGED <<get_count, process>>
    \/ process' = "aborted" /\ UNCHANGED <<pc, queue>>

(* Fault of TakeNode: the wrong counter is updated. *)
TakeNode_miscounted(label) ==
    /\ items # <<>>
    /\ val' = Head(items)
    /\ items' = Tail(items)
    /\ count' = count - 1
    /\ get_count' = get_count - 1
    /\ Goto("reader", label)
    /\ UNCHANGED <<add_count, process>>

(* The first node is taken off the list; there is none if q->first is NULL. *)
TakeNode(label) ==
    \/ /\ items # <<>>
       /\ val' = Head(items)
       /\ items' = Tail(items)
       /\ count' = count - 1
       /\ get_count' = get_count + 1
       /\ Goto("reader", label)
       /\ UNCHANGED <<add_count, process>>
    \/ /\ items = <<>>
       /\ process' = "segv"
       /\ UNCHANGED <<pc, queue, val>>

-----------------------------------------------------------------------------
(* Properties of every queue built on this module.                         *)

ThreadsTypeOK ==
    /\ DOMAIN pc = Threads
    /\ pc["main"] \in MainLabels
    /\ pc["qmonitor"] \in QmonitorLabels
    /\ cancel \subseteq Threads \ {"main"}
    /\ mutex \in (Threads \ {"main"}) \cup {Nobody}
    /\ items \in Seq(Nat)
    /\ count \in Int /\ add_count \in Nat /\ get_count \in Nat
    /\ next_val \in Nat /\ val \in Int /\ expected \in Int
    /\ process \in Outcomes

(* Neither assert() of queue_add() and queue_get() ever fails and          *)
(* queue_get() never dereferences a NULL q->first.                         *)
NoCrash == process \notin {"assert", "segv"}

(* reader() never prints "ERROR: get value is ... but expected": values    *)
(* come out of the queue in the order written, none lost, none twice.      *)
NoOrderError == pc["reader"] = "check" => val = expected

(* Once queue_destroy() has freed the queue no thread is left that could   *)
(* lock it, read its counters or walk its list.                            *)
NoUseAfterFree ==
    pc["main"] = "pthread_exit" =>
        \A t \in Threads \ {"main"} : pc[t] = "dead"

(* The lock is left locked by a dead monitor only when nobody is left who  *)
(* would ever ask for it: main() cancels the monitor last.                 *)
MonitorOrphanHarmless ==
    mutex = "qmonitor" /\ pc["qmonitor"] = "dead" =>
        pc["reader"] = "dead" /\ pc["writer"] = "dead"
=============================================================================
