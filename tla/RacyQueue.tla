----------------------------- MODULE RacyQueue ------------------------------
(***************************************************************************)
(* The queue of sem2/sync/lab2.1: the program of QueueThreads without any  *)
(* lock.  reader() and writer() race for first, last, count and the nodes, *)
(* so each load and each store of these is a step of its own.              *)
(*                                                                         *)
(* Node k is the one that carries value k; there is no other, as malloc()  *)
(* is called by the writer only and no dangling pointer survives a call of *)
(* it.  A node that has been freed may be written to or read by mistake:   *)
(* nothing is claimed after that (process = "undefined").                  *)
(***************************************************************************)
EXTENDS Integers, FiniteSets

CONSTANTS
    MaxCount,   \* q->max_count
    MaxWrites   \* bound: the writer adds the values 0 .. MaxWrites - 1

ASSUME RacyAssumption == MaxCount \in Nat \ {0} /\ MaxWrites \in Nat

VARIABLES
    pc,        \* the statement each thread is at
    cancel,    \* the threads that have been cancelled
    first,     \* q->first
    last,      \* q->last
    nxt,       \* the next field of each node
    freed,     \* the nodes that have been freed
    count,     \* q->count
    i,         \* writer: the value to be added
    wcount,    \* writer: count as loaded by q->count++
    tmp,       \* reader: the node to be taken
    rnext,     \* reader: the next field of that node as loaded
    rcount,    \* reader: count as loaded by q->count--
    val,       \* reader: the value received
    expected,  \* reader: the value that should come
    process    \* "running", or how the process has ended

writerVars == <<last, nxt, i, wcount>>
readerVars == <<freed, tmp, rnext, rcount, val, expected>>
vars == <<pc, cancel, first, count, writerVars, readerVars, process>>

NULL == -1
Values == 0..(MaxWrites - 1)
Threads == {"main", "qmonitor", "reader", "writer"}

MainLabels == {"queue_init", "create_reader", "create_writer", "cancel_reader",
               "cancel_writer", "join_reader", "join_writer", "cancel_qmonitor",
               "join_qmonitor", "free"}
WriterLabels == {"new", "loop", "add_first", "add_last", "add_publish", "add_link",
                 "add_advance", "add_load", "add_store", "dead"}
ReaderLabels == {"new", "loop", "get_first", "get_val", "get_next", "get_store",
                 "get_free", "get_load", "get_dec", "check", "dead"}

Init ==
    /\ pc = [t \in Threads |-> IF t = "main" THEN "queue_init" ELSE "new"]
    /\ cancel = {}
    /\ first = NULL /\ last = NULL
    /\ nxt = [k \in Values |-> NULL]
    /\ freed = {}
    /\ count = 0
    /\ i = 0 /\ wcount = 0
    /\ tmp = NULL /\ rnext = NULL /\ rcount = 0
    /\ val = -1 /\ expected = 0
    /\ process = "running"

Goto(t, label) == pc' = [pc EXCEPT ![t] = label]

-----------------------------------------------------------------------------
(* queue_add() *)

(* assert() at the head of an operation. *)
Assert(holds) == process' = IF holds THEN process ELSE "assert"

(* Fault of add_test: the test for a full queue lets one more value in. *)
add_test_late ==
    /\ pc["writer"] = "loop"
    /\ "writer" \notin cancel
    /\ i < MaxWrites
    /\ count <= MaxCount + 1
    /\ Assert(count <= MaxCount)
    /\ Goto("writer", "add_first")
    /\ UNCHANGED <<cancel, first, count, writerVars, readerVars>>

(* assert(), the test for a full queue, malloc() and the initialisation of *)
(* the node, which is the writer's own until it is linked.  A call that    *)
(* finds the queue full changes nothing.                                   *)
add_test ==
    /\ pc["writer"] = "loop"
    /\ "writer" \notin cancel
    /\ i < MaxWrites
    /\ count # MaxCount
    /\ \/ Assert(count <= MaxCount) /\ Goto("writer", "add_first")
       \/ process' = "aborted" /\ UNCHANGED pc
    /\ UNCHANGED <<cancel, first, count, writerVars, readerVars>>

add_first ==
    /\ pc["writer"] = "add_first"
    /\ Goto("writer", IF first = NULL THEN "add_last" ELSE "add_link")
    /\ UNCHANGED <<cancel, first, count, writerVars, readerVars, process>>

(* The queue was empty: q->first = q->last = new, from right to left. *)
add_last ==
    /\ pc["writer"] = "add_last"
    /\ last' = i
    /\ Goto("writer", "add_publish")
    /\ UNCHANGED <<cancel, first, count, nxt, i, wcount, readerVars, process>>

add_publish ==
    /\ pc["writer"] = "add_publish"
    /\ first' = i
    /\ Goto("writer", "add_load")
    /\ UNCHANGED <<cancel, count, writerVars, readerVars, process>>

(* q->last->next = new: the last node may have been taken since. *)
add_link ==
    /\ pc["writer"] = "add_link"
    /\ \/ /\ last \notin freed
          /\ nxt' = [nxt EXCEPT ![last] = i]
          /\ Goto("writer", "add_advance")
          /\ UNCHANGED process
       \/ last \in freed /\ process' = "undefined" /\ UNCHANGED <<pc, nxt>>
    /\ UNCHANGED <<cancel, first, count, last, i, wcount, readerVars>>

(* q->last = q->last->next reads the same node once more. *)
add_advance ==
    /\ pc["writer"] = "add_advance"
    /\ \/ /\ last \notin freed
          /\ last' = nxt[last]
          /\ Goto("writer", "add_load")
          /\ UNCHANGED process
       \/ last \in freed /\ process' = "undefined" /\ UNCHANGED <<pc, last>>
    /\ UNCHANGED <<cancel, first, count, nxt, i, wcount, readerVars>>

(* q->count++ is a load and a store. *)
add_load ==
    /\ pc["writer"] = "add_load"
    /\ wcount' = count
    /\ Goto("writer", "add_store")
    /\ UNCHANGED <<cancel, first, count, last, nxt, i, readerVars, process>>

(* Fault of add_store: both queue_add() and writer() advance i. *)
add_store_twice ==
    /\ pc["writer"] = "add_store"
    /\ count' = wcount + 1
    /\ i' = i + 2
    /\ Goto("writer", "loop")
    /\ UNCHANGED <<cancel, first, last, nxt, wcount, readerVars, process>>

add_store ==
    /\ pc["writer"] = "add_store"
    /\ count' = wcount + 1
    /\ i' = i + 1
    /\ Goto("writer", "loop")
    /\ UNCHANGED <<cancel, first, last, nxt, wcount, readerVars, process>>

queue_add ==
    \/ add_test \/ add_first \/ add_last \/ add_publish \/ add_link \/ add_advance
    \/ add_load \/ add_store

-----------------------------------------------------------------------------
(* queue_get() *)

(* assert() and the test for an empty queue, on which nothing is changed. *)
get_test ==
    /\ pc["reader"] = "loop"
    /\ "reader" \notin cancel
    /\ count # 0
    /\ Assert(count >= 0)
    /\ Goto("reader", "get_first")
    /\ UNCHANGED <<cancel, first, count, writerVars, readerVars>>

get_first ==
    /\ pc["reader"] = "get_first"
    /\ tmp' = first
    /\ Goto("reader", "get_val")
    /\ UNCHANGED <<cancel, first, count, writerVars, freed, rnext, rcount, val, expected, process>>

(* *val = tmp->val: count may be positive with an empty list. *)
get_val ==
    /\ pc["reader"] = "get_val"
    /\ \/ tmp # NULL /\ val' = tmp /\ Goto("reader", "get_next") /\ UNCHANGED process
       \/ tmp = NULL /\ process' = "segv" /\ UNCHANGED <<pc, val>>
    /\ UNCHANGED <<cancel, first, count, writerVars, freed, tmp, rnext, rcount, expected>>

(* q->first = q->first->next is a load and a store. *)
get_next ==
    /\ pc["reader"] = "get_next"
    /\ rnext' = nxt[first]
    /\ Goto("reader", "get_store")
    /\ UNCHANGED <<cancel, first, count, writerVars, freed, tmp, rcount, val, expected, process>>

(* Fault of get_store: first keeps pointing to the node that is freed next. *)
get_store_missing ==
    /\ pc["reader"] = "get_store"
    /\ Goto("reader", "get_free")
    /\ UNCHANGED <<cancel, first, count, writerVars, readerVars, process>>

(* Fault of get_store: two nodes are taken off the list at once. *)
get_store_two ==
    /\ pc["reader"] = "get_store"
    /\ first' = IF rnext = NULL THEN NULL ELSE nxt[rnext]
    /\ Goto("reader", "get_free")
    /\ UNCHANGED <<cancel, count, writerVars, readerVars, process>>

get_store ==
    /\ pc["reader"] = "get_store"
    /\ first' = rnext
    /\ Goto("reader", "get_free")
    /\ UNCHANGED <<cancel, count, writerVars, readerVars, process>>

get_free ==
    /\ pc["reader"] = "get_free"
    /\ freed' = freed \cup {tmp}
    /\ Goto("reader", "get_load")
    /\ UNCHANGED <<cancel, first, count, writerVars, tmp, rnext, rcount, val, expected, process>>

(* q->count-- is a load and a store. *)
get_load ==
    /\ pc["reader"] = "get_load"
    /\ rcount' = count
    /\ Goto("reader", "get_dec")
    /\ UNCHANGED <<cancel, first, count, writerVars, freed, tmp, rnext, val, expected, process>>

get_dec ==
    /\ pc["reader"] = "get_dec"
    /\ count' = rcount - 1
    /\ Goto("reader", "check")
    /\ UNCHANGED <<cancel, first, writerVars, readerVars, process>>

(* The end of reader()'s loop: expected is compared, and set anew. *)
reader_check ==
    /\ pc["reader"] = "check"
    /\ expected' = val + 1
    /\ Goto("reader", "loop")
    /\ UNCHANGED <<cancel, first, count, writerVars, freed, tmp, rnext, rcount, val, process>>

queue_get ==
    \/ get_test \/ get_first \/ get_val \/ get_next \/ get_store \/ get_free
    \/ get_load \/ get_dec \/ reader_check

-----------------------------------------------------------------------------
(* main(), which starts and stops the threads.  The monitor only prints;   *)
(* what matters is that it is stopped before q is freed.                   *)

dataVars == <<first, count, writerVars, readerVars>>

(* A cancelled thread dies at the head of its loop. *)
testcancel(t) ==
    /\ pc[t] = "loop"
    /\ t \in cancel
    /\ Goto(t, "dead")
    /\ UNCHANGED <<cancel, dataVars, process>>

(* A thread that cannot be created ends the process. *)
pthread_create(t, from, to, failure) ==
    /\ pc["main"] = from
    /\ \/ pc' = [pc EXCEPT !["main"] = to, ![t] = "loop"] /\ UNCHANGED process
       \/ process' = failure /\ UNCHANGED pc
    /\ UNCHANGED <<cancel, dataVars>>

pthread_cancel(t, from, to) ==
    /\ pc["main"] = from
    /\ cancel' = cancel \cup {t}
    /\ Goto("main", to)
    /\ UNCHANGED <<dataVars, process>>

pthread_join(t, from, to) ==
    /\ pc["main"] = from
    /\ pc[t] = "dead"
    /\ Goto("main", to)
    /\ UNCHANGED <<cancel, dataVars, process>>

queue_init == pthread_create("qmonitor", "queue_init", "create_reader", "aborted")

main_threads ==
    \/ pthread_create("reader", "create_reader", "create_writer", "exited")
    \/ pthread_create("writer", "create_writer", "cancel_reader", "exited")
    \/ pthread_cancel("reader", "cancel_reader", "cancel_writer")
    \/ pthread_cancel("writer", "cancel_writer", "join_reader")
    \/ pthread_join("reader", "join_reader", "join_writer")
    \/ pthread_join("writer", "join_writer", "cancel_qmonitor")

(* The nodes that q->first leads to: each next field is NULL or the next   *)
(* value's node.                                                           *)
Reachable ==
    {k \in Values : first # NULL /\ first <= k /\ \A j \in first..(k - 1) : nxt[j] = j + 1}

(* queue_destroy() stops the monitor and frees the nodes it can reach. *)
queue_destroy ==
    \/ pthread_cancel("qmonitor", "cancel_qmonitor", "join_qmonitor")
    \/ pthread_join("qmonitor", "join_qmonitor", "free")
    \/ /\ pc["main"] = "free"
       /\ process' = IF Reachable \cap freed = {} THEN "exited" ELSE "undefined"
       /\ freed' = freed \cup Reachable
       /\ UNCHANGED <<pc, cancel, first, count, writerVars, tmp, rnext, rcount, val, expected>>

main == queue_init \/ main_threads \/ queue_destroy

-----------------------------------------------------------------------------
reader == testcancel("reader") \/ queue_get
writer == testcancel("writer") \/ queue_add
qmonitor == testcancel("qmonitor")

Next ==
    /\ process = "running"
    /\ main \/ qmonitor \/ reader \/ writer

Spec == Init /\ [][Next]_vars

-----------------------------------------------------------------------------
(* Properties *)

TypeOK ==
    /\ DOMAIN pc = Threads
    /\ pc["main"] \in MainLabels
    /\ pc["qmonitor"] \in {"new", "loop", "dead"}
    /\ pc["writer"] \in WriterLabels
    /\ pc["reader"] \in ReaderLabels
    /\ cancel \subseteq Threads
    /\ {first, last, tmp, rnext} \subseteq Values \cup {NULL}
    /\ nxt \in [Values -> Values \cup {NULL}]
    /\ freed \subseteq Values
    /\ {count, wcount, rcount} \subseteq Int
    /\ i \in 0..MaxWrites
    /\ val \in Values \cup {-1} /\ expected \in 0..MaxWrites
    /\ process \in {"running", "aborted", "exited", "assert", "segv", "undefined"}

(* Neither assert() fails: count loses updates and need not be the length  *)
(* of the list, but with one reader and one writer it cannot leave the     *)
(* range 0..max_count.                                                     *)
AssertsHold == process # "assert"

(* What the reader gets may lack values, but none comes twice and none     *)
(* comes after a later one.                                                *)
NeverTwice == pc["reader"] = "check" => val >= expected

(* The nodes in the list, or about to be entered by the writer. *)
Added == {k \in Values : k < i} \cup
    (IF pc["writer"] \in {"add_advance", "add_load", "add_store"} THEN {i} ELSE {})

(* The nodes that nobody will ever take or free. *)
Lost == Added \ (Reachable \cup freed \cup
                 (IF pc["reader"] = "get_free" THEN {tmp} ELSE {}))

(* The two sides get at each other's nodes only at the end of the list: as *)
(* long as q->first is left with two nodes or more no node is lost, and none *)
(* is used after it has been freed.                                        *)
HarmlessUnlessEmptied ==
    [][Lost' # Lost \/ process' = "undefined" => Cardinality(Reachable') <= 1]_vars
=============================================================================
