----------------------------- MODULE CustomSync -----------------------------
(***************************************************************************)
(* The spinlock and the futex mutex of sem2/sync/castom/mysync.c, in the   *)
(* program of main.c: threads that each take the lock Iters times around   *)
(* shared_counter++.  main.c uses the mutex; its lines for the spinlock    *)
(* are the commented-out alternative, selected here by useMutex.           *)
(*                                                                         *)
(* The futex word is m->lock and the padding after it, which is zero: it   *)
(* reads 1 when the flag is set and 0 when it is clear.                    *)
(***************************************************************************)
EXTENDS Integers

CONSTANTS
    N,          \* how many threads main() creates
    Iters       \* how often each thread increments the counter

ASSUME SyncAssumption ==
    N \in Nat /\ Iters \in Nat \ {0}

VARIABLES
    useMutex,        \* which program runs: mutex_t m or spin_t s
    pc,              \* the statement each thread is at
    lock,            \* the atomic_flag
    tid,             \* m->tid
    shared_counter,
    loaded,          \* the value each thread has read in shared_counter++
    i,               \* the loop variable of thread_func() in each thread
    process          \* whether the process runs, and if not, how it ended

vars == <<useMutex, pc, lock, tid, shared_counter, loaded, i, process>>

Threads == 1..N
Nobody == 0

Labels == {"new", "lock", "futex_wait", "asleep", "own", "load", "store",
           "unlock", "clear", "wake", "done"}

(* mutex_init() or spin_init() has run. *)
Init ==
    /\ useMutex \in BOOLEAN
    /\ pc = [t \in Threads |-> "new"]
    /\ lock = FALSE
    /\ tid = Nobody
    /\ shared_counter = 0
    /\ loaded = [t \in Threads |-> 0]
    /\ i = [t \in Threads |-> 0]
    /\ process = "running"

Goto(t, label) == pc' = [pc EXCEPT ![t] = label]

(* Fault of Again: one iteration too many. *)
Again_once_more(t) == IF i[t] < Iters THEN "lock" ELSE "done"

(* Where the loop of thread_func() goes on after an iteration. *)
Again(t) == IF i[t] + 1 < Iters THEN "lock" ELSE "done"

-----------------------------------------------------------------------------
(* Fault of test_and_set: the old value of the flag is ignored. *)
test_and_set_blind(t, taken, failed) ==
    /\ pc[t] = "lock"
    /\ lock' = TRUE
    /\ Goto(t, taken)
    /\ UNCHANGED <<tid, shared_counter, loaded, i, process>>

(* atomic_flag_test_and_set(): the flag is set afterwards, and the thread  *)
(* has the lock if it was clear before.                                    *)
test_and_set(t, taken, failed) ==
    /\ pc[t] = "lock"
    /\ lock' = TRUE
    /\ Goto(t, IF lock THEN failed ELSE taken)
    /\ UNCHANGED <<tid, shared_counter, loaded, i, process>>

spin_lock(t) == ~useMutex /\ test_and_set(t, "load", "lock")

(* Fault of mutex_lock: the thread enters its id before it has the lock. *)
mutex_lock_tid_first(t) ==
    /\ useMutex
    /\ pc[t] = "lock"
    /\ lock' = TRUE
    /\ tid' = t
    /\ Goto(t, IF lock THEN "futex_wait" ELSE "own")
    /\ UNCHANGED <<shared_counter, loaded, i, process>>

mutex_lock(t) == useMutex /\ test_and_set(t, "own", "futex_wait")

(* FUTEX_WAIT with the expected value 0: the kernel puts the thread to     *)
(* sleep if the flag is clear, and fails with EAGAIN if it is set.         *)
futex_wait(t) ==
    /\ pc[t] = "futex_wait"
    /\ Goto(t, IF lock THEN "lock" ELSE "asleep")
    /\ UNCHANGED <<lock, tid, shared_counter, loaded, i, process>>

mutex_own(t) ==
    /\ pc[t] = "own"
    /\ tid' = t
    /\ Goto(t, "load")
    /\ UNCHANGED <<lock, shared_counter, loaded, i, process>>

-----------------------------------------------------------------------------
(* shared_counter++ reads and writes in two steps. *)
load_counter(t) ==
    /\ pc[t] = "load"
    /\ loaded' = [loaded EXCEPT ![t] = shared_counter]
    /\ Goto(t, "store")
    /\ UNCHANGED <<lock, tid, shared_counter, i, process>>

store_counter(t) ==
    /\ pc[t] = "store"
    /\ shared_counter' = loaded[t] + 1
    /\ Goto(t, "unlock")
    /\ UNCHANGED <<lock, tid, loaded, i, process>>

-----------------------------------------------------------------------------
spin_unlock(t) ==
    /\ ~useMutex
    /\ pc[t] = "unlock"
    /\ lock' = FALSE
    /\ i' = [i EXCEPT ![t] = @ + 1]
    /\ Goto(t, Again(t))
    /\ UNCHANGED <<tid, shared_counter, loaded, process>>

(* mutex_unlock() aborts the process when the caller is not the owner. *)
mutex_disown(t) ==
    /\ useMutex
    /\ pc[t] = "unlock"
    /\ \/ tid = t /\ tid' = Nobody /\ Goto(t, "clear") /\ UNCHANGED process
       \/ tid # t /\ process' = "aborted" /\ UNCHANGED <<pc, tid>>
    /\ UNCHANGED <<lock, shared_counter, loaded, i>>

(* Fault of mutex_clear: the flag stays set. *)
mutex_clear_missing(t) ==
    /\ pc[t] = "clear"
    /\ Goto(t, "wake")
    /\ UNCHANGED <<lock, tid, shared_counter, loaded, i, process>>

mutex_clear(t) ==
    /\ pc[t] = "clear"
    /\ lock' = FALSE
    /\ Goto(t, "wake")
    /\ UNCHANGED <<tid, shared_counter, loaded, i, process>>

(* FUTEX_WAKE wakes one of the threads asleep on the flag, if there is any; *)
(* that thread goes back to the head of its loop in mutex_lock().          *)
futex_wake(t) ==
    LET asleep == {u \in Threads : pc[u] = "asleep"}
    IN  /\ pc[t] = "wake"
        /\ i' = [i EXCEPT ![t] = @ + 1]
        /\ \/ asleep = {} /\ Goto(t, Again(t))
           \/ \E u \in asleep : pc' = [pc EXCEPT ![t] = Again(t), ![u] = "lock"]
        /\ UNCHANGED <<lock, tid, shared_counter, loaded, process>>

-----------------------------------------------------------------------------
(* main() creates the threads; when it cannot, it returns and the process  *)
(* ends.  Having joined them all it prints shared_counter.                 *)
pthread_create(t) ==
    /\ pc[t] = "new"
    /\ \/ Goto(t, "lock") /\ UNCHANGED process
       \/ process' = "failed" /\ UNCHANGED pc
    /\ UNCHANGED <<lock, tid, shared_counter, loaded, i>>

main_print ==
    /\ \A t \in Threads : pc[t] = "done"
    /\ process' = "finished"
    /\ UNCHANGED <<pc, lock, tid, shared_counter, loaded, i>>

thread_func(t) ==
    \/ spin_lock(t) \/ spin_unlock(t)
    \/ mutex_lock(t) \/ futex_wait(t) \/ mutex_own(t)
    \/ load_counter(t) \/ store_counter(t)
    \/ mutex_disown(t) \/ mutex_clear(t) \/ futex_wake(t)

main == main_print \/ \E t \in Threads : pthread_create(t)

Next ==
    /\ process = "running"
    /\ main \/ \E t \in Threads : thread_func(t)
    /\ UNCHANGED useMutex

Spec == Init /\ [][Next]_vars

(* The kernel runs every thread that is not asleep. *)
Running(A) == process = "running" /\ A /\ UNCHANGED useMutex

FairSpec ==
    /\ Spec
    /\ WF_vars(Running(main))
    /\ \A t \in Threads : WF_vars(Running(thread_func(t)))

-----------------------------------------------------------------------------
(* Properties *)

TypeOK ==
    /\ useMutex \in BOOLEAN
    /\ pc \in [Threads -> Labels]
    /\ lock \in BOOLEAN
    /\ tid \in Threads \cup {Nobody}
    /\ shared_counter \in Nat
    /\ loaded \in [Threads -> Nat]
    /\ i \in [Threads -> 0..Iters]
    /\ process \in {"running", "finished", "failed", "aborted"}

(* The threads that have taken the lock and have not cleared the flag yet. *)
Holders == {t \in Threads : pc[t] \in {"own", "load", "store", "unlock", "clear"}}

(* mutex_lock() and spin_lock() let in one thread at a time.               *)
MutualExclusion == \A t, u \in Holders : t = u

(* mutex_unlock() never prints "INVALID MUTEX UNLOCK": m->tid, which is    *)
(* written outside of any atomic operation, names the caller.              *)
OwnerUnlocks == process # "aborted"

(* No increment is lost: what a thread has read in shared_counter++ is     *)
(* still the counter's value when it writes.                               *)
NoStaleLoad == \A t \in Threads : pc[t] = "store" => loaded[t] = shared_counter

(* The result that main() prints is the number of all increments.          *)
ResultExact ==
    process = "finished" => shared_counter = N * Iters

(* The program with the spinlock always ends.  When the threads of the     *)
(* program with the mutex stop for ever, it is because some of them sleep  *)
(* on a flag that is clear and all others have returned: none is ever left *)
(* waiting for a lock that is held.                                        *)
FinishesUnlessAsleep ==
    <>(\/ process # "running"
       \/ useMutex /\ ~lock /\ \A t \in Threads : pc[t] \in {"done", "asleep"})

(* All threads get through their loops and main() past its joins.          *)
Finishes == <>(process # "running")
=============================================================================
