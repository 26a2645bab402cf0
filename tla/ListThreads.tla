---------------------------- MODULE ListThreads -----------------------------
(***************************************************************************)
(* The program of sem2/sync/list: a list with one mutex per node, threads  *)
(* that walk along it and compare the records of neighbours, threads that  *)
(* walk along it and exchange them, a thread that prints statistics, and   *)
(* main(), which stops them all.                                           *)
(*                                                                         *)
(* The nodes never move: list_swap() exchanges their records.  A node is   *)
(* therefore its place 1..N in the list, and a record is the number that   *)
(* main() printed into it.  What the counting threads count is only        *)
(* printed and is left out; what they may see is not.                      *)
(***************************************************************************)
EXTENDS Integers, Sequences, Functions

CONSTANTS
    N,         \* LIST_SIZE
    Counters,  \* inc_thread, dec_thread and eq_thread, in the order of creation
    Swappers   \* the three swap_threads, in the order of creation

Walkers == Range(Counters) \cup Range(Swappers)
Threads == Walkers \cup {"print"}
Order == Counters \o Swappers \o <<"print">>
Nodes == 1..N

(* A list of one node would never be walked along, and no walker reach its *)
(* pthread_testcancel().                                                   *)
ASSUME ListAssumption ==
    /\ N \in Nat /\ N >= 2
    /\ Order \in Seq(Threads)
    /\ \A i, j \in DOMAIN Order : Order[i] = Order[j] => i = j
    /\ Counters \in Seq(Walkers) /\ Swappers \in Seq(Walkers)
    /\ "print" \notin Walkers /\ "nobody" \notin Walkers

VARIABLES
    pc,       \* the statement each thread is at
    cur,      \* a walker's current
    tmp,      \* the record list_swap() has set aside
    value,    \* the records, by place
    lock,     \* the holder of each node's mutex
    spin,     \* the spinlocks of stat that print_stat() holds
    cancel,   \* the threads that have been cancelled
    main_pc,  \* what main() does and to which thread of Order
    process   \* "running", "exited" or "undefined"

vars == <<pc, cur, tmp, value, lock, spin, cancel, main_pc, process>>

Nobody == "nobody"
WalkerLabels == {"new", "first", "test", "lock_current", "lock_next", "compare",
                 "swap", "copy", "attempt", "unlock_next", "stat", "dead"}
PrintLabels == {"new", "sleep", "lock", "printf", "unlock", "dead"}

(* list_insert() puts each new number at the head of the list. *)
Init ==
    /\ pc = [t \in Threads |-> "new"]
    /\ cur = [t \in Walkers |-> 1]
    /\ tmp = [t \in Walkers |-> 0]
    /\ value = [i \in Nodes |-> N - i]
    /\ lock = [i \in Nodes |-> Nobody]
    /\ spin = {}
    /\ cancel = {}
    /\ main_pc = <<"create", 1>>
    /\ process = "running"

Goto(t, label) == pc' = [pc EXCEPT ![t] = label]
Lock(t, i) == lock[i] = Nobody /\ lock' = [lock EXCEPT ![i] = t]
Unlock(i) == lock' = [lock EXCEPT ![i] = Nobody]

-----------------------------------------------------------------------------
(* What all walkers do.                                                    *)

(* current = list->first, under that node's mutex. *)
read_first(t) ==
    /\ pc[t] = "first"
    /\ lock[1] = Nobody
    /\ Goto(t, "test")
    /\ UNCHANGED <<cur, tmp, value, lock, spin, cancel, main_pc, process>>

(* The only cancellation point of a walker: it holds no lock there. *)
testcancel(t) ==
    /\ pc[t] = "test"
    /\ Goto(t, IF t \in cancel THEN "dead" ELSE "lock_current")
    /\ UNCHANGED <<cur, tmp, value, lock, spin, cancel, main_pc, process>>

lock_current(t) ==
    /\ pc[t] = "lock_current"
    /\ Lock(t, cur[t])
    /\ Goto(t, "lock_next")
    /\ UNCHANGED <<cur, tmp, value, spin, cancel, main_pc, process>>

(* Fault of lock_next: the second node is not locked. *)
lock_next_missing(t) ==
    /\ pc[t] = "lock_next"
    /\ Goto(t, IF t \in Range(Counters) THEN "compare" ELSE "swap")
    /\ UNCHANGED <<cur, tmp, value, lock, spin, cancel, main_pc, process>>

lock_next(t) ==
    /\ pc[t] = "lock_next"
    /\ Lock(t, cur[t] + 1)
    /\ Goto(t, IF t \in Range(Counters) THEN "compare" ELSE "swap")
    /\ UNCHANGED <<cur, tmp, value, spin, cancel, main_pc, process>>

(* Fault of unlock_next: the loop tests current and not current->next. *)
unlock_next_past(t) ==
    /\ pc[t] = "unlock_next"
    /\ Unlock(cur[t] + 1)
    /\ cur' = [cur EXCEPT ![t] = @ + 1]
    /\ Goto(t, "test")
    /\ UNCHANGED <<tmp, value, spin, cancel, main_pc, process>>

(* The second unlock, and the step to the next pair of nodes; the last     *)
(* node has no next one and ends the pass.                                 *)
unlock_next(t) ==
    /\ pc[t] = "unlock_next"
    /\ Unlock(cur[t] + 1)
    /\ \/ /\ cur[t] + 1 < N
          /\ cur' = [cur EXCEPT ![t] = @ + 1]
          /\ Goto(t, "test")
       \/ /\ cur[t] + 1 = N
          /\ cur' = [cur EXCEPT ![t] = 1]
          /\ Goto(t, IF t \in Range(Counters) THEN "stat" ELSE "first")
    /\ UNCHANGED <<tmp, value, spin, cancel, main_pc, process>>

walk(t) ==
    read_first(t) \/ testcancel(t) \/ lock_current(t) \/ lock_next(t) \/ unlock_next(t)

-----------------------------------------------------------------------------
(* inc_thread(), dec_thread() and eq_thread() read two records under both  *)
(* locks and count a pass under a spinlock of their own.                   *)

compare(t) ==
    /\ pc[t] = "compare"
    /\ Unlock(cur[t])
    /\ Goto(t, "unlock_next")
    /\ UNCHANGED <<cur, tmp, value, spin, cancel, main_pc, process>>

count_pass(t) ==
    /\ pc[t] = "stat"
    /\ t \notin spin
    /\ Goto(t, "first")
    /\ UNCHANGED <<cur, tmp, value, lock, spin, cancel, main_pc, process>>

-----------------------------------------------------------------------------
(* swap_thread() exchanges two records or not, as rand() says.             *)

swap_skipped(t) ==
    /\ pc[t] = "swap"
    /\ Unlock(cur[t])
    /\ Goto(t, "unlock_next")
    /\ UNCHANGED <<cur, tmp, value, spin, cancel, main_pc, process>>

(* list_swap(): the first two copies. *)
list_swap_first(t) ==
    /\ pc[t] = "swap"
    /\ tmp' = [tmp EXCEPT ![t] = value[cur[t]]]
    /\ value' = [value EXCEPT ![cur[t]] = value[cur[t] + 1]]
    /\ Goto(t, "copy")
    /\ UNCHANGED <<cur, lock, spin, cancel, main_pc, process>>

(* Fault of list_swap_second: the record comes from the first node. *)
list_swap_second_again(t) ==
    /\ pc[t] = "copy"
    /\ value' = [value EXCEPT ![cur[t] + 1] = value[cur[t]]]
    /\ tmp' = [tmp EXCEPT ![t] = 0]
    /\ Goto(t, "attempt")
    /\ UNCHANGED <<cur, lock, spin, cancel, main_pc, process>>

(* list_swap(): the third copy. *)
list_swap_second(t) ==
    /\ pc[t] = "copy"
    /\ value' = [value EXCEPT ![cur[t] + 1] = tmp[t]]
    /\ tmp' = [tmp EXCEPT ![t] = 0]
    /\ Goto(t, "attempt")
    /\ UNCHANGED <<cur, lock, spin, cancel, main_pc, process>>

(* swap_attempts++ under its spinlock, with both nodes locked, and then the *)
(* first unlock.                                                           *)
count_swap(t) ==
    /\ pc[t] = "attempt"
    /\ "swap" \notin spin
    /\ Unlock(cur[t])
    /\ Goto(t, "unlock_next")
    /\ UNCHANGED <<cur, tmp, value, spin, cancel, main_pc, process>>

count_thread(t) == walk(t) \/ compare(t) \/ count_pass(t)
swap_thread(t) ==
    walk(t) \/ swap_skipped(t) \/ list_swap_first(t) \/ list_swap_second(t) \/ count_swap(t)

WalkerStep(t) ==
    \/ t \in Range(Counters) /\ count_thread(t)
    \/ t \in Range(Swappers) /\ swap_thread(t)

-----------------------------------------------------------------------------
(* print_stat() *)

SpinOrder == Append(Counters, "swap")

print_sleep ==
    /\ pc["print"] = "sleep"
    /\ Goto("print", IF "print" \in cancel THEN "dead" ELSE "lock")
    /\ UNCHANGED <<cur, tmp, value, lock, spin, cancel, main_pc, process>>

print_lock ==
    /\ pc["print"] = "lock"
    /\ \E i \in DOMAIN SpinOrder :
        /\ spin = {SpinOrder[j] : j \in 1..(i - 1)}
        /\ spin' = spin \cup {SpinOrder[i]}
        /\ Goto("print", IF i = Len(SpinOrder) THEN "printf" ELSE "lock")
    /\ UNCHANGED <<cur, tmp, value, lock, cancel, main_pc, process>>

(* printf() may be a cancellation point: a cancelled thread dies in it,    *)
(* with all the spinlocks, or gets past it.                                *)
print_printf ==
    /\ pc["print"] = "printf"
    /\ \/ Goto("print", "unlock")
       \/ "print" \in cancel /\ Goto("print", "dead")
    /\ UNCHANGED <<cur, tmp, value, lock, spin, cancel, main_pc, process>>

(* Fault of print_unlock: the last spinlock stays locked. *)
print_unlock_not_last ==
    /\ pc["print"] = "unlock"
    /\ spin' = {"swap"}
    /\ Goto("print", "sleep")
    /\ UNCHANGED <<cur, tmp, value, lock, cancel, main_pc, process>>

print_unlock ==
    /\ pc["print"] = "unlock"
    /\ \E i \in DOMAIN SpinOrder :
        /\ spin = {SpinOrder[j] : j \in i..Len(SpinOrder)}
        /\ spin' = spin \ {SpinOrder[i]}
        /\ Goto("print", IF i = Len(SpinOrder) THEN "sleep" ELSE "unlock")
    /\ UNCHANGED <<cur, tmp, value, lock, cancel, main_pc, process>>

print_stat == print_sleep \/ print_lock \/ print_printf \/ print_unlock

-----------------------------------------------------------------------------
(* main() goes three times through the same order of threads.              *)

MainGoto(phase, next, k) ==
    main_pc' = IF k < Len(Order) THEN <<phase, k + 1>> ELSE <<next, 1>>

(* A failed pthread_create() is reported and nothing else. *)
main_create ==
    /\ main_pc[1] = "create"
    /\ LET t == Order[main_pc[2]] IN
        \/ Goto(t, IF t = "print" THEN "sleep" ELSE "first")
        \/ UNCHANGED pc
    /\ MainGoto("create", "cancel", main_pc[2])
    /\ UNCHANGED <<cur, tmp, value, lock, spin, cancel, process>>

(* Cancelling a thread that was not created uses an uninitialised tid. *)
main_cancel ==
    /\ main_pc[1] = "cancel"
    /\ LET t == Order[main_pc[2]] IN
        /\ cancel' = cancel \cup {t}
        /\ process' = IF pc[t] = "new" THEN "undefined" ELSE process
    /\ MainGoto("cancel", "join", main_pc[2])
    /\ UNCHANGED <<pc, cur, tmp, value, lock, spin>>

main_join ==
    /\ main_pc[1] = "join"
    /\ pc[Order[main_pc[2]]] = "dead"
    /\ MainGoto("join", "destroy", main_pc[2])
    /\ UNCHANGED <<pc, cur, tmp, value, lock, spin, cancel, process>>

(* list_destroy(), stat_close() and the end. *)
main_destroy ==
    /\ main_pc[1] = "destroy"
    /\ process' = "exited"
    /\ UNCHANGED <<pc, cur, tmp, value, lock, spin, cancel, main_pc>>

main == main_create \/ main_cancel \/ main_join \/ main_destroy

-----------------------------------------------------------------------------
Next ==
    /\ process = "running"
    /\ main \/ print_stat \/ \E t \in Walkers : WalkerStep(t)

Spec == Init /\ [][Next]_vars

Running(A) == process = "running" /\ A

(* Every thread that can run is run.  main() may sleep as long as it likes *)
(* before its first cancel.                                                *)
FairSpec ==
    /\ Spec
    /\ \A t \in Walkers : WF_vars(Running(WalkerStep(t)))
    /\ WF_vars(Running(print_stat))
    /\ WF_vars(Running(main_pc # <<"cancel", 1>> /\ main))

-----------------------------------------------------------------------------
(* Properties *)

TypeOK ==
    /\ DOMAIN pc = Threads
    /\ \A t \in Walkers : pc[t] \in WalkerLabels
    /\ pc["print"] \in PrintLabels
    /\ cur \in [Walkers -> 1..(N - 1)]
    /\ tmp \in [Walkers -> 0..(N - 1)]
    /\ value \in [Nodes -> 0..(N - 1)]
    /\ lock \in [Nodes -> Walkers \cup {Nobody}]
    /\ spin \subseteq Range(SpinOrder)
    /\ cancel \subseteq Threads
    /\ main_pc \in {"create", "cancel", "join", "destroy"} \X (1..Len(Order))
    /\ process \in {"running", "exited", "undefined"}

(* The record that belongs to a place: what is in the node, or what a      *)
(* list_swap() under way has set aside for it.                             *)
Copying(i) == {t \in Range(Swappers) : pc[t] = "copy" /\ cur[t] + 1 = i}

Record(i) == IF Copying(i) = {} THEN value[i] ELSE tmp[CHOOSE t \in Copying(i) : TRUE]

(* However many threads swap, and wherever one is stopped, no record is    *)
(* lost or doubled: the list stays a permutation of what main() put there. *)
ValuesPermuted == \A i, j \in Nodes : Record(i) = Record(j) => i = j

(* A thread that compares two records sees both of them whole: nobody is   *)
(* in the middle of list_swap() on either node, nor are two threads in     *)
(* list_swap() on one node.                                                *)
WholeRecords ==
    \A t, u \in Walkers :
        /\ t # u
        /\ pc[t] \in {"compare", "swap", "copy"}
        /\ pc[u] = "copy"
        => {cur[t], cur[t] + 1} \cap {cur[u], cur[u] + 1} = {}

(* Once main() has begun to stop its threads the process ends: nobody      *)
(* waits for a node for ever.  The one thing in its way is print_stat()    *)
(* cancelled in printf() with its spinlocks.                               *)
StopsUnlessOrphaned ==
    cancel # {} ~> (process # "running" \/ (pc["print"] = "dead" /\ spin # {}))
=============================================================================
