------------------------- MODULE QueueThreadsProofs -------------------------
(***************************************************************************)
(* What the queue proofs share: the part of the inductive invariant that   *)
(* speaks of the variables of QueueThreads, and that main(), qmonitor(),   *)
(* the loops of reader() and writer() and the list operations keep it, for *)
(* every capacity and every number of writes.                              *)
(***************************************************************************)
EXTENDS QueueThreads, SequenceTheorems, TLAPS

(* A thread between its lock and its unlock call is the one that holds the *)
(* lock.  The labels of both kinds of queue are listed.                    *)
MutexOwned ==
    /\ pc["writer"] \in {"add_check", "add_signal", "add_unlock"} => mutex = "writer"
    /\ pc["reader"] \in {"get_check", "get_signal", "get_unlock"} => mutex = "reader"
    /\ pc["qmonitor"] = "print" => mutex = "qmonitor"

(* q->count is the length of the list and the difference of the two        *)
(* counters; the list holds consecutive values, the next one to be         *)
(* received first.                                                         *)
Contents ==
    /\ count = Len(items)
    /\ count = add_count - get_count
    /\ count <= MaxCount
    /\ \A k \in 1..Len(items) : items[k] = get_count + k - 1

(* The writer's i and the reader's val and expected follow the counters.   *)
Counted ==
    /\ next_val = IF pc["writer"] \in {"add_signal", "add_unlock"}
                  THEN add_count - 1 ELSE add_count
    /\ IF pc["reader"] \in {"get_signal", "get_unlock", "check"}
       THEN expected = get_count - 1 /\ val = expected
       ELSE expected = get_count

(* A thread has done nothing before main() creates it.                     *)
StartOrder ==
    /\ pc["main"] \in {"queue_init", "create_reader"} => pc["reader"] = "new"
    /\ pc["main"] \in {"queue_init", "create_reader", "create_writer"} =>
           pc["writer"] = "new"

(* main() has got past a join only when that thread is dead, and cancels   *)
(* the monitor last.                                                       *)
StopOrder ==
    /\ pc["main"] \in {"join_writer", "cancel_qmonitor", "join_qmonitor", "free",
                       "pthread_exit"} => pc["reader"] = "dead"
    /\ pc["main"] \in {"cancel_qmonitor", "join_qmonitor", "free", "pthread_exit"} =>
           pc["writer"] = "dead"
    /\ pc["main"] \in {"free", "pthread_exit"} => pc["qmonitor"] = "dead"
    /\ "qmonitor" \in cancel =>
           pc["main"] \in {"join_qmonitor", "free", "pthread_exit"}
    /\ pc["qmonitor"] = "dead" => "qmonitor" \in cancel

ThreadsInv ==
    /\ ThreadsTypeOK
    /\ MutexOwned
    /\ Contents
    /\ Counted
    /\ StartOrder
    /\ StopOrder
    /\ NoCrash

-----------------------------------------------------------------------------
(* The invariant implies what the runs check.                              *)
LEMMA ThreadsInvImplies ==
  ThreadsInv => NoCrash /\ NoOrderError /\ NoUseAfterFree /\ MonitorOrphanHarmless
  BY DEF ThreadsInv, ThreadsTypeOK, Threads, Counted, StartOrder, StopOrder, NoOrderError,
     NoUseAfterFree, MonitorOrphanHarmless

(* Both assertions of the queue operations hold in every state.            *)
LEMMA CountRange == ThreadsInv => count \in 0..MaxCount
  <1> SUFFICES ASSUME ThreadsInv PROVE count \in 0..MaxCount
    OBVIOUS
  <1>1. items \in Seq(Nat) /\ count = Len(items) /\ count <= MaxCount
    BY DEF ThreadsInv, ThreadsTypeOK, Contents
  <1>2. Len(items) \in Nat
    BY <1>1
  <1>3. QED
    BY <1>1, <1>2, QueueAssumption

(* The queue is empty and no thread but main() exists at the start.        *)
LEMMA ThreadsInvInit == ThreadsInit => ThreadsInv
  BY QueueAssumption DEF ThreadsInit, ThreadsInv, ThreadsTypeOK, MutexOwned, Contents,
     Counted, StartOrder, StopOrder, NoCrash, Threads, Nobody, Outcomes, MainLabels, QmonitorLabels

(* main(), queue_init() and queue_destroy() keep the invariant.            *)
LEMMA MainKeeps == ThreadsInv /\ main => ThreadsInv'
  <1> USE DEF ThreadsInv, Threads, pthread_create, pthread_cancel, pthread_join,
          queue, locals, Goto
  <1> SUFFICES ASSUME ThreadsInv, main
               PROVE  ThreadsInv'
    OBVIOUS
  <1> USE DEF main, queue_init, main_create, main_stop, queue_destroy, main_exit
  <1>1. ThreadsTypeOK'
    BY DEF ThreadsTypeOK, Outcomes, MainLabels, QmonitorLabels
  <1>2. MutexOwned' /\ Counted'
    <2>1. /\ pc'["reader"] = pc["reader"] \/ (pc["reader"] = "new" /\ pc'["reader"] = "loop")
          /\ pc'["writer"] = pc["writer"] \/ (pc["writer"] = "new" /\ pc'["writer"] = "loop")
          /\ pc'["qmonitor"] \in {pc["qmonitor"], "hello"}
      BY DEF ThreadsTypeOK, StartOrder
    <2>2. UNCHANGED <<mutex, queue, locals>>
      OBVIOUS
    <2>3. QED
      BY <2>1, <2>2 DEF MutexOwned, Counted
  <1>3. Contents'
    BY DEF Contents
  <1>4. StartOrder' /\ StopOrder'
    BY DEF ThreadsTypeOK, StartOrder, StopOrder
  <1>5. NoCrash'
    BY DEF NoCrash
  <1>6. QED
    BY <1>1, <1>2, <1>3, <1>4, <1>5

(* qmonitor() and queue_print_stats() keep the invariant.                  *)
LEMMA QmonitorKeeps == ThreadsInv /\ qmonitor => ThreadsInv'
  <1> USE DEF ThreadsInv, Threads, queue, locals, Goto, Die, Lock, Unlock, Nobody
  <1> SUFFICES ASSUME ThreadsInv, qmonitor
               PROVE  ThreadsInv'
    OBVIOUS
  <1> USE DEF qmonitor, qmonitor_start, print_lock, print_unlock, qmonitor_sleep, qmonitor_cancelled
  <1>1. ThreadsTypeOK'
    BY DEF ThreadsTypeOK, QmonitorLabels
  <1>2. MutexOwned' /\ Counted'
    BY DEF ThreadsTypeOK, MutexOwned, Counted
  <1>3. Contents' /\ NoCrash'
    BY DEF Contents, NoCrash
  <1>4. StartOrder' /\ StopOrder'
    BY DEF ThreadsTypeOK, StartOrder, StopOrder
  <1>5. QED
    BY <1>1, <1>2, <1>3, <1>4

(* The loops of reader() and writer() keep the invariant.                  *)
LEMMA LoopsKeep == ThreadsInv /\ (reader_loop \/ writer_loop) => ThreadsInv'
  <1> USE DEF ThreadsInv, Threads, queue, locals, Goto, Die
  <1> SUFFICES ASSUME ThreadsInv, reader_loop \/ writer_loop
               PROVE  ThreadsInv'
    OBVIOUS
  <1> USE DEF reader_loop, writer_loop, testcancel, reader_get, reader_check, writer_add
  <1>1. ThreadsTypeOK'
    <2>1. /\ expected' \in Int /\ val' \in Int
          /\ UNCHANGED <<cancel, mutex, queue, next_val, process>>
      BY DEF ThreadsTypeOK
    <2>2. DOMAIN pc' = Threads /\ pc'["main"] = pc["main"] /\ pc'["qmonitor"] = pc["qmonitor"]
      BY DEF ThreadsTypeOK
    <2>3. QED
      BY <2>1, <2>2 DEF ThreadsTypeOK
  <1>2. MutexOwned' /\ Counted'
    BY DEF ThreadsTypeOK, MutexOwned, Counted
  <1>3. Contents' /\ NoCrash'
    BY DEF Contents, NoCrash
  <1>4. StartOrder' /\ StopOrder'
    BY DEF ThreadsTypeOK, StartOrder, StopOrder
  <1>5. QED
    BY <1>1, <1>2, <1>3, <1>4

-----------------------------------------------------------------------------
(* The tail of queue_add() that links the new node keeps the invariant.    *)
LEMMA AddNodeKeeps ==
  ASSUME ThreadsInv, NEW label \in {"add_signal", "add_unlock"},
         pc["writer"] = "add_check", count # MaxCount, AddNode(label),
         UNCHANGED <<cancel, mutex, locals>>
  PROVE  ThreadsInv'
  <1> USE DEF ThreadsInv, Threads, queue, locals
  <1>1. items \in Seq(Nat) /\ next_val \in Nat /\ count \in Int /\ next_val = add_count
    BY DEF ThreadsTypeOK, Counted
  <1>2. CASE process' = "aborted" /\ UNCHANGED <<pc, queue>>
    BY <1>2 DEF ThreadsTypeOK, MutexOwned, Contents, Counted, StartOrder, StopOrder, NoCrash, Outcomes
  <1>3. CASE /\ items' = Append(items, next_val) /\ count' = count + 1
             /\ add_count' = add_count + 1 /\ Goto("writer", label)
             /\ UNCHANGED <<get_count, process>>
    <2>1. items' \in Seq(Nat) /\ Len(items') = Len(items) + 1
      BY <1>1, <1>3
    <2>2. \A k \in 1..Len(items') :
              items'[k] = IF k <= Len(items) THEN items[k] ELSE next_val
      BY <1>1, <1>3
    <2>3. ThreadsTypeOK'
      BY <1>1, <1>3, <2>1 DEF ThreadsTypeOK, Goto
    <2>4. MutexOwned' /\ Counted'
      BY <1>3 DEF ThreadsTypeOK, MutexOwned, Counted, Goto
    <2>5. Contents'
      BY <1>1, <1>3, <2>1, <2>2, QueueAssumption DEF ThreadsTypeOK, Contents
    <2>6. StartOrder' /\ StopOrder' /\ NoCrash'
      BY <1>3 DEF ThreadsTypeOK, StartOrder, StopOrder, NoCrash, Goto
    <2>7. QED
      BY <2>3, <2>4, <2>5, <2>6
  <1>4. QED
    BY <1>2, <1>3 DEF AddNode

(* The tail of queue_get() that unlinks the first node keeps the invariant *)
(* and never finds the list empty.                                         *)
LEMMA TakeNodeKeeps ==
  ASSUME ThreadsInv, NEW label \in {"get_signal", "get_unlock"},
         pc["reader"] = "get_check", count # 0, TakeNode(label),
         UNCHANGED <<cancel, mutex, next_val, expected>>
  PROVE  /\ ThreadsInv'
         /\ get_count' = get_count + 1
         /\ get_count < add_count /\ add_count' = add_count
  <1> USE DEF ThreadsInv, Threads, queue, locals
  <1>1. items \in Seq(Nat) /\ get_count \in Nat /\ add_count \in Nat
    BY DEF ThreadsTypeOK
  <1>2. Len(items) > 0 /\ items # <<>>
    <2>1. count = Len(items)
      BY DEF Contents
    <2>2. Len(items) \in Nat
      BY <1>1
    <2>3. QED
      BY <1>1, <2>1, <2>2
  <1>3. /\ val' = Head(items) /\ items' = Tail(items) /\ count' = count - 1
        /\ get_count' = get_count + 1 /\ Goto("reader", label)
        /\ UNCHANGED <<add_count, process>>
    BY <1>2 DEF TakeNode
  <1>4. Head(items) = get_count
    BY <1>1, <1>2 DEF Contents
  <1>5. items' \in Seq(Nat) /\ Len(items') = Len(items) - 1
    BY <1>1, <1>2, <1>3
  <1>6. \A k \in 1..Len(items') : items'[k] = items[k + 1]
    BY <1>1, <1>2, <1>3
  <1>7. ThreadsTypeOK'
    BY <1>1, <1>3, <1>4, <1>5 DEF ThreadsTypeOK, Goto
  <1>8. MutexOwned' /\ Counted'
    BY <1>1, <1>3, <1>4 DEF ThreadsTypeOK, MutexOwned, Counted, Goto
  <1>9. Contents'
    BY <1>1, <1>3, <1>5, <1>6, QueueAssumption DEF ThreadsTypeOK, Contents
  <1>10. StartOrder' /\ StopOrder' /\ NoCrash'
    BY <1>3 DEF ThreadsTypeOK, StartOrder, StopOrder, NoCrash, Goto
  <1>11. get_count < add_count
    BY <1>1, <1>2 DEF Contents
  <1>12. QED
    BY <1>3, <1>4, <1>7, <1>8, <1>9, <1>10, <1>11
=============================================================================
