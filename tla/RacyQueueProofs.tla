-------------------------- MODULE RacyQueueProofs ---------------------------
(***************************************************************************)
(* Proofs about RacyQueue, for every capacity and number of values: what   *)
(* the program with the races still guarantees.                            *)
(***************************************************************************)
EXTENDS RacyQueue, FiniteSetTheorems, TLAPS

(* The writer past its test for a full queue, and the reader past its test *)
(* for an empty one, as long as count is not yet loaded.                   *)
Adding == {"add_first", "add_last", "add_publish", "add_link", "add_advance", "add_load"}
Getting == {"get_first", "get_val", "get_next", "get_store", "get_free", "get_load"}

(* count stays in range because a store of either side puts it into the    *)
(* range that the other side has tested for.                               *)
CountInv ==
    /\ 0 <= count /\ count <= MaxCount
    /\ pc["writer"] \in Adding => count < MaxCount
    /\ pc["writer"] = "add_store" => 0 <= wcount /\ wcount < MaxCount
    /\ pc["reader"] \in Getting => count > 0
    /\ pc["reader"] = "get_dec" => 0 < rcount /\ rcount <= MaxCount

(* The last node that has been linked. *)
Top == IF pc["writer"] \in {"add_advance", "add_load", "add_store"} THEN i ELSE i - 1

WriterInv ==
    /\ pc["writer"] \notin {"new", "loop", "dead"} => i < MaxWrites
    /\ last = IF pc["writer"] \in {"add_publish", "add_load", "add_store"} THEN i ELSE i - 1
    /\ pc["writer"] = "add_link" => i > 0
    /\ pc["writer"] = "add_advance" => i > 0 /\ nxt[last] = i
    /\ pc["writer"] \in {"add_last", "add_publish"} => first = NULL
    /\ \A k \in Values : nxt[k] # NULL => nxt[k] = k + 1 /\ k + 1 <= Top
    /\ first <= Top

ReaderInv ==
    /\ expected <= Top + 1
    /\ pc["reader"] \in {"new", "loop", "dead", "get_first", "get_val", "get_next", "get_store"} =>
        first = NULL \/ first >= expected
    /\ pc["reader"] = "get_val" => tmp = NULL \/ tmp = first
    /\ pc["reader"] \in {"get_next", "get_store"} => tmp # NULL /\ tmp = first /\ val = tmp
    /\ pc["reader"] = "get_store" => rnext = NULL \/ (rnext = tmp + 1 /\ rnext <= Top)
    /\ pc["reader"] = "get_free" => tmp # NULL /\ val = tmp
    /\ pc["reader"] \in {"get_free", "get_load", "get_dec", "check"} =>
        val >= expected /\ val <= Top /\ (first = NULL \/ first > val)

(* As long as q->first leads anywhere it leads to every node linked since, *)
(* and what has been freed lies behind it.                                 *)
ChainInv ==
    /\ \A k \in Values : first # NULL /\ first <= k /\ k < Top => nxt[k] = k + 1
    /\ process = "running" => \A k \in freed :
        k < expected \/ (pc["reader"] \in {"get_load", "get_dec", "check"} /\ k <= val)

(* A thread that main() has not created yet. *)
StartInv ==
    /\ pc["main"] \in {"queue_init", "create_reader"} => pc["reader"] = "new"
    /\ pc["main"] \in {"queue_init", "create_reader", "create_writer"} => pc["writer"] = "new"

(* TypeOK, CountInv, WriterInv, ReaderInv, ChainInv and StartInv are inductive together. *)
IInv == TypeOK /\ CountInv /\ WriterInv /\ ReaderInv /\ ChainInv /\ StartInv /\ AssertsHold

LEMMA InitIInv == Init => IInv
  BY RacyAssumption, SMTT(30) DEF Init, IInv, TypeOK, CountInv, WriterInv, ReaderInv, ChainInv, StartInv, AssertsHold,
     Top, Adding, Getting, NULL, Values, Threads, MainLabels, WriterLabels, ReaderLabels

LEMMA WriterKeeps == IInv /\ process = "running" /\ queue_add => IInv'
  <1> SUFFICES ASSUME IInv, process = "running", queue_add PROVE IInv'
    OBVIOUS
  <1> USE RacyAssumption DEF Goto, NULL, Values, writerVars, readerVars
  <1>1. CASE add_test
    BY <1>1, SMTT(60) DEF add_test, Assert, IInv, TypeOK, CountInv, WriterInv, ReaderInv, ChainInv, StartInv, AssertsHold,
       Top, Adding, Getting, Threads, WriterLabels
  <1>2. CASE add_first
    BY <1>2, SMTT(60) DEF add_first, IInv, TypeOK, CountInv, WriterInv, ReaderInv, ChainInv, StartInv, AssertsHold,
       Top, Adding, Getting, Threads, WriterLabels
  <1>3. CASE add_last
    BY <1>3, SMTT(60) DEF add_last, IInv, TypeOK, CountInv, WriterInv, ReaderInv, ChainInv, StartInv, AssertsHold,
       Top, Adding, Getting, Threads, WriterLabels
  <1>4. CASE add_publish
    BY <1>4, SMTT(60) DEF add_publish, IInv, TypeOK, CountInv, WriterInv, ReaderInv, ChainInv, StartInv, AssertsHold,
       Top, Adding, Getting, Threads, WriterLabels
  <1>5. CASE add_link
    <2>1. CASE last \in freed
      BY <1>5, <2>1, SMTT(60) DEF add_link, IInv, TypeOK, CountInv, WriterInv, ReaderInv, ChainInv,
         StartInv, AssertsHold, Top
    <2>2. CASE last \notin freed
      <3>1. /\ last \in Values /\ i \in Values /\ last = i - 1
            /\ nxt' = [nxt EXCEPT ![last] = i]
            /\ pc' = [pc EXCEPT !["writer"] = "add_advance"]
            /\ UNCHANGED <<cancel, first, count, last, i, wcount, readerVars, process>>
            /\ Top = i - 1 /\ Top' = i
        BY <1>5, <2>2 DEF add_link, IInv, TypeOK, WriterInv, Top, Threads
      <3>2. TypeOK' /\ StartInv' /\ AssertsHold'
        BY <1>5, <3>1 DEF IInv, TypeOK, StartInv, AssertsHold, Threads, WriterLabels, add_link
      <3>3. CountInv'
        BY <1>5, <3>1 DEF IInv, TypeOK, CountInv, Adding, Getting, Threads, add_link
      <3>4. WriterInv'
        BY <1>5, <3>1 DEF IInv, TypeOK, WriterInv, Threads, add_link
      <3>5. ReaderInv'
        BY <3>1 DEF IInv, TypeOK, ReaderInv, Threads
      <3>6. ChainInv'
        BY <3>1 DEF IInv, TypeOK, ChainInv, Threads
      <3> QED BY <3>2, <3>3, <3>4, <3>5, <3>6 DEF IInv
    <2> QED BY <2>1, <2>2
  <1>6. CASE add_advance
    BY <1>6, SMTT(60) DEF add_advance, IInv, TypeOK, CountInv, WriterInv, ReaderInv, ChainInv, StartInv, AssertsHold,
       Top, Adding, Getting, Threads, WriterLabels
  <1>7. CASE add_load
    BY <1>7, SMTT(60) DEF add_load, IInv, TypeOK, CountInv, WriterInv, ReaderInv, ChainInv, StartInv, AssertsHold,
       Top, Adding, Getting, Threads, WriterLabels
  <1>8. CASE add_store
    BY <1>8, SMTT(60) DEF add_store, IInv, TypeOK, CountInv, WriterInv, ReaderInv, ChainInv, StartInv, AssertsHold,
       Top, Adding, Getting, Threads, WriterLabels
  <1> QED BY <1>1, <1>2, <1>3, <1>4, <1>5, <1>6, <1>7, <1>8 DEF queue_add

LEMMA ReaderKeeps == IInv /\ process = "running" /\ queue_get => IInv'
  <1> SUFFICES ASSUME IInv, process = "running", queue_get PROVE IInv'
    OBVIOUS
  <1> USE RacyAssumption DEF Goto, NULL, Values, writerVars, readerVars
  <1>1. CASE get_test
    BY <1>1, SMTT(60) DEF get_test, Assert, IInv, TypeOK, CountInv, WriterInv, ReaderInv, ChainInv, StartInv, AssertsHold,
       Top, Adding, Getting, Threads, ReaderLabels
  <1>2. CASE get_first
    BY <1>2, SMTT(60) DEF get_first, IInv, TypeOK, CountInv, WriterInv, ReaderInv, ChainInv, StartInv, AssertsHold,
       Top, Adding, Getting, Threads, ReaderLabels
  <1>3. CASE get_val
    BY <1>3, SMTT(60) DEF get_val, IInv, TypeOK, CountInv, WriterInv, ReaderInv, ChainInv, StartInv, AssertsHold,
       Top, Adding, Getting, Threads, ReaderLabels
  <1>4. CASE get_next
    BY <1>4, SMTT(60) DEF get_next, IInv, TypeOK, CountInv, WriterInv, ReaderInv, ChainInv, StartInv, AssertsHold,
       Top, Adding, Getting, Threads, ReaderLabels
  <1>5. CASE get_store
    BY <1>5, SMTT(60) DEF get_store, IInv, TypeOK, CountInv, WriterInv, ReaderInv, ChainInv, StartInv, AssertsHold,
       Top, Adding, Getting, Threads, ReaderLabels
  <1>6. CASE get_free
    <2>1. tmp \in Values
      BY <1>6 DEF get_free, IInv, TypeOK, ReaderInv
    <2>2. TypeOK'
      BY <1>6, <2>1 DEF get_free, IInv, TypeOK, Threads, ReaderLabels
    <2>3. Top' = Top
      BY <1>6 DEF get_free, IInv, TypeOK, Top, Threads
    <2>4. CountInv' /\ StartInv' /\ AssertsHold'
      BY <1>6 DEF get_free, IInv, TypeOK, CountInv, StartInv, AssertsHold, Adding, Getting, Threads
    <2>5. WriterInv' /\ ReaderInv'
      BY <1>6, <2>3 DEF get_free, IInv, TypeOK, WriterInv, ReaderInv, Threads
    <2>6. ChainInv'
      <3>1. /\ UNCHANGED <<first, nxt, expected, val>>
            /\ freed' = freed \cup {tmp}
            /\ pc'["reader"] = "get_load"
            /\ val = tmp
        BY <1>6 DEF get_free, IInv, TypeOK, ReaderInv, Threads
      <3>2. \A k \in freed : k < expected
        BY <1>6 DEF get_free, IInv, ChainInv
      <3>3. tmp <= val
        BY <2>1, <3>1
      <3> QED BY <2>3, <3>1, <3>2, <3>3 DEF IInv, ChainInv
    <2> QED BY <2>2, <2>4, <2>5, <2>6 DEF IInv
  <1>7. CASE get_load
    BY <1>7, SMTT(60) DEF get_load, IInv, TypeOK, CountInv, WriterInv, ReaderInv, ChainInv, StartInv, AssertsHold,
       Top, Adding, Getting, Threads, ReaderLabels
  <1>8. CASE get_dec
    BY <1>8, SMTT(60) DEF get_dec, IInv, TypeOK, CountInv, WriterInv, ReaderInv, ChainInv, StartInv, AssertsHold,
       Top, Adding, Getting, Threads, ReaderLabels
  <1>9. CASE reader_check
    BY <1>9, SMTT(60) DEF reader_check, IInv, TypeOK, CountInv, WriterInv, ReaderInv, ChainInv, StartInv, AssertsHold,
       Top, Adding, Getting, Threads, ReaderLabels
  <1> QED BY <1>1, <1>2, <1>3, <1>4, <1>5, <1>6, <1>7, <1>8, <1>9 DEF queue_get

(* What main() and the monitor do leaves the queue alone; a thread is      *)
(* created at the head of its loop and dies there.                         *)
LEMMA MainKeeps ==
    IInv /\ process = "running" /\ (main \/ \E t \in Threads \ {"main"} : testcancel(t)) => IInv'
  <1> SUFFICES ASSUME IInv, process = "running",
                      main \/ \E t \in Threads \ {"main"} : testcancel(t)
               PROVE  IInv'
    OBVIOUS
  <1> USE RacyAssumption DEF Goto, NULL, Values
  <1>1. ASSUME UNCHANGED <<first, count, writerVars, tmp, rnext, rcount, val, expected>>,
               freed' \subseteq Values, freed' = freed \/ process' # "running", cancel' \subseteq Threads,
               process' \in {"running", "aborted", "exited", "undefined"},
               DOMAIN pc' = Threads,
               pc'["main"] \in MainLabels,
               pc'["qmonitor"] \in {"new", "loop", "dead"},
               \A t \in {"reader", "writer"} : pc'[t] = pc[t]
                   \/ (pc[t] \in {"new", "loop"} /\ pc'[t] \in {"loop", "dead"}),
               StartInv'
        PROVE  IInv'
    <2>1. TypeOK'
      BY <1>1 DEF IInv, TypeOK, writerVars, readerVars, ReaderLabels, WriterLabels
    <2>2. Top' = Top
      BY <1>1 DEF Top, writerVars
    <2>3. CountInv' /\ AssertsHold'
      BY <1>1 DEF IInv, TypeOK, CountInv, AssertsHold, Adding, Getting, writerVars, readerVars
    <2>4. WriterInv'
      BY <1>1, <2>2 DEF IInv, TypeOK, WriterInv, writerVars, readerVars
    <2>5. ReaderInv'
      BY <1>1, <2>2 DEF IInv, TypeOK, ReaderInv, writerVars, readerVars
    <2>6. ChainInv'
      BY <1>1, <2>2 DEF IInv, TypeOK, ReaderInv, ChainInv, writerVars, readerVars
    <2> QED BY <1>1, <2>1, <2>3, <2>4, <2>5, <2>6 DEF IInv
  <1> USE DEF IInv, TypeOK, StartInv, Threads, MainLabels, dataVars, readerVars
  <1>2. CASE \E t \in Threads \ {"main"} : testcancel(t)
    BY <1>1, <1>2 DEF testcancel
  <1>3. CASE queue_init
    BY <1>1, <1>3 DEF queue_init, pthread_create
  <1>4. CASE main_threads
    <2>1. CASE pthread_create("reader", "create_reader", "create_writer", "exited")
      BY <1>1, <2>1 DEF pthread_create
    <2>2. CASE pthread_create("writer", "create_writer", "cancel_reader", "exited")
      BY <1>1, <2>2 DEF pthread_create
    <2>3. CASE pthread_cancel("reader", "cancel_reader", "cancel_writer")
      BY <1>1, <2>3 DEF pthread_cancel
    <2>4. CASE pthread_cancel("writer", "cancel_writer", "join_reader")
      BY <1>1, <2>4 DEF pthread_cancel
    <2>5. CASE pthread_join("reader", "join_reader", "join_writer")
      BY <1>1, <2>5 DEF pthread_join
    <2>6. CASE pthread_join("writer", "join_writer", "cancel_qmonitor")
      BY <1>1, <2>6 DEF pthread_join
    <2> QED BY <1>4, <2>1, <2>2, <2>3, <2>4, <2>5, <2>6 DEF main_threads
  <1>5. CASE queue_destroy
    <2>1. CASE pthread_cancel("qmonitor", "cancel_qmonitor", "join_qmonitor")
      BY <1>1, <2>1 DEF pthread_cancel
    <2>2. CASE pthread_join("qmonitor", "join_qmonitor", "free")
      BY <1>1, <2>2 DEF pthread_join
    <2>3. CASE /\ pc["main"] = "free"
               /\ process' = IF Reachable \cap freed = {} THEN "exited" ELSE "undefined"
               /\ freed' = freed \cup Reachable
               /\ UNCHANGED <<pc, cancel, first, count, writerVars, tmp, rnext, rcount, val, expected>>
      <3>1. Reachable \subseteq Values
        BY DEF Reachable
      <3> QED BY <1>1, <2>3, <3>1
    <2> QED BY <1>5, <2>1, <2>2, <2>3 DEF queue_destroy
  <1> QED BY <1>2, <1>3, <1>4, <1>5 DEF main

-----------------------------------------------------------------------------
LEMMA Inductive == Spec => []IInv
  <1>1. IInv /\ [Next]_vars => IInv'
    <2> SUFFICES ASSUME IInv, [Next]_vars PROVE IInv'
      OBVIOUS
    <2>1. CASE UNCHANGED vars
      BY <2>1 DEF vars, writerVars, readerVars, IInv, TypeOK, CountInv, WriterInv, ReaderInv,
         ChainInv, StartInv, AssertsHold, Top
    <2>2. CASE Next
      BY <2>2, WriterKeeps, ReaderKeeps, MainKeeps DEF Next, reader, writer, qmonitor, Threads
    <2> QED BY <2>1, <2>2
  <1> QED BY InitIInv, <1>1, PTL DEF Spec

(* Every variable keeps its type, whatever the two threads do at once. *)
THEOREM TypeCorrect == Spec => []TypeOK
  BY Inductive, PTL DEF IInv

(* The assertions of queue_add() and queue_get() hold although count loses *)
(* updates: with one reader and one writer no store leads out of range.    *)
THEOREM AssertsHoldAlways == Spec => []AssertsHold
  BY Inductive, PTL DEF IInv

(* The reader never gets a value twice, nor one that is older than the     *)
(* last: q->first only moves forward, whatever nodes are lost.             *)
THEOREM NeverTwiceHolds == Spec => []NeverTwice
  <1>1. IInv => NeverTwice
    BY DEF IInv, ReaderInv, NeverTwice
  <1> QED BY Inductive, <1>1, PTL

-----------------------------------------------------------------------------
(* The nodes in the list and those that are lost, by their numbers: before *)
(* a step and after it.                                                    *)
LEMMA LostBefore ==
    ASSUME IInv
    PROVE  /\ Reachable = {k \in Values : first # NULL /\ first <= k /\ k <= Top}
           /\ Lost = {k \in Values :
                   /\ k <= Top
                   /\ ~(first # NULL /\ first <= k)
                   /\ k \notin freed
                   /\ ~(pc["reader"] = "get_free" /\ k = tmp)}
  <1> USE RacyAssumption DEF NULL, Values
  <1>1. i \in 0..MaxWrites /\ first \in Values \cup {NULL} /\ Top \in Int /\ Top < MaxWrites
    BY DEF IInv, TypeOK, WriterInv, Top
  <1>2. Added = {k \in Values : k <= Top}
    <2>1. CASE pc["writer"] \in {"add_advance", "add_load", "add_store"}
      <3>1. Top = i /\ i \in Values
        BY <1>1, <2>1 DEF Top
      <3> QED BY <1>1, <2>1, <3>1 DEF Added
    <2>2. CASE pc["writer"] \notin {"add_advance", "add_load", "add_store"}
      <3>1. Top = i - 1
        BY <2>2 DEF Top
      <3> QED BY <1>1, <2>2, <3>1 DEF Added
    <2> QED BY <2>1, <2>2
  <1>3. Reachable = {k \in Values : first # NULL /\ first <= k /\ k <= Top}
    <2>1. ASSUME NEW k \in Values, first # NULL, first <= k, k <= Top
          PROVE  \A j \in first..(k - 1) : nxt[j] = j + 1
      BY <1>1, <2>1 DEF IInv, ChainInv
    <2>2. ASSUME NEW k \in Values, first # NULL, first <= k,
                 \A j \in first..(k - 1) : nxt[j] = j + 1
          PROVE  k <= Top
      <3>1. CASE k = first
        BY <3>1 DEF IInv, WriterInv
      <3>2. CASE k > first
        <4>1. k - 1 \in Values /\ nxt[k - 1] = k
          BY <1>1, <2>2, <3>2
        <4> QED BY <4>1, <1>1 DEF IInv, WriterInv
      <3> QED BY <1>1, <2>2, <3>1, <3>2
    <2> QED BY <2>1, <2>2 DEF Reachable
  <1> QED BY <1>2, <1>3 DEF Lost

LEMMA LostAfter ==
    ASSUME IInv'
    PROVE  /\ Reachable' = {k \in Values : first' # NULL /\ first' <= k /\ k <= Top'}
           /\ Lost' = {k \in Values :
                   /\ k <= Top'
                   /\ ~(first' # NULL /\ first' <= k)
                   /\ k \notin freed'
                   /\ ~(pc'["reader"] = "get_free" /\ k = tmp')}
  <1> USE RacyAssumption DEF NULL, Values
  <1>1. i' \in 0..MaxWrites /\ first' \in Values \cup {NULL} /\ Top' \in Int /\ Top' < MaxWrites
    <2>1. i' \in 0..MaxWrites /\ first' \in Values \cup {NULL}
      BY DEF IInv, TypeOK
    <2>2. pc'["writer"] \in {"add_advance", "add_load", "add_store"} => i' < MaxWrites
      BY DEF IInv, WriterInv
    <2>3. Top' = IF pc'["writer"] \in {"add_advance", "add_load", "add_store"} THEN i' ELSE i' - 1
      BY DEF Top
    <2>4. Top' \in Int /\ Top' < MaxWrites
      <3>1. CASE pc'["writer"] \in {"add_advance", "add_load", "add_store"}
        <4>1. Top' = i'
          BY <2>3, <3>1
        <4> QED BY <2>1, <2>2, <3>1, <4>1
      <3>2. CASE pc'["writer"] \notin {"add_advance", "add_load", "add_store"}
        <4>1. Top' = i' - 1
          BY <2>3, <3>2
        <4>2. i' \in Int /\ i' <= MaxWrites /\ MaxWrites \in Int
          BY <2>1
        <4>3. \A a, b \in Int : a <= b => a - 1 \in Int /\ a - 1 < b
          OBVIOUS
        <4> QED BY <4>1, <4>2, <4>3
      <3> QED BY <3>1, <3>2
    <2> QED BY <2>1, <2>4
  <1>2. Added' = {k \in Values : k <= Top'}
    <2>1. CASE pc'["writer"] \in {"add_advance", "add_load", "add_store"}
      <3>1. Top' = i' /\ i' \in Values
        BY <1>1, <2>1 DEF Top
      <3> QED BY <1>1, <2>1, <3>1 DEF Added
    <2>2. CASE pc'["writer"] \notin {"add_advance", "add_load", "add_store"}
      <3>1. Top' = i' - 1
        BY <2>2 DEF Top
      <3> QED BY <1>1, <2>2, <3>1 DEF Added
    <2> QED BY <2>1, <2>2
  <1>3. Reachable' = {k \in Values : first' # NULL /\ first' <= k /\ k <= Top'}
    <2>1. ASSUME NEW k \in Values, first' # NULL, first' <= k, k <= Top'
          PROVE  \A j \in first'..(k - 1) : nxt'[j] = j + 1
      BY <1>1, <2>1 DEF IInv, ChainInv
    <2>2. ASSUME NEW k \in Values, first' # NULL, first' <= k,
                 \A j \in first'..(k - 1) : nxt'[j] = j + 1
          PROVE  k <= Top'
      <3>1. CASE k = first'
        BY <3>1 DEF IInv, WriterInv
      <3>2. CASE k > first'
        <4>1. k - 1 \in Values /\ nxt'[k - 1] = k
          BY <1>1, <2>2, <3>2
        <4> QED BY <4>1, <1>1 DEF IInv, WriterInv
      <3> QED BY <1>1, <2>2, <3>1, <3>2
    <2> QED BY <2>1, <2>2 DEF Reachable
  <1> QED BY <1>2, <1>3 DEF Lost

(* A freed node lies behind q->first. *)
LEMMA FreedBehind ==
    ASSUME IInv, process = "running", NEW k \in freed PROVE first = NULL \/ k < first
  <1>1. /\ k \in Int /\ first \in Int /\ expected \in Int /\ val \in Int
        /\ pc["reader"] \in ReaderLabels
    BY DEF IInv, TypeOK, Values, NULL
  <1>2. k < expected \/ (pc["reader"] \in {"get_load", "get_dec", "check"} /\ k <= val)
    BY DEF IInv, ChainInv
  <1> QED BY <1>1, <1>2 DEF IInv, ReaderInv, ReaderLabels

LEMMA HarmlessStep ==
    ASSUME IInv, IInv', Next, Lost' # Lost \/ process' = "undefined"
    PROVE  Cardinality(Reachable') <= 1
  <1> USE RacyAssumption DEF Goto, NULL, Values, writerVars, readerVars
  <1>1. Reachable' = {} => Cardinality(Reachable') <= 1
    BY FS_EmptySet
  <1>2. first' = NULL => Reachable' = {}
    BY LostAfter
  <1>3. process = "running"
    BY DEF Next
  <1>a. /\ {first, first', last, tmp, tmp', rnext, i, i', Top, Top'} \subseteq Int
        /\ freed \subseteq Values /\ first \in Values \cup {NULL} /\ i \in 0..MaxWrites
    <2>1. {first, last, tmp, rnext, i} \subseteq Int /\ freed \subseteq Values
          /\ first \in Values \cup {NULL} /\ i \in 0..MaxWrites
      BY DEF IInv, TypeOK
    <2>2. {first', tmp', i'} \subseteq Int
      BY DEF IInv, TypeOK
    <2> QED BY <2>1, <2>2 DEF Top
  <1>b. \A k : k \in Lost <=>
          /\ k \in Values /\ k <= Top /\ ~(first # NULL /\ first <= k)
          /\ k \notin freed /\ ~(pc["reader"] = "get_free" /\ k = tmp)
    BY LostBefore
  <1>c. \A k : k \in Lost' <=>
          /\ k \in Values /\ k <= Top' /\ ~(first' # NULL /\ first' <= k)
          /\ k \notin freed' /\ ~(pc'["reader"] = "get_free" /\ k = tmp')
    BY LostAfter
  <1>d. \A k \in freed : first = NULL \/ k < first
    BY <1>3, FreedBehind
  <1>e. (\A k : k \in Lost <=> k \in Lost') => Lost' = Lost
    OBVIOUS
  <1>f. DOMAIN pc = Threads
    BY DEF IInv, TypeOK
  <1>4. ASSUME process' # "undefined", UNCHANGED <<first, freed, Top, tmp>>,
               pc'["reader"] = "get_free" <=> pc["reader"] = "get_free"
        PROVE  FALSE
    <2>1. Lost' = Lost
      BY <1>b, <1>c, <1>e, <1>4
    <2> QED BY <1>4, <2>1
  <1>5. CASE queue_add
    <2>1. CASE add_test \/ add_first \/ add_last \/ add_load \/ add_store
      <3>1. process' # "undefined" /\ UNCHANGED <<first, freed, tmp>> /\ pc'["reader"] = pc["reader"]
        BY <1>f, <1>3, <2>1 DEF add_test, Assert, add_first, add_last, add_load, add_store, Threads
      <3>2. Top' = Top
        BY <1>a, <1>f, <2>1 DEF add_test, add_first, add_last, add_load, add_store, Top, Threads
      <3> QED BY <1>4, <3>1, <3>2
    <2>2. CASE add_publish
      <3>1. first = NULL /\ first' = i /\ Top = i - 1 /\ Top' = i /\ i \in Values
            /\ UNCHANGED <<freed, tmp, process>> /\ pc'["reader"] = pc["reader"]
        BY <1>a, <1>f, <2>2 DEF add_publish, IInv, WriterInv, Top, Threads
      <3>2. Lost' = Lost
        BY <1>a, <1>b, <1>c, <1>e, <3>1
      <3> QED BY <1>3, <3>1, <3>2
    <2>3. CASE add_link
      <3>1. CASE first = NULL
        BY <1>1, <1>2, <2>3, <3>1 DEF add_link
      <3>2. CASE first # NULL
        <4>1. last = Top /\ first <= Top /\ Top = i - 1 /\ first \in Values /\ first' = first
          BY <1>a, <2>3, <3>2 DEF add_link, IInv, WriterInv, Top
        <4>2. last \notin freed
          BY <1>a, <1>d, <3>2, <4>1
        <4>3. Top' = i /\ UNCHANGED <<freed, tmp, process>> /\ pc'["reader"] = pc["reader"]
          BY <1>f, <2>3, <4>2 DEF add_link, Top, Threads
        <4>4. Lost' = Lost
          BY <1>a, <1>b, <1>c, <1>e, <3>2, <4>1, <4>3
        <4> QED BY <1>3, <4>3, <4>4
      <3> QED BY <3>1, <3>2
    <2>4. CASE add_advance
      <3>1. UNCHANGED <<first, freed, tmp>> /\ pc'["reader"] = pc["reader"]
            /\ Top = i /\ Top' = i /\ last = i - 1
        BY <1>f, <2>4 DEF add_advance, IInv, WriterInv, Top, Threads
      <3>2. CASE last \notin freed
        <4>1. process' = process
          BY <2>4, <3>2 DEF add_advance
        <4> QED BY <1>3, <1>4, <3>1, <4>1
      <3>3. CASE last \in freed /\ first # NULL
        <4>1. first > last
          BY <1>a, <1>d, <3>3
        <4>2. first = i
          BY <1>a, <3>1, <4>1 DEF IInv, WriterInv
        <4>3. i \in Values
          BY <1>a, <3>3, <4>2
        <4>4. Reachable' = {i}
          BY <1>a, LostAfter, <3>1, <4>2, <4>3
        <4>5. Cardinality({i}) = 1
          BY FS_Singleton
        <4> QED BY <4>4, <4>5
      <3> QED BY <1>1, <1>2, <3>1, <3>2, <3>3
    <2> QED BY <1>5, <2>1, <2>2, <2>3, <2>4 DEF queue_add
  <1>6. CASE queue_get
    <2>1. CASE get_test \/ get_val \/ get_next \/ get_load \/ get_dec \/ reader_check
      <3>1. process' # "undefined" /\ UNCHANGED <<first, freed, tmp>>
            /\ pc["reader"] # "get_free" /\ pc'["reader"] # "get_free"
        BY <1>f, <1>3, <2>1 DEF get_test, Assert, get_val, get_next, get_load, get_dec, reader_check, Threads
      <3>2. Top' = Top
        BY <1>f, <2>1 DEF get_test, get_val, get_next, get_load, get_dec, reader_check, Top, Threads
      <3> QED BY <1>4, <3>1, <3>2
    <2>2. CASE get_first
      <3>1. process' # "undefined" /\ UNCHANGED <<first, freed, Top>>
            /\ pc["reader"] # "get_free" /\ pc'["reader"] # "get_free"
        BY <1>f, <1>3, <2>2 DEF get_first, Top, Threads
      <3>2. Lost' = Lost
        BY <1>a, <1>b, <1>c, <1>e, <3>1
      <3> QED BY <3>1, <3>2
    <2>3. CASE get_store
      <3>1. process' # "undefined" /\ UNCHANGED <<freed, Top, tmp>> /\ first' = rnext
            /\ pc["reader"] # "get_free" /\ pc'["reader"] = "get_free" /\ tmp = first /\ first # NULL
        BY <1>f, <1>3, <2>3 DEF get_store, IInv, ReaderInv, Top, Threads
      <3>2. CASE rnext # NULL
        <4>1. rnext = tmp + 1
          BY <2>3, <3>2 DEF get_store, IInv, ReaderInv
        <4>2. Lost' = Lost
          BY <1>a, <1>b, <1>c, <1>e, <3>1, <3>2, <4>1
        <4> QED BY <3>1, <4>2
      <3> QED BY <1>1, <1>2, <3>1, <3>2
    <2>4. CASE get_free
      <3>1. process' # "undefined" /\ UNCHANGED <<first, Top, tmp>> /\ freed' = freed \cup {tmp}
            /\ pc["reader"] = "get_free" /\ pc'["reader"] # "get_free"
        BY <1>f, <1>3, <2>4 DEF get_free, Top, Threads
      <3>2. Lost' = Lost
        BY <1>a, <1>b, <1>c, <1>e, <3>1
      <3> QED BY <3>1, <3>2
    <2> QED BY <1>6, <2>1, <2>2, <2>3, <2>4 DEF queue_get
  <1>7. CASE \E t \in {"reader", "writer", "qmonitor"} : testcancel(t)
    <2>1. process' # "undefined" /\ UNCHANGED <<first, freed, tmp, i>>
          /\ (pc'["reader"] = "get_free" <=> pc["reader"] = "get_free")
      BY <1>f, <1>3, <1>7 DEF testcancel, dataVars, Threads
    <2>2. Top' = Top
      BY <1>f, <1>7 DEF testcancel, dataVars, Threads, Top
    <2> QED BY <1>4, <2>1, <2>2
  <1>8. CASE main
    <2> USE DEF main, queue_init, main_threads, queue_destroy, pthread_create, pthread_cancel,
                pthread_join, Threads
    <2>1. CASE pc["main"] # "free"
      <3>1. process' # "undefined" /\ UNCHANGED <<first, freed, tmp, i>>
            /\ (pc'["reader"] = "get_free" <=> pc["reader"] = "get_free")
        BY <1>3, <1>8, <1>f, <2>1 DEF dataVars, IInv, StartInv
      <3>2. Top' = Top
        BY <1>8, <1>f, <2>1, <3>1 DEF dataVars, Top, IInv, StartInv
      <3> QED BY <1>4, <3>1, <3>2
    <2>2. CASE pc["main"] = "free"
      <3>1. /\ process' = IF Reachable \cap freed = {} THEN "exited" ELSE "undefined"
            /\ freed' = freed \cup Reachable
            /\ UNCHANGED <<pc, first, tmp, Top>>
        BY <1>8, <2>2 DEF Top
      <3>2. Reachable \cap freed = {}
        BY <1>a, <1>d, LostBefore
      <3>3. Lost' = Lost
        <4>1. \A k \in Reachable : first # NULL /\ first <= k
          BY LostBefore
        <4> QED BY <1>b, <1>c, <1>e, <3>1, <4>1
      <3> QED BY <3>1, <3>2, <3>3
    <2> QED BY <2>1, <2>2
  <1> QED BY <1>5, <1>6, <1>7, <1>8 DEF Next, reader, writer, qmonitor

(* As long as a step leaves two nodes or more in the list it loses no node *)
(* and uses none that has been freed.                                      *)
THEOREM Harmless == Spec => HarmlessUnlessEmptied
  <1>1. IInv /\ IInv' /\ [Next]_vars =>
          [Lost' # Lost \/ process' = "undefined" => Cardinality(Reachable') <= 1]_vars
    BY HarmlessStep
  <1> QED BY Inductive, <1>1, PTL DEF Spec, HarmlessUnlessEmptied

-----------------------------------------------------------------------------
(* The reader's node, from the moment it dereferences it until it frees    *)
(* it, is one that has not been freed, and q->first still leads to it when *)
(* its next field is read.                                                 *)
ReaderNodeLive ==
    process = "running" =>
        /\ pc["reader"] \in {"get_val", "get_next", "get_store", "get_free"} /\ tmp # NULL =>
               tmp \notin freed
        /\ pc["reader"] = "get_next" => first # NULL /\ first \notin freed

(* The reader's side of queue_get() is safe although the writer changes    *)
(* the list under it: it reads no freed node and frees none twice.  The    *)
(* only memory error of queue_get() is the NULL pointer of an empty list.  *)
THEOREM ReaderNodeLiveHolds == Spec => []ReaderNodeLive
  <1>1. IInv => ReaderNodeLive
    <2> SUFFICES ASSUME IInv, process = "running" PROVE ReaderNodeLive
      BY DEF ReaderNodeLive
    <2>1. \A k \in freed : first = NULL \/ k < first
      BY FreedBehind
    <2>2. freed \subseteq Int /\ first \in Int /\ tmp \in Int
      BY DEF IInv, TypeOK, Values, NULL
    <2>3. ASSUME pc["reader"] \in {"get_val", "get_next", "get_store"}, tmp # NULL
          PROVE  tmp \notin freed /\ first = tmp
      <3>1. first = tmp
        BY <2>3 DEF IInv, ReaderInv
      <3> QED BY <2>1, <2>2, <2>3, <3>1
    <2>4. ASSUME pc["reader"] = "get_free"
          PROVE  tmp \notin freed
      <3>1. val = tmp /\ val >= expected /\ expected \in Int
        BY <2>4 DEF IInv, ReaderInv, TypeOK
      <3>2. \A k \in freed : k < expected
        BY <2>4 DEF IInv, ChainInv
      <3> QED BY <2>2, <3>1, <3>2
    <2>5. pc["reader"] = "get_next" => tmp # NULL
      BY DEF IInv, ReaderInv
    <2> QED BY <2>3, <2>4, <2>5 DEF ReaderNodeLive
  <1> QED BY Inductive, <1>1, PTL

(* main() waits for the reader, the writer and the monitor before it frees *)
(* the queue.                                                              *)
StopInv ==
    /\ pc["main"] \in {"join_writer", "cancel_qmonitor", "join_qmonitor", "free"} =>
           pc["reader"] = "dead"
    /\ pc["main"] \in {"cancel_qmonitor", "join_qmonitor", "free"} => pc["writer"] = "dead"
    /\ pc["main"] = "free" => pc["qmonitor"] = "dead"

LEMMA StopInvNext == IInv /\ StopInv /\ [Next]_vars => StopInv'
  <1> SUFFICES ASSUME IInv, StopInv, [Next]_vars PROVE StopInv'
    OBVIOUS
  <1>1. DOMAIN pc = Threads
    BY DEF IInv, TypeOK
  <1> USE DEF StopInv, Goto, Threads
  <1>2. CASE queue_add
    BY <1>1, <1>2 DEF queue_add, add_test, add_first, add_last, add_publish, add_link,
       add_advance, add_load, add_store
  <1>3. CASE queue_get
    BY <1>1, <1>3 DEF queue_get, get_test, get_first, get_val, get_next, get_store,
       get_free, get_load, get_dec, reader_check
  <1>4. CASE \E t \in {"reader", "writer", "qmonitor"} : testcancel(t)
    BY <1>1, <1>4 DEF testcancel
  <1>5. CASE queue_init \/ main_threads
    BY <1>1, <1>5 DEF queue_init, main_threads, pthread_create, pthread_cancel, pthread_join
  <1>6. CASE queue_destroy
    BY <1>1, <1>6 DEF queue_destroy, pthread_cancel, pthread_join
  <1>7. CASE UNCHANGED vars
    BY <1>7 DEF vars
  <1> QED BY <1>2, <1>3, <1>4, <1>5, <1>6, <1>7 DEF Next, main, reader, writer, qmonitor

(* queue_destroy() finds every other thread dead, and every node that      *)
(* q->first leads to still allocated, whatever the races have done to the  *)
(* list: it frees no node twice and nobody uses the queue afterwards.      *)
DestroySafe ==
    process = "running" /\ pc["main"] = "free" =>
        /\ \A t \in Threads \ {"main"} : pc[t] = "dead"
        /\ Reachable \cap freed = {}

(* queue_destroy() is safe, because main() joins the three threads first   *)
(* and because what has been freed lies behind q->first.                   *)
THEOREM DestroySafeHolds == Spec => []DestroySafe
  <1>1. Init => StopInv
    BY DEF Init, StopInv, Threads
  <1>2. IInv /\ StopInv => DestroySafe
    <2> SUFFICES ASSUME IInv, StopInv, process = "running", pc["main"] = "free"
                 PROVE  /\ \A t \in Threads \ {"main"} : pc[t] = "dead"
                        /\ Reachable \cap freed = {}
      BY DEF DestroySafe
    <2>1. \A t \in Threads \ {"main"} : pc[t] = "dead"
      BY DEF StopInv, Threads
    <2>2. \A k \in freed : first = NULL \/ k < first
      BY FreedBehind
    <2>3. \A k \in Reachable : first # NULL /\ first <= k
      BY DEF Reachable
    <2>4. freed \subseteq Int /\ first \in Int
      BY DEF IInv, TypeOK, Values, NULL
    <2>5. ASSUME NEW k \in Reachable, k \in freed PROVE FALSE
      <3>1. k \in Int /\ first \in Int /\ first <= k /\ k < first
        BY <2>2, <2>3, <2>4, <2>5
      <3> QED BY <3>1
    <2>6. Reachable \cap freed = {}
      BY <2>5
    <2> QED BY <2>1, <2>6
  <1> QED BY Inductive, StopInvNext, <1>1, <1>2, PTL DEF Spec

(* Freed memory is used at two places of the program only: where           *)
(* queue_add() writes q->last->next and where it reads it back.            *)
THEOREM UndefinedOnlyInAdd ==
    Spec => [][process' = "undefined" =>
                  pc["writer"] \in {"add_link", "add_advance"} /\ last \in freed]_vars
  <1> DEFINE InAdd == process' = "undefined" =>
                  pc["writer"] \in {"add_link", "add_advance"} /\ last \in freed
  <1>1. ASSUME DestroySafe, Next PROVE InAdd
    <2>1. process = "running"
      BY <1>1 DEF Next
    <2>2. CASE queue_add
      BY <2>1, <2>2 DEF queue_add, add_test, Assert, add_first, add_last, add_publish,
         add_link, add_advance, add_load, add_store
    <2>3. CASE queue_get
      BY <2>1, <2>3 DEF queue_get, get_test, Assert, get_first, get_val, get_next, get_store,
         get_free, get_load, get_dec, reader_check
    <2>4. CASE main
      BY <1>1, <2>1, <2>4 DEF main, queue_init, main_threads, queue_destroy, DestroySafe,
         pthread_create, pthread_cancel, pthread_join
    <2>5. CASE \E t \in {"reader", "writer", "qmonitor"} : testcancel(t)
      BY <2>1, <2>5 DEF testcancel
    <2> QED BY <1>1, <2>2, <2>3, <2>4, <2>5 DEF Next, reader, writer, qmonitor
  <1>2. DestroySafe /\ [Next]_vars => [InAdd]_vars
    BY <1>1
  <1> QED BY DestroySafeHolds, <1>2, PTL DEF Spec
=============================================================================
