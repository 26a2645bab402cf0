------------------------- MODULE ListThreadsProofs --------------------------
(***************************************************************************)
(* Proofs about ListThreads, for a list of any length and any number of    *)
(* counting and swapping threads.                                          *)
(***************************************************************************)
EXTENDS ListThreads, TLAPS

(* What a walker at each of its statements has locked. *)
Holds(t, i) ==
    \/ i = cur[t] /\ pc[t] \in {"lock_next", "compare", "swap", "copy", "attempt"}
    \/ i = cur[t] + 1 /\ pc[t] \in {"compare", "swap", "copy", "attempt", "unlock_next"}

LockInv == \A i \in Nodes, t \in Walkers : lock[i] = t <=> Holds(t, i)

(* A thread is created once: nobody is sent back to the head of its loop   *)
(* with a node locked.                                                     *)
StartInv ==
    main_pc[1] = "create" => \A k \in main_pc[2]..Len(Order) : pc[Order[k]] = "new"

(* The inductive invariant. *)
IInv == TypeOK /\ LockInv /\ StartInv /\ ValuesPermuted

LEMMA InitIInv == Init => IInv
  <1> SUFFICES ASSUME Init PROVE IInv
    OBVIOUS
  <1> USE ListAssumption
  <1>1. Len(Order) >= 1
    BY DEF Order
  <1>2. TypeOK
    BY <1>1 DEF Init, TypeOK, Threads, Nodes, WalkerLabels, PrintLabels, Nobody
  <1>3. LockInv
    BY DEF Init, LockInv, Holds, Threads, Nobody
  <1>4. StartInv
    BY DEF Init, StartInv
  <1>5. ValuesPermuted
    <2>1. \A i \in Nodes : Copying(i) = {}
      BY DEF Init, Copying, Threads, Walkers
    <2> QED BY <2>1 DEF Init, ValuesPermuted, Record, Nodes
  <1> QED BY <1>2, <1>3, <1>4, <1>5 DEF IInv

-----------------------------------------------------------------------------
(* The first unlock, with both nodes locked. *)
LEMMA UnlockCurrent ==
    ASSUME TypeOK, LockInv, NEW t \in Walkers, pc[t] \in {"compare", "swap", "attempt"},
           Unlock(cur[t]), Goto(t, "unlock_next"), UNCHANGED cur
    PROVE  LockInv'
  <1> USE ListAssumption
  <1> SUFFICES ASSUME NEW i \in Nodes, NEW u \in Walkers
               PROVE  lock'[i] = u <=> Holds(u, i)'
    BY DEF LockInv
  <1>1. /\ DOMAIN pc = Threads /\ u \in Threads /\ t \in Threads
        /\ cur[t] \in Nodes /\ cur[u] \in Nodes /\ i \in Int /\ cur[t] \in Int
        /\ lock' = [lock EXCEPT ![cur[t]] = Nobody] /\ DOMAIN lock = Nodes
        /\ pc' = [pc EXCEPT ![t] = "unlock_next"] /\ Nobody # u
    BY DEF TypeOK, Unlock, Goto, Threads, Nodes, Nobody
  <1>2. (lock[i] = u <=> Holds(u, i)) /\ lock[cur[t]] = t
    BY <1>1 DEF LockInv, Holds
  <1>3. CASE u = t
    BY <1>1, <1>2, <1>3 DEF Holds
  <1>4. CASE u # t
    BY <1>1, <1>2, <1>4 DEF Holds
  <1> QED BY <1>3, <1>4

(* The second lock. *)
LEMMA LockNextStep ==
    ASSUME TypeOK, LockInv, NEW t \in Walkers, lock_next(t)
    PROVE  TypeOK' /\ LockInv'
  <1> USE ListAssumption
  <1>1. PICK label \in {"compare", "swap"} : pc' = [pc EXCEPT ![t] = label]
    BY DEF lock_next, Goto
  <1>2. /\ DOMAIN pc = Threads /\ Walkers \subseteq Threads /\ "print" \notin Walkers
        /\ \A u \in Walkers : cur[u] \in 1..(N - 1)
        /\ DOMAIN lock = Nodes /\ Nobody \notin Walkers
        /\ cur[t] + 1 \in Nodes /\ cur[t] # cur[t] + 1
    <2>1. /\ DOMAIN pc = Threads /\ Walkers \subseteq Threads /\ "print" \notin Walkers
          /\ \A u \in Walkers : cur[u] \in 1..(N - 1)
          /\ DOMAIN lock = Nodes /\ Nobody \notin Walkers
      BY DEF TypeOK, Threads, Nobody
    <2> QED BY <2>1 DEF Nodes
  <1>3. /\ lock[cur[t] + 1] = Nobody /\ lock' = [lock EXCEPT ![cur[t] + 1] = t]
        /\ pc[t] = "lock_next"
        /\ UNCHANGED <<cur, tmp, value, spin, cancel, main_pc, process>>
    BY DEF lock_next, Lock
  <1>4. TypeOK'
    <2>1. lock' \in [Nodes -> Walkers \cup {Nobody}]
      BY <1>2, <1>3 DEF TypeOK
    <2>2. /\ DOMAIN pc' = Threads /\ pc'["print"] \in PrintLabels
          /\ \A u \in Walkers : pc'[u] \in WalkerLabels
      BY <1>1, <1>2 DEF TypeOK, WalkerLabels
    <2> QED BY <1>3, <2>1, <2>2 DEF TypeOK
  <1>5. ASSUME NEW i \in Nodes, NEW u \in Walkers
        PROVE  lock'[i] = u <=> Holds(u, i)'
    <2>1. lock[i] = u <=> Holds(u, i)
      BY DEF LockInv
    <2>2. CASE u = t
      BY <1>1, <1>2, <1>3, <2>1, <2>2 DEF Holds
    <2>3. CASE u # t
      BY <1>1, <1>2, <1>3, <2>1, <2>3 DEF Holds
    <2> QED BY <2>2, <2>3
  <1> QED BY <1>4, <1>5 DEF LockInv

(* The second unlock and the step to the next pair of nodes. *)
LEMMA UnlockNextStep ==
    ASSUME TypeOK, LockInv, NEW t \in Walkers, unlock_next(t)
    PROVE  TypeOK' /\ LockInv'
  <1> USE ListAssumption
  <1>1. /\ DOMAIN pc = Threads /\ Walkers \subseteq Threads /\ "print" \notin Walkers
        /\ \A u \in Walkers : cur[u] \in 1..(N - 1)
        /\ DOMAIN cur = Walkers
        /\ DOMAIN lock = Nodes /\ Nobody \notin Walkers
        /\ cur[t] + 1 \in Nodes /\ cur[t] # cur[t] + 1
    BY DEF TypeOK, Threads, Nodes, Nobody
  <1>2. PICK c \in 1..(N - 1), label \in {"test", "stat", "first"} :
          cur' = [cur EXCEPT ![t] = c] /\ pc' = [pc EXCEPT ![t] = label]
    <2>1. CASE cur[t] + 1 < N
      <3>1. cur[t] + 1 \in 1..(N - 1)
        BY <1>1, <2>1
      <3>2. cur' = [cur EXCEPT ![t] = cur[t] + 1] /\ pc' = [pc EXCEPT ![t] = "test"]
        BY <2>1, <1>1 DEF unlock_next, Goto
      <3> QED BY <3>1, <3>2
    <2>2. CASE cur[t] + 1 = N
      <3>1. 1 \in 1..(N - 1)
        OBVIOUS
      <3>2. cur' = [cur EXCEPT ![t] = 1]
            /\ \E label \in {"stat", "first"} : pc' = [pc EXCEPT ![t] = label]
        BY <2>2, <1>1 DEF unlock_next, Goto
      <3> QED BY <3>1, <3>2
    <2> QED BY <2>1, <2>2 DEF unlock_next
  <1>3. /\ lock' = [lock EXCEPT ![cur[t] + 1] = Nobody]
        /\ pc[t] = "unlock_next"
        /\ UNCHANGED <<tmp, value, spin, cancel, main_pc, process>>
    BY DEF unlock_next, Unlock
  <1>4. TypeOK'
    <2>1. lock' \in [Nodes -> Walkers \cup {Nobody}]
      BY <1>1, <1>3 DEF TypeOK
    <2>2. /\ DOMAIN pc' = Threads /\ pc'["print"] \in PrintLabels
          /\ \A u \in Walkers : pc'[u] \in WalkerLabels
      BY <1>1, <1>2 DEF TypeOK, WalkerLabels
    <2>3. cur' \in [Walkers -> 1..(N - 1)]
      BY <1>1, <1>2 DEF TypeOK
    <2> QED BY <1>3, <2>1, <2>2, <2>3 DEF TypeOK
  <1>5. ASSUME NEW i \in Nodes, NEW u \in Walkers
        PROVE  lock'[i] = u <=> Holds(u, i)'
    <2>1. (lock[i] = u <=> Holds(u, i)) /\ lock[cur[t] + 1] = t
      BY <1>1, <1>3 DEF LockInv, Holds
    <2>2. CASE u = t
      <3>1. ~Holds(u, i)'
        BY <1>1, <1>2, <2>2 DEF Holds
      <3>2. lock'[i] # u
        BY <1>1, <1>3, <2>1, <2>2 DEF Holds
      <3> QED BY <3>1, <3>2
    <2>3. CASE u # t
      BY <1>1, <1>2, <1>3, <2>1, <2>3 DEF Holds
    <2> QED BY <2>2, <2>3
  <1> QED BY <1>4, <1>5 DEF LockInv

(* A step of a walker changes the locks as its statement says. *)
LEMMA WalkerLocks ==
    ASSUME TypeOK, LockInv, NEW t \in Walkers, WalkerStep(t)
    PROVE  TypeOK' /\ LockInv' /\ UNCHANGED <<main_pc, process>>
  <1> USE ListAssumption DEF Goto, Lock, Unlock, Nodes, Nobody
  <1> USE DEF TypeOK, LockInv, Holds, Threads, WalkerLabels
  <1>1. CASE read_first(t)
    BY <1>1, SMTT(30) DEF read_first
  <1>2. CASE testcancel(t)
    BY <1>2, SMTT(30) DEF testcancel
  <1>3. CASE lock_current(t)
    BY <1>3, SMTT(30) DEF lock_current
  <1>4. CASE lock_next(t)
    BY <1>4, LockNextStep DEF lock_next
  <1>5. CASE unlock_next(t)
    BY <1>5, UnlockNextStep DEF unlock_next
  <1>6. CASE compare(t)
    <2>1. TypeOK' /\ UNCHANGED <<main_pc, process>>
      BY <1>6 DEF compare
    <2>2. LockInv'
      BY <1>6, UnlockCurrent DEF compare
    <2> QED BY <2>1, <2>2
  <1>7. CASE count_pass(t)
    BY <1>7, SMTT(30) DEF count_pass
  <1>8. CASE swap_skipped(t)
    <2>1. TypeOK' /\ UNCHANGED <<main_pc, process>>
      BY <1>8 DEF swap_skipped
    <2>2. LockInv'
      BY <1>8, UnlockCurrent DEF swap_skipped
    <2> QED BY <2>1, <2>2
  <1>9. CASE list_swap_first(t)
    BY <1>9, SMTT(30) DEF list_swap_first
  <1>10. CASE list_swap_second(t)
    BY <1>10, SMTT(30) DEF list_swap_second
  <1>11. CASE count_swap(t)
    <2>1. TypeOK' /\ UNCHANGED <<main_pc, process>>
      BY <1>11 DEF count_swap
    <2>2. LockInv'
      BY <1>11, UnlockCurrent DEF count_swap
    <2> QED BY <2>1, <2>2
  <1> QED BY <1>1, <1>2, <1>3, <1>4, <1>5, <1>6, <1>7, <1>8, <1>9, <1>10, <1>11
          DEF WalkerStep, count_thread, swap_thread, walk

-----------------------------------------------------------------------------
(* What a walker leaves alone, whatever its statement. *)
LEMMA WalkerFrame ==
    ASSUME TypeOK, NEW t \in Walkers, WalkerStep(t)
    PROVE  /\ pc[t] # "new" /\ UNCHANGED main_pc
           /\ \A u \in Threads \ {t} : pc'[u] = pc[u]
           /\ \A u \in Walkers \ {t} : cur'[u] = cur[u]
  <1>1. DOMAIN pc = Threads /\ DOMAIN cur = Walkers
    BY DEF TypeOK
  <1> USE DEF Goto
  <1>2. CASE walk(t)
    BY <1>1, <1>2
       DEF walk, read_first, testcancel, lock_current, lock_next, unlock_next
  <1>3. CASE compare(t) \/ count_pass(t)
    BY <1>1, <1>3 DEF compare, count_pass
  <1>4. CASE swap_skipped(t) \/ list_swap_first(t) \/ list_swap_second(t) \/ count_swap(t)
    BY <1>1, <1>4 DEF swap_skipped, list_swap_first, list_swap_second, count_swap
  <1> QED BY <1>2, <1>3, <1>4 DEF WalkerStep, count_thread, swap_thread

(* A thread that is yet to be created takes no step. *)
LEMMA WalkerStart ==
    ASSUME TypeOK, StartInv, NEW t \in Walkers, WalkerStep(t)
    PROVE  StartInv'
  <1>1. /\ pc[t] # "new" /\ main_pc' = main_pc
        /\ \A u \in Threads \ {t} : pc'[u] = pc[u]
    BY WalkerFrame
  <1> SUFFICES ASSUME main_pc[1] = "create", NEW k \in main_pc[2]..Len(Order)
               PROVE  pc'[Order[k]] = "new"
    BY <1>1 DEF StartInv
  <1>2. pc[Order[k]] = "new"
    BY DEF StartInv
  <1>3. main_pc[2] \in 1..Len(Order)
    BY DEF TypeOK
  <1>4. Order \in Seq(Threads)
    BY ListAssumption
  <1>5. k \in 1..Len(Order)
    BY <1>3, <1>4
  <1>6. Order[k] \in Threads
    BY <1>4, <1>5
  <1> QED BY <1>1, <1>2, <1>6

-----------------------------------------------------------------------------
(* The records, while swaps are under way. *)

(* A step that copies nothing leaves every place its record. *)
LEMMA SameRecords ==
    ASSUME ValuesPermuted, value' = value, tmp' = tmp,
           \A u \in Range(Swappers) : /\ pc'[u] = "copy" <=> pc[u] = "copy"
                                      /\ pc[u] = "copy" => cur'[u] = cur[u]
    PROVE  ValuesPermuted'
  <1>1. \A i \in Nodes : Copying(i)' = Copying(i)
    BY DEF Copying
  <1>2. ASSUME NEW i \in Nodes
        PROVE  Record(i)' = Record(i)
    <2>1. Copying(i)' = Copying(i)
      BY <1>1
    <2> QED BY <2>1 DEF Record
  <1> QED BY <1>2 DEF ValuesPermuted

(* Who copies into a node has it locked, and nobody else has.  The other   *)
(* threads' part in the records therefore stays as it is while t copies.   *)
LEMMA CopierHolds ==
    ASSUME TypeOK, LockInv, NEW u \in Range(Swappers), pc[u] = "copy"
    PROVE  lock[cur[u]] = u /\ lock[cur[u] + 1] = u
  <1>1. u \in Walkers /\ cur[u] \in 1..(N - 1)
    BY DEF Walkers, TypeOK
  <1>2. cur[u] \in Nodes /\ cur[u] + 1 \in Nodes
    BY <1>1, ListAssumption DEF Nodes
  <1> QED BY <1>1, <1>2 DEF LockInv, Holds

LEMMA SwapFirst ==
    ASSUME TypeOK, LockInv, ValuesPermuted, NEW t \in Range(Swappers), list_swap_first(t)
    PROVE  ValuesPermuted'
  <1>0. PICK c \in 1..(N - 1) : c = cur[t]
    BY DEF TypeOK, Walkers
  <1>1. /\ t \in Walkers /\ c \in 1..(N - 1) /\ pc[t] = "swap"
        /\ DOMAIN pc = Threads /\ DOMAIN value = Nodes /\ DOMAIN tmp = Walkers
        /\ Range(Swappers) \subseteq Walkers /\ Walkers \subseteq Threads
        /\ pc' = [pc EXCEPT ![t] = "copy"] /\ cur' = cur
        /\ tmp' = [tmp EXCEPT ![t] = value[c]]
        /\ value' = [value EXCEPT ![c] = value[c + 1]]
    BY <1>0 DEF TypeOK, list_swap_first, Goto, Walkers, Threads
  <1>2. c \in Nodes /\ c + 1 \in Nodes /\ c # c + 1 /\ N \in Nat
    BY <1>1, ListAssumption DEF Nodes
  <1>3. lock[c] = t /\ lock[c + 1] = t
    BY <1>0, <1>1, <1>2 DEF LockInv, Holds
  <1>4. Copying(c) = {} /\ Copying(c + 1) = {}
    BY <1>1, <1>3, CopierHolds DEF Copying
  <1>5. Copying(c + 1)' = {t}
    <2>1. \A u \in Range(Swappers) : u # t => ~(pc[u] = "copy" /\ cur[u] + 1 = c + 1)
      BY <1>4 DEF Copying
    <2>2. \A u \in Range(Swappers) : u # t => ~(pc'[u] = "copy" /\ cur'[u] + 1 = c + 1)
      BY <1>1, <2>1
    <2>3. pc'[t] = "copy" /\ cur'[t] + 1 = c + 1
      BY <1>0, <1>1
    <2> QED BY <2>2, <2>3 DEF Copying
  <1>6. \A i \in Nodes : i # c + 1 => Copying(i)' = Copying(i) /\ t \notin Copying(i)
    <2> SUFFICES ASSUME NEW i \in Nodes, i # c + 1
                 PROVE  Copying(i)' = Copying(i) /\ t \notin Copying(i)
      OBVIOUS
    <2>1. t \notin Copying(i)
      BY <1>1 DEF Copying
    <2>2. ~(cur'[t] + 1 = i)
      BY <1>0, <1>1
    <2>3. \A u \in Range(Swappers) : u # t => pc'[u] = pc[u] /\ cur'[u] = cur[u]
      BY <1>1
    <2> QED BY <2>1, <2>2, <2>3 DEF Copying
  <1>7. Record(c + 1)' = Record(c)
    <2>1. Record(c + 1)' = tmp'[t]
      BY <1>5 DEF Record
    <2>2. Record(c) = value[c]
      BY <1>4 DEF Record
    <2> QED BY <1>1, <2>1, <2>2
  <1>8. Record(c)' = Record(c + 1)
    <2>1. Record(c)' = value'[c]
      BY <1>2, <1>4, <1>6 DEF Record
    <2>2. Record(c + 1) = value[c + 1]
      BY <1>4 DEF Record
    <2> QED BY <1>1, <1>2, <2>1, <2>2
  <1>9. ASSUME NEW i \in Nodes, i # c, i # c + 1
        PROVE  Record(i)' = Record(i)
    <2>1. Copying(i)' = Copying(i) /\ t \notin Copying(i) /\ value'[i] = value[i]
      BY <1>1, <1>6, <1>9
    <2>2. CASE Copying(i) = {}
      BY <2>1, <2>2 DEF Record
    <2>3. CASE Copying(i) # {}
      <3> DEFINE u == CHOOSE x \in Copying(i) : TRUE
      <3>1. u \in Copying(i)
        BY <2>3
      <3>2. u # t /\ u \in Walkers
        BY <1>1, <2>1, <3>1 DEF Copying
      <3>3. Record(i)' = tmp'[u] /\ Record(i) = tmp[u]
        BY <2>1, <2>3 DEF Record
      <3> QED BY <1>1, <3>2, <3>3
    <2> QED BY <2>2, <2>3
  <1> DEFINE p == [i \in Nodes |-> IF i = c THEN c + 1 ELSE IF i = c + 1 THEN c ELSE i]
  <1>10. \A i \in Nodes : p[i] \in Nodes /\ Record(i)' = Record(p[i])
    BY <1>2, <1>7, <1>8, <1>9
  <1>11. \A i, j \in Nodes : p[i] = p[j] => i = j
    BY <1>2
  <1> HIDE DEF p
  <1> QED BY <1>10, <1>11 DEF ValuesPermuted

LEMMA SwapSecond ==
    ASSUME TypeOK, LockInv, ValuesPermuted, NEW t \in Range(Swappers), list_swap_second(t)
    PROVE  ValuesPermuted'
  <1>0. PICK c \in 1..(N - 1) : c = cur[t]
    BY DEF TypeOK, Walkers
  <1>1. /\ t \in Walkers /\ c \in 1..(N - 1) /\ pc[t] = "copy"
        /\ DOMAIN pc = Threads /\ DOMAIN value = Nodes /\ DOMAIN tmp = Walkers
        /\ Range(Swappers) \subseteq Walkers /\ Walkers \subseteq Threads
        /\ pc' = [pc EXCEPT ![t] = "attempt"] /\ cur' = cur
        /\ tmp' = [tmp EXCEPT ![t] = 0]
        /\ value' = [value EXCEPT ![c + 1] = tmp[t]]
    BY <1>0 DEF TypeOK, list_swap_second, Goto, Walkers, Threads
  <1>2. c + 1 \in Nodes /\ N \in Nat
    BY <1>1, ListAssumption DEF Nodes
  <1>3. lock[c + 1] = t
    BY <1>0, <1>1, CopierHolds
  <1>4. t \in Copying(c + 1) /\ \A i \in Nodes : i # c + 1 => t \notin Copying(i)
    BY <1>0, <1>1 DEF Copying
  <1>5. Copying(c + 1) = {t}
    BY <1>3, <1>4, CopierHolds DEF Copying
  <1>6. /\ \A u \in Range(Swappers) : u # t => pc'[u] = pc[u] /\ cur'[u] = cur[u]
        /\ pc'[t] # "copy"
    BY <1>1
  <1>7. Copying(c + 1)' = {}
    BY <1>5, <1>6 DEF Copying
  <1>8. Record(c + 1)' = Record(c + 1)
    <2>1. Record(c + 1)' = value'[c + 1]
      BY <1>7 DEF Record
    <2>2. Record(c + 1) = tmp[t]
      BY <1>5 DEF Record
    <2> QED BY <1>1, <1>2, <2>1, <2>2
  <1>9. ASSUME NEW i \in Nodes, i # c + 1
        PROVE  Record(i)' = Record(i)
    <2>1. Copying(i)' = Copying(i)
      BY <1>4, <1>6, <1>9 DEF Copying
    <2>2. value'[i] = value[i] /\ t \notin Copying(i)
      BY <1>1, <1>4, <1>9
    <2>3. CASE Copying(i) = {}
      BY <2>1, <2>2, <2>3 DEF Record
    <2>4. CASE Copying(i) # {}
      <3> DEFINE u == CHOOSE x \in Copying(i) : TRUE
      <3>1. u \in Copying(i)
        BY <2>4
      <3>2. u # t /\ u \in Walkers
        BY <1>1, <2>2, <3>1 DEF Copying
      <3>3. Record(i)' = tmp'[u] /\ Record(i) = tmp[u]
        BY <2>1, <2>4 DEF Record
      <3> QED BY <1>1, <3>2, <3>3
    <2> QED BY <2>3, <2>4
  <1> QED BY <1>8, <1>9 DEF ValuesPermuted

LEMMA WalkerRecords ==
    ASSUME TypeOK, LockInv, ValuesPermuted, NEW t \in Walkers, WalkerStep(t)
    PROVE  ValuesPermuted'
  <1>1. /\ DOMAIN pc = Threads /\ DOMAIN cur = Walkers
        /\ Range(Swappers) \subseteq Walkers /\ Walkers \subseteq Threads
    BY DEF TypeOK, Walkers, Threads
  <1>2. /\ \A u \in Threads \ {t} : pc'[u] = pc[u]
        /\ \A u \in Walkers \ {t} : cur'[u] = cur[u]
    BY WalkerFrame
  <1>3. ASSUME value' = value, tmp' = tmp, pc[t] # "copy", pc'[t] # "copy"
        PROVE  ValuesPermuted'
    <2>1. \A u \in Range(Swappers) : /\ pc'[u] = "copy" <=> pc[u] = "copy"
                                     /\ pc[u] = "copy" => cur'[u] = cur[u]
      BY <1>1, <1>2, <1>3
    <2> QED BY <1>3, <2>1, SameRecords
  <1>4. CASE walk(t)
    <2>1. value' = value /\ tmp' = tmp /\ pc[t] # "copy" /\ pc'[t] # "copy"
      BY <1>1, <1>4
         DEF walk, read_first, testcancel, lock_current, lock_next, unlock_next, Goto
    <2> QED BY <1>3, <2>1
  <1>5. CASE compare(t) \/ count_pass(t) \/ swap_skipped(t) \/ count_swap(t)
    <2>1. value' = value /\ tmp' = tmp /\ pc[t] # "copy" /\ pc'[t] # "copy"
      BY <1>1, <1>5 DEF compare, count_pass, swap_skipped, count_swap, Goto
    <2> QED BY <1>3, <2>1
  <1>6. CASE t \in Range(Swappers) /\ list_swap_first(t)
    BY <1>6, SwapFirst
  <1>7. CASE t \in Range(Swappers) /\ list_swap_second(t)
    BY <1>7, SwapSecond
  <1> QED BY <1>4, <1>5, <1>6, <1>7 DEF WalkerStep, count_thread, swap_thread

-----------------------------------------------------------------------------
(* print_stat() and main() touch neither nodes nor records. *)

LEMMA PrintStep ==
    ASSUME IInv, print_stat
    PROVE  IInv'
  <1>1. TypeOK /\ LockInv /\ StartInv /\ ValuesPermuted
    BY DEF IInv
  <1>2. PICK label \in PrintLabels \ {"new"} : pc' = [pc EXCEPT !["print"] = label]
    BY DEF print_stat, print_sleep, print_lock, print_printf, print_unlock, Goto, PrintLabels
  <1>3. /\ pc["print"] # "new"
        /\ UNCHANGED <<cur, tmp, value, lock, cancel, main_pc, process>>
    BY DEF print_stat, print_sleep, print_lock, print_printf, print_unlock
  <1>4. /\ DOMAIN pc = Threads /\ "print" \in Threads /\ "print" \notin Walkers
        /\ Walkers \subseteq Threads /\ Range(Swappers) \subseteq Walkers
    BY <1>1, ListAssumption DEF TypeOK, Threads, Walkers
  <1>5. /\ DOMAIN pc' = Threads /\ pc'["print"] = label
        /\ \A u \in Threads \ {"print"} : pc'[u] = pc[u]
    BY <1>2, <1>4
  <1>6. spin' \subseteq Range(SpinOrder)
    <2>1. \A k \in DOMAIN SpinOrder : SpinOrder[k] \in Range(SpinOrder)
      BY DEF Range
    <2> QED BY <1>1, <2>1
            DEF TypeOK, print_stat, print_sleep, print_lock, print_printf, print_unlock
  <1>7. TypeOK'
    BY <1>1, <1>3, <1>4, <1>5, <1>6 DEF TypeOK
  <1>8. LockInv'
    BY <1>1, <1>3, <1>4, <1>5 DEF LockInv, Holds
  <1>9. StartInv'
    <2> SUFFICES ASSUME main_pc[1] = "create", NEW k \in main_pc[2]..Len(Order)
                 PROVE  pc'[Order[k]] = "new"
      BY <1>3 DEF StartInv
    <2>1. pc[Order[k]] = "new"
      BY <1>1 DEF StartInv
    <2>2. main_pc[2] \in 1..Len(Order) /\ Order \in Seq(Threads)
      BY <1>1, ListAssumption DEF TypeOK
    <2>3. Order[k] \in Threads
      BY <2>2
    <2> QED BY <1>3, <1>5, <2>1, <2>3
  <1>10. ValuesPermuted'
    BY <1>1, <1>3, <1>4, <1>5, SameRecords
  <1> QED BY <1>7, <1>8, <1>9, <1>10 DEF IInv

LEMMA MainStep ==
    ASSUME IInv, main
    PROVE  IInv'
  <1>1. TypeOK /\ LockInv /\ StartInv /\ ValuesPermuted
    BY DEF IInv
  <1> DEFINE n == Len(Order)
  <1>2. /\ main_pc \in {"create", "cancel", "join", "destroy"} \X (1..n)
        /\ Order \in Seq(Threads) /\ n \in Nat
        /\ \A i, j \in 1..n : Order[i] = Order[j] => i = j
    BY <1>1, ListAssumption DEF TypeOK
  <1>3. PICK phase \in {"create", "cancel", "join", "destroy"}, k \in 1..n :
          main_pc = <<phase, k>>
    BY <1>2
  <1>4. Order[k] \in Threads
    BY <1>2
  <1>5. /\ DOMAIN pc = Threads /\ "print" \notin Walkers
        /\ Walkers \subseteq Threads /\ Range(Swappers) \subseteq Walkers
        /\ Threads = Walkers \cup {"print"}
    BY <1>1, ListAssumption DEF TypeOK, Threads, Walkers
  <1>6. UNCHANGED <<cur, tmp, value, lock, spin>>
    BY DEF main, main_create, main_cancel, main_join, main_destroy
  <1>7. CASE main_create
    <2>1. /\ phase = "create"
          /\ \/ pc' = [pc EXCEPT ![Order[k]] = IF Order[k] = "print" THEN "sleep" ELSE "first"]
             \/ pc' = pc
          /\ main_pc' = IF k < n THEN <<"create", k + 1>> ELSE <<"cancel", 1>>
          /\ UNCHANGED <<cancel, process>>
      BY <1>3, <1>7 DEF main_create, Goto, MainGoto
    <2>2. pc[Order[k]] = "new"
      BY <1>1, <1>2, <1>3, <2>1 DEF StartInv
    <2>3. /\ DOMAIN pc' = Threads
          /\ \A u \in Threads \ {Order[k]} : pc'[u] = pc[u]
          /\ pc'[Order[k]] \in {"new", IF Order[k] = "print" THEN "sleep" ELSE "first"}
      BY <1>4, <1>5, <2>1, <2>2
    <2>4. main_pc' \in {"create", "cancel", "join", "destroy"} \X (1..n)
      BY <1>2, <2>1
    <2>5. pc'["print"] \in PrintLabels /\ \A u \in Walkers : pc'[u] \in WalkerLabels
      <3>1. pc["print"] \in PrintLabels /\ \A u \in Walkers : pc[u] \in WalkerLabels
        BY <1>1 DEF TypeOK
      <3>2. CASE Order[k] = "print"
        BY <1>5, <2>3, <3>1, <3>2 DEF PrintLabels
      <3>3. CASE Order[k] # "print"
        BY <1>5, <2>3, <3>1, <3>3 DEF WalkerLabels
      <3> QED BY <3>2, <3>3
    <2>6. TypeOK'
      BY <1>1, <1>6, <2>1, <2>3, <2>4, <2>5 DEF TypeOK
    <2>7. LockInv'
      <3>1. ASSUME NEW u \in Walkers, NEW i \in Nodes
            PROVE  lock'[i] = u <=> Holds(u, i)'
        <4>1. lock[i] = u <=> Holds(u, i)
          BY <1>1 DEF LockInv
        <4>2. CASE u = Order[k]
          BY <1>5, <1>6, <2>2, <2>3, <4>1, <4>2 DEF Holds
        <4>3. CASE u # Order[k]
          BY <1>5, <1>6, <2>3, <4>1, <4>3 DEF Holds
        <4> QED BY <4>2, <4>3
      <3> QED BY <3>1 DEF LockInv
    <2>8. StartInv'
      <3> SUFFICES ASSUME k < n, NEW l \in (k + 1)..n
                   PROVE  pc'[Order[l]] = "new"
        BY <2>1 DEF StartInv
      <3>1. l \in 1..n /\ l # k /\ l \in k..n
        BY <1>2
      <3>2. Order[l] \in Threads /\ Order[l] # Order[k]
        BY <1>2, <3>1
      <3>3. pc[Order[l]] = "new"
        BY <1>1, <1>3, <2>1, <3>1 DEF StartInv
      <3> QED BY <2>3, <3>2, <3>3
    <2>9. ValuesPermuted'
      <3>1. \A u \in Range(Swappers) : pc'[u] = "copy" <=> pc[u] = "copy"
        BY <1>5, <2>2, <2>3
      <3> QED BY <1>1, <1>6, <3>1, SameRecords
    <2> QED BY <2>6, <2>7, <2>8, <2>9 DEF IInv
  <1>8. CASE main_cancel \/ main_join \/ main_destroy
    <2>1. pc' = pc /\ main_pc'[1] # "create"
          /\ main_pc' \in {"create", "cancel", "join", "destroy"} \X (1..n)
      BY <1>2, <1>3, <1>8 DEF main_cancel, main_join, main_destroy, MainGoto
    <2>2. cancel' \subseteq Threads /\ process' \in {"running", "exited", "undefined"}
      BY <1>1, <1>3, <1>4, <1>8 DEF TypeOK, main_cancel, main_join, main_destroy
    <2>3. TypeOK'
      BY <1>1, <1>6, <2>1, <2>2 DEF TypeOK
    <2>4. LockInv'
      BY <1>1, <1>6, <2>1 DEF LockInv, Holds
    <2>5. StartInv'
      BY <2>1 DEF StartInv
    <2>6. ValuesPermuted'
      BY <1>1, <1>6, <2>1, SameRecords
    <2> QED BY <2>3, <2>4, <2>5, <2>6 DEF IInv
  <1> QED BY <1>7, <1>8 DEF main

-----------------------------------------------------------------------------
LEMMA Inductive == IInv /\ [Next]_vars => IInv'
  <1> SUFFICES ASSUME IInv, [Next]_vars PROVE IInv'
    OBVIOUS
  <1>1. CASE main
    BY <1>1, MainStep
  <1>2. CASE print_stat
    BY <1>2, PrintStep
  <1>3. ASSUME NEW t \in Walkers, WalkerStep(t)
        PROVE  IInv'
    BY <1>3, WalkerLocks, WalkerStart, WalkerRecords DEF IInv
  <1>4. CASE UNCHANGED vars
    <2>1. TypeOK' /\ LockInv' /\ StartInv'
      BY <1>4 DEF IInv, TypeOK, LockInv, Holds, StartInv, vars
    <2>2. ValuesPermuted'
      BY <1>4, SameRecords DEF IInv, vars
    <2> QED BY <2>1, <2>2 DEF IInv
  <1> QED BY <1>1, <1>2, <1>3, <1>4 DEF Next

LEMMA Invariance == Spec => []IInv
  BY InitIInv, Inductive, PTL DEF Spec

(* Every variable keeps its type: no walker goes past the last pair of     *)
(* nodes.                                                                  *)
THEOREM TypeCorrect == Spec => []TypeOK
  <1>1. IInv => TypeOK
    BY DEF IInv
  <1> QED BY <1>1, Invariance, PTL

(* No record is lost or doubled by any number of threads in list_swap(),   *)
(* the swaps under way included.                                           *)
THEOREM ValuesPermutedHolds == Spec => []ValuesPermuted
  <1>1. IInv => ValuesPermuted
    BY DEF IInv
  <1> QED BY <1>1, Invariance, PTL

(* The two node locks keep a comparison and a list_swap(), or two          *)
(* list_swap()s, off a common node.                                        *)
THEOREM WholeRecordsHolds == Spec => []WholeRecords
  <1>1. IInv => WholeRecords
    <2> SUFFICES ASSUME TypeOK, LockInv, NEW t \in Walkers, NEW u \in Walkers, t # u,
                        pc[t] \in {"compare", "swap", "copy"}, pc[u] = "copy"
                 PROVE  {cur[t], cur[t] + 1} \cap {cur[u], cur[u] + 1} = {}
      BY DEF IInv, WholeRecords
    <2>0. cur[t] \in 1..(N - 1) /\ cur[u] \in 1..(N - 1)
      BY DEF TypeOK
    <2>1. /\ cur[t] \in Nodes /\ cur[t] + 1 \in Nodes
          /\ cur[u] \in Nodes /\ cur[u] + 1 \in Nodes
      BY <2>0, ListAssumption DEF Nodes
    <2>2. /\ lock[cur[t]] = t /\ lock[cur[t] + 1] = t
          /\ lock[cur[u]] = u /\ lock[cur[u] + 1] = u
      BY <2>1 DEF LockInv, Holds
    <2> QED BY <2>2
  <1> QED BY <1>1, Invariance, PTL

-----------------------------------------------------------------------------
(* The order of the locks.                                                 *)

(* The node that walker t is about to lock. *)
Wants(t, i) ==
    \/ pc[t] = "first" /\ i = 1
    \/ pc[t] = "lock_current" /\ i = cur[t]
    \/ pc[t] = "lock_next" /\ i = cur[t] + 1

(* Whoever waits for a node waits for somebody else, who waits, if at all, *)
(* for a node further on; the holder of the last locked node can go on.    *)
NoCircularWait ==
    \A t, u \in Walkers, i \in Nodes :
        Wants(t, i) /\ lock[i] = u =>
            /\ t # u
            /\ \A j \in Nodes : Wants(u, j) => j > i
            /\ (\A k \in Nodes : k > i => lock[k] = Nobody) =>
                \A j \in Nodes : Wants(u, j) => lock[j] = Nobody

(* However many threads walk along the list, their waiting for node        *)
(* mutexes never closes a circle: the order of the list is the order of    *)
(* locking, although list_swap() runs with two nodes locked.               *)
THEOREM NoCircularWaitHolds == Spec => []NoCircularWait
  <1>1. IInv => NoCircularWait
    <2> SUFFICES ASSUME IInv, NEW t \in Walkers, NEW u \in Walkers, NEW i \in Nodes,
                        Wants(t, i), lock[i] = u
                 PROVE  /\ t # u
                        /\ \A j \in Nodes : Wants(u, j) => j > i
                        /\ (\A k \in Nodes : k > i => lock[k] = Nobody) =>
                            \A j \in Nodes : Wants(u, j) => lock[j] = Nobody
      BY DEF NoCircularWait
    <2>1. Holds(u, i) /\ cur[u] \in 1..(N - 1)
      BY DEF IInv, LockInv, TypeOK
    <2>2. ASSUME NEW j \in Nodes, Wants(u, j) PROVE j > i
      BY <2>1, <2>2, ListAssumption DEF Holds, Wants, Nodes
    <2>3. t # u
      <3> SUFFICES ASSUME t = u PROVE FALSE
        OBVIOUS
      <3>1. i > i
        BY <2>2
      <3> QED BY <3>1, ListAssumption DEF Nodes
    <2> QED BY <2>2, <2>3
  <1> QED BY <1>1, Invariance, PTL

-----------------------------------------------------------------------------
(* The end of the threads.                                                 *)

(* A thread that has ended does not run again. *)
LEMMA DeadIsFinal ==
    ASSUME IInv, [Next]_vars, NEW t \in Threads, pc[t] = "dead"
    PROVE  pc'[t] = "dead"
  <1>1. TypeOK /\ StartInv /\ DOMAIN pc = Threads
    BY DEF IInv, TypeOK
  <1>2. ASSUME NEW u \in Walkers, WalkerStep(u)
        PROVE  pc'[t] = "dead"
    <2>1. pc[u] # "dead"
      BY <1>2 DEF WalkerStep, count_thread, swap_thread, walk, read_first, testcancel, lock_current,
         lock_next, unlock_next, compare, count_pass, swap_skipped, list_swap_first,
         list_swap_second, count_swap
    <2> QED BY <1>1, <1>2, <2>1, WalkerFrame
  <1>3. CASE print_stat
    BY <1>1, <1>3 DEF print_stat, print_sleep, print_lock, print_printf, print_unlock, Goto
  <1>4. CASE main
    <2>1. CASE main_create
      <3>1. main_pc[2] \in 1..Len(Order) /\ Order \in Seq(Threads)
        BY <1>1, ListAssumption DEF TypeOK
      <3>2. pc[Order[main_pc[2]]] = "new"
        BY <1>1, <2>1, <3>1 DEF StartInv, main_create
      <3>3. t # Order[main_pc[2]]
        BY <3>2
      <3> QED BY <1>1, <2>1, <3>3 DEF main_create, Goto
    <2>2. CASE main_cancel \/ main_join \/ main_destroy
      BY <2>2 DEF main_cancel, main_join, main_destroy
    <2> QED BY <1>4, <2>1, <2>2 DEF main
  <1>5. CASE UNCHANGED vars
    BY <1>5 DEF vars
  <1> QED BY <1>2, <1>3, <1>4, <1>5 DEF Next

(* main() has joined the threads in front of the one it waits for. *)
JoinInv ==
    /\ main_pc[1] = "join" => \A k \in 1..(main_pc[2] - 1) : pc[Order[k]] = "dead"
    /\ main_pc[1] = "destroy" => \A k \in 1..Len(Order) : pc[Order[k]] = "dead"
    /\ process = "exited" => main_pc[1] = "destroy"

LEMMA JoinInit == Init => JoinInv
  BY DEF Init, JoinInv

LEMMA JoinStep == IInv /\ JoinInv /\ [Next]_vars => JoinInv'
  <1> SUFFICES ASSUME IInv, JoinInv, [Next]_vars PROVE JoinInv'
    OBVIOUS
  <1> DEFINE n == Len(Order)
  <1>1. /\ main_pc \in {"create", "cancel", "join", "destroy"} \X (1..n)
        /\ Order \in Seq(Threads) /\ n \in Nat
    BY ListAssumption DEF IInv, TypeOK
  <1>2. PICK phase \in {"create", "cancel", "join", "destroy"}, k \in 1..n : main_pc = <<phase, k>>
    BY <1>1
  <1>3. \A l \in 1..n : pc[Order[l]] = "dead" => pc'[Order[l]] = "dead"
    BY <1>1, DeadIsFinal
  <1>4. CASE main_join
    <2>1. phase = "join" /\ pc[Order[k]] = "dead" /\ process' = process
          /\ main_pc' = IF k < n THEN <<"join", k + 1>> ELSE <<"destroy", 1>>
      BY <1>2, <1>4 DEF main_join, MainGoto
    <2>2. \A l \in 1..k : pc'[Order[l]] = "dead"
      <3>1. \A l \in 1..k : l \in 1..n /\ (l \in 1..(k - 1) \/ l = k)
        BY <1>1
      <3> QED BY <1>2, <1>3, <2>1, <3>1 DEF JoinInv
    <2>3. process # "exited"
      BY <1>2, <2>1 DEF JoinInv
    <2>4. CASE k < n
      BY <1>1, <2>1, <2>2, <2>3, <2>4 DEF JoinInv
    <2>5. CASE ~(k < n)
      <3>1. k = n
        BY <1>1, <2>5
      <3> QED BY <2>1, <2>2, <2>3, <2>5, <3>1 DEF JoinInv
    <2> QED BY <2>4, <2>5
  <1>5. CASE main_create \/ main_cancel
    <2>1. /\ phase \in {"create", "cancel"} /\ process' # "exited"
          /\ \/ main_pc'[1] \in {"create", "cancel"}
             \/ main_pc' = <<"join", 1>>
      BY <1>1, <1>2, <1>5 DEF main_create, main_cancel, MainGoto, JoinInv
    <2> QED BY <2>1 DEF JoinInv
  <1>6. CASE main_destroy
    BY <1>6 DEF main_destroy, JoinInv
  <1>7. CASE UNCHANGED <<main_pc, process>>
    <2>1. \A l \in 1..(k - 1) : l \in 1..n
      BY <1>1
    <2> QED BY <1>2, <1>3, <1>7, <2>1 DEF JoinInv
  <1>8. ASSUME NEW t \in Walkers, WalkerStep(t)
        PROVE  UNCHANGED <<main_pc, process>>
    BY <1>8, WalkerLocks DEF IInv
  <1>9. CASE print_stat
    BY <1>7, <1>9 DEF print_stat, print_sleep, print_lock, print_printf, print_unlock
  <1> QED BY <1>4, <1>5, <1>6, <1>7, <1>8, <1>9 DEF Next, main, vars

LEMMA OrderCovers == ASSUME NEW t \in Threads PROVE \E k \in 1..Len(Order) : Order[k] = t
  <1> DEFINE C == Len(Counters)
             S == Len(Swappers)
  <1>1. /\ Counters \in Seq(Walkers) /\ Swappers \in Seq(Walkers)
        /\ C \in Nat /\ S \in Nat /\ <<"print">> \in Seq({"print"})
    BY ListAssumption
  <1>2. /\ Len(Order) = C + S + 1
        /\ \A k \in 1..C : Order[k] = Counters[k]
        /\ \A k \in 1..S : Order[C + k] = Swappers[k]
        /\ Order[C + S + 1] = "print"
    BY <1>1 DEF Order
  <1>3. CASE t = "print"
    BY <1>1, <1>2, <1>3
  <1>4. CASE t \in Range(Counters)
    <2>1. PICK k \in 1..C : Counters[k] = t
      BY <1>1, <1>4 DEF Range
    <2>2. k \in 1..Len(Order)
      BY <1>1, <1>2
    <2> QED BY <1>2, <2>1, <2>2
  <1>5. CASE t \in Range(Swappers)
    <2>1. PICK k \in 1..S : Swappers[k] = t
      BY <1>1, <1>5 DEF Range
    <2>2. C + k \in 1..Len(Order)
      BY <1>1, <1>2
    <2> QED BY <1>2, <2>1, <2>2
  <1> QED BY <1>3, <1>4, <1>5 DEF Threads, Walkers

(* Nobody uses the list any more, and all its mutexes are unlocked. *)
Quiet ==
    /\ \A t \in Threads : pc[t] = "dead"
    /\ \A i \in Nodes : lock[i] = Nobody

LEMMA QuietAtDestroy == IInv /\ JoinInv /\ main_pc[1] = "destroy" => Quiet
  <1> SUFFICES ASSUME IInv, JoinInv, main_pc[1] = "destroy" PROVE Quiet
    OBVIOUS
  <1>1. \A t \in Threads : pc[t] = "dead"
    BY OrderCovers DEF JoinInv
  <1>2. ASSUME NEW i \in Nodes PROVE lock[i] = Nobody
    <2>1. lock[i] \in Walkers \cup {Nobody}
      BY DEF IInv, TypeOK
    <2>2. \A t \in Walkers : ~Holds(t, i)
      BY <1>1 DEF Holds, Threads
    <2> QED BY <2>1, <2>2 DEF IInv, LockInv
  <1> QED BY <1>1, <1>2 DEF Quiet

LEMMA JoinInvariance == Spec => [](IInv /\ JoinInv)
  BY InitIInv, Inductive, JoinInit, JoinStep, PTL DEF Spec

(* list_destroy() frees the nodes, and destroys their mutexes, only when   *)
(* all threads have ended and no mutex is locked: no thread is cancelled   *)
(* with a node in its hands.                                               *)
THEOREM DestroyedQuiet == Spec => [](main_pc[1] = "destroy" => Quiet)
  BY JoinInvariance, QuietAtDestroy, PTL

-----------------------------------------------------------------------------
(* The spinlocks of print_stat().                                          *)

(* print_stat() sleeps without a spinlock, prints with all of them, and    *)
(* has ended in one of the two.                                            *)
PrintInv ==
    /\ pc["print"] \in {"new", "sleep"} => spin = {}
    /\ pc["print"] = "printf" => spin = Range(SpinOrder)
    /\ pc["print"] = "dead" => spin = {} \/ spin = Range(SpinOrder)

LEMMA PrintInit == Init => PrintInv
  BY DEF Init, PrintInv, Threads

LEMMA PrintInvStep == IInv /\ PrintInv /\ [Next]_vars => PrintInv'
  <1> SUFFICES ASSUME IInv, PrintInv, [Next]_vars PROVE PrintInv'
    OBVIOUS
  <1>1. TypeOK /\ StartInv /\ DOMAIN pc = Threads /\ "print" \in Threads /\ "print" \notin Walkers
    BY ListAssumption DEF IInv, TypeOK, Threads
  <1>2. SpinOrder \in Seq(Walkers \cup {"swap"}) /\ DOMAIN SpinOrder = 1..Len(SpinOrder) /\ Len(SpinOrder) \in Nat
    BY ListAssumption DEF SpinOrder
  <1>3. CASE print_sleep
    BY <1>1, <1>3 DEF print_sleep, Goto, PrintInv
  <1>4. CASE print_lock
    <2>1. PICK i \in 1..Len(SpinOrder) :
            /\ spin = {SpinOrder[j] : j \in 1..(i - 1)}
            /\ spin' = spin \cup {SpinOrder[i]}
            /\ pc'["print"] = IF i = Len(SpinOrder) THEN "printf" ELSE "lock"
      BY <1>1, <1>2, <1>4 DEF print_lock, Goto
    <2>2. CASE i = Len(SpinOrder)
      <3>1. Range(SpinOrder) = {SpinOrder[j] : j \in 1..i}
        BY <1>2, <2>2 DEF Range
      <3>2. 1..i = (1..(i - 1)) \cup {i}
        BY <1>2
      <3>3. spin' = Range(SpinOrder)
        BY <2>1, <3>1, <3>2
      <3> QED BY <2>1, <2>2, <3>3 DEF PrintInv
    <2>3. CASE i # Len(SpinOrder)
      BY <2>1, <2>3 DEF PrintInv
    <2> QED BY <2>2, <2>3
  <1>5. CASE print_printf
    BY <1>1, <1>5 DEF print_printf, Goto, PrintInv
  <1>6. CASE print_unlock
    <2>1. PICK i \in 1..Len(SpinOrder) :
            /\ spin = {SpinOrder[j] : j \in i..Len(SpinOrder)}
            /\ spin' = spin \ {SpinOrder[i]}
            /\ pc'["print"] = IF i = Len(SpinOrder) THEN "sleep" ELSE "unlock"
      BY <1>1, <1>2, <1>6 DEF print_unlock, Goto
    <2>2. CASE i = Len(SpinOrder)
      <3>1. spin = {SpinOrder[i]}
        BY <1>2, <2>1, <2>2
      <3> QED BY <2>1, <2>2, <3>1 DEF PrintInv
    <2>3. CASE i # Len(SpinOrder)
      BY <2>1, <2>3 DEF PrintInv
    <2> QED BY <2>2, <2>3
  <1>7. ASSUME NEW t \in Walkers, WalkerStep(t)
        PROVE  PrintInv'
    <2>1. pc'["print"] = pc["print"]
      BY <1>1, <1>7, WalkerFrame
    <2>2. spin' = spin
      BY <1>7 DEF WalkerStep, count_thread, swap_thread, walk, read_first, testcancel, lock_current,
         lock_next, unlock_next, compare, count_pass, swap_skipped, list_swap_first,
         list_swap_second, count_swap
    <2> QED BY <2>1, <2>2 DEF PrintInv
  <1>8. CASE main_create
    <2>1. main_pc[2] \in 1..Len(Order) /\ Order \in Seq(Threads)
      BY <1>1, ListAssumption DEF TypeOK
    <2>2. pc[Order[main_pc[2]]] = "new"
      BY <1>1, <1>8, <2>1 DEF StartInv, main_create
    <2>3. spin' = spin /\ (pc'["print"] = pc["print"] \/ (pc["print"] = "new" /\ pc'["print"] = "sleep"))
      BY <1>1, <1>8, <2>2 DEF main_create, Goto
    <2> QED BY <2>3 DEF PrintInv
  <1>9. CASE UNCHANGED <<pc, spin>>
    BY <1>9 DEF PrintInv
  <1> QED BY <1>3, <1>4, <1>5, <1>6, <1>7, <1>8, <1>9
          DEF Next, main, main_cancel, main_join, main_destroy, print_stat, vars

LEMMA FullInvariance == Spec => [](IInv /\ JoinInv /\ PrintInv)
  BY JoinInvariance, PrintInit, PrintInvStep, PTL DEF Spec

(* print_stat() was cancelled in printf(), and swapping thread t, with two *)
(* nodes locked, spins for a spinlock that nobody will unlock.             *)
SpinsForOrphan(t) == pc["print"] = "dead" /\ spin = Range(SpinOrder) /\ pc[t] = "attempt"

LEMMA OrphanStep ==
    ASSUME NEW t \in Walkers, IInv, [Next]_vars, SpinsForOrphan(t)
    PROVE  SpinsForOrphan(t)'
  <1>1. TypeOK /\ StartInv /\ DOMAIN pc = Threads /\ "print" \in Threads /\ "print" \notin Walkers
        /\ t \in Threads /\ t # "print"
    BY ListAssumption DEF IInv, TypeOK, Threads
  <1>2. pc'["print"] = "dead"
    BY <1>1, DeadIsFinal DEF SpinsForOrphan
  <1>3. "swap" \in spin
    <2>1. /\ Len(Counters) + 1 \in DOMAIN SpinOrder
          /\ SpinOrder[Len(Counters) + 1] = "swap"
      BY ListAssumption DEF SpinOrder
    <2>2. "swap" \in Range(SpinOrder)
      BY <2>1 DEF Range
    <2> QED BY <2>2 DEF SpinsForOrphan
  <1>4. ASSUME NEW u \in Walkers, WalkerStep(u)
        PROVE  pc'[t] = pc[t] /\ spin' = spin
    <2>1. spin' = spin
      BY <1>4 DEF WalkerStep, count_thread, swap_thread, walk, read_first, testcancel, lock_current,
         lock_next, unlock_next, compare, count_pass, swap_skipped, list_swap_first,
         list_swap_second, count_swap
    <2>2. u # t
      BY <1>3, <1>4 DEF SpinsForOrphan, WalkerStep, count_thread, swap_thread, walk, read_first,
         testcancel, lock_current, lock_next, unlock_next, compare, count_pass, swap_skipped,
         list_swap_first, list_swap_second, count_swap
    <2> QED BY <1>1, <1>4, <2>1, <2>2, WalkerFrame
  <1>5. ~print_stat
    BY DEF SpinsForOrphan, print_stat, print_sleep, print_lock, print_printf, print_unlock
  <1>6. CASE main
    <2>1. spin' = spin
      BY <1>6 DEF main, main_create, main_cancel, main_join, main_destroy
    <2>2. CASE main_create
      <3>1. main_pc[2] \in 1..Len(Order)
        BY <1>1 DEF TypeOK
      <3>2. pc[Order[main_pc[2]]] = "new"
        BY <1>1, <2>2, <3>1 DEF StartInv, main_create
      <3>3. pc'[t] = pc[t]
        BY <1>1, <2>2, <3>2 DEF main_create, Goto, SpinsForOrphan
      <3> QED BY <1>2, <2>1, <3>3 DEF SpinsForOrphan
    <2>3. CASE main_cancel \/ main_join \/ main_destroy
      BY <2>1, <2>3 DEF main_cancel, main_join, main_destroy, SpinsForOrphan
    <2> QED BY <1>6, <2>2, <2>3 DEF main
  <1>7. CASE UNCHANGED vars
    BY <1>7 DEF vars, SpinsForOrphan
  <1> QED BY <1>2, <1>4, <1>5, <1>6, <1>7 DEF Next, SpinsForOrphan

(* When print_stat() dies in printf() it leaves every spinlock locked.  A  *)
(* thread that comes to swap_attempts++ after that stays there with its    *)
(* two nodes, and main(), which joins it, never gets to list_destroy().    *)
THEOREM OrphanedForGood ==
    ASSUME NEW t \in Walkers
    PROVE  Spec => [](pc["print"] = "dead" /\ spin # {} /\ pc[t] = "attempt" =>
                        [](pc[t] = "attempt" /\ process # "exited"))
  <1> DEFINE A == pc["print"] = "dead" /\ spin # {} /\ pc[t] = "attempt"
             S == SpinsForOrphan(t)
             B == pc[t] = "attempt" /\ process # "exited"
  <1>1. PrintInv /\ A => S
    BY DEF PrintInv, SpinsForOrphan
  <1>2. IInv /\ S /\ [Next]_vars => S'
    BY OrphanStep
  <1>3. IInv /\ JoinInv /\ S => B
    <2> SUFFICES ASSUME IInv, JoinInv, S, process = "exited" PROVE FALSE
      BY DEF SpinsForOrphan
    <2>1. Quiet
      BY QuietAtDestroy DEF JoinInv
    <2> QED BY <2>1 DEF Quiet, Threads, SpinsForOrphan
  <1> HIDE DEF A, S, B
  <1>4. Spec => [](A => []B)
    BY FullInvariance, <1>1, <1>2, <1>3, PTL DEF Spec
  <1> QED BY <1>4 DEF A, B
=============================================================================
