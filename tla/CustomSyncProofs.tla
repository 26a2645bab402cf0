-------------------------- MODULE CustomSyncProofs --------------------------
(***************************************************************************)
(* Proofs about CustomSync, for every number of threads and of iterations  *)
(* and for both locks.                                                     *)
(***************************************************************************)
EXTENDS CustomSync, FiniteSetTheorems, TLAPS

(* The flag is set while a thread is in the critical section. *)
FlagSet == \A t \in Holders : lock

(* m->tid names the thread that may call mutex_unlock(). *)
OwnerNamed ==
    useMutex => \A t \in Threads : pc[t] \in {"load", "store", "unlock"} => tid = t

(* A thread leaves its loop after the last iteration and not before. *)
LoopBound == \A t \in Threads : i[t] = Iters <=> pc[t] = "done"

(* The mutual exclusion of the lock in inductive form. *)
LockInv ==
    /\ TypeOK
    /\ LoopBound
    /\ MutualExclusion
    /\ FlagSet
    /\ OwnerNamed
    /\ OwnerUnlocks
    /\ NoStaleLoad

(* How many times thread t has written shared_counter. *)
Stores(t) == IF pc[t] \in {"unlock", "clear", "wake"} THEN i[t] + 1 ELSE i[t]

(* The k-th increment of thread t, for all k and t, as far as done. *)
Stored == {p \in Threads \X (1..Iters) : p[2] <= Stores(p[1])}

(* The counter counts the increments done. *)
CountInv ==
    /\ shared_counter = Cardinality(Stored)
    /\ process = "finished" => \A t \in Threads : pc[t] = "done"

-----------------------------------------------------------------------------
(* The lock's invariant holds at the start. *)
LEMMA LockInvInit == Init => LockInv
  <1> SUFFICES ASSUME Init PROVE LockInv
    OBVIOUS
  <1> USE SyncAssumption DEF Init
  <1>1. TypeOK
    <2>1. i \in [Threads -> 0..Iters]
      OBVIOUS
    <2>2. QED
      BY <2>1 DEF TypeOK, Labels
  <1>2. LoopBound
    BY DEF LoopBound
  <1>3. MutualExclusion /\ FlagSet
    BY DEF MutualExclusion, FlagSet, Holders
  <1>4. OwnerNamed /\ OwnerUnlocks /\ NoStaleLoad
    BY DEF OwnerNamed, OwnerUnlocks, NoStaleLoad
  <1>5. QED
    BY <1>1, <1>2, <1>3, <1>4 DEF LockInv

(* Every step of every thread and of main() keeps the lock's invariant.    *)
LEMMA LockInvNext == LockInv /\ [Next]_vars => LockInv'
  <1> SUFFICES ASSUME LockInv, [Next]_vars
               PROVE  LockInv'
    OBVIOUS
  <1> useMutex' = useMutex
    BY DEF Next, vars
  <1> USE SyncAssumption
      DEF LockInv, TypeOK, LoopBound, MutualExclusion, FlagSet, OwnerNamed,
          OwnerUnlocks, NoStaleLoad, Holders, Nobody, Labels, Goto
  <1>1. ASSUME NEW t \in Threads, spin_lock(t)
        PROVE  LockInv'
    BY <1>1 DEF spin_lock, test_and_set
  <1>2. ASSUME NEW t \in Threads, mutex_lock(t)
        PROVE  LockInv'
    BY <1>2 DEF mutex_lock, test_and_set
  <1>3. ASSUME NEW t \in Threads, futex_wait(t)
        PROVE  LockInv'
    BY <1>3 DEF futex_wait
  <1>4. ASSUME NEW t \in Threads, mutex_own(t)
        PROVE  LockInv'
    BY <1>4 DEF mutex_own
  <1>5. ASSUME NEW t \in Threads, load_counter(t)
        PROVE  LockInv'
    BY <1>5 DEF load_counter
  <1>6. ASSUME NEW t \in Threads, store_counter(t)
        PROVE  LockInv'
    BY <1>6 DEF store_counter
  <1>7. ASSUME NEW t \in Threads, spin_unlock(t)
        PROVE  LockInv'
    <2>1. Again(t) \in Labels /\ i' \in [Threads -> 0..Iters] /\ LoopBound'
      BY <1>7 DEF spin_unlock, Again
    <2>2. Holders' = {}
      BY <1>7 DEF spin_unlock, Again
    <2>3. QED
      BY <1>7, <2>1, <2>2 DEF spin_unlock, Again
  <1>8. ASSUME NEW t \in Threads, mutex_disown(t)
        PROVE  LockInv'
    BY <1>8 DEF mutex_disown
  <1>9. ASSUME NEW t \in Threads, mutex_clear(t)
        PROVE  LockInv'
    <2>1. Holders' = {}
      BY <1>9 DEF mutex_clear
    <2>2. TypeOK' /\ LoopBound'
      BY <1>9 DEF mutex_clear
    <2>3. QED
      BY <1>9, <2>1, <2>2 DEF mutex_clear
  <1>10. ASSUME NEW t \in Threads, futex_wake(t)
         PROVE  LockInv'
    <2>1. Again(t) \in Labels /\ i' \in [Threads -> 0..Iters] /\ LoopBound'
      BY <1>10 DEF futex_wake, Again
    <2>2. QED
      BY <1>10, <2>1 DEF futex_wake, Again
  <1>11. CASE main
    BY <1>11 DEF main, main_print, pthread_create
  <1>12. CASE UNCHANGED vars
    BY <1>12 DEF vars
  <1>13. QED
    BY <1>1, <1>2, <1>3, <1>4, <1>5, <1>6, <1>7, <1>8, <1>9, <1>10, <1>11, <1>12
       DEF Next, thread_func

(* Every variable keeps its type: no thread enters its loop once too often. *)
THEOREM TypeCorrect == Spec => []TypeOK
  <1>1. LockInv => TypeOK
    BY DEF LockInv
  <1>2. QED
    BY LockInvInit, LockInvNext, <1>1, PTL DEF Spec

(* For all threads, all iterations and both locks: one thread at a time is *)
(* in the critical section of mutex_lock()/mutex_unlock() and of           *)
(* spin_lock()/spin_unlock().                                              *)
THEOREM MutualExclusionHolds == Spec => []MutualExclusion
  <1>1. LockInv => MutualExclusion
    BY DEF LockInv
  <1>2. QED
    BY LockInvInit, LockInvNext, <1>1, PTL DEF Spec

(* mutex_unlock() never finds another thread's id, or none, in m->tid.     *)
THEOREM OwnerUnlocksHolds == Spec => []OwnerUnlocks
  <1>1. LockInv => OwnerUnlocks
    BY DEF LockInv
  <1>2. QED
    BY LockInvInit, LockInvNext, <1>1, PTL DEF Spec

(* No thread writes shared_counter from a value that has been overtaken.   *)
THEOREM NoStaleLoadHolds == Spec => []NoStaleLoad
  <1>1. LockInv => NoStaleLoad
    BY DEF LockInv
  <1>2. QED
    BY LockInvInit, LockInvNext, <1>1, PTL DEF Spec

-----------------------------------------------------------------------------
(* There are finitely many increments.                                     *)
LEMMA StoredFinite == IsFiniteSet(Stored)
  <1>1. IsFiniteSet(1..N) /\ IsFiniteSet(1..Iters)
    BY FS_Interval, SyncAssumption
  <1>2. IsFiniteSet(Threads \X (1..Iters))
    BY <1>1, FS_Product DEF Threads
  <1>3. Stored \in SUBSET (Threads \X (1..Iters))
    BY DEF Stored
  <1>4. QED
    BY <1>2, <1>3, FS_Subset

(* Only the write of shared_counter++ adds an increment to Stored.         *)
LEMMA StoresKept ==
  ASSUME LockInv, Next, \A t \in Threads : ~store_counter(t)
  PROVE  \A t \in Threads : Stores(t)' = Stores(t)
  <1> USE SyncAssumption DEF LockInv, TypeOK, LoopBound, Stores, Labels, Goto
  <1>1. ASSUME NEW t \in Threads, spin_lock(t) \/ mutex_lock(t)
        PROVE  \A u \in Threads : Stores(u)' = Stores(u)
    BY <1>1 DEF spin_lock, mutex_lock, test_and_set
  <1>2. ASSUME NEW t \in Threads, futex_wait(t) \/ mutex_own(t) \/ load_counter(t)
        PROVE  \A u \in Threads : Stores(u)' = Stores(u)
    BY <1>2 DEF futex_wait, mutex_own, load_counter
  <1>3. ASSUME NEW t \in Threads, spin_unlock(t)
        PROVE  \A u \in Threads : Stores(u)' = Stores(u)
    BY <1>3 DEF spin_unlock, Again
  <1>4. ASSUME NEW t \in Threads, mutex_disown(t) \/ mutex_clear(t)
        PROVE  \A u \in Threads : Stores(u)' = Stores(u)
    BY <1>4 DEF mutex_disown, mutex_clear
  <1>5. ASSUME NEW t \in Threads, futex_wake(t)
        PROVE  \A u \in Threads : Stores(u)' = Stores(u)
    BY <1>5 DEF futex_wake, Again
  <1>6. CASE main
    BY <1>6 DEF main, main_print, pthread_create
  <1>7. QED
    BY <1>1, <1>2, <1>3, <1>4, <1>5, <1>6 DEF Next, thread_func

(* Every step keeps the count of the increments.                           *)
LEMMA CountInvNext == LockInv /\ CountInv /\ [Next]_vars => CountInv'
  <1> SUFFICES ASSUME LockInv, CountInv, [Next]_vars
               PROVE  CountInv'
    OBVIOUS
  <1>1. ASSUME NEW t \in Threads, process = "running", store_counter(t)
        PROVE  CountInv'
    <2> DEFINE k == i[t] + 1
    <2> USE DEF LockInv, TypeOK
    <2>1. i[t] \in 0..Iters /\ i[t] # Iters
      BY <1>1 DEF LoopBound, store_counter
    <2>2. k \in 1..Iters
      BY <2>1, SyncAssumption
    <2>3. Stores(t) = i[t] /\ Stores(t)' = k
      BY <1>1 DEF Stores, store_counter, Goto
    <2>4. \A u \in Threads \ {t} : Stores(u)' = Stores(u)
      BY <1>1 DEF Stores, store_counter, Goto
    <2>5. <<t, k>> \notin Stored
      BY <2>1, <2>3 DEF Stored
    <2>6. Stored' = Stored \cup {<<t, k>>}
      BY <2>1, <2>2, <2>3, <2>4 DEF Stored
    <2>7. Cardinality(Stored') = Cardinality(Stored) + 1
      BY <2>5, <2>6, StoredFinite, FS_AddElement
    <2>8. shared_counter' = shared_counter + 1 /\ process' = process
      BY <1>1 DEF store_counter, NoStaleLoad
    <2>9. QED
      BY <1>1, <2>7, <2>8 DEF CountInv
  <1>2. ASSUME Next, \A t \in Threads : ~store_counter(t)
        PROVE  CountInv'
    <2>1. Stored' = Stored
      BY <1>2, StoresKept DEF Stored
    <2>2. shared_counter' = shared_counter
      BY <1>2 DEF Next, main, main_print, pthread_create, thread_func, spin_lock,
         spin_unlock, mutex_lock, test_and_set, futex_wait, mutex_own, load_counter,
         mutex_disown, mutex_clear, futex_wake
    <2>3. process' = "finished" => \A t \in Threads : pc'[t] = "done"
      BY <1>2 DEF Next, main, main_print, pthread_create, thread_func, spin_lock,
         spin_unlock, mutex_lock, test_and_set, futex_wait, mutex_own, load_counter,
         mutex_disown, mutex_clear, futex_wake
    <2>4. QED
      BY <2>1, <2>2, <2>3 DEF CountInv
  <1>3. CASE UNCHANGED vars
    <2>1. Stored' = Stored
      BY <1>3 DEF Stored, Stores, vars
    <2>2. QED
      BY <1>3, <2>1 DEF CountInv, vars
  <1>4. QED
    BY <1>1, <1>2, <1>3 DEF Next

(* The result that main() prints is exact, for any number of threads.      *)
THEOREM ResultExactHolds == Spec => []ResultExact
  <1>1. Init => CountInv
    <2> SUFFICES ASSUME Init PROVE CountInv
      OBVIOUS
    <2>1. \A t \in Threads : Stores(t) = 0
      BY DEF Init, Stores
    <2>2. Stored = {}
      BY <2>1 DEF Stored
    <2>3. QED
      BY <2>2, FS_EmptySet DEF Init, CountInv
  <1>2. LockInv /\ CountInv => ResultExact
    <2> SUFFICES ASSUME LockInv, CountInv, process = "finished"
                 PROVE  shared_counter = N * Iters
      BY DEF ResultExact
    <2>1. \A t \in Threads : Stores(t) = Iters
      BY DEF CountInv, LockInv, LoopBound, Stores
    <2>2. Stored = Threads \X (1..Iters)
      BY <2>1, SyncAssumption DEF Stored
    <2>3. Cardinality(Threads) = N /\ IsFiniteSet(Threads)
      BY FS_Interval, SyncAssumption DEF Threads
    <2>4. Cardinality(1..Iters) = Iters /\ IsFiniteSet(1..Iters)
      BY FS_Interval, SyncAssumption
    <2>5. QED
      BY <2>2, <2>3, <2>4, FS_Product DEF CountInv
  <1>3. QED
    BY LockInvInit, LockInvNext, CountInvNext, <1>1, <1>2, PTL DEF Spec
-----------------------------------------------------------------------------
(* The flag is set by a thread that is in the critical section. *)
FlagHeld == lock => Holders # {}

(* No thread is left but some that sleep in FUTEX_WAIT. *)
AllAsleep ==
    /\ process = "running"
    /\ \A t \in Threads : pc[t] \in {"done", "asleep"}
    /\ \E t \in Threads : pc[t] = "asleep"

(* Every step leaves the flag clear or a thread in the critical section.   *)
LEMMA FlagHeldNext == LockInv /\ FlagHeld /\ [Next]_vars => FlagHeld'
  <1> SUFFICES ASSUME LockInv, FlagHeld, [Next]_vars, lock'
               PROVE  \E u \in Threads : u \in Holders'
    BY DEF FlagHeld, Holders
  <1> USE DEF FlagHeld, Holders, LockInv, TypeOK, Goto
  <1>1. ASSUME NEW t \in Threads, spin_lock(t) \/ mutex_lock(t)
        PROVE  \E u \in Threads : u \in Holders'
    <2>1. CASE lock
      <3>1. PICK u \in Threads : u \in Holders
        BY <2>1
      <3>2. u \in Holders'
        BY <1>1, <2>1, <3>1 DEF spin_lock, mutex_lock, test_and_set
      <3>3. QED
        BY <3>2
    <2>2. CASE ~lock
      <3>1. t \in Holders'
        BY <1>1, <2>2 DEF spin_lock, mutex_lock, test_and_set
      <3>2. QED
        BY <3>1
    <2>3. QED
      BY <2>1, <2>2
  <1>2. ASSUME NEW t \in Threads, spin_unlock(t) \/ mutex_clear(t)
        PROVE  FALSE
    BY <1>2 DEF spin_unlock, mutex_clear
  <1>3. ASSUME NEW t \in Threads,
               \/ futex_wait(t) \/ mutex_own(t) \/ load_counter(t)
               \/ store_counter(t) \/ mutex_disown(t) \/ futex_wake(t)
        PROVE  \E u \in Threads : u \in Holders'
    <2>1. lock
      BY <1>3 DEF futex_wait, mutex_own, load_counter, store_counter, mutex_disown,
         futex_wake
    <2>2. PICK u \in Threads : u \in Holders
      BY <2>1
    <2>3. u \in Holders'
      <3>1. CASE futex_wait(t) \/ mutex_own(t) \/ load_counter(t)
        BY <2>2, <3>1 DEF futex_wait, mutex_own, load_counter
      <3>2. CASE store_counter(t) \/ mutex_disown(t)
        BY <2>2, <3>2 DEF store_counter, mutex_disown
      <3>3. CASE futex_wake(t)
        BY <2>2, <3>3 DEF futex_wake
      <3>4. QED
        BY <1>3, <3>1, <3>2, <3>3
    <2>4. QED
      BY <2>3
  <1>4. ASSUME main \/ UNCHANGED vars
        PROVE  \E u \in Threads : u \in Holders'
    <2>1. PICK u \in Threads : u \in Holders
      BY <1>4 DEF main, main_print, pthread_create, vars
    <2>2. u \in Holders'
      BY <1>4, <2>1 DEF main, main_print, pthread_create, vars
    <2>3. QED
      BY <2>2
  <1>5. QED
    BY <1>1, <1>2, <1>3, <1>4 DEF Next, thread_func

(* When all the threads that have not returned sleep in FUTEX_WAIT of      *)
(* mutex_lock(), the flag they wait for is clear: none is ever left        *)
(* waiting for a lock that another one holds.                              *)
THEOREM SleepersFindFlagClear == Spec => [](AllAsleep => ~lock)
  <1>1. Init => FlagHeld
    BY DEF Init, FlagHeld
  <1>2. FlagHeld => (AllAsleep => ~lock)
    BY DEF FlagHeld, AllAsleep, Holders
  <1>3. QED
    BY LockInvInit, LockInvNext, FlagHeldNext, <1>1, <1>2, PTL DEF Spec

(* FUTEX_WAIT expects 0, the value of a clear flag, so a thread may fall   *)
(* asleep after the last FUTEX_WAKE.  Nobody is left to call it then, and  *)
(* main() is in pthread_join() for ever: the process never ends.           *)
THEOREM AsleepForGood == Spec => [](AllAsleep => [](process = "running"))
  <1>1. AllAsleep /\ [Next]_vars => AllAsleep'
    <2> SUFFICES ASSUME AllAsleep, [Next]_vars
                 PROVE  AllAsleep'
      OBVIOUS
    <2>1. ASSUME NEW t \in Threads, thread_func(t)
          PROVE  FALSE
      BY <2>1 DEF AllAsleep, thread_func, spin_lock, spin_unlock, mutex_lock,
         test_and_set, futex_wait, mutex_own, load_counter, store_counter,
         mutex_disown, mutex_clear, futex_wake
    <2>2. ~main
      BY DEF AllAsleep, main, main_print, pthread_create
    <2>3. CASE UNCHANGED vars
      BY <2>3 DEF AllAsleep, vars
    <2>4. QED
      BY <2>1, <2>2, <2>3 DEF Next
  <1>2. AllAsleep => process = "running"
    BY DEF AllAsleep
  <1>3. QED
    BY <1>1, <1>2, PTL DEF Spec
=============================================================================
