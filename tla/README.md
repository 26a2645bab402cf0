# A verification project for NSUFIT_OS

The repository is a collection of programs from a two-semester course on
operating systems, in C for Linux. The interesting ones are concurrent: bounded
queues between two threads, a list with one lock per node, home-made locks,
threads built on `clone()` and on `ucontext`, and a caching HTTP proxy. This
directory holds TLA+ models of them, TLC configurations that check the models
on small instances, and TLAPS proofs that hold for every instance.

    tlc -workers 2 -config CondQueue.cfg CondQueue      # one run
    tlapm CondQueueProofs.tla                           # one proof module

`PROJECT.json` lists the runs, the source lines each definition models, the
hazards of the code and the theorems.

## 1. Inventory

| Part | State | Operations | What is hard | What makes it correct |
|---|---|---|---|---|
| Queue program (`sem2/sync/lab2.2/*/queue-threads.c`, `queue.c`) | linked list, `count`, statistics counters; locals of two threads | `queue_init`, `queue_add`, `queue_get`, `queue_print_stats`, `queue_destroy`; `reader`, `writer`, `qmonitor`, `main` | three threads and `main`; cancellation at arbitrary points; destruction | values arrive once, in order; nothing is used after it is freed; the program ends |
| … with condition variables (`cond`) | mutex, two wait queues | the same, blocking | lost and spurious wakeups, cancellation inside `pthread_cond_wait` | no lost wakeup; a FIFO of at most `max_count` values |
| … with mutex, spinlock, semaphore | one lock | the same, returning 0 when full or empty | polling, early returns that must unlock, `sem_wait` as cancellation point | a cancelled thread leaves the lock free; a bounded FIFO |
| … without any lock (`lab2.1`) | as above, no lock | as above | data races on `first`, `last`, `count` and on the nodes | what survives of the queue: no value twice, assertions hold, damage only at the end of the list |
| Hand-made locks (`sync/castom`) | `atomic_flag`, `tid`, a counter | `spin_lock`, `spin_unlock`, `mutex_lock`, `mutex_unlock` | the futex protocol, an owner field outside of atomics | mutual exclusion, exact count, termination |
| List with node locks (`sync/list`) | list, node locks, four counters with spinlocks | three counting threads, three swapping threads, statistics thread | lock order, traversal while others swap, cancellation in `printf` under four locks | no deadlock, no record lost or seen half copied, shutdown |
| Proxy cache (`sem2/proxy/cache.c`) | list of entries, `cacheSize`, one mutex; per entry data, mutex, condition | `getCacheEntry`, `addNewEntry`, `removeOldest`, `deleteEntry`, `cacheInsertData`, `cacheMarkComplete` | lookup and insertion are separate critical sections; eviction inside a held lock; freeing an entry others wait on | the list is sound, clients of an entry get the same data, every client answered, no use after free |
| Proxy server (`sem2/proxy/proxy.c`) | one thread per client, one per download | `handleRequest`, `downloadData`, `parseURL` | every failure path of a download; responses cut into chunks | the client receives exactly the body |
| Logger (`sem2/proxy/logger.c`) | stream, mutex | `logMessage` | – | – |
| `clone()` threads (`threads/part2`) | descriptor at the top of the thread's stack | `mythread_create`, `mythread_join` | futex handshake, unmapping a stack in use | join returns after the end, the stack outlives its thread |
| User-level threads (`threads/part3`) | table of contexts | create, schedule | table limit | round robin |
| Thread exercises (`threads/part1-*`) | – | – | – | – |
| Echo programs (`1sem/lab7`) | sockets | send, receive | lost datagrams, streams without message ends, a thread per connection, `SIGPIPE` | every answer is the client's own echo; who waits is answered |
| Shared-memory sequence (`1sem/lab6`) | a page | write, read | reader and writer unsynchronised | – |
| File reversal (`1sem/lab3/part1.c`) | two files | chunked copy | chunk boundaries | the copy is the reversal |
| File tool, other demonstrations | – | one system call each | – | – |

The parts interact in one place only: the proxy's server, cache and logger call
each other. Every queue variant is a program of its own that shares its text
with the others; that is why their common part is one module here.

## 2. Modules

| Module | Models |
|---|---|
| `QueueThreads` | what the synchronised queue programs share: `main`, `queue_init`, `queue_destroy`, the monitor, the loops of `reader` and `writer`, and the two list operations |
| `BoundedQueue` | abstract: a FIFO of bounded capacity between one writer and one reader |
| `CondQueue` | `queue_add` and `queue_get` with mutex and condition variables; extends `QueueThreads`, implements `BoundedQueue` |
| `LockedQueue` | `queue_add` and `queue_get` under a mutex, spinlock or semaphore; extends `QueueThreads`, implements `BoundedQueue` |
| `CustomSync` | spinlock and futex mutex of `mysync.c` in the program of `main.c` |
| `ProxyCache` | the proxy: client threads (`handleRequest`), download threads (`downloadData`) and the cache they share |
| `MCProxyCache` | `ProxyCache` with its clients as a symmetry set, for the run without liveness |
| `RacyQueue` | the queue program of `lab2.1`, without any lock, at the grain of loads and stores |
| `ListThreads` | the list with a mutex per node: counting, swapping and statistics threads and `main` |
| `MCListThreads` | `ListThreads` with one counting and two swapping threads |
| `Echo` | the UDP and TCP echo servers with their clients |
| `QueueThreadsProofs`, `CondQueueProofs`, `LockedQueueProofs`, `RacyQueueProofs`, `CustomSyncProofs`, `ListThreadsProofs`, `ProxyCacheProofs`, `EchoProofs` | the proofs |

Operators whose comment begins with "Fault of" are seeded faults; no
specification uses them. Each is a plausible slip in the definition that
follows it, and is there to show that a property would notice.

### Correspondence with the code

*Queues.* `pc[t]` is the statement a thread is at. One action runs from one
visible effect to the next: a lock, unlock, wait, signal, or list update is
a step of its own; what a thread does to its own variables in between belongs
to the step. The list is the sequence of its values; `first` is `NULL` exactly
when it is empty, and taking a node from an empty list ends the process with
`segv`. A failed `malloc` or `pthread_create` ends it as the code does
(`aborted`, or `exited` from `main`). The attempt counters are only printed and
are left out.

*Cancellation* is deferred, as the programs leave it. A thread acts on a request at
`pthread_testcancel()`, in `sleep`, in `sem_wait` and in `pthread_cond_wait`;
`printf` *may* be a cancellation point, so the model lets a cancelled thread die
there or go on. `pthread_mutex_lock` and `pthread_spin_lock` are none. No cleanup
handler is installed: a thread dies with the locks it holds, and one that is
cancelled in `pthread_cond_wait` takes the mutex first.

*Hand-made locks.* The futex word consists of the flag and three bytes of
padding, which are zero in a static variable; it is therefore 0 or 1.
`shared_counter++` is a load and a store. `FUTEX_WAIT` compares and goes to sleep
in one step, as the kernel guarantees; no signal handler is installed, so it never
returns `EINTR`.

Which lock a program is built with (`lockCancels`, `useMutex`) is a variable
that the initial state chooses and no step changes, so one run covers all builds.

*Queue without a lock.* A statement that reads or writes shared memory more than
once is as many steps: `q->first = q->last = new` is two stores, `q->last->next = new`
and `q->last = q->last->next` each follow `last` to a node that may be gone,
`count++` is a load and a store. The node that carries value *k* is called *k*. An
access to a freed node ends in `process = "undefined"`. A call that finds the queue
full or empty changes nothing and is no step. The monitor prints without a lock and
changes nothing; only its life is modelled. The accesses are taken in program order,
which is what x86 gives for the stores of one thread.

*List.* The nodes never move, `list_swap` exchanges their records; a node is
therefore its place. Both locks, both halves of `list_swap` (two copies, then the
third), the spinlock around the statistics, and both unlocks are steps. The four
spinlocks of `print_stat` are taken and released one by one. `pthread_testcancel` is a
walker's only cancellation point, `sleep` and perhaps `printf` are those of
`print_stat`. A `pthread_create` that fails leaves a thread identifier that was never
set, and cancelling it makes the process undefined. What is counted is only printed.

*Echo.* A message is a number of pieces. A datagram arrives whole, once, or not
at all; a stream arrives in order, and each `recv` returns any non-empty part of what is
there, since neither program looks for the end of a message. The one thread of
the UDP server has one buffer; the TCP server has a thread and a buffer per
connection. `q` at the server's terminal sets `isFinished` and ends the process a step
later, which is when a thread may see the flag. A client that leaves with an answer unread or
still to come resets its connection, and the server's next `write` may raise
`SIGPIPE`. Messages are assumed to
fit the buffers with room for the zero byte that `strlen` in the TCP server looks for (a `recv` that fills
all 512 bytes leaves none), and only the server answers.

*Proxy.* Each client makes one request and so allocates at most one entry, which
bears the client's name, as does its download. The functions of `cache.c` that hold
`cacheMutex` are single steps, with one exception: `removeOldest` locks the mutex
that its caller `addNewEntry` holds, and blocks there for good; the rest of it is
never executed. Lookup, insertion, `pthread_create`, `pthread_detach`, the wait and
the sending are separate steps, as other threads run between them. The wait on an
entry is modelled like the queues' waits, with spurious wakeups. The client's thread
keeps the entry's mutex while it sends. `Faults` says which calls may fail:
`malloc` (a `NULL` entry is then used), `pthread_create` (its result is ignored and
an uninitialised thread id is detached), resolving or connecting (the download
returns and leaves the entry incomplete), and writing to a closed connection
(`SIGPIPE` ends the process). `deleteEntry` frees the entry of a URL that
`parseURL` refuses while its client may already use it or wait on its condition variable.
`gethostbyname` returns memory that its next call overwrites, so a download may find the address of
another one's host, or none, when it connects: its data is then another host's, which the model does not
tell apart, or the process is undefined. It may be undefined as well when the URL has a port and no path
(`PortUrls`), for which `parseURL` returns success and leaves the path array as it was. These cases
end in `process = "undefined"`, after which nothing is claimed. Other places where the code relies
on what C leaves undefined are not modelled: the request and the header are searched in buffers that need not end in a
zero byte (`sscanf` in `handleRequest`, `strstr` in `downloadData`), and no property says that the proxy
is free of undefined behaviour. Data is counted in
chunks; how a chunk is made from the response is left to `ProxyDownload`.
`cacheCleanUp` and `closeLogger` are never called.

## 3. Runs

| Run | Bounds | Shows |
|---|---|---|
| `cond_queue` | capacity 2, 5 values | `TypeOK`; assertions and `NULL` (`NoCrash`); `NoOrderError`; `NoUseAfterFree`; `MonitorOrphanHarmless`; `NoLostWakeup`; `RefinesBoundedQueue`; `Delivered`: while `main` sleeps, what is added is received; `StopsUnlessOrphaned`: the shutdown gets through unless the reader or the writer was cancelled in its wait and died with the mutex |
| `cond_queue_hang` | capacity 1, 1 value | violated: `Stops`. The reader waits, is cancelled, takes the mutex and dies with it; the writer or the monitor blocks on the mutex and `main` in a join |
| `locked_queue` | capacity 2, 5 values; both kinds of lock call | `NoCrash`, `NoOrderError`, `NoUseAfterFree`, `RefinesBoundedQueue` as above; `CancelLeavesLockFree`; `Delivered` although both sides poll; and here `Stops` holds |
| `custom_sync` | 3 threads, 2 iterations; both locks | `MutualExclusion`, `OwnerUnlocks`, `NoStaleLoad`, `ResultExact`; `FinishesUnlessAsleep`: with the spinlock the program ends, with the mutex threads stop early only asleep on a *free* lock |
| `custom_sync_hang` | 2 threads, 1 iteration | violated: `Finishes`. `FUTEX_WAIT` is called with the expected value 0, so it sleeps exactly when the lock is free; the owner's wake may already be over |
| `proxy_safety` | 3 clients (symmetric), 3 URLs, one of them bad and one without a path, 2 entries, 2 chunks, all faults | `ListSound`; `NoUseAfterFree` for good URLs; `AnswersAgree`; `NoLostCompletion` |
| `proxy_live` | 2 clients, 2 URLs, one of them bad and one without a path, 2 entries, 1 chunk, all faults | `AnsweredUnlessAbandoned`: which requests are never answered |
| `proxy_full_hang` | 2 clients, 2 URLs, 1 entry, no faults | violated: `MissIsLoaded`. The first miss on a full cache blocks its thread with `cacheMutex`, and all later lookups |
| `proxy_stall` | 1 client, 1 URL, 1 chunk, no faults | violated: `SentAsItComes`. A client is sent nothing until the remote server closes the connection |
| `list_threads` | 3 nodes; 1 counting and 2 swapping threads, and `print_stat` | `ValuesPermuted`: no record is lost or doubled, swaps under way included; `WholeRecords`: nobody compares or swaps a record that is being copied; `StopsUnlessOrphaned`: the shutdown gets through unless `print_stat` dies in `printf` with its spinlocks |
| `racy_queue` | capacity 3, 5 values | `AssertsHold`: `count` loses updates but stays within 0..`max_count`; `NeverTwice`: values may be lost, but none is repeated or overtaken; `HarmlessUnlessEmptied`: nodes are lost or used after `free` only in a step that leaves `first` with one node or none |
| `echo` | 2 clients, 2 messages of 2 pieces each; UDP and TCP | `OwnEcho`: a client gets its own pieces in order, and with UDP each answer whole; `AnsweredUnlessLost`: who waits is answered or hears of the end of the connection, except for a lost datagram |

*Why the bounds are enough.* Capacity 2 gives an empty, a half-full and a full
queue; with five values the writer fills the queue, blocks, is woken and blocks
again, and the list is emptied and refilled. Capacity 1 makes full and
non-empty the same and would hide mistakes that tell them apart. Three threads are needed for one
to hold the custom mutex while a second is asleep and a third takes it in
between; two iterations let a thread come back for the lock it has just
released. `MaxWrites` bounds the writer's endless loop; a writer at its bound
stays at the head of the loop, where it can still be cancelled.

Three clients give a client that creates an entry, one that hits it, and one that
misses at the same time or finds the cache full; a URL that cannot be
parsed gives an entry that is deleted beside one that stays, and one without a path a download whose request is garbage. Two chunks
tell a partial answer from a whole one.

Three nodes give a walker in the middle of the list a neighbour on either side; with two
swapping threads one follows the other with a node between them, and with the counting thread
there are three that ask for the middle node. Capacity 3 lets the list without a lock hold two
nodes or more, which the property needs to tell from fewer, and five values go
round it more than once. Two messages of two pieces let a rest of the first echo be taken
for the second; two clients share the one UDP thread.

*Deadlock* is not checked by TLC's own test, since all these programs end;
the liveness properties say more.

*Fairness.* Every thread that can run is run: weak fairness for the steps of
each thread. Taking a lock has strong fairness in the queue models: none of the
locks is handed over in order, but the monitor sleeps a second between two
uses, the threads leave the lock in every round, and a scheduler that always
picked the wrong moment is not assumed. POSIX mutexes, spinlocks and semaphores do not promise this: that a
thread starves because the other one takes the lock back every time is assumed away, not shown, and
`Delivered` and `Stops` of `locked_queue` rest on it. Spurious wakeups are possible and
never needed: they have no fairness. `CustomSync` needs weak fairness only, as its
loops are finite. `ListThreads` needs no more than weak fairness either: `main` cancels
all threads without waiting, and a cancelled walker takes no lock after the pair it is at, so the
nodes become free for good one after the other. In `Echo` the threads of the server and the receiving calls of the clients are
weakly fair; what is typed, and when, is not, and loss may hit every datagram. `RacyQueue`
is checked for safety only. `main` is fair except in waking up from its sleep: behaviours in
which it sleeps for ever are included, and in these the threads must deliver
without being stopped (`Delivered`); once it has begun to stop them it goes on (`Stops`). In the proxy the threads
are weakly fair and a thread that asks for an entry's mutex gets it in the end: it
is held only for a copy or while a client that reads is sent its answer. That the
remote server closes the connection is assumed in `FairSpec` and not in
`StallSpec`. Clients need not send a request, and the server need not send data.

## 4. Proofs

All theorems hold for every value of the constants. The assumptions are
`QueueAssumption` and `RacyAssumption` (capacity positive), `SyncAssumption` (at least one
iteration), `ListAssumption` (two nodes or more, threads that are told apart, the counting
and the swapping ones among those that walk along the list), `ProxyAssumption` (types of the
constants, and clients that are told apart from the names used for nobody and for a download) and `EchoAssumption` (a message has at least one piece).

Every invariant that a run checks is proved, as are the refinements and the action property.
Beyond these, three kinds of theorem say what no run states:

- *for good*: each of the hangs below is shown by a run as a violated or restricted liveness
  property on a small instance. The theorem says that the state it ends in is never
  left, whatever the other threads do and for any number of them;
- *quiet*: what is freed or destroyed is not in use any more;
- *memory in use*: which statements touch allocated nodes or entries only, and which may not.

*Queues.* `NoOrderError` is not inductive: it speaks of the reader's `val` at one
label. The invariant `ThreadsInv` ties all counters together: the lock's holder
and the program counters (`MutexOwned`); `count`, the length of the list
and the difference of the counters, with the list holding consecutive values
from `get_count` on (`Contents`); the writer's `i` and the reader's `val` and
`expected` against the counters, by label (`Counted`); and the order in which `main`
starts, cancels and joins (`StartOrder`, `StopOrder`). `QueueThreadsProofs`
shows that the shared steps keep it. `CondQueueProofs` adds that a thread in a wait
queue is inside its wait and `NoLostWakeup`, which is then inductive: the
adding step and the signal are both made under the mutex, so a node in the list with
the reader waiting means that the writer is between the two.
`LockedQueueProofs` adds that a reader or writer that holds the lock is between
its lock and unlock, whence `CancelLeavesLockFree`. The refinement of `BoundedQueue` maps
adding a node to `Put`, taking one to `Get`, and every other step to a stutter; the value
received last is `val` until the reader has checked it and `expected - 1` afterwards.

`HungForGood` is the end of the run `cond_queue_hang`: a reader or writer that was
cancelled in `pthread_cond_wait` has died with the mutex while the other one is in its queue
operation without it. The other one can neither go on nor be cancelled, since
`pthread_mutex_lock` is no cancellation point, so `main` never gets through its joins.

*Hand-made locks.* `LockInv` adds to mutual exclusion that the flag is set while
a thread is in its critical section, and that `tid` names that thread. For
`ResultExact` the increments already made are counted as a finite set of pairs
(thread, iteration) whose cardinality is the counter: a store adds one
pair, and at the end the set is the whole product.

When all threads left are asleep in `FUTEX_WAIT`, the lock they want is free
(`SleepersFindFlagClear`, for which `FlagHeld` adds to `LockInv` that a set flag has a holder), and
nobody will ever wake them (`AsleepForGood`): both halves of what the
runs `custom_sync` and `custom_sync_hang` show, for any number of threads.

*Proxy.* The four safety properties are proved together, for any clients, URLs and
capacity and any set of faults. `IInv` adds what the statement of a client's thread says about its entry
(`ClientState`: before `add` the client has allocated nothing and nobody has its entry;
in `send` the entry is complete), that a complete entry's download is past `recv` (`Completed`: hence no chunk is
appended to an entry that has been sent), and that a client's entry is one
for its URL (`EntryMatches`: hence `deleteEntry` of a bad URL takes nothing from clients
of a good one). The list is handled by lemmas on `RemoveAt`, on pushing an element and on
`Lookup`, whose least index exists because `<` is well-founded on the naturals.

Four more results use the same invariant. `AnswersAreFinal` is an action property: a complete
entry keeps its data and its flag, and what a client was sent never changes, so clients of one entry agree
at whatever times they are served. `StuckForGood`: once `removeOldest` has locked
`cacheMutex` a second time, a client without an entry never gets one, nor a download; this
is the end of the run `proxy_full_hang`. `AbandonedForGood`: a client that waits for an entry whose
download gave up or never started waits for ever. Its state `WaitsInVain` includes that nobody loads
the entry again, as an entry is loaded only by the client that has added it. `EntriesInUseHolds`: a download and a client that
sends only ever use an allocated entry, even one that `deleteEntry` might free, and a client of a good URL does from
`pthread_create` on. It needs that an entry is freed by its own download only, as the last thing that
does and before it is complete (`EntryLife`), and who holds an entry's mutex while it is sent or completed (`Holder`).

*Queue without a lock.* The steps of the two threads interleave everywhere, so the
invariant says, for each statement of each thread, what the other one may have done
meanwhile. `CountInv`: from its test to its store the writer has `count < max_count`, as nobody
else raises `count`, and likewise the reader has `count > 0`; so the value that either
has loaded is one it may still change by one, even when its store undoes the
other thread's. `WriterInv` and `ReaderInv` place `last`,
`tmp` and `rnext`; `ChainInv` says that `next` fields lead from a node to its successor in
value and that freed nodes are smaller than `first`, from which `NeverTwice` and the
action property `HarmlessUnlessEmptied` follow.

From the same invariant, the reader touches no freed node and frees none twice
(`ReaderNodeLiveHolds`; the model relies on this, as it does not test the
reader's accesses). With the order of the joins (`StopInv`) `queue_destroy` finds all threads dead and
every node it reaches allocated (`DestroySafeHolds`). So freed memory is used in
two statements of the whole program, both on `q->last->next` in `queue_add` (`UndefinedOnlyInAdd`).

*List.* `LockInv` says that the holder of a node's mutex is exactly the walker whose statement
says so (`Holds`); `WholeRecords` follows at once. `ValuesPermuted` speaks of the record that *belongs* to a
place: while a swap is between its copies this is what `tmp` holds for the second
node. With `LockInv` the first half of a swap exchanges the records of two places in this
sense, the second half and every other step leave all of them alone, and so
the property is inductive. `StartInv` (a thread not yet created is at its start) is needed
because creating a thread sets its statement.

`NoCircularWaitHolds`: a walker asks only for nodes behind all those it holds, so along a chain of
waiting walkers the nodes wanted strictly ascend, and the chain cannot close. `DestroyedQuiet` adds
the progress of `main` through its joins (`JoinInv`): when `list_destroy` runs, all threads have
ended and all node mutexes are free. `OrphanedForGood` adds which spinlocks
`print_stat` has at which statement (`PrintInv`): when it is cancelled in `printf` they all stay locked, and a
swapping thread that wants one keeps its two nodes and `main` in a join for ever.

*Echo.* A client numbers the pieces it sends, and `Seg(c, a, b)` is the sequence of pieces
*a* + 1 to *b* of client *c*. `OwnEcho` says that what a client got is a prefix of all it sent. To be inductive it
needs the other places where pieces can be: the invariant `IInv` has for each
client five cut points *g* ≤ *t* ≤ *h* ≤ *r* ≤ *s*, such that what it got,
what is on the way back, what the server's thread holds and what is on the way out are the segments between them. Over
a standing TCP connection the segments follow each other without a gap (`NothingLostHolds`);
over UDP they are whole messages or empty, and at most one place has one (`OneUnderWayHolds`).
Every call of `send`, `recv` or `write` moves cut points, and what is lost lies between *h* and *r* or beyond *s*. The lemmas
on segments (concatenating two, cutting one in two, a message as a
segment) carry the proof; they are about functions on intervals, so no induction over
sequences is needed.

Only model-checked: the liveness properties (`Delivered`, `Stops`, `StopsUnlessOrphaned`,
`FinishesUnlessAsleep`, `AnsweredUnlessAbandoned`, `AnsweredUnlessLost`), as fairness and `ENABLED`
are outside the prover's reach, and that the violated properties are violated: that
a hang can be reached is TLC's result, that nothing leads out of it is a theorem.

## 5. Not modelled

Planned, in this order:

1. `ProxyDownload`: how `downloadData` finds header and body in what `recv` returns,
   against the definition of the body. `ProxyCache` covers the life of a download with all its
   failures, but counts what it inserts and does not look into it.
2. `Mythread`: the futex handshake between `thread_function` and `mythread_join`, and the life of the
   stack that the thread runs on and that holds its descriptor.
3. `Uthread`: contexts, their table and the round-robin scheduler, all in one kernel thread.

Left out, with the reason:

| Part | Why |
|---|---|
| Logger (`sem2/proxy/logger.c`) | formats lines under one mutex that is never held across another lock; nothing depends on it |
| Shared-memory sequence (`1sem/lab6`) | reader and writer are not synchronised and nothing is promised about what is read |
| File reversal (`1sem/lab3/part1.c`) | sequential library calls; what a chunked copy computes is an induction over data |
| File tool (`1sem/lab3/part2.c`) | one system call per command, chosen by the program's name |
| Thread exercises (`threads/part1-*`) | a few calls each, to show create, join, detach, cancel and signals |
| Demonstrations (`1sem/lab1`, `lab2`, `lab4`, `lab5`, `lab8`) | one system service and its printed effect |
| In all programs | `set_cpu`, the wording of what is printed, the statistics counters, and errors of calls that cannot fail as they are used (unlocking, initialising a lock) |
