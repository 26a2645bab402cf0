----------------------------- MODULE ProxyCache -----------------------------
(***************************************************************************)
(* The caching proxy of sem2/proxy: a thread per client connection, which  *)
(* runs handleRequest(), a thread per cache miss, which runs               *)
(* downloadData(), and the list of cache entries that they share.          *)
(*                                                                         *)
(* Each client makes one request, so it allocates at most one entry: the   *)
(* entry that client c allocates is called c, and so is its download.  The *)
(* sections that hold cacheMutex are single steps, except where a thread   *)
(* blocks inside of one.  How a response is cut into chunks is not modelled *)
(* here: data counts the chunks that cacheInsertData() has appended; a     *)
(* chunk that it drops because realloc() fails is a chunk never received.  *)
(* Nor are the buffers that requests and headers are searched in, which    *)
(* need not end in a zero byte.                                            *)
(***************************************************************************)
EXTENDS Integers, FiniteSets, SequencesExt, FiniteSetsExt

CONSTANTS
    Clients,    \* the client connections
    Urls,       \* the URLs they may ask for
    BadUrls,    \* the URLs that parseURL() refuses
    PortUrls,   \* those with a port and no path: parseURL() accepts them
                \* and leaves the path unset
    MaxSize,    \* CACHE_MAX_SIZE
    MaxChunks,  \* bound: chunks of a response
    Faults      \* what may fail: "malloc", "create", "connect", or a peer
                \* that has closed the connection it is written to ("pipe")

NoOne == "no one"
Loader == "download"

ASSUME ProxyAssumption ==
    /\ MaxSize \in Nat /\ MaxChunks \in Nat
    /\ BadUrls \subseteq Urls /\ PortUrls \subseteq Urls \ BadUrls
    /\ NoOne \notin Clients /\ Loader \notin Clients
    /\ Faults \subseteq {"malloc", "create", "connect", "pipe"}

VARIABLES
    pc,          \* the statement of handleRequest() each client's thread is at
    url,         \* the URL each client has asked for
    entry,       \* the entry that each client's thread works with
    sent,        \* how many chunks each client has been sent
    cache,       \* the list of entries
    cacheSize,
    cacheMutex,  \* the client whose thread blocks with cacheMutex, or NoOne
    memory,      \* whether each entry is allocated
    isComplete,  \* entry->isComplete
    data,        \* the chunks of each entry
    mutex,       \* entry->mutex: the client or the download that holds it
    download,    \* the statement of downloadData() each download is at
    process      \* "running", "killed" by a signal, or its state is undefined

clientVars == <<pc, url, entry, sent>>
listVars == <<cache, cacheSize, cacheMutex>>
entryVars == <<memory, isComplete, data, mutex>>
vars == <<clientVars, listVars, entryVars, download, process>>

Init ==
    /\ pc = [c \in Clients |-> "accept"]
    /\ url = [c \in Clients |-> NoOne]
    /\ entry = [c \in Clients |-> NoOne]
    /\ sent = [c \in Clients |-> 0]
    /\ cache = <<>> /\ cacheSize = 0 /\ cacheMutex = NoOne
    /\ memory = [e \in Clients |-> "none"]
    /\ isComplete = [e \in Clients |-> FALSE]
    /\ data = [e \in Clients |-> 0]
    /\ mutex = [e \in Clients |-> NoOne]
    /\ download = [e \in Clients |-> "none"]
    /\ process = "running"

Goto(c, label) == pc' = [pc EXCEPT ![c] = label]
Load(e, label) == download' = [download EXCEPT ![e] = label]

-----------------------------------------------------------------------------
(* The loop of startProxy(): a thread is started for the connection, which *)
(* is closed if that fails.                                                *)
accept(c) ==
    /\ pc[c] = "accept"
    /\ \/ Goto(c, "recv")
       \/ Faults \cap {"malloc", "create"} # {} /\ Goto(c, "closed")
    /\ UNCHANGED <<url, entry, sent, listVars, entryVars, download, process>>

(* The client asks for a URL; the connection is closed if what it sends is *)
(* not a GET request.                                                      *)
recvRequest(c) ==
    /\ pc[c] = "recv"
    /\ \/ /\ \E u \in Urls : url' = [url EXCEPT ![c] = u]
          /\ Goto(c, "lookup")
       \/ Goto(c, "closed") /\ UNCHANGED url
    /\ UNCHANGED <<entry, sent, listVars, entryVars, download, process>>

(* The first entry of the list for URL u, NoOne if there is none. *)
Lookup(u) ==
    LET hits == {i \in DOMAIN cache : url[cache[i]] = u}
    IN  IF hits = {} THEN NoOne ELSE cache[Min(hits)]

getCacheEntry(c) ==
    /\ pc[c] = "lookup"
    /\ cacheMutex = NoOne
    /\ entry' = [entry EXCEPT ![c] = Lookup(url[c])]
    /\ Goto(c, IF Lookup(url[c]) = NoOne THEN "add" ELSE "lock")
    /\ UNCHANGED <<url, sent, listVars, entryVars, download, process>>

(* Fault of removeOldest: cacheMutex is recursive, and the oldest entry is *)
(* freed whoever uses it (lastAccessTime leaves open which one that is).   *)
evictOldest(c) ==
    /\ \E i \in DOMAIN cache :
          /\ cache' = <<c>> \o RemoveAt(cache, i)
          /\ memory' = [memory EXCEPT ![cache[i]] = "freed", ![c] = "allocated"]
    /\ entry' = [entry EXCEPT ![c] = c]
    /\ Goto(c, "create")
    /\ UNCHANGED <<url, sent, cacheSize, cacheMutex, isComplete, data, mutex, download, process>>

(* removeOldest() locks cacheMutex, which addNewEntry() already holds: the *)
(* thread blocks for good and the rest of the function is never reached.   *)
removeOldest(c) ==
    /\ cacheMutex' = c
    /\ Goto(c, "removeOldest")
    /\ UNCHANGED <<url, entry, sent, cache, cacheSize, entryVars, download, process>>

(* Links a new entry, which makes the list `by` longer. *)
insertEntry(c, by) ==
    /\ entry' = [entry EXCEPT ![c] = c]
    /\ cache' = <<c>> \o cache
    /\ cacheSize' = cacheSize + by
    /\ memory' = [memory EXCEPT ![c] = "allocated"]
    /\ Goto(c, "create")
    /\ UNCHANGED <<url, sent, cacheMutex, isComplete, data, mutex, download, process>>

(* Fault of addNewEntry: the new entry is not counted. *)
addsWithoutCounting(c) ==
    /\ pc[c] = "add"
    /\ cacheMutex = NoOne
    /\ \/ cacheSize >= MaxSize /\ removeOldest(c)
       \/ cacheSize < MaxSize /\ insertEntry(c, 0)

(* addNewEntry() makes room if the cache is full and puts a new entry at   *)
(* the head of the list.  When it cannot allocate one it returns NULL,     *)
(* which handleRequest() uses as an entry.                                 *)
addNewEntry(c) ==
    /\ pc[c] = "add"
    /\ cacheMutex = NoOne
    /\ \/ cacheSize >= MaxSize /\ removeOldest(c)
       \/ cacheSize < MaxSize /\ insertEntry(c, 1)
       \/ /\ cacheSize < MaxSize
          /\ "malloc" \in Faults
          /\ process' = "undefined"
          /\ UNCHANGED <<clientVars, listVars, entryVars, download>>

(* The result of pthread_create() is not looked at. *)
createDownload(c) ==
    /\ pc[c] = "create"
    /\ \/ Load(c, "start")
       \/ "create" \in Faults /\ UNCHANGED download
    /\ Goto(c, "detach")
    /\ UNCHANGED <<url, entry, sent, listVars, entryVars, process>>

(* pthread_detach(entry->dowloadThread) reads the entry, which may be gone *)
(* by now, and a thread id, which is garbage if there is no thread.        *)
detachDownload(c) ==
    /\ pc[c] = "detach"
    /\ \/ memory[c] = "allocated" /\ Goto(c, "lock") /\ UNCHANGED process
       \/ /\ memory[c] = "freed" \/ download[c] = "none"
          /\ process' = "undefined"
          /\ UNCHANGED pc
    /\ UNCHANGED <<url, entry, sent, listVars, entryVars, download>>

-----------------------------------------------------------------------------
(* The rest of handleRequest(): lock the entry, wait until it is complete, *)
(* send its data with the entry still locked.                              *)
awaitEntry(c) ==
    LET e == entry[c]
    IN  /\ pc[c] = "lock"
        /\ \/ /\ memory[e] = "freed"
              /\ process' = "undefined"
              /\ UNCHANGED <<pc, mutex>>
           \/ /\ memory[e] = "allocated" /\ mutex[e] = NoOne
              /\ ~isComplete[e]
              /\ Goto(c, "wait")
              /\ UNCHANGED <<mutex, process>>
           \/ /\ memory[e] = "allocated" /\ mutex[e] = NoOne
              /\ isComplete[e]
              /\ mutex' = [mutex EXCEPT ![e] = c]
              /\ Goto(c, "send")
              /\ UNCHANGED process
        /\ UNCHANGED <<url, entry, sent, listVars, memory, isComplete, data, download>>

(* Fault of spuriousWakeup: isComplete is tested by `if`, not by `while`. *)
sendsOnWakeup(c) ==
    /\ pc[c] = "wait"
    /\ mutex[entry[c]] = NoOne
    /\ mutex' = [mutex EXCEPT ![entry[c]] = c]
    /\ Goto(c, "send")
    /\ UNCHANGED <<url, entry, sent, listVars, memory, isComplete, data, download, process>>

(* pthread_cond_wait() may return without a broadcast; isComplete is       *)
(* tested again once the mutex is locked.                                  *)
spuriousWakeup(c) ==
    /\ pc[c] = "wait"
    /\ Goto(c, "lock")
    /\ UNCHANGED <<url, entry, sent, listVars, entryVars, download, process>>

(* send() returns, the entry is unlocked and the connection closed.  The   *)
(* program leaves SIGPIPE as it is: writing to a client that has gone      *)
(* kills the process.                                                      *)
sendData(c) ==
    /\ pc[c] = "send"
    /\ \/ /\ sent' = [sent EXCEPT ![c] = data[entry[c]]]
          /\ mutex' = [mutex EXCEPT ![entry[c]] = NoOne]
          /\ Goto(c, "closed")
          /\ UNCHANGED process
       \/ /\ "pipe" \in Faults /\ data[entry[c]] > 0
          /\ process' = "killed"
          /\ UNCHANGED <<pc, sent, mutex>>
    /\ UNCHANGED <<url, entry, listVars, memory, isComplete, data, download>>

(* What the thread of a client does once it has read the request. *)
handleRequest(c) ==
    \/ getCacheEntry(c) \/ addNewEntry(c) \/ createDownload(c) \/ detachDownload(c)
    \/ awaitEntry(c) \/ sendData(c)

-----------------------------------------------------------------------------
(* downloadData() *)

parseURL(u) == u \notin BadUrls

(* Fault of deleteEntry: the entry is freed but stays in the list. *)
deletesWithoutUnlinking(e) ==
    /\ download[e] = "start"
    /\ ~parseURL(url[e])
    /\ cacheMutex = NoOne
    /\ cacheSize' = cacheSize - 1
    /\ memory' = [memory EXCEPT ![e] = "freed"]
    /\ Load(e, "exit")
    /\ UNCHANGED <<clientVars, cache, cacheMutex, isComplete, data, mutex, process>>

(* deleteEntry() unlinks and frees the entry of a URL that cannot be       *)
(* parsed.  It destroys the entry's condition variable, too, on which      *)
(* somebody may be waiting.                                                *)
deleteEntry(e) ==
    /\ download[e] = "start"
    /\ ~parseURL(url[e])
    /\ cacheMutex = NoOne
    /\ \E i \in DOMAIN cache : cache[i] = e /\ cache' = RemoveAt(cache, i)
    /\ cacheSize' = cacheSize - 1
    /\ memory' = [memory EXCEPT ![e] = "freed"]
    /\ process' = IF \E c \in Clients : pc[c] = "wait" /\ entry[c] = e
                  THEN "undefined" ELSE process
    /\ Load(e, "exit")
    /\ UNCHANGED <<clientVars, cacheMutex, isComplete, data, mutex>>

(* gethostbyname() returns a pointer to memory of its own, which the next  *)
(* call overwrites, whoever makes it and whether it succeeds or not.       *)
gethostbyname(e) ==
    /\ download[e] = "start"
    /\ parseURL(url[e])
    /\ \E result \in {"resolved"} \cup (IF "connect" \in Faults THEN {"exit"} ELSE {}) :
          download' = [d \in Clients |->
              IF d = e THEN result
              ELSE IF download[d] = "resolved" THEN "overwritten" ELSE download[d]]
    /\ UNCHANGED <<clientVars, listVars, entryVars, process>>

(* The host is connected and the request is written to it, or the thread   *)
(* just ends.  When the address has been overwritten the host may be that  *)
(* of another download, or the address none at all; when the URL has no    *)
(* path, the request has what the path array happens to hold.              *)
connectServer(e) ==
    /\ download[e] \in {"resolved", "overwritten"}
    /\ \/ Load(e, "recv") /\ UNCHANGED process
       \/ "connect" \in Faults /\ Load(e, "exit") /\ UNCHANGED process
       \/ "pipe" \in Faults /\ process' = "killed" /\ UNCHANGED download
       \/ /\ download[e] = "overwritten" \/ url[e] \in PortUrls
          /\ process' = "undefined"
          /\ UNCHANGED download
    /\ UNCHANGED <<clientVars, listVars, entryVars>>

(* recv() returns a chunk, which goes into the entry. *)
cacheInsertData(e) ==
    /\ download[e] = "recv"
    /\ data[e] < MaxChunks
    /\ mutex[e] = NoOne
    /\ data' = [data EXCEPT ![e] = @ + 1]
    /\ UNCHANGED <<clientVars, listVars, memory, isComplete, mutex, download, process>>

(* Fault of cacheMarkComplete: nobody is woken. *)
marksWithoutBroadcast(e) ==
    /\ download[e] = "recv"
    /\ mutex[e] = NoOne
    /\ isComplete' = [isComplete EXCEPT ![e] = TRUE]
    /\ Load(e, "exit")
    /\ UNCHANGED <<clientVars, listVars, memory, data, mutex, process>>

(* recv() returns 0 or an error: the entry is complete, and all threads    *)
(* that wait for it are woken.                                             *)
cacheMarkComplete(e) ==
    /\ download[e] = "recv"
    /\ mutex[e] = NoOne
    /\ mutex' = [mutex EXCEPT ![e] = Loader]
    /\ isComplete' = [isComplete EXCEPT ![e] = TRUE]
    /\ Load(e, "broadcast")
    /\ UNCHANGED <<clientVars, listVars, memory, data, process>>

(* Fault of broadcast: one waiting thread is woken, not all of them. *)
signalsOne(e) ==
    /\ download[e] = "broadcast"
    /\ LET waiting == {c \in Clients : pc[c] = "wait" /\ entry[c] = e}
       IN  IF waiting = {} THEN UNCHANGED pc ELSE \E c \in waiting : Goto(c, "lock")
    /\ mutex' = [mutex EXCEPT ![e] = NoOne]
    /\ Load(e, "exit")
    /\ UNCHANGED <<url, entry, sent, listVars, memory, isComplete, data, process>>

(* The rest of cacheMarkComplete(). *)
broadcast(e) ==
    /\ download[e] = "broadcast"
    /\ pc' = [c \in Clients |-> IF pc[c] = "wait" /\ entry[c] = e THEN "lock" ELSE pc[c]]
    /\ mutex' = [mutex EXCEPT ![e] = NoOne]
    /\ Load(e, "exit")
    /\ UNCHANGED <<url, entry, sent, listVars, memory, isComplete, data, process>>

(* What the remote server does, and what the download thread does by itself. *)
serverStep(e) == cacheInsertData(e) \/ cacheMarkComplete(e)
downloadStep(e) ==
    deleteEntry(e) \/ gethostbyname(e) \/ connectServer(e) \/ broadcast(e)

-----------------------------------------------------------------------------
Next ==
    /\ process = "running"
    /\ \/ \E c \in Clients : accept(c) \/ recvRequest(c) \/ handleRequest(c) \/ spuriousWakeup(c)
       \/ \E e \in Clients : serverStep(e) \/ downloadStep(e)

Spec == Init /\ [][Next]_vars

Running(A) == process = "running" /\ A

(* The threads of the proxy run, a client reads what it is sent, and an    *)
(* entry's mutex is not kept from a thread for ever.  The remote server    *)
(* may stop sending without closing the connection.                        *)
StallSpec ==
    /\ Spec
    /\ \A c \in Clients : WF_vars(Running(handleRequest(c))) /\ SF_vars(Running(awaitEntry(c)))
    /\ \A e \in Clients : WF_vars(Running(downloadStep(e)))

(* The remote server closes the connection in the end. *)
FairSpec ==
    StallSpec /\ \A e \in Clients : SF_vars(Running(cacheMarkComplete(e)))

-----------------------------------------------------------------------------
(* Properties *)

TypeOK ==
    /\ pc \in [Clients -> {"accept", "recv", "lookup", "add", "removeOldest", "create", "detach",
                           "lock", "wait", "send", "closed"}]
    /\ url \in [Clients -> Urls \cup {NoOne}]
    /\ entry \in [Clients -> Clients \cup {NoOne}]
    /\ sent \in [Clients -> 0..MaxChunks]
    /\ cache \in Seq(Clients) /\ cacheSize \in Nat
    /\ cacheMutex \in Clients \cup {NoOne}
    /\ memory \in [Clients -> {"none", "allocated", "freed"}]
    /\ isComplete \in [Clients -> BOOLEAN]
    /\ data \in [Clients -> 0..MaxChunks]
    /\ mutex \in [Clients -> Clients \cup {NoOne, Loader}]
    /\ download \in [Clients -> {"none", "start", "resolved", "overwritten", "recv",
                                 "broadcast", "exit"}]
    /\ process \in {"running", "killed", "undefined"}

(* The list holds the allocated entries, each once, cacheSize of them and  *)
(* no more than fit.                                                       *)
ListSound ==
    /\ cacheSize = Len(cache) /\ cacheSize <= MaxSize
    /\ \A e \in Clients : memory[e] = "allocated" <=> \E i \in DOMAIN cache : cache[i] = e
    /\ \A i, j \in DOMAIN cache : cache[i] = cache[j] => i = j

(* A thread in pthread_cond_wait() on a complete entry is about to be      *)
(* woken: the flag is tested and set under the entry's mutex.              *)
NoLostCompletion ==
    \A c \in Clients :
        pc[c] = "wait" /\ process = "running" /\ isComplete[entry[c]] =>
            download[entry[c]] = "broadcast"

(* All clients that are served from an entry get the same data: all of it, *)
(* and nothing is added once the first of them has been served.            *)
AnswersAgree ==
    \A c \in Clients :
        sent[c] > 0 => isComplete[entry[c]] /\ sent[c] = data[entry[c]]

(* An entry that a thread has got from the cache for a URL that can be     *)
(* parsed is not freed while the thread may use it, nor ever after: even   *)
(* when the cache is full, nothing is evicted under a waiting client.      *)
NoUseAfterFree ==
    \A c \in Clients :
        entry[c] # NoOne /\ parseURL(url[c]) => memory[entry[c]] = "allocated"

(* Entry e will never be complete: its download was not started, or has    *)
(* ended in one of the early returns of downloadData().                    *)
Abandoned(e) ==
    /\ ~isComplete[e]
    /\ \/ download[e] = "exit"
       \/ download[e] = "none" /\ pc[e] \notin {"add", "create"}

(* Every request is answered or its connection closed.  It is left without *)
(* an answer in three cases only: its entry was abandoned by its download, *)
(* a thread is stuck with cacheMutex because the cache was full, or the    *)
(* process is gone.                                                        *)
AnsweredUnlessAbandoned ==
    \A c \in Clients :
        pc[c] = "lookup" ~> \/ pc[c] = "closed"
                            \/ entry[c] # NoOne /\ Abandoned(entry[c])
                            \/ cacheMutex # NoOne
                            \/ process # "running"

(* When the cache has no entry for a request, a thread is created that     *)
(* loads the data into the cache.                                          *)
MissIsLoaded == \A c \in Clients : pc[c] = "add" ~> download[c] # "none"

(* Data is sent to the client as soon as it begins to appear in the cache. *)
SentAsItComes ==
    \A c \in Clients :
        (pc[c] = "wait" /\ data[entry[c]] > 0) ~> sent[c] > 0
=============================================================================
