-------------------------- MODULE ProxyCacheProofs --------------------------
(***************************************************************************)
(* Proofs about ProxyCache, for any number of clients, URLs and chunks,    *)
(* any capacity of the cache, and whatever fails.                          *)
(***************************************************************************)
EXTENDS ProxyCache, SequenceTheorems, WellFoundedInduction, TLAPS

(* What the statement a client's thread is at tells about the client, about *)
(* the entry of its own, and about the entry it works with.                *)
Fresh == {"accept", "recv", "lookup", "add"}

ClientState ==
    \A c \in Clients :
        /\ pc[c] \in {"accept", "recv"} => entry[c] = NoOne
        /\ pc[c] \in Fresh \cup {"removeOldest"} => memory[c] = "none"
        /\ pc[c] \in Fresh \cup {"removeOldest", "create"} => download[c] = "none"
        /\ pc[c] \in {"create", "detach", "lock", "wait", "send"} => entry[c] # NoOne
        /\ pc[c] = "send" => isComplete[entry[c]]
        /\ sent[c] > 0 => pc[c] = "closed" /\ entry[c] # NoOne

(* An entry is complete once its download has got to the broadcast.        *)
Completed ==
    \A e \in Clients : isComplete[e] => download[e] \in {"broadcast", "exit"}

(* The entry that a client works with is one for its URL.                  *)
EntryMatches ==
    \A c \in Clients :
        entry[c] # NoOne => url[entry[c]] = url[c] /\ memory[entry[c]] # "none"

IInv ==
    /\ TypeOK
    /\ ClientState /\ Completed /\ EntryMatches
    /\ NoLostCompletion /\ AnswersAgree /\ NoUseAfterFree /\ ListSound

-----------------------------------------------------------------------------
(* What is left of a list when one element is taken out of it.             *)
LEMMA RemoveAtLemma ==
  ASSUME NEW S, NEW s \in Seq(S), NEW i \in 1..Len(s)
  PROVE  /\ RemoveAt(s, i) \in Seq(S)
         /\ Len(RemoveAt(s, i)) = Len(s) - 1
         /\ \A j \in 1..(Len(s) - 1) : RemoveAt(s, i)[j] = IF j < i THEN s[j] ELSE s[j + 1]
  <1> DEFINE a == SubSeq(s, 1, i - 1)
             b == SubSeq(s, i + 1, Len(s))
  <1>1. /\ a \in Seq(S) /\ Len(a) = i - 1
        /\ \A j \in 1..(i - 1) : a[j] = s[j]
    BY SubSeqProperties
  <1>2. /\ b \in Seq(S) /\ Len(b) = Len(s) - i
        /\ \A j \in 1..(Len(s) - i) : b[j] = s[i + j]
    BY SubSeqProperties
  <1> HIDE DEF a, b
  <1>3. /\ a \o b \in Seq(S) /\ Len(a \o b) = Len(a) + Len(b)
        /\ \A j \in 1..(Len(a) + Len(b)) :
               (a \o b)[j] = IF j <= Len(a) THEN a[j] ELSE b[j - Len(a)]
    BY <1>1, <1>2, ConcatProperties
  <1>4. RemoveAt(s, i) = a \o b
    BY DEF RemoveAt, a, b
  <1>5. ASSUME NEW j \in 1..(Len(s) - 1)
        PROVE  (a \o b)[j] = IF j < i THEN s[j] ELSE s[j + 1]
    <2>1. CASE j < i
      BY <1>1, <1>2, <1>3, <2>1
    <2>2. CASE j >= i
      <3> DEFINE k == j - (i - 1)
      <3>1. k \in 1..(Len(s) - i) /\ i + k = j + 1
        BY <2>2, LenProperties
      <3>2. (a \o b)[j] = b[k]
        BY <1>1, <1>2, <1>3, <2>2
      <3>3. b[k] = s[i + k]
        BY <1>2, <3>1
      <3>4. QED
        BY <2>2, <3>1, <3>2, <3>3
    <2>3. Len(s) \in Nat /\ i \in Int /\ j \in Int
      BY LenProperties
    <2>4. j < i \/ j >= i
      BY <2>3
    <2>5. QED
      BY <2>1, <2>2, <2>4
  <1>6. Len(a) + Len(b) = Len(s) - 1
    BY <1>1, <1>2, LenProperties
  <1>7. QED
    BY <1>3, <1>4, <1>5, <1>6

(* A new element at the head of the list.                                  *)
LEMMA PushLemma ==
  ASSUME NEW S, NEW s \in Seq(S), NEW x \in S
  PROVE  /\ <<x>> \o s \in Seq(S)
         /\ Len(<<x>> \o s) = Len(s) + 1
         /\ \A j \in 1..(Len(s) + 1) : (<<x>> \o s)[j] = IF j = 1 THEN x ELSE s[j - 1]
  BY ConcatProperties

(* A lookup finds an entry of the list for the URL, or nothing.            *)
LEMMA LookupLemma ==
  ASSUME cache \in Seq(Clients), NEW u, Lookup(u) # NoOne
  PROVE  \E i \in DOMAIN cache : Lookup(u) = cache[i] /\ url[cache[i]] = u
  <1> DEFINE hits == {i \in DOMAIN cache : url[cache[i]] = u}
  <1>1. hits # {} /\ Lookup(u) = cache[Min(hits)]
    BY DEF Lookup
  <1>2. hits \subseteq Nat
    BY LenProperties
  <1> HIDE DEF hits
  <1>3. \E x \in hits : \A y \in hits : ~(<<y, x>> \in OpToRel(<, Nat))
    BY <1>1, <1>2, WFMin, NatLessThanWellFounded
  <1>4. \E x \in hits : \A y \in hits : x =< y
    <2>1. \A x, y \in Nat : y < x => <<y, x>> \in OpToRel(<, Nat)
      BY DEF OpToRel
    <2>2. PICK x \in hits : \A y \in hits : ~(<<y, x>> \in OpToRel(<, Nat))
      BY <1>3
    <2>3. \A y \in hits : ~(y < x)
      BY <1>2, <2>1, <2>2
    <2>4. QED
      BY <1>2, <2>3
  <1>5. Min(hits) \in hits
    BY <1>4 DEF Min
  <1>6. QED
    BY <1>1, <1>5 DEF hits
-----------------------------------------------------------------------------
LEMMA IInvInit == Init => IInv
  <1> SUFFICES ASSUME Init PROVE IInv
    OBVIOUS
  <1>1. /\ pc = [c \in Clients |-> "accept"] /\ url = [c \in Clients |-> NoOne]
        /\ entry = [c \in Clients |-> NoOne] /\ sent = [c \in Clients |-> 0]
        /\ download = [e \in Clients |-> "none"] /\ memory = [e \in Clients |-> "none"]
    BY DEF Init
  <1>2. /\ isComplete = [e \in Clients |-> FALSE] /\ data = [e \in Clients |-> 0]
        /\ mutex = [e \in Clients |-> NoOne] /\ cacheMutex = NoOne /\ process = "running"
        /\ cache = <<>> /\ cacheSize = 0
    BY DEF Init
  <1>3. TypeOK
    BY <1>1, <1>2, ProxyAssumption DEF TypeOK
  <1>4. ClientState /\ Completed /\ EntryMatches
    BY <1>1, <1>2 DEF ClientState, Completed, EntryMatches, Fresh
  <1>5. NoLostCompletion /\ AnswersAgree /\ NoUseAfterFree
    BY <1>1, <1>2 DEF NoLostCompletion, AnswersAgree, NoUseAfterFree
  <1>6. ListSound
    BY <1>1, <1>2, ProxyAssumption DEF ListSound
  <1>7. QED
    BY <1>3, <1>4, <1>5, <1>6 DEF IInv

(* The list after a new entry has been linked, and after one has been      *)
(* unlinked.                                                               *)
LEMMA InsertKeepsList ==
  ASSUME IInv, NEW c \in Clients, pc[c] = "add", cacheSize < MaxSize, insertEntry(c, 1)
  PROVE  ListSound' /\ cache' \in Seq(Clients) /\ cacheSize' \in Nat
  <1>1. /\ cache \in Seq(Clients) /\ cacheSize \in Nat /\ cacheSize = Len(cache)
        /\ memory[c] = "none" /\ memory \in [Clients -> {"none", "allocated", "freed"}]
    BY DEF IInv, TypeOK, ClientState, Fresh, ListSound
  <1>2. /\ cache' \in Seq(Clients) /\ Len(cache') = Len(cache) + 1
        /\ \A j \in 1..(Len(cache) + 1) : cache'[j] = IF j = 1 THEN c ELSE cache[j - 1]
    BY <1>1, PushLemma DEF insertEntry
  <1>3. cacheSize' = Len(cache') /\ cacheSize' <= MaxSize /\ cacheSize' \in Nat
    BY <1>1, <1>2, ProxyAssumption DEF insertEntry
  <1>4. /\ DOMAIN cache = 1..Len(cache) /\ Len(cache) \in Nat
        /\ DOMAIN cache' = 1..(Len(cache) + 1)
    BY <1>1, <1>2, LenProperties
  <1>5. \A i \in DOMAIN cache : cache[i] # c /\ cache[i] \in Clients
    BY <1>1 DEF IInv, ListSound
  <1>6. ASSUME NEW i \in DOMAIN cache', NEW j \in DOMAIN cache', cache'[i] = cache'[j]
        PROVE  i = j
    <2>1. \A k \in DOMAIN cache' : k # 1 => k - 1 \in DOMAIN cache /\ cache'[k] = cache[k - 1]
      BY <1>2, <1>4
    <2>2. CASE i # 1 /\ j # 1
      <3>1. i - 1 = j - 1
        BY <1>6, <2>1, <2>2 DEF IInv, ListSound
      <3>2. QED
        BY <3>1, <1>4
    <2>3. CASE i = 1 \/ j = 1
      BY <1>2, <1>4, <1>5, <1>6, <2>1, <2>3
    <2>4. QED
      BY <2>2, <2>3
  <1>7. ASSUME NEW e \in Clients
        PROVE  memory'[e] = "allocated" <=> \E i \in DOMAIN cache' : cache'[i] = e
    <2>1. CASE e = c
      <3>1. memory'[e] = "allocated"
        BY <1>1, <2>1 DEF insertEntry
      <3>2. 1 \in DOMAIN cache' /\ cache'[1] = c
        BY <1>2, <1>4
      <3>3. QED
        BY <2>1, <3>1, <3>2
    <2>2. CASE e # c
      <3>1. memory'[e] = memory[e]
        BY <1>1, <2>2 DEF insertEntry
      <3>2. ASSUME NEW i \in DOMAIN cache, cache[i] = e
            PROVE  i + 1 \in DOMAIN cache' /\ cache'[i + 1] = e
        BY <1>2, <1>4, <3>2
      <3>3. ASSUME NEW i \in DOMAIN cache', cache'[i] = e
            PROVE  i - 1 \in DOMAIN cache /\ cache[i - 1] = e
        BY <1>2, <1>4, <2>2, <3>3
      <3>4. QED
        BY <3>1, <3>2, <3>3 DEF IInv, ListSound
    <2>3. QED
      BY <2>1, <2>2
  <1>8. QED
    BY <1>2, <1>3, <1>6, <1>7 DEF ListSound

LEMMA DeleteKeepsList ==
  ASSUME IInv, NEW e \in Clients, deleteEntry(e)
  PROVE  ListSound' /\ cache' \in Seq(Clients) /\ cacheSize' \in Nat
  <1>1. /\ cache \in Seq(Clients) /\ cacheSize \in Nat /\ cacheSize = Len(cache)
        /\ cacheSize <= MaxSize
        /\ memory \in [Clients -> {"none", "allocated", "freed"}]
    BY DEF IInv, TypeOK, ListSound
  <1>2. PICK k \in DOMAIN cache : cache[k] = e /\ cache' = RemoveAt(cache, k)
    BY DEF deleteEntry
  <1>3. DOMAIN cache = 1..Len(cache) /\ Len(cache) \in Nat
    BY <1>1, LenProperties
  <1>4. /\ cache' \in Seq(Clients) /\ Len(cache') = Len(cache) - 1
        /\ \A j \in 1..(Len(cache) - 1) :
              cache'[j] = IF j < k THEN cache[j] ELSE cache[j + 1]
    BY <1>1, <1>2, <1>3, RemoveAtLemma
  <1>5. DOMAIN cache' = 1..(Len(cache) - 1)
    BY <1>4, LenProperties
  <1>6. cacheSize' = Len(cache') /\ cacheSize' <= MaxSize /\ cacheSize' \in Nat
    BY <1>1, <1>3, <1>4, <1>2, ProxyAssumption DEF deleteEntry
  <1> DEFINE from(j) == IF j < k THEN j ELSE j + 1
  <1>7. \A j \in DOMAIN cache' : from(j) \in DOMAIN cache \ {k} /\ cache'[j] = cache[from(j)]
    BY <1>3, <1>4, <1>5
  <1>8. \A i, j \in DOMAIN cache' : from(i) = from(j) => i = j
    BY <1>3, <1>5
  <1>9. \A i \in DOMAIN cache \ {k} : \E j \in DOMAIN cache' : from(j) = i
    <2> SUFFICES ASSUME NEW i \in DOMAIN cache \ {k}
                 PROVE  \E j \in DOMAIN cache' : from(j) = i
      OBVIOUS
    <2>1. CASE i < k
      BY <1>3, <1>5, <2>1
    <2>2. CASE i > k
      <3>1. i - 1 \in DOMAIN cache' /\ from(i - 1) = i
        BY <1>3, <1>5, <2>2
      <3>2. QED
        BY <3>1
    <2>3. QED
      BY <1>3, <2>1, <2>2
  <1> HIDE DEF from
  <1>10. ASSUME NEW i \in DOMAIN cache', NEW j \in DOMAIN cache', cache'[i] = cache'[j]
         PROVE  i = j
    BY <1>7, <1>8, <1>10 DEF IInv, ListSound
  <1>11. ASSUME NEW f \in Clients
         PROVE  memory'[f] = "allocated" <=> \E i \in DOMAIN cache' : cache'[i] = f
    <2>1. CASE f = e
      <3>1. memory'[f] # "allocated"
        BY <1>1, <2>1 DEF deleteEntry
      <3>2. \A i \in DOMAIN cache \ {k} : cache[i] # e
        BY <1>2 DEF IInv, ListSound
      <3>3. QED
        BY <1>7, <2>1, <3>1, <3>2
    <2>2. CASE f # e
      <3>1. memory'[f] = memory[f]
        BY <1>1, <2>2 DEF deleteEntry
      <3>2. (\E i \in DOMAIN cache : cache[i] = f) <=> \E i \in DOMAIN cache' : cache'[i] = f
        BY <1>2, <1>7, <1>9, <2>2
      <3>3. QED
        BY <3>1, <3>2 DEF IInv, ListSound
    <2>3. QED
      BY <2>1, <2>2
  <1>12. QED
    BY <1>4, <1>6, <1>10, <1>11 DEF ListSound
-----------------------------------------------------------------------------
(* A step of Next is one action of one client or of one download.          *)
LEMMA StepCases ==
  ASSUME Next
  PROVE  \E c \in Clients :
            \/ accept(c) \/ recvRequest(c) \/ getCacheEntry(c) \/ addNewEntry(c)
            \/ createDownload(c) \/ detachDownload(c) \/ awaitEntry(c) \/ spuriousWakeup(c)
            \/ sendData(c) \/ deleteEntry(c) \/ gethostbyname(c) \/ connectServer(c)
            \/ cacheInsertData(c) \/ cacheMarkComplete(c) \/ broadcast(c)
  BY DEF Next, handleRequest, serverStep, downloadStep

(* addNewEntry() blocks, links an entry, or ends in a NULL pointer.        *)
LEMMA AddCases ==
  ASSUME NEW c \in Clients, addNewEntry(c)
  PROVE  \/ removeOldest(c)
         \/ cacheSize < MaxSize /\ insertEntry(c, 1)
         \/ process' = "undefined" /\ UNCHANGED <<clientVars, listVars, entryVars, download>>
  BY DEF addNewEntry

(* Resolving and connecting move downloads whose URL has been parsed, the  *)
(* caller's own and those whose address is overwritten, and nothing else.  *)
LEMMA DownloadMoves ==
  ASSUME TypeOK, NEW e \in Clients, gethostbyname(e) \/ connectServer(e)
  PROVE  /\ \A d \in Clients :
               \/ download'[d] = download[d]
               \/ /\ download[d] \in {"start", "resolved", "overwritten"}
                  /\ download[d] = "start" => parseURL(url[d])
                  /\ download'[d] \in {"resolved", "overwritten", "recv", "exit"}
         /\ UNCHANGED <<clientVars, listVars, entryVars>>
  <1>1. CASE gethostbyname(e)
    BY <1>1 DEF gethostbyname
  <1>2. CASE connectServer(e)
    BY <1>2 DEF connectServer, TypeOK, Load
  <1>3. QED
    BY <1>1, <1>2

(* What a client finds in the cache.                                       *)
LEMMA Found ==
  ASSUME IInv, NEW c \in Clients, Lookup(url[c]) # NoOne
  PROVE  /\ Lookup(url[c]) \in Clients
         /\ url[Lookup(url[c])] = url[c]
         /\ memory[Lookup(url[c])] = "allocated"
  <1>1. cache \in Seq(Clients)
    BY DEF IInv, TypeOK
  <1>2. PICK i \in DOMAIN cache : Lookup(url[c]) = cache[i] /\ url[cache[i]] = url[c]
    BY <1>1, LookupLemma
  <1>3. cache[i] \in Clients
    BY <1>1, <1>2
  <1>4. QED
    BY <1>2, <1>3 DEF IInv, ListSound

LEMMA TypeOKNext == IInv /\ Next => TypeOK'
  <1> SUFFICES ASSUME IInv, Next PROVE TypeOK'
    OBVIOUS
  <1>0. TypeOK
    BY DEF IInv
  <1>1. PICK c \in Clients :
            \/ accept(c) \/ recvRequest(c) \/ getCacheEntry(c) \/ addNewEntry(c)
            \/ createDownload(c) \/ detachDownload(c) \/ awaitEntry(c) \/ spuriousWakeup(c)
            \/ sendData(c) \/ deleteEntry(c) \/ gethostbyname(c) \/ connectServer(c)
            \/ cacheInsertData(c) \/ cacheMarkComplete(c) \/ broadcast(c)
    BY StepCases
  <1> USE <1>0 DEF TypeOK, Goto, Load, clientVars, listVars, entryVars
  <1>2. CASE accept(c)
    BY <1>2 DEF accept
  <1>3. CASE recvRequest(c)
    <2>1. CASE Goto(c, "closed") /\ UNCHANGED url
      BY <1>3, <2>1 DEF recvRequest
    <2>2. CASE \E u \in Urls : url' = [url EXCEPT ![c] = u] /\ Goto(c, "lookup")
      <3>1. url' \in [Clients -> Urls \cup {NoOne}]
        BY <2>2
      <3>2. QED
        BY <1>3, <2>2, <3>1 DEF recvRequest
    <2>3. QED
      BY <1>3, <2>1, <2>2 DEF recvRequest
  <1>4. CASE getCacheEntry(c)
    <2>1. Lookup(url[c]) \in Clients \cup {NoOne}
      BY Found
    <2>2. QED
      BY <1>4, <2>1 DEF getCacheEntry
  <1>5. CASE addNewEntry(c)
    <2>1. CASE removeOldest(c)
      BY <2>1 DEF removeOldest
    <2>2. CASE cacheSize < MaxSize /\ insertEntry(c, 1)
      <3>1. cache' \in Seq(Clients) /\ cacheSize' \in Nat
        BY <1>5, <2>2, InsertKeepsList DEF addNewEntry
      <3>2. QED
        BY <2>2, <3>1 DEF insertEntry
    <2>3. CASE process' = "undefined" /\ UNCHANGED <<clientVars, listVars, entryVars, download>>
      BY <2>3
    <2>4. QED
      BY <1>5, <2>1, <2>2, <2>3, AddCases
  <1>6. CASE createDownload(c)
    BY <1>6 DEF createDownload
  <1>7. CASE detachDownload(c)
    BY <1>7 DEF detachDownload
  <1>8. CASE awaitEntry(c)
    <2>1. mutex' \in [Clients -> Clients \cup {NoOne, Loader}]
      BY <1>8 DEF awaitEntry
    <2>2. /\ pc' = pc \/ pc' = [pc EXCEPT ![c] = "wait"] \/ pc' = [pc EXCEPT ![c] = "send"]
          /\ process' \in {process, "undefined"}
          /\ UNCHANGED <<url, entry, sent, listVars, memory, isComplete, data, download>>
      BY <1>8 DEF awaitEntry
    <2>3. QED
      BY <2>1, <2>2
  <1>9. CASE spuriousWakeup(c)
    BY <1>9 DEF spuriousWakeup
  <1>10. CASE sendData(c)
    <2>1. entry[c] \in Clients
      BY <1>10 DEF IInv, ClientState, sendData
    <2>2. sent' \in [Clients -> 0..MaxChunks] /\ mutex' \in [Clients -> Clients \cup {NoOne, Loader}]
      <3>1. data[entry[c]] \in 0..MaxChunks
        BY <2>1
      <3>2. sent' = sent \/ sent' = [sent EXCEPT ![c] = data[entry[c]]]
        BY <1>10 DEF sendData
      <3>3. mutex' = mutex \/ mutex' = [mutex EXCEPT ![entry[c]] = NoOne]
        BY <1>10 DEF sendData
      <3>4. sent' \in [Clients -> 0..MaxChunks]
        BY <3>1, <3>2
      <3>5. QED
        BY <3>3, <3>4
    <2>3. /\ pc' = pc \/ pc' = [pc EXCEPT ![c] = "closed"]
          /\ process' \in {process, "killed"}
          /\ UNCHANGED <<url, entry, listVars, memory, isComplete, data, download>>
      BY <1>10 DEF sendData
    <2>4. QED
      BY <2>2, <2>3
  <1>11. CASE deleteEntry(c)
    <2>1. cache' \in Seq(Clients) /\ cacheSize' \in Nat
      BY <1>11, DeleteKeepsList
    <2>2. QED
      BY <1>11, <2>1 DEF deleteEntry
  <1>12. CASE gethostbyname(c) \/ connectServer(c)
    BY <1>12 DEF gethostbyname, connectServer
  <1>13. CASE cacheInsertData(c)
    BY <1>13, ProxyAssumption DEF cacheInsertData
  <1>14. CASE cacheMarkComplete(c)
    BY <1>14 DEF cacheMarkComplete
  <1>15. CASE broadcast(c)
    BY <1>15 DEF broadcast
  <1>16. QED
    BY <1>1, <1>2, <1>3, <1>4, <1>5, <1>6, <1>7, <1>8, <1>9, <1>10, <1>11, <1>12, <1>13,
       <1>14, <1>15

(* The list changes in insertEntry() and in deleteEntry() only.            *)
LEMMA ListNext == IInv /\ Next => ListSound'
  <1> SUFFICES ASSUME IInv, Next PROVE ListSound'
    OBVIOUS
  <1>1. PICK c \in Clients :
            \/ accept(c) \/ recvRequest(c) \/ getCacheEntry(c) \/ addNewEntry(c)
            \/ createDownload(c) \/ detachDownload(c) \/ awaitEntry(c) \/ spuriousWakeup(c)
            \/ sendData(c) \/ deleteEntry(c) \/ gethostbyname(c) \/ connectServer(c)
            \/ cacheInsertData(c) \/ cacheMarkComplete(c) \/ broadcast(c)
    BY StepCases
  <1>2. CASE addNewEntry(c) /\ insertEntry(c, 1) /\ cacheSize < MaxSize
    BY <1>2, InsertKeepsList DEF addNewEntry
  <1>3. CASE deleteEntry(c)
    BY <1>3, DeleteKeepsList
  <1>4. CASE UNCHANGED <<cache, cacheSize, memory>>
    BY <1>4 DEF IInv, ListSound
  <1>5. \/ addNewEntry(c) /\ insertEntry(c, 1) /\ cacheSize < MaxSize
        \/ deleteEntry(c)
        \/ UNCHANGED <<cache, cacheSize, memory>>
    BY <1>1, AddCases DEF accept, recvRequest, getCacheEntry, removeOldest, createDownload,
       detachDownload, awaitEntry, spuriousWakeup, sendData, gethostbyname,
       connectServer, cacheInsertData,
       cacheMarkComplete, broadcast, listVars, entryVars
  <1>6. QED
    BY <1>2, <1>3, <1>4, <1>5
(* The steps of a client and of a download keep the facts about them.      *)
LEMMA StateNext == IInv /\ Next => ClientState' /\ Completed' /\ EntryMatches'
  <1> SUFFICES ASSUME IInv, Next PROVE ClientState' /\ Completed' /\ EntryMatches'
    OBVIOUS
  <1>0. TypeOK /\ ClientState /\ Completed /\ EntryMatches /\ NoOne \notin Clients
    BY ProxyAssumption DEF IInv
  <1>1. PICK c \in Clients :
            \/ accept(c) \/ recvRequest(c) \/ getCacheEntry(c) \/ addNewEntry(c)
            \/ createDownload(c) \/ detachDownload(c) \/ awaitEntry(c) \/ spuriousWakeup(c)
            \/ sendData(c) \/ deleteEntry(c) \/ gethostbyname(c) \/ connectServer(c)
            \/ cacheInsertData(c) \/ cacheMarkComplete(c) \/ broadcast(c)
    BY StepCases
  <1> USE <1>0 DEF TypeOK, ClientState, Completed, EntryMatches, Fresh, Goto, Load,
          clientVars, listVars, entryVars
  <1>2. CASE accept(c)
    BY <1>2 DEF accept
  <1>3. CASE recvRequest(c)
    <2>1. /\ pc[c] = "recv" /\ \A d \in Clients : d # c => url'[d] = url[d]
          /\ pc' = [pc EXCEPT ![c] = "lookup"] \/ pc' = [pc EXCEPT ![c] = "closed"]
          /\ UNCHANGED <<entry, sent, listVars, entryVars, download>>
      BY <1>3 DEF recvRequest
    <2>2. ClientState' /\ Completed'
      BY <2>1
    <2>3. entry[c] = NoOne /\ \A d \in Clients : entry[d] # c
      BY <2>1
    <2>4. EntryMatches'
      BY <2>1, <2>3
    <2>5. QED
      BY <2>2, <2>4
  <1>4. CASE getCacheEntry(c)
    BY <1>4, Found DEF getCacheEntry
  <1>5. CASE addNewEntry(c)
    <2>1. CASE removeOldest(c)
      BY <1>5, <2>1 DEF addNewEntry, removeOldest
    <2>2. CASE insertEntry(c, 1)
      BY <1>5, <2>2 DEF addNewEntry, insertEntry
    <2>3. CASE process' = "undefined" /\ UNCHANGED <<clientVars, listVars, entryVars, download>>
      BY <2>3
    <2>4. QED
      BY <1>5, <2>1, <2>2, <2>3, AddCases
  <1>6. CASE createDownload(c)
    <2>1. /\ pc[c] = "create" /\ pc' = [pc EXCEPT ![c] = "detach"]
          /\ download' = download \/ download' = [download EXCEPT ![c] = "start"]
          /\ UNCHANGED <<url, entry, sent, listVars, entryVars>>
      BY <1>6 DEF createDownload
    <2>2. ClientState' /\ EntryMatches'
      BY <2>1
    <2>3. ~isComplete[c]
      BY <2>1
    <2>4. Completed'
      BY <2>1, <2>3
    <2>5. QED
      BY <2>2, <2>4
  <1>7. CASE detachDownload(c)
    BY <1>7 DEF detachDownload
  <1>8. CASE awaitEntry(c)
    BY <1>8 DEF awaitEntry
  <1>9. CASE spuriousWakeup(c)
    BY <1>9 DEF spuriousWakeup
  <1>10. CASE sendData(c)
    <2>1. /\ pc[c] = "send"
          /\ \A d \in Clients : d # c => sent'[d] = sent[d] /\ pc'[d] = pc[d]
          /\ (pc'[c] = "closed") \/ (pc'[c] = pc[c] /\ sent'[c] = sent[c])
          /\ UNCHANGED <<url, entry, listVars, memory, isComplete, download>>
      BY <1>10 DEF sendData
    <2>2. ClientState'
      BY <2>1
    <2>3. Completed' /\ EntryMatches'
      BY <2>1
    <2>4. QED
      BY <2>2, <2>3
  <1>11. CASE deleteEntry(c)
    BY <1>11 DEF deleteEntry
  <1>12. CASE gethostbyname(c) \/ connectServer(c)
    <2>1. /\ UNCHANGED <<pc, url, entry, sent, memory, isComplete, data>>
          /\ \A e \in Clients : download[e] \in {"none", "broadcast", "exit"} =>
                                 download'[e] = download[e]
          /\ \A e \in Clients : download'[e] = "none" => download[e] = "none"
      BY <1>12, DownloadMoves
    <2>2. QED
      BY <2>1
  <1>13. CASE cacheInsertData(c)
    BY <1>13 DEF cacheInsertData
  <1>14. CASE cacheMarkComplete(c)
    BY <1>14 DEF cacheMarkComplete
  <1>15. CASE broadcast(c)
    BY <1>15 DEF broadcast
  <1>16. QED
    BY <1>1, <1>2, <1>3, <1>4, <1>5, <1>6, <1>7, <1>8, <1>9, <1>10, <1>11, <1>12, <1>13,
       <1>14, <1>15

(* The facts about answers, completion and memory follow from those.       *)
LEMMA SafetyNext == IInv /\ Next => NoLostCompletion' /\ AnswersAgree' /\ NoUseAfterFree'
  <1> SUFFICES ASSUME IInv, Next PROVE NoLostCompletion' /\ AnswersAgree' /\ NoUseAfterFree'
    OBVIOUS
  <1>0. /\ TypeOK /\ ClientState /\ Completed /\ EntryMatches /\ NoOne \notin Clients
        /\ NoLostCompletion /\ AnswersAgree /\ NoUseAfterFree
    BY ProxyAssumption DEF IInv
  <1>1. PICK c \in Clients :
            \/ accept(c) \/ recvRequest(c) \/ getCacheEntry(c) \/ addNewEntry(c)
            \/ createDownload(c) \/ detachDownload(c) \/ awaitEntry(c) \/ spuriousWakeup(c)
            \/ sendData(c) \/ deleteEntry(c) \/ gethostbyname(c) \/ connectServer(c)
            \/ cacheInsertData(c) \/ cacheMarkComplete(c) \/ broadcast(c)
    BY StepCases
  <1>2. process = "running"
    BY DEF Next
  <1> USE <1>0, <1>2 DEF TypeOK, ClientState, Completed, EntryMatches, NoLostCompletion,
          AnswersAgree, NoUseAfterFree, parseURL, Fresh, Goto, Load,
          clientVars, listVars, entryVars
  <1>3. CASE accept(c) \/ recvRequest(c)
    BY <1>3 DEF accept, recvRequest
  <1>4. CASE getCacheEntry(c)
    BY <1>4, Found DEF getCacheEntry
  <1>5. CASE addNewEntry(c)
    <2>1. CASE removeOldest(c)
      BY <1>5, <2>1 DEF addNewEntry, removeOldest
    <2>2. CASE insertEntry(c, 1)
      BY <1>5, <2>2 DEF addNewEntry, insertEntry
    <2>3. CASE process' = "undefined" /\ UNCHANGED <<clientVars, listVars, entryVars, download>>
      BY <2>3
    <2>4. QED
      BY <1>5, <2>1, <2>2, <2>3, AddCases
  <1>6. CASE createDownload(c)
    BY <1>6 DEF createDownload
  <1>7. CASE detachDownload(c)
    BY <1>7 DEF detachDownload
  <1>8. CASE awaitEntry(c)
    BY <1>8 DEF awaitEntry
  <1>9. CASE spuriousWakeup(c)
    BY <1>9 DEF spuriousWakeup
  <1>10. CASE sendData(c)
    <2>1. /\ pc[c] = "send" /\ entry[c] \in Clients /\ isComplete[entry[c]]
          /\ \A d \in Clients : d # c => sent'[d] = sent[d] /\ pc'[d] = pc[d]
          /\ \/ pc'[c] = "closed" /\ sent'[c] = data[entry[c]]
             \/ pc'[c] = pc[c] /\ sent'[c] = sent[c]
          /\ process' \in {process, "killed"}
          /\ UNCHANGED <<url, entry, listVars, memory, isComplete, data, download>>
      BY <1>10 DEF sendData
    <2>2. NoLostCompletion' /\ NoUseAfterFree'
      BY <2>1
    <2>3. AnswersAgree'
      BY <2>1
    <2>4. QED
      BY <2>2, <2>3
  <1>11. CASE deleteEntry(c)
    BY <1>11 DEF deleteEntry
  <1>12. CASE gethostbyname(c) \/ connectServer(c)
    <2>1. /\ UNCHANGED <<pc, url, entry, sent, memory, isComplete, data>>
          /\ \A e \in Clients : download[e] \in {"none", "broadcast", "exit"} =>
                                 download'[e] = download[e]
          /\ \A e \in Clients : download'[e] = "none" => download[e] = "none"
      BY <1>12, DownloadMoves
    <2>2. QED
      BY <2>1
  <1>13. CASE cacheInsertData(c)
    <2>1. /\ download[c] = "recv" /\ \A e \in Clients : e # c => data'[e] = data[e]
          /\ UNCHANGED <<clientVars, listVars, memory, isComplete, mutex, download, process>>
      BY <1>13 DEF cacheInsertData
    <2>2. NoLostCompletion' /\ NoUseAfterFree'
      BY <2>1
    <2>3. ~isComplete[c]
      BY <2>1
    <2>4. AnswersAgree'
      BY <2>1, <2>3
    <2>5. QED
      BY <2>2, <2>4
  <1>14. CASE cacheMarkComplete(c)
    BY <1>14 DEF cacheMarkComplete
  <1>15. CASE broadcast(c)
    BY <1>15 DEF broadcast
  <1>16. QED
    BY <1>1, <1>3, <1>4, <1>5, <1>6, <1>7, <1>8, <1>9, <1>10, <1>11, <1>12, <1>13,
       <1>14, <1>15

LEMMA IInvNext == IInv /\ [Next]_vars => IInv'
  <1> SUFFICES ASSUME IInv, [Next]_vars PROVE IInv'
    OBVIOUS
  <1>1. CASE Next
    BY <1>1, TypeOKNext, StateNext, SafetyNext, ListNext DEF IInv
  <1>2. CASE UNCHANGED vars
    <2> USE <1>2 DEF vars, clientVars, listVars, entryVars, IInv
    <2>1. TypeOK' /\ ListSound'
      BY DEF TypeOK, ListSound
    <2>2. ClientState' /\ Completed' /\ EntryMatches'
      BY DEF ClientState, Completed, EntryMatches
    <2>3. NoLostCompletion' /\ AnswersAgree' /\ NoUseAfterFree'
      BY DEF NoLostCompletion, AnswersAgree, NoUseAfterFree
    <2>4. QED
      BY <2>1, <2>2, <2>3
  <1>3. QED
    BY <1>1, <1>2

-----------------------------------------------------------------------------
(* Every variable keeps its type, whatever fails: cacheSize never gets     *)
(* below zero.                                                             *)
THEOREM TypeCorrect == Spec => []TypeOK
  <1>1. IInv => TypeOK
    BY DEF IInv
  <1>2. QED
    BY IInvInit, IInvNext, <1>1, PTL DEF Spec

(* The list always holds the allocated entries, once each, and cacheSize   *)
(* counts them, whatever is looked up, added and deleted at the same time. *)
THEOREM ListSoundHolds == Spec => []ListSound
  <1>1. IInv => ListSound
    BY DEF IInv
  <1>2. QED
    BY IInvInit, IInvNext, <1>1, PTL DEF Spec

(* An entry for a URL that can be parsed is never freed once a client's    *)
(* thread has it.                                                          *)
THEOREM NoUseAfterFreeHolds == Spec => []NoUseAfterFree
  <1>1. IInv => NoUseAfterFree
    BY DEF IInv
  <1>2. QED
    BY IInvInit, IInvNext, <1>1, PTL DEF Spec

(* Clients that are served from one entry get the same, complete data.     *)
THEOREM AnswersAgreeHolds == Spec => []AnswersAgree
  <1>1. IInv => AnswersAgree
    BY DEF IInv
  <1>2. QED
    BY IInvInit, IInvNext, <1>1, PTL DEF Spec

(* No client's thread waits on a complete entry after the broadcast.       *)
THEOREM NoLostCompletionHolds == Spec => []NoLostCompletion
  <1>1. IInv => NoLostCompletion
    BY DEF IInv
  <1>2. QED
    BY IInvInit, IInvNext, <1>1, PTL DEF Spec

LEMMA Invariance == Spec => []IInv
  BY IInvInit, IInvNext, PTL DEF Spec

-----------------------------------------------------------------------------
(* What no step of any thread can undo.                                    *)

(* A complete entry keeps its flag and its data, and a client that has     *)
(* been served is not sent anything else.                                  *)
AnswersFinal ==
    /\ \A e \in Clients : isComplete[e] => isComplete'[e] /\ data'[e] = data[e]
    /\ \A c \in Clients : sent[c] > 0 => sent'[c] = sent[c]

LEMMA AnswersFinalStep == IInv /\ [Next]_vars => AnswersFinal
  <1> SUFFICES ASSUME IInv, [Next]_vars PROVE AnswersFinal
    OBVIOUS
  <1>0. TypeOK /\ ClientState /\ Completed
    BY DEF IInv
  <1>1. CASE UNCHANGED vars
    BY <1>1 DEF vars, clientVars, entryVars, AnswersFinal
  <1>2. CASE Next
    <2>1. PICK c \in Clients :
            \/ accept(c) \/ recvRequest(c) \/ getCacheEntry(c) \/ addNewEntry(c)
            \/ createDownload(c) \/ detachDownload(c) \/ awaitEntry(c) \/ spuriousWakeup(c)
            \/ sendData(c) \/ deleteEntry(c) \/ gethostbyname(c) \/ connectServer(c)
            \/ cacheInsertData(c) \/ cacheMarkComplete(c) \/ broadcast(c)
      BY <1>2, StepCases
    <2>2. CASE sendData(c)
      <3>1. pc[c] = "send" /\ UNCHANGED <<isComplete, data>> /\ \A d \in Clients : d # c => sent'[d] = sent[d]
        BY <1>0, <2>2 DEF sendData, TypeOK
      <3>2. ~(sent[c] > 0)
        BY <1>0, <3>1 DEF ClientState
      <3>3. QED
        BY <3>1, <3>2 DEF AnswersFinal
    <2>3. CASE cacheInsertData(c)
      <3>1. ~isComplete[c]
        BY <1>0, <2>3 DEF Completed, cacheInsertData
      <3>2. QED
        BY <1>0, <2>3, <3>1 DEF cacheInsertData, clientVars, TypeOK, AnswersFinal
    <2>4. CASE cacheMarkComplete(c)
      BY <1>0, <2>4 DEF cacheMarkComplete, clientVars, TypeOK, AnswersFinal
    <2>5. CASE UNCHANGED <<sent, isComplete, data>>
      BY <2>5 DEF AnswersFinal
    <2>6. QED
      BY <2>1, <2>2, <2>3, <2>4, <2>5, AddCases DEF accept, recvRequest, getCacheEntry, removeOldest,
         insertEntry, createDownload, detachDownload, awaitEntry, spuriousWakeup, deleteEntry,
         gethostbyname, connectServer, broadcast, clientVars, entryVars
  <1>3. QED
    BY <1>1, <1>2

(* cacheInsertData() never adds to an entry after cacheMarkComplete(),     *)
(* and an answer is sent once: what a client was sent is still what the    *)
(* entry holds when any later client is served from it.                    *)
THEOREM AnswersAreFinal == Spec => [][AnswersFinal]_vars
  BY Invariance, AnswersFinalStep, PTL DEF Spec

(* Client c's thread has called addNewEntry() on a full cache: it holds    *)
(* cacheMutex and waits for it.                                            *)
Stuck(c) == cacheMutex = c /\ pc[c] = "removeOldest"

(* Client d looks for an entry, or is about to add one. *)
Unserved(d) == pc[d] \in {"lookup", "add", "removeOldest"}

LEMMA StuckStep ==
    ASSUME NEW c \in Clients, NEW d \in Clients,
           IInv, [Next]_vars, Stuck(c), Unserved(d), download[d] = "none"
    PROVE  Stuck(c)' /\ Unserved(d)' /\ download'[d] = "none" /\ cache' = cache
  <1>0. TypeOK /\ cacheMutex # NoOne /\ ClientState
    BY ProxyAssumption DEF IInv, Stuck
  <1>1. CASE UNCHANGED vars
    BY <1>1 DEF vars, clientVars, listVars, Stuck, Unserved
  <1>2. CASE Next
    <2>1. PICK b \in Clients :
            \/ accept(b) \/ recvRequest(b) \/ getCacheEntry(b) \/ addNewEntry(b)
            \/ createDownload(b) \/ detachDownload(b) \/ awaitEntry(b) \/ spuriousWakeup(b)
            \/ sendData(b) \/ deleteEntry(b) \/ gethostbyname(b) \/ connectServer(b)
            \/ cacheInsertData(b) \/ cacheMarkComplete(b) \/ broadcast(b)
      BY <1>2, StepCases
    <2>2. ~getCacheEntry(b) /\ ~addNewEntry(b) /\ ~deleteEntry(b)
      BY <1>0 DEF getCacheEntry, addNewEntry, deleteEntry
    <2> USE <1>0 DEF TypeOK, Stuck, Unserved, Goto, Load, clientVars, listVars, entryVars
    <2>3. CASE accept(b)
      BY <2>3 DEF accept
    <2>4. CASE recvRequest(b)
      BY <2>4 DEF recvRequest
    <2>5. CASE createDownload(b)
      BY <2>5 DEF createDownload
    <2>6. CASE detachDownload(b)
      BY <2>6 DEF detachDownload
    <2>7. CASE awaitEntry(b)
      <3>1. /\ pc[b] = "lock" /\ pc' \in {pc, [pc EXCEPT ![b] = "wait"], [pc EXCEPT ![b] = "send"]}
            /\ UNCHANGED <<listVars, download>>
        BY <2>7 DEF awaitEntry
      <3>2. QED
        BY <3>1
    <2>8. CASE spuriousWakeup(b)
      BY <2>8 DEF spuriousWakeup
    <2>9. CASE sendData(b)
      <3>1. /\ pc[b] = "send" /\ pc' \in {pc, [pc EXCEPT ![b] = "closed"]}
            /\ UNCHANGED <<listVars, download>>
        BY <2>9 DEF sendData
      <3>2. QED
        BY <3>1
    <2>10. CASE gethostbyname(b) \/ connectServer(b)
      BY <2>10 DEF gethostbyname, connectServer
    <2>11. CASE cacheInsertData(b)
      BY <2>11 DEF cacheInsertData
    <2>12. CASE cacheMarkComplete(b)
      BY <2>12 DEF cacheMarkComplete
    <2>13. CASE broadcast(b)
      BY <2>13 DEF broadcast
    <2>14. QED
      BY <2>1, <2>2, <2>3, <2>4, <2>5, <2>6, <2>7, <2>8, <2>9, <2>10, <2>11, <2>12, <2>13
  <1>3. QED
    BY <1>1, <1>2

(* Once removeOldest() has locked cacheMutex for the second time, a client *)
(* that has not got an entry yet never gets one: no thread is ever created *)
(* to load what it has asked for, whatever the other threads do.           *)
THEOREM StuckForGood ==
    ASSUME NEW c \in Clients, NEW d \in Clients
    PROVE  Spec => [](Stuck(c) /\ Unserved(d) => [](Stuck(c) /\ Unserved(d) /\ download[d] = "none"))
  <1> DEFINE S == Stuck(c) /\ Unserved(d) /\ download[d] = "none"
  <1>1. IInv /\ Stuck(c) /\ Unserved(d) => S
    BY DEF IInv, ClientState, Fresh, Unserved
  <1>2. IInv /\ S /\ [Next]_vars => S'
    BY StuckStep
  <1>3. S => Stuck(c) /\ Unserved(d) /\ download[d] = "none"
    OBVIOUS
  <1> HIDE DEF S
  <1>4. QED
    BY Invariance, <1>1, <1>2, <1>3, PTL DEF Spec

(* Client c waits for entry e, whose download has ended without completing *)
(* it, or was never started.                                               *)
WaitsInVain(c, e) ==
    /\ pc[c] \in {"lock", "wait"} /\ entry[c] = e
    /\ ~isComplete[e]
    /\ \/ download[e] = "exit"
       \/ download[e] = "none" /\ pc[e] \notin Fresh \cup {"removeOldest", "create"}

LEMMA InVainStep ==
    ASSUME NEW c \in Clients, NEW e \in Clients, IInv, [Next]_vars, WaitsInVain(c, e)
    PROVE  WaitsInVain(c, e)'
  <1>0. TypeOK
    BY DEF IInv
  <1>1. CASE UNCHANGED vars
    BY <1>1 DEF vars, clientVars, entryVars, WaitsInVain
  <1>2. CASE Next
    <2>1. PICK b \in Clients :
            \/ accept(b) \/ recvRequest(b) \/ getCacheEntry(b) \/ addNewEntry(b)
            \/ createDownload(b) \/ detachDownload(b) \/ awaitEntry(b) \/ spuriousWakeup(b)
            \/ sendData(b) \/ deleteEntry(b) \/ gethostbyname(b) \/ connectServer(b)
            \/ cacheInsertData(b) \/ cacheMarkComplete(b) \/ broadcast(b)
      BY <1>2, StepCases
    <2> USE <1>0 DEF TypeOK, WaitsInVain, Fresh, Goto, Load, clientVars, listVars, entryVars
    <2>2. CASE accept(b) \/ recvRequest(b)
      BY <2>2 DEF accept, recvRequest
    <2>3. CASE getCacheEntry(b)
      BY <2>3 DEF getCacheEntry
    <2>4. CASE addNewEntry(b)
      <3>1. /\ pc[b] = "add"
            /\ pc' \in {pc, [pc EXCEPT ![b] = "removeOldest"], [pc EXCEPT ![b] = "create"]}
            /\ entry' \in {entry, [entry EXCEPT ![b] = b]}
            /\ UNCHANGED <<isComplete, download>>
        BY <2>4, AddCases DEF addNewEntry, removeOldest, insertEntry
      <3>2. QED
        BY <3>1
    <2>5. CASE createDownload(b)
      <3>1. /\ pc[b] = "create" /\ pc' = [pc EXCEPT ![b] = "detach"]
            /\ download' \in {download, [download EXCEPT ![b] = "start"]}
            /\ UNCHANGED <<entry, isComplete>>
        BY <2>5 DEF createDownload
      <3>2. b # e
        BY <3>1 DEF IInv, ClientState
      <3>3. QED
        BY <3>1, <3>2
    <2>6. CASE detachDownload(b)
      BY <2>6 DEF detachDownload
    <2>7. CASE awaitEntry(b)
      <3>1. /\ pc[b] = "lock" /\ UNCHANGED <<entry, isComplete, download>>
            /\ \/ pc' = pc
               \/ pc' = [pc EXCEPT ![b] = "wait"]
               \/ isComplete[entry[b]] /\ pc' = [pc EXCEPT ![b] = "send"]
        BY <2>7 DEF awaitEntry
      <3>2. QED
        BY <3>1
    <2>8. CASE spuriousWakeup(b)
      BY <2>8 DEF spuriousWakeup
    <2>9. CASE sendData(b)
      <3>1. /\ pc[b] = "send" /\ pc' \in {pc, [pc EXCEPT ![b] = "closed"]}
            /\ UNCHANGED <<entry, isComplete, download>>
        BY <2>9 DEF sendData
      <3>2. QED
        BY <3>1
    <2>10. CASE deleteEntry(b)
      BY <2>10 DEF deleteEntry
    <2>11. CASE gethostbyname(b) \/ connectServer(b)
      BY <2>11, DownloadMoves
    <2>12. CASE cacheInsertData(b)
      BY <2>12 DEF cacheInsertData
    <2>13. CASE cacheMarkComplete(b)
      BY <2>13 DEF cacheMarkComplete
    <2>14. CASE broadcast(b)
      BY <2>14 DEF broadcast
    <2>15. QED
      BY <2>1, <2>2, <2>3, <2>4, <2>5, <2>6, <2>7, <2>8, <2>9, <2>10, <2>11, <2>12, <2>13, <2>14
  <1>3. QED
    BY <1>1, <1>2

(* A client that waits for an entry whose download has taken an early      *)
(* return of downloadData(), or failed to start, waits for ever: nobody    *)
(* loads the entry again, and no wakeup gets the client past isComplete.   *)
THEOREM AbandonedForGood ==
    ASSUME NEW c \in Clients
    PROVE  Spec => [](pc[c] \in {"lock", "wait"} /\ Abandoned(entry[c]) => [](pc[c] \in {"lock", "wait"}))
  <1> DEFINE S == \E e \in Clients : WaitsInVain(c, e)
             W == pc[c] \in {"lock", "wait"}
             A == Abandoned(entry[c])
  <1>1. IInv /\ W /\ A => S
    <2> SUFFICES ASSUME IInv, W, A PROVE S
      OBVIOUS
    <2>1. entry[c] \in Clients /\ memory[entry[c]] # "none"
      BY DEF IInv, TypeOK, ClientState, EntryMatches
    <2>2. pc[entry[c]] \notin Fresh \cup {"removeOldest"}
      BY <2>1 DEF IInv, ClientState
    <2>3. WaitsInVain(c, entry[c])
      BY <2>2 DEF Abandoned, WaitsInVain
    <2>4. QED
      BY <2>1, <2>3
  <1>2. IInv /\ S /\ [Next]_vars => S'
    BY InVainStep
  <1>3. S => W
    BY DEF WaitsInVain
  <1> HIDE DEF S, W, A
  <1>4. Spec => [](W /\ A => []W)
    BY Invariance, <1>1, <1>2, <1>3, PTL DEF Spec
  <1>5. QED
    BY <1>4 DEF W, A

-----------------------------------------------------------------------------
(* Which memory the threads use.                                           *)

(* The statements at which a download's thread has its entry still to use. *)
Downloading == {"start", "resolved", "overwritten", "recv", "broadcast"}

(* A download's entry is allocated to the end of the download, whatever    *)
(* its URL.  A client that sends holds the mutex of an entry that is       *)
(* allocated, whatever its URL; and a client whose URL can be parsed has   *)
(* an allocated entry from pthread_create() to the end of its request.     *)
EntriesInUse ==
    /\ \A e \in Clients : download[e] \in Downloading => memory[e] = "allocated"
    /\ \A c \in Clients : pc[c] = "send" =>
           memory[entry[c]] = "allocated" /\ mutex[entry[c]] = c
    /\ \A c \in Clients :
           pc[c] \in {"create", "detach", "lock", "wait"} /\ parseURL(url[c]) =>
               memory[entry[c]] = "allocated"

(* An entry is freed by its own download only, as the last thing that one  *)
(* does, and before it could ever become complete.                         *)
EntryLife ==
    /\ \A c \in Clients : pc[c] \in {"create", "detach"} => entry[c] = c
    /\ \A e \in Clients :
           /\ download[e] # "none" => memory[e] # "none"
           /\ memory[e] = "freed" => download[e] = "exit" /\ ~parseURL(url[e])
           /\ download[e] \in Downloading \ {"start"} => parseURL(url[e])
           /\ isComplete[e] => parseURL(url[e])

(* Who holds an entry's mutex. *)
Holder ==
    /\ \A c \in Clients : pc[c] = "send" => mutex[entry[c]] = c
    /\ \A e \in Clients : download[e] = "broadcast" => mutex[e] = Loader

LEMMA LifeInit == Init => EntryLife /\ Holder
  BY DEF Init, EntryLife, Holder, Downloading

LEMMA LifeStep == IInv /\ EntryLife /\ [Next]_vars => EntryLife'
  <1> SUFFICES ASSUME IInv, EntryLife, [Next]_vars PROVE EntryLife'
    OBVIOUS
  <1>1. TypeOK /\ ClientState /\ Completed
    BY DEF IInv
  <1>2. CASE UNCHANGED vars
    BY <1>2 DEF vars, clientVars, entryVars, EntryLife, parseURL
  <1>3. CASE Next
    <2>1. PICK c \in Clients :
            \/ accept(c) \/ recvRequest(c) \/ getCacheEntry(c) \/ addNewEntry(c)
            \/ createDownload(c) \/ detachDownload(c) \/ awaitEntry(c) \/ spuriousWakeup(c)
            \/ sendData(c) \/ deleteEntry(c) \/ gethostbyname(c) \/ connectServer(c)
            \/ cacheInsertData(c) \/ cacheMarkComplete(c) \/ broadcast(c)
      BY <1>3, StepCases
    <2> USE <1>1 DEF TypeOK, EntryLife, Downloading, Goto, Load, clientVars, listVars, entryVars
    <2>2. CASE accept(c)
      BY <2>2 DEF accept, parseURL
    <2>3. CASE recvRequest(c)
      <3>1. memory[c] = "none" /\ download[c] = "none" /\ ~isComplete[c]
        BY <2>3 DEF recvRequest, ClientState, Completed, Fresh
      <3>2. /\ \A d \in Clients : d # c => url'[d] = url[d]
            /\ pc' \in {[pc EXCEPT ![c] = "lookup"], [pc EXCEPT ![c] = "closed"]}
            /\ UNCHANGED <<entry, memory, isComplete, download>>
        BY <2>3 DEF recvRequest
      <3>3. QED
        BY <3>1, <3>2 DEF parseURL
    <2>4. CASE getCacheEntry(c)
      BY <2>4 DEF getCacheEntry, parseURL
    <2>5. CASE addNewEntry(c)
      <3>1. /\ pc[c] = "add" /\ UNCHANGED <<url, isComplete, download>>
            /\ \/ UNCHANGED <<pc, entry, memory>>
               \/ pc' = [pc EXCEPT ![c] = "removeOldest"] /\ UNCHANGED <<entry, memory>>
               \/ /\ pc' = [pc EXCEPT ![c] = "create"] /\ entry' = [entry EXCEPT ![c] = c]
                  /\ memory' = [memory EXCEPT ![c] = "allocated"]
        BY <2>5 DEF addNewEntry, removeOldest, insertEntry
      <3>2. QED
        BY <3>1 DEF parseURL
    <2>6. CASE createDownload(c)
      <3>1. /\ pc[c] = "create" /\ pc' = [pc EXCEPT ![c] = "detach"]
            /\ download' \in {download, [download EXCEPT ![c] = "start"]}
            /\ UNCHANGED <<url, entry, memory, isComplete>>
        BY <2>6 DEF createDownload
      <3>2. download[c] = "none" /\ entry[c] = c /\ memory[c] # "none"
        BY <3>1, ProxyAssumption DEF ClientState, IInv, EntryMatches
      <3>3. QED
        BY <3>1, <3>2 DEF parseURL
    <2>7. CASE detachDownload(c)
      <3>1. /\ pc' \in {pc, [pc EXCEPT ![c] = "lock"]}
            /\ UNCHANGED <<url, entry, memory, isComplete, download>>
        BY <2>7 DEF detachDownload
      <3>2. QED
        BY <3>1 DEF parseURL
    <2>8. CASE awaitEntry(c)
      <3>1. /\ pc' \in {pc, [pc EXCEPT ![c] = "wait"], [pc EXCEPT ![c] = "send"]}
            /\ UNCHANGED <<url, entry, memory, isComplete, download>>
        BY <2>8 DEF awaitEntry
      <3>2. QED
        BY <3>1 DEF parseURL
    <2>9. CASE spuriousWakeup(c)
      BY <2>9 DEF spuriousWakeup, parseURL
    <2>10. CASE sendData(c)
      <3>1. /\ pc' \in {pc, [pc EXCEPT ![c] = "closed"]}
            /\ UNCHANGED <<url, entry, memory, isComplete, download>>
        BY <2>10 DEF sendData
      <3>2. QED
        BY <3>1 DEF parseURL
    <2>11. CASE deleteEntry(c)
      <3>1. /\ download[c] = "start" /\ ~parseURL(url[c])
            /\ memory' = [memory EXCEPT ![c] = "freed"]
            /\ download' = [download EXCEPT ![c] = "exit"]
            /\ UNCHANGED <<url, pc, entry, isComplete>>
        BY <2>11 DEF deleteEntry
      <3>2. QED
        BY <3>1 DEF parseURL
    <2>12. CASE gethostbyname(c) \/ connectServer(c)
      BY <2>12, DownloadMoves DEF parseURL
    <2>13. CASE cacheInsertData(c)
      BY <2>13 DEF cacheInsertData, parseURL
    <2>14. CASE cacheMarkComplete(c)
      BY <2>14 DEF cacheMarkComplete, parseURL
    <2>15. CASE broadcast(c)
      BY <2>15 DEF broadcast, parseURL
    <2>16. QED
      BY <2>1, <2>2, <2>3, <2>4, <2>5, <2>6, <2>7, <2>8, <2>9, <2>10, <2>11, <2>12, <2>13,
         <2>14, <2>15
  <1>4. QED
    BY <1>2, <1>3

LEMMA HolderStep == IInv /\ Holder /\ [Next]_vars => Holder'
  <1> SUFFICES ASSUME IInv, Holder, [Next]_vars PROVE Holder'
    OBVIOUS
  <1>1. TypeOK /\ ClientState /\ Completed /\ NoOne \notin Clients /\ Loader \notin Clients
    BY ProxyAssumption DEF IInv
  <1>2. CASE UNCHANGED vars
    BY <1>2 DEF vars, clientVars, entryVars, Holder
  <1>3. CASE Next
    <2>1. PICK c \in Clients :
            \/ accept(c) \/ recvRequest(c) \/ getCacheEntry(c) \/ addNewEntry(c)
            \/ createDownload(c) \/ detachDownload(c) \/ awaitEntry(c) \/ spuriousWakeup(c)
            \/ sendData(c) \/ deleteEntry(c) \/ gethostbyname(c) \/ connectServer(c)
            \/ cacheInsertData(c) \/ cacheMarkComplete(c) \/ broadcast(c)
      BY <1>3, StepCases
    <2> USE <1>1 DEF TypeOK, Holder, Goto, Load, clientVars, listVars, entryVars
    <2>2. CASE accept(c) \/ recvRequest(c) \/ getCacheEntry(c) \/ createDownload(c)
               \/ detachDownload(c) \/ spuriousWakeup(c)
      <3>1. /\ pc[c] # "send" /\ pc'[c] # "send" /\ mutex' = mutex
            /\ \A d \in Clients : d # c => pc'[d] = pc[d] /\ entry'[d] = entry[d]
            /\ \A e \in Clients : download'[e] = "broadcast" => download[e] = "broadcast"
        BY <2>2 DEF accept, recvRequest, getCacheEntry, createDownload, detachDownload, spuriousWakeup
      <3>2. QED
        BY <3>1
    <2>3. CASE addNewEntry(c)
      <3>1. /\ pc[c] # "send" /\ pc'[c] # "send" /\ UNCHANGED <<mutex, download>>
            /\ \A d \in Clients : d # c => pc'[d] = pc[d] /\ entry'[d] = entry[d]
        BY <2>3 DEF addNewEntry, removeOldest, insertEntry
      <3>2. QED
        BY <3>1
    <2>4. CASE awaitEntry(c)
      <3>1. /\ pc[c] = "lock" /\ UNCHANGED <<entry, download>>
            /\ \/ pc' \in {pc, [pc EXCEPT ![c] = "wait"]} /\ mutex' = mutex
               \/ /\ mutex[entry[c]] = NoOne /\ mutex' = [mutex EXCEPT ![entry[c]] = c]
                  /\ pc' = [pc EXCEPT ![c] = "send"]
        BY <2>4 DEF awaitEntry
      <3>2. entry[c] \in Clients /\ NoOne # Loader
        BY <3>1 DEF ClientState, NoOne, Loader
      <3>3. ASSUME NEW d \in Clients, pc'[d] = "send" PROVE mutex'[entry[d]] = d
        <4>1. CASE d = c
          BY <3>1, <3>2, <3>3, <4>1
        <4>2. CASE d # c
          <5>1. pc[d] = "send" /\ entry[d] \in Clients /\ mutex[entry[d]] = d
            BY <3>1, <3>3, <4>2 DEF ClientState
          <5>2. QED
            BY <3>1, <3>2, <5>1
        <4>3. QED
          BY <4>1, <4>2
      <3>4. ASSUME NEW e \in Clients, download[e] = "broadcast" PROVE mutex'[e] = Loader
        BY <3>1, <3>2, <3>4
      <3>5. QED
        BY <3>1, <3>3, <3>4
    <2>5. CASE sendData(c)
      <3>1. /\ pc[c] = "send" /\ UNCHANGED <<entry, download>>
            /\ \/ pc' = pc /\ mutex' = mutex
               \/ /\ pc' = [pc EXCEPT ![c] = "closed"]
                  /\ mutex' = [mutex EXCEPT ![entry[c]] = NoOne]
        BY <2>5 DEF sendData
      <3>2. entry[c] \in Clients /\ mutex[entry[c]] = c
        BY <3>1 DEF ClientState
      <3>3. ASSUME NEW d \in Clients, pc'[d] = "send" PROVE mutex'[entry[d]] = d
        <4>1. pc[d] = "send" /\ entry[d] \in Clients /\ mutex[entry[d]] = d
          BY <3>1, <3>3 DEF ClientState
        <4>2. d # c \/ mutex' = mutex
          BY <3>1, <3>3
        <4>3. QED
          BY <3>1, <3>2, <4>1, <4>2
      <3>4. ASSUME NEW e \in Clients, download[e] = "broadcast" PROVE mutex'[e] = Loader
        BY <3>1, <3>2, <3>4
      <3>5. QED
        BY <3>1, <3>3, <3>4
    <2>6. CASE deleteEntry(c)
      BY <2>6 DEF deleteEntry
    <2>7. CASE gethostbyname(c) \/ connectServer(c)
      BY <2>7, DownloadMoves
    <2>8. CASE cacheInsertData(c)
      BY <2>8 DEF cacheInsertData
    <2>9. CASE cacheMarkComplete(c)
      <3>1. /\ mutex[c] = NoOne /\ mutex' = [mutex EXCEPT ![c] = Loader]
            /\ download' = [download EXCEPT ![c] = "broadcast"] /\ UNCHANGED <<pc, entry>>
        BY <2>9 DEF cacheMarkComplete
      <3>2. \A d \in Clients : pc[d] = "send" => entry[d] \in Clients /\ entry[d] # c
        BY <3>1 DEF ClientState
      <3>3. QED
        BY <3>1, <3>2
    <2>10. CASE broadcast(c)
      <3>1. /\ mutex[c] = Loader /\ mutex' = [mutex EXCEPT ![c] = NoOne]
            /\ download' = [download EXCEPT ![c] = "exit"] /\ entry' = entry
            /\ \A d \in Clients : pc'[d] = "send" => pc[d] = "send"
        BY <2>10 DEF broadcast
      <3>2. \A d \in Clients : pc[d] = "send" => entry[d] \in Clients /\ entry[d] # c
        BY <3>1 DEF ClientState
      <3>3. QED
        BY <3>1, <3>2
    <2>11. QED
      BY <2>1, <2>2, <2>3, <2>4, <2>5, <2>6, <2>7, <2>8, <2>9, <2>10
  <1>4. QED
    BY <1>2, <1>3

(* No thread of the proxy uses a freed entry, but for a client of a URL    *)
(* that parseURL() refuses, before it sends: a download never does, nor a  *)
(* client in send(), which keeps the entry locked, nor a client of a URL   *)
(* that can be parsed.  removeOldest() frees nothing, as it blocks, and    *)
(* deleteEntry() frees an entry as the last thing its download does.       *)
THEOREM EntriesInUseHolds == Spec => []EntriesInUse
  <1>1. IInv /\ EntryLife /\ Holder => EntriesInUse
    <2> SUFFICES ASSUME IInv, EntryLife, Holder PROVE EntriesInUse
      OBVIOUS
    <2>1. /\ TypeOK /\ ClientState /\ EntryMatches /\ NoUseAfterFree
      BY DEF IInv
    <2>2. \A e \in Clients : memory[e] \in {"none", "allocated", "freed"}
      BY <2>1 DEF TypeOK
    <2>3. \A e \in Clients : download[e] \in Downloading => memory[e] = "allocated"
      BY <2>2 DEF EntryLife, Downloading
    <2>4. ASSUME NEW c \in Clients, pc[c] \in {"create", "detach", "lock", "wait", "send"}
          PROVE  entry[c] \in Clients /\ entry[c] # NoOne /\ memory[entry[c]] # "none"
      BY <2>1, <2>4 DEF TypeOK, ClientState, EntryMatches
    <2>5. ASSUME NEW c \in Clients, pc[c] = "send"
          PROVE  memory[entry[c]] = "allocated" /\ mutex[entry[c]] = c
      <3>1. isComplete[entry[c]] /\ entry[c] \in Clients /\ memory[entry[c]] # "none"
        BY <2>1, <2>4, <2>5 DEF ClientState
      <3>2. QED
        BY <2>2, <2>5, <3>1 DEF EntryLife, Holder
    <2>6. ASSUME NEW c \in Clients, pc[c] \in {"create", "detach", "lock", "wait"},
                 parseURL(url[c])
          PROVE  memory[entry[c]] = "allocated"
      BY <2>1, <2>4, <2>6 DEF NoUseAfterFree
    <2>7. QED
      BY <2>3, <2>5, <2>6 DEF EntriesInUse
  <1>2. QED
    BY Invariance, LifeInit, LifeStep, HolderStep, <1>1, PTL DEF Spec
=============================================================================
