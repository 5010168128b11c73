----------------------------- MODULE ProxyCache -----------------------------
(***************************************************************************)
(* The proxy's workers and the cache they share (lab07_proxylab/proxy.c    *)
(* and cache.c).  A worker reads a request, looks it up as a reader, and   *)
(* on a miss fetches the page and stores it as a writer; readcnt, mutex    *)
(* and w keep readers and writers apart, readers first.  Each semaphore    *)
(* operation and each access to the cache, to its total and to the pool    *)
(* of bodies is a step of its own.                                         *)
(*                                                                         *)
(* A URL has a site, the host and the path cache_isin compares, and a      *)
(* port; a body is the URL it came from and its length.                    *)
(***************************************************************************)
EXTENDS Integers, FiniteSets, FiniteSetsExt

CONSTANTS
    Workers,      \* the threads (NTHREADS)
    Urls,         \* what clients ask for: records [site, port]
    NCACHE,       \* entries of the cache
    MaxCacheSize, MaxObjectSize,
    Lengths,      \* lengths of the answers of the servers
    MaxRequests   \* bound: requests served in a behaviour

ASSUME WorkersAssumption == IsFiniteSet(Workers) /\ Workers # {}
ASSUME NCACHEAssumption == NCACHE \in Nat \ {0}
ASSUME LengthsAssumption == Lengths \subseteq Nat
ASSUME MaxSizesAssumption == MaxCacheSize \in Nat /\ MaxObjectSize \in Nat
ASSUME MaxRequestsAssumption == MaxRequests \in Nat

VARIABLES
    cache,        \* per entry: the site, its length (0: free), its age
    pool,         \* per entry: the body
    totalCache,   \* total_cache
    readcnt, mutex, w,
    pc,           \* where each worker is
    url,          \* the URL each worker serves
    idx,          \* the entry each worker found or chose, or -1
    size, body,   \* length and content of each worker's temp_cache
    requests,     \* how many requests were read
    usedBefore    \* history: pairs of entries in use, the one used before first

sharedVars == <<cache, pool, totalCache, usedBefore>>
lockVars == <<readcnt, mutex, w>>
localVars == <<url, idx, size, body>>
vars == <<sharedVars, lockVars, pc, localVars, requests>>

Entries == 0 .. NCACHE - 1
NoSite == "none"
Sites == {u.site : u \in Urls}
NoUrl == [site |-> NoSite, port |-> 0]
Bodies == [from : Urls \cup {NoUrl}, len : Lengths \cup {0}]
NoBody == [from |-> NoUrl, len |-> 0]
\* What copying the wrong number of bytes leaves.
TornBody == [from |-> NoUrl, len |-> 1]

ReaderAt == {"rLock", "rEnter", "rWait", "rUnlock", "find", "size", "copy",
             "uLock", "update", "reset", "uUnlock", "xLock", "xLeave", "xUnlock"}
WriterAt == {"wLock", "check", "choose", "total", "put", "age", "store", "wUnlock"}
WorkerAt == {"idle", "fetch", "respond", "exited"} \cup ReaderAt \cup WriterAt

\* cache_init, and the semaphores at 1.
Init ==
    /\ cache = [i \in Entries |-> [site |-> NoSite, state |-> 0, lru |-> 0]]
    /\ pool = [i \in Entries |-> NoBody]
    /\ totalCache = 0
    /\ readcnt = 0 /\ mutex = 1 /\ w = 1
    /\ pc = [t \in Workers |-> "idle"]
    /\ url = [t \in Workers |-> NoUrl]
    /\ idx = [t \in Workers |-> -1]
    /\ size = [t \in Workers |-> 0]
    /\ body = [t \in Workers |-> NoBody]
    /\ requests = 0
    /\ usedBefore = {}

InUse == {i \in Entries : cache[i].state # 0}

\* The history when entry i is used, and when it is given up.
UsedLast(i) == {p \in usedBefore : p[1] # i} \cup ((InUse \ {i}) \X {i})
Forgotten(i) == {p \in usedBefore : p[1] # i /\ p[2] # i}

(***************************************************************************)
(* cache.c                                                                 *)
(***************************************************************************)

\* cache_update: every entry in use grows older.
Updated(c) == [i \in Entries |->
    IF c[i].state # 0 THEN [c[i] EXCEPT !.lru = @ + 1] ELSE c[i]]

\* Mutated: the loop begins at the second entry.
IsinFromSecond(site) ==
    LET hits == {i \in InUse : i # 0 /\ cache[i].site = site}
    IN  IF hits = {} THEN -1 ELSE Min(hits)

\* cache_isin: the first entry in use with this host and path.
Isin(site) ==
    LET hits == {i \in InUse : cache[i].site = site}
    IN  IF hits = {} THEN -1 ELSE Min(hits)

\* Mutated: the loop runs one entry too far.
FindPastEnd == Min((Entries \cup {NCACHE}) \ InUse)

\* cache_find: the first free entry.
Find == IF InUse = Entries THEN -1 ELSE Min(Entries \ InUse)

\* cache_evict: the first of the entries of the greatest age above 0.
Victim ==
    LET oldest == {i \in Entries : /\ cache[i].lru > 0
                                   /\ \A j \in Entries : cache[j].lru <= cache[i].lru}
    IN  IF oldest = {} THEN -1 ELSE Min(oldest)

(***************************************************************************)
(* A worker: doit and reader                                               *)
(***************************************************************************)

Goto(t, from, to) == pc[t] = from /\ pc' = [pc EXCEPT ![t] = to]

\* A connection with a GET arrives.  parse_url's result is ignored: a URL it
\* rejects leaves in to_server that of an earlier request, also in Urls.  (An
\* empty request, or one that is no GET, touches nothing shared.)
Request(t) ==
    /\ requests < MaxRequests
    /\ Goto(t, "idle", "rLock")
    /\ \E u \in Urls : url' = [url EXCEPT ![t] = u]
    /\ requests' = requests + 1
    /\ UNCHANGED <<sharedVars, lockVars, idx, size, body>>

ReaderLock(t) ==
    /\ mutex = 1
    /\ Goto(t, "rLock", "rEnter")
    /\ mutex' = 0
    /\ UNCHANGED <<sharedVars, readcnt, w, localVars, requests>>

\* Mutated: the first reader does not wait for the writer.
ReaderEnterNoWait(t) ==
    /\ Goto(t, "rEnter", "rUnlock")
    /\ readcnt' = readcnt + 1
    /\ UNCHANGED <<sharedVars, mutex, w, localVars, requests>>

ReaderEnter(t) ==
    /\ Goto(t, "rEnter", IF readcnt = 0 THEN "rWait" ELSE "rUnlock")
    /\ readcnt' = readcnt + 1
    /\ UNCHANGED <<sharedVars, mutex, w, localVars, requests>>

\* The first reader waits for the writer, keeping the mutex.
ReaderWait(t) ==
    /\ w = 1
    /\ Goto(t, "rWait", "rUnlock")
    /\ w' = 0
    /\ UNCHANGED <<sharedVars, mutex, readcnt, localVars, requests>>

Unlock(t, from, to) ==
    /\ Goto(t, from, to)
    /\ mutex' = 1
    /\ UNCHANGED <<sharedVars, readcnt, w, localVars, requests>>

ReaderFind(t) ==
    /\ Goto(t, "find", IF Isin(url[t].site) = -1 THEN "xLock" ELSE "size")
    /\ idx' = [idx EXCEPT ![t] = Isin(url[t].site)]
    /\ UNCHANGED <<sharedVars, lockVars, url, size, body, requests>>

ReaderSize(t) ==
    /\ Goto(t, "size", "copy")
    /\ size' = [size EXCEPT ![t] = cache[idx[t]].state]
    /\ UNCHANGED <<sharedVars, lockVars, url, idx, body, requests>>

\* memcpy of size bytes of the pool.
ReaderCopy(t) ==
    /\ Goto(t, "copy", "uLock")
    /\ body' = [body EXCEPT ![t] =
           IF pool[idx[t]].len = size[t] THEN pool[idx[t]] ELSE TornBody]
    /\ UNCHANGED <<sharedVars, lockVars, url, idx, size, requests>>

UpdateLock(t) ==
    /\ mutex = 1
    /\ Goto(t, "uLock", "update")
    /\ mutex' = 0
    /\ UNCHANGED <<sharedVars, readcnt, w, localVars, requests>>

ReaderUpdate(t) ==
    /\ Goto(t, "update", "reset")
    /\ cache' = Updated(cache)
    /\ UNCHANGED <<pool, totalCache, usedBefore, lockVars, localVars, requests>>

\* Mutated: a hit does not make the entry young.
ReaderResetNone(t) ==
    /\ Goto(t, "reset", "uUnlock")
    /\ usedBefore' = UsedLast(idx[t])
    /\ UNCHANGED <<cache, pool, totalCache, lockVars, localVars, requests>>

ReaderReset(t) ==
    /\ Goto(t, "reset", "uUnlock")
    /\ cache' = [cache EXCEPT ![idx[t]].lru = 0]
    /\ usedBefore' = UsedLast(idx[t])
    /\ UNCHANGED <<pool, totalCache, lockVars, localVars, requests>>

LeaveLock(t) ==
    /\ mutex = 1
    /\ Goto(t, "xLock", "xLeave")
    /\ mutex' = 0
    /\ UNCHANGED <<sharedVars, readcnt, w, localVars, requests>>

\* Mutated: the count is tested before it goes down.
ReaderLeaveTestsFirst(t) ==
    /\ Goto(t, "xLeave", "xUnlock")
    /\ readcnt' = readcnt - 1
    /\ w' = IF readcnt = 0 THEN 1 ELSE w
    /\ UNCHANGED <<sharedVars, mutex, localVars, requests>>

\* The last reader lets the writers in.
ReaderLeave(t) ==
    /\ Goto(t, "xLeave", "xUnlock")
    /\ readcnt' = readcnt - 1
    /\ w' = IF readcnt = 1 THEN 1 ELSE w
    /\ UNCHANGED <<sharedVars, mutex, localVars, requests>>

\* A hit: the copy goes to the client.
Respond(t) ==
    /\ Goto(t, "respond", "idle")
    /\ url' = [url EXCEPT ![t] = NoUrl]
    /\ idx' = [idx EXCEPT ![t] = -1]
    /\ size' = [size EXCEPT ![t] = 0]
    /\ body' = [body EXCEPT ![t] = NoBody]
    /\ UNCHANGED <<sharedVars, lockVars, requests>>

\* A miss: what the server answers goes to the client line by line, and to
\* temp_cache as far as it fits.
Fetch(t) ==
    /\ Goto(t, "fetch", "wLock")
    /\ \E n \in Lengths :
          /\ size' = [size EXCEPT ![t] = n]
          /\ body' = [body EXCEPT ![t] = [from |-> url[t], len |-> n]]
    /\ UNCHANGED <<sharedVars, lockVars, url, idx, requests>>

\* Any wrapper of csapp.c that fails on a connection (Open_clientfd,
\* Rio_readlineb, Rio_writen: a peer that is gone) exits the process.
Exit(t) ==
    /\ pc[t] \in {"idle", "fetch", "respond"}
    /\ requests < MaxRequests \/ pc[t] # "idle"
    /\ pc' = [u \in Workers |-> "exited"]
    /\ UNCHANGED <<sharedVars, lockVars, localVars, requests>>

(***************************************************************************)
(* A worker: writer                                                        *)
(***************************************************************************)

WriterLock(t) ==
    /\ w = 1
    /\ Goto(t, "wLock", "check")
    /\ w' = 0
    /\ UNCHANGED <<sharedVars, mutex, readcnt, localVars, requests>>

\* Too long a body, or one the cache has no room for, is not stored; nothing
\* is evicted to make room.
WriterCheck(t) ==
    /\ Goto(t, "check",
            IF size[t] > MaxObjectSize \/ totalCache + size[t] > MaxCacheSize
            THEN "wUnlock" ELSE "choose")
    /\ UNCHANGED <<sharedVars, lockVars, localVars, requests>>

WriterFind(t) ==
    /\ Find # -1
    /\ Goto(t, "choose", "total")
    /\ idx' = [idx EXCEPT ![t] = Find]
    /\ UNCHANGED <<sharedVars, lockVars, url, size, body, requests>>

\* Mutated: the evicted entry still counts.
WriterEvictKeepsTotal(t) ==
    /\ Find = -1 /\ Victim # -1
    /\ Goto(t, "choose", "total")
    /\ idx' = [idx EXCEPT ![t] = Victim]
    /\ cache' = [cache EXCEPT ![Victim].state = 0, ![Victim].lru = 0]
    /\ usedBefore' = Forgotten(Victim)
    /\ UNCHANGED <<pool, totalCache, lockVars, url, size, body, requests>>

WriterEvict(t) ==
    /\ Find = -1
    /\ Goto(t, "choose", "total")
    /\ idx' = [idx EXCEPT ![t] = Victim]
    /\ IF Victim = -1
       THEN UNCHANGED <<cache, totalCache, usedBefore>>
       ELSE /\ totalCache' = totalCache - cache[Victim].state
            /\ cache' = [cache EXCEPT ![Victim].state = 0, ![Victim].lru = 0]
            /\ usedBefore' = Forgotten(Victim)
    /\ UNCHANGED <<pool, lockVars, url, size, body, requests>>

WriterTotal(t) ==
    /\ Goto(t, "total", "put")
    /\ totalCache' = totalCache + size[t]
    /\ UNCHANGED <<cache, pool, usedBefore, lockVars, localVars, requests>>

\* cache_put(cache, -1, ...) would write outside the cache: EvictionFinds.
WriterPut(t) ==
    /\ idx[t] # -1
    /\ Goto(t, "put", "age")
    /\ cache' = [cache EXCEPT ![idx[t]] =
           [site |-> url[t].site, state |-> size[t], lru |-> 0]]
    /\ usedBefore' = IF size[t] = 0 THEN usedBefore ELSE UsedLast(idx[t])
    /\ UNCHANGED <<pool, totalCache, lockVars, localVars, requests>>

\* Mutated: storing an entry does not age the cache.
WriterUpdateNone(t) ==
    /\ Goto(t, "age", "store")
    /\ UNCHANGED <<sharedVars, lockVars, localVars, requests>>

WriterUpdate(t) ==
    /\ Goto(t, "age", "store")
    /\ cache' = Updated(cache)
    /\ UNCHANGED <<pool, totalCache, usedBefore, lockVars, localVars, requests>>

WriterStore(t) ==
    /\ Goto(t, "store", "wUnlock")
    /\ pool' = [pool EXCEPT ![idx[t]] = body[t]]
    /\ UNCHANGED <<cache, totalCache, usedBefore, lockVars, localVars, requests>>

WriterUnlock(t) ==
    /\ Goto(t, "wUnlock", "idle")
    /\ w' = 1
    /\ url' = [url EXCEPT ![t] = NoUrl]
    /\ idx' = [idx EXCEPT ![t] = -1]
    /\ size' = [size EXCEPT ![t] = 0]
    /\ body' = [body EXCEPT ![t] = NoBody]
    /\ UNCHANGED <<sharedVars, readcnt, mutex, requests>>

Reader(t) ==
    \/ ReaderLock(t) \/ ReaderEnter(t) \/ ReaderWait(t) \/ Unlock(t, "rUnlock", "find")
    \/ ReaderFind(t) \/ ReaderSize(t) \/ ReaderCopy(t)
    \/ UpdateLock(t) \/ ReaderUpdate(t) \/ ReaderReset(t) \/ Unlock(t, "uUnlock", "xLock")
    \/ LeaveLock(t) \/ ReaderLeave(t)
    \/ Unlock(t, "xUnlock", IF idx[t] = -1 THEN "fetch" ELSE "respond")

Writer(t) ==
    \/ WriterLock(t) \/ WriterCheck(t) \/ WriterFind(t) \/ WriterEvict(t)
    \/ WriterTotal(t) \/ WriterPut(t) \/ WriterUpdate(t) \/ WriterStore(t)
    \/ WriterUnlock(t)

\* Every request served, or the process gone.
Done ==
    /\ \/ requests = MaxRequests /\ \A t \in Workers : pc[t] = "idle"
       \/ \A t \in Workers : pc[t] = "exited"
    /\ UNCHANGED vars

Next ==
    \/ \E t \in Workers :
          Request(t) \/ Reader(t) \/ Respond(t) \/ Fetch(t) \/ Exit(t) \/ Writer(t)
    \/ Done

Spec == Init /\ [][Next]_vars

(***************************************************************************)
(* Properties                                                              *)
(***************************************************************************)

TypeOK ==
    /\ cache \in [Entries -> [site : Sites \cup {NoSite}, state : Lengths \cup {0}, lru : Nat]]
    /\ pool \in [Entries -> Bodies]
    /\ totalCache \in Nat
    /\ readcnt \in 0 .. Cardinality(Workers)
    /\ mutex \in {0, 1} /\ w \in {0, 1}
    /\ pc \in [Workers -> WorkerAt]
    /\ url \in [Workers -> Urls \cup {NoUrl}]
    /\ idx \in [Workers -> Entries \cup {-1}]
    /\ size \in [Workers -> Lengths \cup {0}]
    /\ body \in [Workers -> Bodies \cup {TornBody}]
    /\ requests \in 0 .. MaxRequests
    /\ usedBefore \subseteq Entries \X Entries

InMutex(t) == pc[t] \in {"rEnter", "rWait", "rUnlock", "update", "reset",
                         "uUnlock", "xLeave", "xUnlock"}
Reading(t) == pc[t] \in {"rUnlock", "find", "size", "copy", "uLock", "update",
                         "reset", "uUnlock", "xLock", "xLeave"}
Counted(t) == Reading(t) \/ pc[t] = "rWait"
Writing(t) == pc[t] \in WriterAt \ {"wLock"}

\* One writer or any number of readers is at the cache, readcnt counts the
\* readers, and a semaphore is taken only while some worker is bound to
\* give it back.
LocksAccounted ==
    /\ TypeOK
    /\ (\A t \in Workers : pc[t] # "exited") =>
           /\ readcnt = Cardinality({t \in Workers : Counted(t)})
           /\ Cardinality({t \in Workers : InMutex(t)}) = 1 - mutex
           /\ w = 0 <=> \E t \in Workers : Reading(t) \/ Writing(t)
           /\ \A t, u \in Workers : Writing(t) /\ (Writing(u) \/ Reading(u)) => t = u

\* A hit sends the whole body of one stored answer for the host and path the
\* client asked for, whatever writers and evictions run meanwhile.
HitIsWhole ==
    \A t \in Workers : pc[t] = "respond" =>
        /\ body[t].len = size[t] /\ size[t] # 0
        /\ body[t].from.site = url[t].site

\* driver.sh:231-232 and 247-253: a page through the proxy is the page the
\* server sends.  Two servers on one host differ by their port.
HitIsFromServer ==
    \A t \in Workers : pc[t] = "respond" => body[t].from = url[t]

\* The bytes the entries hold, each by its entry and its place in it.
Held == UNION {{i} \X (1 .. cache[i].state) : i \in Entries}

\* total_cache is what the entries hold whenever no writer is at work, and
\* it never passes MAX_CACHE_SIZE.
TotalIsSum ==
    /\ totalCache <= MaxCacheSize
    /\ (\A t \in Workers : pc[t] \notin (WriterAt \ {"wLock"}) \cup {"exited"}) =>
           totalCache = Cardinality(Held)

\* A full cache always has an entry of age above 0 to evict, so a writer
\* never stores at index -1.
EvictionFinds == \A t \in Workers : pc[t] = "total" => idx[t] # -1

\* The entry evicted is one of the two least recently used: an entry hit just
\* before another is stored has the same age as that one, so ties are of two.
EvictsLeastRecent == [][
    \A i \in Entries : cache[i].state # 0 /\ cache'[i].state = 0 =>
        Cardinality({j \in Entries : <<j, i>> \in usedBefore}) <= 1
    ]_vars

\* The workers that missed this site and have not stored it yet.
Storing(s) ==
    {t \in Workers :
        /\ url[t].site = s
        /\ \/ pc[t] \in {"xLock", "xLeave", "xUnlock"} /\ idx[t] = -1
           \/ pc[t] \in {"fetch", "wLock", "check", "choose", "total", "put"}}

\* The entries for one site and the workers about to store it are together no
\* more than the workers: concurrent misses store a page more than once, but
\* never add up beyond one copy for each worker.
CopiesBounded ==
    \A s \in Sites :
        Cardinality({i \in InUse : cache[i].site = s}) + Cardinality(Storing(s))
            <= Cardinality(Workers)

(***************************************************************************)
(* The inductive invariant of the proofs in ProxyCacheProofs               *)
(***************************************************************************)

\* Exit ends all workers at once: the process is there or it is gone.
Alive == \A t \in Workers : pc[t] # "exited"
Gone == \A t \in Workers : pc[t] = "exited"

\* The mutex is taken exactly while a worker, and one only, is behind it.
MutexHeld ==
    /\ mutex = 0 <=> \E t \in Workers : InMutex(t)
    /\ \A t, u \in Workers : InMutex(t) /\ InMutex(u) => t = u

\* The reader that waits for the writer is the only one counted.
ReadersCounted ==
    /\ readcnt = Cardinality({t \in Workers : Counted(t)})
    /\ \A t, u \in Workers : pc[t] = "rWait" /\ Counted(u) => t = u

CacheHeld ==
    /\ w = 0 <=> \E t \in Workers : Reading(t) \/ Writing(t)
    /\ \A t, u \in Workers : Writing(t) /\ (Writing(u) \/ Reading(u)) => t = u

\* The entry a reader found stays as it was found until the reader leaves, and
\* the copy taken of it is whole.
AtEntry == {"size", "copy", "uLock", "update", "reset", "uUnlock"}
HasCopy(t) ==
    \/ pc[t] \in {"uLock", "update", "reset", "uUnlock", "respond"}
    \/ pc[t] \in {"xLock", "xLeave", "xUnlock"} /\ idx[t] # -1
ReadersHold ==
    \A t \in Workers :
        /\ pc[t] \in AtEntry => idx[t] \in InUse /\ cache[idx[t]].site = url[t].site
        /\ pc[t] = "copy" => size[t] = cache[idx[t]].state
        /\ HasCopy(t) => /\ body[t].len = size[t] /\ size[t] # 0
                         /\ body[t].from.site = url[t].site

\* A writer stores what it fetched, in an entry that was free, and only while
\* the total has room for it.
WritersHold ==
    \A t \in Workers :
        /\ pc[t] \in WriterAt => body[t] = [from |-> url[t], len |-> size[t]]
        /\ pc[t] \in {"choose", "total"} => totalCache + size[t] <= MaxCacheSize
        /\ pc[t] \in {"total", "put"} /\ idx[t] # -1 => cache[idx[t]].state = 0
        /\ pc[t] \in {"age", "store"} =>
               /\ idx[t] # -1
               /\ cache[idx[t]].site = url[t].site /\ cache[idx[t]].state = size[t]

\* Entry and body agree, but while a writer is between the two.
EntriesWhole ==
    \A i \in InUse :
        \/ pool[i].len = cache[i].state /\ pool[i].from.site = cache[i].site
        \/ \E t \in Workers : pc[t] \in {"age", "store"} /\ idx[t] = i

TotalHeld ==
    /\ \A t \in Workers : pc[t] = "put" => totalCache = Cardinality(Held) + size[t]
    /\ (\A t \in Workers : pc[t] # "put") => totalCache = Cardinality(Held)

\* Two entries have age 0 only while one of them has just been stored; none has
\* it once a reader has aged them all.
AgesApart ==
    /\ \A i, j \in InUse : cache[i].lru = 0 /\ cache[j].lru = 0 =>
           i = j \/ \E t \in Workers : pc[t] = "age" /\ idx[t] \in {i, j}
    /\ \A t \in Workers : pc[t] = "reset" => \A i \in InUse : cache[i].lru > 0

\* Ages follow the order of uses, and tie for two entries at most.
UsesOrdered ==
    /\ \A p \in usedBefore : p[1] \in InUse /\ p[2] \in InUse /\ p[1] # p[2]
    /\ \A i, j \in InUse : i = j \/ <<i, j>> \in usedBefore \/ <<j, i>> \in usedBefore
    /\ \A i, j \in InUse : <<j, i>> \in usedBefore => cache[j].lru >= cache[i].lru
    /\ \A i, j, k \in InUse :
           <<k, j>> \in usedBefore /\ <<j, i>> \in usedBefore => cache[k].lru > cache[i].lru

AliveInv ==
    /\ MutexHeld /\ ReadersCounted /\ CacheHeld
    /\ ReadersHold /\ WritersHold /\ EntriesWhole
    /\ TotalHeld /\ AgesApart /\ UsesOrdered
    /\ NCACHE > 1 => EvictionFinds

CacheIInv ==
    /\ TypeOK /\ CopiesBounded /\ totalCache <= MaxCacheSize
    /\ Gone \/ (Alive /\ AliveInv)
=============================================================================
