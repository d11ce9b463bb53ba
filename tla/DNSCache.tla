------------------------------ MODULE DNSCache ------------------------------
(***************************************************************************)
(* The DNS client's cache for one question and one transport               *)
(* (dns/client.go): queries that take turns on the key, the memory cache   *)
(* or the cache file behind it (experimental/cachefile), answers served    *)
(* while they are refreshed in the background (optimistic), the record of  *)
(* rejected answers (RDRC), and the file's queue of unsaved answers with   *)
(* the goroutines that flush it.                                           *)
(*                                                                         *)
(* Every answer of the transport has a number of its own, in the order in  *)
(* which they are given; an answer is fresh, then expired, then too old    *)
(* even for optimistic use.                                                *)
(***************************************************************************)
EXTENDS Naturals

CONSTANTS
    Queries,     \* calls of Exchange or Lookup
    Checking,    \* those with a responseChecker
    Rejected,    \* answers a responseChecker refuses
    Flushers,    \* goroutines of flushPendingDNSCache
    MaxAnswer,   \* bound: answers of the transport
    MaxClears    \* bound: calls of ClearCache

Answers == 1..MaxAnswer
Empty == 0

ASSUME CacheAssumption ==
    /\ Checking \subseteq Queries /\ Rejected \subseteq Answers
    /\ "none" \notin Queries
    /\ MaxAnswer \in Nat \ {0} /\ MaxClears \in Nat

VARIABLES
    persistent,  \* dnsCache is the cache file; otherwise the memory cache
    answered,    \* answers given by the transport so far
    age,         \* age of an answer
    cache,       \* the memory cache
    pending,     \* saveDNSCache: the answer not saved yet and its sequence
    file,        \* the bucket dns_cache
    rdrc,        \* the question is recorded as rejected
    flusher,     \* the flushing goroutines
    lock,        \* cacheLock: the query that holds the key
    query,       \* the queries
    refresh,     \* the background refresh: its answer, or its stage
    clearing,    \* ClearDNSCache has cleared the queue and not yet the bucket
    clears,      \* calls of ClearCache
    stored,      \* history variable: the answer stored last and not cleared
    excused,     \* history variable: a clear met a flushing goroutine, or a save failed
    unchecked    \* history variable: answers stored without a check

cacheVars == <<persistent, answered, age, cache, pending, file, rdrc, flusher, lock,
          query, refresh, clearing, clears, stored, excused, unchecked>>

ghosts == <<stored, excused, unchecked>>

NoPending == [answer |-> Empty, sequence |-> 0]
NoFlush == [at |-> "off", answer |-> Empty, sequence |-> 0]
Flushes == [at |-> "read", answer |-> Empty, sequence |-> 0]
Stages == {"off", "wait", "load", "remove", "ask", "got"}

CacheTypeOK ==
    /\ persistent \in BOOLEAN
    /\ answered \in 0..MaxAnswer /\ age \in [Answers -> {"fresh", "stale", "dead"}]
    /\ unchecked \subseteq Answers
    /\ cache \in 0..MaxAnswer /\ file \in 0..MaxAnswer /\ stored \in 0..MaxAnswer
    /\ pending \in [answer : 0..MaxAnswer, sequence : Nat]
    /\ pending.answer = Empty <=> pending = NoPending
    /\ flusher \in [Flushers -> [at : {"off", "read", "save", "saved"}, answer : 0..MaxAnswer,
                                 sequence : Nat]]
    /\ lock \in Queries \cup {"none"}
    /\ query \in [Queries -> [at : Stages, answer : 0..MaxAnswer, leader : Queries \cup {"none"}]]
    /\ refresh \in [at : {"off", "ask", "got"}, answer : 0..MaxAnswer, check : BOOLEAN]
    /\ rdrc \in BOOLEAN /\ clearing \in BOOLEAN /\ clears \in 0..MaxClears
    /\ excused \in BOOLEAN

Idle == [at |-> "off", answer |-> Empty, leader |-> "none"]
NoRefresh == [at |-> "off", answer |-> Empty, check |-> FALSE]

CacheInit ==
    /\ persistent \in BOOLEAN
    /\ answered = 0 /\ age = [a \in Answers |-> "fresh"]
    /\ cache = Empty /\ pending = NoPending /\ file = Empty /\ rdrc = FALSE
    /\ flusher = [f \in Flushers |-> NoFlush]
    /\ lock = "none" /\ query = [q \in Queries |-> Idle] /\ refresh = NoRefresh
    /\ clearing = FALSE /\ clears = 0
    /\ stored = Empty /\ excused = FALSE /\ unchecked = {}
-----------------------------------------------------------------------------
(* LoadDNSCache looks into the queue of unsaved answers first. *)
LoadDNSCache == IF pending.answer # Empty THEN pending.answer ELSE file
Loaded == IF persistent THEN LoadDNSCache ELSE cache

(* loadResponse returns an answer, perhaps a stale one. *)
Servable(a) == a # Empty /\ age[a] # "dead"

(* storeCache: in the file mode, queueDNSCacheSave, and a goroutine if     *)
(* none is saving this key.                                                *)
StartsFlush == pending = NoPending

Queue(a) ==
    /\ pending' = [answer |-> a, sequence |-> pending.sequence + 1]
    /\ IF StartsFlush
         THEN \E f \in Flushers : /\ flusher[f].at = "off"
                                  /\ flusher' = [flusher EXCEPT ![f] = Flushes]
         ELSE UNCHANGED flusher

storeCache(a, checked) ==
    /\ stored' = a
    /\ unchecked' = IF checked \/ a \notin Rejected THEN unchecked ELSE unchecked \cup {a}
    /\ IF persistent THEN Queue(a) /\ UNCHANGED cache
                     ELSE cache' = a /\ UNCHANGED <<pending, flusher>>
    /\ UNCHANGED excused

(* What the end of a query does: the leader gives up the key and its       *)
(* waiters go on.                                                          *)
KeepsLock(q) == lock
Unlocked(q) == IF lock = q THEN "none" ELSE lock

Ended(q) ==
    /\ lock' = Unlocked(q)
    /\ query' = [p \in Queries |->
                   IF p = q THEN Idle
                   ELSE IF query[p].at = "wait" /\ query[p].leader = q /\ Unlocked(q) # q
                     THEN [query[p] EXCEPT !.at = "load"] ELSE query[p]]
-----------------------------------------------------------------------------
(* backgroundRefreshDNS: one at a time for a key, with the check of the    *)
(* query that starts it.                                                   *)
StartRefresh(q) ==
    refresh' = IF refresh.at = "off" THEN [at |-> "ask", answer |-> Empty, check |-> q \in Checking]
               ELSE refresh

(* questionCache, before a Lookup takes the key. *)
QuestionCache(q) ==
    /\ query[q].at = "off" /\ Servable(Loaded)
    /\ IF age[Loaded] = "stale" THEN StartRefresh(q) ELSE UNCHANGED refresh
    /\ UNCHANGED <<persistent, answered, age, cache, pending, file, rdrc, flusher, lock, query, clearing,
                   clears, ghosts>>

(* Exchange: take the key, or wait for the query that has it. *)
Exchange(q) ==
    /\ query[q].at = "off"
    /\ IF lock = "none"
         THEN lock' = q /\ query' = [query EXCEPT ![q].at = "load"]
         ELSE query' = [query EXCEPT ![q] = [at |-> "wait", answer |-> Empty, leader |-> lock]] /\ UNCHANGED lock
    /\ UNCHANGED <<persistent, answered, age, cache, pending, file, rdrc, flusher, refresh, clearing,
                   clears, ghosts>>

(* The caller's context ends while the query waits. *)
WaitCancelled(q) ==
    /\ query[q].at = "wait"
    /\ Ended(q)
    /\ UNCHANGED <<persistent, answered, age, cache, pending, file, rdrc, flusher, refresh, clearing,
                   clears, ghosts>>

LoadHit(q) ==
    /\ query[q].at = "load" /\ Servable(Loaded)
    /\ IF age[Loaded] = "stale" THEN StartRefresh(q) ELSE UNCHANGED refresh
    /\ Ended(q)
    /\ UNCHANGED <<persistent, answered, age, cache, pending, file, rdrc, flusher, clearing, clears, ghosts>>

(* The memory cache removes an answer that is too old, a step after it has *)
(* read it.                                                                *)
LoadMiss(q) ==
    /\ query[q].at = "load" /\ ~Servable(Loaded)
    /\ query' = [query EXCEPT ![q].at = IF ~persistent /\ cache # Empty THEN "remove" ELSE "ask"]
    /\ UNCHANGED <<persistent, answered, age, cache, pending, file, rdrc, flusher, lock, refresh,
                   clearing, clears, ghosts>>

Remove(q) ==
    /\ query[q].at = "remove"
    /\ cache' = Empty /\ stored' = Empty
    /\ query' = [query EXCEPT ![q].at = "ask"]
    /\ UNCHANGED <<persistent, answered, age, pending, file, rdrc, flusher, lock, refresh, clearing,
                   clears, excused, unchecked>>

(* LoadRDRC says that the answer would be refused. *)
RejectedCached(q) ==
    /\ query[q].at = "ask" /\ q \in Checking /\ rdrc
    /\ Ended(q)
    /\ UNCHANGED <<persistent, answered, age, cache, pending, file, rdrc, flusher, refresh, clearing,
                   clears, ghosts>>

(* exchangeToTransport: an answer, or an error or a timeout. *)
Answer(q) ==
    /\ query[q].at = "ask" /\ ~(q \in Checking /\ rdrc) /\ answered < MaxAnswer
    /\ answered' = answered + 1
    /\ query' = [query EXCEPT ![q].at = "got", ![q].answer = answered + 1]
    /\ UNCHANGED <<persistent, age, cache, pending, file, rdrc, flusher, lock, refresh, clearing,
                   clears, ghosts>>

AnswerFails(q) ==
    /\ query[q].at = "ask" /\ ~(q \in Checking /\ rdrc)
    /\ Ended(q)
    /\ UNCHANGED <<persistent, answered, age, cache, pending, file, rdrc, flusher, refresh, clearing,
                   clears, ghosts>>

(* The responseChecker, then storeCache (an answer with a TTL of 0 or an   *)
(* error code is not stored).                                              *)
SkipsCheck(q) == FALSE
Refused(q) == q \in Checking /\ query[q].answer \in Rejected

Got(q) ==
    /\ query[q].at = "got"
    /\ IF Refused(q)
         THEN rdrc' \in {rdrc, TRUE} /\ UNCHANGED <<cache, pending, flusher, ghosts>>
         ELSE /\ storeCache(query[q].answer, q \in Checking) \/ UNCHANGED <<cache, pending, flusher, ghosts>>
              /\ UNCHANGED rdrc
    /\ Ended(q)
    /\ UNCHANGED <<persistent, answered, age, file, refresh, clearing, clears>>

RefreshAnswer ==
    /\ refresh.at = "ask" /\ answered < MaxAnswer
    /\ answered' = answered + 1
    /\ refresh' = [refresh EXCEPT !.at = "got", !.answer = answered + 1]
    /\ UNCHANGED <<persistent, age, cache, pending, file, rdrc, flusher, lock, query, clearing,
                   clears, ghosts>>

RefreshFails ==
    /\ refresh.at = "ask"
    /\ refresh' = NoRefresh
    /\ UNCHANGED <<persistent, answered, age, cache, pending, file, rdrc, flusher, lock, query, clearing,
                   clears, ghosts>>

RefreshDone ==
    /\ refresh.at = "got"
    /\ refresh' = NoRefresh
    /\ IF refresh.check /\ refresh.answer \in Rejected
         THEN rdrc' \in {rdrc, TRUE} /\ UNCHANGED <<cache, pending, flusher, ghosts>>
         ELSE /\ storeCache(refresh.answer, refresh.check) \/ UNCHANGED <<cache, pending, flusher, ghosts>>
              /\ UNCHANGED rdrc
    /\ UNCHANGED <<persistent, answered, age, file, lock, query, clearing, clears>>
-----------------------------------------------------------------------------
(* flushPendingDNSCacheWith: read the entry, save it, and remove it from   *)
(* the queue unless a newer one has been queued since.                     *)
FlushRead(f) ==
    /\ flusher[f].at = "read"
    /\ flusher' = [flusher EXCEPT ![f] = IF pending = NoPending THEN NoFlush
                     ELSE [at |-> "save", answer |-> pending.answer, sequence |-> pending.sequence]]
    /\ UNCHANGED <<persistent, answered, age, cache, pending, file, rdrc, lock, query, refresh,
                   clearing, clears, ghosts>>

FlushSave(f) ==
    /\ flusher[f].at = "save"
    /\ flusher' = [flusher EXCEPT ![f].at = "saved"]
    /\ file' = flusher[f].answer
    /\ UNCHANGED <<persistent, answered, age, cache, pending, rdrc, lock, query, refresh, clearing,
                   clears, ghosts>>

(* The database refuses: the goroutine goes on as if it had saved. *)
FlushFails(f) ==
    /\ flusher[f].at = "save"
    /\ flusher' = [flusher EXCEPT ![f].at = "saved"]
    /\ excused' = TRUE
    /\ UNCHANGED <<persistent, answered, age, cache, pending, file, rdrc, lock, query, refresh, clearing,
                   clears, stored, unchecked>>

Dequeued == NoPending
SavesOnce(f) == TRUE
Current(f) == flusher[f].sequence = pending.sequence

FlushEnd(f) ==
    /\ flusher[f].at = "saved"
    /\ \/ /\ pending = NoPending
          /\ flusher' = [flusher EXCEPT ![f] = NoFlush] /\ UNCHANGED pending
       \/ /\ pending # NoPending /\ ~Current(f)
          /\ flusher' = [flusher EXCEPT ![f] = Flushes] /\ UNCHANGED pending
       \/ /\ pending # NoPending /\ Current(f)
          /\ flusher' = [flusher EXCEPT ![f] = NoFlush] /\ pending' = Dequeued
    /\ UNCHANGED <<persistent, answered, age, cache, file, rdrc, lock, query, refresh, clearing,
                   clears, ghosts>>

(* ClearCache: the queue, then the bucket. *)
ClearCache ==
    /\ ~clearing /\ clears < MaxClears
    /\ clears' = clears + 1
    /\ cache' = Empty /\ pending' = NoPending /\ clearing' = persistent
    /\ stored' = Empty
    /\ excused' = (excused \/ \E f \in Flushers : flusher[f].at # "off")
    /\ UNCHANGED <<persistent, answered, age, file, rdrc, flusher, lock, query, refresh, unchecked>>

ClearBucket ==
    /\ clearing
    /\ clearing' = FALSE /\ file' = Empty
    /\ excused' = (excused \/ stored # Empty)
    /\ UNCHANGED <<persistent, answered, age, cache, pending, rdrc, flusher, lock, query, refresh,
                   clears, stored, unchecked>>

(* cleanupDNSCache removes an answer from the file when it is too old. *)
TooOld == file # Empty /\ age[file] = "dead"

cleanupDNSCache ==
    /\ TooOld
    /\ file' = Empty
    /\ UNCHANGED <<persistent, answered, age, cache, pending, rdrc, flusher, lock, query, refresh,
                   clearing, clears, ghosts>>

(* The record of rejected answers expires. *)
RDRCExpires ==
    /\ rdrc
    /\ rdrc' = FALSE
    /\ UNCHANGED <<persistent, answered, age, cache, pending, file, flusher, lock, query, refresh, clearing,
                   clears, ghosts>>

(* The program stops or crashes and starts again: the file is what is left. *)
Restart ==
    /\ cache' = Empty /\ pending' = NoPending
    /\ flusher' = [f \in Flushers |-> NoFlush]
    /\ lock' = "none" /\ query' = [q \in Queries |-> Idle] /\ refresh' = NoRefresh
    /\ clearing' = FALSE /\ stored' = IF persistent THEN file ELSE Empty
    /\ rdrc' = (rdrc /\ ~persistent)
    /\ UNCHANGED <<persistent, answered, age, file, clears, excused, unchecked>>

(* Time: without the optimistic mode an expired answer is too old at once. *)
Older(a) ==
    /\ a \in {cache, pending.answer, file} /\ a # Empty /\ age[a] # "dead"
    /\ \E older \in {"stale", "dead"} \ {age[a]} : age' = [age EXCEPT ![a] = older]
    /\ UNCHANGED <<persistent, answered, cache, pending, file, rdrc, flusher, lock, query, refresh,
                   clearing, clears, ghosts>>
-----------------------------------------------------------------------------
Step(q) ==
    \/ WaitCancelled(q) \/ LoadHit(q) \/ LoadMiss(q) \/ Remove(q) \/ RejectedCached(q) \/ Answer(q)
    \/ AnswerFails(q) \/ Got(q)
Running(q) == LoadHit(q) \/ LoadMiss(q) \/ Remove(q) \/ RejectedCached(q) \/ AnswerFails(q) \/ Got(q)
Refresh == RefreshFails \/ RefreshDone
Flush(f) == FlushRead(f) \/ FlushSave(f) \/ FlushFails(f) \/ FlushEnd(f)

CacheNext ==
    \/ \E q \in Queries : QuestionCache(q) \/ Exchange(q) \/ Step(q)
    \/ RefreshAnswer \/ Refresh
    \/ \E f \in Flushers : Flush(f)
    \/ ClearCache \/ ClearBucket \/ cleanupDNSCache \/ RDRCExpires \/ Restart
    \/ \E a \in Answers : Older(a)

CacheSpec == CacheInit /\ [][CacheNext]_cacheVars

(* Transports have a timeout; a waiting query's context need not end. *)
FairCacheSpec ==
    /\ CacheSpec
    /\ \A q \in Queries : WF_cacheVars(Running(q))
    /\ WF_cacheVars(Refresh) /\ \A f \in Flushers : WF_cacheVars(Flush(f))
-----------------------------------------------------------------------------
(* The answer stored last is in the queue or in the file until it is too   *)
(* old or cleared, so a load never returns an older one: no interleaving   *)
(* of queries, refresh and flushing goroutines loses it.  (A clear that    *)
(* meets a flushing goroutine may, and so does a failed save.)  All        *)
(* variables keep their types.                                             *)
StoredKept ==
    /\ CacheTypeOK
    /\ stored # Empty /\ ~excused => Loaded = stored \/ (Loaded = Empty /\ age[stored] = "dead")

(* An answer that a check refuses is cached only when a query without a    *)
(* check has stored it.                                                    *)
RefusedNotCached == \A a \in {cache, pending.answer, file} : a \in Rejected => a \in unchecked

(* Every query ends: whatever the leader of a key runs into, it gives up   *)
(* the key, and the queries that wait for it go on.  What is queued for    *)
(* the file is saved: the queue becomes empty again.                       *)
QueriesEnd ==
    /\ \A q \in Queries : query[q].at # "off" ~> query[q].at = "off"
    /\ pending # NoPending ~> pending = NoPending
=============================================================================
