----------------------------- MODULE IpcRestart -----------------------------
(***************************************************************************)
(* Starts, exits and crashes of the two processes of ipc/cache.  The proxy *)
(* and the cache daemon meet in names: /shm_<id>, /sem_1_<id>, /sem_2_<id> *)
(* and /message_channel.  webproxy.c main unlinks and recreates the first  *)
(* three whenever it starts; whoever comes first creates the queue, and a  *)
(* signal makes simplecached unlink it.  An object lives on under its old  *)
(* handles, so here every start of the proxy makes a new generation of     *)
(* objects.  A message names a segment by its id only.                     *)
(*                                                                         *)
(* The transfer is that of ShmTransfer with coarser steps: the accesses to *)
(* a segment between two semaphore operations are one step, and the pool   *)
(* is not raced (SegmentPool).                                             *)
(***************************************************************************)
EXTENDS Integers, Sequences, FiniteSets, SortedIndex

CONSTANTS
  ProxyWorkers,
  NCache,      \* nthreads of simplecached
  NSegments,   \* nsegments
  Keys,        \* paths, as numbers in the order of strcmp
  Locals,      \* locals.txt: the sequence of cached keys
  NChunks,     \* every cached file has this many chunks
  MQMax,       \* mq_maxmsg
  MaxStarts,   \* bound on the starts of either process
  MaxFaults    \* bound on exits, kills and failing calls

ASSUME RestartAssumption ==
  /\ NCache \in Nat \ {0} /\ NSegments \in Nat \ {0} /\ NChunks \in Nat
  /\ MQMax \in Nat \ {0} /\ MaxStarts \in Nat \ {0} /\ MaxFaults \in Nat
  /\ Keys \subseteq Nat /\ Locals \in Seq(Nat)

Segments == 0..(NSegments - 1)
CacheWorkers == 1..NCache
Generations == 1..MaxStarts
Queues == 1..(MaxStarts + MaxFaults + 1)

VARIABLES
  names,               \* [kind -> [segment -> generation]], 0: the name does not exist
  shm, sem1, sem2,     \* of every generation and segment
  mq, mqName,          \* the queues ever created, and the one that has the name (or 0)
  proxy, gen, at,      \* the proxy process: state, generation, where main is in its setup
  pool,                \* free segments
  pc, seg, key, qd, got,   \* its workers, see handle_with_cache
  cache, cq, items, cstarts,  \* the cache process: up or not, its queue and its list of keys
  cpc, job, h, off,    \* its workers; h: the handles they opened, as generations
  stale,               \* history: the cache has looked up names for a request of a proxy
                       \* that is gone and found the objects of the next one
  orphan,              \* history: the request of a worker was lost with a cache process
  faults

proxyVars == <<proxy, gen, at, pool>>
workerVars == <<pc, seg, key, qd, got>>
cacheVars == <<cache, cq, items, cstarts>>
threadVars == <<cpc, job, h, off>>
objects == <<names, shm, sem1, sem2>>
history == <<stale, orphan>>
vars == <<objects, mq, mqName, proxyVars, workerVars, cacheVars, threadVars, history, faults>>

Miss == [src |-> 0, off |-> -1]      \* msg->type == -1
Zero == [src |-> 0, off |-> 0]
NoHandles == [sem1 |-> 0, sem2 |-> 0, shm |-> 0]
NoJob == [id |-> 0, key |-> 0, from |-> 0]   \* from: generation of the sender (history)

OfAll(x) == [g \in Generations |-> [s \in Segments |-> x]]
IdlePc == [w \in ProxyWorkers |-> "idle"]
ReceivePc == [c \in CacheWorkers |-> "receive"]

Init ==
  /\ names = [k \in {"shm", "sem1", "sem2"} |-> [s \in Segments |-> 0]]
  /\ shm = OfAll(Zero) /\ sem1 = OfAll(0) /\ sem2 = OfAll(0)
  /\ mq = [q \in Queues |-> << >>] /\ mqName = 0
  /\ proxy = "down" /\ gen = 0 /\ at = <<0, 1>> /\ pool = {}
  /\ pc = IdlePc
  /\ seg = [w \in ProxyWorkers |-> 0] /\ key = [w \in ProxyWorkers |-> 0]
  /\ qd = [w \in ProxyWorkers |-> 0] /\ got = [w \in ProxyWorkers |-> << >>]
  /\ cache = "down" /\ cq = 0 /\ items = << >> /\ cstarts = 0
  /\ cpc = ReceivePc
  /\ job = [c \in CacheWorkers |-> NoJob]
  /\ h = [c \in CacheWorkers |-> NoHandles] /\ off = [c \in CacheWorkers |-> 0]
  /\ stale = FALSE /\ orphan = {} /\ faults = 0
-----------------------------------------------------------------------------
(* Message queues *)

\* mq_open with O_CREAT: the queue that has the name, or a new one
MqOpened == IF mqName # 0 THEN mqName ELSE CHOOSE q \in Queues :
  /\ mq[q] = << >> /\ q # cq
  /\ \A w \in ProxyWorkers : qd[w] # q

QueueExists == mqName # 0 \/ \E q \in Queues : mq[q] = << >> /\ q # cq /\ \A w \in ProxyWorkers : qd[w] # q
-----------------------------------------------------------------------------
(* webproxy.c: main and _sig_handler *)

\* main's calls for each segment in turn; at: the segment and the call
Calls == <<"shm-", "shm+", "sem1-", "sem1+", "sem2-", "sem2+">>

ProxyStart ==
  /\ proxy = "down" /\ gen < MaxStarts
  /\ proxy' = "setup"
  /\ gen' = gen + 1
  /\ at' = <<0, 1>>
  /\ pool' = {}
  /\ UNCHANGED <<objects, mq, mqName, workerVars, cacheVars, threadVars, history, faults>>

\* Mutant of Setup: sem_open finds the semaphores of the last proxy
SetupKeeps ==
  LET s == at[1]
      kind == Calls[at[2]]
      Name(k, g) == names' = [names EXCEPT ![k][s] = IF @ = 0 THEN g ELSE @]
  IN
  /\ proxy = "setup" /\ s < NSegments
  /\ \/ kind \in {"shm-", "sem1-", "sem2-"} /\ UNCHANGED <<names, sem2>>
     \/ kind = "shm+" /\ Name("shm", gen) /\ UNCHANGED sem2
     \/ kind = "sem1+" /\ Name("sem1", gen) /\ UNCHANGED sem2
     \/ /\ kind = "sem2+" /\ Name("sem2", gen)
        /\ sem2' = IF names["sem2"][s] = 0 THEN [sem2 EXCEPT ![gen][s] = 1] ELSE sem2
  /\ at' = IF at[2] < 6 THEN <<s, at[2] + 1>> ELSE <<s + 1, 1>>
  /\ pool' = IF kind = "sem2+" THEN pool \union {s} ELSE pool
  /\ UNCHANGED <<shm, sem1, mq, mqName, proxy, gen, workerVars, cacheVars, threadVars, history, faults>>

\* shm_unlink; shm_open, ftruncate; sem_unlink; sem_open; ... ; steque_enqueue
Setup ==
  LET s == at[1]
      kind == Calls[at[2]]
      Name(k, g) == names' = [names EXCEPT ![k][s] = g]
  IN
  /\ proxy = "setup" /\ s < NSegments
  /\ \/ kind = "shm-" /\ Name("shm", 0) /\ UNCHANGED sem2
     \/ kind = "shm+" /\ Name("shm", gen) /\ UNCHANGED sem2
     \/ kind = "sem1-" /\ Name("sem1", 0) /\ UNCHANGED sem2
     \/ kind = "sem1+" /\ Name("sem1", gen) /\ UNCHANGED sem2
     \/ kind = "sem2-" /\ Name("sem2", 0) /\ UNCHANGED sem2
     \/ kind = "sem2+" /\ Name("sem2", gen) /\ sem2' = [sem2 EXCEPT ![gen][s] = 1]
  /\ at' = IF at[2] < 6 THEN <<s, at[2] + 1>> ELSE <<s + 1, 1>>
  /\ pool' = IF kind = "sem2+" THEN pool \union {s} ELSE pool
  /\ UNCHANGED <<shm, sem1, mq, mqName, proxy, gen, workerVars, cacheVars, threadVars, history, faults>>

\* gfserver_init, gfserver_serve
Serve ==
  /\ proxy = "setup" /\ at[1] = NSegments
  /\ proxy' = "up"
  /\ UNCHANGED <<objects, mq, mqName, gen, at, pool, workerVars, cacheVars, threadVars, history, faults>>

\* A signal or a crash.  _sig_handler empties the pool and exits; it unlinks nothing.
ProxyExit ==
  /\ proxy # "down" /\ faults < MaxFaults
  /\ faults' = faults + 1
  /\ proxy' = "down"
  /\ at' = <<0, 1>>
  /\ pool' = {}
  /\ pc' = IdlePc
  /\ seg' = [w \in ProxyWorkers |-> 0] /\ key' = [w \in ProxyWorkers |-> 0]
  /\ qd' = [w \in ProxyWorkers |-> 0] /\ got' = [w \in ProxyWorkers |-> << >>]
  /\ orphan' = {}
  /\ UNCHANGED <<objects, mq, mqName, gen, cacheVars, threadVars, stale>>
-----------------------------------------------------------------------------
(* handle_with_cache *)

\* The objects that have the names of segment s: those the handler opens
Sem1(s) == names["sem1"][s]
Sem2(s) == names["sem2"][s]
Shm(s) == names["shm"][s]

\* The gfserver library calls the handler, which takes a segment from the pool.
Begin(w) ==
  /\ proxy = "up" /\ pc[w] = "idle"
  /\ \E s \in pool : pool' = pool \ {s} /\ seg' = [seg EXCEPT ![w] = s]
  /\ \E k \in Keys : key' = [key EXCEPT ![w] = k]
  /\ pc' = [pc EXCEPT ![w] = "open"]
  /\ UNCHANGED <<objects, mq, mqName, proxy, gen, at, qd, got, cacheVars, threadVars, history, faults>>

Open(w) ==
  /\ pc[w] = "open" /\ QueueExists
  /\ mqName' = MqOpened
  /\ qd' = [qd EXCEPT ![w] = MqOpened]
  /\ pc' = [pc EXCEPT ![w] = "send"]
  /\ UNCHANGED <<objects, mq, proxyVars, seg, key, got, cacheVars, threadVars, history, faults>>

\* mq_send, sem_open
MqSend(w) ==
  /\ pc[w] = "send" /\ Len(mq[qd[w]]) < MQMax
  /\ mq' = [mq EXCEPT ![qd[w]] = Append(@, [id |-> seg[w], key |-> key[w], from |-> gen])]
  /\ pc' = [pc EXCEPT ![w] = "header"]
  /\ UNCHANGED <<objects, mqName, proxyVars, seg, key, qd, got, cacheVars, threadVars, history, faults>>

\* The end of the handler: memset, enqueue
Finish(w, answer) ==
  /\ got' = [got EXCEPT ![w] = answer]
  /\ shm' = [shm EXCEPT ![Shm(seg[w])][seg[w]] = Zero]
  /\ pool' = pool \union {seg[w]}
  /\ pc' = [pc EXCEPT ![w] = "return"]
  /\ qd' = [qd EXCEPT ![w] = 0]
  /\ orphan' = orphan \ {w}

\* sem_wait(sem_1); not found, or an empty file, or on to the chunks
Header(w) ==
  LET s == seg[w]
      m == shm[Shm(s)][s]
  IN
  /\ pc[w] = "header" /\ sem1[Sem1(s)][s] > 0
  /\ sem1' = [sem1 EXCEPT ![Sem1(s)][s] = @ - 1]
  /\ IF m = Miss \/ NChunks = 0
     THEN Finish(w, IF m = Miss THEN <<Miss>> ELSE << >>)
     ELSE /\ pc' = [pc EXCEPT ![w] = "chunk"]
          /\ UNCHANGED <<shm, got, pool, qd, orphan>>
  /\ UNCHANGED <<names, sem2, mq, mqName, proxy, gen, at, seg, key, cacheVars, threadVars, stale, faults>>

\* sem_wait(sem_1), gfs_send, sem_post(sem_2)
Chunk(w) ==
  LET s == seg[w]
      all == Append(got[w], shm[Shm(s)][s])
  IN
  /\ pc[w] = "chunk" /\ sem1[Sem1(s)][s] > 0
  /\ sem1' = [sem1 EXCEPT ![Sem1(s)][s] = @ - 1]
  /\ sem2' = [sem2 EXCEPT ![Sem2(s)][s] = @ + 1]
  /\ IF Len(all) = NChunks
     THEN Finish(w, all)
     ELSE /\ got' = [got EXCEPT ![w] = all]
          /\ UNCHANGED <<shm, pc, pool, qd, orphan>>
  /\ UNCHANGED <<names, mq, mqName, proxy, gen, at, seg, key, cacheVars, threadVars, stale, faults>>

Return(w) ==
  /\ pc[w] = "return"
  /\ pc' = [pc EXCEPT ![w] = "idle"]
  /\ seg' = [seg EXCEPT ![w] = 0]
  /\ key' = [key EXCEPT ![w] = 0]
  /\ got' = [got EXCEPT ![w] = << >>]
  /\ UNCHANGED <<objects, mq, mqName, proxyVars, qd, cacheVars, threadVars, history, faults>>

ProxyWorker(w) == Open(w) \/ MqSend(w) \/ Header(w) \/ Chunk(w) \/ Return(w)
-----------------------------------------------------------------------------
(* simplecached.c: main and _sig_handler *)

\* Mutant of CacheStart: it starts with a queue of its own
CacheStartUnlinks ==
  /\ cache = "down" /\ cstarts < MaxStarts
  /\ cache' = "up"
  /\ items' \in Sortings(Locals)
  /\ cstarts' = cstarts + 1
  /\ \E q \in Queues :
       /\ q # mqName /\ mq[q] = << >> /\ \A w \in ProxyWorkers : qd[w] # q
       /\ mqName' = q /\ cq' = q
  /\ UNCHANGED <<objects, mq, proxyVars, workerVars, threadVars, history, faults>>

\* simplecache_init, mq_open, pthread_create
CacheStart ==
  /\ cache = "down" /\ cstarts < MaxStarts /\ QueueExists
  /\ cache' = "up"
  /\ items' \in Sortings(Locals)
  /\ cstarts' = cstarts + 1
  /\ mqName' = MqOpened
  /\ cq' = MqOpened
  /\ UNCHANGED <<objects, mq, proxyVars, workerVars, threadVars, history, faults>>

\* Workers of the proxy whose request is with a cache worker
InHand == {w \in ProxyWorkers : \E c \in CacheWorkers :
             cpc[c] # "receive" /\ job[c].id = seg[w] /\ pc[w] \in {"header", "chunk"}}

\* The process ends; its threads and handles are gone.
CacheEnds(lost) ==
  /\ cache' = "down"
  /\ cq' = 0 /\ items' = << >>
  /\ cpc' = ReceivePc
  /\ job' = [c \in CacheWorkers |-> NoJob]
  /\ h' = [c \in CacheWorkers |-> NoHandles]
  /\ off' = [c \in CacheWorkers |-> 0]
  /\ orphan' = orphan \union lost

\* A signal: mq_unlink and exit.  Requests under way in the queue are lost, and those
\* of workers that have it open and send after this.
CacheExit ==
  /\ cache = "up" /\ faults < MaxFaults
  /\ faults' = faults + 1
  /\ mqName' = IF mqName = cq THEN 0 ELSE mqName
  /\ mq' = [mq EXCEPT ![cq] = << >>]
  /\ CacheEnds(InHand \union {w \in ProxyWorkers : qd[w] = cq})
  /\ UNCHANGED <<objects, proxyVars, workerVars, cstarts, stale>>

\* SIGKILL: the queue keeps its name and its messages.
CacheKill ==
  /\ cache = "up" /\ faults < MaxFaults
  /\ faults' = faults + 1
  /\ CacheEnds(InHand)
  /\ UNCHANGED <<objects, mq, mqName, proxyVars, workerVars, cstarts, stale>>
-----------------------------------------------------------------------------
(* worker_thread *)

Receive(c) ==
  /\ cache = "up" /\ cpc[c] = "receive" /\ mq[cq] # << >>
  /\ job' = [job EXCEPT ![c] = Head(mq[cq])]
  /\ mq' = [mq EXCEPT ![cq] = Tail(@)]
  /\ cpc' = [cpc EXCEPT ![c] = "sem1"]
  /\ UNCHANGED <<objects, mqName, proxyVars, workerVars, cacheVars, h, off, history, faults>>

\* sem_open, sem_open, shm_open: three steps, by name
OpenName(c, kind, next) ==
  LET g == names[kind][job[c].id] IN
  /\ cpc[c] = kind /\ g # 0
  /\ h' = [h EXCEPT ![c][kind] = g]
  /\ stale' = (stale \/ g # job[c].from)
  /\ cpc' = [cpc EXCEPT ![c] = next]
  /\ UNCHANGED <<objects, mq, mqName, proxyVars, workerVars, cacheVars, job, off, orphan, faults>>

\* A name does not exist while the proxy recreates it: a semaphore cannot be opened and
\* the process exits; shm_open creates an empty segment, and the first access to it
\* before ftruncate raises SIGBUS.
OpenFails(c) ==
  /\ cpc[c] \in {"sem1", "sem2", "shm"}
  /\ names[cpc[c]][job[c].id] = 0
  /\ CacheEnds(InHand)
  /\ UNCHANGED <<objects, mq, mqName, proxyVars, workerVars, cstarts, stale, faults>>

\* ... unless the proxy is quick enough
OpenEmpty(c) ==
  /\ cpc[c] = "shm" /\ names["shm"][job[c].id] = 0
  /\ h' = [h EXCEPT ![c]["shm"] = gen]
  /\ stale' = TRUE
  /\ cpc' = [cpc EXCEPT ![c] = "answer"]
  /\ UNCHANGED <<objects, mq, mqName, proxyVars, workerVars, cacheVars, job, off, orphan, faults>>

\* The next round of the loop, or the chunks of the file first
Continue(c, more, n) ==
  IF more
  THEN /\ cpc' = [cpc EXCEPT ![c] = "chunk"]
       /\ off' = [off EXCEPT ![c] = n]
       /\ UNCHANGED <<job, h>>
  ELSE /\ cpc' = [cpc EXCEPT ![c] = "receive"]
       /\ off' = [off EXCEPT ![c] = 0]
       /\ job' = [job EXCEPT ![c] = NoJob]
       /\ h' = [h EXCEPT ![c] = NoHandles]

simplecache_get(k) == Finds(items, k)

\* simplecache_get, type and file_len, sem_post(sem_1)
PostHeader(c) ==
  LET s == job[c].id
      hit == simplecache_get(job[c].key)
  IN
  /\ cpc[c] = "answer"
  /\ shm' = [shm EXCEPT ![h[c].shm][s] = IF hit THEN [src |-> job[c].key, off |-> 0] ELSE Miss]
  /\ sem1' = [sem1 EXCEPT ![h[c].sem1][s] = @ + 1]
  /\ Continue(c, hit /\ NChunks > 0, 0)
  /\ UNCHANGED <<names, sem2, mq, mqName, proxyVars, workerVars, cacheVars, history, faults>>

\* fstat fails and the thread ends; main, which waits for the first thread, then frees
\* the address of a local variable and the process aborts.
FstatFails(c) ==
  /\ cpc[c] = "answer" /\ faults < MaxFaults
  /\ simplecache_get(job[c].key)
  /\ faults' = faults + 1
  /\ \/ c = 1 /\ CacheEnds(InHand)
     \/ /\ c # 1
        /\ cpc' = [cpc EXCEPT ![c] = "dead"]
        /\ orphan' = orphan \union {w \in ProxyWorkers : pc[w] = "header" /\ seg[w] = job[c].id}
        /\ UNCHANGED <<cache, cq, items, job, h, off>>
  /\ UNCHANGED <<objects, mq, mqName, proxyVars, workerVars, cstarts, stale>>

\* Mutant of PostChunk: no sem_wait(sem_2)
PostChunkAhead(c) ==
  LET s == job[c].id IN
  /\ cpc[c] = "chunk"
  /\ shm' = [shm EXCEPT ![h[c].shm][s] = [src |-> job[c].key, off |-> off[c]]]
  /\ sem1' = [sem1 EXCEPT ![h[c].sem1][s] = @ + 1]
  /\ Continue(c, off[c] + 1 < NChunks, off[c] + 1)
  /\ UNCHANGED <<names, sem2, mq, mqName, proxyVars, workerVars, cacheVars, history, faults>>

\* pread, sem_wait(sem_2), memcpy, sem_post(sem_1); after the last chunk pread returns 0
PostChunk(c) ==
  LET s == job[c].id IN
  /\ cpc[c] = "chunk" /\ sem2[h[c].sem2][s] > 0
  /\ sem2' = [sem2 EXCEPT ![h[c].sem2][s] = @ - 1]
  /\ shm' = [shm EXCEPT ![h[c].shm][s] = [src |-> job[c].key, off |-> off[c]]]
  /\ sem1' = [sem1 EXCEPT ![h[c].sem1][s] = @ + 1]
  /\ Continue(c, off[c] + 1 < NChunks, off[c] + 1)
  /\ UNCHANGED <<names, mq, mqName, proxyVars, workerVars, cacheVars, history, faults>>

CacheWorker(c) ==
  \/ Receive(c) \/ OpenName(c, "sem1", "sem2") \/ OpenName(c, "sem2", "shm")
  \/ OpenName(c, "shm", "answer") \/ OpenFails(c) \/ OpenEmpty(c) \/ PostHeader(c) \/ PostChunk(c)

Next ==
  \/ ProxyStart \/ Setup \/ Serve \/ ProxyExit
  \/ CacheStart \/ CacheExit \/ CacheKill
  \/ \E w \in ProxyWorkers : Begin(w) \/ ProxyWorker(w)
  \/ \E c \in CacheWorkers : CacheWorker(c) \/ FstatFails(c)

Spec == Init /\ [][Next]_vars

\* Threads run; nobody has to start a process or to send a request.
FairSpec ==
  /\ Spec
  /\ WF_vars(Setup \/ Serve)
  /\ \A w \in ProxyWorkers : WF_vars(ProxyWorker(w))
  /\ \A c \in CacheWorkers : WF_vars(CacheWorker(c))
-----------------------------------------------------------------------------
(* Properties *)

Expected(k) == IF \E i \in 1..Len(Locals) : Locals[i] = k
               THEN [i \in 1..NChunks |-> [src |-> k, off |-> i - 1]]
               ELSE <<Miss>>

\* No client gets the answer to somebody else's request, whatever was killed and started
\* again, unless a proxy went down and left a request behind that the cache resolves only
\* after the next one has started: it then answers into the segment of the new proxy.
OwnAnswer ==
  stale \/ \A w \in ProxyWorkers :
             /\ pc[w] = "chunk" => got[w] = SubSeq(Expected(key[w]), 1, Len(got[w]))
             /\ pc[w] = "return" => got[w] = Expected(key[w])

\* A proxy that serves finds its free segments as new, although workers of the cache may
\* still be in a transfer of its predecessor: they have the old objects.
CleanSlate ==
  (proxy = "up" /\ ~stale) =>
    \A s \in pool :
      /\ sem1[Sem1(s)][s] = 0 /\ sem2[Sem2(s)][s] = 1
      /\ \A c \in CacheWorkers :
           (cpc[c] \in {"answer", "chunk"} /\ job[c].id = s) =>
             h[c].sem1 # Sem1(s) /\ h[c].sem2 # Sem2(s) /\ h[c].shm # Shm(s)

\* Waiting on objects of a proxy that is gone: this worker is lost to the cache.
Blocked(c) == cpc[c] = "dead" \/ (cpc[c] = "chunk" /\ h[c].sem2 # Sem2(job[c].id))

\* A request is answered: also one that was in the queue when the cache was killed, as
\* soon as a cache is there again.  It is not if it was in the hands of the cache or the
\* cache unlinked its queue, or if all workers of the cache wait for a proxy that is gone.
Answered ==
  \A w \in ProxyWorkers :
    (pc[w] = "header") ~>
      (pc[w] \in {"idle", "return"} \/ w \in orphan \/ stale \/ (\A c \in CacheWorkers : Blocked(c)) \/ [](cache = "down"))
=============================================================================
