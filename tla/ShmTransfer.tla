---------------------------- MODULE ShmTransfer ----------------------------
(***************************************************************************)
(* The transfer protocol between the web proxy and the cache daemon of     *)
(* ipc/cache: proxy worker threads run handle_with_cache, cache worker     *)
(* threads run worker_thread of simplecached.c.  A proxy worker takes a    *)
(* shared memory segment from the pool, names it in a message on the POSIX *)
(* message queue, and then the two sides hand the segment back and forth   *)
(* with two semaphores per segment: sem_1 (posted by the cache when there  *)
(* is something to read) and sem_2 (posted by the proxy when the content   *)
(* has been consumed).                                                     *)
(*                                                                         *)
(* A write to shared memory and the semaphore operation next to it are     *)
(* separate steps.  The bytes of a file are abstracted to their place in   *)
(* the file: byte i of path p is <<p, i>>.  steque_enqueue is called       *)
(* without sem_queue; the statement level race is in SegmentPool, here its *)
(* outcomes are a nondeterministic choice (see Enqueue).                   *)
(***************************************************************************)
EXTENDS Integers, Sequences, FiniteSets

CONSTANTS
  ProxyWorkers,   \* threads of the proxy that call handle_with_cache
  CacheWorkers,   \* threads of simplecached
  Segments,       \* the ids of the shared memory segments
  Paths,          \* the paths clients ask for
  FileLen,        \* [cached paths -> length in bytes]; other paths are misses
  FstatFails,     \* the cached paths for which fstat may fail
  ChunkSize,      \* MAX_SIMPLE_CACHE_QUEUE_SIZE, the size of msg->content
  MQMax,          \* mq_maxmsg of the message queue
  NoPath,         \* the path of a zeroed segment or of an idle worker
  NoSeg           \* the segment of an idle worker

Cached == DOMAIN FileLen

ASSUME FileAssumption ==
  /\ Cached \subseteq Paths
  /\ FileLen \in [Cached -> Nat]
  /\ FstatFails \subseteq Cached
  /\ NoPath \notin Paths
  /\ NoSeg \notin Segments
ASSUME BoundAssumption ==
  /\ ChunkSize \in Nat \ {0}
  /\ MQMax \in Nat \ {0}
ASSUME ThreadAssumption ==
  /\ ProxyWorkers # {}
  /\ Segments # {}

VARIABLES
  alive,      \* the proxy process has not exited
  semQueue,   \* value of /sem_queue
  pool,       \* the segment ids steque_pop can still return
  raced,      \* two operations of the steque have overlapped
  mq,         \* the message queue: a sequence of [id, path]
  sem1, sem2, \* values of /sem_1_<id> and /sem_2_<id>
  shm,        \* the segments: struct message of cache-student.h
  pc, seg, path, status, body,  \* the proxy workers
  cpc, job, offset, nread       \* the cache workers

proxyVars == <<alive, semQueue, pool, raced, pc, seg, path, status, body>>
cacheVars == <<cpc, job, offset, nread>>
vars == <<alive, semQueue, pool, raced, mq, sem1, sem2, shm,
          pc, seg, path, status, body, cpc, job, offset, nread>>

-----------------------------------------------------------------------------
(* Shared memory and file contents *)

\* memset(msg, 0, sizeof(struct message)).  content is described by the path
\* and the file offset its first byte came from.
ZeroMsg == [type |-> 0, fileLen |-> 0, src |-> NoPath, off |-> 0, contentLen |-> 0]

Message == [type : {-1, 0, 1}, fileLen : Nat, src : Paths \union {NoPath},
            off : Nat, contentLen : Nat]

Job == [id : Segments, path : Paths]
NoJob == [id |-> NoSeg, path |-> NoPath]

Byte(p, i) == <<p, i>>

\* pread(fd, file_buffer, MAX_SIMPLE_CACHE_QUEUE_SIZE, offset)
PRead(p, o) == IF FileLen[p] - o < ChunkSize THEN FileLen[p] - o ELSE ChunkSize

\* memcpy from the segment, gfs_send, bytes_transferred += content_len:
\* the bytes handed to the client so far, followed by those in the segment.
Received(b, m) == b \o [i \in 1..m.contentLen |-> Byte(m.src, m.off + i - 1)]

ProxyPC == {"idle", "lock", "check", "send", "header", "test", "loop", "copy",
            "post", "enqueue", "enqueueNF", "count", "countNF", "sendNF", "return"}
CachePC == {"receive", "lookup", "postNF", "postHeader", "read", "waitFree",
            "write", "postChunk", "dead"}

\* The proxy worker owns a segment: it has popped it and not yet put it back.
Holding == {"send", "header", "test", "loop", "copy", "post", "enqueue", "enqueueNF"}

Holds(w, s) == pc[w] \in Holding /\ seg[w] = s

\* The proxy worker is inside an operation of the steque.
InQueue(w) == pc[w] \in {"check", "enqueue", "enqueueNF", "count", "countNF"}

\* Another worker is inside the steque, and nothing orders the two.
Overlaps(w) == \E u \in ProxyWorkers \ {w} : InQueue(u)

\* Worker w changes the ids that can be popped to ids.  This is what SegmentPool
\* establishes for the statements of steque.c and what is taken over here: exact as
\* long as no two operations have overlapped (ExactWhenSerial), and after a race
\* ids may be lost and the fields not relied on, but no id is there twice
\* (ImplementsLossyPool).
ChangeQueue(w, ids) ==
  \/ pool' = ids /\ raced' = raced
  \/ /\ raced \/ Overlaps(w)
     /\ raced' = TRUE
     /\ pool' \in SUBSET ids
-----------------------------------------------------------------------------
(* webproxy.c main: sem_queue = 1, every sem_1 = 0 and sem_2 = 1, every id in
   the pool, the segments fresh (shm_unlink, shm_open, ftruncate).  The cache
   workers have been created and call mq_receive. *)
Init ==
  /\ alive = TRUE
  /\ semQueue = 1
  /\ pool = Segments
  /\ raced = FALSE
  /\ mq = << >>
  /\ sem1 = [s \in Segments |-> 0]
  /\ sem2 = [s \in Segments |-> 1]
  /\ shm = [s \in Segments |-> ZeroMsg]
  /\ pc = [w \in ProxyWorkers |-> "idle"]
  /\ seg = [w \in ProxyWorkers |-> NoSeg]
  /\ path = [w \in ProxyWorkers |-> NoPath]
  /\ status = [w \in ProxyWorkers |-> "none"]
  /\ body = [w \in ProxyWorkers |-> << >>]
  /\ cpc = [c \in CacheWorkers |-> "receive"]
  /\ job = [c \in CacheWorkers |-> NoJob]
  /\ offset = [c \in CacheWorkers |-> 0]
  /\ nread = [c \in CacheWorkers |-> 0]
-----------------------------------------------------------------------------
(* handle_with_cache, a proxy worker w *)

Goto(w, from, to) == alive /\ pc[w] = from /\ pc' = [pc EXCEPT ![w] = to]

\* The gfserver library calls the handler with the path of a request.
Begin(w) ==
  /\ Goto(w, "idle", "lock")
  /\ \E p \in Paths : path' = [path EXCEPT ![w] = p]
  /\ UNCHANGED <<alive, semQueue, pool, raced, mq, sem1, sem2, shm, seg, status, body, cacheVars>>

\* sem_wait(sem_queue)
LockQueue(w) ==
  /\ Goto(w, "lock", "check")
  /\ semQueue > 0
  /\ semQueue' = semQueue - 1
  /\ UNCHANGED <<alive, pool, raced, mq, sem1, sem2, shm, seg, path, status, body, cacheVars>>

\* steque_isempty: sem_post(sem_queue), sleep(1) and back to sem_wait.  N may be
\* 0 although the list is not empty: before the N++ of an enqueue that has linked
\* its node, and after a race.
PollQueue(w) ==
  /\ Goto(w, "check", "lock")
  /\ pool = {} \/ raced \/ Overlaps(w)
  /\ semQueue' = semQueue + 1
  /\ UNCHANGED <<alive, pool, raced, mq, sem1, sem2, shm, seg, path, status, body, cacheVars>>

\* Mutant of Pop: steque_front, the id stays in the queue
PopKeepsId(w) ==
  /\ Goto(w, "check", "send")
  /\ \E s \in pool : seg' = [seg EXCEPT ![w] = s]
  /\ semQueue' = semQueue + 1
  /\ UNCHANGED <<alive, pool, raced, mq, sem1, sem2, shm, path, status, body, cacheVars>>

\* steque_pop, sem_post(sem_queue)
Pop(w) ==
  /\ Goto(w, "check", "send")
  /\ \E s \in pool :
       /\ seg' = [seg EXCEPT ![w] = s]
       /\ ChangeQueue(w, pool \ {s})
  /\ semQueue' = semQueue + 1
  /\ UNCHANGED <<alive, mq, sem1, sem2, shm, path, status, body, cacheVars>>

\* The outcomes of a race that end the process, and with it every proxy worker:
\* steque_pop finds front = NULL although N # 0 ("Error: underflow in steque_pop."
\* and exit), or steque_enqueue dereferences a this->back that a pop has cleared.
Crash(w) ==
  /\ alive
  /\ pc[w] \in {"check", "enqueue", "enqueueNF"}
  /\ raced \/ Overlaps(w)
  /\ alive' = FALSE
  /\ UNCHANGED <<semQueue, pool, raced, mq, sem1, sem2, shm, pc, seg, path, status, body, cacheVars>>

\* mq_open, mq_send (which waits while the queue is full), sem_open
MqSend(w) ==
  /\ Goto(w, "send", "header")
  /\ Len(mq) < MQMax
  /\ mq' = Append(mq, [id |-> seg[w], path |-> path[w]])
  /\ UNCHANGED <<alive, semQueue, pool, raced, sem1, sem2, shm, seg, path, status, body, cacheVars>>

\* sem_wait(sem_1): the cache has answered
WaitHeader(w) ==
  /\ Goto(w, "header", "test")
  /\ sem1[seg[w]] > 0
  /\ sem1' = [sem1 EXCEPT ![seg[w]] = @ - 1]
  /\ UNCHANGED <<alive, semQueue, pool, raced, mq, sem2, shm, seg, path, status, body, cacheVars>>

\* Mutant of NotFound: no memset
NotFoundKeepsType(w) ==
  /\ Goto(w, "test", "enqueueNF")
  /\ shm[seg[w]].type = -1
  /\ UNCHANGED <<alive, semQueue, pool, raced, mq, sem1, sem2, shm, seg, path, status, body, cacheVars>>

\* msg->type == -1: memset, munmap, sem_close
NotFound(w) ==
  /\ Goto(w, "test", "enqueueNF")
  /\ shm[seg[w]].type = -1
  /\ shm' = [shm EXCEPT ![seg[w]] = ZeroMsg]
  /\ UNCHANGED <<alive, semQueue, pool, raced, mq, sem1, sem2, seg, path, status, body, cacheVars>>

\* gfs_sendheader(ctx, GF_OK, msg->file_len)
SendHeader(w) ==
  /\ Goto(w, "test", "loop")
  /\ shm[seg[w]].type # -1
  /\ status' = [status EXCEPT ![w] = "OK"]
  /\ UNCHANGED <<alive, semQueue, pool, raced, mq, sem1, sem2, shm, seg, path, body, cacheVars>>

\* while (bytes_transferred < msg->file_len) sem_wait(sem_1)
WaitChunk(w) ==
  /\ Goto(w, "loop", "copy")
  /\ Len(body[w]) < shm[seg[w]].fileLen
  /\ sem1[seg[w]] > 0
  /\ sem1' = [sem1 EXCEPT ![seg[w]] = @ - 1]
  /\ UNCHANGED <<alive, semQueue, pool, raced, mq, sem2, shm, seg, path, status, body, cacheVars>>

\* memcpy, gfs_send (its result is ignored), bytes_transferred += content_len
CopyChunk(w) ==
  /\ Goto(w, "copy", "post")
  /\ body' = [body EXCEPT ![w] = Received(@, shm[seg[w]])]
  /\ UNCHANGED <<alive, semQueue, pool, raced, mq, sem1, sem2, shm, seg, path, status, cacheVars>>

\* Mutant of PostFree: no sem_post
PostFreeForgotten(w) ==
  /\ Goto(w, "post", "loop")
  /\ UNCHANGED <<alive, semQueue, pool, raced, mq, sem1, sem2, shm, seg, path, status, body, cacheVars>>

\* sem_post(sem_2)
PostFree(w) ==
  /\ Goto(w, "post", "loop")
  /\ sem2' = [sem2 EXCEPT ![seg[w]] = @ + 1]
  /\ UNCHANGED <<alive, semQueue, pool, raced, mq, sem1, shm, seg, path, status, body, cacheVars>>

\* Mutant of EndLoop: one more sem_post(sem_2)
EndLoopPosts(w) ==
  /\ Goto(w, "loop", "enqueue")
  /\ Len(body[w]) >= shm[seg[w]].fileLen
  /\ shm' = [shm EXCEPT ![seg[w]] = ZeroMsg]
  /\ sem2' = [sem2 EXCEPT ![seg[w]] = @ + 1]
  /\ UNCHANGED <<alive, semQueue, pool, raced, mq, sem1, seg, path, status, body, cacheVars>>

\* end of the loop: memset, munmap, sem_close
EndLoop(w) ==
  /\ Goto(w, "loop", "enqueue")
  /\ Len(body[w]) >= shm[seg[w]].fileLen
  /\ shm' = [shm EXCEPT ![seg[w]] = ZeroMsg]
  /\ UNCHANGED <<alive, semQueue, pool, raced, mq, sem1, sem2, seg, path, status, body, cacheVars>>

\* steque_enqueue(shm_stq, id_ptr), without sem_queue: the new node is linked
\* and made the back of the list ...
Enqueue(w, from, to) ==
  /\ Goto(w, from, to)
  /\ ChangeQueue(w, pool \union {seg[w]})
  /\ UNCHANGED <<alive, semQueue, mq, sem1, sem2, shm, seg, path, status, body, cacheVars>>

\* ... and then counted (this->N++).
Count(w, from, to) ==
  /\ Goto(w, from, to)
  /\ ChangeQueue(w, pool)
  /\ UNCHANGED <<alive, semQueue, mq, sem1, sem2, shm, seg, path, status, body, cacheVars>>

\* gfs_sendheader(ctx, GF_FILE_NOT_FOUND, 0)
SendNotFound(w) ==
  /\ Goto(w, "sendNF", "return")
  /\ status' = [status EXCEPT ![w] = "NF"]
  /\ UNCHANGED <<alive, semQueue, pool, raced, mq, sem1, sem2, shm, seg, path, body, cacheVars>>

\* return return_value: the locals of the call are gone
Return(w) ==
  /\ Goto(w, "return", "idle")
  /\ seg' = [seg EXCEPT ![w] = NoSeg]
  /\ path' = [path EXCEPT ![w] = NoPath]
  /\ status' = [status EXCEPT ![w] = "none"]
  /\ body' = [body EXCEPT ![w] = << >>]
  /\ UNCHANGED <<alive, semQueue, pool, raced, mq, sem1, sem2, shm, cacheVars>>

ProxyStep(w) ==
  \/ LockQueue(w) \/ PollQueue(w) \/ Pop(w) \/ Crash(w)
  \/ MqSend(w) \/ WaitHeader(w) \/ NotFound(w) \/ SendHeader(w)
  \/ WaitChunk(w) \/ CopyChunk(w) \/ PostFree(w) \/ EndLoop(w)
  \/ Enqueue(w, "enqueue", "count") \/ Enqueue(w, "enqueueNF", "countNF")
  \/ Count(w, "count", "return") \/ Count(w, "countNF", "sendNF")
  \/ SendNotFound(w) \/ Return(w)
-----------------------------------------------------------------------------
(* worker_thread of simplecached.c, a cache worker c *)

CGoto(c, from, to) == cpc[c] = from /\ cpc' = [cpc EXCEPT ![c] = to]

\* mq_receive, sem_open, shm_open
MqReceive(c) ==
  /\ CGoto(c, "receive", "lookup")
  /\ mq # << >>
  /\ job' = [job EXCEPT ![c] = Head(mq)]
  /\ mq' = Tail(mq)
  /\ UNCHANGED <<proxyVars, sem1, sem2, shm, offset, nread>>

\* simplecache_get returns -1: msg->type = -1
Miss(c) ==
  /\ CGoto(c, "lookup", "postNF")
  /\ job[c].path \notin Cached
  /\ shm' = [shm EXCEPT ![job[c].id].type = -1]
  /\ UNCHANGED <<proxyVars, mq, sem1, sem2, job, offset, nread>>

\* fstat fails: the thread returns SERVER_FAILURE and answers nobody
FstatFail(c) ==
  /\ CGoto(c, "lookup", "dead")
  /\ job[c].path \in FstatFails
  /\ UNCHANGED <<proxyVars, mq, sem1, sem2, shm, job, offset, nread>>

\* Mutant of Hit: msg->file_len is not set
HitNoLength(c) ==
  /\ CGoto(c, "lookup", "postHeader")
  /\ job[c].path \in Cached
  /\ shm' = [shm EXCEPT ![job[c].id].type = 1]
  /\ UNCHANGED <<proxyVars, mq, sem1, sem2, job, offset, nread>>

\* simplecache_get finds the file: type = 1, file_len = size, offset = 0
Hit(c) ==
  /\ CGoto(c, "lookup", "postHeader")
  /\ job[c].path \in Cached
  /\ shm' = [shm EXCEPT ![job[c].id].type = 1,
                        ![job[c].id].fileLen = FileLen[job[c].path]]
  /\ UNCHANGED <<proxyVars, mq, sem1, sem2, job, offset, nread>>

\* end of an iteration of while (1)
NextJob(c) ==
  /\ job' = [job EXCEPT ![c] = NoJob]
  /\ offset' = [offset EXCEPT ![c] = 0]
  /\ nread' = [nread EXCEPT ![c] = 0]

\* sem_post(sem_1), sem_close, continue
PostMiss(c) ==
  /\ CGoto(c, "postNF", "receive")
  /\ sem1' = [sem1 EXCEPT ![job[c].id] = @ + 1]
  /\ NextJob(c)
  /\ UNCHANGED <<proxyVars, mq, sem2, shm>>

\* sem_post(sem_1)
PostHeader(c) ==
  /\ CGoto(c, "postHeader", "read")
  /\ sem1' = [sem1 EXCEPT ![job[c].id] = @ + 1]
  /\ UNCHANGED <<proxyVars, mq, sem2, shm, job, offset, nread>>

\* while ((bytes_read = pread(...)) > 0)
ReadChunk(c) ==
  /\ CGoto(c, "read", "waitFree")
  /\ PRead(job[c].path, offset[c]) > 0
  /\ nread' = [nread EXCEPT ![c] = PRead(job[c].path, offset[c])]
  /\ UNCHANGED <<proxyVars, mq, sem1, sem2, shm, job, offset>>

\* end of file: sem_close, free
EndOfFile(c) ==
  /\ CGoto(c, "read", "receive")
  /\ PRead(job[c].path, offset[c]) <= 0
  /\ NextJob(c)
  /\ UNCHANGED <<proxyVars, mq, sem1, sem2, shm>>

\* Mutant of WaitFree: the cache does not wait for the proxy
WaitFreeSkipped(c) ==
  /\ CGoto(c, "waitFree", "write")
  /\ UNCHANGED <<proxyVars, mq, sem1, sem2, shm, job, offset, nread>>

\* sem_wait(sem_2): the proxy has consumed the last chunk
WaitFree(c) ==
  /\ CGoto(c, "waitFree", "write")
  /\ sem2[job[c].id] > 0
  /\ sem2' = [sem2 EXCEPT ![job[c].id] = @ - 1]
  /\ UNCHANGED <<proxyVars, mq, sem1, shm, job, offset, nread>>

\* Mutant of WriteChunk: offset is not advanced
WriteChunkNoAdvance(c) ==
  /\ CGoto(c, "write", "postChunk")
  /\ shm' = [shm EXCEPT ![job[c].id].src = job[c].path,
                        ![job[c].id].off = offset[c],
                        ![job[c].id].contentLen = nread[c]]
  /\ UNCHANGED <<proxyVars, mq, sem1, sem2, job, offset, nread>>

\* memset, memcpy, content_len = bytes_read, offset += bytes_read
WriteChunk(c) ==
  /\ CGoto(c, "write", "postChunk")
  /\ shm' = [shm EXCEPT ![job[c].id].src = job[c].path,
                        ![job[c].id].off = offset[c],
                        ![job[c].id].contentLen = nread[c]]
  /\ offset' = [offset EXCEPT ![c] = @ + nread[c]]
  /\ UNCHANGED <<proxyVars, mq, sem1, sem2, job, nread>>

\* sem_post(sem_1)
PostChunk(c) ==
  /\ CGoto(c, "postChunk", "read")
  /\ sem1' = [sem1 EXCEPT ![job[c].id] = @ + 1]
  /\ UNCHANGED <<proxyVars, mq, sem2, shm, job, offset, nread>>

CacheStep(c) ==
  \/ MqReceive(c) \/ Miss(c) \/ FstatFail(c) \/ Hit(c) \/ PostMiss(c)
  \/ PostHeader(c) \/ ReadChunk(c) \/ EndOfFile(c) \/ WaitFree(c)
  \/ WriteChunk(c) \/ PostChunk(c)

Next ==
  \/ \E w \in ProxyWorkers : Begin(w) \/ ProxyStep(w)
  \/ \E c \in CacheWorkers : CacheStep(c)

Spec == Init /\ [][Next]_vars

\* Threads run.  mq_send is strongly fair because the kernel serves the tasks that
\* wait for room in a queue in order of arrival.  Nothing is assumed about requests
\* (Begin), which cache worker receives a message, the order in which sem_queue is
\* granted, or the outcome of a race.
Fairness ==
  /\ \A w \in ProxyWorkers : WF_vars(ProxyStep(w)) /\ SF_vars(MqSend(w))
  /\ \A c \in CacheWorkers : WF_vars(CacheStep(c))

FairSpec == Spec /\ Fairness
-----------------------------------------------------------------------------
(* Properties *)

\* Every variable has its type: semaphore values, program counters and the
\* fields of struct message.
TypeOK ==
  /\ alive \in BOOLEAN
  /\ semQueue \in {0, 1}
  /\ pool \in SUBSET Segments
  /\ raced \in BOOLEAN
  /\ mq \in Seq(Job) /\ Len(mq) <= MQMax
  /\ sem1 \in [Segments -> 0..2]
  /\ sem2 \in [Segments -> 0..1]
  /\ shm \in [Segments -> Message]
  /\ pc \in [ProxyWorkers -> ProxyPC]
  /\ seg \in [ProxyWorkers -> Segments \union {NoSeg}]
  /\ path \in [ProxyWorkers -> Paths \union {NoPath}]
  /\ status \in [ProxyWorkers -> {"none", "OK", "NF"}]
  /\ body \in [ProxyWorkers -> Seq((Paths \union {NoPath}) \X Nat)]
  /\ cpc \in [CacheWorkers -> CachePC]
  /\ job \in [CacheWorkers -> Job \union {NoJob}]
  /\ offset \in [CacheWorkers -> Nat]
  /\ nread \in [CacheWorkers -> Nat]

\* The bytes handed to gfs_send are, in order and without a gap, a prefix of the
\* requested file, whatever the interleaving of the two processes and whoever
\* used the segment before (handle_with_cache.c, the loop over sem_1/sem_2).
DeliveredPrefix ==
  \A w \in ProxyWorkers : \A i \in 1..Len(body[w]) : body[w][i] = Byte(path[w], i - 1)

\* A handler that returns has answered its own request in full: the whole of a
\* cached file after an OK header, FILE_NOT_FOUND and no byte for a miss.
AnsweredInFull ==
  \A w \in ProxyWorkers : pc[w] = "return" =>
    \/ /\ path[w] \in Cached
       /\ status[w] = "OK"
       /\ Len(body[w]) = FileLen[path[w]]
    \/ /\ path[w] \notin Cached
       /\ status[w] = "NF"
       /\ body[w] = << >>

\* A segment nobody holds, and one about to be given back, is as main created it:
\* sem_1 = 0, sem_2 = 1, zeroed, and named in no message, although a cache worker
\* that has sent its last chunk may not have noticed the end of the file yet.
SegmentRestored ==
  \A s \in Segments :
    (\A w \in ProxyWorkers : Holds(w, s) => pc[w] \in {"send", "enqueue", "enqueueNF"})
      => /\ sem1[s] = 0
         /\ sem2[s] = 1
         /\ shm[s] = ZeroMsg
         /\ \A i \in 1..Len(mq) : mq[i].id # s

\* At most one worker holds a segment, and a held segment cannot be popped, even
\* after steque_enqueue has raced.
Exclusive ==
  \A w \in ProxyWorkers, s \in Segments : Holds(w, s) =>
    /\ s \notin pool
    /\ \A u \in ProxyWorkers : Holds(u, s) => u = w

\* The cache never writes the content of a segment while a proxy worker copies
\* it, zeroes it or has put it back (memcpy and memset against memcpy).
NoTornContent ==
  \A c \in CacheWorkers : cpc[c] = "write" =>
    \E w \in ProxyWorkers :
      /\ Holds(w, job[c].id)
      /\ path[w] = job[c].path
      /\ pc[w] \in {"header", "test", "loop"}
      /\ Len(body[w]) = offset[c]

\* A worker that has popped a segment gives it back, unless the proxy exits or a
\* cache worker has ended after a failing fstat: no wait for sem_1, sem_2 or room
\* in the queue lasts forever.
SegmentReturned ==
  \A w \in ProxyWorkers :
    (alive /\ pc[w] \in Holding)
      ~> (~alive \/ pc[w] \notin Holding \/ \E c \in CacheWorkers : cpc[c] = "dead")
=============================================================================
