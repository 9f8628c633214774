--------------------------- MODULE ShmTransferInv ---------------------------
(***************************************************************************)
(* The inductive invariant of ShmTransfer.  Per segment, the owner (a      *)
(* proxy worker), the message that names it and the cache worker that      *)
(* serves it move through the protocol together; the invariant says which  *)
(* combinations of their states occur and what the two semaphores and the  *)
(* segment hold in each.                                                   *)
(***************************************************************************)
EXTENDS ShmTransfer

\* Cache worker c has handed over the last chunk and only has to see the end of
\* the file; its segment may belong to another request by now.
Lags(c) == cpc[c] = "read" /\ offset[c] = FileLen[job[c].path]

Serves(c, s) == cpc[c] # "receive" /\ job[c].id = s /\ ~Lags(c)

Fresh(s) == sem1[s] = 0 /\ sem2[s] = 1 /\ shm[s] = ZeroMsg

\* Only the holder of sem_queue is between sem_wait and sem_post.
QueueLock ==
  /\ \A w \in ProxyWorkers : pc[w] = "check" => semQueue = 0
  /\ \A u, w \in ProxyWorkers : pc[u] = "check" /\ pc[w] = "check" => u = w

\* The locals of a proxy worker.
ProxyLocal(w) ==
  /\ pc[w] \in Holding => seg[w] \in Segments
  /\ pc[w] # "idle" => path[w] \in Paths
  /\ pc[w] \in {"idle", "lock", "check", "send", "header", "test"} =>
       body[w] = << >> /\ status[w] = "none"
  /\ pc[w] \in {"loop", "copy", "post", "enqueue", "count"} =>
       path[w] \in Cached /\ status[w] = "OK"
  /\ pc[w] \in {"enqueue", "count"} => Len(body[w]) = FileLen[path[w]]
  /\ pc[w] \in {"enqueueNF", "countNF", "sendNF"} =>
       path[w] \notin Cached /\ body[w] = << >> /\ status[w] = "none"

\* The locals of a cache worker.
CacheLocal(c) ==
  /\ cpc[c] # "receive" => job[c] \in Job
  /\ cpc[c] \in {"receive", "lookup", "postNF", "postHeader", "dead"} => offset[c] = 0
  /\ cpc[c] = "postNF" => job[c].path \notin Cached
  /\ cpc[c] \in {"postHeader", "read", "waitFree", "write", "postChunk"} =>
       job[c].path \in Cached /\ offset[c] <= FileLen[job[c].path]
  /\ cpc[c] \in {"waitFree", "write"} =>
       nread[c] = PRead(job[c].path, offset[c]) /\ nread[c] > 0

\* Before the proxy worker has consumed the header, sem_1 counts it too.
HeaderToken(w) == IF pc[w] = "header" THEN 1 ELSE 0

\* The segment holds the chunk that follows what w has received and ends at o.
Chunk(w, o) ==
  LET m == shm[seg[w]] IN
  /\ m.src = path[w]
  /\ m.off = Len(body[w])
  /\ m.contentLen > 0
  /\ o = Len(body[w]) + m.contentLen

\* The cache has written the file of w up to offset o.  Exactly one of: the
\* content is free, it is full, w is reading it, w has read it.
Slot(w, o) ==
  LET s == seg[w] IN
  \/ /\ pc[w] \in {"header", "test", "loop"}
     /\ sem1[s] = HeaderToken(w) /\ sem2[s] = 1 /\ Len(body[w]) = o
  \/ /\ pc[w] \in {"header", "test", "loop"}
     /\ sem1[s] = HeaderToken(w) + 1 /\ sem2[s] = 0 /\ Chunk(w, o)
  \/ /\ pc[w] = "copy"
     /\ sem1[s] = 0 /\ sem2[s] = 0 /\ Chunk(w, o)
  \/ /\ pc[w] = "post"
     /\ sem1[s] = 0 /\ sem2[s] = 0 /\ Len(body[w]) = o

\* The header fields of the segment of w describe its file.
HeaderOf(w) ==
  /\ path[w] \in Cached
  /\ shm[seg[w]].type = 1
  /\ shm[seg[w]].fileLen = FileLen[path[w]]

\* The states of owner w and of cache worker c that serves it.
Pair(w, c) ==
  LET s == seg[w] IN
  /\ path[w] = job[c].path
  /\ cpc[c] \in {"lookup", "dead"} => pc[w] = "header" /\ Fresh(s)
  /\ cpc[c] = "postNF" =>
       /\ pc[w] = "header"
       /\ sem1[s] = 0 /\ sem2[s] = 1 /\ shm[s] = [ZeroMsg EXCEPT !.type = -1]
  /\ cpc[c] = "postHeader" =>
       pc[w] = "header" /\ sem1[s] = 0 /\ sem2[s] = 1 /\ HeaderOf(w)
  /\ cpc[c] \in {"read", "waitFree"} => HeaderOf(w) /\ Slot(w, offset[c])
  /\ cpc[c] \in {"write", "postChunk"} =>
       /\ HeaderOf(w)
       /\ pc[w] \in {"header", "test", "loop"}
       /\ sem1[s] = HeaderToken(w) /\ sem2[s] = 0
  /\ cpc[c] = "write" => Len(body[w]) = offset[c]
  /\ cpc[c] = "postChunk" => Chunk(w, offset[c])

\* The cache is done with the request of w.
Served(w) ==
  LET s == seg[w] IN
  \/ /\ path[w] \notin Cached
     /\ pc[w] \in {"header", "test"}
     /\ sem1[s] = HeaderToken(w) /\ sem2[s] = 1
     /\ shm[s] = [ZeroMsg EXCEPT !.type = -1]
  \/ HeaderOf(w) /\ Slot(w, FileLen[path[w]])

\* The program counters between mq_send and the end of the transfer.
Transferring == {"header", "test", "loop", "copy", "post"}

\* A queued message names a segment somebody holds, ...
QueuedHeld ==
  \A i \in 1..Len(mq) : \E w \in ProxyWorkers : Holds(w, mq[i].id)

\* ... its owner waits for the header of the path in the message, ...
QueuedWaits ==
  \A i \in 1..Len(mq), w \in ProxyWorkers : Holds(w, mq[i].id) =>
    pc[w] = "header" /\ path[w] = mq[i].path /\ Fresh(seg[w])

\* ... it is the only message that names the segment, ...
QueuedOnce == \A i, j \in 1..Len(mq) : mq[i].id = mq[j].id => i = j

\* ... and no cache worker serves the segment yet.
QueuedUnserved == \A i \in 1..Len(mq), c \in CacheWorkers : ~Serves(c, mq[i].id)

\* A segment that is served is held, ...
ServedHeld ==
  \A c \in CacheWorkers, s \in Segments : Serves(c, s) =>
    \E w \in ProxyWorkers : Holds(w, s)

\* ... its owner and the cache worker are at matching points, ...
ServedPair ==
  \A c \in CacheWorkers, w \in ProxyWorkers :
    pc[w] \in Holding /\ Serves(c, seg[w]) => pc[w] \in Transferring /\ Pair(w, c)

\* ... and no other cache worker serves it.
ServedOnce ==
  \A b, c \in CacheWorkers, s \in Segments : Serves(b, s) /\ Serves(c, s) => b = c

\* A segment is as main created it while nobody holds it, ...
UnheldFresh ==
  \A s \in Segments : (\A w \in ProxyWorkers : ~Holds(w, s)) => Fresh(s)

\* ... before its owner sends the message and after the end of the transfer.
ParkedFresh ==
  \A w \in ProxyWorkers : pc[w] \in {"send", "enqueue", "enqueueNF"} => Fresh(seg[w])

\* A request is in the queue, with a cache worker, or served.
Accounted ==
  \A w \in ProxyWorkers : pc[w] \in Transferring =>
    \/ \E i \in 1..Len(mq) : mq[i].id = seg[w]
    \/ \E c \in CacheWorkers : Serves(c, seg[w])
    \/ Served(w)

Protocol ==
  /\ QueuedHeld /\ QueuedWaits /\ QueuedOnce /\ QueuedUnserved
  /\ ServedHeld /\ ServedPair /\ ServedOnce
  /\ UnheldFresh /\ ParkedFresh
  /\ Accounted

Local ==
  /\ QueueLock
  /\ \A w \in ProxyWorkers : ProxyLocal(w)
  /\ \A c \in CacheWorkers : CacheLocal(c)

\* The inductive invariant.  AnsweredInFull, DeliveredPrefix and Exclusive are
\* among its conjuncts; SegmentRestored and NoTornContent follow from Protocol.
IInv ==
  /\ TypeOK
  /\ Local
  /\ AnsweredInFull
  /\ DeliveredPrefix
  /\ Exclusive
  /\ Protocol
=============================================================================
