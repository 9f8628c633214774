---------------------------- MODULE GetFileServer ----------------------------
(***************************************************************************)
(* The multithreaded getfile server (multithreading/mtgf): gfserver_main.c, *)
(* handler.c, content.c and the steque they share.  The gfserver library   *)
(* calls gfs_handler for every request; the handler queues the request and *)
(* signals cond_server.  A worker pops it, looks the path up in the sorted *)
(* content list, and sends a header and the file.  The files are opened    *)
(* once, by content_init, and other programs may change them afterwards.   *)
(***************************************************************************)
EXTENDS Integers, Sequences, FiniteSets, SortedIndex

CONSTANTS
  Workers,      \* nthreads
  Requests,
  Keys,         \* paths, as numbers in the order of strcmp
  Contents,     \* content files to start with: the list of keys and the sizes of the files
  Sizes,        \* sizes a file may get
  BufSize,      \* BUFSIZE
  MaxFaults,    \* bound on changed files and failing calls of fstat
  MaxSpurious   \* bound on spurious wake-ups

ASSUME ServerAssumption ==
  /\ Workers # {} /\ IsFiniteSet(Workers)
  /\ Keys \subseteq Nat /\ Sizes \subseteq Nat
  /\ \A c \in Contents : c.list \in Seq(Keys) /\ c.size \in [Keys -> Nat]
  /\ BufSize \in Nat \ {0} /\ MaxFaults \in Nat /\ MaxSpurious \in Nat

VARIABLES
  items,      \* content.c: the keys, sorted
  size,       \* size of the file of a key
  path,       \* path of a request
  queue,      \* the steque
  mutex,      \* m_server: {} or the thread that holds it
  boss,       \* the request whose handler has yet to signal, or {}
  arrived,    \* requests handed to gfs_handler
  pc, item,   \* worker_thread: where, and item_info ({} or one request)
  length,     \* file_length
  header,     \* header of a request: status and length announced
  body,       \* bytes of content sent for a request
  done,       \* requests a worker has dealt with
  changed,    \* history: keys whose file was changed
  faults, spurious,
  exited

files == <<items, path>>
workerVars == <<pc, item, length>>
replyVars == <<header, body, done>>
budget == <<faults, spurious>>
vars == <<files, size, queue, mutex, boss, arrived, workerVars, replyVars, changed, budget, exited>>

NoHeader == [status |-> "none", len |-> 0]
NotFound == [status |-> "GF_FILE_NOT_FOUND", len |-> 0]
Ok(n) == [status |-> "GF_OK", len |-> n]

\* main: content_init sorts what it read; steque_init; init_threads
Init ==
  /\ \E c \in Contents : items \in Sortings(c.list) /\ size = c.size
  /\ path \in [Requests -> Keys]
  /\ queue = << >> /\ mutex = {} /\ boss = {} /\ arrived = {}
  /\ pc = [w \in Workers |-> "lock"]
  /\ item = [w \in Workers |-> {}]
  /\ length = [w \in Workers |-> 0]
  /\ header = [r \in Requests |-> NoHeader]
  /\ body = [r \in Requests |-> 0]
  /\ done = {} /\ changed = {} /\ faults = 0 /\ spurious = 0 /\ exited = FALSE
-----------------------------------------------------------------------------
(* content.c *)

\* Mutant of content_get: the last entry is never looked at
content_get_short(key) == Finds(SubSeq(items, 1, Len(items) - 1), key)

\* A descriptor stands for its key: TRUE if there is one.
content_get(key) == Finds(items, key)
-----------------------------------------------------------------------------
(* The boss: gfserver_serve, which calls gfs_handler *)

\* gfs_handler: enqueue under m_server.  The context is the worker's from now on.
Handle(r) ==
  /\ ~exited /\ boss = {} /\ r \notin arrived
  /\ mutex = {}
  /\ queue' = Append(queue, r)
  /\ arrived' = arrived \union {r}
  /\ boss' = {r}
  /\ UNCHANGED <<files, size, mutex, workerVars, replyVars, changed, budget, exited>>

\* pthread_cond_signal wakes one waiter, if there is any.
Woken(pcs) ==
  LET waiting == {w \in Workers : pcs[w] = "wait"} IN
  IF waiting = {} THEN {pcs}
  ELSE {[pcs EXCEPT ![w] = "lock"] : w \in waiting}

\* Mutant of HandlerSignal: nobody is woken
HandlerSignalForgotten ==
  /\ ~exited /\ boss # {}
  /\ boss' = {}
  /\ UNCHANGED <<files, size, queue, mutex, arrived, workerVars, replyVars, changed, budget, exited>>

HandlerSignal ==
  /\ ~exited /\ boss # {}
  /\ pc' \in Woken(pc)
  /\ boss' = {}
  /\ UNCHANGED <<files, size, queue, mutex, arrived, item, length, replyVars, changed, budget, exited>>
-----------------------------------------------------------------------------
(* worker_thread *)

Lock(w) ==
  /\ pc[w] = "lock" /\ mutex = {}
  /\ mutex' = {w}
  /\ pc' = [pc EXCEPT ![w] = "test"]
  /\ UNCHANGED <<files, size, queue, boss, arrived, item, length, replyVars, changed, budget, exited>>

\* pthread_cond_wait releases the mutex
Wait(w) ==
  /\ pc[w] = "test" /\ queue = << >>
  /\ mutex' = {}
  /\ pc' = [pc EXCEPT ![w] = "wait"]
  /\ UNCHANGED <<files, size, queue, boss, arrived, item, length, replyVars, changed, budget, exited>>

WakeUp(w) ==
  /\ pc[w] = "wait" /\ spurious < MaxSpurious
  /\ spurious' = spurious + 1
  /\ pc' = [pc EXCEPT ![w] = "lock"]
  /\ UNCHANGED <<files, size, queue, mutex, boss, arrived, item, length, replyVars, changed, faults, exited>>

\* Mutant of Pop: the front is read and not removed
PopKeeps(w) ==
  /\ pc[w] = "test" /\ queue # << >>
  /\ item' = [item EXCEPT ![w] = {Head(queue)}]
  /\ mutex' = {}
  /\ pc' = [pc EXCEPT ![w] = "signal"]
  /\ UNCHANGED <<files, size, queue, boss, arrived, length, replyVars, changed, budget, exited>>

\* steque_pop and unlock
Pop(w) ==
  /\ pc[w] = "test" /\ queue # << >>
  /\ item' = [item EXCEPT ![w] = {Head(queue)}]
  /\ queue' = Tail(queue)
  /\ mutex' = {}
  /\ pc' = [pc EXCEPT ![w] = "signal"]
  /\ UNCHANGED <<files, size, boss, arrived, length, replyVars, changed, budget, exited>>

Signal(w) ==
  /\ pc[w] = "signal"
  /\ pc' \in Woken([pc EXCEPT ![w] = "lookup"])
  /\ UNCHANGED <<files, size, queue, mutex, boss, arrived, item, length, replyVars, changed, budget, exited>>

\* The worker is through with its request and starts over.
Finished(w) ==
  /\ pc' = [pc EXCEPT ![w] = "lock"]
  /\ item' = [item EXCEPT ![w] = {}]
  /\ done' = done \union item[w]

\* content_get returned -1
SendNotFound(w) ==
  /\ pc[w] = "lookup"
  /\ \A r \in item[w] : ~content_get(path[r])
  /\ header' = [r \in Requests |-> IF r \in item[w] THEN NotFound ELSE header[r]]
  /\ Finished(w)
  /\ UNCHANGED <<files, size, queue, mutex, boss, arrived, length, body, changed, budget, exited>>

\* fstat failed: no answer at all
FstatFails(w) ==
  /\ pc[w] = "lookup" /\ faults < MaxFaults
  /\ \A r \in item[w] : content_get(path[r])
  /\ faults' = faults + 1
  /\ Finished(w)
  /\ UNCHANGED <<files, size, queue, mutex, boss, arrived, length, header, body, changed, spurious, exited>>

\* fstat and the OK header
SendHeader(w) ==
  /\ pc[w] = "lookup"
  /\ \E r \in item[w] :
       /\ content_get(path[r])
       /\ length' = [length EXCEPT ![w] = size[path[r]]]
       /\ header' = [header EXCEPT ![r] = Ok(size[path[r]])]
  /\ pc' = [pc EXCEPT ![w] = "send"]
  /\ UNCHANGED <<files, size, queue, mutex, boss, arrived, item, body, done, changed, budget, exited>>

\* What pread of a file of n bytes at offset off returns
pread(n, off) == IF off >= n THEN 0 ELSE IF n - off < BufSize THEN n - off ELSE BufSize

\* pread and gfs_send.  The result is not compared with what is left of file_length.
SendChunk(w) ==
  /\ pc[w] = "send"
  /\ \E r \in item[w] :
       /\ body[r] < length[w]
       /\ body' = [body EXCEPT ![r] = @ + pread(size[path[r]], @)]
  /\ UNCHANGED <<files, size, queue, mutex, boss, arrived, workerVars, header, done, changed, budget, exited>>

\* The loop ends: free(item_info)
SendEnd(w) ==
  /\ pc[w] = "send"
  /\ \A r \in item[w] : body[r] >= length[w]
  /\ Finished(w)
  /\ UNCHANGED <<files, size, queue, mutex, boss, arrived, length, header, body, changed, budget, exited>>

Work(w) ==
  /\ ~exited
  /\ \/ Lock(w) \/ Wait(w) \/ Pop(w) \/ Signal(w)
     \/ SendNotFound(w) \/ SendHeader(w) \/ SendChunk(w) \/ SendEnd(w)
-----------------------------------------------------------------------------
(* The environment *)

\* Another program truncates or extends a file that the server has open.
ChangeFile(k) ==
  /\ ~exited /\ faults < MaxFaults
  /\ faults' = faults + 1
  /\ \E n \in Sizes \ {size[k]} : size' = [size EXCEPT ![k] = n]
  /\ changed' = changed \union {k}
  /\ UNCHANGED <<files, queue, mutex, boss, arrived, workerVars, replyVars, spurious, exited>>

\* SIGINT or SIGTERM: _sig_handler
SigExit ==
  /\ ~exited
  /\ exited' = TRUE
  /\ UNCHANGED <<files, size, queue, mutex, boss, arrived, workerVars, replyVars, changed, budget>>

Next ==
  \/ \E r \in Requests : Handle(r)
  \/ HandlerSignal
  \/ \E w \in Workers : Work(w)
  \/ ~exited /\ \E w \in Workers : WakeUp(w) \/ FstatFails(w)
  \/ \E k \in Keys : ChangeFile(k)
  \/ SigExit

Spec == Init /\ [][Next]_vars

\* Every thread keeps running; nobody holds m_server for long.
FairSpec == Spec /\ WF_vars(HandlerSignal) /\ \A w \in Workers : WF_vars(Work(w))
-----------------------------------------------------------------------------
(* Properties *)

\* A request is in exactly one place: in the queue, with one worker, or done.  Two
\* workers that shared a context would mix two answers on one connection, and a
\* request that is in no place would never be answered.
OnePlace ==
  \A r \in Requests :
    LET queued == {i \in 1..Len(queue) : queue[i] = r}
        held == {w \in Workers : r \in item[w]}
    IN Cardinality(queued) + Cardinality(held) + (IF r \in done THEN 1 ELSE 0)
         = (IF r \in arrived THEN 1 ELSE 0)

\* The answer is right: "not found" exactly for paths outside the content file, and
\* otherwise exactly as many bytes as the header announced, unless the file was changed
\* while it was open.  (A file that grows after fstat makes the server send more than it
\* announced.)
RightAnswer ==
  \A r \in Requests :
    LET known == path[r] \in Range(items) IN
    /\ header[r] = NotFound => ~known
    /\ header[r].status = "GF_OK" => known
    /\ r \in done /\ ~known => header[r] = NotFound
    /\ (header[r].status = "GF_OK" /\ path[r] \notin changed) =>
         /\ body[r] <= size[path[r]]
         /\ header[r].len = size[path[r]]
         /\ r \in done => body[r] = size[path[r]]

\* A worker whose file became shorter than it announced reads 0 bytes forever.
Stuck(w) == pc[w] = "send" /\ \E r \in item[w] : body[r] >= size[path[r]] /\ body[r] < length[w]

\* Every request is dealt with as long as a worker is left that is not stuck with a
\* truncated file: no wake-up is lost between the handler and the workers, and no
\* worker keeps a request for itself.
Served ==
  \A r \in Requests :
    (r \in arrived) ~> (r \in done \/ exited \/ (\E w \in Workers : r \in item[w] /\ Stuck(w))
                          \/ \A w \in Workers : Stuck(w))
=============================================================================
