# TLA+ verification of Multithreading_IPC_GRPC

The repository holds three systems written in C and C++: getfile (a
multithreaded file client and server over TCP), a web proxy with a cache daemon
that talk through POSIX shared memory, and a distributed file system over gRPC.
This directory models them in TLA+, model-checks the models with TLC, and proves
with TLAPS, for every size, all the safety properties the runs check: of the
transfer through shared memory, the pool of segments and the restarts of proxy and
cache; of the write lock, the synchronisation, the callbacks and the first version
of the file system; of the getfile client, the getfile server and the programs over
TCP.

## 1. Inventory

### ipc: proxy and cache daemon

*State.* Per segment: a `struct message` in shared memory (`/shm_<id>`), two
semaphores `/sem_1_<id>` (initially 0) and `/sem_2_<id>` (initially 1). Global:
the message queue `/message_channel`, the semaphore `/sem_queue`, and in the
proxy process a steque of free segment ids.

*Operations.* `handle_with_cache` (proxy worker): pop an id, send `[id, path]`,
wait for the header, copy chunks, zero the segment, enqueue the id.
`worker_thread` of `simplecached.c` (cache worker): receive, look the path up,
write the header, write chunks. `main` of both programs, signal handlers.

*Interaction.* The two processes share the segments, semaphores and the message
queue; the proxy workers share the steque.

*Hard.* Who may touch a segment is encoded in semaphore values that are never
reset; the cache notices the end of a file after the proxy may already have
given the segment away; the queue is bounded; `steque_enqueue` runs without the
semaphore that protects `steque_pop`; either process may die and come back.

*Correct when* every client gets its own file in full and in order, a segment
belongs to one request at a time and is clean when it changes hands, and nobody
waits for ever.

### grpc: distributed file system

*State.* Server: the mounted directory, `write_map` (file to client), a queue
of callback requests. Client: its mounted directory, a mutex between the
inotify watcher thread and the async thread, a completion queue.

*Operations.* RPCs `WriteLock`, `StoreFile`, `FetchFile`, `DeleteFile`,
`ListFile`, `StatusFile`, `CallbackList`; client operations `Store`, `Fetch`,
`Delete`, `List`, `Stat`, `HandleCallbackList`, the inotify callback. Part 1 has
the same calls without locks and callbacks.

*Hard.* Every call has a deadline after which the client goes on while the
handler still runs; locks are taken in one RPC and released in another; output
is buffered; fetches take no lock; fetched files trigger the watcher.

*Correct when* one client writes a file at a time, files are never a mixture,
locks are released, and directories converge.

### multithreading: getfile

*State.* Client: a steque of requests under a mutex and a condition variable,
the counter of `localPath`, the global `returncode`. Server: the same kind of
queue of contexts. Library: sockets and header buffers.

*Operations.* Boss and worker loops of `gfclient_download.c` and
`gfserver_main.c`, `gfs_handler`, `gfc_perform`, `gfserver_serve`,
`content_get`, `workload_get_path`; the simple programs `echo` and `transfer`.

*Hard.* Lost wakeups, termination by a `Done` item, unprotected globals, headers
split by TCP, short files.

*Correct when* every request is processed once, the client terminates, and every
file that was received completely is kept.

## 2. Modules

| module | what it models |
| --- | --- |
| `ShmTransfer` | `handle_with_cache` against `worker_thread` of `simplecached.c` |
| `ShmTransferInv` | its inductive invariant |
| `ShmTransferProofs` | the theorems and their proofs |
| `SegmentAllocator` | abstract: what the pool of segments promises |
| `SegmentPool` | the steque and its unprotected enqueue, statement by statement |
| `IpcRestart` | starts, signals and crashes of proxy and cache daemon |
| `DfsWriteLock` | part 2: `WriteLock`, `StoreFile`, `DeleteFile`, and the client's `Store`, `Delete` |
| `DfsSync` | part 2: mounted clients, `Fetch`, the watcher, `HandleCallbackList` |
| `DfsCallbacks` | part 2: the asynchronous `CallbackList` service |
| `DfsPart1` | part 1: the whole service and its client |
| `GetFileClient` | boss and workers of `mtgf/gfclient_download.c` |
| `GetFileServer` | handler and workers of `mtgf/gfserver_main.c` |
| `StreamPrograms` | `echo`, `transfer` and the library `gflib` over TCP |
| `SegmentPoolProofs`, `IpcRestartProofs`, `DfsWriteLockProofs`, `DfsSyncProofs`, `DfsCallbacksProofs` | inductive invariant, theorems and proofs of the module they are named after |
| `GetFileProofs` | the same for `GetFileClient` and, below it, `StreamPrograms` |
| `ServerProofs` | the same for `GetFileServer` and, below it, `DfsPart1` |
| `SortedIndex` | the sorted list of `content.c` and `simplecache.c` and its bisection |
| `MC...` | constants and symmetry for TLC |

The modules compose by levels of detail. `SegmentPool` has the statements of the
steque, implements `SegmentAllocator` with losses (`ImplementsLossyPool`) and is exact
while operations do not overlap (`ExactWhenSerial`); `ShmTransfer` takes over what
these two properties allow as a nondeterministic choice (`ChangeQueue`), which covers
everything the statements may do to the set of free ids.
`IpcRestart` is the transfer with coarser steps and processes that come and go.
`DfsWriteLock` has every step of the lock and the deadlines; `DfsSync` takes what
the lock achieves in time for granted and adds readers, watchers and replies;
`DfsCallbacks` says where these replies come from. `GetFileServer` and
`GetFileClient` are the threads around the connections of `StreamPrograms`.
`StreamPrograms` and `DfsPart1` name their specifications `StreamSpec` and
`Part1Spec`, because their proofs share a module with those of another one.

Several modules carry a history variable (`raced`, `late`, `overtaken`, `missed`,
`disturbed`, `removed`, `skipped`, `stale`, `orphan`, `overlapped`, `changed`, `seen`,
`writers`, `split`, `behind`): the code has known ways to go wrong, the models take
them, and the history variable marks exactly that moment, so that a property says
what holds as long as it has not come. Such a property does not find the flaw it
excepts; it says that there is no other. Others (`over`, `downloaded`) only record
what has happened. No action is disabled by a history variable.

`ShmTransfer`, `DfsWriteLock` and `GetFileClient` have a type invariant; in the
other modules the comments at the VARIABLES give the types, and the invariants
are about what the variables mean together.

### ShmTransfer

One action per access to shared memory or semaphore operation; the variables
`pc`, `seg`, `path`, `status`, `body` are the locals of the proxy workers and
what they have sent to the client, `cpc`, `job`, `offset`, `nread` those of the
cache workers. A byte is the pair of its file and its offset, so that a chunk
from the wrong file or the wrong place shows in `body`. `fstat` fails on a
chosen set of files, after which the cache thread is gone.

`steque_enqueue` is not protected. Here a change of the pool that overlaps
another operation either takes effect, or loses ids and leaves the steque
unreliable (`raced`), after which a worker may poll for ever or the process may
end (`Crash`). This is an assumption about the steque, which `SegmentPool` justifies;
no refinement is claimed here.

### SegmentPool

Every read and write of `front`, `back`, `N` and of a node is a step, in the
order of the unoptimised build the Makefile makes (`N++` is a load and a store;
`this->back` is read twice by an enqueue; `this->front->next` is a read of `front`
and a read through it, between which an enqueue may write `front`). Nodes have
addresses, `malloc` returns any free one, and a write through a stale pointer goes
wherever it points. `FreeIds` maps the memory to the abstract pool: ids on the
list, or behind a node that is being put on it. The list is the least set of
addresses that has its roots and is closed under `next`; while a pop is under way
its first element is what the pop is about to write to `front`.

### IpcRestart

`/shm_<id>`, `/sem_1_<id>`, `/sem_2_<id>` and `/message_channel` are names that lead
to objects, and an object lives on under the handles of those who opened it. Each
start of the proxy makes a new generation of objects, one `unlink` or `open` of
`Calls` at a time (`at` is the next one), while workers of the cache open names with
messages of the old proxy in hand. A start of the cache leaves the list of keys in
`items`, in any order that `qsort` may make, and the lookup is a bisection of it.
`sem_open` of a missing name ends the cache; `shm_open` creates an empty object, on
which the cache dies with SIGBUS unless the new proxy has opened and sized it by
then. A signal makes the cache unlink the queue, SIGKILL does not. After a failing
`fstat` thread 1 ends the process, because `main` frees an address of its stack;
another thread just disappears.

### DfsWriteLock

The clients issue an operation at a time. A call occupies one of `Calls` on the
server; `Deadline` lets the client go on and marks the call cancelled. The
handlers look at `IsCancelled` when they start and notice cancellation only when
a `Read` fails. Contents are sequences of chunks; a stream writes at its own
position, so that two streams on one file overwrite each other or leave holes.
`SmallTail` says that the last chunk is below 1024 bytes: libstdc++ writes
larger ones at once and buffers smaller ones until the stream is closed, which
in `StoreFile` is after `ReleaseLock`; it is TRUE in the run `dfs_write_lock`, and
the proofs cover either case. `overtaken` holds the files that were last opened by a
handler which got the lock in between. A checksum is the content (collisions are
out of scope) and 0 for both an empty and a missing file. `StoreFile` with a
failed first read works on the file name `""` and has no effect on the others.

### DfsSync

One file, a server and its mounted clients. A process (`op`) is the watcher, the
async thread or a one-shot command of a client, in the middle of a `Store`,
`Fetch` or `Delete`; `mutex` orders the first two. Users edit and delete files,
which raises inotify events, and so do the writes of a `Fetch`; the watcher reads
a batch of events and stores or deletes. `access(...)` returns 0 for a file that
is there, so `HandleCallbackList` calls `Fetch` for those, and for missing ones
stores or fetches depending on an uninitialised time: a nondeterministic choice.
`Delete(WrapPath(name))` there asks for a name the server does not have. A mount
and a command have a new client id each (`Id`), so a lock that an old one has left
behind stays. Coarser than the code: `EndStore` is `ReleaseLock` and the flush of the
destructor at once, and `Exit` ends the handlers of the client at once (a flush after
`ReleaseLock` and a handler that outlives its client are in `DfsWriteLock`); and
`Reply` does not represent a listing that still has a file the server has removed by
the time the async thread gets the mutex, after which `HandleCallbackList` would ask
for a missing file.
`disturbed` marks what the mutex of a client and the lock of the server do not
prevent: two streams of different processes at a time (`Overlap`), a `Fetch` that
empties a file which another process of the directory has open (`Truncates`), and
users or signals during a stream.

### DfsCallbacks

An object (`DFSCallData`) goes from `queued_tags` to gRPC, gets a call, is processed
by an async thread, which first creates its successor, and is deleted when its tag
comes the second time. A directory stream is the set of positions it has still to
return. The queue thread holds `queue_mutex` while it registers and erases, and it
may do so again and again while async threads wait for it. `!ok` events, for clients
that have died, leave the object behind. `ListEntry` reads the directory entry by
entry while files come and go. Completion queue and clients are external and
modelled by how they are used.

### DfsPart1

Every command of a user is a call with a stream of at most `Window` messages.
`Expire` and `HandleSignal` end it for the client; the handler goes on until
`IsCancelled` or `Read` tells it. Names lead to inodes, so that a removed file
lives on under an open stream, and a directory can be opened for reading but
never read to the end. The chunk at the end of a file is shorter and stays in the
buffer of the `ofstream` until the handler returns.

### GetFileClient and GetFileServer

Mutex, condition variable (with spurious wakeups) and queue are explicit. In the
client `counter++` and `returncode = gfc_perform(...)` followed by its test are two
steps each, as compiled; `gfc_perform` is external there, because mtgf links an
object file of its own, and `over` records the requests a worker is through with. In
the server the files are opened once and change while they are served; `pread`
returns what is there; the list of `content.c` is in any of the orders `qsort` may
leave it in, and the lookup is the bisection of `SortedIndex`.

### StreamPrograms

The three servers share the socket code and accept one connection after the
other. A `recv` returns any non-empty part of what has arrived. Content bytes are
`"a"`, `"nl"`, `"nul"`, because newlines and NULs are what `strtok` and `strlen`
tell apart. A header is cut in the pieces where a cut makes a difference. Programs
may be killed, and a write to a client that has gone ends `transferserver` by
SIGPIPE. A server that goes with bytes of a client unread resets the connection
(`RecvReset`): `recv` returns -1, which `gfclient.c:112` does not test, and the client
dereferences the null pointer `strtok` gives it. `behind` holds the clients that
`transferserver` accepts when it has read of the file already.

## 3. Runs

| run | result | shows |
| --- | --- | --- |
| `shm_transfer` | pass | safety of the protocol, the inductive invariant, and that a segment is returned although the queue is full at times |
| `segment_pool` | pass | races lose ids but never duplicate them; without overlap the steque is exact |
| `segment_pool_crash` | violation | with two workers the proxy can crash |
| `ipc_restart` | pass | own answers and clean segments across restarts, queued requests survive a killed cache |
| `dfs_write_lock` | pass | one writer, whole files but for a late flush, which locks stay behind; calls end in spite of deadlines |
| `dfs_write_lock_deadline` | violation | a retry breaks the exclusion of writers |
| `dfs_sync` | pass | files are not cut, empty files have one cause, directories converge |
| `dfs_callbacks` | pass | always ready, no dangling tag, complete listings, clients catch up or starve on `queue_mutex` |
| `dfs_part1` | pass | a call that returned OK did its work unless somebody else wrote; calls end |
| `getfile_client` | pass | each request once and none lost, clean shutdown, right files, termination |
| `getfile_server` | pass | one owner per request, right answers, nobody is forgotten |
| `stream_programs` | pass | order, whole transfers and downloads, what makes a client crash, clients end |

*What the properties leave out is what the code does not give:*

- `StoredWhole` leaves out the files in `overtaken`: with a last chunk below 1024 bytes
  the flush after `ReleaseLock` mixes two versions without any deadline, if another
  handler has got the lock and opened the file by then. Without the exemption the
  property is violated; with it, this is the only way.
- `NoStrayLock`: a `DeleteFile` that answers `NOT_FOUND` keeps the lock of its client
  (`missed`).
- `WholeAtRest`, `EmptiedByRemoval`: a process that is killed, a user who edits
  during a stream or a command beside the mounted client (`disturbed`) may cut
  files. `Converges` speaks of clients that have the file: a file that the server
  has and a client has not may stay so, because `HandleCallbackList` may answer
  with `Store`; `docs/part2.md` line 19 asks for equal directories.
- `ListedAll`: a file deleted between `readdir` and `stat` hides the entry behind it.
- `CatchUp`: the queue thread takes `queue_mutex` in a loop without a pause and may get
  it every time, so that the thread with a client's call, or all async threads, wait
  for ever (`Starved`). Every client for which this does not happen catches up.
- `StoredAlone`, `FetchedAlone`: part 1 has no locks, two writers mix their chunks.
- `LocalCopies`: the races on `counter` and `returncode` unlink or overwrite files.
- `RightAnswer`, `Served`: a file that grows is sent beyond its header, a file that
  shrinks keeps its worker for ever.
- `KeptIsWhole`, `Ended`, `InOrder`: a header in pieces, newlines in the first
  buffer, an empty echo message, NUL bytes; a server that dies with the request unread
  makes the getfile client crash; of `gfserver_serve` only the first request is
  answered, because the request buffer is never cleared.
- `InOrder`: `src/multithreading/README.md` (lines 54, 107, 309-311) asks that every
  client of `transferserver` gets the file. The code never rewinds `fp`, so only a
  client that is accepted at the start of the file gets it, which is what the property
  states; the others (`behind`) are excepted, and the property does not call what they
  get correct.
- `OwnAnswer`, `CleanSlate`: a message of a dead proxy that is resolved against the
  names of the next one (`stale`). `Answered`: requests in the hands of a cache
  that dies, or in a queue it unlinks (`orphan`).

*Bounds.* `shm_transfer`: two proxy workers on two segments (both send, and a worker
takes a segment while a cache worker has not seen the end of the previous file;
after a race ids are lost and one has to poll), two cache workers (so that the next
message is served meanwhile), a queue of one message (so that the second `mq_send`
blocks), chunks of two bytes and files of three and zero bytes (a full and a partial
chunk, an empty file), a miss and a failing `fstat`; the proofs cover every other
size. `segment_pool`: three workers, so that two race while a third pops; two
addresses, so that a stale pointer meets a reused node; `MaxN` bounds `N`, which
lost updates let grow: the store that would pass it is not taken. `ipc_restart`: two
starts of each process and two faults, which is what a request of an old proxy needs
to meet a new one; a segment, two workers on either side, a queue of two messages, a
cached path and a miss. `dfs_write_lock`: two clients on one file (locks are per
file), versions of two chunks, the last one small, and none, two calls at a time;
`dfs_write_lock_deadline` allows three, so that an abandoned one can run beside one
of each client. `dfs_sync`: two clients, two mounts each, two changes by users among
edits, deletions, signals and all three commands, files of two chunks.
`dfs_callbacks`: two async threads, two files, one client, a change and a failure;
`NObjects` bounds the objects and is not reached by anything that matters, because
objects are deleted. `dfs_part1`: two users, two commands, a file of two chunks and
a directory, a window of one message (so that `Write` blocks). `getfile_client`:
three workers, two requests of one path, so that only `counter` tells the files
apart. `getfile_server`: two workers, two requests, three paths of which two are
served, sizes around the buffer size, one fault (a changed file or a failing
`fstat`) and one spurious wakeup. `stream_programs`: two clients, buffers of three
bytes and contents below and above that.

*Deadlock* is not checked where the modelled program may really stop: the proxy
has exited (`ShmTransfer`, `SegmentPool`, `IpcRestart`), commands, changes or
requests are used up (`DfsSync`, `DfsPart1`, `GetFileServer`, `StreamPrograms`).

*Fairness.* Threads that can run do run (weak fairness per thread). In
`ShmTransfer`, `mq_send` is strongly fair, because the kernel serves the tasks that
wait for room in a queue in the order of their arrival; nothing is assumed about
`sem_queue` or about which cache worker receives, and no worker is promised a
segment. In `DfsCallbacks` nothing is assumed about `queue_mutex` either (weak
fairness lets the queue thread, which spins on it, keep the async threads out for
ever). gRPC is in order: it matches waiting calls in order (`Match`), and its
completion queue hands out tags in order (`TakeCall`, `TakeDone`); these are
strongly fair. In `DfsPart1` clocks go on (`Expire`), since every call has a
deadline there. Users, signals, faults, deadlines of part 2 and spurious wakeups are
never forced to happen.

## 4. Proofs

### The transfer through shared memory

`ShmTransferProofs` proves, for every number of workers, segments and files and
every chunk size and queue bound: `Spec => []IInv`, and from it type
correctness, `DeliveredPrefix`, `AnsweredInFull`, `Exclusive`,
`SegmentRestored` and `NoTornContent`.
The assumptions are those named in `ShmTransfer`: file lengths are naturals,
chunk size and queue bound are positive, the null values are not members.

*The invariant.* The properties are not inductive: that the next chunk is the
right one depends on what the cache worker is about to write, which depends on
the semaphores, which depend on where the owner is. `IInv` states, per segment,
which combinations of owner, message and cache worker occur:

- `Queued...`: a message names a segment whose owner waits for the header, which
  is fresh and not served by anybody;
- `Served...` with `Pair(w, c)`: at most one cache worker serves a segment, and
  for each of its program points the owner's point, the semaphores and the
  segment's fields are as given;
- `Slot(w, o)`: the content is free, full, being read or read, and `sem_1` and
  `sem_2` say which; before the header is consumed `sem_1` counts one more;
- `Lags(c)`: a cache worker that has handed over the last chunk serves nobody any
  more, which is what makes it harmless that the segment moves on without it;
- `UnheldFresh`, `ParkedFresh`: a segment that is not in a transfer is as `main`
  created it;
- `Accounted`: every request in a transfer is queued, served or completely
  served.

Lemmas such as `OutsideStep`, `TransferStep`, `ServeStep`, `PopStep` and
`EnqueueStep` reduce an action to the one segment it touches; there is one lemma
per action, one step per conjunct it can disturb.

### The other components

Each component has an inductive invariant (`IInv`; `StreamInv` and `Part1Inv` where
two share a module), one lemma per action (or per group of actions that do the same
to the state), and the theorems at the end. The invariants were checked with TLC
before they were proved.

| module | theorems | property |
| --- | --- | --- |
| `SegmentPoolProofs` | `PoolRefinement`, `NeverTwice`, `ExactPool` | `ImplementsLossyPool`, exclusive ids, `ExactWhenSerial` |
| `DfsWriteLockProofs` | `TypeCorrect`, `WritersExclusive`, `LocksReleased`, `FilesWhole` | `TypeOK`, `OneWriterInTime`, `NoStrayLock`, `StoredWhole` |
| `DfsSyncProofs` | `NeverCut`, `NeverEmptied` | `WholeAtRest`, `EmptiedByRemoval` |
| `DfsCallbacksProofs` | `ServiceArmed`, `TagsAlive`, `ListingsComplete` | `AlwaysArmed`, `NoDanglingTag`, `ListedAll` |
| `IpcRestartProofs` | `AnswersItsOwn`, `StartsClean`, `FirstProxyNeverStale` | `OwnAnswer`, `CleanSlate`, no stale name in the life of one proxy |
| `GetFileProofs` | `TypeCorrect`, `RequestsTakenOnce`, `ShutdownClean`, `CopiesRight` | `TypeOK`, `ExactlyOnce`, `CleanShutdown`, `LocalCopies` |
| | `TextInOrder`, `DownloadIsWhole` | `InOrder`, `KeptIsWhole` |
| `ServerProofs` | `RequestsInOnePlace`, `AnswersRight` | `OnePlace`, `RightAnswer` |
| | `StoreIsWhole`, `FetchIsWhole` | `StoredAlone`, `FetchedAlone` |

*Segment pool.* What is proved is that no interleaving of the statements hands out
an id twice. The invariant says who may write what (`Mutex`, `Locals`), that an id
is held once (`HeldOnce`), and that the list is sound (`Sound`): distinct
addresses on it have distinct items and are allocated, and none carries an id that
a worker holds, except the node whose item a pop has just read. A stale
`this->back` makes writes go to nodes that are off the list or not yet on it; that
is why the list is taken as reachable from the nodes being linked as well. A step
shrinks the least closed set or moves one node on or off it, which makes it a step
of `SegmentAllocator` with `MayLose`. A second invariant (`Serial`: `Settled`,
`Last`, `Alone`) says that without overlap the list is a chain that ends in `back`
and whose length is `N`.

*Write lock.* As long as no deadline has passed, a call belongs to an operation
its client is waiting for, so each client has at most one call; a handler past
`CheckLock` finds itself in `write_map`, which makes writers exclusive. A stream
under way has written a prefix of its version to a file it has truncated itself.
`FilesWhole` makes no assumption on `SmallTail`: of a handler between `ReleaseLock` and
its flush the file has all but the last chunk, as long as nobody has opened it since,
and a file that somebody has opened since is `overtaken` until the next handler opens
it with no flush pending.

*Synchronisation.* `Control` is what holds always: the watcher and the async thread
work under their mutex and in a mounted client (`Roles`, `Mounting`), an operation
that writes on the server has the write lock (`Locked`), so two of them exclude
each other, and what a stream writes to exists (`Targets`). As long as nothing is
disturbed there is one stream at a time, it has written a prefix of its source, and
its source is a whole file (`Undisturbed`); as long as nothing was removed, nothing
at rest is empty (`Filled`). Without the mutex the two threads of a client would be
two streams.

*Callbacks.* Objects that wait for a call and threads that are about to create one
are counted together; the stages of an object, the queue and the threads that
have it exclude each other.

*getfile client.* Requests not yet posted, queued, held and downloaded partition
the requests, and none falls out (`Covered`); `Done` is last in the queue and stays
there. For `LocalCopies`,
`counter` has as many values behind it as requests were numbered, so that without a
race local names differ, and `returncode` belongs to the worker that tests it.

*getfile server.* The queue, the workers and `done` partition the arrived requests.
That the bisection finds a key exactly if it is in the list (`FindsIsMembership`)
is proved for every sorted list, without induction: of the ranges on which it is
wrong one of least length would have a shorter one.

*Restarts.* The properties speak of a behaviour until a message of a dead proxy is
resolved against the names of the next one, so `IInv` is `stale \/ Good`, and no
step leads back. In `Good`, a name leads to an object of the present generation or
of none at all once the proxy serves (`Naming`); a free segment of this generation
is as `main` made it (`Unused`); a message comes from this proxy or an earlier one
and none of the present one is there before it serves (`Sent`, `Taken`); a cache
worker has open what belongs to the proxy that sent its message (`Opened`); and each
waiting worker has at most one message or cache worker, whose progress is what its
semaphores say (`Once`, `Wanted`, `Slots`). Objects of earlier generations may be in
any state: nobody who is alive has a name for them. `FirstProxyNeverStale` says how
far the exemption goes: kills and restarts of the cache alone never make a request
stale. That the key is looked up rightly is the argument of the getfile server
again, over `items`.

*Programs over TCP.* `InOrder` and `KeptIsWhole` need that what a client has, what
is under way to it and what the server has still to send make up one thing: the
message (`Echo`), the file up to `fp` (`Sending`, `Transfer`), or a header and the
file (`Replies`, `Get`). That a transfer client accepted at the start gets all of
the file (`Delivery`) rests on two facts: what it was sent is as long as `fp` says,
and a connection is closed only when the file has been read to the end. The server
of getfile never closes a connection (`NoneClosed`), so that only its death resets
one. A client of getfile trusts what `strtok` and `strlen` make of the first buffer,
so lemmas say what they return (`TokenOf`, `NoNul`, `FirstPlace`), how a header is
read in pieces (`HeaderShape`, `CutSecond`), and what cutting and joining sequences
do (`Cut`, `Prefix`, `Joined`).

*Part 1.* `StoredAlone` speaks of a moment when the call is over, and everything that
makes it true happened before. While the call is not cancelled, the messages under way
are the chunks from the handler's position to the client's, the short one last, and a
file with one writer has the chunks before that position (`Sent`); the `ofstream`
keeps at most the last chunk, and then the stream is empty (`Flow`). Of a fetch, the
local file has the chunks up to the client's position, the stream those up to the
handler's, and the handler reads what it opened as long as `seen` is there (`Reading`,
`Received`, `Fetching`). A handler of a cancelled call may be anywhere; all that is
needed of it is that it stays among the `writers` of what it has open (`Opened`) and
writes chunks to places where they fit (`Fit`), which keeps contents of other calls
such that a read comes back short at their end and nowhere else. That a client has a
number left for its next call is a counting argument over the bound `MaxCalls`.

*Assumptions on constants.* Only those the modules state, which TLC evaluates: the
null values are not members of the sets they are used with (for `DfsSync`, `Absent`
and `Live` are not contents); the client has a finite, non-empty set of workers
(`numthreads` of the command line); contents of the server's list are sequences of
numbers with sizes; the directory of `DfsCallbacks` is a finite list. Keys of
`IpcRestart` are numbers and its list a sequence of them; files and messages of
`StreamPrograms` are sequences over `Bytes`, and a length has at most two digits
(`Radix`); `DfsPart1` has finitely many users, names are files or directories and not
both.

*What the proofs changed.* The cache's list of keys was chosen anew at every lookup;
it is set once, when the cache starts. Two attempts failed for good reasons. In
`SegmentPool` `this->front->next` was one step; the refinement proof asked why
`front` is the node that was popped, and it need not be. `WholeAtRest` was false for
three changes: a command's `Fetch` of a file the server does not have empties a file
that the mounted client is receiving. The code does that, so `disturbed` now
includes it.

*Only model-checked:* liveness (`SegmentReturned`, `CallsEnd`, `Converges`,
`CatchUp`, `Termination`, `Served`, `Ended`, `Answered`), because the prover handles
neither fairness nor ENABLED; what the two runs that end in a violation show; and,
of part 2, the checksum, which is taken as the content. No module has a RECURSIVE
operator.

## 5. Not modelled

- `ipc/server` (`handle_with_curl.c`): one handler without shared state, a line of
  libcurl calls and a send loop; libcurl and the gfserver library are binaries.
- `CRC.h` (third party), gRPC, libcurl, the gfserver objects: only how they are used.
- `ListFile`, `List` and `Stat` of part 2, which change no state.
- `pread` returning -1 in `gfserver_main.c` (lines 85-87), which would lower
  `bytes_sent`, and a crash inside the `gfc_perform` of the object file that mtgf links.
- Option parsing, logging, leaks of memory and descriptors, and failures of system
  calls that make a program exit and that no restart causes.
- The torn `std::string` or map that `ReleaseLock`, which takes no mutex, may leave
  to a concurrent `CheckLock`: the assignment is one step here.
- `steque_push`, `steque_cycle`, `steque_front`, which have no caller.

## 6. Plan

The plan is carried out: transfer and pool first, then the write lock and the
synchronisation, the callbacks, getfile, part 1, the stream programs and restarts;
every invariant that a run checks has its theorem. What would come next is not a
proof but detail: the statements of `ReleaseLock` and of `std::map` under a race, and
`steque` under the optimisations of another build.
