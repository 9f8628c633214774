------------------------------ MODULE DfsSync ------------------------------
(***************************************************************************)
(* Mounted clients of grpc/part2 and the server they keep in sync with,    *)
(* for one file.  A mounted client runs two threads under one mutex: the   *)
(* watcher, which turns inotify events into Store and Delete, and the      *)
(* async thread, which answers every CallbackList reply with Fetch.  Users *)
(* edit the mount directory at any time, and the writes of a Fetch raise   *)
(* inotify events as well.  A one-shot command is a process of its own     *)
(* that knows nothing of the mutex.                                        *)
(*                                                                         *)
(* A file is the sequence of its BUFSIZ chunks and stands for its own      *)
(* checksum; a missing file has the checksum of an empty one.  Calls       *)
(* answer in time here: deadlines and the steps of the write lock are in   *)
(* DfsWriteLock, and StoreFile and DeleteFile are coarser here wherever    *)
(* the lock keeps everybody else out.                                      *)
(***************************************************************************)
EXTENDS Integers, Sequences

CONSTANTS
  Clients,     \* mount directories
  Commands,    \* one-shot commands in use, of "fetch", "store", "delete"
  MaxChanges,  \* bound on what users do: edits, deletions, commands and signals
  MaxMounts,   \* bound on the mounts of a directory
  Nobody, Absent, Live

\* The number of the change a chunk is from, and its own; <<0, 0>> is a hole
Chunks == (0..MaxChanges) \X (0..2)

\* The client_id of a process: a new one for every mount and every command
Ids == Clients \X {"mount", "command"} \X Nat

ASSUME SyncAssumption ==
  /\ Commands \subseteq {"fetch", "store", "delete"}
  /\ MaxChanges \in Nat /\ MaxMounts \in Nat
  /\ Nobody \notin Ids
  /\ Absent \notin Seq(Chunks) /\ Live \notin Seq(Chunks)

VARIABLES
  disk,      \* the file in the mount directory of the server
  owner,     \* write_map: the client_id that holds the lock
  local,     \* the file in the mount directory of a client
  session,   \* number of mounts of a directory so far
  commands,  \* number of one-shot commands in a directory so far
  mounted,
  mutex,     \* the thread that holds the client's mutex
  events,    \* the inotify queue
  batch,     \* events the watcher has read and not handled
  op,        \* the operation a thread is in
  changes,   \* changes made so far
  disturbed, \* history: see Disturbance
  removed    \* history: the server has removed the file once, or a command has
             \* fetched one it does not have

serverVars == <<disk, owner>>
clientVars == <<mutex, batch>>
mountVars == <<session, commands, mounted>>
vars == <<disk, owner, local, session, commands, mounted, mutex, events, batch, op,
          changes, disturbed, removed>>

Threads == {"watcher", "async", "command"}
Procs == Clients \X Threads

\* A user writes two chunks at a time, new ones for every change.
Content(v) == <<<<v, 1>>, <<v, 2>>>>
Whole == {<< >>} \union {Content(v) : v \in 1..MaxChanges}

\* dfs_file_checksum
Checksum(d) == IF d = Absent THEN << >> ELSE d

\* a write at a position of a file that may have become shorter or longer
WriteAt(d, i, x) ==
  [j \in 1..(IF i > Len(d) THEN i ELSE Len(d)) |-> IF j = i THEN x ELSE IF j <= Len(d) THEN d[j] ELSE <<0, 0>>]

\* pc; the position in the stream; the content read from when the source has been
\* unlinked; whether the target is still linked; the checksum Store sends
Idle == [pc |-> "idle", pos |-> 0, src |-> Live, linked |-> TRUE, crc |-> << >>]

\* ClientId()
Id(p) == IF p[2] = "command" THEN <<p[1], "command", commands[p[1]]>> ELSE <<p[1], "mount", session[p[1]]>>

Init ==
  /\ disk = Absent /\ owner = Nobody
  /\ local = [c \in Clients |-> Absent]
  /\ session = [c \in Clients |-> 0] /\ commands = [c \in Clients |-> 0]
  /\ mounted = [c \in Clients |-> FALSE]
  /\ mutex = [c \in Clients |-> "free"]
  /\ events = [c \in Clients |-> << >>]
  /\ batch = [c \in Clients |-> << >>]
  /\ op = [p \in Procs |-> Idle]
  /\ changes = 0
  /\ disturbed = FALSE /\ removed = FALSE

\* inotify: queued for a mounted directory; the kernel merges equal neighbours
Notify(c, e) ==
  events' = IF ~mounted[c] \/ (events[c] # << >> /\ events[c][Len(events[c])] = e) THEN events
            ELSE [events EXCEPT ![c] = Append(@, e)]
-----------------------------------------------------------------------------
(* Users and processes *)

Change == changes < MaxChanges /\ changes' = changes + 1

\* A user rewrites the file in place.
Edit(c) ==
  /\ Change
  /\ local' = [local EXCEPT ![c] = Content(changes')]
  /\ Notify(c, "store")
  /\ UNCHANGED <<serverVars, mountVars, clientVars, op>>

\* A user deletes it: open streams go on with the unlinked file.
UserDelete(c) ==
  /\ Change
  /\ local[c] # Absent
  /\ local' = [local EXCEPT ![c] = Absent]
  /\ op' = [p \in Procs |->
       IF p[1] # c THEN op[p]
       ELSE [op[p] EXCEPT !.linked = @ /\ op[p].pc # "recv",
                          !.src = IF op[p].pc \in {"lock", "compare", "send"} /\ @ = Live THEN local[c] ELSE @]]
  /\ Notify(c, "delete")
  /\ UNCHANGED <<serverVars, mountVars, clientVars>>

\* Mount: the watch, the two threads and the first InitCallbackList
Mount(c) ==
  /\ ~mounted[c] /\ session[c] < MaxMounts
  /\ mounted' = [mounted EXCEPT ![c] = TRUE]
  /\ session' = [session EXCEPT ![c] = @ + 1]
  /\ UNCHANGED <<serverVars, local, commands, mutex, events, batch, op, changes>>

\* HandleSignal: Unmount and exit, wherever the threads are.  The server sees the
\* end of a stream it is reading and releases the lock; a lock without a stream stays.
\* (Its handler does so at once: one that runs on after its client is in DfsWriteLock.)
Exit(c) ==
  /\ Change
  /\ mounted[c]
  /\ mounted' = [mounted EXCEPT ![c] = FALSE]
  /\ mutex' = [mutex EXCEPT ![c] = "free"]
  /\ events' = [events EXCEPT ![c] = << >>]
  /\ batch' = [batch EXCEPT ![c] = << >>]
  /\ op' = [p \in Procs |-> IF p[1] = c /\ p[2] # "command" THEN Idle ELSE op[p]]
  /\ owner' = IF \E p \in Procs : p[1] = c /\ p[2] # "command" /\ op[p].pc = "send"
              THEN Nobody ELSE owner
  /\ UNCHANGED <<disk, local, session, commands>>
-----------------------------------------------------------------------------
(* The operations of the client node and their handlers on the server *)

Goto(p, from, to) == op[p].pc = from /\ op' = [op EXCEPT ![p].pc = to]

\* InotifyWatcher: an event of the batch is handled.
EventDone(c) ==
  /\ batch' = [batch EXCEPT ![c] = Tail(@)]
  /\ mutex' = [mutex EXCEPT ![c] = IF Len(batch[c]) = 1 THEN "free" ELSE @]

\* HandleCallbackList: delete call_data, unlock, InitCallbackList
ReplyDone(c) == mutex' = [mutex EXCEPT ![c] = "free"] /\ UNCHANGED batch

\* The operation of thread p returns.
Return(p) ==
  /\ op' = [op EXCEPT ![p] = Idle]
  /\ CASE p[2] = "watcher" -> EventDone(p[1])
       [] p[2] = "async" -> ReplyDone(p[1])
       [] OTHER -> UNCHANGED clientVars

\* Store opens the local file; there may be none (CANCELLED).
BeginStore(p) ==
  IF local[p[1]] = Absent THEN Return(p)
  ELSE op' = [op EXCEPT ![p].pc = "lock"] /\ UNCHANGED clientVars

BeginFetch(p) == op' = [op EXCEPT ![p].pc = "status"] /\ UNCHANGED clientVars
BeginDelete(p) == op' = [op EXCEPT ![p].pc = "dlock"] /\ UNCHANGED clientVars

Available(p) == owner \in {Nobody, Id(p)}

\* RequestWriteAccess refused: RESOURCE_EXHAUSTED
Refused(p) ==
  /\ op[p].pc \in {"lock", "dlock"}
  /\ ~Available(p)
  /\ Return(p)
  /\ UNCHANGED <<serverVars, local, events>>

\* granted; the checksum is computed from the path, which may be gone by now
Granted(p) ==
  /\ op[p].pc = "lock"
  /\ Available(p)
  /\ owner' = Id(p)
  /\ op' = [op EXCEPT ![p].pc = "compare", ![p].crc = Checksum(local[p[1]])]
  /\ UNCHANGED <<disk, local, events, clientVars>>

\* StoreFile: CheckLock finds its own lock; ALREADY_EXISTS
SameChecksum(p) ==
  /\ op[p].pc = "compare"
  /\ Checksum(disk) = op[p].crc
  /\ owner' = Nobody
  /\ Return(p)
  /\ UNCHANGED <<disk, local, events>>

\* StoreFile: the ofstream truncates or creates the file
OpenTarget(p) ==
  /\ Goto(p, "compare", "send")
  /\ Checksum(disk) # op[p].crc
  /\ disk' = << >>
  /\ UNCHANGED <<owner, local, events, clientVars>>

StoreSource(p) == IF op[p].src = Live THEN Checksum(local[p[1]]) ELSE op[p].src

\* writer->Write, reader->Read, outfile.write
SendChunk(p) ==
  LET i == op[p].pos + 1 IN
  /\ op[p].pc = "send"
  /\ i <= Len(StoreSource(p))
  /\ disk' = WriteAt(disk, i, StoreSource(p)[i])
  /\ op' = [op EXCEPT ![p].pos = i]
  /\ UNCHANGED <<owner, local, events, clientVars>>

\* Mutant of EndStore: only a first chunk is read
EndStoreEarly(p) ==
  /\ op[p].pc = "send"
  /\ op[p].pos > 0
  /\ owner' = Nobody
  /\ Return(p)
  /\ UNCHANGED <<disk, local, events>>

\* the end of the stream: ReleaseLock, OK.  The destructor has written all by then here;
\* a tail that is flushed after ReleaseLock is in DfsWriteLock.
EndStore(p) ==
  /\ op[p].pc = "send"
  /\ op[p].pos >= Len(StoreSource(p))
  /\ owner' = Nobody
  /\ Return(p)
  /\ UNCHANGED <<disk, local, events>>

GrantedDelete(p) ==
  /\ Goto(p, "dlock", "remove")
  /\ Available(p)
  /\ owner' = Id(p)
  /\ UNCHANGED <<disk, local, events, clientVars>>

\* DeleteFile: NOT_FOUND, and the lock stays
DeleteMissing(p) ==
  /\ op[p].pc = "remove"
  /\ disk = Absent
  /\ Return(p)
  /\ UNCHANGED <<serverVars, local, events>>

\* remove, ReleaseLock.  A FetchFile that has the file open reads on.
Remove(p) ==
  /\ op[p].pc = "remove"
  /\ disk # Absent
  /\ disk' = Absent
  /\ owner' = Nobody
  /\ op' = [q \in Procs |-> IF q = p THEN Idle
                            ELSE IF op[q].pc = "recv" /\ op[q].src = Live THEN [op[q] EXCEPT !.src = disk]
                            ELSE op[q]]
  /\ IF p[2] = "watcher" THEN EventDone(p[1]) ELSE UNCHANGED clientVars
  /\ UNCHANGED <<local, events>>

\* Fetch: StatusFile, whose answer has checksum 0 when there is no file
Unchanged(p) ==
  /\ op[p].pc = "status"
  /\ Checksum(disk) = Checksum(local[p[1]])
  /\ Return(p)
  /\ UNCHANGED <<serverVars, local, events>>

Changed(p) ==
  /\ Goto(p, "status", "get")
  /\ Checksum(disk) # Checksum(local[p[1]])
  /\ UNCHANGED <<serverVars, local, events, clientVars>>

\* The ofstream truncates or creates the local file; FetchFile finds the file or
\* not.  If not, the local file stays empty.
FetchFile(p) ==
  /\ op[p].pc = "get"
  /\ local' = [local EXCEPT ![p[1]] = << >>]
  /\ Notify(p[1], "store")
  /\ IF disk = Absent THEN Return(p)
     ELSE op' = [op EXCEPT ![p].pc = "recv"] /\ UNCHANGED clientVars
  /\ UNCHANGED serverVars

FetchSource(p) == IF op[p].src = Live THEN Checksum(disk) ELSE op[p].src

\* infile.read, writer->Write, reader->Read, outfile.write: no lock is taken
RecvChunk(p) ==
  LET i == op[p].pos + 1 IN
  /\ op[p].pc = "recv"
  /\ i <= Len(FetchSource(p))
  /\ op' = [op EXCEPT ![p].pos = i]
  /\ IF op[p].linked
     THEN local' = [local EXCEPT ![p[1]] = WriteAt(@, i, FetchSource(p)[i])] /\ Notify(p[1], "store")
     ELSE UNCHANGED <<local, events>>
  /\ UNCHANGED <<serverVars, clientVars>>

\* reader->Read returns false; Finish
EndFetch(p) ==
  /\ op[p].pc = "recv"
  /\ op[p].pos >= Len(FetchSource(p))
  /\ Return(p)
  /\ UNCHANGED <<serverVars, local, events>>
-----------------------------------------------------------------------------
(* The threads of a mounted client *)

\* InotifyWatcher: read(fd, ...), before the mutex
ReadEvents(c) ==
  /\ mounted[c]
  /\ batch[c] = << >> /\ events[c] # << >>
  /\ batch' = [batch EXCEPT ![c] = events[c]]
  /\ events' = [events EXCEPT ![c] = << >>]
  /\ UNCHANGED <<serverVars, local, mutex, op>>

\* Mutant of LockWatcher: InotifyWatcherCallback without its lock_guard
LockWatcherUnguarded(c) ==
  /\ batch[c] # << >> /\ mutex[c] # "watcher"
  /\ mutex' = [mutex EXCEPT ![c] = "watcher"]
  /\ UNCHANGED <<serverVars, local, events, batch, op>>

\* InotifyWatcherCallback: lock_guard
LockWatcher(c) ==
  /\ batch[c] # << >> /\ mutex[c] = "free"
  /\ mutex' = [mutex EXCEPT ![c] = "watcher"]
  /\ UNCHANGED <<serverVars, local, events, batch, op>>

\* InotifyEventCallback
HandleEvent(c) ==
  LET p == <<c, "watcher">> IN
  /\ mutex[c] = "watcher" /\ op[p].pc = "idle"
  /\ \/ Head(batch[c]) = "store" /\ BeginStore(p)
     \/ Head(batch[c]) = "delete" /\ BeginDelete(p)
  /\ UNCHANGED <<serverVars, local, events>>

\* The async thread receives the reply to its CallbackList call, the listing of the
\* server's directory with checksums, and takes the mutex.  A reply that does not
\* list the file, or a failed call, changes nothing.  A stale one is no different
\* from a change between this step and the first step of the operation, except that
\* one which still lists a file the server has removed is not represented.
Reply(c) ==
  /\ mounted[c] /\ mutex[c] = "free"
  /\ disk # Absent
  /\ mutex' = [mutex EXCEPT ![c] = "async"]
  /\ UNCHANGED <<serverVars, local, events, batch>>

\* Mutant of FetchListed: only a file that does not exist here is fetched
FetchListedIfMissing(c) ==
  /\ Reply(c)
  /\ local[c] = Absent
  /\ op' = [op EXCEPT ![<<c, "async">>].pc = "status"]

\* access(path, R_OK) is 0: a listed file that exists here is fetched
FetchListed(c) ==
  /\ Reply(c)
  /\ local[c] # Absent
  /\ op' = [op EXCEPT ![<<c, "async">>].pc = "status"]

\* The listed file does not exist here: its checksum is 0, and the time in buf is
\* uninitialised, so Fetch, or Store, which finds no file and changes nothing.  An
\* empty one has the same checksum: Delete of a path that is no name on the server.
FetchMissingHere(c) ==
  /\ Reply(c)
  /\ local[c] = Absent /\ disk # << >>
  /\ op' = [op EXCEPT ![<<c, "async">>].pc = "status"]

\* ProcessCommand in a process of its own
Command(c) ==
  LET p == <<c, "command">> IN
  /\ op[p].pc = "idle"
  /\ Change
  /\ commands' = [commands EXCEPT ![c] = @ + 1]
  /\ \E cmd \in Commands :
       CASE cmd = "fetch" -> BeginFetch(p)
         [] cmd = "store" -> BeginStore(p)
         [] cmd = "delete" -> BeginDelete(p)
  /\ UNCHANGED <<serverVars, local, events, session, mounted>>

OpStep(p) ==
  \/ Refused(p) \/ Granted(p) \/ SameChecksum(p) \/ OpenTarget(p) \/ SendChunk(p) \/ EndStore(p)
  \/ GrantedDelete(p) \/ DeleteMissing(p) \/ Remove(p)
  \/ Unchanged(p) \/ Changed(p) \/ FetchFile(p) \/ RecvChunk(p) \/ EndFetch(p)

Watcher(c) == ReadEvents(c) \/ LockWatcher(c) \/ HandleEvent(c) \/ OpStep(<<c, "watcher">>)

Async(c) == FetchListed(c) \/ OpStep(<<c, "async">>)

Streaming == {"recv", "send"}

\* What the mutex of a client cannot prevent: a FetchFile of one process while a
\* StoreFile of another writes the file, or two processes in one mount directory.
Overlap ==
  \E p, q \in Procs :
    /\ p # q /\ op[p].pc \in Streaming /\ op[q].pc \in Streaming
    /\ p[1] # q[1] \/ "command" \in {p[2], q[2]}

\* ... or a Fetch of one that empties the file another has open, although it then finds
\* nothing to bring
Truncates ==
  \E p, q \in Procs :
    /\ p # q /\ p[1] = q[1]
    /\ op[p].pc \in Streaming /\ op[q].pc = "get" /\ op'[q].pc # "get"

\* ... and a user or a signal that interferes with an open stream
Disturbance ==
  \/ Overlap'
  \/ Truncates
  \/ \E p \in Procs :
       op[p].pc \in Streaming /\ changes' # changes

History ==
  /\ disturbed' = (disturbed \/ Disturbance)
  /\ removed' = \/ removed
                \/ disk # Absent /\ disk' = Absent
                \/ disk = Absent /\ \E c \in Clients : op[<<c, "command">>].pc = "get"

\* a step of a process, not of a user
Runs(A) == A /\ UNCHANGED <<mountVars, changes>> /\ History

User(c) ==
  /\ Edit(c) \/ UserDelete(c) \/ Mount(c) \/ Exit(c) \/ Command(c)
  /\ History

Next ==
  \E c \in Clients :
    \/ Runs(Watcher(c)) \/ Runs(Async(c)) \/ Runs(FetchMissingHere(c))
    \/ Runs(OpStep(<<c, "command">>))
    \/ User(c)

Spec == Init /\ [][Next]_vars

\* Threads run, and of the CallbackList calls, which are repeated for ever, not all
\* fail; nothing is assumed about users, signals, who gets the mutex, or what the
\* uninitialised time of a missing file is.
FairSpec ==
  /\ Spec
  /\ \A c \in Clients :
       /\ WF_vars(Runs(Watcher(c))) /\ WF_vars(Runs(Async(c)))
       /\ WF_vars(Runs(OpStep(<<c, "command">>)))
-----------------------------------------------------------------------------
(* Properties *)

\* The two threads of a client never cut a file: unless another process, a user or
\* a signal interferes with an open stream, the server and every mount directory
\* hold, when no stream writes to them, the whole of what some user wrote, or an
\* empty file.
WholeAtRest ==
  ~disturbed =>
    /\ (\A p \in Procs : op[p].pc # "send") => disk \in Whole \union {Absent}
    /\ \A c \in Clients :
         (\A t \in Threads : op[<<c, t>>].pc # "recv") => local[c] \in Whole \union {Absent}

\* Nobody writes an empty file here, so a client has one, when nothing streams into
\* it, only after the server has removed the file under a Fetch or a command has
\* fetched a file the server does not have.
EmptiedByRemoval ==
  ~disturbed /\ ~removed =>
    \A c \in Clients :
      local[c] = << >> => \E t \in Threads : op[<<c, t>>].pc = "recv"

\* Weak consistency: when users leave the file alone, every mounted client that has
\* the file ends up with what the server has, if the server has it.
Converges ==
  <>[](disk # Absent => \A c \in Clients : mounted[c] /\ local[c] # Absent => local[c] = disk)
=============================================================================
