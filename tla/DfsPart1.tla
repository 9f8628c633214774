----------------------------- MODULE DfsPart1 ------------------------------
(***************************************************************************)
(* The file service of grpc/part1.  Every command is a process of its own  *)
(* that makes one call with a deadline; the server runs one handler per    *)
(* call, each on a thread of gRPC, and takes no lock.  A deadline that     *)
(* passes, or a signal, ends the call on the client's side only: the       *)
(* handler finds out at its next IsCancelled or Read, and the next command *)
(* of the same user may overtake it.                                       *)
(*                                                                         *)
(* A file is the sequence of its BUFSIZ chunks, the last one shorter.      *)
(* Names lead to inodes: an unlinked file lives on in the handlers that    *)
(* have it open.                                                           *)
(***************************************************************************)
EXTENDS Integers, Sequences, FiniteSets

CONSTANTS
  Clients,   \* users, each with a mount directory and one command at a time
  Files,     \* names that are regular files on the server, or nothing
  Held,      \* names that are files in the mount directories at the start
  Dirs,      \* names that are directories on the server
  Commands,  \* commands in use, with their names
  NChunks,   \* chunks of a file
  MaxCalls,  \* bound on the commands of all users
  Window,    \* messages a stream holds before Write waits
  Missing, None

ASSUME Part1Assumption ==
  /\ Commands \subseteq {"store", "fetch", "delete", "list", "stat"} \X (Files \union Dirs \union {None})
  /\ NChunks \in Nat \ {0} /\ MaxCalls \in Nat /\ Window \in Nat \ {0}
  /\ IsFiniteSet(Clients) /\ Files \intersect Dirs = {} /\ Held \subseteq Files \union Dirs

Names == Files \union Dirs
Calls == Clients \X (1..MaxCalls)
Inodes == Files \union Calls      \* the files at the start, and what StoreFile creates

VARIABLES
  local,    \* the mount directory of a client
  cli,      \* the client: pc, number of its call, position, what the call returned
  call,     \* command and name of a call
  over,     \* how a call ended for the client before the server answered, or "no"
  stream,   \* messages of a call under way
  shut,     \* WritesDone
  reply,    \* the status the handler returned
  srv,      \* the handler: pc, open inode, position, the chunk it holds or its ofstream buffers
  dir,      \* name -> inode
  disk,     \* inode -> content
  writers,  \* history: the stores that had an inode open since it was last quiet
  seen      \* history: what a fetch opened, None once somebody writes to it

netVars == <<stream, shut, reply>>
diskVars == <<dir, disk, writers, seen>>
part1Vars == <<local, cli, call, over, netVars, srv, diskVars>>

Whole(v) == [i \in 1..NChunks |-> <<v, i>>]
Empty == << >>
Short(m) == m # Empty => m[2] = NChunks

Idle == [pc |-> "idle", n |-> 0, pos |-> 0, status |-> "none"]
Asleep == [pc |-> "none", ino |-> None, pos |-> 0, buf |-> Empty]

Part1Init ==
  /\ local = [c \in Clients |-> [f \in Names |-> IF f \in Held THEN Whole(c) ELSE Missing]]
  /\ cli = [c \in Clients |-> Idle]
  /\ call = [k \in Calls |-> [cmd |-> "none", name |-> None]]
  /\ over = [k \in Calls |-> "no"]
  /\ stream = [k \in Calls |-> << >>]
  /\ shut = [k \in Calls |-> FALSE]
  /\ reply = [k \in Calls |-> "none"]
  /\ srv = [k \in Calls |-> Asleep]
  /\ dir = [f \in Files |-> f]
  /\ disk = [i \in Inodes |-> IF i \in Files THEN Whole(i) ELSE << >>]
  /\ writers = [i \in Inodes |-> {}]
  /\ seen = [k \in Calls |-> None]

\* infile.read(buffer, BUFSIZ) at a position; the chunk is short at the end of the file
ReadAt(d, pos) == IF pos < Len(d) THEN d[pos + 1] ELSE Empty

\* outfile.write at a position of a file somebody else may have truncated
WriteAt(d, pos, m) ==
  IF m = Empty THEN d
  ELSE [j \in 1..(IF pos >= Len(d) THEN pos + 1 ELSE Len(d)) |->
          IF j = pos + 1 THEN m ELSE IF j <= Len(d) THEN d[j] ELSE <<None, 0>>]

Current(c) == <<c, cli[c].n>>
Cancelled(k) == over[k] # "no"
-----------------------------------------------------------------------------
(* The client: one call of the client node per process *)

At(c, pc) == cli[c].pc = pc
Returns(c, status) == cli' = [cli EXCEPT ![c].pc = "idle", ![c].status = status]

\* ProcessCommand makes the call.
Begin(c, cmd, f, pc) ==
  /\ At(c, "idle") /\ <<cmd, f>> \in Commands
  /\ Cardinality({k \in Calls : call[k].cmd # "none"}) < MaxCalls
  /\ cli' = [cli EXCEPT ![c] = [pc |-> pc, n |-> @.n + 1, pos |-> 0, status |-> "none"]]
  /\ call' = [call EXCEPT ![<<c, cli[c].n + 1>>] = [cmd |-> cmd, name |-> f]]
  /\ UNCHANGED <<over, netVars, srv, diskVars>>

\* Store: no local file is CANCELLED, and no call is made
Store(c, f) == local[c][f] # Missing /\ Begin(c, "store", f, "send") /\ UNCHANGED local

\* Fetch: the ofstream empties or creates the local file before the call
Fetch(c, f) ==
  /\ Begin(c, "fetch", f, "recv")
  /\ local' = [local EXCEPT ![c][f] = << >>]

\* Delete, Stat, List
Unary(c, cmd, f) == Begin(c, cmd, f, "wait") /\ UNCHANGED local

\* Store: read, Write; a Write after the end of the call fails and is ignored
Send(c) ==
  LET k == Current(c)
      m == ReadAt(local[c][call[k].name], cli[c].pos)
  IN /\ At(c, "send")
     /\ Cancelled(k) \/ Len(stream[k]) < Window
     /\ stream' = IF Cancelled(k) THEN stream ELSE [stream EXCEPT ![k] = Append(@, m)]
     /\ shut' = [shut EXCEPT ![k] = Short(m)]
     /\ cli' = [cli EXCEPT ![c].pos = @ + 1, ![c].pc = IF Short(m) THEN "wait" ELSE "send"]
     /\ UNCHANGED <<local, call, over, reply, srv, diskVars>>

\* Fetch: Read, write
Recv(c) ==
  LET k == Current(c) IN
  /\ At(c, "recv")
  /\ stream[k] # << >>
  /\ local' = [local EXCEPT ![c][call[k].name] = WriteAt(@, cli[c].pos, Head(stream[k]))]
  /\ stream' = [stream EXCEPT ![k] = Tail(@)]
  /\ cli' = [cli EXCEPT ![c].pos = IF Head(stream[k]) = Empty THEN @ ELSE @ + 1]
  /\ UNCHANGED <<call, over, shut, reply, srv, diskVars>>

\* Fetch: Read returns false
RecvEnd(c) ==
  LET k == Current(c) IN
  /\ At(c, "recv")
  /\ Cancelled(k) \/ (stream[k] = << >> /\ reply[k] # "none")
  /\ cli' = [cli EXCEPT ![c].pc = "wait"]
  /\ stream' = [stream EXCEPT ![k] = << >>]
  /\ UNCHANGED <<local, call, over, shut, reply, srv, diskVars>>

\* Mutant of Code: the status of a stream that was cut is not looked at
CodeIgnored(k) == IF reply[k] = "notfound" THEN "notfound" ELSE "ok"

\* The code of the call: Store and Stat turn NOT_FOUND into CANCELLED.
Code(k) ==
  LET s == IF Cancelled(k) THEN over[k] ELSE reply[k] IN
  IF s \in {"ok", "deadline"} \/ (s = "notfound" /\ call[k].cmd \in {"fetch", "delete"}) THEN s
  ELSE "cancelled"

\* Finish
Finish(c) ==
  LET k == Current(c) IN
  /\ At(c, "wait")
  /\ Cancelled(k) \/ reply[k] # "none"
  /\ Returns(c, Code(k))
  /\ UNCHANGED <<local, call, over, netVars, srv, diskVars>>

\* The deadline passes.
Expire(c) ==
  /\ ~At(c, "idle") /\ ~Cancelled(Current(c))
  /\ over' = [over EXCEPT ![Current(c)] = "deadline"]
  /\ UNCHANGED <<local, cli, call, netVars, srv, diskVars>>

\* exit(0) in the middle of a call, which the server sees as cancelled
HandleSignal(c) ==
  /\ ~At(c, "idle") /\ ~Cancelled(Current(c))
  /\ over' = [over EXCEPT ![Current(c)] = "killed"]
  /\ Returns(c, "killed")
  /\ UNCHANGED <<local, call, netVars, srv, diskVars>>
-----------------------------------------------------------------------------
(* The handlers of the server *)

Handler(k, pc) == srv[k].pc = pc
Goto(k, pc) == srv' = [srv EXCEPT ![k].pc = pc]
Answer(k, status) ==
  /\ srv' = [srv EXCEPT ![k] = [@ EXCEPT !.pc = "done", !.pos = 0, !.buf = Empty]]
  /\ reply' = [reply EXCEPT ![k] = status]

\* a call arrives, for a client that may be gone
Arrives(k, cmd) == Handler(k, "none") /\ call[k].cmd = cmd

\* IsCancelled at the start of StoreFile, DeleteFile, StatusFile and, once the
\* directory is open, ListFile
TooLate(k) ==
  /\ \E cmd \in {"store", "delete", "list", "stat"} : Arrives(k, cmd)
  /\ Cancelled(k)
  /\ Answer(k, "deadline")
  /\ UNCHANGED <<stream, diskVars>>

Exists(f) == f \in Dirs \/ dir[f] # None

StoreStart(k) ==
  /\ Arrives(k, "store") /\ ~Cancelled(k)
  /\ Goto(k, "first")
  /\ UNCHANGED <<stream, reply, diskVars>>

\* The first Read, which brings the name.
ReadFirst(k) ==
  /\ Handler(k, "first")
  /\ stream[k] # << >>
  /\ Goto(k, "open")
  /\ UNCHANGED <<stream, reply, diskVars>>

\* It fails: there is no name, the ofstream does not open, the status is OK.
ReadNothing(k) ==
  /\ Handler(k, "first")
  /\ Cancelled(k)
  /\ Answer(k, "ok")
  /\ UNCHANGED <<stream, diskVars>>

OpenStores(i) == {j \in Calls : srv[j].pc \in {"firstwrite", "write"} /\ srv[j].ino = i}
OpenFetches(i) == {j \in Calls : srv[j].pc \in {"read", "push"} /\ srv[j].ino = i}
Written(i, d) ==
  /\ disk' = [disk EXCEPT ![i] = d]
  /\ seen' = [j \in Calls |-> IF j \in OpenFetches(i) /\ d # disk[i] THEN None ELSE seen[j]]

\* std::ofstream: the file is truncated, or created
OpenTarget(k) ==
  LET f == call[k].name
      i == IF dir[f] = None THEN k ELSE dir[f]
  IN /\ Handler(k, "open")
     /\ f \in Files
     /\ dir' = [dir EXCEPT ![f] = i]
     /\ Written(i, << >>)
     /\ writers' = [writers EXCEPT ![i] = OpenStores(i) \union {k}]
     /\ srv' = [srv EXCEPT ![k].pc = "firstwrite", ![k].ino = i]
     /\ UNCHANGED <<stream, reply>>

\* It cannot be opened; the handler only says so, and goes on.
OpenFails(k) ==
  /\ Handler(k, "open")
  /\ call[k].name \in Dirs
  /\ Goto(k, "firstwrite")
  /\ UNCHANGED <<stream, reply, diskVars>>

\* outfile.write of the first message, or Read and write of another one: a short
\* one may stay in the buffer of the ofstream
WriteChunk(k) ==
  LET m == Head(stream[k])
      i == srv[k].ino
  IN /\ Handler(k, "firstwrite") \/ Handler(k, "write")
     /\ stream[k] # << >>
     /\ stream' = [stream EXCEPT ![k] = Tail(@)]
     /\ \/ /\ i # None
           /\ Written(i, WriteAt(disk[i], srv[k].pos, m))
           /\ srv' = [srv EXCEPT ![k].pc = "write", ![k].pos = @ + 1]
        \/ /\ i # None /\ Short(m)
           /\ srv' = [srv EXCEPT ![k].pc = "write", ![k].buf = m]
           /\ UNCHANGED <<disk, seen>>
        \/ /\ i = None
           /\ Goto(k, "write")
           /\ UNCHANGED <<disk, seen>>
     /\ UNCHANGED <<reply, dir, writers>>

\* Mutant of WriteEnd: what the ofstream buffers is lost
WriteEndUnflushed(k) ==
  /\ Handler(k, "write")
  /\ Cancelled(k) \/ (stream[k] = << >> /\ shut[k])
  /\ Answer(k, "ok")
  /\ UNCHANGED <<stream, diskVars>>

\* Read returns false; the ofstream is flushed and closed
WriteEnd(k) ==
  LET i == srv[k].ino IN
  /\ Handler(k, "write")
  /\ Cancelled(k) \/ (stream[k] = << >> /\ shut[k])
  /\ IF i = None THEN UNCHANGED <<disk, seen>>
     ELSE Written(i, WriteAt(disk[i], srv[k].pos, srv[k].buf))
  /\ Answer(k, "ok")
  /\ UNCHANGED <<stream, dir, writers>>

\* FetchFile: NOT_FOUND, or the file is open
FetchStart(k) ==
  LET f == call[k].name IN
  /\ Arrives(k, "fetch")
  /\ IF ~Exists(f) THEN Answer(k, "notfound") /\ UNCHANGED seen
     ELSE LET i == IF f \in Dirs THEN None ELSE dir[f] IN
          /\ srv' = [srv EXCEPT ![k].pc = "read", ![k].ino = i]
          /\ seen' = [seen EXCEPT ![k] = IF i = None THEN None ELSE disk[i]]
          /\ UNCHANGED reply
  /\ UNCHANGED <<stream, dir, disk, writers>>

\* Mutant of FetchCancelled: the loop does not look at IsCancelled
FetchCancelledIgnored(k) == FALSE /\ UNCHANGED part1Vars

\* IsCancelled in the loop
FetchCancelled(k) ==
  /\ Handler(k, "read")
  /\ Cancelled(k)
  /\ Answer(k, "deadline")
  /\ UNCHANGED <<stream, diskVars>>

\* infile.read; a directory can be opened but not read
ReadChunk(k) ==
  LET i == srv[k].ino IN
  /\ Handler(k, "read")
  /\ ~Cancelled(k)
  /\ srv' = [srv EXCEPT ![k].pc = "push",
                        ![k].buf = IF i = None THEN Empty ELSE ReadAt(disk[i], srv[k].pos)]
  /\ UNCHANGED <<stream, reply, diskVars>>

\* Write waits for room in the stream, or for the end of the call.  A read that
\* came back short has set eof, which ends the loop; one that failed has not.
PushChunk(k) ==
  LET m == srv[k].buf IN
  /\ Handler(k, "push")
  /\ \/ Cancelled(k) /\ UNCHANGED stream
     \/ /\ ~Cancelled(k) /\ Len(stream[k]) < Window
        /\ stream' = [stream EXCEPT ![k] = Append(@, m)]
  /\ IF srv[k].ino # None /\ Short(m) THEN Answer(k, "ok")
     ELSE /\ srv' = [srv EXCEPT ![k].pc = "read", ![k].buf = Empty,
                                ![k].pos = IF m = Empty THEN @ ELSE @ + 1]
          /\ UNCHANGED reply
  /\ UNCHANGED diskVars

\* DeleteFile: the file is there or not
DeleteStart(k) ==
  /\ Arrives(k, "delete") /\ ~Cancelled(k)
  /\ IF Exists(call[k].name) THEN Goto(k, "remove") /\ UNCHANGED reply
     ELSE Answer(k, "notfound")
  /\ UNCHANGED <<stream, diskVars>>

\* remove: whatever it returns, the status is OK; a directory that is in use stays
Remove(k) ==
  LET f == call[k].name IN
  /\ Handler(k, "remove")
  /\ dir' = IF f \in Dirs THEN dir ELSE [dir EXCEPT ![f] = None]
  /\ Answer(k, "ok")
  /\ UNCHANGED <<stream, disk, writers, seen>>

\* ListFile: the directory has at least its own entry; readdir and stat in a loop.
\* The answer is not kept: what a scan can miss is in DfsCallbacks.
ListFile(k) ==
  /\ Arrives(k, "list") /\ ~Cancelled(k)
  /\ Answer(k, "ok")
  /\ UNCHANGED <<stream, diskVars>>

StatusFile(k) ==
  /\ Arrives(k, "stat") /\ ~Cancelled(k)
  /\ Answer(k, IF Exists(call[k].name) THEN "ok" ELSE "notfound")
  /\ UNCHANGED <<stream, diskVars>>

Serve(k) ==
  /\ \/ TooLate(k) \/ StoreStart(k) \/ ReadFirst(k) \/ ReadNothing(k) \/ OpenTarget(k) \/ OpenFails(k)
     \/ WriteChunk(k) \/ WriteEnd(k)
     \/ FetchStart(k) \/ FetchCancelled(k) \/ ReadChunk(k) \/ PushChunk(k)
     \/ DeleteStart(k) \/ Remove(k) \/ ListFile(k) \/ StatusFile(k)
  /\ UNCHANGED <<local, cli, call, over, shut>>

Client(c) == Send(c) \/ Recv(c) \/ RecvEnd(c) \/ Finish(c)

ProcessCommand(c) ==
  \/ \E f \in Names : Store(c, f) \/ Fetch(c, f) \/ Unary(c, "delete", f) \/ Unary(c, "stat", f)
  \/ Unary(c, "list", None)

Part1Next ==
  \/ \E c \in Clients : ProcessCommand(c) \/ Client(c) \/ Expire(c) \/ HandleSignal(c)
  \/ \E k \in Calls : Serve(k)

Part1Spec == Part1Init /\ [][Part1Next]_part1Vars

\* Processes run, clocks go on, and a handler that has begun runs; gRPC need not
\* start the handler of a call that is over.
FairPart1Spec ==
  /\ Part1Spec
  /\ \A c \in Clients : WF_part1Vars(Client(c)) /\ WF_part1Vars(Expire(c))
  /\ \A k \in Calls : WF_part1Vars(srv[k].pc # "none" /\ Serve(k))
-----------------------------------------------------------------------------
(* Properties *)

Returned(c, cmd) == At(c, "idle") /\ cli[c].status = "ok" /\ call[Current(c)].cmd = cmd

\* A Store that returned OK, and whose handler had the file to itself from the
\* truncation on (no other handler, cancelled or not, has it open), has stored what the
\* mount directory holds, up to the last chunk: neither the buffer of the ofstream nor a
\* deadline that passed unnoticed between two messages has cut it.
StoredAlone ==
  \A c \in Clients :
    LET k == Current(c)
        i == srv[k].ino
    IN Returned(c, "store") /\ i # None /\ writers[i] = {k} => disk[i] = local[c][call[k].name]

\* A Fetch that returned OK has brought the file as it was when the handler opened
\* it, unless somebody wrote to it meanwhile; its removal does no harm.
FetchedAlone ==
  \A c \in Clients :
    LET k == Current(c) IN
    Returned(c, "fetch") /\ seen[k] # None => local[c][call[k].name] = seen[k]

\* Every command returns, and every handler that was started ends, even one that
\* reads from a client that is gone or sends a directory it can never read.
CallsEnd ==
  /\ \A c \in Clients : ~At(c, "idle") ~> At(c, "idle")
  /\ \A k \in Calls : srv[k].pc # "none" ~> srv[k].pc = "done"
=============================================================================
