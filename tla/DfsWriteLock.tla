---------------------------- MODULE DfsWriteLock ----------------------------
(***************************************************************************)
(* Writing to the distributed file system of grpc/part2: the Store and     *)
(* Delete operations of the client node and the RPC handlers WriteLock,    *)
(* StoreFile and DeleteFile of the server node, which run concurrently and *)
(* share write_map and the mounted directory.                              *)
(*                                                                         *)
(* Every client call has a deadline.  When it passes the client gives up,  *)
(* and the handler, which looks at IsCancelled only when it starts, runs   *)
(* on.  The bytes of a version of a file are abstracted to its BUFSIZ      *)
(* chunks; a checksum is the content itself, with 0 for both an empty and  *)
(* a missing file as in dfs_file_checksum.                                 *)
(***************************************************************************)
EXTENDS Integers, Sequences

CONSTANTS
  Clients, Files,
  Versions,    \* contents a client may have in its mount directory
  NChunks,     \* [Versions -> number of chunks]
  Calls,       \* RPCs the server can be running at a time
  Deadlines,   \* whether a deadline can pass
  SmallTail,   \* whether the last chunk is below 1024 bytes: then the ofstream
               \* keeps it in its buffer until the stream is closed
  Nobody, Absent, Hole, NoCall

ASSUME DfsAssumption ==
  /\ NChunks \in [Versions -> Nat]
  /\ Nobody \notin Clients
  /\ NoCall \notin Calls
  /\ Deadlines \in BOOLEAN /\ SmallTail \in BOOLEAN

VARIABLES
  writeMap,   \* write_map: the client that holds the lock of a file
  disk,       \* the files in the mount directory of the server
  kpc,        \* where the handler of a call is; "free" when there is no call
  call,       \* its parameters and locals
  reply,      \* the status of a call that has returned
  cpc, op,    \* the clients: where, and the operation
  missed,     \* the files on which their last operation returned NOT_FOUND
  late,       \* history: some deadline has passed
  overtaken   \* history: the files that were last opened for writing while an
              \* earlier handler had not yet written the tail in its buffer
              \* (kept until a deadline passes)

serverVars == <<writeMap, disk>>
callVars == <<kpc, call, reply>>
clientVars == <<cpc, op, missed>>
vars == <<writeMap, disk, kpc, call, reply, cpc, op, missed, late, overtaken>>

Content(v) == [i \in 1..NChunks[v] |-> <<v, i>>]

\* Messages of a StoreFile stream: do-while not eof, so an empty file has one.
Messages(v) == IF NChunks[v] = 0 THEN 1 ELSE NChunks[v]

\* dfs_file_checksum
Checksum(d) == IF d = Absent THEN << >> ELSE d

\* write at a position of a file that may be shorter by now
WriteAt(d, i, x) ==
  [j \in 1..(IF i > Len(d) THEN i ELSE Len(d)) |->
     IF j = i THEN x ELSE IF j <= Len(d) THEN d[j] ELSE Hole]

NoArgs == [client |-> Nobody, file |-> Absent, ver |-> Absent, cancelled |-> FALSE,
           sent |-> 0, got |-> 0, linked |-> TRUE, buffered |-> FALSE]

Init ==
  /\ writeMap = [f \in Files |-> Nobody]
  /\ disk = [f \in Files |-> Absent]
  /\ kpc = [k \in Calls |-> "free"]
  /\ call = [k \in Calls |-> NoArgs]
  /\ reply = [k \in Calls |-> "none"]
  /\ cpc = [c \in Clients |-> "idle"]
  /\ op = [c \in Clients |-> [rpc |-> "none", call |-> NoCall]]
  /\ missed = [c \in Clients |-> {}]
  /\ late = FALSE
  /\ overtaken = {}
-----------------------------------------------------------------------------
(* The client node *)

\* Store (the local file exists, with some content) or Delete: calls
\* RequestWriteAccess, the WriteLock RPC.
Begin(c, rpc) ==
  /\ cpc[c] = "idle"
  /\ cpc' = [cpc EXCEPT ![c] = "access"]
  /\ \E k \in Calls, f \in Files, v \in IF rpc = "store" THEN Versions ELSE {Absent} :
       /\ kpc[k] = "free"
       /\ kpc' = [kpc EXCEPT ![k] = "lock"]
       /\ call' = [call EXCEPT ![k] = [NoArgs EXCEPT !.client = c, !.file = f, !.ver = v]]
       /\ op' = [op EXCEPT ![c] = [rpc |-> rpc, call |-> k]]
       /\ missed' = [missed EXCEPT ![c] = @ \ {f}]
  /\ UNCHANGED <<serverVars, reply>>

\* The operation of client c is over with the given status.
Outcome(c, st) ==
  /\ cpc' = [cpc EXCEPT ![c] = "idle"]
  /\ op' = [op EXCEPT ![c] = [rpc |-> "none", call |-> NoCall]]
  /\ missed' = [missed EXCEPT ![c] = IF st = "NOT_FOUND" THEN @ \union {call[op[c].call].file} ELSE @]

FreeCall(k) ==
  /\ kpc' = [kpc EXCEPT ![k] = "free"]
  /\ call' = [call EXCEPT ![k] = NoArgs]
  /\ reply' = [reply EXCEPT ![k] = "none"]

\* RequestWriteAccess returned OK: the RPC proper, StoreFile or DeleteFile
Granted(c) ==
  LET k == op[c].call IN
  /\ cpc[c] = "access"
  /\ kpc[k] = "returned"
  /\ reply[k] = "OK"
  /\ cpc' = [cpc EXCEPT ![c] = "finish"]
  /\ kpc' = [kpc EXCEPT ![k] = op[c].rpc]
  /\ reply' = [reply EXCEPT ![k] = "none"]
  /\ UNCHANGED <<serverVars, call, op, missed>>

\* RequestWriteAccess returned something else, which Store and Delete return
Refused(c) ==
  LET k == op[c].call IN
  /\ cpc[c] = "access"
  /\ kpc[k] = "returned"
  /\ reply[k] # "OK"
  /\ Outcome(c, reply[k])
  /\ FreeCall(k)
  /\ UNCHANGED serverVars

\* Mutant of SendChunk: the end of the local file is not noticed
SendChunkPastEof(c) ==
  LET k == op[c].call IN
  /\ cpc[c] = "finish"
  /\ op[c].rpc = "store"
  /\ call[k].sent <= Messages(call[k].ver)
  /\ call' = [call EXCEPT ![k].sent = @ + 1]
  /\ UNCHANGED <<serverVars, kpc, reply, clientVars>>

\* writer->Write(file), until the end of the local file
SendChunk(c) ==
  LET k == op[c].call IN
  /\ cpc[c] = "finish"
  /\ op[c].rpc = "store"
  /\ call[k].sent < Messages(call[k].ver)
  /\ call' = [call EXCEPT ![k].sent = @ + 1]
  /\ UNCHANGED <<serverVars, kpc, reply, clientVars>>

\* Finish: the status of the RPC, as Store and Delete translate it
Finished(c) ==
  LET k == op[c].call IN
  /\ cpc[c] = "finish"
  /\ kpc[k] = "returned"
  /\ Outcome(c, IF reply[k] = "RESOURCE_EXHAUSTED" THEN "CANCELLED" ELSE reply[k])
  /\ FreeCall(k)
  /\ UNCHANGED serverVars

\* The deadline passes first.  If the handler still runs, its context is cancelled.
Deadline(c) ==
  LET k == op[c].call IN
  /\ Deadlines
  /\ cpc[c] # "idle"
  /\ Outcome(c, "DEADLINE_EXCEEDED")
  /\ IF kpc[k] = "returned" THEN FreeCall(k)
     ELSE call' = [call EXCEPT ![k].cancelled = TRUE] /\ UNCHANGED <<kpc, reply>>
  /\ UNCHANGED serverVars
-----------------------------------------------------------------------------
(* The handlers of the server node *)

\* A handler goes on.
Goto(k, from, to) ==
  /\ kpc[k] = from
  /\ kpc' = [kpc EXCEPT ![k] = to]
  /\ UNCHANGED <<reply, clientVars>>

\* A handler returns.  Nobody waits for the status of a cancelled call.
Return(k, st) ==
  /\ IF call[k].cancelled THEN FreeCall(k)
     ELSE /\ kpc' = [kpc EXCEPT ![k] = "returned"]
          /\ reply' = [reply EXCEPT ![k] = st]
          /\ UNCHANGED call
  /\ UNCHANGED clientVars

\* if (context->IsCancelled()) return DEADLINE_EXCEEDED
Start(k, from, to) ==
  \/ /\ Goto(k, from, to)
     /\ ~call[k].cancelled
     /\ UNCHANGED <<serverVars, call>>
  \/ /\ kpc[k] = from
     /\ call[k].cancelled
     /\ Return(k, "DEADLINE_EXCEEDED")
     /\ UNCHANGED serverVars

\* CheckLock succeeds: the file is not locked, or by this client itself
Available(k) == writeMap[call[k].file] \in {Nobody, call[k].client}

\* Mutant of TakeLock: the owner is not recorded
TakeLockForgotten(k) == writeMap' = [writeMap EXCEPT ![call[k].file] = @]

\* write_map[name] = client_id
TakeLock(k) == writeMap' = [writeMap EXCEPT ![call[k].file] = call[k].client]

\* ReleaseLock, whoever holds it
ReleaseLock(k) == writeMap' = [writeMap EXCEPT ![call[k].file] = Nobody]

\* WriteLock
WriteLock(k) ==
  /\ kpc[k] = "lockCheck"
  /\ \/ Available(k) /\ TakeLock(k) /\ Return(k, "OK")
     \/ ~Available(k) /\ Return(k, "RESOURCE_EXHAUSTED") /\ UNCHANGED writeMap
  /\ UNCHANGED disk

\* CheckLock in StoreFile and DeleteFile
CheckLock(k, from, to) ==
  /\ kpc[k] = from
  /\ \/ Available(k) /\ TakeLock(k) /\ Goto(k, from, to) /\ UNCHANGED call
     \/ ~Available(k) /\ Return(k, "RESOURCE_EXHAUSTED") /\ UNCHANGED writeMap
  /\ UNCHANGED disk

\* StoreFile: the first reader->Read
ReadFirst(k) ==
  /\ Goto(k, "storeRead", "storeCheck")
  /\ call[k].sent > 0
  /\ UNCHANGED <<serverVars, call>>

\* It fails: the message is empty, so the handler locks the file "", compares the
\* checksum of the directory, which is 0 too, and releases "".
ReadFirstFails(k) ==
  /\ kpc[k] = "storeRead"
  /\ call[k].cancelled
  /\ Return(k, "ALREADY_EXISTS")
  /\ UNCHANGED serverVars

SameChecksum(k) == Checksum(disk[call[k].file]) = Content(call[k].ver)

\* Mutant of AlreadyExists: no ReleaseLock
AlreadyExistsKeepsLock(k) ==
  /\ kpc[k] = "storeCompare"
  /\ SameChecksum(k)
  /\ Return(k, "ALREADY_EXISTS")
  /\ UNCHANGED serverVars

\* file.crc() == crc
AlreadyExists(k) ==
  /\ kpc[k] = "storeCompare"
  /\ SameChecksum(k)
  /\ ReleaseLock(k)
  /\ Return(k, "ALREADY_EXISTS")
  /\ UNCHANGED disk

\* the crc differs
Differs(k) ==
  /\ Goto(k, "storeCompare", "storeOpen")
  /\ ~SameChecksum(k)
  /\ UNCHANGED <<serverVars, call>>

\* A handler has released the lock of f and has yet to write its tail there.
Flushing(f) ==
  \E l \in Calls : kpc[l] = "storeClose" /\ call[l].file = f /\ call[l].buffered /\ call[l].linked

\* std::ofstream outfile(...) creates or truncates the file
Open(k) ==
  LET f == call[k].file IN
  /\ Goto(k, "storeOpen", "storeWrite")
  /\ disk' = [disk EXCEPT ![f] = << >>]
  /\ overtaken' = IF Flushing(f) /\ ~late THEN overtaken \union {f} ELSE overtaken \ {f}
  /\ UNCHANGED <<writeMap, call>>

OpenFails(k) ==
  /\ kpc[k] = "storeOpen"
  /\ ReleaseLock(k)
  /\ Return(k, "CANCELLED")
  /\ UNCHANGED disk

\* outfile.write reaches the file, unless the file has been removed meanwhile
Put(k, i) ==
  IF call[k].linked /\ i <= NChunks[call[k].ver]
  THEN disk' = [disk EXCEPT ![call[k].file] = WriteAt(@, i, <<call[k].ver, i>>)]
  ELSE UNCHANGED disk

\* outfile.write(file.content().c_str(), file.size())
Write(k) ==
  LET i == call[k].got + 1
      keep == SmallTail /\ i = NChunks[call[k].ver]
  IN
  /\ Goto(k, "storeWrite", "storeNext")
  /\ IF keep THEN UNCHANGED disk ELSE Put(k, i)
  /\ call' = [call EXCEPT ![k].got = i, ![k].buffered = keep]
  /\ UNCHANGED writeMap

\* reader->Read delivers the next message
ReadNext(k) ==
  /\ Goto(k, "storeNext", "storeWrite")
  /\ call[k].sent > call[k].got
  /\ UNCHANGED <<serverVars, call>>

\* Mutant of ReadEnd: only one more message is read
ReadEndEarly(k) ==
  /\ Goto(k, "storeNext", "storeRelease")
  /\ UNCHANGED <<serverVars, call>>

\* Mutant of ReadEnd: a cancelled call goes on waiting for messages
ReadEndWaits(k) ==
  /\ Goto(k, "storeNext", "storeRelease")
  /\ call[k].got = Messages(call[k].ver)
  /\ UNCHANGED <<serverVars, call>>

\* reader->Read returns false: the stream is done, or the call is cancelled
ReadEnd(k) ==
  /\ Goto(k, "storeNext", "storeRelease")
  /\ call[k].got = Messages(call[k].ver) \/ call[k].cancelled
  /\ UNCHANGED <<serverVars, call>>

\* ReleaseLock(file.name())
Release(k) ==
  /\ Goto(k, "storeRelease", "storeClose")
  /\ ReleaseLock(k)
  /\ UNCHANGED <<disk, call>>

\* return: the destructor of outfile writes what is left in its buffer
Close(k) ==
  /\ kpc[k] = "storeClose"
  /\ IF call[k].buffered THEN Put(k, call[k].got) ELSE UNCHANGED disk
  /\ Return(k, "OK")
  /\ UNCHANGED writeMap

\* DeleteFile: the file cannot be opened.  The lock the client asked for stays.
DeleteMissing(k) ==
  /\ kpc[k] = "deleteTest"
  /\ disk[call[k].file] = Absent
  /\ Return(k, "NOT_FOUND")
  /\ UNCHANGED serverVars

DeleteFound(k) ==
  /\ Goto(k, "deleteTest", "deleteCheck")
  /\ disk[call[k].file] # Absent
  /\ UNCHANGED <<serverVars, call>>

\* remove.  A stream that has the file open goes on writing to nowhere.
Remove(k) ==
  /\ Goto(k, "deleteRemove", "deleteRelease")
  /\ disk' = [disk EXCEPT ![call[k].file] = Absent]
  /\ call' = [l \in Calls |->
       IF call[l].file = call[k].file /\ kpc[l] \in {"storeWrite", "storeNext", "storeRelease", "storeClose"}
       THEN [call[l] EXCEPT !.linked = FALSE] ELSE call[l]]
  /\ UNCHANGED writeMap

DeleteRelease(k) ==
  /\ kpc[k] = "deleteRelease"
  /\ ReleaseLock(k)
  /\ Return(k, "OK")
  /\ UNCHANGED disk

Handler(k) ==
  \/ Open(k)
  \/ /\ \/ Start(k, "lock", "lockCheck") \/ WriteLock(k)
        \/ Start(k, "store", "storeRead") \/ ReadFirst(k) \/ ReadFirstFails(k)
        \/ CheckLock(k, "storeCheck", "storeCompare") \/ AlreadyExists(k) \/ Differs(k)
        \/ OpenFails(k) \/ Write(k) \/ ReadNext(k) \/ ReadEnd(k)
        \/ Release(k) \/ Close(k)
        \/ Start(k, "delete", "deleteTest") \/ DeleteMissing(k) \/ DeleteFound(k)
        \/ CheckLock(k, "deleteCheck", "deleteRemove") \/ Remove(k) \/ DeleteRelease(k)
     /\ UNCHANGED overtaken

Client(c) == Granted(c) \/ Refused(c) \/ SendChunk(c) \/ Finished(c)

InTime ==
  \/ \E c \in Clients : (Begin(c, "store") \/ Begin(c, "delete") \/ Client(c)) /\ UNCHANGED overtaken
  \/ \E k \in Calls : Handler(k)

Next ==
  \/ InTime /\ UNCHANGED late
  \/ (\E c \in Clients : Deadline(c)) /\ late' = TRUE /\ overtaken' = {}

Spec == Init /\ [][Next]_vars

\* Handlers run, and so does a client with an operation under way.  That a
\* deadline passes is not assumed.
FairSpec ==
  /\ Spec
  /\ \A k \in Calls : WF_vars(Handler(k) /\ UNCHANGED late)
  /\ \A c \in Clients : WF_vars(Client(c) /\ UNCHANGED <<late, overtaken>>)
-----------------------------------------------------------------------------
(* Properties *)

CallPC == {"free", "returned", "lock", "lockCheck", "store", "storeRead", "storeCheck",
           "storeCompare", "storeOpen", "storeWrite", "storeNext", "storeRelease",
           "storeClose", "delete", "deleteTest", "deleteCheck", "deleteRemove",
           "deleteRelease"}

Status == {"none", "OK", "ALREADY_EXISTS", "NOT_FOUND", "CANCELLED",
           "RESOURCE_EXHAUSTED", "DEADLINE_EXCEEDED"}

\* Every variable has its type.
TypeOK ==
  /\ writeMap \in [Files -> Clients \union {Nobody}]
  /\ kpc \in [Calls -> CallPC]
  /\ \A k \in Calls : kpc[k] # "free" =>
       /\ call[k].client \in Clients /\ call[k].file \in Files
       /\ \/ call[k].ver = Absent /\ call[k].sent = 0 /\ call[k].got = 0
          \/ /\ call[k].ver \in Versions
             /\ call[k].got <= call[k].sent /\ call[k].sent <= Messages(call[k].ver)
  /\ reply \in [Calls -> Status]
  /\ cpc \in [Clients -> {"idle", "access", "finish"}]
  /\ \A c \in Clients : op[c].rpc \in {"none", "store", "delete"}
                        /\ op[c].call \in Calls \union {NoCall}
  /\ missed \in [Clients -> SUBSET Files]
  /\ late \in BOOLEAN /\ overtaken \subseteq Files

\* Between CheckLock and ReleaseLock.
Locked == {"storeCompare", "storeOpen", "storeWrite", "storeNext", "storeRelease",
           "deleteRemove", "deleteRelease"}

\* "Only one client may write to the server at any given time": while a handler
\* is between CheckLock and ReleaseLock, no handler of another client is, for
\* the same file.
OneWriter ==
  \A k, l \in Calls :
    kpc[k] \in Locked /\ kpc[l] \in Locked /\ call[k].file = call[l].file
      => call[k].client = call[l].client

\* As long as no deadline has passed, it is so.
OneWriterInTime == late \/ OneWriter

Writing == {"storeWrite", "storeNext", "storeRelease", "storeClose"}

\* When no handler has the file open and no deadline has passed, the server holds
\* the whole of a version some client stored, not a mixture of two.  ReleaseLock
\* comes before the flush of the last bytes, so this leaves out a file that was
\* last opened by a handler which got the lock between the two.
StoredWhole ==
  \A f \in Files :
    ~late /\ f \notin overtaken /\ (\A k \in Calls : kpc[k] \in Writing => call[k].file # f) /\ disk[f] # Absent
      => \E v \in Versions : disk[f] = Content(v)

\* A client that is not working on a file does not keep it locked: as long as no
\* deadline has passed, the lock is left behind only by a DeleteFile that answers
\* NOT_FOUND.
NoStrayLock ==
  \A f \in Files, c \in Clients :
    ~late /\ writeMap[f] = c /\ (\A k \in Calls : kpc[k] # "free" /\ call[k].client = c => call[k].file # f)
      => f \in missed[c]

\* Every call ends on the server, also one whose client has given up halfway
\* through the stream, and so does every operation of a client.
CallsEnd ==
  /\ \A k \in Calls : kpc[k] # "free" ~> kpc[k] = "free"
  /\ \A c \in Clients : cpc[c] # "idle" ~> cpc[c] = "idle"
=============================================================================
