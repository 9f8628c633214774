---------------------------- MODULE DfsCallbacks ----------------------------
(***************************************************************************)
(* The asynchronous CallbackList service of grpc/part2.  Every async       *)
(* thread creates a DFSCallData, which waits in queued_tags until the      *)
(* queue thread registers it with gRPC.  A call of a client completes the  *)
(* registration; the async thread that gets the tag from the completion    *)
(* queue creates a successor, lists the mount directory and finishes the   *)
(* call, and whoever gets the tag the second time deletes the object.      *)
(* queued_tags is guarded by queue_mutex; the directory changes meanwhile. *)
(***************************************************************************)
EXTENDS Integers, Sequences, FiniteSets

CONSTANTS
  Threads,      \* async threads (num_async_threads)
  Clients,
  Files,        \* a sequence: names in the order readdir returns them
  NObjects,     \* bound on DFSCallData objects
  MaxBacklog,   \* bound on finished objects whose tags nobody has taken yet
  MaxChanges,   \* bound on changes of the directory
  MaxFailures   \* bound on calls that fail or whose client dies

ASSUME CallbackAssumption ==
  /\ Threads # {} /\ IsFiniteSet(Threads)
  /\ Len(Files) \in Nat
  /\ NObjects \in Nat /\ NObjects > Cardinality(Threads)
  /\ MaxBacklog \in Nat /\ MaxChanges \in Nat /\ MaxFailures \in Nat

VARIABLES
  stage,     \* of an object: free, queued, registered, event, busy, finish, sent, broken, leaked
  peer,      \* the client whose call an object serves, or {}
  listing,   \* reply_ of an object: the names listed
  queue,     \* queued_tags
  marked,    \* how many of them have been registered in this pass
  scanning,  \* the queue thread holds queue_mutex
  tpc, cur,  \* async threads: where, and the object they serve
  entries,   \* positions in Files that readdir has not yet returned to an async thread
  steady,    \* history: entries that have existed since its opendir
  skipped,   \* history: a stat of it failed
  call,      \* the CallbackList call of a client
  seen,      \* the last listing a client received
  dir,       \* files in the mount directory
  changes, failures

threadVars == <<tpc, cur, entries, steady, skipped>>
clientVars == <<call, seen>>
queueVars == <<queue, marked, scanning>>
envVars == <<dir, changes, failures>>
vars == <<stage, peer, listing, queueVars, threadVars, clientVars, envVars>>

Objects == 1..NObjects
Names == {Files[i] : i \in 1..Len(Files)}

\* Run: the threads are started.  InitCallbackList of every client.
Init ==
  /\ stage = [o \in Objects |-> "free"]
  /\ peer = [o \in Objects |-> {}]
  /\ listing = [o \in Objects |-> {}]
  /\ queue = << >> /\ marked = 0 /\ scanning = FALSE
  /\ tpc = [t \in Threads |-> "start"]
  /\ cur = [t \in Threads |-> 0]
  /\ entries = [t \in Threads |-> {}]
  /\ steady = [t \in Threads |-> {}]
  /\ skipped = [t \in Threads |-> FALSE]
  /\ call = [c \in Clients |-> "calling"]
  /\ seen = [c \in Clients |-> {}]
  /\ dir = Names /\ changes = 0 /\ failures = 0
-----------------------------------------------------------------------------
(* Async threads: HandleAsyncRPC and DFSCallData::Proceed *)

Fresh == {o \in Objects : stage[o] = "free"}
Least(S) == CHOOSE x \in S : \A y \in S : x <= y
After(S) == {y \in S : \E x \in S : x < y}  \* without the least one

\* new DFSCallData, state CREATE: RequestCallback, under queue_mutex
NewCallData ==
  LET o == Least(Fresh) IN
  /\ ~scanning
  /\ Fresh # {}
  /\ stage' = [stage EXCEPT ![o] = "queued"]
  /\ queue' = Append(queue, o)
  /\ UNCHANGED <<marked, scanning>>

Start(t) ==
  /\ tpc[t] = "start"
  /\ NewCallData
  /\ tpc' = [tpc EXCEPT ![t] = "next"]
  /\ UNCHANGED <<peer, listing, cur, entries, steady, skipped, clientVars, envVars>>

\* Next delivers the tag of a request: state PROCESS
NextRequest(t) ==
  /\ tpc[t] = "next"
  /\ \E o \in Objects :
       /\ stage[o] = "event"
       /\ stage' = [stage EXCEPT ![o] = "busy"]
       /\ cur' = [cur EXCEPT ![t] = o]
  /\ tpc' = [tpc EXCEPT ![t] = "spawn"]
  /\ UNCHANGED <<peer, listing, queueVars, entries, steady, skipped, clientVars, envVars>>

\* Mutant of Spawn: no successor is created
SpawnNothing(t) ==
  /\ tpc[t] = "spawn"
  /\ tpc' = [tpc EXCEPT ![t] = "opendir"]
  /\ UNCHANGED <<stage, peer, listing, queueVars, cur, entries, steady, skipped, clientVars, envVars>>

\* The successor that will serve the next call
Spawn(t) ==
  /\ tpc[t] = "spawn"
  /\ NewCallData
  /\ tpc' = [tpc EXCEPT ![t] = "opendir"]
  /\ UNCHANGED <<peer, listing, cur, entries, steady, skipped, clientVars, envVars>>

\* ProcessCallback: opendir
OpenDir(t) ==
  /\ tpc[t] = "opendir"
  /\ tpc' = [tpc EXCEPT ![t] = "list"]
  /\ entries' = [entries EXCEPT ![t] = {i \in 1..Len(Files) : Files[i] \in dir}]
  /\ steady' = [steady EXCEPT ![t] = dir]
  /\ skipped' = [skipped EXCEPT ![t] = FALSE]
  /\ UNCHANGED <<stage, peer, listing, queueVars, cur, clientVars, envVars>>

\* Mutant of ListEntry: a successful stat skips an entry, too
ListEntrySkips(t) ==
  /\ tpc[t] = "list" /\ entries[t] # {}
  /\ Files[Least(entries[t])] \in dir
  /\ listing' = [listing EXCEPT ![cur[t]] = @ \union {Files[Least(entries[t])]}]
  /\ entries' = [entries EXCEPT ![t] = After(After(@))]
  /\ UNCHANGED <<stage, peer, queueVars, tpc, cur, steady, skipped, clientVars, envVars>>

\* readdir, stat, add_statusres
ListEntry(t) ==
  /\ tpc[t] = "list" /\ entries[t] # {}
  /\ Files[Least(entries[t])] \in dir
  /\ listing' = [listing EXCEPT ![cur[t]] = @ \union {Files[Least(entries[t])]}]
  /\ entries' = [entries EXCEPT ![t] = After(@)]
  /\ UNCHANGED <<stage, peer, queueVars, tpc, cur, steady, skipped, clientVars, envVars>>

\* stat fails: readdir, continue, and readdir again, so one more entry is left out
StatFails(t) ==
  /\ tpc[t] = "list" /\ entries[t] # {}
  /\ Files[Least(entries[t])] \notin dir
  /\ entries' = [entries EXCEPT ![t] = After(After(@))]
  /\ skipped' = [skipped EXCEPT ![t] = TRUE]
  /\ UNCHANGED <<stage, peer, listing, queueVars, tpc, cur, steady, clientVars, envVars>>

\* closedir; state FINISH, responder.Finish
Finish(t) ==
  /\ tpc[t] = "list" /\ entries[t] = {}
  /\ tpc' = [tpc EXCEPT ![t] = "next"]
  /\ stage' = [stage EXCEPT ![cur[t]] = "finish"]
  /\ cur' = [cur EXCEPT ![t] = 0]
  /\ steady' = [steady EXCEPT ![t] = {}]
  /\ skipped' = [skipped EXCEPT ![t] = FALSE]
  /\ UNCHANGED <<peer, listing, queueVars, entries, clientVars, envVars>>

\* Next delivers the tag again: delete this
NextFinish(t) ==
  /\ tpc[t] = "next"
  /\ \E o \in Objects : stage[o] = "sent" /\ stage' = [stage EXCEPT ![o] = "free"]
  /\ UNCHANGED <<peer, listing, queueVars, threadVars, clientVars, envVars>>

\* Next delivers the tag with !ok: continue, and nobody deletes the object
NextNotOk(t) ==
  /\ tpc[t] = "next"
  /\ \E o \in Objects : stage[o] = "broken" /\ stage' = [stage EXCEPT ![o] = "leaked"]
  /\ UNCHANGED <<peer, listing, queueVars, threadVars, clientVars, envVars>>

Async(t) ==
  \/ NextRequest(t) \/ OpenDir(t) \/ ListEntry(t) \/ StatFails(t) \/ Finish(t)
  \/ NextFinish(t) \/ NextNotOk(t)
-----------------------------------------------------------------------------
(* The queue thread: ProcessQueuedRequests *)

\* lock_guard
Scan ==
  /\ ~scanning
  /\ scanning' = TRUE
  /\ UNCHANGED <<stage, peer, listing, queue, marked, threadVars, clientVars, envVars>>

\* RequestCallbackList; finished = true
Register ==
  /\ scanning /\ marked < Len(queue)
  /\ stage' = [stage EXCEPT ![queue[marked + 1]] = "registered"]
  /\ marked' = marked + 1
  /\ UNCHANGED <<peer, listing, queue, scanning, threadVars, clientVars, envVars>>

\* Mutant of Erase: the finished tags stay in the vector
EraseNothing ==
  /\ scanning /\ marked = Len(queue)
  /\ marked' = 0
  /\ scanning' = FALSE
  /\ UNCHANGED <<stage, peer, listing, queue, threadVars, clientVars, envVars>>

\* Mutant of Erase: tags that are not finished are erased, too
EraseUnregistered ==
  /\ scanning
  /\ queue' = << >>
  /\ marked' = 0
  /\ scanning' = FALSE
  /\ UNCHANGED <<stage, peer, listing, threadVars, clientVars, envVars>>

\* erase what is finished; the guard is released
Erase ==
  /\ scanning /\ marked = Len(queue)
  /\ queue' = << >>
  /\ marked' = 0
  /\ scanning' = FALSE
  /\ UNCHANGED <<stage, peer, listing, threadVars, clientVars, envVars>>

QueueThread == Scan \/ Register \/ Erase
-----------------------------------------------------------------------------
(* gRPC and the clients *)

\* A call meets a registered request.
Match(c) ==
  /\ call[c] = "calling"
  /\ Cardinality({o \in Objects : stage[o] \in {"finish", "sent", "broken"}}) < MaxBacklog
  /\ \E o \in Objects :
       /\ stage[o] = "registered"
       /\ stage' = [stage EXCEPT ![o] = "event"]
       /\ peer' = [peer EXCEPT ![o] = {c}]
  /\ call' = [call EXCEPT ![c] = "matched"]
  /\ UNCHANGED <<listing, queueVars, threadVars, seen, envVars>>

\* The reply goes out, if the call is still there.
Deliver(o) ==
  /\ stage[o] = "finish"
  /\ stage' = [stage EXCEPT ![o] = IF peer[o] = {} THEN "broken" ELSE "sent"]
  /\ call' = [c \in Clients |-> IF c \in peer[o] THEN "answered" ELSE call[c]]
  /\ seen' = [c \in Clients |-> IF c \in peer[o] THEN listing[o] ELSE seen[c]]
  /\ peer' = [peer EXCEPT ![o] = {}]
  /\ listing' = [listing EXCEPT ![o] = {}]
  /\ UNCHANGED <<queueVars, threadVars, envVars>>

\* HandleCallbackList of the client, then InitCallbackList
Again(c) ==
  /\ call[c] = "answered"
  /\ call' = [call EXCEPT ![c] = "calling"]
  /\ UNCHANGED <<stage, peer, listing, queueVars, threadVars, seen, envVars>>

\* The call is lost, or its client: the server still serves it.  The client calls
\* again after DFS_RESET_TIMEOUT, or does not.
Fail(c) ==
  /\ failures < MaxFailures
  /\ failures' = failures + 1
  /\ call[c] \in {"calling", "matched"}
  /\ \E next \in {"calling", "gone"} : call' = [call EXCEPT ![c] = next]
  /\ peer' = [o \in Objects |-> peer[o] \ {c}]
  /\ UNCHANGED <<stage, listing, queueVars, threadVars, seen, dir, changes>>

\* StoreFile and DeleteFile change the directory at any time.
ChangeDir(f) ==
  /\ changes < MaxChanges
  /\ changes' = changes + 1
  /\ dir' = IF f \in dir THEN dir \ {f} ELSE dir \union {f}
  /\ steady' = [t \in Threads |-> steady[t] \ {f}]
  /\ UNCHANGED <<stage, peer, listing, queueVars, tpc, cur, entries, skipped, clientVars, failures>>

Next ==
  \/ \E t \in Threads : Start(t) \/ Spawn(t) \/ Async(t)
  \/ QueueThread
  \/ \E c \in Clients : Match(c) \/ Again(c) \/ Fail(c)
  \/ \E o \in Objects : Deliver(o)
  \/ \E f \in Names : ChangeDir(f)

Spec == Init /\ [][Next]_vars

\* Every thread runs.  The queue thread locks queue_mutex in a loop without a pause,
\* and nothing is assumed of who gets the mutex: weak fairness lets it starve Start
\* and Spawn forever.  gRPC accepts calls in the order in which they arrive, and its
\* completion queue hands out tags in order: strong fairness for Match, for taking the
\* tag of a client's call and for taking tags that are done with.
TakeCall(c) == \E t \in Threads : NextRequest(t) /\ c \in peer[cur'[t]]
TakeDone == \E t \in Threads : NextFinish(t) \/ NextNotOk(t)

FairSpec ==
  /\ Spec
  /\ \A t \in Threads : WF_vars(Async(t)) /\ WF_vars(Start(t) \/ Spawn(t))
  /\ WF_vars(QueueThread)
  /\ \A c \in Clients : SF_vars(Match(c)) /\ SF_vars(TakeCall(c)) /\ WF_vars(Again(c))
  /\ \A o \in Objects : WF_vars(Deliver(o))
  /\ SF_vars(TakeDone)
-----------------------------------------------------------------------------
(* Properties *)

Waiting == {o \in Objects : stage[o] \in {"queued", "registered", "event"}}

\* Whatever fails or dies, there are as many objects waiting for a call as there are
\* async threads, apart from threads that are about to create theirs: the service
\* neither loses a place to accept calls nor piles up waiting objects.
AlwaysArmed ==
  Cardinality(Waiting) + Cardinality({t \in Threads : tpc[t] \in {"start", "spawn"}})
    = Cardinality(Threads)

\* A tag is registered with gRPC once, and as long as it is in queued_tags its
\* object has not been finished or deleted, also when a call for it arrives while
\* the queue thread is still at work.
NoDanglingTag ==
  /\ \A i \in 1..Len(queue) :
       stage[queue[i]] \in IF i > marked THEN {"queued"} ELSE {"registered", "event", "busy"}
  /\ \A i, j \in 1..Len(queue) : queue[i] = queue[j] => i = j
  /\ \A t \in Threads : cur[t] # 0 => stage[cur[t]] = "busy"

\* A listing contains every file that has been there all the time, unless a file was
\* deleted between readdir and stat.
ListedAll ==
  \A t \in Threads :
    tpc[t] = "list" /\ ~skipped[t]
      => steady[t] \subseteq listing[cur[t]] \union {Files[i] : i \in entries[t]}

\* Async threads that wait for queue_mutex.
Blocked == {t \in Threads : tpc[t] \in {"start", "spawn"}}

\* The call of c is in the hands of a thread that waits for queue_mutex, or no
\* thread is left that does not.
Starved(c) == Blocked = Threads \/ \E t \in Blocked : cur[t] # 0 /\ c \in peer[cur[t]]

\* Once the directory no longer changes, every client that has not died knows it,
\* unless the loop of the queue thread keeps the thread that has its call, or all
\* async threads, away from queue_mutex forever: a thread that starves with the
\* call of a client that failed, or died, holds up nobody else.
CatchUp ==
  \A c \in Clients : <>[](call[c] = "gone" \/ seen[c] = dir) \/ <>[]Starved(c)
=============================================================================
