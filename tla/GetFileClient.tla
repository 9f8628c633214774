--------------------------- MODULE GetFileClient ---------------------------
(***************************************************************************)
(* The multithreaded getfile client, multithreading/mtgf/                  *)
(* gfclient_download.c: the boss (main) puts requests on a steque under a  *)
(* mutex and signals a condition variable; workers pop them and download.  *)
(* A last item "Done" stops the workers: whoever pops it puts it back for  *)
(* the others.  The counter of localPath and the global returncode are     *)
(* shared without a lock, and are read and written in separate steps.      *)
(***************************************************************************)
EXTENDS Integers, Sequences, FiniteSets

CONSTANTS
  Workers,
  NRequests,  \* nrequests
  Workload,   \* the paths of the workload file, a sequence
  Failures,   \* whether gfc_perform may fail
  Spurious,   \* whether pthread_cond_wait may return without a signal
  Boss, Free, \* owners of the mutex: the boss, nobody
  Done        \* the item that ends the workers

ASSUME ClientAssumption ==
  /\ IsFiniteSet(Workers) /\ Workers # {}  \* main refuses nthreads < 1
  /\ NRequests \in Nat
  /\ Len(Workload) > 0
  /\ Failures \in BOOLEAN /\ Spurious \in BOOLEAN
  /\ Boss \notin Workers /\ Free \notin Workers /\ Boss # Free
  /\ Done \notin Nat

VARIABLES
  mutex,       \* who holds m_client
  queue,       \* the steque: requests by number, and Done
  bpc, posted, \* the boss: where, and how many requests it has enqueued
  wpc,         \* the workers: where
  item,        \* what a worker has popped
  counter,     \* the static counter of localPath
  returncode,  \* the global returncode
  local,       \* locals of a worker: counter value, file name, outcome
  files,       \* the local files that exist
  over,        \* history: the requests a worker is through with
  downloaded,  \* [requests -> set of local names it was completely received in]
  raced        \* history: two workers were inside one of the unlocked accesses

vars == <<mutex, queue, bpc, posted, wpc, item, counter, returncode, local, files, downloaded, over, raced>>

Requests == 0..(NRequests - 1)

\* workload_get_path, called by the boss only
Path(i) == Workload[(i % Len(Workload)) + 1]

\* Outcomes of gfc_perform, which mtgf takes from a binary gfclient.o: return code
\* and status, as far as this program tells them apart.  -1 may follow an OK header;
\* a crash inside gfc_perform is not modelled.
Outcomes ==
  {[rc |-> 0, ok |-> TRUE]} \union
  IF Failures THEN {[rc |-> 0, ok |-> FALSE], [rc |-> -1, ok |-> FALSE],
                    [rc |-> -1, ok |-> TRUE], [rc |-> 2, ok |-> FALSE]} ELSE {}

NoLocal == [seen |-> 0, name |-> << >>, rc |-> 0, ok |-> FALSE]

Init ==
  /\ mutex = Free
  /\ queue = << >>
  /\ bpc = "lock" /\ posted = 0
  /\ wpc = [w \in Workers |-> "lock"]
  /\ item = [w \in Workers |-> Done]
  /\ counter = 0
  /\ returncode = 0
  /\ local = [w \in Workers |-> NoLocal]
  /\ files = {}
  /\ downloaded = [i \in Requests |-> {}]
  /\ over = {}
  /\ raced = FALSE
-----------------------------------------------------------------------------
(* The boss *)

BossLock ==
  /\ bpc = "lock"
  /\ mutex = Free
  /\ mutex' = Boss
  /\ bpc' = "put"
  /\ UNCHANGED <<queue, posted, wpc, item, counter, returncode, local, files, downloaded, over>>

\* steque_enqueue(queue, req_path), or "Done" after the last one; unlock
BossPut ==
  /\ bpc = "put"
  /\ queue' = Append(queue, IF posted < NRequests THEN posted ELSE Done)
  /\ posted' = posted + 1
  /\ mutex' = Free
  /\ bpc' = "signal"
  /\ UNCHANGED <<wpc, item, counter, returncode, local, files, downloaded, over>>

Waiting == {w \in Workers : wpc[w] = "wait"}

\* pthread_cond_signal: wakes one waiting worker, if there is one
BossSignal ==
  /\ bpc = "signal"
  /\ bpc' = IF posted <= NRequests THEN "lock" ELSE "join"
  /\ \/ Waiting = {} /\ UNCHANGED wpc
     \/ \E w \in Waiting : wpc' = [wpc EXCEPT ![w] = "woken"]
  /\ UNCHANGED <<mutex, queue, posted, item, counter, returncode, local, files, downloaded, over>>

\* Mutant of BossJoin: the workers are not joined
BossNoJoin ==
  /\ bpc = "join"
  /\ bpc' = "exit"
  /\ UNCHANGED <<mutex, queue, posted, wpc, item, counter, returncode, local, files, downloaded, over>>

\* pthread_join of every worker, steque_destroy, return
BossJoin ==
  /\ bpc = "join"
  /\ \A w \in Workers : wpc[w] = "exit"
  /\ bpc' = "exit"
  /\ UNCHANGED <<mutex, queue, posted, wpc, item, counter, returncode, local, files, downloaded, over>>
-----------------------------------------------------------------------------
(* A worker *)

Goto(w, from, to) == wpc[w] = from /\ wpc' = [wpc EXCEPT ![w] = to]

\* pthread_mutex_lock, or the return of pthread_cond_wait
Lock(w) ==
  /\ Goto(w, "lock", "check") \/ Goto(w, "woken", "check")
  /\ mutex = Free
  /\ mutex' = w
  /\ UNCHANGED <<queue, bpc, posted, item, counter, returncode, local, files, downloaded, over>>

\* steque_isempty: pthread_cond_wait
Wait(w) ==
  /\ Goto(w, "check", "wait")
  /\ queue = << >>
  /\ mutex' = Free
  /\ UNCHANGED <<queue, bpc, posted, item, counter, returncode, local, files, downloaded, over>>

\* pthread_cond_wait may return on its own
WakeUp(w) ==
  /\ Spurious
  /\ Goto(w, "wait", "woken")
  /\ UNCHANGED <<mutex, queue, bpc, posted, item, counter, returncode, local, files, downloaded, over>>

\* Mutant of Pop: steque_pop is called for the test and again for the item
PopTwice(w) ==
  /\ Goto(w, "check", "broadcast")
  /\ Len(queue) > 1
  /\ item' = [item EXCEPT ![w] = queue[2]]
  /\ queue' = IF queue[2] = Done THEN <<Done>> ELSE Tail(Tail(queue))
  /\ mutex' = Free
  /\ UNCHANGED <<bpc, posted, counter, returncode, local, files, downloaded, over>>

\* steque_pop; "Done" is enqueued again; unlock
Pop(w) ==
  /\ Goto(w, "check", "broadcast")
  /\ queue # << >>
  /\ item' = [item EXCEPT ![w] = Head(queue)]
  /\ queue' = IF Head(queue) = Done THEN Append(Tail(queue), Done) ELSE Tail(queue)
  /\ mutex' = Free
  /\ UNCHANGED <<bpc, posted, counter, returncode, local, files, downloaded, over>>

\* Mutant of Broadcast: nobody is woken
BroadcastForgotten(w) ==
  /\ Goto(w, "broadcast", IF item[w] = Done THEN "exit" ELSE "load")
  /\ UNCHANGED <<mutex, queue, bpc, posted, item, counter, returncode, local, files, downloaded, over>>

\* pthread_cond_broadcast; if (done == 1) break
Broadcast(w) ==
  /\ wpc[w] = "broadcast"
  /\ wpc' = [u \in Workers |->
       IF u = w THEN IF item[w] = Done THEN "exit" ELSE "load"
       ELSE IF wpc[u] = "wait" THEN "woken" ELSE wpc[u]]
  /\ UNCHANGED <<mutex, queue, bpc, posted, item, counter, returncode, local, files, downloaded, over>>

\* localPath, counter++: the read ...
LoadCounter(w) ==
  /\ Goto(w, "load", "store")
  /\ local' = [local EXCEPT ![w] = [NoLocal EXCEPT !.seen = counter]]
  /\ UNCHANGED <<mutex, queue, bpc, posted, item, counter, returncode, files, downloaded, over>>

\* Mutant of StoreCounter: the counter is advanced twice
StoreCounterTwice(w) ==
  /\ Goto(w, "store", "open")
  /\ counter' = local[w].seen + 2
  /\ local' = [local EXCEPT ![w].name = <<Path(item[w]), local[w].seen>>]
  /\ UNCHANGED <<mutex, queue, bpc, posted, item, returncode, files, downloaded, over>>

\* ... and the write; the name is the path followed by the number
StoreCounter(w) ==
  /\ Goto(w, "store", "open")
  /\ counter' = local[w].seen + 1
  /\ local' = [local EXCEPT ![w].name = <<Path(item[w]), local[w].seen>>]
  /\ UNCHANGED <<mutex, queue, bpc, posted, item, returncode, files, downloaded, over>>

\* openFile: the directories, fopen(path, "w")
OpenFile(w) ==
  /\ Goto(w, "open", "perform")
  /\ files' = files \union {local[w].name}
  /\ UNCHANGED <<mutex, queue, bpc, posted, item, counter, returncode, local, downloaded, over>>

\* returncode = gfc_perform(&gfr): the write of returncode ...
Perform(w) ==
  /\ Goto(w, "perform", "test")
  /\ \E o \in Outcomes :
       /\ returncode' = o.rc
       /\ local' = [local EXCEPT ![w].rc = o.rc, ![w].ok = o.ok]
       /\ downloaded' = IF o.rc = 0 /\ o.ok
                        THEN [downloaded EXCEPT ![item[w]] = @ \union {local[w].name}]
                        ELSE downloaded
  /\ UNCHANGED <<mutex, queue, bpc, posted, item, counter, files, over>>

\* Mutant of Test: what a failed transfer leaves is kept
TestKeeps(w) ==
  /\ Goto(w, "test", "status")
  /\ UNCHANGED <<mutex, queue, bpc, posted, item, counter, returncode, local, files, downloaded, over>>

\* ... and the test, which reads it back; fclose, unlink if it is negative
Test(w) ==
  /\ Goto(w, "test", "status")
  /\ files' = IF returncode < 0 THEN files \ {local[w].name} ELSE files
  /\ UNCHANGED <<mutex, queue, bpc, posted, item, counter, returncode, local, downloaded, over>>

\* unlink (again) if the status is not GF_OK; gfc_cleanup
CheckStatus(w) ==
  /\ Goto(w, "status", "lock")
  /\ files' = IF local[w].ok THEN files ELSE files \ {local[w].name}
  /\ item' = [item EXCEPT ![w] = Done]
  /\ local' = [local EXCEPT ![w] = NoLocal]
  /\ over' = over \union {item[w]}
  /\ UNCHANGED <<mutex, queue, bpc, posted, counter, returncode, downloaded>>

BossStep == BossLock \/ BossPut \/ BossSignal \/ BossJoin

Step(w) ==
  \/ Lock(w) \/ Wait(w) \/ Pop(w) \/ Broadcast(w) \/ LoadCounter(w) \/ StoreCounter(w)
  \/ OpenFile(w) \/ Perform(w) \/ Test(w) \/ CheckStatus(w)

\* main returned: the process is over
Exited == bpc = "exit" /\ UNCHANGED vars

\* Two workers between the read and the write of counter, or between the write and
\* the read of returncode.
Racing == \E pc \in {"store", "test"} : Cardinality({w \in Workers : wpc[w] = pc}) > 1

Runs(A) == A /\ raced' = (raced \/ Racing')

Next == Runs(BossStep) \/ (\E w \in Workers : Runs(Step(w)) \/ Runs(WakeUp(w))) \/ Exited

Spec == Init /\ [][Next]_vars

\* Threads run; nothing is assumed about the order in which the mutex is granted.
FairSpec == Spec /\ WF_vars(Runs(BossStep)) /\ \A w \in Workers : WF_vars(Runs(Step(w)))
-----------------------------------------------------------------------------
(* Properties *)

\* Every variable has its type; localPath never numbers a file past the requests.
TypeOK ==
  /\ mutex \in Workers \union {Boss, Free}
  /\ queue \in Seq(Requests \union {Done})
  /\ bpc \in {"lock", "put", "signal", "join", "exit"}
  /\ posted \in 0..(NRequests + 1)
  /\ wpc \in [Workers -> {"lock", "check", "wait", "woken", "broadcast", "load", "store",
                          "open", "perform", "test", "status", "exit"}]
  /\ item \in [Workers -> Requests \union {Done}]
  /\ counter \in 0..NRequests
  /\ returncode \in {-1, 0, 2}
  /\ over \subseteq Requests
  /\ raced \in BOOLEAN

\* Every request posted so far is in the queue, in the hands of one worker, or over;
\* none is lost, taken twice or left behind the item that ends the workers.
ExactlyOnce ==
  /\ \A r \in Requests : r < posted =>
       \/ \E i \in 1..Len(queue) : queue[i] = r
       \/ \E w \in Workers : item[w] = r
       \/ r \in over
  /\ \A r \in over : (\A i \in 1..Len(queue) : queue[i] # r) /\ (\A w \in Workers : item[w] # r)
  /\ \A i, j \in 1..Len(queue) : queue[i] = queue[j] => i = j
  /\ \A i \in 1..Len(queue) : queue[i] = Done => i = Len(queue)
  /\ \A w \in Workers : item[w] # Done =>
       /\ \A i \in 1..Len(queue) : queue[i] # item[w]
       /\ \A u \in Workers : item[u] = item[w] => u = w

\* When main returns, and destroys the queue, every request has been processed
\* and no worker uses the queue any more: only Done is left in it.
CleanShutdown ==
  bpc = "exit" =>
    /\ queue = <<Done>>
    /\ \A w \in Workers : wpc[w] = "exit" /\ item[w] = Done
    /\ over = Requests
    /\ \A i \in Requests : Cardinality(downloaded[i]) \in IF Failures THEN {0, 1} ELSE {1}

\* What is left on the disk in the end is exactly what was received completely, in
\* a file of its own for every request, unless workers were inside the unlocked
\* accesses to counter and returncode at the same time: those two races are the
\* only way to lose or to keep a wrong file.
LocalCopies ==
  bpc = "exit" /\ ~raced =>
    /\ files = UNION {downloaded[i] : i \in Requests}
    /\ \A i, j \in Requests : i # j => downloaded[i] \intersect downloaded[j] = {}

\* The client ends, whoever gets the mutex: no wakeup is lost and no worker waits
\* for ever, unless spurious wakeups go on and on.
Termination == <>(bpc = "exit") \/ []<><<\E w \in Workers : Runs(WakeUp(w))>>_vars
=============================================================================
