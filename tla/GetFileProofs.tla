--------------------------- MODULE GetFileProofs ---------------------------
(***************************************************************************)
(* The proofs about two parts of multithreading: that GetFileClient keeps  *)
(* its safety properties for any number of workers and requests and any    *)
(* workload and, below, StreamPrograms its own for any files, messages,    *)
(* buffer size and number of clients.                                      *)
(***************************************************************************)
EXTENDS GetFileClient, StreamPrograms, FiniteSetTheorems, SequenceTheorems, WellFoundedInduction, TLAPS

WorkerPC == {"lock", "check", "wait", "woken", "broadcast", "load", "store",
             "open", "perform", "test", "status", "exit"}

\* A worker is busy with a request; it has a local file name for it.
Busy == {"broadcast", "load", "store", "open", "perform", "test", "status"}
Named == {"open", "perform", "test", "status"}

Types ==
  /\ mutex \in Workers \union {Boss, Free}
  /\ queue \in Seq(Requests \union {Done})
  /\ bpc \in {"lock", "put", "signal", "join", "exit"}
  /\ posted \in 0..(NRequests + 1)
  /\ wpc \in [Workers -> WorkerPC]
  /\ item \in [Workers -> Requests \union {Done}]
  /\ counter \in Nat
  /\ returncode \in {-1, 0, 2}
  /\ DOMAIN local = Workers
  /\ \A w \in Workers :
       /\ local[w] = [seen |-> local[w].seen, name |-> local[w].name,
                      rc |-> local[w].rc, ok |-> local[w].ok]
       /\ local[w].seen \in Nat
  /\ DOMAIN downloaded = Requests
  /\ raced \in BOOLEAN

\* m_client is held exactly between pthread_mutex_lock and its release.
MutexHeld ==
  /\ mutex = Boss <=> bpc = "put"
  /\ \A w \in Workers : mutex = w <=> wpc[w] = "check"

\* How many requests have been popped.  The queue holds those from there to the
\* last one posted, in order, and Done behind the last of all.
Taken == posted - Len(queue)

Nth(j) == IF j < NRequests THEN j ELSE Done

Fifo ==
  /\ Taken \in 0..NRequests
  /\ \A i \in 1..Len(queue) : queue[i] = Nth(Taken + i - 1)

\* The boss posts Done last and waits for the workers; a worker stops only when
\* nothing but Done is left.
Phases ==
  /\ bpc \in {"lock", "put"} => posted <= NRequests
  /\ bpc \in {"join", "exit"} => posted = NRequests + 1
  /\ bpc = "exit" => \A w \in Workers : wpc[w] = "exit"
  /\ \A w \in Workers : wpc[w] = "exit" \/ (wpc[w] = "broadcast" /\ item[w] = Done) =>
       posted = NRequests + 1 /\ Taken = NRequests

\* A request in the hands of a worker has been popped, and by no other worker.
Hands ==
  /\ \A w \in Workers : item[w] # Done => wpc[w] \in Busy /\ item[w] < Taken
  /\ \A w \in Workers : wpc[w] \in Busy \ {"broadcast"} => item[w] # Done
  /\ \A u, w \in Workers : item[u] = item[w] /\ item[u] # Done => u = w

\* A request is received at most once, after it was popped, by the worker that
\* popped it; without failures every popped request is received.
Results ==
  \A i \in Requests :
    /\ downloaded[i] = {} \/ \E x \in downloaded[i] : downloaded[i] = {x}
    /\ downloaded[i] # {} =>
         i < Taken /\ \A w \in Workers : item[w] = i => wpc[w] \in {"test", "status"}
    /\ ~Failures /\ i < Taken =>
         \/ downloaded[i] # {}
         \/ \E w \in Workers : item[w] = i /\ wpc[w] \in Busy \ {"test", "status"}

\* The requests whose local name has been made.  The counter is never above
\* their number: a race between two workers only loses increments.
Numbered == {i \in 0..(Taken - 1) :
               \A w \in Workers : item[w] = i => wpc[w] \notin {"broadcast", "load", "store"}}

Counted ==
  /\ counter <= Cardinality(Numbered)
  /\ \A w \in Workers : wpc[w] = "store" => local[w].seen <= Cardinality(Numbered)

\* As long as workers have not raced, nobody is between the read and the write of
\* counter, or of returncode, together with another worker ...
OnlyOne == \A u, w \in Workers : wpc[u] = wpc[w] /\ wpc[u] \in {"store", "test"} => u = w

Alone ==
  /\ OnlyOne
  /\ \A w \in Workers : wpc[w] = "store" => local[w].seen = counter
  /\ \A w \in Workers : wpc[w] = "test" => returncode = local[w].rc

\* ... local names are not used twice ...
Names ==
  /\ \A w \in Workers : wpc[w] \in Named =>
       local[w].name = <<Path(item[w]), local[w].seen>> /\ local[w].seen < counter
  /\ \A u, w \in Workers : wpc[u] \in Named /\ wpc[w] \in Named /\ local[u].seen = local[w].seen => u = w
  /\ \A i \in Requests : \A x \in downloaded[i] : \E n \in 0..(counter - 1) : x = <<Path(i), n>>
  /\ \A i, j \in Requests : i # j => downloaded[i] \intersect downloaded[j] = {}
  /\ \A w \in Workers, i \in Requests : wpc[w] \in Named /\ i # item[w] => local[w].name \notin downloaded[i]

\* ... and the files on the disk are those received and those being received.
OnDisk ==
  /\ \A i \in Requests : downloaded[i] \subseteq files
  /\ \A w \in Workers : wpc[w] \in {"perform", "test"} => local[w].name \in files
  /\ \A x \in files : \/ \E i \in Requests : x \in downloaded[i]
                      \/ \E w \in Workers : wpc[w] \in {"perform", "test", "status"} /\ local[w].name = x
  /\ \A w \in Workers : wpc[w] = "test" =>
       /\ local[w].rc \in {-1, 0, 2}
       /\ local[w].name \in downloaded[item[w]] <=> local[w].rc = 0 /\ local[w].ok
       /\ local[w].ok => local[w].rc # 2
  /\ \A w \in Workers : wpc[w] = "status" =>
       /\ local[w].name \in files /\ local[w].ok => local[w].name \in downloaded[item[w]]
       /\ local[w].name \in downloaded[item[w]] => local[w].ok

Unraced == ~raced => Alone /\ Names /\ OnDisk

\* A request is over when it has been popped and no worker has it any more.
Covered ==
  /\ over \subseteq Requests
  /\ \A r \in Requests : r \in over <=> r < Taken /\ \A w \in Workers : item[w] # r

IInv == Types /\ MutexHeld /\ Fifo /\ Phases /\ Hands /\ Results /\ Covered /\ Counted /\ Unraced

Base == Types /\ MutexHeld /\ Fifo /\ Phases /\ Hands /\ Results

-----------------------------------------------------------------------------
(* The queue *)

\* What the assumption says about the requests.
LEMMA ConstantFacts ==
  /\ NRequests \in Nat /\ IsFiniteSet(Workers) /\ Workers # {} /\ Failures \in BOOLEAN
  /\ Boss \notin Workers /\ Free \notin Workers /\ Boss # Free
  /\ Done \notin Requests
  /\ \A i : i \in Requests <=> i \in Nat /\ i < NRequests
  BY ClientAssumption DEF Requests

\* The number of requests popped is a natural number.
LEMMA TakenType ==
  ASSUME Types, Fifo
  PROVE  Taken \in Nat /\ Len(queue) \in Nat /\ posted \in Nat /\ posted = Taken + Len(queue)
         /\ Taken <= NRequests
  BY ConstantFacts, LenProperties DEF Types, Fifo, Taken

\* What the head of the queue is, and what is left without it.
LEMMA HeadOfQueue ==
  ASSUME Types, Fifo, queue # << >>
  PROVE  /\ Len(queue) > 0 /\ Head(queue) = Nth(Taken)
         /\ Head(queue) = Done <=> Taken = NRequests
         /\ Taken = NRequests => posted = NRequests + 1 /\ queue = <<Done>>
         /\ Tail(queue) \in Seq(Requests \union {Done}) /\ Len(Tail(queue)) = Len(queue) - 1
         /\ \A i \in 1..Len(Tail(queue)) : Tail(queue)[i] = Nth(Taken + i)
<1>1. Len(queue) \in Nat /\ Len(queue) > 0 /\ Taken \in Nat /\ Taken <= NRequests /\ posted = Taken + Len(queue)
  BY TakenType, EmptySeq DEF Types
<1>2. Head(queue) = queue[1]
  BY <1>1 DEF Types
<1>3. queue[1] = Nth(Taken)
  BY <1>1 DEF Fifo
<1>4. Nth(Taken) = Done <=> Taken = NRequests
  BY <1>1, ConstantFacts DEF Nth
<1>5. ASSUME Taken = NRequests PROVE posted = NRequests + 1 /\ queue = <<Done>>
  <2>1. PICK n \in Nat : n = Len(queue)
    BY <1>1
  <2>2. n = 1 /\ posted = NRequests + 1
    <3>1. posted \in 0..(NRequests + 1) /\ NRequests \in Nat
      BY ConstantFacts DEF Types
    <3>2. posted = NRequests + n /\ n > 0
      BY <1>1, <1>5, <2>1
    <3> QED
      BY <3>1, <3>2
  <2>3. queue = <<Done>>
    <3>1. queue \in Seq(Requests \union {Done})
      BY DEF Types
    <3>2. queue = [i \in 1..1 |-> queue[i]]
      BY <2>1, <2>2, <3>1, LenProperties
    <3>3. queue[1] = Done
      BY <1>3, <1>4, <1>5
    <3> QED
      BY <3>2, <3>3
  <2> QED
    BY <2>2, <2>3
<1>6. Tail(queue) \in Seq(Requests \union {Done}) /\ Len(Tail(queue)) = Len(queue) - 1
      /\ \A i \in 1..Len(Tail(queue)) : Tail(queue)[i] = queue[i + 1]
  BY <1>1 DEF Types
<1>7. \A i \in 1..Len(Tail(queue)) : Tail(queue)[i] = Nth(Taken + i)
  <2> TAKE i \in 1..Len(Tail(queue))
  <2>1. i + 1 \in 1..Len(queue) /\ Taken + (i + 1) - 1 = Taken + i
    BY <1>1, <1>6
  <2>2. queue[i + 1] = Nth(Taken + (i + 1) - 1)
    BY <2>1 DEF Fifo
  <2> QED
    BY <1>6, <2>1, <2>2
<1> QED
  BY <1>1, <1>2, <1>3, <1>4, <1>5, <1>6, <1>7

\* The steps of the boss.
LEMMA BossBase ==
  ASSUME Base, BossStep, raced' \in BOOLEAN
  PROVE  Base'
<1> USE ConstantFacts DEF Base
<1>1. CASE BossLock
  <2>1. Types' /\ MutexHeld'
    BY <1>1 DEF BossLock, Types, MutexHeld
  <2>2. Fifo' /\ Phases' /\ Hands' /\ Results'
    BY <1>1 DEF BossLock, Fifo, Phases, Hands, Results, Taken
  <2> QED
    BY <2>1, <2>2
<1>2. CASE BossPut
  <2> DEFINE x == Nth(posted)
  <2>1. queue' = Append(queue, x) /\ posted' = posted + 1 /\ posted <= NRequests /\ mutex' = Free /\ bpc' = "signal"
        /\ UNCHANGED <<wpc, item, counter, returncode, local, files, downloaded>>
    BY <1>2 DEF BossPut, Phases, Nth
  <2>2. x \in Requests \union {Done}
    BY <2>1 DEF Nth, Types
  <2>3. /\ queue' \in Seq(Requests \union {Done}) /\ Len(queue') = Len(queue) + 1
        /\ \A i \in 1..Len(queue) : queue'[i] = queue[i]
        /\ queue'[Len(queue) + 1] = x
    BY <2>1, <2>2 DEF Types
  <2>4. Taken \in Nat /\ Len(queue) \in Nat /\ posted = Taken + Len(queue) /\ Taken <= NRequests /\ posted \in Nat
    BY TakenType
  <2>5. Taken' = Taken
    BY <2>1, <2>3, <2>4 DEF Taken
  <2>6. Types'
    BY <2>1, <2>3, <2>4 DEF Types
  <2>7. MutexHeld'
    BY <1>2, <2>1 DEF BossPut, MutexHeld, Types
  <2>8. Fifo'
    <3>1. ASSUME NEW i \in 1..Len(queue') PROVE queue'[i] = Nth(Taken + i - 1)
      <4>1. CASE i \in 1..Len(queue)
        BY <2>3, <4>1 DEF Fifo
      <4>2. CASE i = Len(queue) + 1
        BY <2>3, <2>4, <4>2
      <4> QED
        BY <2>3, <2>4, <4>1, <4>2
    <3> QED
      BY <2>4, <2>5, <3>1 DEF Fifo
  <2>9. Phases'
    BY <1>2, <2>1, <2>4, <2>5 DEF BossPut, Phases
  <2>10. Hands' /\ Results'
    BY <2>1, <2>5 DEF Hands, Results
  <2> QED
    BY <2>6, <2>7, <2>8, <2>9, <2>10
<1>3. CASE BossSignal
  <2>1. wpc' \in [Workers -> WorkerPC] /\ \A w \in Workers :
          wpc'[w] = wpc[w] \/ (wpc[w] = "wait" /\ wpc'[w] = "woken")
    <3>1. CASE UNCHANGED wpc
      BY <3>1 DEF Types
    <3>2. CASE \E w \in Waiting : wpc' = [wpc EXCEPT ![w] = "woken"]
      BY <3>2 DEF Types, Waiting, WorkerPC
    <3> QED
      BY <1>3, <3>1, <3>2 DEF BossSignal
  <2>2. /\ bpc = "signal" /\ bpc' = IF posted <= NRequests THEN "lock" ELSE "join"
        /\ UNCHANGED <<mutex, queue, posted, item, counter, returncode, local, files, downloaded>>
    BY <1>3 DEF BossSignal
  <2>3. Types' /\ MutexHeld' /\ Fifo'
    BY <2>1, <2>2 DEF Types, MutexHeld, Fifo, Taken
  <2>4. Phases'
    BY <2>1, <2>2 DEF Phases, Types, Taken
  <2>5. Hands'
    BY <2>1, <2>2 DEF Hands, Taken, Busy
  <2>6. Results'
    <3>1. \A w \in Workers : wpc[w] \in Busy \/ wpc'[w] \in Busy => wpc'[w] = wpc[w]
      BY <2>1 DEF Busy
    <3>2. {"test", "status"} \subseteq Busy
      BY DEF Busy
    <3> QED
      BY <2>2, <3>1, <3>2 DEF Results, Taken
  <2> QED
    BY <2>3, <2>4, <2>5, <2>6
<1>4. CASE BossJoin
  <2>1. Types' /\ MutexHeld'
    BY <1>4 DEF BossJoin, Types, MutexHeld
  <2>2. Fifo' /\ Phases' /\ Hands' /\ Results'
    BY <1>4 DEF BossJoin, Fifo, Phases, Hands, Results, Taken
  <2> QED
    BY <2>1, <2>2
<1> QED
  BY <1>1, <1>2, <1>3, <1>4 DEF BossStep

\* A step of a worker that does not touch the queue or a request.
LEMMA QuietBase ==
  ASSUME Base, NEW w \in Workers, bpc # "exit",
         UNCHANGED <<queue, bpc, posted, item, downloaded>>,
         counter' \in Nat, returncode' \in {-1, 0, 2}, raced' \in BOOLEAN,
         DOMAIN local' = Workers,
         \A u \in Workers :
           /\ local'[u] = [seen |-> local'[u].seen, name |-> local'[u].name,
                           rc |-> local'[u].rc, ok |-> local'[u].ok]
           /\ local'[u].seen \in Nat,
         wpc' \in [Workers -> WorkerPC],
         \A u \in Workers \ {w} : wpc'[u] = wpc[u] \/ (wpc[u] = "wait" /\ wpc'[u] = "woken"),
         wpc'[w] \in Busy <=> wpc[w] \in Busy /\ ~(wpc[w] = "broadcast" /\ item[w] = Done),
         wpc'[w] # "broadcast", wpc[w] # "exit",
         wpc'[w] = "exit" => wpc[w] = "broadcast" /\ item[w] = Done,
         wpc'[w] \in {"test", "status"} <=> wpc[w] \in {"test", "status"},
         \/ wpc[w] # "check" /\ wpc'[w] # "check" /\ mutex' = mutex
         \/ wpc[w] = "check" /\ wpc'[w] # "check" /\ mutex' = Free
         \/ wpc[w] # "check" /\ wpc'[w] = "check" /\ mutex = Free /\ mutex' = w
  PROVE  Base'
<1> USE ConstantFacts DEF Base
<1>1. \A u \in Workers \ {w} : wpc[u] \in Busy \/ wpc'[u] \in Busy => wpc'[u] = wpc[u]
  BY DEF Busy
<1>2. {"test", "status", "broadcast"} \subseteq Busy
  BY DEF Busy
<1>3. Types'
  <2>1. mutex' \in Workers \union {Boss, Free}
    BY DEF Types
  <2>2. queue' = queue /\ bpc' = bpc /\ posted' = posted /\ item' = item /\ downloaded' = downloaded
    OBVIOUS
  <2> QED
    BY <2>1, <2>2 DEF Types
<1>4. MutexHeld'
  <2>1. mutex' = Boss <=> bpc' = "put"
    BY DEF MutexHeld
  <2>2. mutex' = w <=> wpc'[w] = "check"
    BY DEF MutexHeld
  <2>3. \A u \in Workers \ {w} : mutex' = u <=> wpc'[u] = "check"
    BY DEF MutexHeld
  <2> QED
    BY <2>1, <2>2, <2>3 DEF MutexHeld
<1>5. Fifo'
  BY DEF Fifo, Taken
<1>6. Phases'
  BY DEF Phases, Taken
<1>7. Hands'
  <2>1. Taken' = Taken /\ item' = item
    BY DEF Taken
  <2>2. \A u \in Workers : item[u] # Done => wpc'[u] \in Busy /\ item[u] < Taken
    BY <1>1, <1>2 DEF Hands
  <2>3. \A u \in Workers : wpc'[u] \in Busy \ {"broadcast"} => item[u] # Done
    BY <1>1, <1>2 DEF Hands
  <2> QED
    BY <2>1, <2>2, <2>3 DEF Hands
<1>8. Results'
  <2>1. Taken' = Taken /\ item' = item /\ downloaded' = downloaded
    BY DEF Taken
  <2>2. \A u \in Workers : item[u] # Done =>
          /\ wpc'[u] \in Busy
          /\ wpc'[u] \in {"test", "status"} <=> wpc[u] \in {"test", "status"}
    BY <1>1, <1>2 DEF Hands
  <2>3. \A i \in Requests, u \in Workers : item[u] = i => item[u] # Done
    OBVIOUS
  <2> QED
    BY <2>1, <2>2, <2>3 DEF Results
<1> QED
  BY <1>3, <1>4, <1>5, <1>6, <1>7, <1>8

\* The steps of a worker.
LEMMA WorkerBase ==
  ASSUME Base, NEW w \in Workers, Step(w) \/ WakeUp(w), raced' \in BOOLEAN
  PROVE  Base'
<1> USE ConstantFacts DEF Base
<1>a. wpc[w] # "exit" /\ bpc # "exit"
  <2>1. wpc[w] # "exit"
    BY DEF Step, WakeUp, Lock, Wait, Pop, Broadcast, LoadCounter, StoreCounter, OpenFile,
           Perform, Test, CheckStatus, Goto
  <2> QED
    BY <2>1 DEF Phases
<1>b. /\ DOMAIN local = Workers /\ counter \in Nat /\ returncode \in {-1, 0, 2}
      /\ \A u \in Workers :
           /\ local[u] = [seen |-> local[u].seen, name |-> local[u].name,
                          rc |-> local[u].rc, ok |-> local[u].ok]
           /\ local[u].seen \in Nat
  BY DEF Types
<1>c. ASSUME NEW to \in WorkerPC, wpc' = [wpc EXCEPT ![w] = to]
      PROVE  wpc' \in [Workers -> WorkerPC] /\ wpc'[w] = to /\ \A u \in Workers \ {w} : wpc'[u] = wpc[u]
  BY <1>c DEF Types
<1>1. CASE Lock(w) \/ Wait(w) \/ WakeUp(w)
  <2>1. PICK to \in {"check", "wait", "woken"} : wpc' = [wpc EXCEPT ![w] = to] /\ wpc[w] \in {"lock", "woken", "check", "wait"}
    BY <1>1 DEF Lock, Wait, WakeUp, Goto
  <2>2. wpc' \in [Workers -> WorkerPC] /\ wpc'[w] = to /\ \A u \in Workers \ {w} : wpc'[u] = wpc[u]
    BY <1>c, <2>1 DEF WorkerPC
  <2>3. UNCHANGED <<queue, bpc, posted, item, counter, returncode, local, downloaded>>
    BY <1>1 DEF Lock, Wait, WakeUp
  <2>4. \/ wpc[w] # "check" /\ wpc'[w] # "check" /\ mutex' = mutex
        \/ wpc[w] = "check" /\ wpc'[w] # "check" /\ mutex' = Free
        \/ wpc[w] # "check" /\ wpc'[w] = "check" /\ mutex = Free /\ mutex' = w
    BY <1>1, <2>2 DEF Lock, Wait, WakeUp, Goto, Types
  <2>5. wpc[w] \notin Busy /\ wpc'[w] \notin Busy /\ wpc'[w] \notin {"broadcast", "exit", "test", "status"}
        /\ wpc[w] \notin {"test", "status"}
    BY <2>1, <2>2 DEF Busy
  <2> QED
    BY <1>a, <1>b, <2>2, <2>3, <2>4, <2>5, QuietBase
<1>2. CASE Broadcast(w)
  <2>1. /\ wpc[w] = "broadcast"
        /\ wpc'[w] = IF item[w] = Done THEN "exit" ELSE "load"
        /\ \A u \in Workers \ {w} : wpc'[u] = wpc[u] \/ (wpc[u] = "wait" /\ wpc'[u] = "woken")
        /\ wpc' \in [Workers -> WorkerPC]
    BY <1>2 DEF Broadcast, Types, WorkerPC
  <2>2. UNCHANGED <<mutex, queue, bpc, posted, item, counter, returncode, local, downloaded>>
    BY <1>2 DEF Broadcast
  <2> QED
    BY <1>a, <1>b, <2>1, <2>2, QuietBase DEF Busy
<1>3. CASE LoadCounter(w) \/ StoreCounter(w) \/ OpenFile(w) \/ Test(w)
  <2>1. PICK to \in {"store", "open", "perform", "status"} :
          /\ wpc' = [wpc EXCEPT ![w] = to]
          /\ wpc[w] \in {"load", "store", "open", "test"}
          /\ to = "status" <=> wpc[w] = "test"
    BY <1>3 DEF LoadCounter, StoreCounter, OpenFile, Test, Goto
  <2>2. wpc' \in [Workers -> WorkerPC] /\ wpc'[w] = to /\ \A u \in Workers \ {w} : wpc'[u] = wpc[u]
    BY <1>c, <2>1 DEF WorkerPC
  <2>3. UNCHANGED <<mutex, queue, bpc, posted, item, returncode, downloaded>>
    BY <1>3 DEF LoadCounter, StoreCounter, OpenFile, Test
  <2>4. counter' \in Nat
    BY <1>3, <1>b DEF LoadCounter, StoreCounter, OpenFile, Test
  <2>5. DOMAIN local' = Workers /\ \A u \in Workers :
           /\ local'[u] = [seen |-> local'[u].seen, name |-> local'[u].name,
                          rc |-> local'[u].rc, ok |-> local'[u].ok]
           /\ local'[u].seen \in Nat
    <3>1. CASE LoadCounter(w)
      BY <1>b, <3>1 DEF LoadCounter, NoLocal
    <3>2. CASE StoreCounter(w)
      BY <1>b, <3>2 DEF StoreCounter
    <3>3. CASE OpenFile(w) \/ Test(w)
      BY <1>b, <3>3 DEF OpenFile, Test
    <3> QED
      BY <1>3, <3>1, <3>2, <3>3
  <2>6. /\ wpc[w] \in Busy \ {"broadcast", "check"} /\ wpc'[w] \in Busy \ {"broadcast", "exit", "check"}
        /\ wpc'[w] \in {"test", "status"} <=> wpc[w] \in {"test", "status"}
    BY <2>1, <2>2 DEF Busy
  <2> QED
    BY <1>a, <1>b, <2>2, <2>3, <2>4, <2>5, <2>6, QuietBase
<1>4. CASE Pop(w)
  <2>1. /\ wpc[w] = "check" /\ queue # << >> /\ mutex' = Free
        /\ item' = [item EXCEPT ![w] = Head(queue)]
        /\ queue' = IF Head(queue) = Done THEN Append(Tail(queue), Done) ELSE Tail(queue)
        /\ UNCHANGED <<bpc, posted, counter, returncode, local, files, downloaded>>
        /\ wpc' = [wpc EXCEPT ![w] = "broadcast"]
    BY <1>4 DEF Pop, Goto
  <2>2. wpc' \in [Workers -> WorkerPC] /\ wpc'[w] = "broadcast" /\ \A u \in Workers \ {w} : wpc'[u] = wpc[u]
    BY <1>c, <2>1 DEF WorkerPC
  <2>3. Taken \in Nat /\ Len(queue) \in Nat /\ posted = Taken + Len(queue) /\ Taken <= NRequests /\ posted \in Nat
    BY TakenType
  <2>4. /\ Len(queue) > 0 /\ Head(queue) = Nth(Taken)
        /\ Head(queue) = Done <=> Taken = NRequests
        /\ Taken = NRequests => posted = NRequests + 1 /\ queue = <<Done>>
        /\ Tail(queue) \in Seq(Requests \union {Done}) /\ Len(Tail(queue)) = Len(queue) - 1
        /\ \A i \in 1..Len(Tail(queue)) : Tail(queue)[i] = Nth(Taken + i)
    BY <2>1, HeadOfQueue
  <2>5. item'[w] = Head(queue) /\ (\A u \in Workers \ {w} : item'[u] = item[u])
        /\ Head(queue) \in Requests \union {Done} /\ item' \in [Workers -> Requests \union {Done}]
    BY <2>1, <2>3, <2>4 DEF Types, Nth
  <2>6. MutexHeld'
    BY <2>1, <2>2 DEF MutexHeld
  <2>7. CASE Head(queue) = Done
    <3>1. queue' = queue /\ Taken' = Taken
      BY <2>1, <2>4, <2>7 DEF Taken
    <3>2. Types' /\ Fifo'
      BY <2>1, <2>2, <2>5, <2>6, <3>1 DEF Types, Fifo
    <3>3. Phases'
      BY <1>a, <2>1, <2>2, <2>4, <2>5, <2>7, <3>1 DEF Phases
    <3>4. item[w] = Done
      BY <2>1 DEF Hands, Busy
    <3>5. Hands'
      BY <2>1, <2>2, <2>5, <2>7, <3>1, <3>4 DEF Hands
    <3>6. Results'
      BY <2>1, <2>2, <2>5, <2>7, <3>1, <3>4 DEF Results
    <3> QED
      BY <2>6, <3>2, <3>3, <3>5, <3>6
  <2>8. CASE Head(queue) # Done
    <3>1. queue' = Tail(queue) /\ Taken' = Taken + 1 /\ Taken < NRequests /\ Head(queue) = Taken
      BY <2>1, <2>3, <2>4, <2>8 DEF Taken, Nth
    <3>2. Types'
      BY <2>1, <2>2, <2>4, <2>5, <2>6, <3>1 DEF Types
    <3>3. Fifo'
      <4>1. \A i \in 1..Len(queue') : queue'[i] = Nth(Taken + 1 + i - 1)
        BY <2>3, <2>4, <3>1
      <4> QED
        BY <2>3, <3>1, <4>1 DEF Fifo
    <3>4. Phases'
      BY <1>a, <2>1, <2>2, <2>3, <2>5, <2>8, <3>1 DEF Phases
    <3>5. item[w] = Done
      BY <2>1 DEF Hands, Busy
    <3>6. Hands'
      <4>1. \A u \in Workers \ {w} : item[u] # Done => item[u] < Taken /\ item[u] \in Nat
        BY DEF Hands, Types
      <4> QED
        BY <2>2, <2>3, <2>5, <2>8, <3>1, <4>1 DEF Hands, Busy
    <3>7. Results'
      <4>1. ASSUME NEW i \in Requests
            PROVE  /\ downloaded[i] = {} \/ \E x \in downloaded[i] : downloaded[i] = {x}
                   /\ downloaded[i] # {} =>
                        i < Taken + 1 /\ \A u \in Workers : item'[u] = i => wpc'[u] \in {"test", "status"}
        <5>1. downloaded[i] # {} => i < Taken /\ \A u \in Workers : item[u] = i => wpc[u] \in {"test", "status"}
          BY DEF Results
        <5> QED
          BY <2>2, <2>3, <2>5, <3>1, <5>1 DEF Results
      <4>2. ASSUME NEW i \in Requests, ~Failures, i < Taken + 1, downloaded[i] = {}
            PROVE  \E u \in Workers : item'[u] = i /\ wpc'[u] \in Busy \ {"test", "status"}
        <5>1. CASE i = Taken
          BY <2>2, <2>5, <3>1, <5>1 DEF Busy
        <5>2. CASE i # Taken
          <6>1. i < Taken
            BY <2>3, <4>2, <5>2
          <6>2. PICK u \in Workers : item[u] = i /\ wpc[u] \in Busy \ {"test", "status"}
            BY <4>2, <6>1 DEF Results
          <6>3. u # w
            BY <3>5, <6>2
          <6> QED
            BY <2>2, <2>5, <6>2, <6>3
        <5> QED
          BY <5>1, <5>2
      <4> QED
        BY <2>1, <3>1, <4>1, <4>2 DEF Results
    <3> QED
      BY <2>6, <3>2, <3>3, <3>4, <3>6, <3>7
  <2> QED
    BY <2>7, <2>8
<1>5. CASE Perform(w)
  <2>1. PICK o \in Outcomes :
          /\ returncode' = o.rc
          /\ local' = [local EXCEPT ![w].rc = o.rc, ![w].ok = o.ok]
          /\ downloaded' = IF o.rc = 0 /\ o.ok
                           THEN [downloaded EXCEPT ![item[w]] = @ \union {local[w].name}]
                           ELSE downloaded
    BY <1>5 DEF Perform
  <2>2. wpc[w] = "perform" /\ wpc' = [wpc EXCEPT ![w] = "test"]
        /\ UNCHANGED <<mutex, queue, bpc, posted, item, counter, files>>
    BY <1>5 DEF Perform, Goto
  <2>3. wpc' \in [Workers -> WorkerPC] /\ wpc'[w] = "test" /\ \A u \in Workers \ {w} : wpc'[u] = wpc[u]
    BY <1>c, <2>2 DEF WorkerPC
  <2>4. o.rc \in {-1, 0, 2} /\ (~Failures => o.rc = 0 /\ o.ok)
    BY DEF Outcomes
  <2>5. DOMAIN local' = Workers /\ \A u \in Workers :
           /\ local'[u] = [seen |-> local'[u].seen, name |-> local'[u].name,
                          rc |-> local'[u].rc, ok |-> local'[u].ok]
           /\ local'[u].seen \in Nat
    <3>1. local' = [local EXCEPT ![w] = [local[w] EXCEPT !.rc = o.rc, !.ok = o.ok]]
      BY <1>b, <2>1
    <3>2. local'[w] = [local[w] EXCEPT !.rc = o.rc, !.ok = o.ok]
      BY <1>b, <3>1
    <3>3. local'[w] = [seen |-> local[w].seen, name |-> local[w].name, rc |-> o.rc, ok |-> o.ok]
      BY <1>b, <3>2
    <3> QED
      BY <1>b, <3>1, <3>3
  <2>6. Types'
    BY <2>1, <2>2, <2>3, <2>4, <2>5 DEF Types
  <2>7. Taken' = Taken
    BY <2>2 DEF Taken
  <2>8. MutexHeld' /\ Fifo' /\ Phases'
    BY <1>a, <2>2, <2>3, <2>7 DEF MutexHeld, Fifo, Phases
  <2>9. Hands'
    BY <2>2, <2>3, <2>7 DEF Hands, Busy
  <2>10. item[w] \in Requests /\ item[w] < Taken /\ downloaded[item[w]] = {}
        /\ \A u \in Workers \ {w} : item[u] # item[w]
    BY <2>2 DEF Hands, Busy, Types, Results
  <2>11. Results'
    <3>1. CASE o.rc = 0 /\ o.ok
      <4>1. /\ \A i \in Requests \ {item[w]} : downloaded'[i] = downloaded[i]
            /\ downloaded'[item[w]] = {local[w].name}
        BY <2>1, <2>10, <3>1 DEF Types
      <4>2. ASSUME NEW i \in Requests \ {item[w]}
            PROVE  \A u \in Workers : item[u] = i => wpc'[u] = wpc[u]
        BY <2>3
      <4> QED
        BY <2>2, <2>3, <2>7, <2>10, <4>1, <4>2 DEF Results
    <3>2. CASE ~(o.rc = 0 /\ o.ok)
      <4>1. downloaded' = downloaded /\ Failures
        BY <2>1, <2>4, <3>2
      <4> QED
        BY <2>2, <2>3, <2>7, <2>10, <4>1 DEF Results
    <3> QED
      BY <3>1, <3>2
  <2> QED
    BY <2>6, <2>8, <2>9, <2>11
<1>6. CASE CheckStatus(w)
  <2>1. /\ wpc[w] = "status" /\ wpc' = [wpc EXCEPT ![w] = "lock"]
        /\ item' = [item EXCEPT ![w] = Done]
        /\ local' = [local EXCEPT ![w] = NoLocal]
        /\ UNCHANGED <<mutex, queue, bpc, posted, counter, returncode, downloaded>>
    BY <1>6 DEF CheckStatus, Goto
  <2>2. wpc' \in [Workers -> WorkerPC] /\ wpc'[w] = "lock" /\ \A u \in Workers \ {w} : wpc'[u] = wpc[u]
    BY <1>c, <2>1 DEF WorkerPC
  <2>3. item'[w] = Done /\ (\A u \in Workers \ {w} : item'[u] = item[u]) /\ item' \in [Workers -> Requests \union {Done}]
    BY <2>1 DEF Types
  <2>4. DOMAIN local' = Workers /\ \A u \in Workers :
           /\ local'[u] = [seen |-> local'[u].seen, name |-> local'[u].name,
                          rc |-> local'[u].rc, ok |-> local'[u].ok]
           /\ local'[u].seen \in Nat
    BY <1>b, <2>1 DEF NoLocal
  <2>5. Types'
    BY <2>1, <2>2, <2>3, <2>4 DEF Types
  <2>6. Taken' = Taken
    BY <2>1 DEF Taken
  <2>7. MutexHeld' /\ Fifo' /\ Phases'
    BY <1>a, <2>1, <2>2, <2>3, <2>6 DEF MutexHeld, Fifo, Phases
  <2>8. Hands'
    BY <2>1, <2>2, <2>3, <2>6 DEF Hands, Busy
  <2>9. Results'
    <3>1. \A i \in Requests, u \in Workers : item'[u] = i => u # w /\ item[u] = i /\ wpc'[u] = wpc[u]
      BY <2>2, <2>3
    <3>2. \A i \in Requests, u \in Workers :
            item[u] = i /\ wpc[u] \in Busy \ {"test", "status"} => item'[u] = i /\ wpc'[u] = wpc[u]
      BY <2>1, <2>2, <2>3
    <3> QED
      BY <2>1, <2>6, <3>1, <3>2 DEF Results
  <2> QED
    BY <2>5, <2>7, <2>8, <2>9
<1> QED
  BY <1>1, <1>2, <1>3, <1>4, <1>5, <1>6 DEF Step

\* The boss takes no request out of the queue ...
LEMMA BossCovered ==
  ASSUME Base, Covered, BossStep
  PROVE  Covered'
<1>1. UNCHANGED <<item, over>>
  BY DEF BossStep, BossLock, BossPut, BossSignal, BossJoin
<1>2. Taken' = Taken
  <2>1. CASE BossPut
    <3>1. PICK x \in Requests \union {Done} : queue' = Append(queue, x) /\ posted' = posted + 1
      BY <2>1, ConstantFacts DEF BossPut, Base, Types
    <3>2. Len(queue') = Len(queue) + 1 /\ Len(queue) \in Nat /\ posted \in Nat
      BY <3>1, TakenType DEF Base, Types
    <3> QED
      BY <3>1, <3>2 DEF Taken
  <2>2. CASE ~BossPut
    BY <2>2 DEF BossStep, BossLock, BossSignal, BossJoin, Taken
  <2> QED
    BY <2>1, <2>2
<1> QED
  BY <1>1, <1>2 DEF Covered

\* ... and a worker takes one, keeps it and is through with it.
LEMMA WorkerCovered ==
  ASSUME Base, Covered, NEW w \in Workers, Step(w) \/ WakeUp(w)
  PROVE  Covered'
<1> USE ConstantFacts DEF Base
<1>1. CASE Pop(w)
  <2>1. /\ wpc[w] = "check" /\ queue # << >> /\ item' = [item EXCEPT ![w] = Head(queue)]
        /\ queue' = IF Head(queue) = Done THEN Append(Tail(queue), Done) ELSE Tail(queue)
        /\ UNCHANGED <<posted, over>>
    BY <1>1 DEF Pop, Goto
  <2>2. Taken \in Nat /\ Len(queue) \in Nat /\ posted = Taken + Len(queue) /\ Taken <= NRequests /\ posted \in Nat
    BY TakenType
  <2>3. /\ Len(queue) > 0 /\ Head(queue) = Nth(Taken)
        /\ Head(queue) = Done <=> Taken = NRequests
        /\ Taken = NRequests => queue = <<Done>>
        /\ Len(Tail(queue)) = Len(queue) - 1
    BY <2>1, HeadOfQueue
  <2>4. item[w] = Done /\ item'[w] = Head(queue) /\ \A u \in Workers \ {w} : item'[u] = item[u]
    BY <2>1 DEF Hands, Busy, Types
  <2>5. CASE Head(queue) = Done
    <3>1. Taken' = Taken
      BY <2>1, <2>3, <2>5 DEF Taken
    <3> QED
      BY <2>1, <2>4, <2>5, <3>1 DEF Covered
  <2>6. CASE Head(queue) # Done
    <3>1. Taken' = Taken + 1 /\ Head(queue) = Taken
      BY <2>1, <2>2, <2>3, <2>6 DEF Taken, Nth
    <3>2. ASSUME NEW r \in Requests
          PROVE  r \in over' <=> r < Taken + 1 /\ \A u \in Workers : item'[u] # r
      <4>1. r \in Nat
        OBVIOUS
      <4>2. CASE r = Taken
        BY <2>1, <2>2, <2>4, <3>1, <4>2 DEF Covered
      <4>3. CASE r # Taken
        <5>1. r < Taken + 1 <=> r < Taken
          BY <2>2, <4>1, <4>3
        <5>2. (\A u \in Workers : item'[u] # r) <=> (\A u \in Workers : item[u] # r)
          BY <2>4, <3>1, <4>3
        <5> QED
          BY <2>1, <5>1, <5>2 DEF Covered
      <4> QED
        BY <4>2, <4>3
    <3> QED
      BY <2>1, <3>1, <3>2 DEF Covered
  <2> QED
    BY <2>5, <2>6
<1>2. CASE CheckStatus(w)
  <2>1. /\ wpc[w] = "status" /\ item' = [item EXCEPT ![w] = Done]
        /\ over' = over \union {item[w]} /\ UNCHANGED <<queue, posted>>
    BY <1>2 DEF CheckStatus, Goto
  <2>2. item[w] \in Requests /\ item[w] < Taken /\ \A u \in Workers \ {w} : item[u] # item[w]
    BY <2>1 DEF Hands, Busy, Types
  <2>3. Taken' = Taken
    BY <2>1 DEF Taken
  <2>4. item'[w] = Done /\ \A u \in Workers \ {w} : item'[u] = item[u]
    BY <2>1 DEF Types
  <2> QED
    BY <2>1, <2>2, <2>3, <2>4 DEF Covered
<1>3. CASE UNCHANGED <<queue, posted, item, over>>
  BY <1>3 DEF Covered, Taken
<1> QED
  BY <1>1, <1>2, <1>3 DEF Step, WakeUp, Lock, Wait, Broadcast, LoadCounter, StoreCounter,
                          OpenFile, Perform, Test
-----------------------------------------------------------------------------
(* The counter of localPath *)

\* Not more requests have a number than there are requests.
LEMMA NumberedSize ==
  Base => IsFiniteSet(Numbered) /\ Cardinality(Numbered) \in Nat /\ Cardinality(Numbered) <= NRequests
<1> HAVE Base
<1>1. Taken \in Nat /\ Taken <= NRequests /\ NRequests \in Nat
  BY TakenType, ConstantFacts DEF Base
<1>2. IsFiniteSet(0..(NRequests - 1)) /\ Cardinality(0..(NRequests - 1)) = NRequests
  BY <1>1, FS_Interval
<1>3. Numbered \in SUBSET (0..(NRequests - 1))
  BY <1>1 DEF Numbered
<1> QED
  BY <1>1, <1>2, <1>3, FS_Subset, FS_CardinalityType

\* A request that has a number keeps it.
LEMMA NumberedGrows ==
  ASSUME Base, Base', Taken <= Taken',
         \A i \in 0..(Taken - 1) : \A u \in Workers :
           item'[u] = i /\ wpc'[u] \in {"broadcast", "load", "store"} =>
             item[u] = i /\ wpc[u] \in {"broadcast", "load", "store"}
  PROVE  Numbered \subseteq Numbered' /\ Cardinality(Numbered) <= Cardinality(Numbered')
<1>1. Taken \in Nat /\ Taken' \in Nat
  <2>1. Taken \in Nat
    BY TakenType DEF Base
  <2>2. (Taken \in Nat)'
    BY TakenType, PTL DEF Base
  <2> QED
    BY <2>1, <2>2
<1>2. Numbered \subseteq Numbered'
  BY <1>1 DEF Numbered
<1>3. IsFiniteSet(Numbered)'
  BY NumberedSize, PTL
<1> QED
  BY <1>2, <1>3, FS_Subset

\* A step that does not touch the counter.
LEMMA CountedSame ==
  ASSUME Base, Base', Counted, counter' = counter, Taken <= Taken',
         \A i \in 0..(Taken - 1) : \A u \in Workers :
           item'[u] = i /\ wpc'[u] \in {"broadcast", "load", "store"} =>
             item[u] = i /\ wpc[u] \in {"broadcast", "load", "store"},
         \A u \in Workers : wpc'[u] = "store" => wpc[u] = "store" /\ local'[u].seen = local[u].seen
  PROVE  Counted'
<1>1. Cardinality(Numbered) <= Cardinality(Numbered') /\ Cardinality(Numbered) \in Nat
  BY NumberedGrows, NumberedSize
<1>2. (Cardinality(Numbered) \in Nat)'
  BY NumberedSize, PTL
<1>3. counter \in Nat /\ \A u \in Workers : local[u].seen \in Nat
  BY DEF Base, Types
<1> QED
  BY <1>1, <1>2, <1>3 DEF Counted

\* The steps of the boss ...
LEMMA BossCounted ==
  ASSUME Base, Base', Counted, BossStep
  PROVE  Counted'
<1>1. UNCHANGED <<counter, item, local>>
  BY DEF BossStep, BossLock, BossPut, BossSignal, BossJoin
<1>2. Taken' = Taken
  <2>1. CASE BossPut
    <3>1. queue' = Append(queue, Nth(posted)) /\ posted' = posted + 1 /\ posted \in Nat
      BY <2>1 DEF BossPut, Nth, Base, Types
    <3>2. Len(queue') = Len(queue) + 1 /\ Len(queue) \in Nat
      <4>1. queue \in Seq(Requests \union {Done}) /\ Nth(posted) \in Requests \union {Done}
        BY <3>1, ConstantFacts DEF Base, Types, Nth
      <4> QED
        BY <3>1, <4>1
    <3> QED
      BY <3>1, <3>2 DEF Taken
  <2>2. CASE BossLock \/ BossSignal \/ BossJoin
    BY <2>2 DEF BossLock, BossSignal, BossJoin, Taken
  <2> QED
    BY <2>1, <2>2 DEF BossStep
<1>3. \A u \in Workers : wpc'[u] \in {"broadcast", "load", "store"} => wpc'[u] = wpc[u]
  BY DEF BossStep, BossLock, BossPut, BossSignal, BossJoin, Base, Types
<1>4. Taken \in Nat
  BY TakenType DEF Base
<1> QED
  BY <1>1, <1>2, <1>3, <1>4, CountedSame

\* ... and those of a worker.
LEMMA WorkerCounted ==
  ASSUME Base, Base', Counted, NEW w \in Workers, Step(w) \/ WakeUp(w)
  PROVE  Counted'
<1>a. Taken \in Nat /\ wpc \in [Workers -> WorkerPC] /\ DOMAIN local = Workers
      /\ (\A u \in Workers : local[u].seen \in Nat) /\ counter \in Nat /\ DOMAIN item = Workers
  BY TakenType DEF Base, Types
<1>b. Cardinality(Numbered) \in Nat
  BY NumberedSize
<1>c. (Cardinality(Numbered) \in Nat /\ IsFiniteSet(Numbered))'
  BY NumberedSize, PTL
<1>1. CASE Lock(w) \/ Wait(w) \/ WakeUp(w) \/ OpenFile(w) \/ Test(w)
  <2>1. UNCHANGED <<item, local, counter, queue, posted>>
    BY <1>1 DEF Lock, Wait, WakeUp, OpenFile, Test
  <2>2. \A u \in Workers : wpc'[u] \in {"broadcast", "load", "store"} => wpc'[u] = wpc[u]
    BY <1>1, <1>a DEF Lock, Wait, WakeUp, OpenFile, Test, Goto
  <2>3. Taken' = Taken
    BY <2>1 DEF Taken
  <2> QED
    BY <1>a, <2>1, <2>2, <2>3, CountedSame
<1>2. CASE Broadcast(w)
  <2>1. UNCHANGED <<item, local, counter, queue, posted>>
    BY <1>2 DEF Broadcast
  <2>2. \A u \in Workers : wpc'[u] \in {"broadcast", "load", "store"} =>
          wpc'[u] = wpc[u] \/ (wpc[u] = "broadcast" /\ wpc'[u] = "load")
    BY <1>2, <1>a DEF Broadcast
  <2>3. Taken' = Taken
    BY <2>1 DEF Taken
  <2> QED
    BY <1>a, <2>1, <2>2, <2>3, CountedSame
<1>3. CASE Pop(w)
  <2>1. /\ UNCHANGED <<local, counter, posted>> /\ queue # << >>
        /\ wpc'[w] = "broadcast" /\ (\A u \in Workers \ {w} : wpc'[u] = wpc[u] /\ item'[u] = item[u])
        /\ item'[w] = Head(queue)
        /\ queue' = IF Head(queue) = Done THEN Append(Tail(queue), Done) ELSE Tail(queue)
    BY <1>3, <1>a DEF Pop, Goto
  <2>2. /\ Head(queue) = Nth(Taken) /\ Len(Tail(queue)) = Len(queue) - 1 /\ Len(queue) \in Nat
        /\ Head(queue) = Done <=> Taken = NRequests
        /\ Taken = NRequests => queue = <<Done>>
    BY <2>1, HeadOfQueue, TakenType DEF Base
  <2>3. posted \in Nat
    BY TakenType DEF Base
  <2>4. Taken <= Taken'
    <3>1. CASE Head(queue) = Done
      <4>1. queue' = queue
        BY <2>1, <2>2, <3>1
      <4> QED
        BY <1>a, <2>1, <4>1 DEF Taken
    <3>2. CASE Head(queue) # Done
      BY <2>1, <2>2, <2>3, <3>2 DEF Taken
    <3> QED
      BY <3>1, <3>2
  <2>5. \A i \in 0..(Taken - 1) : i # Head(queue)
    BY <1>a, <2>2, ConstantFacts, ClientAssumption DEF Nth
  <2> QED
    BY <1>a, <2>1, <2>4, <2>5, CountedSame
<1>4. CASE LoadCounter(w)
  <2>1. /\ wpc'[w] = "store" /\ wpc[w] = "load" /\ (\A u \in Workers \ {w} : wpc'[u] = wpc[u] /\ local'[u] = local[u])
        /\ local'[w].seen = counter /\ UNCHANGED <<item, counter, queue, posted>>
    BY <1>4, <1>a DEF LoadCounter, Goto, NoLocal
  <2>2. Taken' = Taken
    BY <2>1 DEF Taken
  <2>3. \A i \in 0..(Taken - 1) : \A u \in Workers :
           item'[u] = i /\ wpc'[u] \in {"broadcast", "load", "store"} =>
             item[u] = i /\ wpc[u] \in {"broadcast", "load", "store"}
    BY <2>1
  <2>4. Cardinality(Numbered) <= Cardinality(Numbered')
    BY <1>a, <2>2, <2>3, NumberedGrows
  <2> QED
    BY <1>a, <1>b, <1>c, <2>1, <2>4 DEF Counted
<1>5. CASE StoreCounter(w)
  <2>1. /\ wpc[w] = "store" /\ wpc'[w] = "open" /\ (\A u \in Workers \ {w} : wpc'[u] = wpc[u] /\ local'[u] = local[u])
        /\ counter' = local[w].seen + 1 /\ UNCHANGED <<item, queue, posted>>
    BY <1>5, <1>a DEF StoreCounter, Goto
  <2>2. Taken' = Taken
    BY <2>1 DEF Taken
  <2>3. \A i \in 0..(Taken - 1) : \A u \in Workers :
           item'[u] = i /\ wpc'[u] \in {"broadcast", "load", "store"} =>
             item[u] = i /\ wpc[u] \in {"broadcast", "load", "store"}
    BY <2>1
  <2>4. Numbered \subseteq Numbered' /\ Cardinality(Numbered) <= Cardinality(Numbered')
    BY <1>a, <2>2, <2>3, NumberedGrows
  <2>5. item[w] \in 0..(Taken - 1) /\ \A u \in Workers \ {w} : item[u] # item[w]
    BY <1>a, <2>1 DEF Base, Hands, Types, Busy, Requests
  <2>6. item[w] \notin Numbered /\ item[w] \in Numbered'
    BY <2>1, <2>2, <2>5 DEF Numbered
  <2>7. Cardinality(Numbered \union {item[w]}) = Cardinality(Numbered) + 1
    BY <2>6, NumberedSize, FS_AddElement
  <2>8. Cardinality(Numbered \union {item[w]}) <= Cardinality(Numbered')
    BY <1>c, <2>4, <2>6, FS_Subset
  <2> QED
    BY <1>a, <1>b, <1>c, <2>1, <2>4, <2>7, <2>8 DEF Counted
<1>6. CASE Perform(w)
  <2>1. PICK o \in Outcomes : local' = [local EXCEPT ![w].rc = o.rc, ![w].ok = o.ok]
    BY <1>6 DEF Perform
  <2>2. UNCHANGED <<item, counter, queue, posted>> /\ \A u \in Workers : local'[u].seen = local[u].seen
    <3>1. \A u \in Workers : local[u] = [seen |-> local[u].seen, name |-> local[u].name,
                                         rc |-> local[u].rc, ok |-> local[u].ok]
      BY DEF Base, Types
    <3> QED
      BY <1>6, <1>a, <2>1, <3>1 DEF Perform
  <2>3. \A u \in Workers : wpc'[u] \in {"broadcast", "load", "store"} => wpc'[u] = wpc[u]
    BY <1>6, <1>a DEF Perform, Goto
  <2>4. Taken' = Taken
    BY <2>2 DEF Taken
  <2> QED
    BY <1>a, <2>2, <2>3, <2>4, CountedSame
<1>7. CASE CheckStatus(w)
  <2>1. /\ wpc'[w] = "lock" /\ (\A u \in Workers \ {w} : wpc'[u] = wpc[u] /\ local'[u] = local[u] /\ item'[u] = item[u])
        /\ UNCHANGED <<counter, queue, posted>>
    BY <1>7, <1>a DEF CheckStatus, Goto
  <2>2. Taken' = Taken
    BY <2>1 DEF Taken
  <2> QED
    BY <1>a, <2>1, <2>2, CountedSame
<1> QED
  BY <1>1, <1>2, <1>3, <1>4, <1>5, <1>6, <1>7 DEF Step
-----------------------------------------------------------------------------
(* Without a race *)

\* Racing says that two workers are at the same place.
LEMMA NotRacing == ~Racing => OnlyOne
<1> SUFFICES ASSUME ~Racing, NEW u \in Workers, NEW w \in Workers, wpc[u] = wpc[w],
                    wpc[u] \in {"store", "test"}, u # w
             PROVE  FALSE
  BY DEF OnlyOne
<1> DEFINE S == {v \in Workers : wpc[v] = wpc[u]}
<1>1. IsFiniteSet(S) /\ Cardinality(S) \in Nat
  BY ConstantFacts, FS_Subset, FS_CardinalityType
<1>2. Cardinality({u}) = 1 /\ IsFiniteSet({u})
  BY FS_Singleton
<1>3. Cardinality({u} \union {w}) = 2
  BY <1>2, FS_AddElement
<1>4. Cardinality({u} \union {w}) <= Cardinality(S)
  BY <1>1, FS_Subset
<1> QED
  BY <1>1, <1>3, <1>4 DEF Racing

\* A step that does not touch local names, files, the counter and returncode.
LEMMA QuietUnraced ==
  ASSUME Unraced, raced => raced',
         UNCHANGED <<counter, returncode, local, files, downloaded>>,
         \A u \in Workers : wpc[u] \in Named \union {"store"} \/ wpc'[u] \in Named \union {"store"} =>
           wpc'[u] = wpc[u] /\ item'[u] = item[u]
  PROVE  Unraced'
<1> SUFFICES ASSUME ~raced' PROVE (Alone /\ Names /\ OnDisk)'
  BY DEF Unraced
<1>1. Alone /\ Names /\ OnDisk
  BY DEF Unraced
<1>2. {"test", "perform", "status", "open"} = Named
  BY DEF Named
<1>3. Alone'
  BY <1>1, <1>2 DEF Alone, OnlyOne
<1>4. Names'
  BY <1>1, <1>2 DEF Names
<1>5. OnDisk'
  <2>1. \A u \in Workers : wpc[u] \in {"perform", "test", "status"} \/ wpc'[u] \in {"perform", "test", "status"} =>
           wpc'[u] = wpc[u] /\ item'[u] = item[u]
    BY <1>2
  <2> QED
    BY <1>1, <2>1 DEF OnDisk
<1> QED
  BY <1>3, <1>4, <1>5

\* The steps of the boss.
LEMMA BossUnraced ==
  ASSUME Base, Unraced, BossStep, raced => raced'
  PROVE  Unraced'
<1>1. UNCHANGED <<counter, returncode, local, files, downloaded, item>>
  BY DEF BossStep, BossLock, BossPut, BossSignal, BossJoin
<1>2. \A u \in Workers : wpc[u] \in Named \union {"store"} \/ wpc'[u] \in Named \union {"store"} => wpc'[u] = wpc[u]
  BY DEF BossStep, BossLock, BossPut, BossSignal, BossJoin, Named, Base, Types, Waiting
<1> QED
  BY <1>1, <1>2, QuietUnraced

\* The steps of a worker.
LEMMA WorkerUnraced ==
  ASSUME Base, Base', Unraced, NEW w \in Workers, Step(w) \/ WakeUp(w), raced' = (raced \/ Racing')
  PROVE  Unraced'
<1> SUFFICES ASSUME ~raced' PROVE Unraced'
  BY DEF Unraced
<1>a. ~raced /\ Alone /\ Names /\ OnDisk /\ raced \in BOOLEAN /\ ~Racing'
  BY DEF Unraced, Base, Types
<1>b. \A u, v \in Workers : wpc'[u] = wpc'[v] /\ wpc'[u] \in {"store", "test"} => u = v
  <2>1. (~Racing => OnlyOne)'
    BY NotRacing, PTL
  <2> QED
    BY <1>a, <2>1 DEF OnlyOne
<1>c. /\ wpc \in [Workers -> WorkerPC] /\ DOMAIN local = Workers /\ counter \in Nat /\ DOMAIN item = Workers
      /\ DOMAIN downloaded = Requests
      /\ \A u \in Workers :
           /\ local[u] = [seen |-> local[u].seen, name |-> local[u].name,
                          rc |-> local[u].rc, ok |-> local[u].ok]
           /\ local[u].seen \in Nat
  BY DEF Base, Types
<1>d. \A u \in Workers : wpc[u] \in Named \union {"store"} => item[u] \in Requests
  BY ConstantFacts DEF Base, Hands, Types, Named, Busy
<1>1. CASE Lock(w) \/ Wait(w) \/ WakeUp(w) \/ Pop(w)
  <2>1. UNCHANGED <<counter, returncode, local, files, downloaded>>
    BY <1>1 DEF Lock, Wait, WakeUp, Pop
  <2>2. \A u \in Workers : wpc[u] \in Named \union {"store"} \/ wpc'[u] \in Named \union {"store"} =>
           wpc'[u] = wpc[u] /\ item'[u] = item[u]
    BY <1>1, <1>c DEF Lock, Wait, WakeUp, Pop, Goto, Named
  <2> QED
    BY <1>a, <2>1, <2>2, QuietUnraced
<1>2. CASE Broadcast(w)
  <2>1. UNCHANGED <<counter, returncode, local, files, downloaded, item>>
    BY <1>2 DEF Broadcast
  <2>2. \A u \in Workers : wpc[u] \in Named \union {"store"} \/ wpc'[u] \in Named \union {"store"} => wpc'[u] = wpc[u]
    BY <1>2, <1>c DEF Broadcast, Named
  <2> QED
    BY <1>a, <2>1, <2>2, QuietUnraced
<1>3. CASE LoadCounter(w)
  <2>1. /\ wpc'[w] = "store" /\ wpc[w] = "load" /\ (\A u \in Workers \ {w} : wpc'[u] = wpc[u] /\ local'[u] = local[u])
        /\ local'[w].seen = counter /\ UNCHANGED <<item, counter, returncode, files, downloaded>>
    BY <1>3, <1>c DEF LoadCounter, Goto, NoLocal
  <2>2. \A u \in Workers : wpc'[u] \in Named => u # w /\ wpc[u] \in Named
    BY <2>1 DEF Named
  <2>3. \A u \in Workers : wpc[u] \in Named => u # w
    BY <2>1 DEF Named
  <2>4. Alone'
    BY <1>a, <1>b, <2>1 DEF Alone, OnlyOne
  <2>5. Names'
    BY <1>a, <2>1, <2>2 DEF Names
  <2>6. OnDisk'
    BY <1>a, <2>1, <2>3 DEF OnDisk, Named
  <2> QED
    BY <2>4, <2>5, <2>6 DEF Unraced
<1>4. CASE StoreCounter(w)
  <2>1. /\ wpc[w] = "store" /\ wpc'[w] = "open" /\ (\A u \in Workers \ {w} : wpc'[u] = wpc[u] /\ local'[u] = local[u])
        /\ counter' = local[w].seen + 1 /\ UNCHANGED <<item, returncode, files, downloaded>>
        /\ local'[w].seen = local[w].seen /\ local'[w].name = <<Path(item[w]), local[w].seen>>
    BY <1>4, <1>c DEF StoreCounter, Goto
  <2>2. local[w].seen = counter /\ counter' = counter + 1
    BY <1>a, <2>1 DEF Alone, OnlyOne
  <2>3. \A u \in Workers \ {w} : wpc[u] # "store"
    BY <1>a, <2>1 DEF Alone, OnlyOne
  <2>4. Alone'
    BY <1>a, <1>b, <2>1, <2>3 DEF Alone, OnlyOne
  <2>5. \A i \in Requests : <<Path(item[w]), counter>> \notin downloaded[i]
    <3> SUFFICES ASSUME NEW i \in Requests, <<Path(item[w]), counter>> \in downloaded[i] PROVE FALSE
      OBVIOUS
    <3>1. PICK n \in 0..(counter - 1) : <<Path(item[w]), counter>> = <<Path(i), n>>
      BY <1>a DEF Names
    <3>2. counter = n
      BY <3>1
    <3> QED
      BY <1>c, <3>2
  <2>6. Names'
    <3>1. \A u \in Workers : wpc'[u] \in Named =>
            local'[u].name = <<Path(item[u]), local'[u].seen>> /\ local'[u].seen < counter + 1
      BY <1>a, <1>c, <2>1, <2>2 DEF Names
    <3>2. \A u, v \in Workers : wpc'[u] \in Named /\ wpc'[v] \in Named /\ local'[u].seen = local'[v].seen => u = v
      <4>1. \A u \in Workers \ {w} : wpc[u] \in Named => local[u].seen < counter
        BY <1>a DEF Names
      <4> QED
        BY <1>a, <1>c, <2>1, <2>2, <4>1 DEF Names
    <3>3. \A i \in Requests : \A x \in downloaded[i] : \E n \in 0..counter : x = <<Path(i), n>>
      <4> TAKE i \in Requests
      <4> TAKE x \in downloaded[i]
      <4>1. PICK n \in 0..(counter - 1) : x = <<Path(i), n>>
        BY <1>a DEF Names
      <4>2. n \in 0..counter
        BY <1>c
      <4> QED
        BY <4>1, <4>2
    <3>4. \A u \in Workers, i \in Requests : wpc'[u] \in Named /\ i # item[u] => local'[u].name \notin downloaded[i]
      BY <1>a, <2>1, <2>2, <2>5 DEF Names
    <3>5. counter' - 1 = counter
      BY <1>c, <2>2
    <3> QED
      BY <1>a, <2>1, <2>2, <3>1, <3>2, <3>3, <3>4, <3>5 DEF Names
  <2>7. OnDisk'
    BY <1>a, <2>1 DEF OnDisk
  <2> QED
    BY <2>4, <2>6, <2>7 DEF Unraced
<1>5. CASE OpenFile(w)
  <2>1. /\ wpc[w] = "open" /\ wpc'[w] = "perform" /\ (\A u \in Workers \ {w} : wpc'[u] = wpc[u])
        /\ files' = files \union {local[w].name} /\ UNCHANGED <<item, counter, returncode, local, downloaded>>
    BY <1>5, <1>c DEF OpenFile, Goto
  <2>2. downloaded[item[w]] = {}
    BY <1>d, <2>1 DEF Base, Results, Named
  <2>3. \A u \in Workers : wpc[u] = "status" => local[u].name # local[w].name
    <3>1. \A u \in Workers : wpc[u] = "status" => u # w /\ wpc[u] \in Named /\ wpc[w] \in Named
      BY <2>1 DEF Named
    <3>2. \A u \in Workers : wpc[u] \in Named => local[u].name = <<Path(item[u]), local[u].seen>>
      BY <1>a DEF Names
    <3> QED
      BY <1>a, <3>1, <3>2 DEF Names
  <2>4. Alone'
    BY <1>a, <1>b, <2>1 DEF Alone, OnlyOne
  <2>5. Names'
    <3>1. \A u \in Workers : wpc'[u] \in Named <=> wpc[u] \in Named
      BY <2>1 DEF Named
    <3> QED
      BY <1>a, <2>1, <3>1 DEF Names
  <2>6. OnDisk'
    BY <1>a, <2>1, <2>3 DEF OnDisk
  <2> QED
    BY <2>4, <2>5, <2>6 DEF Unraced
<1>6. CASE Perform(w)
  <2>1. PICK o \in Outcomes :
          /\ returncode' = o.rc
          /\ local' = [local EXCEPT ![w].rc = o.rc, ![w].ok = o.ok]
          /\ downloaded' = IF o.rc = 0 /\ o.ok
                           THEN [downloaded EXCEPT ![item[w]] = @ \union {local[w].name}]
                           ELSE downloaded
    BY <1>6 DEF Perform
  <2>2. wpc[w] = "perform" /\ wpc'[w] = "test" /\ (\A u \in Workers \ {w} : wpc'[u] = wpc[u])
        /\ UNCHANGED <<item, counter, files>>
    BY <1>6, <1>c DEF Perform, Goto
  <2>3. /\ local'[w].rc = o.rc /\ local'[w].ok = o.ok /\ \A u \in Workers \ {w} : local'[u] = local[u]
        /\ \A u \in Workers : local'[u].seen = local[u].seen /\ local'[u].name = local[u].name
    BY <1>c, <2>1
  <2>4. item[w] \in Requests /\ downloaded[item[w]] = {}
    BY <1>d, <2>2 DEF Base, Results, Named
  <2>5. o.rc \in {-1, 0, 2} /\ (o.ok => o.rc # 2)
    BY DEF Outcomes
  <2>6. \A i \in Requests :
          downloaded'[i] = IF i = item[w] /\ o.rc = 0 /\ o.ok THEN {local[w].name} ELSE downloaded[i]
    BY <1>c, <2>1, <2>4
  <2>7. \A u \in Workers \ {w} : wpc'[u] # "test"
    BY <1>b, <2>2
  <2>8. Alone'
    BY <1>a, <1>b, <2>1, <2>2, <2>3, <2>7 DEF Alone, OnlyOne
  <2>9. \A u \in Workers : wpc'[u] \in Named <=> wpc[u] \in Named
    BY <2>2 DEF Named
  <2>10. wpc[w] \in Named /\ wpc[w] \in {"perform", "test"}
    BY <2>2 DEF Named
  <2>11. /\ local[w].name = <<Path(item[w]), local[w].seen>>
         /\ local[w].seen \in 0..(counter - 1)
    BY <1>a, <1>c, <2>10 DEF Names
  <2>12. \A u \in Workers \ {w} : wpc[u] \in Named => local[u].name # local[w].name
    <3>1. \A u \in Workers : wpc[u] \in Named => local[u].name = <<Path(item[u]), local[u].seen>>
      BY <1>a DEF Names
    <3>2. \A u \in Workers \ {w} : wpc[u] \in Named => local[u].seen # local[w].seen
      BY <1>a, <2>10 DEF Names
    <3> QED
      BY <2>11, <3>1, <3>2
  <2>13. \A i \in Requests \ {item[w]} : local[w].name \notin downloaded[i]
    BY <1>a, <2>10 DEF Names
  <2>14. Names'
    <3>1. \A u \in Workers : wpc'[u] \in Named =>
            local'[u].name = <<Path(item[u]), local'[u].seen>> /\ local'[u].seen < counter
      BY <1>a, <2>3, <2>9 DEF Names
    <3>2. \A u, v \in Workers : wpc'[u] \in Named /\ wpc'[v] \in Named /\ local'[u].seen = local'[v].seen => u = v
      BY <1>a, <2>3, <2>9 DEF Names
    <3>3. \A i \in Requests : \A x \in downloaded'[i] : \E n \in 0..(counter - 1) : x = <<Path(i), n>>
      BY <1>a, <2>6, <2>11 DEF Names
    <3>4. \A i, j \in Requests : i # j => downloaded'[i] \intersect downloaded'[j] = {}
      BY <1>a, <2>6, <2>13 DEF Names
    <3>5. \A u \in Workers, i \in Requests : wpc'[u] \in Named /\ i # item[u] => local'[u].name \notin downloaded'[i]
      BY <1>a, <2>3, <2>6, <2>9, <2>12 DEF Names
    <3> QED
      BY <2>2, <3>1, <3>2, <3>3, <3>4, <3>5 DEF Names
  <2>15. OnDisk'
    <3>1. \A i \in Requests : downloaded'[i] \subseteq files
      BY <1>a, <2>6, <2>10 DEF OnDisk
    <3>2. \A u \in Workers : wpc'[u] \in {"perform", "test"} => local'[u].name \in files
      BY <1>a, <2>2, <2>3 DEF OnDisk
    <3>3. \A x \in files : \/ \E i \in Requests : x \in downloaded'[i]
                           \/ \E u \in Workers : wpc'[u] \in {"perform", "test", "status"} /\ local'[u].name = x
      <4> TAKE x \in files
      <4>1. CASE \E i \in Requests : x \in downloaded[i]
        BY <2>4, <2>6, <4>1
      <4>2. CASE \E u \in Workers : wpc[u] \in {"perform", "test", "status"} /\ local[u].name = x
        BY <2>2, <2>3, <4>2
      <4> QED
        BY <1>a, <4>1, <4>2 DEF OnDisk
    <3>4. \A u \in Workers : wpc'[u] = "test" =>
            /\ local'[u].rc \in {-1, 0, 2}
            /\ local'[u].name \in downloaded'[item[u]] <=> local'[u].rc = 0 /\ local'[u].ok
            /\ local'[u].ok => local'[u].rc # 2
      BY <2>3, <2>4, <2>5, <2>6, <2>7
    <3>5. \A u \in Workers \ {w} : wpc[u] = "status" => downloaded'[item[u]] = downloaded[item[u]]
      <4>1. \A u \in Workers \ {w} : wpc[u] = "status" => item[u] \in Requests /\ item[u] # item[w]
        BY <1>d, <2>4, ConstantFacts DEF Named, Base, Hands
      <4> QED
        BY <2>6, <4>1
    <3>6. \A u \in Workers : wpc'[u] = "status" =>
            /\ local'[u].name \in files /\ local'[u].ok => local'[u].name \in downloaded'[item[u]]
            /\ local'[u].name \in downloaded'[item[u]] => local'[u].ok
      BY <1>a, <2>2, <2>3, <3>5 DEF OnDisk
    <3> QED
      BY <2>2, <3>1, <3>2, <3>3, <3>4, <3>6 DEF OnDisk
  <2> QED
    BY <2>8, <2>14, <2>15 DEF Unraced
<1>7. CASE Test(w) \/ CheckStatus(w)
  <2>1. /\ wpc[w] \in {"test", "status"} /\ wpc'[w] = IF wpc[w] = "test" THEN "status" ELSE "lock"
        /\ (\A u \in Workers \ {w} : wpc'[u] = wpc[u] /\ local'[u] = local[u] /\ item'[u] = item[u])
        /\ UNCHANGED <<counter, returncode, downloaded>>
        /\ (wpc[w] = "test" => local' = local /\ item' = item)
        /\ files' = IF (wpc[w] = "test" /\ returncode < 0) \/ (wpc[w] = "status" /\ ~local[w].ok)
                    THEN files \ {local[w].name} ELSE files
    <3>1. CASE Test(w)
      BY <1>c, <3>1 DEF Test, Goto
    <3>2. CASE CheckStatus(w)
      BY <1>c, <3>2 DEF CheckStatus, Goto
    <3> QED
      BY <1>7, <3>1, <3>2
  <2>2. wpc[w] \in Named /\ item[w] \in Requests
    BY <1>d, <2>1 DEF Named
  <2>3. wpc[w] = "test" => returncode = local[w].rc /\ local[w].rc \in {-1, 0, 2}
    BY <1>a DEF Alone, OnlyOne, OnDisk
  <2>4. local[w].name \in files \ files' => \A i \in Requests : local[w].name \notin downloaded[i]
    <3>1. local[w].name \in files \ files' => local[w].name \notin downloaded[item[w]]
      BY <1>a, <2>1, <2>3 DEF OnDisk
    <3> QED
      BY <1>a, <2>2, <3>1 DEF Names
  <2>5. \A u \in Workers \ {w} : wpc[u] \in Named => local[u].name # local[w].name
    <3>1. \A u \in Workers : wpc[u] \in Named => local[u].name = <<Path(item[u]), local[u].seen>>
      BY <1>a DEF Names
    <3>2. \A u \in Workers \ {w} : wpc[u] \in Named => local[u].seen # local[w].seen
      BY <1>a, <2>2 DEF Names
    <3> QED
      BY <2>2, <3>1, <3>2
  <2>6. \A u \in Workers : wpc'[u] \in Named => wpc[u] \in Named /\ local'[u] = local[u] /\ item'[u] = item[u]
    BY <2>1 DEF Named
  <2>7. Alone'
    BY <1>a, <1>b, <2>1 DEF Alone, OnlyOne
  <2>8. Names'
    BY <1>a, <2>1, <2>6 DEF Names
  <2>9. OnDisk'
    <3>0. {"perform", "test", "status"} \subseteq Named
      BY DEF Named
    <3>1. \A i \in Requests : downloaded[i] \subseteq files'
      BY <1>a, <2>1, <2>4 DEF OnDisk
    <3>2. \A u \in Workers : wpc'[u] \in {"perform", "test"} => local'[u].name \in files'
      <4>1. \A u \in Workers : wpc'[u] \in {"perform", "test"} => u # w /\ wpc[u] = wpc'[u] /\ wpc[u] \in Named
        BY <2>1, <3>0
      <4> QED
        BY <1>a, <2>1, <2>5, <4>1 DEF OnDisk
    <3>3. \A x \in files' : \/ \E i \in Requests : x \in downloaded[i]
                            \/ \E u \in Workers : wpc'[u] \in {"perform", "test", "status"} /\ local'[u].name = x
      <4> TAKE x \in files'
      <4>1. x \in files
        BY <2>1
      <4>2. CASE \E i \in Requests : x \in downloaded[i]
        BY <4>2
      <4>3. CASE \E u \in Workers \ {w} : wpc[u] \in {"perform", "test", "status"} /\ local[u].name = x
        BY <2>1, <4>3
      <4>4. CASE local[w].name = x /\ wpc[w] = "test"
        BY <2>1, <4>4
      <4>5. CASE local[w].name = x /\ wpc[w] = "status"
        <5>1. local[w].ok
          BY <2>1, <4>5
        <5>2. x \in downloaded[item[w]]
          BY <1>a, <4>1, <4>5, <5>1 DEF OnDisk
        <5> QED
          BY <2>2, <5>2
      <4> QED
        BY <1>a, <2>1, <4>1, <4>2, <4>3, <4>4, <4>5 DEF OnDisk
    <3>4. \A u \in Workers : wpc'[u] = "test" =>
            /\ local'[u].rc \in {-1, 0, 2}
            /\ local'[u].name \in downloaded[item'[u]] <=> local'[u].rc = 0 /\ local'[u].ok
            /\ local'[u].ok => local'[u].rc # 2
      BY <1>a, <2>1 DEF OnDisk
    <3>5. \A u \in Workers : wpc'[u] = "status" =>
            /\ local'[u].name \in files' /\ local'[u].ok => local'[u].name \in downloaded[item'[u]]
            /\ local'[u].name \in downloaded[item'[u]] => local'[u].ok
      <4>1. CASE wpc[w] = "test"
        <5>1. /\ local[w].name \in files' /\ local[w].ok => local[w].name \in downloaded[item[w]]
              /\ local[w].name \in downloaded[item[w]] => local[w].ok
          BY <1>a, <2>1, <2>3, <4>1 DEF OnDisk
        <5> QED
          BY <1>a, <2>1, <2>5, <4>1, <5>1 DEF OnDisk
      <4>2. CASE wpc[w] = "status"
        BY <1>a, <2>1, <4>2 DEF OnDisk
      <4> QED
        BY <2>1, <4>1, <4>2
    <3> QED
      BY <2>1, <3>1, <3>2, <3>3, <3>4, <3>5 DEF OnDisk
  <2> QED
    BY <2>7, <2>8, <2>9 DEF Unraced
<1> QED
  BY <1>1, <1>2, <1>3, <1>4, <1>5, <1>6, <1>7 DEF Step
-----------------------------------------------------------------------------
(* The theorems *)

\* The invariant holds in the initial state ...
LEMMA InitInv == Init => IInv
<1> SUFFICES ASSUME Init PROVE IInv
  OBVIOUS
<1> USE ConstantFacts DEF Init
<1>1. queue \in Seq(Requests \union {Done}) /\ posted = 0 /\ queue = << >>
  OBVIOUS
<1>2. Taken = 0 /\ \A i : i \notin 1..Len(queue)
  <2>1. PICK n \in Nat : n = Len(queue)
    BY <1>1, LenProperties
  <2>2. n = 0
    BY <1>1, <2>1
  <2>3. Taken = 0 - n
    BY <1>1, <2>1, Zenon DEF Taken
  <2> QED
    BY <2>1, <2>2, <2>3
<1>3. Types
  <2>1. \A w \in Workers : local[w] = NoLocal
    OBVIOUS
  <2>2. wpc \in [Workers -> WorkerPC] /\ item \in [Workers -> Requests \union {Done}]
    BY DEF WorkerPC
  <2>3. DOMAIN local = Workers /\ DOMAIN downloaded = Requests
    OBVIOUS
  <2>4. /\ NoLocal.seen = 0 /\ NoLocal.name = << >> /\ NoLocal.rc = 0 /\ NoLocal.ok = FALSE
        /\ NoLocal = [seen |-> NoLocal.seen, name |-> NoLocal.name, rc |-> NoLocal.rc, ok |-> NoLocal.ok]
    BY DEF NoLocal
  <2>5. \A w \in Workers :
          /\ local[w] = [seen |-> local[w].seen, name |-> local[w].name,
                         rc |-> local[w].rc, ok |-> local[w].ok]
          /\ local[w].seen \in Nat
    BY <2>1, <2>4
  <2>6. /\ mutex \in Workers \union {Boss, Free} /\ bpc \in {"lock", "put", "signal", "join", "exit"}
        /\ posted \in 0..(NRequests + 1) /\ counter \in Nat /\ returncode \in {-1, 0, 2}
        /\ raced \in BOOLEAN
    <3>1. posted \in 0..(NRequests + 1) /\ counter \in Nat
      OBVIOUS
    <3>2. returncode \in {-1, 0, 2}
      OBVIOUS
    <3>3. mutex \in Workers \union {Boss, Free} /\ bpc \in {"lock", "put", "signal", "join", "exit"}
      OBVIOUS
    <3>4. raced \in BOOLEAN
      OBVIOUS
    <3> QED
      BY <3>1, <3>2, <3>3, <3>4
  <2> QED
    BY <1>1, <2>2, <2>3, <2>5, <2>6, Zenon DEF Types
<1>4. MutexHeld /\ Fifo /\ Phases
  <2>1. Fifo
    BY <1>2 DEF Fifo
  <2> QED
    BY <1>1, <1>2, <2>1 DEF MutexHeld, Phases
<1>5. Hands /\ Results
  BY <1>2 DEF Hands, Results, Busy
<1>a. Covered
  BY <1>2 DEF Covered
<1>6. Numbered = {}
  BY <1>2 DEF Numbered
<1>7. Counted
  BY <1>6, FS_EmptySet DEF Counted
<1>8. Unraced
  BY DEF Unraced, Alone, OnlyOne, Names, OnDisk, Named
<1> QED
  BY <1>3, <1>4, <1>5, <1>7, <1>8, <1>a DEF IInv

\* ... and every step keeps it.
LEMMA NextInv == IInv /\ [Next]_vars => IInv'
<1> SUFFICES ASSUME IInv, [Next]_vars PROVE IInv'
  OBVIOUS
<1>0. Base /\ Covered /\ Counted /\ Unraced /\ raced \in BOOLEAN
  BY DEF IInv, Base, Types
<1>1. CASE Runs(BossStep)
  <2>1. BossStep /\ raced' = (raced \/ Racing')
    BY <1>1 DEF Runs
  <2>2. raced' \in BOOLEAN /\ (raced => raced')
    BY <1>0, <2>1 DEF Racing
  <2>3. Base'
    BY <1>0, <2>1, <2>2, BossBase
  <2>4. Covered' /\ Counted' /\ Unraced'
    BY <1>0, <2>1, <2>2, <2>3, BossCovered, BossCounted, BossUnraced
  <2> QED
    BY <2>3, <2>4 DEF IInv, Base
<1>2. ASSUME NEW w \in Workers, Runs(Step(w)) \/ Runs(WakeUp(w)) PROVE IInv'
  <2>1. (Step(w) \/ WakeUp(w)) /\ raced' = (raced \/ Racing')
    BY <1>2 DEF Runs
  <2>2. raced' \in BOOLEAN
    BY <1>0, <2>1 DEF Racing
  <2>3. Base'
    BY <1>0, <2>1, <2>2, WorkerBase
  <2>4. Covered' /\ Counted' /\ Unraced'
    BY <1>0, <2>1, <2>3, WorkerCovered, WorkerCounted, WorkerUnraced
  <2> QED
    BY <2>3, <2>4 DEF IInv, Base
<1>3. CASE UNCHANGED vars
  <2>1. Types' /\ MutexHeld' /\ Fifo' /\ Phases' /\ Hands' /\ Results'
    BY <1>0, <1>3 DEF vars, Base, Types, MutexHeld, Fifo, Phases, Hands, Results, Taken
  <2>2. Covered' /\ Counted'
    BY <1>0, <1>3 DEF vars, Covered, Counted, Numbered, Taken
  <2>3. Unraced'
    BY <1>0, <1>3 DEF vars, Unraced, Alone, OnlyOne, Names, OnDisk
  <2> QED
    BY <2>1, <2>2, <2>3 DEF IInv
<1> QED
  BY <1>1, <1>2, <1>3 DEF Next, Exited

\* The queue is in order, requests are in one pair of hands at a time, the counter
\* is bounded by the requests numbered and, without a race, files match requests.
THEOREM Invariance == Spec => []IInv
  BY InitInv, NextInv, PTL DEF Spec

\* Every variable has its type; the races on counter never make localPath number
\* a file past the requests, whatever the number of workers.
THEOREM TypeCorrect == Spec => []TypeOK
<1>1. IInv => TypeOK
  <2> SUFFICES ASSUME IInv PROVE TypeOK
    OBVIOUS
  <2>1. Cardinality(Numbered) \in Nat /\ Cardinality(Numbered) <= NRequests
    BY NumberedSize DEF IInv, Base
  <2>2. counter \in 0..NRequests
    BY <2>1, ConstantFacts DEF IInv, Types, Counted
  <2> QED
    BY <2>2 DEF IInv, Types, Covered, TypeOK, WorkerPC
<1> QED
  BY <1>1, Invariance, PTL

\* steque_pop under the mutex gives every request to one worker: none is lost or
\* taken twice, and none is behind Done.
THEOREM RequestsTakenOnce == Spec => []ExactlyOnce
<1>1. IInv => ExactlyOnce
  <2> SUFFICES ASSUME IInv PROVE ExactlyOnce
    OBVIOUS
  <2>1. Types /\ Fifo /\ Hands
    BY DEF IInv
  <2>2. Taken \in Nat /\ Len(queue) \in Nat /\ posted = Taken + Len(queue) /\ posted <= NRequests + 1 /\ NRequests \in Nat
    BY <2>1, TakenType, ConstantFacts DEF Types
  <2>3. \A i \in 1..Len(queue) : queue[i] = Done <=> Taken + i - 1 = NRequests
    <3> TAKE i \in 1..Len(queue)
    <3>1. queue[i] = Nth(Taken + i - 1) /\ Taken + i - 1 <= NRequests /\ Taken + i - 1 \in Nat
      BY <2>1, <2>2 DEF Fifo
    <3> QED
      BY <2>2, <3>1, ClientAssumption DEF Nth
  <2>4. \A i \in 1..Len(queue) : queue[i] # Done => queue[i] = Taken + i - 1
    BY <2>1 DEF Fifo, Nth
  <2>5. \A i \in 1..Len(queue) : queue[i] = Done => i = Len(queue)
    BY <2>2, <2>3
  <2>6. \A i, j \in 1..Len(queue) : queue[i] = queue[j] => i = j
    BY <2>2, <2>3, <2>4
  <2>7. ASSUME NEW w \in Workers, item[w] # Done
        PROVE  /\ \A i \in 1..Len(queue) : queue[i] # item[w]
               /\ \A u \in Workers : item[u] = item[w] => u = w
    <3>1. item[w] < Taken /\ item[w] \in Nat
      BY <2>1, <2>7, ConstantFacts DEF Hands, Types
    <3>2. \A i \in 1..Len(queue) : queue[i] # item[w]
      BY <2>2, <2>4, <2>7, <3>1
    <3> QED
      BY <2>1, <2>7, <3>2 DEF Hands
  <2>8. ASSUME NEW r \in Requests, r < posted
        PROVE  \/ \E i \in 1..Len(queue) : queue[i] = r
               \/ \E w \in Workers : item[w] = r
               \/ r \in over
    <3>1. r \in Nat /\ r < NRequests
      BY ConstantFacts
    <3>2. CASE r < Taken
      BY <3>2 DEF IInv, Covered
    <3>3. CASE r >= Taken
      <4>1. r - Taken + 1 \in 1..Len(queue) /\ Taken + (r - Taken + 1) - 1 = r
        BY <2>2, <2>8, <3>1, <3>3
      <4>2. queue[r - Taken + 1] = Nth(Taken + (r - Taken + 1) - 1)
        BY <2>1, <4>1 DEF Fifo
      <4> QED
        BY <3>1, <4>1, <4>2 DEF Nth
    <3> QED
      BY <2>2, <3>1, <3>2, <3>3
  <2>9. ASSUME NEW r \in over
        PROVE  (\A i \in 1..Len(queue) : queue[i] # r) /\ (\A w \in Workers : item[w] # r)
    <3>1. r \in Nat /\ r # Done /\ r < Taken /\ \A w \in Workers : item[w] # r
      BY ConstantFacts DEF IInv, Covered
    <3>2. ASSUME NEW i \in 1..Len(queue) PROVE queue[i] # r
      <4>1. CASE queue[i] = Done
        BY <3>1, <4>1
      <4>2. CASE queue[i] = Taken + i - 1
        BY <2>2, <3>1, <4>2
      <4> QED
        BY <2>4, <4>1, <4>2
    <3> QED
      BY <3>1, <3>2
  <2> QED
    BY <2>5, <2>6, <2>7, <2>8, <2>9 DEF ExactlyOnce
<1> QED
  BY <1>1, Invariance, PTL

\* When main returns after the last pthread_join, only Done is left in the queue,
\* no worker is busy and every request was processed.
THEOREM ShutdownClean == Spec => []CleanShutdown
<1>1. IInv => CleanShutdown
  <2> SUFFICES ASSUME IInv, bpc = "exit" PROVE CleanShutdown
    BY DEF CleanShutdown
  <2>0. Types /\ Fifo /\ Phases /\ Hands /\ Results
    BY DEF IInv
  <2>1. \A w \in Workers : wpc[w] = "exit"
    BY <2>0 DEF Phases
  <2>2. \A w \in Workers : item[w] = Done
    BY <2>0, <2>1 DEF Hands, Busy
  <2>3. posted = NRequests + 1 /\ Taken = NRequests
    BY <2>0, <2>1, ConstantFacts DEF Phases
  <2>4. queue = <<Done>>
    <3>1. queue # << >>
      <4>1. Len(queue) > 0
        BY <2>0, <2>3, TakenType, ConstantFacts
      <4> QED
        BY <4>1
    <3> QED
      BY <2>0, <2>3, <3>1, HeadOfQueue
  <2>5. ASSUME NEW i \in Requests
        PROVE  Cardinality(downloaded[i]) \in IF Failures THEN {0, 1} ELSE {1}
    <3>1. i < Taken /\ i # Done
      BY <2>3, ConstantFacts
    <3>2. CASE downloaded[i] = {}
      <4>1. Failures
        BY <2>0, <2>2, <3>1, <3>2, ConstantFacts DEF Results
      <4> QED
        BY <3>2, <4>1, FS_EmptySet
    <3>3. CASE \E x \in downloaded[i] : downloaded[i] = {x}
      BY <3>3, FS_Singleton
    <3> QED
      BY <2>0, <3>2, <3>3 DEF Results
  <2>6. over = Requests
    <3>1. Covered
      BY DEF IInv
    <3>2. \A r \in Requests : r # Done /\ r < Taken
      BY <2>3, ConstantFacts
    <3>3. \A r \in Requests : \A w \in Workers : item[w] # r
      BY <2>2, <3>2
    <3> QED
      BY <3>1, <3>2, <3>3 DEF Covered
  <2> QED
    BY <2>1, <2>2, <2>4, <2>5, <2>6 DEF CleanShutdown
<1> QED
  BY <1>1, Invariance, PTL

\* Unless workers race on counter or returncode, the files left on the disk are
\* exactly those received completely, one for every request received.
THEOREM CopiesRight == Spec => []LocalCopies
<1>1. IInv => LocalCopies
  <2> SUFFICES ASSUME IInv, bpc = "exit", ~raced PROVE LocalCopies
    BY DEF LocalCopies
  <2>1. \A w \in Workers : wpc[w] = "exit"
    BY DEF IInv, Phases
  <2>2. Names /\ OnDisk
    BY DEF IInv, Unraced
  <2>3. files = UNION {downloaded[i] : i \in Requests}
    <3>1. \A x \in files : \E i \in Requests : x \in downloaded[i]
      BY <2>1, <2>2 DEF OnDisk
    <3>2. \A i \in Requests : downloaded[i] \subseteq files
      BY <2>2 DEF OnDisk
    <3> QED
      BY <3>1, <3>2
  <2> QED
    BY <2>2, <2>3 DEF LocalCopies, Names
<1> QED
  BY <1>1, Invariance, PTL
-----------------------------------------------------------------------------
(* Sequences of bytes *)

\* Content, what is read beyond a buffer, and the pieces of headers and requests
Symbols ==
  Bytes \union {"garbage", "g1", "g2", "OK", "INVALID", "FILE_NOT_FOUND", "ERROR", "s2", "d1", "d2",
                "e1", "e2", "get", "known", "unknown", "nolead", "end"}

\* A sequence is what a recv takes of it, followed by what it leaves.
LEMMA Cut ==
  ASSUME NEW S, NEW s \in Seq(S), NEW n \in 0..Len(s)
  PROVE  /\ SubSeq(s, 1, n) \in Seq(S) /\ Len(SubSeq(s, 1, n)) = n
         /\ \A i \in 1..n : SubSeq(s, 1, n)[i] = s[i]
         /\ SubSeq(s, n + 1, Len(s)) \in Seq(S) /\ Len(SubSeq(s, n + 1, Len(s))) = Len(s) - n
         /\ \A i \in 1..(Len(s) - n) : SubSeq(s, n + 1, Len(s))[i] = s[n + i]
         /\ SubSeq(s, 1, n) \o SubSeq(s, n + 1, Len(s)) = s
<1>1. Len(s) \in Nat /\ \A i \in 1..Len(s) : s[i] \in S
  BY LenProperties, ElementOfSeq
<1>2. \A i \in 1..n : s[i] \in S
  BY <1>1
<1>3. \A i \in (n + 1)..Len(s) : s[i] \in S
  BY <1>1
<1>4. /\ SubSeq(s, 1, n) \in Seq(S) /\ Len(SubSeq(s, 1, n)) = n
      /\ \A i \in 1..n : SubSeq(s, 1, n)[i] = s[i]
  BY <1>1, <1>2, SubSeqProperties
<1>5. /\ SubSeq(s, n + 1, Len(s)) \in Seq(S) /\ Len(SubSeq(s, n + 1, Len(s))) = Len(s) - n
      /\ \A i \in 1..(Len(s) - n) : SubSeq(s, n + 1, Len(s))[i] = s[n + i]
  BY <1>1, <1>3, SubSeqProperties
<1>6. SubSeq(s, 1, n) \o SubSeq(s, n + 1, Len(s)) = SubSeq(s, 1, Len(s))
  <2>1. 1 \in 1..(Len(s) + 1) /\ n \in (1 - 1)..Len(s) /\ Len(s) \in n..Len(s)
    BY <1>1
  <2> QED
    BY <2>1, ConcatAdjacentSubSeq
<1> QED
  BY <1>4, <1>5, <1>6, SubSeqFull

\* IsPrefix, element by element.
LEMMA Prefix ==
  ASSUME NEW s \in Seq(Symbols), NEW t \in Seq(Symbols)
  PROVE  IsPrefix(s, t) <=> Len(s) <= Len(t) /\ \A i \in 1..Len(s) : s[i] = t[i]
<1>1. Len(s) \in Nat /\ Len(t) \in Nat
  BY LenProperties
<1>2. SubSeq(s, 1, Len(s)) = s
  BY SubSeqFull
<1>3. CASE Len(s) <= Len(t)
  <2>1. /\ SubSeq(t, 1, Len(s)) \in Seq(Symbols) /\ Len(SubSeq(t, 1, Len(s))) = Len(s)
        /\ \A i \in 1..Len(s) : SubSeq(t, 1, Len(s))[i] = t[i]
    BY <1>1, <1>3, Cut
  <2>2. ASSUME \A i \in 1..Len(s) : s[i] = t[i] PROVE s = SubSeq(t, 1, Len(s))
    BY <2>1, <2>2, SeqEqual
  <2> QED
    BY <1>2, <1>3, <2>1, <2>2 DEF IsPrefix
<1> QED
  BY <1>1, <1>3 DEF IsPrefix

\* Concatenation is associative.
LEMMA Joined == \A r, s, t \in Seq(Symbols) : (r \o s) \o t = r \o (s \o t)
  BY ConcatAssociative

\* Where the second of two sequences is in their concatenation.
LEMMA Second ==
  ASSUME NEW s \in Seq(Symbols), NEW t \in Seq(Symbols), NEW i \in 1..Len(t)
  PROVE  /\ Len(s) + i \in 1..Len(s \o t) /\ Len(s \o t) \in Nat
         /\ (s \o t)[Len(s) + i] = t[i]
<1>1. Len(s) \in Nat /\ Len(t) \in Nat
  BY LenProperties
<1> DEFINE j == Len(s) + i
<1>2. j \in 1..(Len(s) + Len(t)) /\ ~(j <= Len(s)) /\ j - Len(s) = i
  BY <1>1
<1> HIDE DEF j
<1>3. Len(s \o t) = Len(s) + Len(t) /\ (s \o t)[j] = IF j <= Len(s) THEN s[j] ELSE t[j - Len(s)]
  BY <1>2, ConcatProperties
<1> QED
  BY <1>1, <1>2, <1>3 DEF j

\* A client that has nothing has a prefix of everything.
LEMMA NoBytes == ASSUME NEW s \in Seq(Symbols) PROVE IsPrefix(<< >>, s)
<1>1. Len(<< >>) = 0 /\ Len(s) \in Nat
  BY EmptySeq, LenProperties
<1>2. SubSeq(<< >>, 1, 0) = << >> /\ SubSeq(s, 1, 0) = << >>
  BY SubSeqEmpty
<1> QED
  BY <1>1, <1>2 DEF IsPrefix

\* FirstIn finds the first place, or the one behind the end.
LEMMA FirstPlace ==
  ASSUME NEW s \in Seq(Symbols), NEW S
  PROVE  /\ FirstIn(s, S) \in 1..(Len(s) + 1)
         /\ \A i \in 1..Len(s) : i < FirstIn(s, S) => s[i] \notin S
         /\ FirstIn(s, S) <= Len(s) => s[FirstIn(s, S)] \in S
<1> DEFINE at == {i \in 1..Len(s) : s[i] \in S}
<1>1. Len(s) \in Nat
  BY LenProperties
<1>2. CASE at = {}
  BY <1>1, <1>2 DEF FirstIn
<1>3. CASE at # {}
  <2>1. at \subseteq Nat
    BY <1>1
  <2>2. \E i \in at : \A j \in at : i <= j
    <3>1. PICK i \in at : \A j \in at : <<j, i>> \notin OpToRel(<, Nat)
      BY <1>3, <2>1, NatLessThanWellFounded, WFMin, Zenon
    <3>2. \A j \in at : ~(j < i)
      BY <2>1, <3>1 DEF OpToRel
    <3> QED
      BY <2>1, <3>2
  <2>3. FirstIn(s, S) \in at /\ \A j \in at : FirstIn(s, S) <= j
    BY <1>3, <2>2 DEF FirstIn
  <2> QED
    BY <1>1, <2>3
<1> QED
  BY <1>2, <1>3

\* strlen cuts a string to a prefix, and does not cut text.
LEMMA NoNul ==
  ASSUME NEW s \in Seq(Symbols)
  PROVE  /\ UpToNul(s) \in Seq(Symbols) /\ IsPrefix(UpToNul(s), s)
         /\ (\A i \in 1..Len(s) : s[i] # "nul") => UpToNul(s) = s
<1> DEFINE n == FirstIn(s, {"nul"}) - 1
<1>1. Len(s) \in Nat
  BY LenProperties
<1>2. n \in 0..Len(s)
  BY <1>1, FirstPlace
<1>3. /\ SubSeq(s, 1, n) \in Seq(Symbols) /\ Len(SubSeq(s, 1, n)) = n
      /\ \A i \in 1..n : SubSeq(s, 1, n)[i] = s[i]
  BY <1>2, Cut
<1>4. UpToNul(s) = SubSeq(s, 1, n)
  BY DEF UpToNul
<1>5. ASSUME \A i \in 1..Len(s) : s[i] # "nul" PROVE n = Len(s)
  <2>1. ~(FirstIn(s, {"nul"}) <= Len(s))
    <3> SUFFICES ASSUME FirstIn(s, {"nul"}) <= Len(s) PROVE FALSE
      OBVIOUS
    <3>1. s[FirstIn(s, {"nul"})] = "nul" /\ FirstIn(s, {"nul"}) \in 1..Len(s)
      BY <1>1, FirstPlace
    <3> QED
      BY <1>5, <3>1
  <2> QED
    BY <1>1, <2>1, FirstPlace
<1>6. n = Len(s) => SubSeq(s, 1, n) = s
  BY SubSeqFull
<1>7. IsPrefix(UpToNul(s), s)
  <2> DEFINE u == UpToNul(s)
  <2>1. u \in Seq(Symbols) /\ Len(u) = n /\ \A i \in 1..n : u[i] = s[i]
    BY <1>3, <1>4
  <2> HIDE DEF u, n
  <2>2. IsPrefix(u, s)
    BY <1>1, <1>2, <2>1, Prefix
  <2> QED
    BY <2>2 DEF u
<1> HIDE DEF n
<1> QED
  BY <1>3, <1>4, <1>5, <1>6, <1>7

\* strtok leaves content without newlines and NULs as it is.
LEMMA TokenOf ==
  ASSUME NEW s \in Seq(Symbols)
  PROVE  /\ Token(s) \in Seq(Symbols)
         /\ (s # << >> /\ HasOnly(s, {"a"})) => Token(s) = s
<1> DEFINE k == FirstIn(s, {"a", "nul"}) - 1
           t == SubSeq(s, k + 1, Len(s))
           e == FirstIn(t, {"nl", "nul"})
           f == [i \in 1..Len(s) |-> IF i > Len(t) \/ i = e THEN "nul" ELSE t[i]]
<1>1. Len(s) \in Nat
  BY LenProperties
<1>2. k \in 0..Len(s)
  BY <1>1, FirstPlace
<1>3. t \in Seq(Symbols) /\ Len(t) = Len(s) - k
  BY <1>2, Cut
<1>4. Token(s) = IF t = << >> \/ t[1] = "nul" THEN << >> ELSE f
  BY DEF Token
<1>5. f \in Seq(Symbols)
  <2>1. \A i \in 1..Len(t) : t[i] \in Symbols
    BY <1>3, ElementOfSeq
  <2> HIDE DEF t, e
  <2>2. Len(t) \in Nat
    BY <1>1, <1>2, <1>3
  <2>3. \A i \in 1..Len(s) : ~(i > Len(t) \/ i = e) => t[i] \in Symbols
    BY <1>1, <2>1, <2>2
  <2>4. f \in [1..Len(s) -> Symbols]
    <3>1. ASSUME NEW S, "nul" \in S, \A i \in 1..Len(s) : ~(i > Len(t) \/ i = e) => t[i] \in S
          PROVE  f \in [1..Len(s) -> S]
      BY <3>1
    <3>2. "nul" \in Symbols
      BY DEF Symbols, Bytes
    <3> QED
      BY <2>3, <3>1, <3>2
  <2> QED
    BY <1>1, <2>4, SeqDef
<1>6. ASSUME s # << >>, HasOnly(s, {"a"}) PROVE Token(s) = s
  <2>1. Len(s) > 0 /\ \A i \in 1..Len(s) : s[i] = "a"
    BY <1>1, <1>6, EmptySeq DEF HasOnly
  <2>2. k = 0
    <3> DEFINE m == FirstIn(s, {"a", "nul"})
    <3>1. m \in 1..(Len(s) + 1) /\ \A i \in 1..Len(s) : i < m => s[i] \notin {"a", "nul"}
      BY FirstPlace
    <3>2. 1 \in 1..Len(s) /\ s[1] \in {"a", "nul"}
      BY <1>1, <2>1
    <3> HIDE DEF m
    <3>3. m = 1
      BY <1>1, <3>1, <3>2
    <3> QED
      BY <3>3 DEF m
  <2>3. t = s
    BY <2>2, SubSeqFull
  <2>4. e \notin 1..Len(s)
    <3>1. FirstIn(s, {"nl", "nul"}) <= Len(s) => s[FirstIn(s, {"nl", "nul"})] \in {"nl", "nul"}
      BY FirstPlace
    <3> HIDE DEF t
    <3>2. e = FirstIn(s, {"nl", "nul"})
      BY <2>3
    <3> HIDE DEF e
    <3>3. e \in 1..Len(s) => s[e] \in {"nl", "nul"}
      BY <1>1, <3>1, <3>2
    <3> QED
      BY <2>1, <3>3
  <2> HIDE DEF t, e, k
  <2>5. f = [i \in 1..Len(s) |-> s[i]]
    BY <1>1, <2>3, <2>4
  <2>6. [i \in 1..Len(s) |-> s[i]] = s
    BY LenProperties
  <2>7. ~(t = << >> \/ t[1] = "nul")
    BY <1>1, <1>6, <2>1, <2>3
  <2> QED
    BY <1>4, <2>5, <2>6, <2>7
<1> QED
  BY <1>4, <1>5, <1>6, EmptySeq
-----------------------------------------------------------------------------
(* The inductive invariant *)

States == {"idle", "connected", "first", "recv", "done", "failed", "crashed", "killed"}

StreamTypes ==
  /\ program \in {"echo", "transfer", "getfile"} /\ file \in Seq(Bytes)
  /\ input \in [Clients -> Seq(Symbols)]
  /\ up \in [Clients -> Seq(Symbols)] /\ down \in [Clients -> Seq(Symbols)]
  /\ copy \in [Clients -> Seq(Symbols)]
  /\ cpc \in [Clients -> States] /\ rc \in [Clients -> Int] /\ status \in [Clients -> Symbols]
  /\ remain \in [Clients -> Int] /\ split \in [Clients -> BOOLEAN]
  /\ conn \subseteq Clients /\ backlog \in Seq(Clients) /\ fp \in 0..Len(file)
  /\ request \in Seq(Symbols) /\ out \in Seq(Seq(Symbols))

InBacklog(c) == \E i \in 1..Len(backlog) : backlog[i] = c

\* Connected, and the server has not received anything from c yet
Unread(c) == InBacklog(c) \/ (spc = "recv" /\ c \in conn)

\* Every client is accepted at most once, and one at a time.
Queueing ==
  /\ \A i, j \in 1..Len(backlog) : backlog[i] = backlog[j] => i = j
  /\ \A i \in 1..Len(backlog) : backlog[i] \notin conn
  /\ \A c, d \in conn : c = d
  /\ \A c \in Clients : cpc[c] = "idle" =>
       ~InBacklog(c) /\ c \notin conn /\ up[c] = << >> /\ down[c] = << >> /\ copy[c] = << >>
  /\ \A c \in Clients : (Unread(c) /\ program # "transfer") \/ InBacklog(c) => down[c] = << >> /\ copy[c] = << >>

Replying(c) == spc = "reply" /\ c \in conn /\ out # << >>

Fits(c) == Len(input[c]) < BufSize

\* echo: the server has received a prefix of the message and sends it once
Echo(c) ==
  /\ cpc[c] # "done" => copy[c] = << >>
  /\ Unread(c) => up[c] \in {<< >>, input[c]}
  /\ Replying(c) => down[c] = << >> /\ Len(out) = 1 /\ (Fits(c) => IsPrefix(out[1], input[c]))
  /\ (Fits(c) /\ cpc[c] # "done") => IsPrefix(down[c], input[c])
  /\ Fits(c) => IsPrefix(copy[c], input[c])

\* transfer: what client c was sent is the file up to some place, for one connected client
\* up to fp as long as there is something to send
Got(c) == copy[c] \o down[c]
Sending ==
  /\ out = << >>
  /\ (0 < fp /\ fp < Len(file)) => spc \in {"reply", "dead"}
Transfer(c) ==
  /\ Len(Got(c)) <= fp /\ \A i \in 1..Len(Got(c)) : Got(c)[i] = file[i]
  /\ (spc = "reply" /\ c \in conn /\ c \notin left /\ fp < Len(file)) => Len(Got(c)) = fp
  /\ (Len(Got(c)) > 0 /\ fp < Len(file)) => c \in conn

\* getfile: the header comes first, and as a whole
Clean(c) == ~split[c] /\ HasOnly(file, {"a"})
\* The server died with bytes of c unread.
Dropped(c) == spc = "dead" /\ up[c] # << >>
Refusals == {Header("INVALID"), Header("FILE_NOT_FOUND")}
Replies ==
  spc = "reply" => \/ out = << >> \/ \E hd \in Refusals : out = <<hd>>
                   \/ out = <<Header("OK"), file>> \/ out = <<file>>
Get(c) ==
  /\ c \in left => cpc[c] = "done"
  /\ Unread(c) => cpc[c] # "recv"
  /\ (Replying(c) /\ out # <<file>>) => down[c] = << >> /\ cpc[c] # "recv"
  /\ (Replying(c) /\ out = <<file>>) =>
       /\ cpc[c] \in {"connected", "first"} => down[c] = Header("OK")
       /\ (cpc[c] = "recv" /\ Clean(c)) => copy[c] = << >> /\ down[c] = << >>
  /\ cpc[c] \in {"connected", "first"} =>
       down[c] \in {<< >>, Header("OK"), Header("OK") \o file} \union Refusals
  /\ (cpc[c] = "recv" /\ Clean(c)) => Got(c) \in {<< >>, file} /\ remain[c] = Len(file) - Len(copy[c])
  /\ cpc[c] = "crashed" => ~Clean(c) \/ Dropped(c)
  /\ (Kept(c) /\ Clean(c)) => copy[c] = file

Text == HasOnly(file, {"a", "nl"})

StreamInv ==
  /\ StreamTypes /\ Queueing
  /\ program = "echo" => \A c \in Clients : Echo(c)
  /\ (program = "transfer" /\ Text) => Sending /\ \A c \in Clients : Transfer(c)
  /\ program = "getfile" => Replies /\ \A c \in Clients : Get(c)
-----------------------------------------------------------------------------
(* Steps of the server that move no byte *)

\* Clients, what they have and what is under way are as before; nobody waits or is
\* answered that did not wait or was not answered before.
LEMMA Still ==
  ASSUME StreamInv,
         UNCHANGED <<program, file, input, up, down, left, cpc, copy, rc, status, remain, split>>,
         UNCHANGED <<fp, request, out>>,
         conn' \subseteq Clients, backlog' \in Seq(Clients),
         \A i, j \in 1..Len(backlog') : backlog'[i] = backlog'[j] => i = j,
         \A i \in 1..Len(backlog') : backlog'[i] \notin conn',
         \A c, d \in conn' : c = d,
         \A c \in Clients : InBacklog(c)' => InBacklog(c),
         \A c \in conn' : InBacklog(c) \/ c \in conn,
         \A c \in Clients : Unread(c)' => Unread(c),
         (spc' = "reply" /\ program # "transfer") => spc = "reply" /\ conn' = conn,
         (program = "transfer" /\ Text /\ 0 < fp /\ fp < Len(file)) => spc' \in {"reply", "dead"} /\ conn' = conn,
         spc = "dead" => spc' = "dead"
  PROVE  StreamInv'
<1> USE DEF StreamInv
<1>1. \A c \in Clients : Got(c)' = Got(c)
  BY DEF Got
<1>2. StreamTypes'
  BY DEF StreamTypes
<1>3. program # "transfer" => \A c \in Clients : Replying(c)' => Replying(c)
  BY DEF Replying
<1>4. Queueing'
  <2>1. \A c \in Clients : cpc'[c] = "idle" =>
          ~InBacklog(c)' /\ c \notin conn' /\ up'[c] = << >> /\ down'[c] = << >> /\ copy'[c] = << >>
    BY DEF Queueing
  <2>2. \A c \in Clients : (Unread(c)' /\ program' # "transfer") \/ InBacklog(c)' => down'[c] = << >> /\ copy'[c] = << >>
    BY DEF Queueing
  <2> QED
    BY <2>1, <2>2 DEF Queueing
<1>5. ASSUME program' = "echo", NEW c \in Clients PROVE Echo(c)'
  <2>1. Echo(c) /\ Fits(c)' = Fits(c)
    BY <1>5 DEF Fits
  <2> QED
    BY <1>3, <1>5, <2>1 DEF Echo, Fits
<1>6. ASSUME program' = "transfer", Text' PROVE (Sending /\ \A c \in Clients : Transfer(c))'
  <2>1. Sending /\ (\A c \in Clients : Transfer(c)) /\ program = "transfer" /\ Text
    BY <1>6 DEF Text, HasOnly
  <2>2. Sending'
    BY <1>1, <2>1 DEF Sending
  <2>3. ASSUME NEW c \in Clients PROVE Transfer(c)'
    <3>1. Len(Got(c)) \in Nat
      BY LenProperties, ConcatProperties DEF Got, StreamTypes
    <3>2. fp = 0 => Len(Got(c)) = 0
      BY <2>1, <3>1 DEF Transfer
    <3>3. fp \in Nat
      BY LenProperties DEF StreamTypes
    <3>4. Transfer(c)
      BY <2>1
    <3>5. Len(Got(c))' = Len(Got(c)) /\ (\A i \in 1..Len(Got(c)) : Got(c)'[i] = Got(c)[i])
      BY <1>1
    <3>6. ASSUME spc' = "reply", c \in conn', c \notin left', fp' < Len(file') PROVE Len(Got(c)) = fp
      <4>1. CASE fp = 0
        BY <3>2, <4>1
      <4>2. CASE fp > 0
        BY <2>1, <3>4, <3>6, <4>2 DEF Transfer, Sending, Queueing
      <4> QED
        BY <3>3, <4>1, <4>2
    <3>7. ASSUME Len(Got(c)) > 0, fp < Len(file) PROVE c \in conn'
      BY <2>1, <3>2, <3>3, <3>4, <3>7 DEF Transfer
    <3> QED
      BY <1>1, <3>4, <3>5, <3>6, <3>7 DEF Transfer
  <2> QED
    BY <2>2, <2>3
<1>7. ASSUME program' = "getfile" PROVE Replies'
  BY <1>7 DEF Replies, Header, Digits, Refusals
<1>8. ASSUME program' = "getfile", NEW c \in Clients PROVE Get(c)'
  <2>1. Get(c)
    BY <1>8
  <2>2. Header("OK")' = Header("OK") /\ Refusals' = Refusals
    BY DEF Header, Digits, Refusals
  <2>3. Clean(c)' = Clean(c) /\ Kept(c)' = Kept(c)
    BY DEF Clean, Kept, HasOnly
  <2>4. Dropped(c) => Dropped(c)'
    BY DEF Dropped
  <2> QED
    BY <1>1, <1>3, <1>8, <2>1, <2>2, <2>3, <2>4 DEF Get
<1> QED
  BY <1>2, <1>4, <1>5, <1>6, <1>7, <1>8

\* The server starts: nobody is connected yet.
LEMMA ListenInv == ASSUME StreamInv, Listen PROVE StreamInv'
<1>1. /\ UNCHANGED <<program, file, input, up, down, left, cpc, copy, rc, status, remain, split>>
      /\ UNCHANGED <<fp, request, out, conn, backlog>> /\ spc = "start" /\ spc' = "accept"
  BY DEF Listen, inputs, streams, clientVars
<1>2. \A c \in Clients : InBacklog(c)' = InBacklog(c) /\ Unread(c)' = Unread(c)
  BY <1>1 DEF InBacklog, Unread
<1>3. (program = "transfer" /\ Text /\ 0 < fp /\ fp < Len(file)) => FALSE
  BY <1>1 DEF StreamInv, Sending
<1> QED
  BY <1>1, <1>2, <1>3, Still DEF StreamInv, StreamTypes, Queueing

\* The server is killed: it sends nothing any more.
LEMMA KillServerInv == ASSUME StreamInv, KillServer PROVE StreamInv'
<1>1. /\ UNCHANGED <<program, file, input, up, down, left, cpc, copy, rc, status, remain, split>>
      /\ UNCHANGED <<fp, request, out, conn, backlog>> /\ spc' = "dead"
  BY DEF KillServer, inputs, streams, clientVars
<1>2. \A c \in Clients : InBacklog(c)' = InBacklog(c) /\ (Unread(c)' => Unread(c))
  BY <1>1 DEF InBacklog, Unread
<1> QED
  BY <1>1, <1>2, Still DEF StreamInv, StreamTypes, Queueing

\* The server closes a connection (gfserver_serve forgets it).
LEMMA EndReplyInv == ASSUME StreamInv, EndReply PROVE StreamInv'
<1>1. /\ UNCHANGED <<program, file, input, up, down, left, cpc, copy, rc, status, remain, split>>
      /\ UNCHANGED <<fp, request, out, backlog>> /\ conn' = {} /\ spc' = "accept" /\ spc = "reply"
      /\ program = "transfer" => fp = Len(file)
  BY DEF EndReply, inputs, streams, clientVars
<1>2. \A c \in Clients : InBacklog(c)' = InBacklog(c) /\ (Unread(c)' => Unread(c))
  BY <1>1 DEF InBacklog, Unread
<1>3. (program = "transfer" /\ Text /\ 0 < fp /\ fp < Len(file)) => FALSE
  BY <1>1, LenProperties DEF StreamInv, StreamTypes
<1> QED
  BY <1>1, <1>2, <1>3, Still DEF StreamInv, StreamTypes, Queueing

\* accept: a client that waited in the backlog is served, and nobody else is.
LEMMA AcceptInv == ASSUME StreamInv, Accept PROVE StreamInv'
<1> DEFINE a == Head(backlog)
<1>1. /\ UNCHANGED <<program, file, input, up, down, left, cpc, copy, rc, status, remain, split>>
      /\ UNCHANGED <<fp, request, out>> /\ conn' = {a} /\ backlog' = Tail(backlog)
      /\ spc = "accept" /\ spc' = IF program = "transfer" THEN "reply" ELSE "recv"
      /\ backlog # << >>
  BY DEF Accept, inputs, streams, clientVars
<1>2. backlog \in Seq(Clients) /\ Len(backlog) \in Nat
  BY LenProperties DEF StreamInv, StreamTypes
<1>3. /\ a \in Clients /\ a = backlog[1] /\ backlog' \in Seq(Clients) /\ Len(backlog') = Len(backlog) - 1
      /\ Len(backlog) > 0
      /\ \A i \in 1..Len(backlog') : backlog'[i] = backlog[i + 1]
  <2>1. Len(backlog) > 0
    BY <1>1, <1>2, EmptySeq
  <2> QED
    BY <1>1, <1>2, <2>1, HeadTailProperties
<1> HIDE DEF a
<1>4. \A i \in 1..Len(backlog') : i + 1 \in 1..Len(backlog)
  BY <1>2, <1>3
<1>5. \A i, j \in 1..Len(backlog) : backlog[i] = backlog[j] => i = j
  BY DEF StreamInv, Queueing
<1>6. \A i, j \in 1..Len(backlog') : backlog'[i] = backlog'[j] => i = j
  <2> SUFFICES ASSUME NEW i \in 1..Len(backlog'), NEW j \in 1..Len(backlog'), backlog'[i] = backlog'[j] PROVE i = j
    OBVIOUS
  <2>1. i + 1 = j + 1
    BY <1>3, <1>4, <1>5
  <2> QED
    BY <2>1, <1>2, <1>3
<1>7. \A i \in 1..Len(backlog') : backlog'[i] \notin conn'
  <2> SUFFICES ASSUME NEW i \in 1..Len(backlog'), backlog[i + 1] = a PROVE FALSE
    BY <1>1, <1>3
  <2>1. 1 \in 1..Len(backlog) /\ i + 1 \in 1..Len(backlog) /\ i + 1 # 1
    BY <1>2, <1>3
  <2> QED
    BY <1>3, <1>5, <2>1
<1>8. \A c \in Clients : (InBacklog(c)' => InBacklog(c)) /\ (Unread(c)' => Unread(c))
  BY <1>1, <1>2, <1>3, <1>4 DEF InBacklog, Unread
<1>9. \A c \in conn' : InBacklog(c)
  BY <1>1, <1>2, <1>3 DEF InBacklog
<1>10. (program = "transfer" /\ Text /\ 0 < fp /\ fp < Len(file)) => FALSE
  BY <1>1 DEF StreamInv, Sending
<1>11. conn' \subseteq Clients /\ \A c, d \in conn' : c = d
  BY <1>1, <1>3
<1> QED
  BY <1>1, <1>3, <1>6, <1>7, <1>8, <1>9, <1>10, <1>11, Still
-----------------------------------------------------------------------------
(* Steps of a client that receives nothing *)

\* A client goes on to p and receives nothing; no stream to it changes.
LEMMA Moves ==
  ASSUME StreamInv, NEW c \in Clients, NEW p \in States,
         UNCHANGED <<program, file, input, down, copy, remain, split>>,
         UNCHANGED <<spc, conn, fp, request, out>>,
         cpc' = [cpc EXCEPT ![c] = p], cpc[c] # "done", p # "idle",
         backlog' \in Seq(Clients),
         \A i, j \in 1..Len(backlog') : backlog'[i] = backlog'[j] => i = j,
         \A i \in 1..Len(backlog') : backlog'[i] \notin conn,
         \A d \in Clients : InBacklog(d)' => InBacklog(d) \/ (d = c /\ cpc[c] = "idle"),
         up' = up \/ up' = [up EXCEPT ![c] = input[c]],
         \A d \in Clients : d # c => (d \in left' <=> d \in left),
         left \subseteq left',
         rc' \in [Clients -> Int], status' \in [Clients -> Symbols],
         \A d \in Clients : d # c => rc'[d] = rc[d] /\ status'[d] = status[d],
         program = "getfile" => /\ c \in left' => p = "done"
                                /\ p # "recv" /\ (p = "crashed" => Dropped(c)')
                                /\ p = "done" => rc'[c] = -1
                                /\ p \in {"connected", "first"} => cpc[c] \in {"idle", "connected"}
  PROVE  StreamInv'
<1> USE DEF StreamInv
<1>1. cpc \in [Clients -> States] /\ up \in [Clients -> Seq(Symbols)] /\ input \in [Clients -> Seq(Symbols)]
  BY DEF StreamTypes
<1>2. cpc'[c] = p /\ \A d \in Clients : d # c => cpc'[d] = cpc[d]
  BY <1>1
<1>3. \A d \in Clients : Got(d)' = Got(d) /\ Replying(d)' = Replying(d) /\ Fits(d)' = Fits(d)
  BY DEF Got, Replying, Fits
<1>4. \A d \in Clients : Unread(d)' => Unread(d) \/ (d = c /\ cpc[c] = "idle")
  BY DEF Unread
<1>5. StreamTypes'
  <2>1. up' \in [Clients -> Seq(Symbols)] /\ cpc' \in [Clients -> States]
    BY <1>1
  <2> QED
    BY <2>1 DEF StreamTypes
<1>6. cpc[c] = "idle" => c \notin conn /\ up[c] = << >> /\ down[c] = << >> /\ copy[c] = << >>
  BY DEF Queueing
<1>7. Queueing'
  <2>1. \A d \in Clients : cpc'[d] = "idle" =>
          ~InBacklog(d)' /\ d \notin conn' /\ up'[d] = << >> /\ down'[d] = << >> /\ copy'[d] = << >>
    BY <1>1, <1>2 DEF Queueing
  <2>2. \A d \in Clients : (Unread(d)' /\ program' # "transfer") \/ InBacklog(d)' => down'[d] = << >> /\ copy'[d] = << >>
    BY <1>4, <1>6 DEF Queueing
  <2> QED
    BY <2>1, <2>2 DEF Queueing
<1>8. ASSUME program' = "echo", NEW d \in Clients PROVE Echo(d)'
  <2>1. Echo(d)
    BY <1>8
  <2>2. cpc'[d] # "done" => cpc[d] # "done"
    BY <1>2
  <2>3. Unread(d)' => up'[d] \in {<< >>, input'[d]}
    BY <1>1, <1>4, <1>6, <2>1 DEF Echo
  <2> QED
    BY <1>3, <2>1, <2>2, <2>3 DEF Echo, Fits
<1>9. ASSUME program' = "transfer", Text' PROVE (Sending /\ \A d \in Clients : Transfer(d))'
  <2>1. Sending /\ (\A d \in Clients : Transfer(d))
    BY <1>9 DEF Text, HasOnly
  <2>2. Sending'
    BY <1>3, <2>1 DEF Sending
  <2>3. ASSUME NEW d \in Clients PROVE Transfer(d)'
    BY <1>3, <2>1 DEF Transfer
  <2> QED
    BY <2>2, <2>3
<1>10. ASSUME program' = "getfile" PROVE Replies'
  BY <1>10 DEF Replies, Header, Digits, Refusals
<1>11. ASSUME program' = "getfile", NEW d \in Clients PROVE Get(d)'
  <2>1. Get(d)
    BY <1>11
  <2>2. Header("OK")' = Header("OK") /\ Refusals' = Refusals
    BY DEF Header, Digits, Refusals
  <2>3. Clean(d)' = Clean(d)
    BY DEF Clean, HasOnly
  <2>4. CASE d # c
    <3>1. Kept(d)' = Kept(d)
      BY <1>2, <2>4 DEF Kept
    <3>2. cpc'[d] = cpc[d] /\ (d \in left' <=> d \in left) /\ (Unread(d)' => Unread(d))
      BY <1>2, <1>4, <2>4
    <3>3. Dropped(d)' = Dropped(d)
      BY <1>1, <2>4 DEF Dropped
    <3> QED
      BY <1>3, <2>1, <2>2, <2>3, <3>1, <3>2, <3>3 DEF Get
  <2>5. CASE d = c
    <3>1. ~Kept(c)'
      BY <1>2, <1>11 DEF Kept
    <3>2. cpc'[c] # "recv" /\ (cpc'[c] = "crashed" => Dropped(c)') /\ (c \in left' => cpc'[c] = "done")
      BY <1>2, <1>11
    <3>3. Replying(c) => cpc[c] # "idle"
      BY <1>6 DEF Replying
    <3>4. cpc'[c] \in {"connected", "first"} => cpc[c] \in {"idle", "connected"}
      BY <1>2, <1>11
    <3>5. cpc'[c] \in {"connected", "first"} =>
            down[c] \in {<< >>, Header("OK"), Header("OK") \o file} \union Refusals
      BY <1>6, <2>1, <2>5, <3>4 DEF Get
    <3>6. (Replying(c) /\ out = <<file>> /\ cpc'[c] \in {"connected", "first"}) => down[c] = Header("OK")
      BY <2>1, <2>5, <3>3, <3>4 DEF Get
    <3>7. (Replying(c) /\ out # <<file>>) => down[c] = << >>
      BY <2>1, <2>5 DEF Get
    <3> QED
      BY <1>3, <2>2, <2>5, <3>1, <3>2, <3>5, <3>6, <3>7 DEF Get
  <2> QED
    BY <2>4, <2>5
<1> QED
  BY <1>5, <1>7, <1>8, <1>9, <1>10, <1>11

\* What Moves asks of the backlog, if that stays as it is
LEMMA SameBacklog ==
  ASSUME StreamInv, backlog' = backlog
  PROVE  /\ backlog' \in Seq(Clients)
         /\ \A i, j \in 1..Len(backlog') : backlog'[i] = backlog'[j] => i = j
         /\ \A i \in 1..Len(backlog') : backlog'[i] \notin conn
         /\ \A d \in Clients : InBacklog(d)' => InBacklog(d)
  BY DEF StreamInv, StreamTypes, Queueing, InBacklog

\* connect puts a client in the backlog once.
LEMMA ConnectInv == ASSUME StreamInv, NEW c \in Clients, Connect(c) PROVE StreamInv'
<1>1. /\ UNCHANGED <<program, file, input, down, copy, remain, split, spc, conn, fp, request, out, up, left, rc, status>>
      /\ cpc[c] = "idle" /\ cpc' = [cpc EXCEPT ![c] = "connected"] /\ backlog' = Append(backlog, c)
  BY DEF Connect, inputs, streams, clientVars
<1>2. /\ backlog \in Seq(Clients) /\ Len(backlog) \in Nat
      /\ \A i \in 1..Len(backlog) : backlog[i] # c
      /\ \A i, j \in 1..Len(backlog) : backlog[i] = backlog[j] => i = j
      /\ \A i \in 1..Len(backlog) : backlog[i] \notin conn
      /\ c \notin conn
  BY <1>1, LenProperties DEF StreamInv, StreamTypes, Queueing, InBacklog
<1>3. /\ backlog' \in Seq(Clients) /\ Len(backlog') = Len(backlog) + 1
      /\ \A i \in 1..Len(backlog) : backlog'[i] = backlog[i]
      /\ backlog'[Len(backlog) + 1] = c
  BY <1>1, <1>2, AppendProperties
<1>4. \A i \in 1..Len(backlog') : i \in 1..Len(backlog) \/ i = Len(backlog) + 1
  BY <1>2, <1>3
<1>5. \A i, j \in 1..Len(backlog') : backlog'[i] = backlog'[j] => i = j
  BY <1>2, <1>3, <1>4
<1>6. \A i \in 1..Len(backlog') : backlog'[i] \notin conn
  BY <1>2, <1>3, <1>4
<1>7. \A d \in Clients : InBacklog(d)' => InBacklog(d) \/ (d = c /\ cpc[c] = "idle")
  BY <1>1, <1>3, <1>4 DEF InBacklog
<1>8. c \notin left \/ program # "getfile"
  BY <1>1 DEF StreamInv, Get
<1>9. "connected" \in States /\ rc' \in [Clients -> Int] /\ status' \in [Clients -> Symbols]
  BY <1>1 DEF StreamInv, StreamTypes, States
<1> QED
  BY <1>1, <1>3, <1>5, <1>6, <1>7, <1>8, <1>9, Moves

\* connect fails: the client has nothing.
LEMMA ConnectFailsInv == ASSUME StreamInv, NEW c \in Clients, ConnectFails(c) PROVE StreamInv'
<1>1. /\ UNCHANGED <<program, file, input, down, copy, remain, split, spc, conn, fp, request, out, up, left, backlog>>
      /\ cpc[c] = "idle" /\ cpc' = [cpc EXCEPT ![c] = "failed"]
      /\ rc' = [rc EXCEPT ![c] = 2] /\ status' = [status EXCEPT ![c] = "ERROR"]
  BY DEF ConnectFails, inputs, streams, serverVars
<1>2. c \notin left \/ program # "getfile"
  BY <1>1 DEF StreamInv, Get
<1>3. "failed" \in States /\ rc' \in [Clients -> Int] /\ status' \in [Clients -> Symbols]
  BY <1>1 DEF StreamInv, StreamTypes, States, Symbols
<1>4. \A d \in Clients : d # c => rc'[d] = rc[d] /\ status'[d] = status[d]
  BY <1>1 DEF StreamInv, StreamTypes
<1> QED
  BY <1>1, <1>2, <1>3, <1>4, SameBacklog, Moves

\* A client sends its message or its request.
LEMMA SendInputInv == ASSUME StreamInv, NEW c \in Clients, SendInput(c) PROVE StreamInv'
<1> DEFINE p == IF program = "getfile" THEN "first" ELSE "recv"
<1>1. /\ UNCHANGED <<program, file, input, down, copy, remain, split, spc, conn, fp, request, out, left, backlog, rc, status>>
      /\ cpc[c] = "connected" /\ cpc' = [cpc EXCEPT ![c] = p] /\ up' = [up EXCEPT ![c] = input[c]]
  BY DEF SendInput, inputs, serverVars
<1>2. c \notin left \/ program # "getfile"
  BY <1>1 DEF StreamInv, Get
<1>3. p \in States /\ rc' \in [Clients -> Int] /\ status' \in [Clients -> Symbols]
  BY <1>1 DEF StreamInv, StreamTypes, States
<1> QED
  BY <1>1, <1>2, <1>3, SameBacklog, Moves

\* recv returns 0: the client keeps what it has.
LEMMA RecvEndInv == ASSUME StreamInv, NEW c \in Clients, RecvEnd(c) PROVE StreamInv'
<1>1. /\ UNCHANGED <<program, file, input, down, copy, remain, split, spc, conn, fp, request, out, up, backlog, rc, status>>
      /\ cpc[c] = "recv" /\ cpc' = [cpc EXCEPT ![c] = "done"] /\ left' = left \union {c} /\ program # "getfile"
  BY DEF RecvEnd, Ends, inputs, serverVars
<1>2. "done" \in States /\ rc' \in [Clients -> Int] /\ status' \in [Clients -> Symbols]
  BY <1>1 DEF StreamInv, StreamTypes, States
<1> QED
  BY <1>1, <1>2, SameBacklog, Moves

\* A client is killed.
LEMMA KillInv == ASSUME StreamInv, NEW c \in Clients, Kill(c) PROVE StreamInv'
<1>1. /\ UNCHANGED <<program, file, input, down, copy, remain, split, spc, conn, fp, request, out, up, backlog, rc, status>>
      /\ cpc[c] \in {"connected", "recv"} /\ cpc' = [cpc EXCEPT ![c] = "killed"]
      /\ left' = left \union {c} /\ program # "getfile"
  BY DEF Kill, inputs, serverVars
<1>2. "killed" \in States /\ rc' \in [Clients -> Int] /\ status' \in [Clients -> Symbols]
  BY <1>1 DEF StreamInv, StreamTypes, States
<1> QED
  BY <1>1, <1>2, SameBacklog, Moves

\* gfc_perform fails: recv returns 0 before everything has arrived, and nothing is kept.
LEMMA RecvLostInv == ASSUME StreamInv, NEW c \in Clients, RecvLost(c) PROVE StreamInv'
<1>1. /\ UNCHANGED <<program, file, input, down, copy, remain, split, spc, conn, fp, request, out, up, backlog, status>>
      /\ cpc[c] \in {"first", "recv"} /\ cpc' = [cpc EXCEPT ![c] = "done"]
      /\ left' = left /\ rc' = [rc EXCEPT ![c] = -1]
  BY DEF RecvLost, Ends, inputs, serverVars
<1>2. "done" \in States /\ rc' \in [Clients -> Int] /\ status' \in [Clients -> Symbols]
  BY <1>1 DEF StreamInv, StreamTypes, States
<1>3. rc'[c] = -1 /\ \A d \in Clients : d # c => rc'[d] = rc[d]
  BY <1>1 DEF StreamInv, StreamTypes
<1> QED
  BY <1>1, <1>2, <1>3, SameBacklog, Moves
\* gflib closes no connection: only the death of its server ends one.
NoneClosed == program = "getfile" => closed = {}

\* recv returns -1: echo has nothing, gfc_perform crashes.
LEMMA RecvResetInv ==
  ASSUME StreamInv, NoneClosed, NEW c \in Clients, RecvReset(c) PROVE StreamInv'
<1> DEFINE p == IF program = "echo" THEN "done" ELSE "crashed"
<1>1. /\ UNCHANGED <<program, file, input, down, copy, remain, split, spc, conn, fp, request, out, up, backlog, rc, status>>
      /\ cpc[c] \in {"first", "recv"} /\ cpc' = [cpc EXCEPT ![c] = p]
      /\ left' = (IF program = "echo" THEN left \union {c} ELSE left)
      /\ up[c] # << >> /\ c \in Gone /\ program \in {"echo", "getfile"}
  BY DEF RecvReset, Ends, inputs, serverVars
<1>2. p \in States /\ rc' \in [Clients -> Int] /\ status' \in [Clients -> Symbols]
  BY <1>1 DEF StreamInv, StreamTypes, States
<1>3. program = "getfile" => Dropped(c)'
  BY <1>1 DEF NoneClosed, Gone, Dropped
<1>4. program = "getfile" => c \notin left
  BY <1>1 DEF StreamInv, Get
<1> QED
  BY <1>1, <1>2, <1>3, <1>4, SameBacklog, Moves
-----------------------------------------------------------------------------
(* Steps of the server that receive *)

\* A pair is a sequence.
LEMMA TwoSeq == ASSUME NEW S, NEW a \in S, NEW b \in S
                PROVE  <<a, b>> \in Seq(S) /\ <<a>> \in Seq(S)
  OBVIOUS

\* Lengths and places of a header: the status is its third piece.
LEMMA HeaderShape ==
  ASSUME NEW st \in {"OK", "INVALID", "FILE_NOT_FOUND"}
  PROVE  /\ Header(st) \in Seq(Symbols) /\ Header(st)[1] = "g1" /\ Header(st)[3] = st
         /\ Len(Digits) \in {1, 2} /\ Digits \in Seq(Symbols)
         /\ Len(Header(st)) = IF st = "OK" THEN 6 + Len(Digits) ELSE 6
<1> DEFINE h == <<"g1", "g2", st, "s2">>
           e == <<"e1", "e2">>
<1>1. h \in Seq(Symbols) /\ Len(h) = 4 /\ h[1] = "g1" /\ h[3] = st
  BY DEF Symbols
<1>2. e \in Seq(Symbols) /\ Len(e) = 2
  BY DEF Symbols
<1>3. Digits \in Seq(Symbols) /\ Len(Digits) \in {1, 2}
  <2>1. "d1" \in Symbols /\ "d2" \in Symbols
    BY DEF Symbols
  <2>2. <<"d1">> \in Seq(Symbols) /\ Len(<<"d1">>) = 1
    BY <2>1
  <2>3. <<"d1", "d2">> \in Seq(Symbols) /\ Len(<<"d1", "d2">>) = 2
    BY <2>1
  <2>4. Digits = <<"d1">> \/ Digits = <<"d1", "d2">>
    BY DEF Digits
  <2> QED
    BY <2>2, <2>3, <2>4
<1> DEFINE d == IF st = "OK" THEN Digits ELSE << >>
<1>4. d \in Seq(Symbols) /\ Len(d) = IF st = "OK" THEN Len(Digits) ELSE 0
  BY <1>3, EmptySeq
<1>5. Header(st) = (h \o d) \o e
  BY DEF Header
<1> HIDE DEF h, e, d
<1>6. h \o d \in Seq(Symbols) /\ Len(h \o d) = 4 + Len(d) /\ (h \o d)[1] = "g1" /\ (h \o d)[3] = st
  <2>1. Len(d) \in Nat
    BY <1>3, <1>4
  <2>2. 1 \in 1..(Len(h) + Len(d)) /\ 3 \in 1..(Len(h) + Len(d)) /\ 1 <= Len(h) /\ 3 <= Len(h)
    BY <1>1, <2>1
  <2>3. (h \o d)[1] = h[1] /\ (h \o d)[3] = h[3]
    BY <1>1, <1>4, <2>2, ConcatProperties
  <2>4. h \o d \in Seq(Symbols) /\ Len(h \o d) = Len(h) + Len(d)
    BY <1>1, <1>4, ConcatProperties
  <2> QED
    BY <1>1, <2>3, <2>4
<1> DEFINE x == h \o d
<1> HIDE DEF x
<1>7. x \in Seq(Symbols) /\ Len(x) = 4 + Len(d) /\ x[1] = "g1" /\ x[3] = st
  BY <1>6 DEF x
<1>8. x \o e \in Seq(Symbols) /\ Len(x \o e) = 6 + Len(d) /\ (x \o e)[1] = "g1" /\ (x \o e)[3] = st
  <2>1. Len(d) \in Nat
    BY <1>3, <1>4
  <2>2. 1 \in 1..(Len(x) + Len(e)) /\ 3 \in 1..(Len(x) + Len(e)) /\ 1 <= Len(x) /\ 3 <= Len(x)
    BY <1>2, <1>7, <2>1
  <2>3. (x \o e)[1] = x[1] /\ (x \o e)[3] = x[3]
    BY <1>2, <1>7, <2>2, ConcatProperties
  <2>4. x \o e \in Seq(Symbols) /\ Len(x \o e) = Len(x) + Len(e)
    BY <1>2, <1>7, ConcatProperties
  <2>5. Len(x) + Len(e) = 6 + Len(d)
    BY <1>2, <1>7, <2>1
  <2> QED
    BY <1>7, <2>3, <2>4, <2>5
<1> QED
  BY <1>3, <1>4, <1>5, <1>8 DEF x

\* No file is taken for a header.
LEMMA FileSeq == ASSUME StreamTypes
                 PROVE  /\ file \in Seq(Symbols) /\ Len(file) \in Nat
                        /\ \A st \in {"OK", "INVALID", "FILE_NOT_FOUND"} : Header(st) # file
<1>1. file \in Seq(Bytes) /\ Len(file) \in Nat
  BY LenProperties DEF StreamTypes
<1>2. Bytes \subseteq Symbols
  BY DEF Symbols
<1>3. file \in Seq(Symbols)
  BY <1>1, <1>2, SeqMonotonic
<1>4. ASSUME NEW st \in {"OK", "INVALID", "FILE_NOT_FOUND"}, Header(st) = file PROVE FALSE
  <2>1. Len(Header(st)) >= 6 /\ Header(st)[1] = "g1"
    <3>1. Len(Digits) \in {1, 2} /\ Len(Header(st)) = IF st = "OK" THEN 6 + Len(Digits) ELSE 6
      BY HeaderShape
    <3>2. Len(Header(st)) >= 6
      BY <3>1
    <3> QED
      BY <3>2, HeaderShape
  <2>2. file[1] \in Bytes
    BY <1>1, <1>4, <2>1, ElementOfSeq
  <2> QED
    BY <1>4, <2>1, <2>2 DEF Bytes
<1> QED
  BY <1>1, <1>3, <1>4

\* The echo server receives a prefix of the message, all of it or less.
LEMMA RecvMessageInv == ASSUME StreamInv, RecvMessage PROVE StreamInv'
<1> USE DEF StreamInv
<1>1. program = "echo" /\ spc = "recv" /\ spc' = "reply"
      /\ UNCHANGED <<program, file, input, down, left, cpc, copy, rc, status, remain, split, conn, backlog, fp, request>>
  BY DEF RecvMessage, inputs, clientVars
<1>2. PICK c \in conn :
       \/ up' = up /\ out' = << << >> >>
       \/ \E n \in RecvSizes(up[c], BufSize) : \E more \in {<< >>, <<"garbage">>} :
            /\ n < BufSize => more = << >>
            /\ up' = [up EXCEPT ![c] = SubSeq(@, n + 1, Len(@))]
            /\ out' = <<SubSeq(up[c], 1, n) \o more>>
  BY DEF RecvMessage
<1>3. c \in Clients /\ Unread(c) /\ down[c] = << >> /\ up[c] \in {<< >>, input[c]} /\ ~InBacklog(c)
  <2>1. c \in Clients /\ Unread(c) /\ Echo(c)
    BY <1>1 DEF StreamTypes, Unread
  <2> QED
    BY <1>1, <2>1 DEF Queueing, InBacklog, Echo
<1>4. /\ up \in [Clients -> Seq(Symbols)] /\ input[c] \in Seq(Symbols) /\ up[c] \in Seq(Symbols)
      /\ Len(up[c]) \in Nat /\ Len(input[c]) \in Nat
  BY <1>3, LenProperties DEF StreamTypes
<1>5. PICK x : out' = <<x>> /\ x \in Seq(Symbols) /\ (Fits(c) => IsPrefix(x, input[c]))
  <2>1. CASE out' = << << >> >>
    <3>1. << >> \in Seq(Symbols) /\ Len(<< >>) = 0
      BY EmptySeq
    <3>2. IsPrefix(<< >>, input[c])
      BY <1>4, NoBytes
    <3> QED
      BY <2>1, <3>1, <3>2
  <2>2. ASSUME NEW n \in RecvSizes(up[c], BufSize), NEW more \in {<< >>, <<"garbage">>},
               n < BufSize => more = << >>, out' = <<SubSeq(up[c], 1, n) \o more>>
        PROVE  \E x : out' = <<x>> /\ x \in Seq(Symbols) /\ (Fits(c) => IsPrefix(x, input[c]))
    <3>1. n \in 1..Len(up[c]) /\ BufSize \in Nat
      BY <1>4, StreamAssumption DEF RecvSizes, Smaller
    <3> DEFINE y == SubSeq(up[c], 1, n)
    <3>2. y \in Seq(Symbols) /\ Len(y) = n /\ \A i \in 1..n : y[i] = up[c][i]
      BY <1>4, <3>1, Cut
    <3>3. more \in Seq(Symbols)
      <4>1. "garbage" \in Symbols
        BY DEF Symbols
      <4> QED
        BY <4>1, EmptySeq, TwoSeq
    <3> HIDE DEF y
    <3>4. y \o more \in Seq(Symbols)
      BY <3>2, <3>3, ConcatProperties
    <3>5. ASSUME Fits(c) PROVE IsPrefix(y \o more, input[c])
      <4>1. up[c] = input[c]
        BY <1>3, <1>4, <3>1, EmptySeq
      <4>2. more = << >>
        BY <1>4, <2>2, <3>1, <3>5, <4>1 DEF Fits
      <4>3. y \o more = y
        BY <3>2, <4>2, ConcatEmptySeq
      <4>4. IsPrefix(y, input[c])
        BY <1>4, <3>1, <3>2, <4>1, Prefix
      <4> QED
        BY <4>3, <4>4
    <3> QED
      BY <2>2, <3>4, <3>5 DEF y
  <2> QED
    BY <1>2, <2>1, <2>2
<1>6. up' \in [Clients -> Seq(Symbols)] /\ \A d \in Clients : d # c => up'[d] = up[d]
  <2>1. CASE up' = up
    BY <1>4, <2>1
  <2>2. ASSUME NEW n \in RecvSizes(up[c], BufSize), up' = [up EXCEPT ![c] = SubSeq(@, n + 1, Len(@))]
        PROVE  up' \in [Clients -> Seq(Symbols)] /\ \A d \in Clients : d # c => up'[d] = up[d]
    <3>1. n \in 0..Len(up[c])
      BY <1>4, StreamAssumption DEF RecvSizes, Smaller
    <3>2. SubSeq(up[c], n + 1, Len(up[c])) \in Seq(Symbols)
      BY <1>4, <3>1, Cut
    <3> QED
      BY <1>4, <2>2, <3>2
  <2> QED
    BY <1>2, <2>1, <2>2
<1>7. out' \in Seq(Seq(Symbols)) /\ Len(out') = 1 /\ out'[1] = x
  BY <1>5
<1>8. StreamTypes'
  BY <1>1, <1>6, <1>7 DEF StreamTypes
<1>9. \A d \in Clients : InBacklog(d)' = InBacklog(d) /\ (Unread(d)' => InBacklog(d)) /\ (InBacklog(d) => Unread(d))
  BY <1>1 DEF InBacklog, Unread
<1>10. Queueing'
  <2>1. \A d \in Clients : cpc'[d] = "idle" =>
          ~InBacklog(d)' /\ d \notin conn' /\ up'[d] = << >> /\ down'[d] = << >> /\ copy'[d] = << >>
    BY <1>1, <1>2, <1>6, <1>9 DEF Queueing
  <2>2. \A d \in Clients : (Unread(d)' /\ program' # "transfer") \/ InBacklog(d)' => down'[d] = << >> /\ copy'[d] = << >>
    BY <1>1, <1>9 DEF Queueing
  <2> QED
    BY <1>1, <2>1, <2>2 DEF Queueing
<1>11. ASSUME NEW d \in Clients PROVE Echo(d)'
  <2>1. Echo(d)
    BY <1>1
  <2>2. Unread(d)' => up'[d] \in {<< >>, input'[d]}
    BY <1>1, <1>3, <1>6, <1>9, <2>1 DEF Echo
  <2>3. Replying(d)' => d = c
    BY <1>1 DEF Replying, Queueing
  <2>4. Fits(d)' = Fits(d)
    BY <1>1 DEF Fits
  <2>5. Replying(d)' => down'[d] = << >> /\ Len(out') = 1 /\ (Fits(d)' => IsPrefix(out'[1], input'[d]))
    BY <1>1, <1>3, <1>5, <1>7, <2>3, <2>4
  <2> QED
    BY <1>1, <2>1, <2>2, <2>4, <2>5 DEF Echo
<1> QED
  BY <1>1, <1>8, <1>10, <1>11

\* gfserver_serve has a whole request: a header is the first thing to send.
LEMMA RecvRequestInv == ASSUME StreamInv, RecvRequest PROVE StreamInv'
<1> USE DEF StreamInv
<1>1. /\ program = "getfile" /\ spc = "recv"
      /\ UNCHANGED <<program, file, input, down, left, cpc, copy, rc, status, remain, split, conn, backlog, fp>>
  BY DEF RecvRequest, inputs, clientVars
<1>2. PICK c \in conn : \E n \in RecvSizes(up[c], Len(up[c])) :
        LET got == request \o SubSeq(up[c], 1, n)
            complete == ~stale /\ got[Len(got)] = "end"
        IN
        /\ up' = [up EXCEPT ![c] = SubSeq(@, n + 1, Len(@))]
        /\ request' = got
        /\ spc' = IF complete THEN "reply" ELSE "recv"
        /\ out' = IF complete THEN Answer(got) ELSE out
  BY DEF RecvRequest
<1>3. PICK n \in RecvSizes(up[c], Len(up[c])) :
        /\ up' = [up EXCEPT ![c] = SubSeq(@, n + 1, Len(@))]
        /\ request' = request \o SubSeq(up[c], 1, n)
        /\ (spc' = "reply" /\ out' = Answer(request')) \/ (spc' = "recv" /\ out' = out)
  BY <1>2
<1>4. c \in Clients /\ up \in [Clients -> Seq(Symbols)] /\ up[c] \in Seq(Symbols) /\ Len(up[c]) \in Nat
  BY LenProperties DEF StreamTypes
<1>5. n \in 0..Len(up[c])
  BY <1>4 DEF RecvSizes, Smaller
<1>6. SubSeq(up[c], n + 1, Len(up[c])) \in Seq(Symbols) /\ SubSeq(up[c], 1, n) \in Seq(Symbols)
  BY <1>4, <1>5, Cut
<1>7. up' \in [Clients -> Seq(Symbols)] /\ \A d \in Clients : d # c => up'[d] = up[d]
  BY <1>3, <1>4, <1>6
<1>8. request' \in Seq(Symbols)
  BY <1>3, <1>6, ConcatProperties DEF StreamTypes
<1>9. Answer(request') \in {<<hd>> : hd \in Refusals} \union {<<Header("OK"), file>>}
  BY DEF Answer, Refusals
<1>10. out' \in Seq(Seq(Symbols))
  <2>1. Header("OK") \in Seq(Symbols) /\ file \in Seq(Symbols)
    BY HeaderShape, FileSeq
  <2>2. \A hd \in Refusals : hd \in Seq(Symbols)
    BY HeaderShape DEF Refusals
  <2>3. Answer(request') \in Seq(Seq(Symbols))
    BY <1>9, <2>1, <2>2, TwoSeq
  <2> QED
    BY <1>3, <2>3 DEF StreamTypes
<1>11. StreamTypes'
  BY <1>1, <1>7, <1>8, <1>10 DEF StreamTypes
<1>12. \A d \in Clients : InBacklog(d)' = InBacklog(d) /\ (Unread(d)' => Unread(d)) /\ (InBacklog(d) => Unread(d))
  BY <1>1, <1>3 DEF InBacklog, Unread
<1>13. Queueing'
  <2>1. \A d \in Clients : cpc'[d] = "idle" =>
          ~InBacklog(d)' /\ d \notin conn' /\ up'[d] = << >> /\ down'[d] = << >> /\ copy'[d] = << >>
    BY <1>1, <1>2, <1>7, <1>12 DEF Queueing
  <2>2. \A d \in Clients : (Unread(d)' /\ program' # "transfer") \/ InBacklog(d)' => down'[d] = << >> /\ copy'[d] = << >>
    BY <1>1, <1>12 DEF Queueing
  <2> QED
    BY <1>1, <2>1, <2>2 DEF Queueing
<1>14. Header("OK")' = Header("OK") /\ Refusals' = Refusals
  BY <1>1 DEF Header, Digits, Refusals
<1>15. Replies'
  BY <1>1, <1>3, <1>9, <1>14 DEF Replies
<1>16. spc' = "reply" => out' # <<file>>
  <2>1. \A hd \in Refusals : <<hd>> # <<file>>
    BY FileSeq DEF Refusals
  <2>2. <<Header("OK"), file>> # <<file>>
    OBVIOUS
  <2> QED
    BY <1>3, <1>9, <2>1, <2>2
<1>17. ASSUME NEW d \in Clients PROVE Get(d)'
  <2>1. Get(d) /\ ~Dropped(d)
    BY <1>1 DEF Dropped
  <2>2. Clean(d)' = Clean(d) /\ Kept(d)' = Kept(d) /\ Got(d)' = Got(d)
    BY <1>1 DEF Clean, Kept, HasOnly, Got
  <2>3. Replying(d)' => out' # <<file>> /\ down[d] = << >> /\ cpc[d] # "recv"
    <3> SUFFICES ASSUME Replying(d)' PROVE out' # <<file>> /\ down[d] = << >> /\ cpc[d] # "recv"
      OBVIOUS
    <3>1. d \in conn /\ spc' = "reply"
      BY <1>1 DEF Replying
    <3>2. Unread(d)
      BY <1>1, <3>1 DEF Unread
    <3> QED
      BY <1>1, <1>16, <2>1, <3>1, <3>2 DEF Get, Queueing
  <2> QED
    BY <1>1, <1>12, <1>14, <2>1, <2>2, <2>3 DEF Get
<1> QED
  BY <1>1, <1>11, <1>13, <1>15, <1>17
-----------------------------------------------------------------------------
(* Steps of the server that send *)

\* What holds of a client after bytes b were sent to client c
LEMMA Sent ==
  ASSUME StreamInv, NEW c \in conn, NEW b \in Seq(Symbols), Send(c, b), spc = "reply",
         UNCHANGED <<up, left, cpc, copy, conn, backlog, program>>
  PROVE  /\ c \in Clients /\ c \notin left => down'[c] = down[c] \o b
         /\ c \in left => down'[c] = down[c]
         /\ \A d \in Clients : d # c => down'[d] = down[d]
         /\ down' \in [Clients -> Seq(Symbols)]
         /\ spc' \in {"reply", "dead"} /\ Queueing'
<1> USE DEF StreamInv
<1>1. c \in Clients /\ down \in [Clients -> Seq(Symbols)]
  BY DEF StreamTypes
<1>2. down[c] \o b \in Seq(Symbols)
  BY <1>1, ConcatProperties
<1>3. /\ c \notin left => down'[c] = down[c] \o b
      /\ c \in left => down'[c] = down[c]
      /\ \A d \in Clients : d # c => down'[d] = down[d]
      /\ down' \in [Clients -> Seq(Symbols)]
      /\ spc' \in {"reply", "dead"}
  <2>1. CASE c \notin left
    BY <1>1, <1>2, <2>1 DEF Send
  <2>2. CASE c \in left
    BY <1>1, <2>2 DEF Send
  <2> QED
    BY <2>1, <2>2
<1>4. \A d \in Clients : InBacklog(d)' = InBacklog(d) /\ (Unread(d)' => InBacklog(d)) /\ (InBacklog(d) => Unread(d) /\ d # c)
  BY <1>3 DEF InBacklog, Unread, Queueing
<1>5. Queueing'
  <2>1. \A d \in Clients : cpc'[d] = "idle" =>
          ~InBacklog(d)' /\ d \notin conn' /\ up'[d] = << >> /\ down'[d] = << >> /\ copy'[d] = << >>
    BY <1>3, <1>4 DEF Queueing
  <2>2. \A d \in Clients : (Unread(d)' /\ program' # "transfer") \/ InBacklog(d)' => down'[d] = << >> /\ copy'[d] = << >>
    BY <1>3, <1>4 DEF Queueing
  <2> QED
    BY <2>1, <2>2 DEF Queueing
<1> QED
  BY <1>1, <1>3, <1>5

\* The sends of echo and gfserver: the header goes first, and the file follows it.
LEMMA SendReplyInv == ASSUME StreamInv, SendReply PROVE StreamInv'
<1> USE DEF StreamInv
<1>1. /\ spc = "reply" /\ out # << >> /\ out' = Tail(out)
      /\ UNCHANGED <<program, file, input, up, left, cpc, copy, rc, status, remain, split, conn, backlog, fp, request>>
  BY DEF SendReply, inputs, clientVars
<1> DEFINE b == Head(out)
<1>2. PICK c \in conn : Send(c, b)
  BY DEF SendReply
<1>3. /\ b \in Seq(Symbols) /\ b = out[1] /\ out' \in Seq(Seq(Symbols)) /\ Len(out) \in Nat
      /\ Len(out') = Len(out) - 1
  BY <1>1, HeadTailProperties, LenProperties DEF StreamTypes
<1> HIDE DEF b
<1>4. /\ c \in Clients /\ (c \notin left => down'[c] = down[c] \o b)
      /\ c \in left => down'[c] = down[c]
      /\ \A d \in Clients : d # c => down'[d] = down[d]
      /\ down' \in [Clients -> Seq(Symbols)]
      /\ spc' \in {"reply", "dead"} /\ Queueing'
  BY <1>1, <1>2, <1>3, Sent DEF StreamTypes
<1>5. StreamTypes'
  BY <1>1, <1>3, <1>4 DEF StreamTypes
<1>6. Replying(c) /\ \A d \in Clients : Replying(d)' => d = c
  BY <1>1, <1>4 DEF Replying, Queueing
<1>7. \A d \in Clients : (Unread(d)' => Unread(d)) /\ (Unread(d)' => d # c)
  BY <1>1, <1>4 DEF Unread, InBacklog, Queueing
<1>8. << >> \o b = b
  BY <1>3, ConcatEmptySeq
<1>9. ASSUME program' = "echo", NEW d \in Clients PROVE Echo(d)'
  <2>1. Echo(d) /\ Echo(c) /\ Fits(d)' = Fits(d)
    BY <1>1, <1>4, <1>9 DEF Fits
  <2>2. ~Replying(d)'
    <3>0. Len(out) = 1
      BY <1>6, <2>1 DEF Echo
    <3>1. Len(out') = 0
      BY <1>3, <3>0
    <3>2. out' = << >>
      BY <1>3, <3>1, EmptySeq
    <3> QED
      BY <3>2 DEF Replying
  <2>3. Unread(d)' => up'[d] \in {<< >>, input'[d]}
    BY <1>1, <1>7, <2>1 DEF Echo
  <2>4. CASE d # c
    BY <1>1, <1>4, <2>1, <2>2, <2>3, <2>4 DEF Echo
  <2>5. CASE d = c
    <3>1. down'[c] = b \/ down'[c] = down[c]
      BY <1>4, <1>6, <1>8, <2>1 DEF Echo
    <3>2. Fits(c) => IsPrefix(b, input[c])
      BY <1>3, <1>6, <2>1 DEF Echo
    <3> QED
      BY <1>1, <2>1, <2>2, <2>3, <2>5, <3>1, <3>2 DEF Echo
  <2> QED
    BY <2>4, <2>5
<1>10. ASSUME program' = "transfer", Text' PROVE FALSE
  BY <1>1, <1>10 DEF Text, HasOnly, Sending
<1>11. Header("OK")' = Header("OK") /\ Refusals' = Refusals
  BY <1>1 DEF Header, Digits, Refusals
<1>12. ASSUME program' = "getfile"
       PROVE  \/ \E hd \in Refusals : out = <<hd>> /\ b = hd /\ out' = << >>
              \/ out = <<Header("OK"), file>> /\ b = Header("OK") /\ out' = <<file>>
              \/ out = <<file>> /\ b = file /\ out' = << >>
  <2>1. Replies
    BY <1>1, <1>12
  <2>2. ASSUME NEW y, out = <<y>> PROVE b = y /\ out' = << >>
    BY <1>1, <1>3, <2>2
  <2>3. ASSUME NEW y, NEW z, out = <<y, z>> PROVE b = y /\ out' = <<z>>
    BY <1>1, <1>3, <2>3
  <2> QED
    BY <1>1, <2>1, <2>2, <2>3 DEF Replies
<1>13. ASSUME program' = "getfile" PROVE Replies'
  BY <1>1, <1>11, <1>12, <1>13 DEF Replies
<1>14. ASSUME program' = "getfile", NEW d \in Clients PROVE Get(d)'
  <2>1. Get(d) /\ Clean(d)' = Clean(d) /\ Kept(d)' = Kept(d) /\ ~Dropped(d)
    BY <1>1, <1>14 DEF Clean, Kept, HasOnly, Dropped
  <2>2. CASE d # c
    <3>1. ~Replying(d)' /\ down'[d] = down[d] /\ Got(d)' = Got(d) /\ (Unread(d)' => Unread(d))
      BY <1>1, <1>4, <1>6, <1>7, <2>2 DEF Got
    <3> QED
      BY <1>1, <1>11, <2>1, <3>1 DEF Get
  <2>3. CASE d = c /\ c \in left
    <3>1. cpc[c] = "done"
      BY <2>1, <2>3 DEF Get
    <3> QED
      BY <1>1, <1>4, <1>7, <2>1, <2>3, <3>1, <1>12, <1>14 DEF Get, Replying
  <2>4. CASE d = c /\ c \notin left
    <3>1. down'[c] = down[c] \o b /\ ~Unread(c)'
      BY <1>4, <1>7, <2>4
    <3>2. ASSUME out # <<file>>, down[c] = << >>, cpc[c] # "recv" PROVE Get(c)'
      <4>1. down'[c] = b
        BY <1>8, <3>1, <3>2
      <4>2. Replying(c)' => out' = <<file>> /\ b = Header("OK")
        BY <1>12, <1>14, <3>2 DEF Replying
      <4>3. b \in {Header("OK")} \union Refusals
        BY <1>12, <1>14, <3>2
      <4>4. out' # <<file>> => ~Replying(c)'
        BY <4>2
      <4> QED
        BY <1>1, <1>11, <2>1, <2>4, <3>1, <3>2, <4>1, <4>2, <4>3, <4>4 DEF Get
    <3>3. ASSUME out = <<file>> PROVE Get(c)'
      <4>1. b = file /\ out' = << >>
        <5>1. \A hd \in Refusals : <<hd>> # <<file>>
          BY FileSeq DEF Refusals
        <5>2. <<Header("OK"), file>> # <<file>>
          OBVIOUS
        <5> QED
          BY <1>12, <1>14, <3>3, <5>1, <5>2
      <4>2. ~Replying(c)'
        BY <4>1 DEF Replying
      <4>3. cpc[c] \in {"connected", "first"} => down'[c] = Header("OK") \o file
        BY <1>6, <2>1, <2>4, <3>1, <3>3, <4>1 DEF Get
      <4>4. ASSUME cpc[c] = "recv", Clean(c) PROVE Got(c)' = file /\ copy[c] = << >>
        <5>1. copy[c] = << >> /\ down[c] = << >>
          BY <1>6, <2>1, <2>4, <3>3, <4>4 DEF Get
        <5>2. down'[c] = file
          BY <1>8, <3>1, <4>1, <5>1
        <5>3. << >> \o file = file
          BY FileSeq, ConcatEmptySeq
        <5> QED
          BY <1>1, <5>1, <5>2, <5>3 DEF Got
      <4> QED
        BY <1>1, <1>11, <2>1, <2>4, <3>1, <4>2, <4>3, <4>4 DEF Get
    <3>4. out # <<file>> => down[c] = << >> /\ cpc[c] # "recv"
      BY <1>6, <2>1, <2>4 DEF Get
    <3> QED
      BY <2>4, <3>2, <3>3, <3>4
  <2> QED
    BY <2>2, <2>3, <2>4
<1> QED
  BY <1>4, <1>5, <1>9, <1>10, <1>13, <1>14

\* transfer sends the next chunk: where the last one of this connection ended.
LEMMA SendFileInv ==
  ASSUME StreamInv, SendFile
  PROVE  StreamInv' /\ (Text' => \A d \in conn \ left : Len(Got(d)') = fp')
<1> USE DEF StreamInv
<1> DEFINE end == Smaller(fp + BufSize, Len(file))
           x == SubSeq(file, fp + 1, end)
           b == UpToNul(x)
<1>1. /\ program = "transfer" /\ spc = "reply" /\ fp < Len(file) /\ fp' = end
      /\ UNCHANGED <<program, file, input, up, left, cpc, copy, rc, status, remain, split, conn, backlog, request, out>>
  BY DEF SendFile, inputs, clientVars
<1>2. PICK c \in conn : Send(c, b)
  BY DEF SendFile
<1>3. file \in Seq(Symbols) /\ Len(file) \in Nat /\ fp \in Nat
  BY FileSeq DEF StreamTypes
<1>4. end \in Nat /\ fp < end /\ end <= Len(file)
  BY <1>1, <1>3, StreamAssumption DEF Smaller
<1>5. x \in Seq(Symbols) /\ Len(x) = end - fp /\ \A i \in 1..(end - fp) : x[i] = file[fp + i]
  <2>1. \A i \in (fp + 1)..end : file[i] \in Symbols
    BY <1>3, <1>4, ElementOfSeq
  <2> HIDE DEF end
  <2> QED
    BY <1>3, <1>4, <2>1, SubSeqProperties
<1>6. b \in Seq(Symbols)
  BY <1>5, NoNul
<1>7. /\ c \in Clients /\ (c \notin left => down'[c] = down[c] \o b)
      /\ c \in left => down'[c] = down[c]
      /\ \A d \in Clients : d # c => down'[d] = down[d]
      /\ down' \in [Clients -> Seq(Symbols)]
      /\ spc' \in {"reply", "dead"} /\ Queueing'
  BY <1>1, <1>2, <1>6, Sent DEF StreamTypes
<1> HIDE DEF end, x, b
<1>8. StreamTypes'
  BY <1>1, <1>3, <1>4, <1>7 DEF StreamTypes
<1>9. ASSUME Text'
      PROVE  (Sending /\ \A d \in Clients : Transfer(d))' /\ \A d \in conn \ left : Len(Got(d)') = fp'
  <2>1. Text /\ Sending /\ \A d \in Clients : Transfer(d)
    BY <1>1, <1>9 DEF Text, HasOnly
  <2>2. \A i \in 1..Len(file) : file[i] # "nul"
    BY <2>1 DEF Text, HasOnly
  <2>3. b = x
    <3>1. \A i \in 1..Len(x) : x[i] # "nul"
      BY <1>3, <1>4, <1>5, <2>2
    <3> QED
      BY <1>5, <3>1, NoNul DEF b
  <2>4. \A d \in Clients : d # c => Got(d)' = Got(d)
    BY <1>1, <1>7 DEF Got
  <2>5. \A d \in Clients : Got(d) \in Seq(Symbols) /\ Len(Got(d)) \in Nat
    BY ConcatProperties, LenProperties DEF Got, StreamTypes
  <2>6. \A d \in Clients : d # c => Len(Got(d)) = 0
    <3> SUFFICES ASSUME NEW d \in Clients, d # c, Len(Got(d)) # 0 PROVE FALSE
      OBVIOUS
    <3>1. d \in conn
      BY <1>1, <2>1, <2>5 DEF Transfer
    <3> QED
      BY <3>1 DEF Queueing
  <2>7. c \in left => Got(c)' = Got(c)
    BY <1>1, <1>7 DEF Got
  <2>8. ASSUME c \notin left PROVE Got(c)' = Got(c) \o x /\ Len(Got(c)) = fp
    <3>1. copy[c] \in Seq(Symbols) /\ down[c] \in Seq(Symbols)
      BY <1>7 DEF StreamTypes
    <3>2. Got(c)' = copy[c] \o (down[c] \o x)
      <4>1. Got(c)' = copy'[c] \o down'[c]
        BY DEF Got
      <4>2. down'[c] = down[c] \o x
        BY <1>7, <2>3, <2>8
      <4> QED
        BY <1>1, <4>1, <4>2
    <3>3. (copy[c] \o down[c]) \o x = copy[c] \o (down[c] \o x)
      <4>1. x \in Seq(Symbols)
        BY <1>5
      <4> QED
        BY <3>1, <4>1, Joined
    <3>4. Len(Got(c)) = fp
      BY <1>1, <1>7, <2>1, <2>8 DEF Transfer
    <3> QED
      BY <3>2, <3>3, <3>4 DEF Got
  <2>9. ASSUME c \notin left
        PROVE  Len(Got(c)') = end /\ \A i \in 1..end : Got(c)'[i] = file[i]
    <3> DEFINE g == Got(c)
    <3>1. g \in Seq(Symbols) /\ Len(g) = fp /\ Got(c)' = g \o x
      BY <1>7, <2>5, <2>8, <2>9
    <3>2. \A i \in 1..fp : g[i] = file[i]
      BY <1>7, <2>1, <2>8, <2>9 DEF Transfer
    <3> HIDE DEF g
    <3>3. Len(g \o x) = fp + (end - fp)
      BY <1>5, <3>1, ConcatProperties
    <3>4. ASSUME NEW i \in 1..end PROVE (g \o x)[i] = file[i]
      <4>1. i \in 1..(Len(g) + Len(x))
        BY <1>3, <1>4, <1>5, <3>1
      <4>2. (g \o x)[i] = IF i <= Len(g) THEN g[i] ELSE x[i - Len(g)]
        BY <1>5, <3>1, <4>1, ConcatProperties
      <4>3. CASE i <= fp
        BY <1>3, <3>1, <3>2, <4>2, <4>3
      <4>4. CASE i > fp
        <5>1. i - fp \in 1..(end - fp) /\ fp + (i - fp) = i /\ ~(i <= fp)
          BY <1>3, <1>4, <4>4
        <5>2. x[i - fp] = file[i]
          BY <1>5, <5>1
        <5> QED
          BY <3>1, <4>2, <5>1, <5>2
      <4>5. i \in Int /\ fp \in Int
        BY <1>3, <1>4
      <4>6. i <= fp \/ i > fp
        BY <4>5
      <4> QED
        BY <4>3, <4>4, <4>6
    <3> QED
      BY <1>3, <1>4, <3>1, <3>3, <3>4
  <2>10. Sending'
    BY <1>1, <1>7, <2>1 DEF Sending
  <2>12. ASSUME NEW d \in Clients PROVE Transfer(d)'
    <3>1. CASE d # c
      <4>1. Got(d)' = Got(d) /\ Len(Got(d)) = 0 /\ d \notin conn
        BY <2>4, <2>6, <3>1 DEF Queueing
      <4> QED
        BY <1>1, <1>3, <1>4, <4>1 DEF Transfer
    <3>2. CASE d = c /\ c \in left
      <4>1. Transfer(c)
        BY <1>7, <2>1
      <4> QED
        BY <1>1, <1>3, <1>4, <2>5, <2>7, <3>2, <4>1 DEF Transfer
    <3>3. CASE d = c /\ c \notin left
      BY <1>1, <1>4, <2>9, <3>3 DEF Transfer
    <3> QED
      BY <3>1, <3>2, <3>3
  <2>13. ASSUME NEW d \in conn \ left PROVE Len(Got(d)') = fp'
    <3>1. d = c
      BY <2>13 DEF Queueing
    <3> QED
      BY <1>1, <2>9, <2>13, <3>1
  <2> QED
    BY <2>10, <2>12, <2>13
<1> QED
  BY <1>1, <1>7, <1>8, <1>9
-----------------------------------------------------------------------------
(* Steps of a client that receive *)

\* What a recv of n bytes changes.
LEMMA TakenBytes ==
  ASSUME StreamInv, NEW c \in Clients, NEW n \in 1..Len(down[c]), Take(c, n)
  PROVE  /\ down[c] \in Seq(Symbols) /\ Len(down[c]) \in Nat /\ down[c] # << >>
         /\ ~InBacklog(c) /\ (program # "transfer" => ~Unread(c))
         /\ down' \in [Clients -> Seq(Symbols)] /\ \A d \in Clients : d # c => down'[d] = down[d]
         /\ down'[c] = SubSeq(down[c], n + 1, Len(down[c]))
         /\ SubSeq(down[c], 1, n) \in Seq(Symbols) /\ Len(SubSeq(down[c], 1, n)) = n
         /\ down'[c] \in Seq(Symbols) /\ Len(down'[c]) = Len(down[c]) - n
         /\ SubSeq(down[c], 1, n) \o down'[c] = down[c]
<1> USE DEF StreamInv
<1>1. down \in [Clients -> Seq(Symbols)] /\ down[c] \in Seq(Symbols) /\ Len(down[c]) \in Nat
  BY LenProperties DEF StreamTypes
<1>2. down[c] # << >>
  BY <1>1, EmptySeq
<1>3. ~InBacklog(c) /\ (program # "transfer" => ~Unread(c))
  BY <1>2 DEF Queueing
<1>4. n \in 0..Len(down[c])
  BY <1>1
<1>5. /\ SubSeq(down[c], 1, n) \in Seq(Symbols) /\ Len(SubSeq(down[c], 1, n)) = n
      /\ SubSeq(down[c], n + 1, Len(down[c])) \in Seq(Symbols)
      /\ Len(SubSeq(down[c], n + 1, Len(down[c]))) = Len(down[c]) - n
      /\ SubSeq(down[c], 1, n) \o SubSeq(down[c], n + 1, Len(down[c])) = down[c]
  BY <1>1, <1>4, Cut
<1>6. /\ down' \in [Clients -> Seq(Symbols)] /\ \A d \in Clients : d # c => down'[d] = down[d]
      /\ down'[c] = SubSeq(down[c], n + 1, Len(down[c]))
  BY <1>1, <1>5 DEF Take
<1> QED
  BY <1>1, <1>2, <1>3, <1>5, <1>6

\* The part of the invariant about the queue of connections, after a client received
LEMMA Received ==
  ASSUME StreamInv, NEW c \in Clients, cpc[c] # "idle", ~InBacklog(c), program # "transfer" => ~Unread(c),
         UNCHANGED <<program, up, spc, conn, backlog>>,
         cpc'[c] # "idle", \A d \in Clients : d # c => cpc'[d] = cpc[d] /\ down'[d] = down[d] /\ copy'[d] = copy[d]
  PROVE  Queueing' /\ \A d \in Clients : InBacklog(d)' = InBacklog(d) /\ Unread(d)' = Unread(d)
<1> USE DEF StreamInv
<1>1. \A d \in Clients : InBacklog(d)' = InBacklog(d) /\ Unread(d)' = Unread(d)
  BY DEF InBacklog, Unread
<1>2. \A d \in Clients : cpc'[d] = "idle" =>
        ~InBacklog(d)' /\ d \notin conn' /\ up'[d] = << >> /\ down'[d] = << >> /\ copy'[d] = << >>
  BY <1>1 DEF Queueing
<1>3. \A d \in Clients : (Unread(d)' /\ program' # "transfer") \/ InBacklog(d)' => down'[d] = << >> /\ copy'[d] = << >>
  BY <1>1 DEF Queueing
<1> QED
  BY <1>1, <1>2, <1>3 DEF Queueing

\* The clients of echo and transfer add what they receive.
LEMMA RecvCopyInv ==
  ASSUME StreamInv, NEW c \in Clients, RecvCopy(c)
  PROVE  StreamInv' /\ (program' = "transfer" /\ Text' => \A d \in Clients : Got(d)' = Got(d))
<1> USE DEF StreamInv
<1>1. /\ cpc[c] = "recv" /\ program \in {"echo", "transfer"}
      /\ UNCHANGED <<program, file, input, up, rc, status, remain, split, spc, conn, backlog, fp, request, out>>
      /\ program = "echo" => cpc' = [cpc EXCEPT ![c] = "done"] /\ left' = left \union {c}
      /\ program = "transfer" => UNCHANGED <<cpc, left>>
  BY DEF RecvCopy, Ends, inputs, serverVars
<1>2. PICK n \in RecvSizes(down[c], BufSize) :
        /\ copy' = [copy EXCEPT ![c] = @ \o UpToNul(SubSeq(down[c], 1, n))]
        /\ Take(c, n)
  BY DEF RecvCopy
<1>3. n \in 1..Len(down[c])
  <2>1. Len(down[c]) \in Nat /\ BufSize \in Nat
    BY LenProperties, StreamAssumption DEF StreamTypes
  <2> QED
    BY <2>1 DEF RecvSizes, Smaller
<1> DEFINE x == SubSeq(down[c], 1, n)
           u == UpToNul(x)
<1>4. /\ down[c] \in Seq(Symbols) /\ Len(down[c]) \in Nat /\ down[c] # << >>
      /\ ~InBacklog(c) /\ (program # "transfer" => ~Unread(c))
      /\ down' \in [Clients -> Seq(Symbols)] /\ \A d \in Clients : d # c => down'[d] = down[d]
      /\ x \in Seq(Symbols) /\ Len(x) = n /\ down'[c] \in Seq(Symbols) /\ x \o down'[c] = down[c]
  BY <1>2, <1>3, TakenBytes
<1>5. u \in Seq(Symbols) /\ IsPrefix(u, x) /\ ((\A i \in 1..Len(x) : x[i] # "nul") => u = x)
  BY <1>4, NoNul
<1> HIDE DEF x, u
<1>6. /\ copy[c] \in Seq(Symbols) /\ copy[c] \o u \in Seq(Symbols)
      /\ copy' \in [Clients -> Seq(Symbols)] /\ copy'[c] = copy[c] \o u
      /\ \A d \in Clients : d # c => copy'[d] = copy[d]
  <2>1. copy \in [Clients -> Seq(Symbols)] /\ copy' = [copy EXCEPT ![c] = @ \o u]
    BY <1>2 DEF StreamTypes, x, u
  <2>2. copy[c] \o u \in Seq(Symbols)
    BY <1>5, <2>1, ConcatProperties
  <2> QED
    BY <2>1, <2>2
<1>7. /\ cpc' \in [Clients -> States] /\ cpc'[c] \in {"recv", "done"} /\ \A d \in Clients : d # c => cpc'[d] = cpc[d]
      /\ program = "echo" => cpc'[c] = "done"
  BY <1>1 DEF StreamTypes, States
<1>8. StreamTypes'
  BY <1>1, <1>4, <1>6, <1>7 DEF StreamTypes
<1>9. Queueing' /\ \A d \in Clients : InBacklog(d)' = InBacklog(d) /\ Unread(d)' = Unread(d)
  BY <1>1, <1>4, <1>6, <1>7, Received
<1>10. ASSUME program' = "echo", NEW d \in Clients PROVE Echo(d)'
  <2>1. Echo(d) /\ Fits(d)' = Fits(d) /\ Replying(d)' = Replying(d)
    BY <1>1, <1>10 DEF Fits, Replying
  <2>2. CASE d # c
    <3>1. cpc'[d] = cpc[d] /\ down'[d] = down[d] /\ copy'[d] = copy[d] /\ Unread(d)' = Unread(d)
      BY <1>4, <1>6, <1>7, <1>9, <2>2
    <3> QED
      BY <1>1, <2>1, <3>1 DEF Echo
  <2>3. CASE d = c
    <3>1. ~Unread(c)' /\ ~Replying(c)'
      BY <1>1, <1>4, <1>9, <1>10, <2>1, <2>3 DEF Echo
    <3>2. copy'[c] = u
      <4>1. copy[c] = << >>
        BY <1>1, <2>1, <2>3 DEF Echo
      <4> QED
        BY <1>5, <1>6, <4>1, ConcatEmptySeq
    <3>3. Fits(c) => IsPrefix(u, input[c])
      <4> SUFFICES ASSUME Fits(c) PROVE IsPrefix(u, input[c])
        OBVIOUS
      <4>1. IsPrefix(down[c], input[c]) /\ input[c] \in Seq(Symbols)
        BY <1>1, <2>1, <2>3 DEF Echo, StreamTypes
      <4>2. n \in 0..Len(down[c]) /\ Len(input[c]) \in Nat
        BY <1>3, <1>4, <4>1, LenProperties
      <4>3. \A i \in 1..n : x[i] = down[c][i]
        BY <1>4, <4>2, Cut DEF x
      <4>4. Len(down[c]) <= Len(input[c]) /\ \A i \in 1..Len(down[c]) : down[c][i] = input[c][i]
        BY <1>4, <4>1, Prefix
      <4>5. Len(u) <= Len(x) /\ (\A i \in 1..Len(u) : u[i] = x[i]) /\ Len(u) \in Nat
        BY <1>4, <1>5, Prefix, LenProperties
      <4>6. Len(u) <= Len(input[c]) /\ \A i \in 1..Len(u) : u[i] = input[c][i]
        <5>1. Len(u) <= n /\ n <= Len(down[c]) /\ n \in Nat
          BY <1>4, <4>2, <4>5
        <5>2. Len(u) <= Len(input[c])
          BY <1>4, <4>2, <4>4, <4>5, <5>1
        <5>3. ASSUME NEW i \in 1..Len(u) PROVE u[i] = input[c][i]
          <6>1. i \in 1..n /\ i \in 1..Len(down[c])
            BY <1>4, <4>5, <5>1
          <6> QED
            BY <4>3, <4>4, <4>5, <6>1
        <5> QED
          BY <5>2, <5>3
      <4> QED
        BY <1>5, <4>1, <4>6, Prefix
    <3> QED
      BY <1>1, <1>7, <1>10, <2>1, <2>3, <3>1, <3>2, <3>3 DEF Echo
  <2> QED
    BY <2>2, <2>3
<1>11. ASSUME program' = "transfer", Text'
       PROVE  (Sending /\ \A d \in Clients : Transfer(d))' /\ \A d \in Clients : Got(d)' = Got(d)
  <2>1. Text /\ Sending /\ \A d \in Clients : Transfer(d)
    BY <1>1, <1>11 DEF Text, HasOnly
  <2>2. \A i \in 1..Len(x) : x[i] # "nul"
    <3> SUFFICES ASSUME NEW i \in 1..n PROVE x[i] # "nul"
      BY <1>4
    <3>1. n \in 0..Len(down[c]) /\ Len(copy[c]) \in Nat
      BY <1>3, <1>4, <1>6, LenProperties
    <3>2. x[i] = down[c][i]
      BY <1>4, <3>1, Cut DEF x
    <3> DEFINE j == Len(copy[c]) + i
    <3>3. i \in 1..Len(down[c])
      BY <1>4, <3>1
    <3>4. j \in 1..Len(Got(c)) /\ Got(c)[j] = down[c][i] /\ Len(Got(c)) \in Nat
      BY <1>4, <1>6, <3>3, Second DEF Got
    <3> HIDE DEF j
    <3>5. Got(c)[j] = file[j] /\ j \in 1..Len(file)
      <4>1. Len(Got(c)) <= fp /\ fp \in 0..Len(file) /\ Len(file) \in Nat
        BY <2>1, LenProperties DEF Transfer, StreamTypes
      <4>2. Got(c)[j] = file[j]
        BY <2>1, <3>4 DEF Transfer
      <4>3. j \in 1..Len(file)
        BY <3>4, <4>1
      <4> QED
        BY <4>2, <4>3
    <3> QED
      BY <2>1, <3>2, <3>4, <3>5 DEF Text, HasOnly
  <2>3. \A d \in Clients : Got(d)' = Got(d)
    <3>1. Got(c)' = copy'[c] \o down'[c]
      BY DEF Got
    <3>2. Got(c)' = (copy[c] \o x) \o down'[c]
      BY <1>5, <1>6, <2>2, <3>1
    <3>3. (copy[c] \o x) \o down'[c] = copy[c] \o (x \o down'[c])
      BY <1>4, <1>6, Joined
    <3>4. Got(c)' = Got(c)
      BY <1>4, <3>2, <3>3 DEF Got
    <3>5. \A d \in Clients : d # c => Got(d)' = Got(d)
      BY <1>4, <1>6 DEF Got
    <3> QED
      BY <3>4, <3>5
  <2>4. Sending'
    BY <1>1, <2>1, <2>3 DEF Sending
  <2>5. ASSUME NEW d \in Clients PROVE Transfer(d)'
    BY <1>1, <1>11, <2>1, <2>3 DEF Transfer
  <2> QED
    BY <2>3, <2>4, <2>5
<1> QED
  BY <1>1, <1>8, <1>9, <1>10, <1>11

\* A step of getfile's client c, for the others
LEMMA GetOthers ==
  ASSUME StreamInv, NEW c \in Clients, NEW d \in Clients, d # c, program = "getfile",
         UNCHANGED <<program, file, spc, conn, backlog, out>>,
         cpc'[d] = cpc[d], down'[d] = down[d], copy'[d] = copy[d], remain'[d] = remain[d],
         rc'[d] = rc[d], status'[d] = status[d], split'[d] = split[d], d \in left' => d \in left,
         Unread(d)' = Unread(d), up'[d] = up[d]
  PROVE  Get(d)'
<1>1. Get(d) /\ Replying(d)' = Replying(d) /\ Got(d)' = Got(d) /\ Dropped(d)' = Dropped(d)
  BY DEF StreamInv, Replying, Got, Dropped
<1>2. Header("OK")' = Header("OK") /\ Refusals' = Refusals
  BY DEF Header, Digits, Refusals
<1>3. Clean(d)' = Clean(d) /\ Kept(d)' = Kept(d)
  BY DEF Clean, Kept, HasOnly
<1> QED
  BY <1>1, <1>2, <1>3 DEF Get

\* gfc_perform receives content: data_remained is what is missing of the file.
LEMMA RecvContentInv == ASSUME StreamInv, NEW c \in Clients, RecvContent(c) PROVE StreamInv'
<1> USE DEF StreamInv
<1>1. /\ cpc[c] = "recv" /\ program = "getfile"
      /\ UNCHANGED <<program, file, input, up, rc, status, split, spc, conn, backlog, fp, request, out>>
  BY DEF RecvContent, inputs, serverVars
<1>2. PICK n \in RecvSizes(down[c], Len(down[c])) :
        /\ copy' = [copy EXCEPT ![c] = @ \o SubSeq(down[c], 1, n)]
        /\ remain' = [remain EXCEPT ![c] = @ - n]
        /\ Take(c, n)
        /\ IF remain[c] = n THEN Ends(c, "done", TRUE) ELSE UNCHANGED <<cpc, left>>
  BY DEF RecvContent
<1>3. n \in 1..Len(down[c]) /\ n \in Int
  <2>1. Len(down[c]) \in Nat
    BY LenProperties DEF StreamTypes
  <2> QED
    BY <2>1 DEF RecvSizes, Smaller
<1> DEFINE x == SubSeq(down[c], 1, n)
<1>4. /\ down[c] \in Seq(Symbols) /\ Len(down[c]) \in Nat /\ down[c] # << >>
      /\ ~InBacklog(c) /\ (program # "transfer" => ~Unread(c))
      /\ down' \in [Clients -> Seq(Symbols)] /\ \A d \in Clients : d # c => down'[d] = down[d]
      /\ x \in Seq(Symbols) /\ Len(x) = n /\ down'[c] \in Seq(Symbols) /\ x \o down'[c] = down[c]
  BY <1>2, <1>3, TakenBytes
<1>5. copy \in [Clients -> Seq(Symbols)] /\ copy' = [copy EXCEPT ![c] = @ \o x]
  BY <1>2 DEF StreamTypes
<1> HIDE DEF x
<1>6. /\ copy[c] \in Seq(Symbols) /\ copy[c] \o x \in Seq(Symbols) /\ Len(copy[c] \o x) = Len(copy[c]) + n
      /\ Len(copy[c]) \in Nat
      /\ copy' \in [Clients -> Seq(Symbols)] /\ copy'[c] = copy[c] \o x
      /\ \A d \in Clients : d # c => copy'[d] = copy[d]
  <2>0. copy[c] \in Seq(Symbols) /\ x \in Seq(Symbols) /\ Len(x) = n /\ Len(copy[c]) \in Nat
    BY <1>4, <1>5, LenProperties
  <2>1. copy[c] \o x \in Seq(Symbols) /\ Len(copy[c] \o x) = Len(copy[c]) + n /\ Len(copy[c]) \in Nat
    BY <2>0, ConcatProperties
  <2> QED
    BY <1>5, <2>1
<1>7. /\ remain' \in [Clients -> Int] /\ remain'[c] = remain[c] - n /\ remain[c] \in Int
      /\ \A d \in Clients : d # c => remain'[d] = remain[d]
  BY <1>2, <1>3 DEF StreamTypes
<1>8. /\ cpc' \in [Clients -> States] /\ \A d \in Clients : d # c => cpc'[d] = cpc[d] /\ (d \in left' => d \in left)
      /\ (cpc'[c] = "done" /\ remain[c] = n) \/ (cpc'[c] = "recv" /\ left' = left)
  <2>1. cpc \in [Clients -> States] /\ "done" \in States
    BY DEF StreamTypes, States
  <2> QED
    BY <1>1, <1>2, <2>1 DEF Ends
<1>9. StreamTypes'
  BY <1>1, <1>4, <1>6, <1>7, <1>8 DEF StreamTypes
<1>10. Queueing' /\ \A d \in Clients : InBacklog(d)' = InBacklog(d) /\ Unread(d)' = Unread(d)
  BY <1>1, <1>4, <1>6, <1>8, Received
<1>11. Replies'
  BY <1>1 DEF Replies, Header, Digits, Refusals
<1>12. ASSUME NEW d \in Clients, d # c PROVE Get(d)'
  BY <1>1, <1>4, <1>6, <1>7, <1>8, <1>10, <1>12, GetOthers
<1>13. Get(c)'
  <2>1. Get(c) /\ Clean(c)' = Clean(c) /\ Replying(c)' = Replying(c)
    BY <1>1 DEF Clean, HasOnly, Replying
  <2>2. ~Unread(c)'
    BY <1>1, <1>4, <1>10
  <2>3. Replying(c) => out = <<file>> /\ ~Clean(c)
    BY <1>1, <1>4, <2>1 DEF Get
  <2>4. Got(c)' = Got(c)
    <3>1. Got(c)' = copy'[c] \o down'[c]
      BY DEF Got
    <3>2. (copy[c] \o x) \o down'[c] = copy[c] \o (x \o down'[c])
      BY <1>4, <1>6, Joined
    <3> QED
      BY <1>4, <1>6, <3>1, <3>2 DEF Got
  <2>5. Clean(c) => Got(c) \in {<< >>, file} /\ remain[c] = Len(file) - Len(copy[c])
    BY <1>1, <2>1 DEF Get
  <2>6. Len(file) \in Nat
    BY LenProperties DEF StreamTypes
  <2>7. (Clean(c) /\ cpc'[c] = "recv") => remain'[c] = Len(file') - Len(copy'[c])
    BY <1>1, <1>3, <1>6, <1>7, <2>5, <2>6
  <2>8. ASSUME Clean(c), cpc'[c] = "done" PROVE copy'[c] = file
    <3>1. copy'[c] \o down'[c] = Got(c)
      BY <2>4 DEF Got
    <3>2. Len(copy'[c]) = Len(file)
      BY <1>3, <1>6, <1>8, <2>5, <2>6, <2>8
    <3>3. Got(c) # << >>
      BY <1>4, <1>6, ConcatEqualIffEmpty DEF Got
    <3>4. Got(c) = file /\ file \in Seq(Symbols)
      BY <2>5, <2>8, <3>3, FileSeq
    <3>5. Len(file) = Len(copy'[c]) + Len(down'[c]) /\ Len(down'[c]) \in Nat
      BY <1>4, <1>6, <3>1, <3>4, ConcatProperties, LenProperties
    <3>6. down'[c] = << >>
      BY <1>4, <2>6, <3>2, <3>5, EmptySeq
    <3> QED
      BY <1>6, <3>1, <3>4, <3>6, ConcatEmptySeq
  <2>9. c \in left' => cpc'[c] = "done"
    BY <1>1, <1>8, <2>1 DEF Get
  <2>10. ~(cpc'[c] \in {"connected", "first"}) /\ cpc'[c] # "crashed" /\ (Kept(c)' => cpc'[c] = "done")
    BY <1>8 DEF Kept
  <2>11. (Replying(c)' /\ out' # <<file'>>) => FALSE
    BY <1>1, <2>1, <2>3
  <2>12. (Replying(c)' /\ Clean(c)') => FALSE
    BY <2>1, <2>3
  <2>13. (cpc'[c] = "recv" /\ Clean(c)') => Got(c)' \in {<< >>, file'} /\ remain'[c] = Len(file') - Len(copy'[c])
    BY <1>1, <2>1, <2>4, <2>5, <2>7
  <2>14. (Kept(c)' /\ Clean(c)') => copy'[c] = file'
    BY <1>1, <2>1, <2>8, <2>10
  <2> QED
    BY <2>2, <2>9, <2>10, <2>11, <2>12, <2>13, <2>14 DEF Get
<1> QED
  BY <1>1, <1>9, <1>10, <1>11, <1>12, <1>13

\* A recv that returns a header hd and the beginning of what follows it
LEMMA CutSecond ==
  ASSUME NEW s \in Seq(Symbols), NEW t \in Seq(Symbols), NEW n \in Len(s)..Len(s \o t)
  PROVE  /\ n - Len(s) \in 0..Len(t) /\ Len(s \o t) = Len(s) + Len(t)
         /\ SubSeq(s \o t, Len(s) + 1, n) = SubSeq(t, 1, n - Len(s))
         /\ SubSeq(s \o t, n + 1, Len(s \o t)) = SubSeq(t, (n - Len(s)) + 1, Len(t))
<1> DEFINE r == n - Len(s)
           u == s \o t
           x == SubSeq(u, Len(s) + 1, n)
           y == SubSeq(u, n + 1, Len(u))
<1>1. Len(s) \in Nat /\ Len(t) \in Nat
  BY LenProperties
<1>2. u \in Seq(Symbols) /\ Len(u) = Len(s) + Len(t)
  BY ConcatProperties
<1>3. r \in 0..Len(t) /\ n \in Nat /\ Len(s) <= n /\ n <= Len(u) /\ n = Len(s) + r
  BY <1>1, <1>2
<1>4. \A i \in 1..Len(t) : u[Len(s) + i] = t[i]
  BY Second
<1>5. \A i \in 1..Len(u) : u[i] \in Symbols
  BY <1>2, ElementOfSeq
<1> HIDE DEF u, r
<1>6. x \in Seq(Symbols) /\ Len(x) = r /\ \A i \in 1..r : x[i] = u[Len(s) + i]
  <2>1. \A i \in (Len(s) + 1)..n : u[i] \in Symbols
    BY <1>1, <1>2, <1>3, <1>5
  <2>2. x \in Seq(Symbols) /\ Len(x) = (IF Len(s) + 1 <= n THEN n - (Len(s) + 1) + 1 ELSE 0)
        /\ \A i \in 1..(n - (Len(s) + 1) + 1) : x[i] = u[(Len(s) + 1) + i - 1]
    BY <1>1, <1>3, <2>1, SubSeqProperties
  <2> HIDE DEF x
  <2>3. (n - (Len(s) + 1)) + 1 = r /\ (IF Len(s) + 1 <= n THEN (n - (Len(s) + 1)) + 1 ELSE 0) = r
    BY <1>1, <1>3
  <2>4. \A i \in 1..r : ((Len(s) + 1) + i) - 1 = Len(s) + i
    BY <1>1, <1>3
  <2> QED
    BY <2>2, <2>3, <2>4
<1>7. y \in Seq(Symbols) /\ Len(y) = Len(t) - r /\ \A i \in 1..(Len(t) - r) : y[i] = u[n + i]
  <2>1. n \in 0..Len(u) /\ Len(u) - n = Len(t) - r
    BY <1>1, <1>2, <1>3
  <2> QED
    BY <1>2, <2>1, Cut
<1>8. /\ SubSeq(t, 1, r) \in Seq(Symbols) /\ Len(SubSeq(t, 1, r)) = r
      /\ \A i \in 1..r : SubSeq(t, 1, r)[i] = t[i]
      /\ SubSeq(t, r + 1, Len(t)) \in Seq(Symbols) /\ Len(SubSeq(t, r + 1, Len(t))) = Len(t) - r
      /\ \A i \in 1..(Len(t) - r) : SubSeq(t, r + 1, Len(t))[i] = t[r + i]
  BY <1>3, Cut
<1> DEFINE p == SubSeq(t, 1, r)
           q == SubSeq(t, r + 1, Len(t))
<1> HIDE DEF x, y, p, q
<1>9. x = p
  <2>1. ASSUME NEW i \in 1..r PROVE x[i] = p[i]
    <3>1. i \in 1..Len(t)
      BY <1>1, <1>3
    <3> QED
      BY <1>4, <1>6, <1>8, <3>1 DEF p
  <2> QED
    BY <1>6, <1>8, <2>1, SeqEqual DEF p
<1>10. y = q
  <2>1. ASSUME NEW i \in 1..(Len(t) - r) PROVE y[i] = q[i]
    <3>1. r + i \in 1..Len(t) /\ n + i = Len(s) + (r + i)
      BY <1>1, <1>3
    <3> QED
      BY <1>4, <1>7, <1>8, <3>1 DEF q
  <2> QED
    BY <1>7, <1>8, <2>1, SeqEqual DEF q
<1> QED
  BY <1>2, <1>3, <1>9, <1>10 DEF x, y, p, q, u, r

\* gfc_perform parses the first recv as a header, whatever it holds.
LEMMA RecvHeaderInv == ASSUME StreamInv, NEW c \in Clients, RecvHeader(c) PROVE StreamInv'
<1> USE DEF StreamInv
<1> DEFINE D == down[c]
           st == D[3]
           L == Len(Header(st))
           digits(m) == Smaller(m - 4, Len(Digits))
           length(m) == IF digits(m) = Len(Digits) THEN Len(file) ELSE Len(file) \div Radix
           response(m) == m - 6 - digits(m)
           body(m) == SubSeq(D, L + 1, m)
<1>1. /\ cpc[c] = "first" /\ program = "getfile"
      /\ UNCHANGED <<program, file, input, up, spc, conn, backlog, fp, request, out>>
  BY DEF RecvHeader, inputs, serverVars
<1>2. PICK n \in RecvSizes(D, Len(D)) :
        /\ Take(c, n)
        /\ split' = [split EXCEPT ![c] = n < L]
        /\ status' = [status EXCEPT ![c] = IF n >= 4 THEN st ELSE "INVALID"]
        /\ \/ /\ n \in {1, 3}
              /\ cpc' = [cpc EXCEPT ![c] = "done"] /\ rc' = [rc EXCEPT ![c] = -1]
              /\ UNCHANGED <<copy, remain, left>>
           \/ /\ n = 2 \/ (n = 4 /\ st = "OK")
              /\ cpc' = [cpc EXCEPT ![c] = "crashed"] /\ rc' = [rc EXCEPT ![c] = 0]
              /\ UNCHANGED <<copy, remain, left>>
           \/ /\ n >= 4 /\ st # "OK"
              /\ cpc' = [cpc EXCEPT ![c] = "done"] /\ rc' = [rc EXCEPT ![c] = IF st = "INVALID" THEN -1 ELSE 0]
              /\ UNCHANGED <<copy, remain, left>>
           \/ /\ n > 4 /\ st = "OK" /\ response(n) > 0 /\ Token(body(n)) = << >>
              /\ cpc' = [cpc EXCEPT ![c] = "crashed"] /\ rc' = [rc EXCEPT ![c] = 0]
              /\ UNCHANGED <<copy, remain, left>>
           \/ /\ n > 4 /\ st = "OK" /\ (response(n) > 0 => Token(body(n)) # << >>)
              /\ remain' = [remain EXCEPT ![c] = length(n) - response(n)]
              /\ copy' = [copy EXCEPT ![c] = IF response(n) > 0 THEN Token(body(n)) ELSE << >>]
              /\ rc' = rc
              /\ IF length(n) = response(n)
                 THEN cpc' = [cpc EXCEPT ![c] = "done"] /\ left' = left \union {c}
                 ELSE cpc' = [cpc EXCEPT ![c] = "recv"] /\ left' = left
  BY DEF RecvHeader, Ends
<1>3. D \in Seq(Symbols) /\ Len(D) \in Nat
  BY LenProperties DEF StreamTypes
<1>4. n \in 1..Len(D) /\ n \in Int
  BY <1>3 DEF RecvSizes, Smaller
<1>5. /\ D # << >> /\ ~InBacklog(c) /\ (program # "transfer" => ~Unread(c))
      /\ down' \in [Clients -> Seq(Symbols)] /\ \A d \in Clients : d # c => down'[d] = down[d]
      /\ down'[c] \in Seq(Symbols) /\ down'[c] = SubSeq(D, n + 1, Len(D))
  BY <1>2, <1>4, TakenBytes
<1>6. Get(c)
  BY <1>1
<1>7. file \in Seq(Symbols) /\ Len(file) \in Nat
  BY FileSeq
<1>8. /\ Header("OK") \in Seq(Symbols) /\ Header("OK")[3] = "OK" /\ Len(Digits) \in {1, 2}
      /\ Len(Header("OK")) = 6 + Len(Digits)
  BY HeaderShape
<1>9. \/ st \in {"INVALID", "FILE_NOT_FOUND"} /\ L = 6 /\ D \in Refusals
      \/ st = "OK" /\ D \in {Header("OK"), Header("OK") \o file}
  <2>1. D \in {Header("OK"), Header("OK") \o file} \union Refusals
    BY <1>1, <1>5, <1>6 DEF Get
  <2>2. CASE D = Header("OK")
    BY <1>8, <2>2
  <2>3. CASE D = Header("OK") \o file
    <3>1. Len(Header("OK")) \in Nat /\ 3 <= Len(Header("OK"))
      BY <1>8
    <3>2. 3 \in 1..(Len(Header("OK")) + Len(file))
      BY <1>7, <3>1
    <3>3. (Header("OK") \o file)[3] = Header("OK")[3]
      BY <1>7, <1>8, <3>1, <3>2, ConcatProperties
    <3> QED
      BY <1>8, <2>3, <3>3
  <2>4. ASSUME NEW k \in {"INVALID", "FILE_NOT_FOUND"}, D = Header(k) PROVE st = k /\ L = 6
    <3>1. Header(k)[3] = k /\ Len(Header(k)) = 6
      BY HeaderShape
    <3> QED
      BY <2>4, <3>1
  <2> QED
    BY <2>1, <2>2, <2>3, <2>4 DEF Refusals
<1>10. st \in Symbols /\ L \in Nat /\ L >= 6 /\ Len(Digits) \in Nat
  <2>1. st \in {"INVALID", "FILE_NOT_FOUND", "OK"}
    BY <1>9
  <2>2. st \in Symbols
    BY <2>1 DEF Symbols
  <2>3. L = 6 \/ L = 6 + Len(Digits)
    BY <1>8, <1>9
  <2>4. Len(Digits) \in Nat
    BY <1>8
  <2> HIDE DEF L
  <2> QED
    BY <2>2, <2>3, <2>4
<1>11. body(n) \in Seq(Symbols)
  <2>1. ASSUME NEW i \in (L + 1)..n PROVE D[i] \in Symbols
    <3>1. i \in 1..Len(D)
      BY <1>3, <1>4, <1>10
    <3> QED
      BY <1>3, <3>1, ElementOfSeq
  <2> QED
    BY <1>4, <1>10, <2>1, SubSeqProperties
<1>12. Token(body(n)) \in Seq(Symbols) /\ << >> \in Seq(Symbols)
  BY <1>11, TokenOf, EmptySeq
<1>13. length(n) \in Int /\ response(n) \in Int
  <2>1. Len(file) \div Radix \in Int
    BY <1>7, StreamAssumption
  <2> QED
    BY <1>4, <1>7, <1>10, <2>1 DEF Smaller
<1> DEFINE b == body(n)
           ln == length(n)
           rs == response(n)
<1>14. ASSUME st = "OK", n >= L
       PROVE  /\ ln = Len(file) /\ rs = n - L
              /\ \E content \in {<< >>, file} :
                   /\ content \in Seq(Symbols)
                   /\ D = Header("OK") => content = << >>
                   /\ rs \in 0..Len(content) /\ b = SubSeq(content, 1, rs)
                   /\ down'[c] = SubSeq(content, rs + 1, Len(content))
  <2>1. L = 6 + Len(Digits) /\ Header(st) = Header("OK")
    BY <1>8, <1>14
  <2>2. digits(n) = Len(Digits)
    BY <1>4, <1>10, <1>14, <2>1 DEF Smaller
  <2>3. ln = Len(file) /\ rs = n - L
    BY <1>4, <1>10, <2>1, <2>2
  <2>4. PICK content \in {<< >>, file} : D = Header("OK") \o content /\ (D = Header("OK") => content = << >>)
    <3>1. Header("OK") \o << >> = Header("OK")
      BY <1>8, ConcatEmptySeq
    <3>2. CASE D = Header("OK")
      BY <3>1, <3>2
    <3>3. CASE D # Header("OK")
      BY <1>9, <1>14, <3>3 DEF Refusals
    <3> QED
      BY <3>2, <3>3
  <2>5. content \in Seq(Symbols)
    BY <1>7, <1>12
  <2> DEFINE H == Header("OK")
  <2>6. H \in Seq(Symbols) /\ L = Len(H) /\ D = H \o content /\ n \in Len(H)..Len(H \o content)
    BY <1>3, <1>4, <1>8, <1>10, <1>14, <2>1, <2>4
  <2> HIDE DEF H
  <2>7. /\ n - Len(H) \in 0..Len(content)
        /\ SubSeq(H \o content, Len(H) + 1, n) = SubSeq(content, 1, n - Len(H))
        /\ SubSeq(H \o content, n + 1, Len(H \o content)) = SubSeq(content, (n - Len(H)) + 1, Len(content))
    BY <2>5, <2>6, CutSecond
  <2>8. rs \in 0..Len(content)
    BY <2>3, <2>6, <2>7
  <2>9. b = SubSeq(content, 1, rs)
    BY <2>3, <2>6, <2>7
  <2>10. down'[c] = SubSeq(content, rs + 1, Len(content))
    BY <1>5, <2>3, <2>6, <2>7
  <2> QED
    BY <2>3, <2>4, <2>5, <2>8, <2>9, <2>10
<1> HIDE DEF b, ln, rs, length, response, digits, body, L, st, D
<1>15. /\ split' \in [Clients -> BOOLEAN] /\ split'[c] = (n < L) /\ \A d \in Clients : d # c => split'[d] = split[d]
       /\ status' \in [Clients -> Symbols] /\ (n >= 4 => status'[c] = st) /\ \A d \in Clients : d # c => status'[d] = status[d]
  <2>1. split \in [Clients -> BOOLEAN] /\ status \in [Clients -> Symbols]
    BY DEF StreamTypes
  <2>2. (n < L) \in BOOLEAN /\ "INVALID" \in Symbols
    BY DEF Symbols
  <2>3. split' \in [Clients -> BOOLEAN] /\ split'[c] = (n < L) /\ \A d \in Clients : d # c => split'[d] = split[d]
    BY <1>2, <2>1, <2>2
  <2>4. status' \in [Clients -> Symbols] /\ (n >= 4 => status'[c] = st) /\ \A d \in Clients : d # c => status'[d] = status[d]
    BY <1>2, <1>10, <2>1, <2>2
  <2> QED
    BY <2>3, <2>4
<1>16. /\ cpc \in [Clients -> States] /\ rc \in [Clients -> Int] /\ remain \in [Clients -> Int]
       /\ copy \in [Clients -> Seq(Symbols)] /\ {"done", "crashed", "recv"} \subseteq States
  BY DEF StreamTypes, States
<1>17. /\ cpc' \in [Clients -> States] /\ \A d \in Clients : d # c => cpc'[d] = cpc[d]
       /\ rc' \in [Clients -> Int] /\ \A d \in Clients : d # c => rc'[d] = rc[d]
       /\ \/ cpc'[c] = "done" /\ rc'[c] = -1 /\ UNCHANGED <<copy, remain, left>>
          \/ cpc'[c] = "crashed" /\ (n < 6 \/ (n > 4 /\ st = "OK" /\ rs > 0 /\ Token(b) = << >>))
             /\ UNCHANGED <<copy, remain, left>>
          \/ cpc'[c] = "done" /\ n >= 4 /\ st # "OK" /\ UNCHANGED <<copy, remain, left>>
          \/ /\ n > 4 /\ st = "OK"
             /\ remain' = [remain EXCEPT ![c] = ln - rs]
             /\ copy' = [copy EXCEPT ![c] = IF rs > 0 THEN Token(b) ELSE << >>]
             /\ \/ cpc'[c] = "done" /\ ln = rs /\ left' = left \union {c}
                \/ cpc'[c] = "recv" /\ left' = left
  <2> USE DEF b, ln, rs
  <2>1. CASE n \in {1, 3} /\ cpc' = [cpc EXCEPT ![c] = "done"] /\ rc' = [rc EXCEPT ![c] = -1] /\ UNCHANGED <<copy, remain, left>>
    BY <1>16, <2>1
  <2>2. CASE (n = 2 \/ (n = 4 /\ st = "OK")) /\ cpc' = [cpc EXCEPT ![c] = "crashed"] /\ rc' = [rc EXCEPT ![c] = 0]
             /\ UNCHANGED <<copy, remain, left>>
    BY <1>16, <2>2
  <2>3. CASE n >= 4 /\ st # "OK" /\ cpc' = [cpc EXCEPT ![c] = "done"]
             /\ rc' = [rc EXCEPT ![c] = IF st = "INVALID" THEN -1 ELSE 0] /\ UNCHANGED <<copy, remain, left>>
    BY <1>16, <2>3
  <2>4. CASE n > 4 /\ st = "OK" /\ rs > 0 /\ Token(b) = << >> /\ cpc' = [cpc EXCEPT ![c] = "crashed"]
             /\ rc' = [rc EXCEPT ![c] = 0] /\ UNCHANGED <<copy, remain, left>>
    BY <1>16, <2>4
  <2>5. CASE /\ n > 4 /\ st = "OK"
             /\ remain' = [remain EXCEPT ![c] = ln - rs]
             /\ copy' = [copy EXCEPT ![c] = IF rs > 0 THEN Token(b) ELSE << >>]
             /\ rc' = rc
             /\ IF ln = rs THEN cpc' = [cpc EXCEPT ![c] = "done"] /\ left' = left \union {c}
                ELSE cpc' = [cpc EXCEPT ![c] = "recv"] /\ left' = left
    BY <1>16, <2>5
  <2> QED
    BY <1>2, <2>1, <2>2, <2>3, <2>4, <2>5
<1>18. /\ copy' \in [Clients -> Seq(Symbols)] /\ \A d \in Clients : d # c => copy'[d] = copy[d]
       /\ remain' \in [Clients -> Int] /\ \A d \in Clients : d # c => remain'[d] = remain[d]
       /\ \A d \in Clients : d # c => (d \in left' => d \in left)
  <2>1. ln - rs \in Int /\ (IF rs > 0 THEN Token(b) ELSE << >>) \in Seq(Symbols)
    BY <1>12, <1>13 DEF b, ln, rs
  <2> QED
    BY <1>16, <1>17, <2>1
<1>19. StreamTypes'
  BY <1>1, <1>5, <1>15, <1>17, <1>18 DEF StreamTypes
<1>20. cpc'[c] \in {"done", "crashed", "recv"}
  BY <1>17
<1>21. Queueing' /\ \A d \in Clients : InBacklog(d)' = InBacklog(d) /\ Unread(d)' = Unread(d)
  BY <1>1, <1>5, <1>17, <1>18, <1>20, Received
<1>22. Replies'
  BY <1>1 DEF Replies, Header, Digits, Refusals
<1>23. ASSUME NEW d \in Clients, d # c PROVE Get(d)'
  BY <1>1, <1>5, <1>15, <1>17, <1>18, <1>21, <1>23, GetOthers
<1>24. ASSUME Clean(c)'
       PROVE  n >= L /\ HasOnly(file, {"a"})
  BY <1>1, <1>4, <1>10, <1>15, <1>24 DEF Clean, HasOnly
<1>25. ASSUME Clean(c)', st = "OK"
       PROVE  /\ ln = Len(file)
              /\ rs > 0 => Token(b) # << >>
              /\ \E content \in {<< >>, file} :
                   /\ content \in Seq(Symbols) /\ (D = Header("OK") => content = << >>)
                   /\ (IF rs > 0 THEN Token(b) ELSE << >>) = SubSeq(content, 1, rs)
                   /\ rs \in 0..Len(content) /\ down'[c] = SubSeq(content, rs + 1, Len(content))
  <2>1. PICK content \in {<< >>, file} :
          /\ content \in Seq(Symbols) /\ (D = Header("OK") => content = << >>)
          /\ rs \in 0..Len(content) /\ b = SubSeq(content, 1, rs)
          /\ down'[c] = SubSeq(content, rs + 1, Len(content))
    BY <1>14, <1>24, <1>25
  <2>2. ln = Len(file)
    BY <1>14, <1>24, <1>25
  <2>3. Len(content) \in Nat /\ \A i \in 1..Len(content) : content[i] = "a"
    <3>1. Len(content) \in Nat
      BY <2>1, LenProperties
    <3>2. CASE content = << >>
      BY <3>2
    <3>3. CASE content = file
      BY <1>24, <1>25, <3>3 DEF HasOnly
    <3> QED
      BY <3>1, <3>2, <3>3
  <2>4. b \in Seq(Symbols) /\ Len(b) = rs /\ \A i \in 1..rs : b[i] = content[i]
    BY <2>1, Cut
  <2>5. HasOnly(b, {"a"})
    BY <2>1, <2>3, <2>4 DEF HasOnly
  <2>6. ASSUME rs > 0 PROVE b # << >> /\ Token(b) = b
    <3>1. b # << >>
      BY <2>4, <2>6, EmptySeq
    <3> QED
      BY <2>4, <2>5, <3>1, TokenOf
  <2>7. ~(rs > 0) => b = << >>
    BY <2>1, <2>3, <2>4, EmptySeq
  <2> QED
    BY <2>1, <2>2, <2>6, <2>7
<1>26. Get(c)'
  <2>1. ~Unread(c)' /\ Replying(c)' = Replying(c)
    BY <1>1, <1>5, <1>21 DEF Replying
  <2>2. Replying(c) => out = <<file>> /\ D = Header("OK")
    BY <1>1, <1>5, <1>6 DEF Get, D
  <2>3. c \in left' => cpc'[c] = "done"
    BY <1>1, <1>6, <1>17 DEF Get
  <2>4. cpc'[c] = "crashed" => ~Clean(c)'
    BY <1>4, <1>10, <1>17, <1>24, <1>25
  <2>5. ASSUME cpc'[c] = "recv" \/ Kept(c)', Clean(c)'
        PROVE  /\ st = "OK" /\ remain'[c] = ln - rs /\ copy'[c] = IF rs > 0 THEN Token(b) ELSE << >>
               /\ cpc'[c] = "done" => ln = rs
    <3>1. n >= L /\ n >= 4
      BY <1>4, <1>10, <1>24, <2>5
    <3>2. CASE cpc'[c] = "recv"
      BY <1>16, <1>17, <3>2
    <3>3. CASE Kept(c)' /\ cpc'[c] # "recv"
      <4>1. cpc'[c] = "done" /\ rc'[c] >= 0 /\ status'[c] = "OK"
        BY <3>3 DEF Kept
      <4>2. st = "OK"
        BY <1>15, <3>1, <4>1
      <4> QED
        BY <1>16, <1>17, <4>1, <4>2
    <3> QED
      BY <2>5, <3>2, <3>3
  <2>6. ASSUME cpc'[c] = "recv" \/ Kept(c)', Clean(c)'
        PROVE  /\ Got(c)' \in {<< >>, file} /\ remain'[c] = Len(file) - Len(copy'[c])
               /\ D = Header("OK") => copy'[c] = << >> /\ down'[c] = << >>
               /\ cpc'[c] = "done" => copy'[c] = file
    <3>1. PICK content \in {<< >>, file} :
            /\ content \in Seq(Symbols) /\ (D = Header("OK") => content = << >>)
            /\ (IF rs > 0 THEN Token(b) ELSE << >>) = SubSeq(content, 1, rs)
            /\ rs \in 0..Len(content) /\ down'[c] = SubSeq(content, rs + 1, Len(content))
      BY <1>25, <2>5, <2>6
    <3>2. copy'[c] = SubSeq(content, 1, rs)
      BY <2>5, <2>6, <3>1
    <3>3. Len(copy'[c]) = rs /\ copy'[c] \o down'[c] = content
      <4>1. /\ Len(SubSeq(content, 1, rs)) = rs
            /\ SubSeq(content, 1, rs) \o SubSeq(content, rs + 1, Len(content)) = content
        <5> HIDE DEF rs, StreamInv
        <5> QED
          BY <3>1, Cut
      <4> HIDE DEF rs
      <4> QED
        BY <3>1, <3>2, <4>1
    <3>4. Got(c)' = content
      BY <3>3 DEF Got
    <3>5. remain'[c] = Len(file) - Len(copy'[c])
      BY <1>25, <2>5, <2>6, <3>3
    <3>6. ASSUME D = Header("OK") PROVE copy'[c] = << >> /\ down'[c] = << >>
      <4>1. content = << >> /\ copy'[c] \in Seq(Symbols) /\ down'[c] \in Seq(Symbols)
        BY <1>5, <1>18, <3>1, <3>6
      <4> QED
        BY <3>3, <4>1, ConcatEqualIffEmpty
    <3>7. ASSUME cpc'[c] = "done" PROVE copy'[c] = file
      <4>1. rs = Len(file) /\ Len(content) \in Nat
        BY <1>25, <2>5, <2>6, <3>1, <3>7, LenProperties
      <4>2. rs = Len(content)
        BY <1>7, <3>1, <4>1, EmptySeq
      <4>3. copy'[c] = content
        BY <3>1, <3>2, <4>2, SubSeqFull
      <4>4. content = file
        BY <1>7, <3>1, <4>1, <4>2, EmptySeq
      <4> QED
        BY <4>3, <4>4
    <3> QED
      BY <3>1, <3>4, <3>5, <3>6, <3>7
  <2>7. Kept(c)' => cpc'[c] = "done"
    BY DEF Kept
  <2>8. (Replying(c)' /\ out' # <<file'>>) => FALSE
    BY <1>1, <2>1, <2>2
  <2>9. (Replying(c)' /\ cpc'[c] = "recv" /\ Clean(c)') => copy'[c] = << >> /\ down'[c] = << >>
    BY <2>1, <2>2, <2>6
  <2>10. (cpc'[c] = "recv" /\ Clean(c)') => Got(c)' \in {<< >>, file'} /\ remain'[c] = Len(file') - Len(copy'[c])
    BY <1>1, <2>6
  <2>11. (Kept(c)' /\ Clean(c)') => copy'[c] = file'
    BY <1>1, <2>6, <2>7
  <2> QED
    BY <1>20, <2>1, <2>3, <2>4, <2>8, <2>9, <2>10, <2>11 DEF Get
<1> QED
  BY <1>1, <1>19, <1>21, <1>22, <1>23, <1>26
-----------------------------------------------------------------------------
(* The theorems *)

\* Nobody is connected and nothing is under way at first.
LEMMA StreamInitInv == StreamInit => StreamInv
<1> SUFFICES ASSUME StreamInit PROVE StreamInv
  OBVIOUS
<1>1. /\ program \in {"echo", "transfer", "getfile"} /\ file \in Seq(Bytes)
  BY StreamAssumption DEF StreamInit
<1>2. input \in [Clients -> Seq(Symbols)]
  <2>1. Inputs(program) \subseteq Seq(Symbols)
    <3>1. Messages \subseteq Seq(Symbols)
      <4>1. Bytes \subseteq Symbols
        BY DEF Symbols
      <4> QED
        BY <4>1, SeqMonotonic, StreamAssumption
    <3>2. << >> \in Seq(Symbols)
      BY EmptySeq
    <3>3. \A p \in {"known", "unknown", "nolead"} : <<"get", p, "end">> \in Seq(Symbols)
      <4>1. \A p \in {"known", "unknown", "nolead"} : p \in Symbols /\ "get" \in Symbols /\ "end" \in Symbols
        BY DEF Symbols
      <4>2. ASSUME NEW T, NEW x \in T, NEW y \in T, NEW z \in T PROVE <<x, y, z>> \in Seq(T)
        OBVIOUS
      <4> QED
        BY <4>1, <4>2
    <3>4. GetRequests \subseteq Seq(Symbols)
      BY <3>3 DEF GetRequests
    <3> QED
      BY <1>1, <3>1, <3>2, <3>4 DEF Inputs
  <2> QED
    BY <2>1 DEF StreamInit
<1>3. << >> \in Seq(Symbols) /\ << >> \in Seq(Clients) /\ << >> \in Seq(Seq(Symbols)) /\ Len(<< >>) = 0
  BY EmptySeq
<1>4. "INVALID" \in Symbols
  BY DEF Symbols
<1>5. Len(file) \in Nat /\ 0 \in 0..Len(file)
  BY <1>1, LenProperties
<1>6. StreamTypes
  BY <1>1, <1>2, <1>3, <1>4, <1>5 DEF StreamTypes, StreamInit, States
<1>7. backlog = << >> /\ conn = {} /\ out = << >> /\ fp = 0 /\ spc = "start" /\ left = {}
      /\ 1..Len(backlog) = {}
  BY <1>3 DEF StreamInit
<1>8. \A c \in Clients : /\ down[c] = << >> /\ up[c] = << >> /\ copy[c] = << >> /\ cpc[c] = "idle"
                         /\ ~InBacklog(c) /\ ~Unread(c) /\ ~Replying(c)
  BY <1>7 DEF StreamInit, InBacklog, Unread, Replying
<1>9. Queueing
  BY <1>7, <1>8 DEF Queueing
<1>10. \A c \in Clients : Echo(c)
  BY <1>2, <1>8, NoBytes DEF Echo
<1>11. \A c \in Clients : Got(c) = << >> /\ Len(Got(c)) = 0
  BY <1>3, <1>8, ConcatEmptySeq DEF Got
<1>12. Sending /\ \A c \in Clients : Transfer(c)
  BY <1>7, <1>11 DEF Sending, Transfer
<1>13. Replies /\ \A c \in Clients : Get(c)
  BY <1>7, <1>8 DEF Replies, Get, Kept
<1> QED
  BY <1>6, <1>9, <1>10, <1>12, <1>13 DEF StreamInv

\* Every step keeps the invariant.
LEMMA StreamNextInv == StreamInv /\ NoneClosed /\ [StreamNext]_streamVars => StreamInv'
<1> SUFFICES ASSUME StreamInv, NoneClosed, [StreamNext]_streamVars PROVE StreamInv'
  OBVIOUS
<1>1. CASE Server
  BY <1>1, ListenInv, AcceptInv, RecvMessageInv, RecvRequestInv, SendReplyInv, SendFileInv, EndReplyInv DEF Server
<1>2. CASE KillServer
  BY <1>2, KillServerInv
<1>3. ASSUME NEW c \in Clients, Client(c) PROVE StreamInv'
  BY <1>3, ConnectInv, ConnectFailsInv, SendInputInv, RecvCopyInv, RecvEndInv, RecvHeaderInv, RecvContentInv,
     RecvLostInv, RecvResetInv DEF Client
<1>4. ASSUME NEW c \in Clients, Kill(c) PROVE StreamInv'
  BY <1>4, KillInv
<1>5. CASE UNCHANGED streamVars
  <2>1. /\ UNCHANGED <<program, file, input, up, down, left, cpc, copy, rc, status, remain, split>>
        /\ UNCHANGED <<fp, request, out, conn, backlog, spc>>
    BY <1>5 DEF streamVars, inputs, streams, clientVars, serverVars
  <2>2. \A c \in Clients : InBacklog(c)' = InBacklog(c) /\ (Unread(c)' => Unread(c))
    BY <2>1 DEF InBacklog, Unread
  <2>3. (program = "transfer" /\ Text) => Sending /\ \A c \in Clients : Transfer(c)
    BY DEF StreamInv
  <2> QED
    BY <2>1, <2>2, <2>3, Still DEF StreamInv, StreamTypes, Queueing, Sending, Transfer
<1> QED
  BY <1>1, <1>2, <1>3, <1>4, <1>5 DEF StreamNext

\* transfer: a client that is not accepted behind the start of the file has been sent
\* the file up to fp, and all of it when its connection is closed.
Delivered(c) ==
  /\ c \in left => cpc[c] \in {"done", "killed"}
  /\ cpc[c] = "done" => c \in closed \/ spc = "dead"
  /\ (spc = "reply" /\ c \in conn /\ c \notin left /\ c \notin behind) => Len(Got(c)) = fp
  /\ (c \in closed /\ c \notin left /\ c \notin behind) => Len(Got(c)) = Len(file)
  /\ (c \in closed /\ cpc[c] = "done" /\ c \notin behind) => Len(copy[c]) = Len(file)
Delivery == (program = "transfer" /\ Text) => \A c \in Clients : Delivered(c)

\* The server's steps
LEMMA ServerDelivers ==
  ASSUME StreamInv, Delivery, Server \/ KillServer
  PROVE  Delivery'
<1>1. UNCHANGED <<program, file, left, cpc, copy>>
  BY DEF Server, Listen, Accept, RecvMessage, RecvRequest, SendReply, SendFile, EndReply, KillServer,
         inputs, streams, clientVars
<1> SUFFICES ASSUME program = "transfer", Text, NEW d \in Clients PROVE Delivered(d)'
  BY <1>1 DEF Delivery, Text, HasOnly
<1>2. StreamTypes /\ Queueing /\ Sending /\ Transfer(d) /\ Delivered(d)
  BY DEF StreamInv, Delivery
<1>3. Len(Got(d)) \in Nat /\ fp \in Nat /\ Len(file) \in Nat
  BY <1>2, LenProperties, ConcatProperties DEF Got, StreamTypes
<1>4. CASE Listen \/ KillServer
  <2>1. UNCHANGED <<down, closed, conn, fp, behind>> /\ spc' \in {"accept", "dead"} /\ (spc = "dead" => spc' = "dead")
    BY <1>4 DEF Listen, KillServer, streams
  <2>2. Got(d)' = Got(d)
    BY <1>1, <2>1 DEF Got
  <2> QED
    BY <1>1, <1>2, <2>1, <2>2 DEF Delivered
<1>5. CASE Accept
  <2>1. UNCHANGED <<down, closed, fp>> /\ spc = "accept" /\ behind \subseteq behind'
        /\ (fp > 0 => conn' \subseteq behind')
    BY <1>5 DEF Accept, streams
  <2>2. Got(d)' = Got(d)
    BY <1>1, <2>1 DEF Got
  <2>3. (d \in conn' /\ d \notin behind') => Len(Got(d)) = fp
    BY <1>2, <1>3, <2>1 DEF Transfer
  <2> QED
    BY <1>1, <1>2, <2>1, <2>2, <2>3 DEF Delivered
<1>6. CASE EndReply
  <2>1. /\ UNCHANGED <<down, fp, behind>> /\ spc = "reply" /\ spc' = "accept"
        /\ closed' = closed \union conn /\ fp = Len(file)
    BY <1>6 DEF EndReply
  <2>2. Got(d)' = Got(d)
    BY <1>1, <2>1 DEF Got
  <2> QED
    BY <1>1, <1>2, <2>1, <2>2 DEF Delivered
<1>7. CASE SendFile
  <2>1. UNCHANGED <<closed, conn, behind>> /\ spc = "reply" /\ fp < Len(file)
    BY <1>7 DEF SendFile
  <2>2. \A e \in conn \ left : Len(Got(e)') = fp'
    BY <1>1, <1>7, SendFileInv DEF Text, HasOnly
  <2>3. d \notin conn \/ d \in left => Got(d)' = Got(d)
    <3>1. PICK c \in conn : \E bytes : Send(c, bytes)
      BY <1>7 DEF SendFile
    <3>2. d \notin conn \/ d \in left => down'[d] = down[d]
      BY <1>2, <3>1 DEF Send, StreamTypes, Queueing
    <3> QED
      BY <1>1, <3>2 DEF Got
  <2>4. (d \in closed /\ d \notin left /\ d \notin behind) => d \notin conn
    BY <1>2, <1>3, <2>1 DEF Transfer, Delivered
  <2> QED
    BY <1>1, <1>2, <2>1, <2>2, <2>3, <2>4 DEF Delivered
<1>8. ~RecvMessage /\ ~RecvRequest /\ ~SendReply
  BY <1>2 DEF RecvMessage, RecvRequest, SendReply, Sending
<1> QED
  BY <1>4, <1>5, <1>6, <1>7, <1>8 DEF Server

\* The clients' steps
LEMMA ClientDelivers ==
  ASSUME StreamInv, Delivery, NEW c \in Clients, Client(c) \/ Kill(c)
  PROVE  Delivery'
<1>1. UNCHANGED <<program, file, closed, spc, conn, fp, behind>>
  BY DEF Client, Connect, ConnectFails, SendInput, RecvCopy, RecvEnd, RecvHeader, RecvContent, RecvLost, RecvReset,
         Kill, inputs, streams, serverVars
<1> SUFFICES ASSUME program = "transfer", Text, NEW d \in Clients PROVE Delivered(d)'
  BY <1>1 DEF Delivery, Text, HasOnly
<1>2. StreamTypes /\ Transfer(d) /\ Delivered(d)
  BY DEF StreamInv, Delivery
<1>3. CASE RecvCopy(c)
  <2>1. UNCHANGED <<cpc, left>> /\ cpc[c] = "recv" /\ (d # c => copy'[d] = copy[d])
    BY <1>2, <1>3 DEF RecvCopy, StreamTypes
  <2>2. Got(d)' = Got(d)
    BY <1>1, <1>3, RecvCopyInv DEF Text, HasOnly
  <2> QED
    BY <1>1, <1>2, <2>1, <2>2 DEF Delivered
<1>4. CASE RecvEnd(c)
  <2>1. /\ UNCHANGED <<copy, down>> /\ cpc[c] = "recv" /\ cpc' = [cpc EXCEPT ![c] = "done"]
        /\ left' = left \union {c} /\ down[c] = << >> /\ c \in Gone
    BY <1>4 DEF RecvEnd, Ends
  <2>2. Got(d)' = Got(d)
    BY <2>1 DEF Got
  <2>3. cpc'[d] = IF d = c THEN "done" ELSE cpc[d]
    BY <1>2, <2>1 DEF StreamTypes
  <2>4. CASE d # c
    BY <1>1, <1>2, <2>1, <2>2, <2>3, <2>4 DEF Delivered
  <2>5. CASE d = c
    <3>1. Got(c) = copy[c]
      BY <1>2, <2>1, ConcatEmptySeq DEF Got, StreamTypes
    <3>2. c \in closed \/ spc = "dead"
      BY <2>1 DEF Gone
    <3> QED
      BY <1>1, <1>2, <2>1, <2>3, <2>5, <3>1, <3>2 DEF Delivered
  <2> QED
    BY <2>4, <2>5
<1>5. CASE Connect(c) \/ ConnectFails(c) \/ SendInput(c) \/ Kill(c)
  <2>1. PICK p \in {"connected", "failed", "recv", "killed"} :
          /\ UNCHANGED <<copy, down>> /\ cpc[c] # "done" /\ cpc' = [cpc EXCEPT ![c] = p]
          /\ left' = IF p = "killed" THEN left \union {c} ELSE left
          /\ p # "killed" => cpc[c] \in {"idle", "connected"}
    BY <1>5 DEF Connect, ConnectFails, SendInput, Kill, streams
  <2>2. Got(d)' = Got(d)
    BY <2>1 DEF Got
  <2>3. cpc'[d] = IF d = c THEN p ELSE cpc[d]
    BY <1>2, <2>1 DEF StreamTypes
  <2> QED
    BY <1>1, <1>2, <2>1, <2>2, <2>3 DEF Delivered
<1>6. ~RecvHeader(c) /\ ~RecvContent(c) /\ ~RecvLost(c) /\ ~RecvReset(c)
  BY DEF RecvHeader, RecvContent, RecvLost, RecvReset
<1> QED
  BY <1>3, <1>4, <1>5, <1>6 DEF Client

\* StreamInv is an inductive invariant of echo, transfer and gflib: who is connected, and for
\* each program what a client has, what is under way to it and what the server will send.
THEOREM StreamInvariance == StreamSpec => [](StreamInv /\ NoneClosed /\ Delivery)
<1>1. StreamInit => NoneClosed
  BY DEF StreamInit, NoneClosed
<1>2. ASSUME NoneClosed, [StreamNext]_streamVars PROVE NoneClosed'
  BY <1>2 DEF NoneClosed, StreamNext, streamVars, inputs, streams, Server, Client, Listen, Accept, RecvMessage,
     RecvRequest, SendReply, SendFile, EndReply, KillServer, Kill, Connect, ConnectFails, SendInput, RecvCopy, RecvEnd,
     RecvHeader, RecvContent, RecvLost, RecvReset
<1>3. StreamInit => Delivery
  BY DEF StreamInit, Delivery, Delivered
<1>4. ASSUME StreamInv, Delivery, [StreamNext]_streamVars PROVE Delivery'
  <2>1. CASE UNCHANGED streamVars
    BY <1>4, <2>1 DEF streamVars, inputs, streams, clientVars, serverVars, Delivery, Delivered, Text, HasOnly, Got
  <2> QED
    BY <1>4, <2>1, ServerDelivers, ClientDelivers DEF StreamNext
<1> QED
  BY <1>1, <1>2, <1>3, <1>4, StreamInitInv, StreamNextInv, PTL DEF StreamSpec

\* What comes first in something that agrees with u is a prefix of u.
LEMMA FirstPart ==
  ASSUME NEW s \in Seq(Symbols), NEW t \in Seq(Symbols), NEW u \in Seq(Symbols), NEW m \in 0..Len(u),
         Len(s \o t) <= m, \A i \in 1..Len(s \o t) : (s \o t)[i] = u[i]
  PROVE  IsPrefix(s, u)
<1>1. Len(s) \in Nat /\ Len(t) \in Nat /\ Len(u) \in Nat
  BY LenProperties
<1>2. Len(s \o t) = Len(s) + Len(t)
  BY ConcatProperties
<1>3. Len(s) <= Len(u)
  BY <1>1, <1>2
<1>4. ASSUME NEW i \in 1..Len(s) PROVE s[i] = u[i]
  <2>1. i \in 1..(Len(s) + Len(t)) /\ i <= Len(s)
    BY <1>1
  <2>2. (s \o t)[i] = s[i]
    BY <2>1, ConcatProperties
  <2> QED
    BY <1>2, <2>1, <2>2
<1> QED
  BY <1>3, <1>4, Prefix

\* The bytes a client has are the first ones of those it has or will receive.
LEMMA OrderOf == ASSUME StreamInv, Delivery PROVE InOrder
<1>1. ASSUME program = "echo", NEW c \in Clients, Len(input[c]) < BufSize PROVE IsPrefix(copy[c], input[c])
  BY <1>1 DEF StreamInv, Echo, Fits
<1>2. ASSUME program = "transfer", HasOnly(file, {"a", "nl"}), NEW c \in Clients
      PROVE  /\ IsPrefix(copy[c], file)
             /\ (cpc[c] = "done" /\ c \in closed /\ c \notin behind) => copy[c] = file
  <2>1. Transfer(c) /\ Delivered(c)
    BY <1>2 DEF StreamInv, Delivery, Text
  <2>2. /\ file \in Seq(Symbols) /\ fp \in 0..Len(file)
        /\ copy[c] \in Seq(Symbols) /\ down[c] \in Seq(Symbols)
    BY FileSeq DEF StreamInv, StreamTypes
  <2>3. IsPrefix(copy[c], file)
    <3>1. /\ Len(copy[c] \o down[c]) <= fp
          /\ \A i \in 1..Len(copy[c] \o down[c]) : (copy[c] \o down[c])[i] = file[i]
      BY <2>1 DEF Transfer, Got
    <3> QED
      BY <2>2, <3>1, FirstPart
  <2>4. ASSUME cpc[c] = "done", c \in closed, c \notin behind PROVE copy[c] = file
    <3>1. Len(copy[c]) = Len(file)
      BY <2>1, <2>4 DEF Delivered
    <3>2. \A i \in 1..Len(copy[c]) : copy[c][i] = file[i]
      BY <2>2, <2>3, Prefix
    <3> QED
      BY <2>2, <3>1, <3>2, SeqEqual
  <2> QED
    BY <2>3, <2>4
<1> QED
  BY <1>1, <1>2 DEF InOrder

\* KeptIsWhole is part of Get.
LEMMA WholeOf == ASSUME StreamInv PROVE KeptIsWhole
  BY DEF StreamInv, Get, Clean, Dropped, KeptIsWhole

\* Text comes through echo and transfer in order, without gaps and additions, and the client
\* transfer accepts at the start of the file has all of it in the end, for any file,
\* messages, buffer size and number of clients and however recv cuts what is sent, also
\* when clients or the server are killed.
THEOREM TextInOrder == StreamSpec => []InOrder
  BY StreamInvariance, OrderOf, PTL

\* A file gfclient_download keeps is the file of the server if the first recv returned the
\* whole header and the file has neither newlines nor NULs, and then gfc_perform crashes
\* only when the server dies with the request unread: for any file, number base and number
\* of requests and wherever recv cuts.
THEOREM DownloadIsWhole == StreamSpec => []KeptIsWhole
  BY StreamInvariance, WholeOf, PTL
=============================================================================
