------------------------- MODULE DfsCallbacksProofs -------------------------
(***************************************************************************)
(* The proof that DfsCallbacks keeps its safety properties for any number  *)
(* of async threads, clients, files and objects.                           *)
(***************************************************************************)
EXTENDS DfsCallbacks, FiniteSetTheorems, SequenceTheorems, WellFoundedInduction, TLAPS

Stages == {"free", "queued", "registered", "event", "busy", "finish", "sent", "broken", "leaked"}

Types ==
  /\ stage \in [Objects -> Stages]
  /\ DOMAIN listing = Objects
  /\ queue \in Seq(Objects) /\ marked \in Nat /\ scanning \in BOOLEAN
  /\ tpc \in [Threads -> {"start", "next", "spawn", "opendir", "list"}]
  /\ cur \in [Threads -> Nat]
  /\ entries \in [Threads -> SUBSET (1..Len(Files))]
  /\ DOMAIN steady = Threads /\ DOMAIN skipped = Threads
  /\ dir \subseteq Names

\* An async thread serves an object from the tag's delivery to Finish, and no other
\* thread serves it.
Serving ==
  /\ \A t \in Threads : cur[t] # 0 <=> tpc[t] \in {"spawn", "opendir", "list"}
  /\ \A t \in Threads : cur[t] # 0 => cur[t] \in Objects /\ stage[cur[t]] = "busy"
  /\ \A t, u \in Threads : cur[t] = cur[u] /\ cur[t] # 0 => t = u

\* The tags the queue thread has registered in this pass are the first of
\* queued_tags.  An object among them may be served already, but not finished: its
\* thread needs queue_mutex to create the successor.
Tags ==
  /\ marked <= Len(queue)
  /\ ~scanning => marked = 0
  /\ \A i \in 1..Len(queue) :
       stage[queue[i]] \in IF i > marked THEN {"queued"} ELSE {"registered", "event", "busy"}
  /\ \A i, j \in 1..Len(queue) : queue[i] = queue[j] => i = j
  /\ \A t \in Threads : \A i \in 1..Len(queue) : cur[t] = queue[i] => tpc[t] = "spawn"

IInv == Types /\ Serving /\ Tags /\ AlwaysArmed /\ ListedAll
-----------------------------------------------------------------------------
(* Operators of the model *)

\* A set of natural numbers that is not empty has a least element, and Least finds it.
LEMMA LeastIn ==
  ASSUME NEW S, S \in SUBSET Nat, S # {}
  PROVE  Least(S) \in S /\ \A y \in S : Least(S) <= y
<1>1. PICK x \in S : \A y \in S : <<y, x>> \notin OpToRel(<, Nat)
  BY NatLessThanWellFounded, WFMin, Zenon
<1>2. \A y \in S : ~(y < x)
  BY <1>1 DEF OpToRel
<1>3. \A y \in S : x <= y
  BY <1>2
<1> QED
  BY <1>3 DEF Least

\* After leaves out the least element only.
LEMMA AfterLeast ==
  ASSUME NEW S, S \in SUBSET Nat, NEW x \in S, x \notin After(S)
  PROVE  x = Least(S)
<1>1. \A y \in S : x <= y
  BY DEF After
<1>2. Least(S) \in S /\ Least(S) <= x
  BY LeastIn
<1>3. Least(S) \in Nat /\ x \in Nat /\ x <= Least(S)
  BY <1>1, <1>2
<1> QED
  BY <1>2, <1>3

\* new DFSCallData takes an object that is not in use and puts its tag in the queue.
LEMMA NewCallDataStep ==
  ASSUME Types, NewCallData
  PROVE  \E o \in Objects :
           /\ ~scanning /\ stage[o] = "free"
           /\ stage' = [stage EXCEPT ![o] = "queued"]
           /\ queue' = Append(queue, o)
           /\ marked' = marked /\ scanning' = scanning
<1>1. Fresh \in SUBSET Nat /\ Fresh # {}
  BY CallbackAssumption DEF Fresh, Objects, NewCallData
<1>2. Least(Fresh) \in Fresh
  BY <1>1, LeastIn
<1> QED
  BY <1>2 DEF NewCallData, Fresh

\* The threads that are about to create an object.
Pending == {t \in Threads : tpc[t] \in {"start", "spawn"}}

\* Both sets AlwaysArmed counts are finite.
LEMMA FiniteParts ==
  IsFiniteSet(Waiting) /\ IsFiniteSet(Pending)
<1>1. IsFiniteSet(Objects) /\ IsFiniteSet(Threads)
  BY CallbackAssumption, FS_Interval DEF Objects
<1>2. Waiting \subseteq Objects /\ Pending \subseteq Threads
  BY DEF Waiting, Pending
<1> QED
  BY <1>1, <1>2, FS_Subset

\* AlwaysArmed in terms of them, in the current and in the next state.
LEMMA Armed ==
  /\ AlwaysArmed <=> Cardinality(Waiting) + Cardinality(Pending) = Cardinality(Threads)
  /\ AlwaysArmed' <=> Cardinality(Waiting') + Cardinality(Pending') = Cardinality(Threads)
  BY DEF AlwaysArmed, Pending

\* When a thread that was pending adds an object to those waiting, or the other way
\* round, the sum stays the same.
LEMMA Exchange ==
  ASSUME NEW A, NEW B, IsFiniteSet(A), IsFiniteSet(B), NEW x, NEW y, x \notin A, y \in B
  PROVE  Cardinality(A \union {x}) + Cardinality(B \ {y}) = Cardinality(A) + Cardinality(B)
<1>1. Cardinality(A \union {x}) = Cardinality(A) + 1
  BY FS_AddElement
<1>2. Cardinality(B \ {y}) = Cardinality(B) - 1
  BY FS_RemoveElement
<1>3. Cardinality(A) \in Nat /\ Cardinality(B) \in Nat
  BY FS_CardinalityType
<1> QED
  BY <1>1, <1>2, <1>3
-----------------------------------------------------------------------------
(* The queue of tags *)

\* What Append does to queued_tags.
LEMMA AppendTag ==
  ASSUME Types, NEW o \in Objects, queue' = Append(queue, o)
  PROVE  /\ queue' \in Seq(Objects) /\ Len(queue') = Len(queue) + 1 /\ Len(queue) \in Nat
         /\ \A i \in 1..Len(queue) : queue'[i] = queue[i] /\ queue[i] \in Objects
         /\ queue'[Len(queue) + 1] = o
  BY AppendProperties, LenProperties, ElementOfSeq DEF Types

\* A new object: Start and Spawn.
LEMMA NewTag ==
  ASSUME Types, Serving, Tags, NewCallData, NEW t \in Threads,
         tpc[t] \in {"start", "spawn"},
         tpc' = [tpc EXCEPT ![t] = IF tpc[t] = "start" THEN "next" ELSE "opendir"],
         UNCHANGED <<listing, cur, entries, steady, skipped, dir>>, AlwaysArmed, ListedAll
  PROVE  IInv'
<1>1. PICK o \in Objects :
           /\ ~scanning /\ stage[o] = "free"
           /\ stage' = [stage EXCEPT ![o] = "queued"]
           /\ queue' = Append(queue, o)
           /\ marked' = marked /\ scanning' = scanning
  BY NewCallDataStep
<1>2. /\ queue' \in Seq(Objects) /\ Len(queue') = Len(queue) + 1 /\ Len(queue) \in Nat
      /\ \A i \in 1..Len(queue) : queue'[i] = queue[i] /\ queue[i] \in Objects
      /\ queue'[Len(queue) + 1] = o
  BY <1>1, AppendTag
<1>3. stage \in [Objects -> Stages] /\ tpc \in [Threads -> {"start", "next", "spawn", "opendir", "list"}]
  BY DEF Types
<1>4. /\ stage'[o] = "queued" /\ \A p \in Objects : p # o => stage'[p] = stage[p]
      /\ \A u \in Threads : u # t => tpc'[u] = tpc[u]
      /\ tpc'[t] \in {"next", "opendir"} /\ (tpc'[t] = "next" <=> tpc[t] = "start")
  BY <1>1, <1>3
<1>5. Types'
  BY <1>1, <1>2, <1>3 DEF Types, Stages
<1>6. Serving'
  BY <1>1, <1>3, <1>4 DEF Serving
<1>7. marked = 0
  BY <1>1 DEF Tags
<1>8. \A i \in 1..Len(queue) : stage[queue[i]] = "queued" /\ queue[i] # o
  BY <1>1, <1>2, <1>7 DEF Tags
<1>9. Tags'
  <2>1. \A i \in 1..Len(queue') : i = Len(queue) + 1 \/ i \in 1..Len(queue)
    BY <1>2
  <2>2. \A i \in 1..Len(queue') : stage'[queue'[i]] = "queued"
    BY <1>2, <1>4, <1>8, <2>1
  <2>3. \A i, j \in 1..Len(queue') : queue'[i] = queue'[j] => i = j
    BY <1>2, <1>8, <2>1 DEF Tags
  <2>4. \A u \in Threads : \A i \in 1..Len(queue') : cur'[u] # queue'[i]
    <3> SUFFICES ASSUME NEW u \in Threads, NEW i \in 1..Len(queue'), cur'[u] = queue'[i] PROVE FALSE
      OBVIOUS
    <3>1. queue'[i] \in Objects /\ queue'[i] # 0
      BY <1>2, <2>1 DEF Objects
    <3>2. stage[queue'[i]] = "busy"
      BY <3>1 DEF Serving
    <3> QED
      BY <1>1, <1>2, <1>8, <2>1, <3>2
  <2> QED
    BY <1>1, <1>2, <1>7, <2>2, <2>3, <2>4 DEF Tags, Types
<1>10. AlwaysArmed'
  <2>1. Waiting' = Waiting \union {o} /\ o \notin Waiting
    BY <1>1, <1>3, <1>4 DEF Waiting
  <2>2. Pending' = Pending \ {t} /\ t \in Pending
    BY <1>3, <1>4 DEF Pending
  <2> QED
    BY <2>1, <2>2, FiniteParts, Exchange, Armed
<1>11. ListedAll'
  BY <1>4 DEF ListedAll
<1> QED
  BY <1>5, <1>6, <1>9, <1>10, <1>11 DEF IInv

\* Steps that leave objects, tags, threads and the directory alone.
LEMMA Unmoved ==
  ASSUME IInv, UNCHANGED <<stage, listing, queueVars, threadVars, dir>>
  PROVE  IInv'
<1> USE DEF queueVars, threadVars
<1>1. Waiting' = Waiting /\ Pending' = Pending
  BY DEF Waiting, Pending
<1>2. AlwaysArmed'
  BY <1>1, Armed DEF IInv
<1>3. Types' /\ Serving'
  BY DEF IInv, Types, Serving
<1>4. Tags' /\ ListedAll'
  BY DEF IInv, Tags, ListedAll
<1> QED
  BY <1>2, <1>3, <1>4 DEF IInv
-----------------------------------------------------------------------------
(* Steps that move one object *)

\* Whom the tag of an object is handed to: a client's call meets the request, or the
\* reply has left, or the object is deleted or leaked.  No thread is involved, and
\* an object whose reply is under way is in no thread's hands and not in the queue.
LEMMA ObjectMoves ==
  ASSUME IInv, NEW o \in Objects, NEW b \in Stages, stage' = [stage EXCEPT ![o] = b],
         \/ stage[o] = "registered" /\ b = "event" /\ listing' = listing
         \/ /\ stage[o] \in {"finish", "sent", "broken"} /\ b \in {"sent", "broken", "free", "leaked"}
            /\ listing' = listing \/ listing' = [listing EXCEPT ![o] = {}],
         UNCHANGED <<queueVars, threadVars, dir>>
  PROVE  IInv'
<1> USE DEF queueVars, threadVars
<1>1. stage \in [Objects -> Stages] /\ DOMAIN listing = Objects /\ queue \in Seq(Objects)
  BY DEF IInv, Types
<1>2. /\ stage'[o] = b /\ \A p \in Objects : p # o => stage'[p] = stage[p] /\ listing'[p] = listing[p]
      /\ DOMAIN listing' = Objects
  BY <1>1
<1>3. Types'
  BY <1>1, <1>2 DEF IInv, Types
<1>4. Serving'
  BY <1>1, <1>2 DEF IInv, Serving
<1>5. Tags'
  <2>1. \A i \in 1..Len(queue) : queue[i] \in Objects
    BY <1>1, ElementOfSeq
  <2>2. \A i \in 1..Len(queue) :
          stage'[queue[i]] \in IF i > marked THEN {"queued"} ELSE {"registered", "event", "busy"}
    BY <1>2, <2>1 DEF IInv, Tags
  <2> QED
    BY <2>2 DEF IInv, Tags
<1>6. AlwaysArmed'
  <2>1. Waiting' = Waiting /\ Pending' = Pending
    BY <1>2 DEF Waiting, Pending
  <2> QED
    BY <2>1, Armed DEF IInv
<1>7. ListedAll'
  <2>1. \A t \in Threads : tpc[t] = "list" => cur[t] \in Objects /\ cur[t] # o
    BY DEF IInv, Serving
  <2> QED
    BY <1>2, <2>1 DEF IInv, ListedAll
<1> QED
  BY <1>3, <1>4, <1>5, <1>6, <1>7 DEF IInv

\* gRPC and the clients
LEMMA GrpcInv ==
  ASSUME IInv, \/ \E c \in Clients : Match(c) \/ Again(c) \/ Fail(c)
               \/ \E o \in Objects : Deliver(o)
  PROVE  IInv'
<1>1. CASE \E c \in Clients : Match(c)
  <2>1. PICK o \in Objects : stage[o] = "registered" /\ stage' = [stage EXCEPT ![o] = "event"]
    BY <1>1 DEF Match
  <2> QED
    BY <1>1, <2>1, ObjectMoves DEF Match, envVars, Stages
<1>2. CASE \E c \in Clients : Again(c) \/ Fail(c)
  BY <1>2, Unmoved DEF Again, Fail, envVars
<1>3. ASSUME NEW o \in Objects, Deliver(o) PROVE IInv'
  <2>1. PICK b \in {"broken", "sent"} : stage' = [stage EXCEPT ![o] = b]
    BY <1>3 DEF Deliver
  <2> QED
    BY <1>3, <2>1, ObjectMoves DEF Deliver, envVars, Stages
<1> QED
  BY <1>1, <1>2, <1>3

\* Next delivers a tag for the last time.
LEMMA LastTagInv ==
  ASSUME IInv, NEW t \in Threads, NextFinish(t) \/ NextNotOk(t)
  PROVE  IInv'
<1>1. CASE NextFinish(t)
  <2>1. PICK o \in Objects : stage[o] = "sent" /\ stage' = [stage EXCEPT ![o] = "free"]
    BY <1>1 DEF NextFinish
  <2> QED
    BY <1>1, <2>1, ObjectMoves DEF NextFinish, envVars, Stages
<1>2. CASE NextNotOk(t)
  <2>1. PICK o \in Objects : stage[o] = "broken" /\ stage' = [stage EXCEPT ![o] = "leaked"]
    BY <1>2 DEF NextNotOk
  <2> QED
    BY <1>2, <2>1, ObjectMoves DEF NextNotOk, envVars, Stages
<1> QED
  BY <1>1, <1>2
-----------------------------------------------------------------------------
(* The async threads *)

\* Next delivers the tag of a request: the object leaves those waiting, and the
\* thread owes a successor.
LEMMA NextRequestInv ==
  ASSUME IInv, NEW t \in Threads, NextRequest(t)
  PROVE  IInv'
<1> USE DEF queueVars, envVars
<1>1. PICK o \in Objects : /\ stage[o] = "event"
                           /\ stage' = [stage EXCEPT ![o] = "busy"]
                           /\ cur' = [cur EXCEPT ![t] = o]
  BY DEF NextRequest
<1>2. /\ stage \in [Objects -> Stages] /\ cur \in [Threads -> Nat] /\ o \in Nat /\ o # 0
      /\ tpc \in [Threads -> {"start", "next", "spawn", "opendir", "list"}] /\ queue \in Seq(Objects)
      /\ tpc[t] = "next" /\ tpc' = [tpc EXCEPT ![t] = "spawn"]
      /\ UNCHANGED <<listing, queue, marked, scanning, entries, steady, skipped, dir>>
  BY DEF IInv, Types, Objects, NextRequest
<1>3. /\ stage'[o] = "busy" /\ cur'[t] = o /\ tpc'[t] = "spawn"
      /\ \A p \in Objects : p # o => stage'[p] = stage[p]
      /\ \A u \in Threads : u # t => cur'[u] = cur[u] /\ tpc'[u] = tpc[u]
  BY <1>1, <1>2
<1>4. Types'
  BY <1>1, <1>2 DEF IInv, Types, Stages
<1>5. Serving'
  <2>1. \A u \in Threads : cur[u] # o
    BY <1>1, <1>2 DEF IInv, Serving
  <2> QED
    BY <1>1, <1>2, <1>3, <2>1 DEF IInv, Serving
<1>6. Tags'
  <2>1. \A i \in 1..Len(queue) : queue[i] \in Objects
    BY <1>2, ElementOfSeq
  <2>2. \A i \in 1..Len(queue) :
          stage'[queue[i]] \in IF i > marked THEN {"queued"} ELSE {"registered", "event", "busy"}
    BY <1>1, <1>3, <2>1 DEF IInv, Tags
  <2>3. \A u \in Threads : \A i \in 1..Len(queue) : cur'[u] = queue[i] => tpc'[u] = "spawn"
    BY <1>3 DEF IInv, Tags
  <2> QED
    BY <1>2, <2>2, <2>3 DEF IInv, Tags
<1>7. AlwaysArmed'
  <2>1. Waiting' = Waiting \ {o} /\ o \in Waiting
    BY <1>1, <1>3 DEF Waiting
  <2>2. Pending' = Pending \union {t} /\ t \notin Pending
    BY <1>2, <1>3 DEF Pending
  <2>3. Cardinality(Pending') + Cardinality(Waiting') = Cardinality(Pending) + Cardinality(Waiting)
    BY <2>1, <2>2, FiniteParts, Exchange
  <2>4. /\ Cardinality(Waiting) \in Nat /\ Cardinality(Pending) \in Nat
        /\ Cardinality(Waiting') \in Nat /\ Cardinality(Pending') \in Nat
    BY <2>1, <2>2, FiniteParts, FS_CardinalityType, FS_AddElement, FS_RemoveElement
  <2> QED
    BY <2>3, <2>4, Armed DEF IInv
<1>8. ListedAll'
  BY <1>2, <1>3 DEF IInv, ListedAll
<1> QED
  BY <1>4, <1>5, <1>6, <1>7, <1>8 DEF IInv

\* ProcessCallback: opendir and the loop over the directory.  Only the listing of
\* the thread's own object grows, by exactly the entry that readdir has returned.
LEMMA ListInv ==
  ASSUME IInv, NEW t \in Threads, OpenDir(t) \/ ListEntry(t) \/ StatFails(t)
  PROVE  IInv'
<1> USE DEF queueVars, envVars
<1>1. /\ tpc \in [Threads -> {"start", "next", "spawn", "opendir", "list"}]
      /\ entries \in [Threads -> SUBSET (1..Len(Files))] /\ DOMAIN listing = Objects
      /\ DOMAIN steady = Threads /\ DOMAIN skipped = Threads /\ dir \subseteq Names
      /\ entries[t] \in SUBSET (1..Len(Files)) /\ entries[t] \in SUBSET Nat
  BY CallbackAssumption DEF IInv, Types
<1>2. /\ UNCHANGED <<stage, queue, marked, scanning, cur, dir>>
      /\ tpc[t] \in {"opendir", "list"} /\ tpc' = [tpc EXCEPT ![t] = "list"]
      /\ DOMAIN listing' = Objects /\ DOMAIN steady' = Threads /\ DOMAIN skipped' = Threads
      /\ \A u \in Threads : u # t => entries'[u] = entries[u] /\ steady'[u] = steady[u] /\ skipped'[u] = skipped[u]
      /\ \A p \in Objects : p # cur[t] => listing'[p] = listing[p]
  BY <1>1 DEF OpenDir, ListEntry, StatFails
<1>3. tpc'[t] = "list" /\ \A u \in Threads : u # t => tpc'[u] = tpc[u]
  BY <1>1, <1>2
<1>4. entries' \in [Threads -> SUBSET (1..Len(Files))]
  BY <1>1 DEF OpenDir, ListEntry, StatFails, After
<1>5. Types'
  BY <1>1, <1>2, <1>4 DEF IInv, Types
<1>6. Serving' /\ Tags'
  BY <1>2, <1>3 DEF IInv, Serving, Tags
<1>7. AlwaysArmed'
  <2>1. Waiting' = Waiting /\ Pending' = Pending
    BY <1>2, <1>3 DEF Waiting, Pending
  <2> QED
    BY <2>1, Armed DEF IInv
<1>8. ~skipped'[t] => steady'[t] \subseteq listing'[cur'[t]] \union {Files[i] : i \in entries'[t]}
  <2>1. CASE OpenDir(t)
    <3>1. steady'[t] = dir /\ entries'[t] = {i \in 1..Len(Files) : Files[i] \in dir}
      BY <1>1, <2>1 DEF OpenDir
    <3>2. \A x \in dir : \E i \in entries'[t] : x = Files[i]
      BY <1>1, <3>1 DEF Names
    <3> QED
      BY <3>1, <3>2
  <2>2. CASE ListEntry(t)
    <3>1. /\ tpc[t] = "list" /\ cur[t] \in Objects /\ skipped' = skipped /\ steady' = steady
          /\ listing'[cur[t]] = listing[cur[t]] \union {Files[Least(entries[t])]}
          /\ entries'[t] = After(entries[t])
      BY <1>1, <1>2, <2>2 DEF ListEntry, IInv, Serving
    <3>2. \A i \in entries[t] : i \in entries'[t] \/ Files[i] \in listing'[cur[t]]
      BY <1>1, <3>1, AfterLeast
    <3>3. ~skipped[t] => steady[t] \subseteq listing[cur[t]] \union {Files[i] : i \in entries[t]}
      BY <3>1 DEF IInv, ListedAll
    <3> QED
      BY <1>2, <3>1, <3>2, <3>3
  <2>3. CASE StatFails(t)
    BY <1>1, <2>3 DEF StatFails
  <2> QED
    BY <2>1, <2>2, <2>3
<1>9. ListedAll'
  <2>1. \A u \in Threads : tpc'[u] = "list" /\ u # t => cur[u] \in Objects /\ cur[u] # cur[t]
    BY <1>3 DEF IInv, Serving
  <2> QED
    BY <1>2, <1>3, <1>8, <2>1 DEF IInv, ListedAll
<1> QED
  BY <1>5, <1>6, <1>7, <1>9 DEF IInv

\* responder.Finish: the object is not among the tags any more.
LEMMA FinishInv ==
  ASSUME IInv, NEW t \in Threads, Finish(t)
  PROVE  IInv'
<1> USE DEF queueVars, envVars
<1>1. /\ stage \in [Objects -> Stages] /\ cur \in [Threads -> Nat] /\ queue \in Seq(Objects)
      /\ tpc \in [Threads -> {"start", "next", "spawn", "opendir", "list"}]
      /\ DOMAIN steady = Threads /\ DOMAIN skipped = Threads
  BY DEF IInv, Types
<1>2. /\ tpc[t] = "list" /\ cur[t] \in Objects /\ cur[t] # 0 /\ stage[cur[t]] = "busy"
      /\ stage' = [stage EXCEPT ![cur[t]] = "finish"]
      /\ cur' = [cur EXCEPT ![t] = 0] /\ tpc' = [tpc EXCEPT ![t] = "next"]
      /\ UNCHANGED <<listing, queue, marked, scanning, entries, dir>>
      /\ DOMAIN steady' = Threads /\ DOMAIN skipped' = Threads
      /\ \A u \in Threads : u # t => steady'[u] = steady[u] /\ skipped'[u] = skipped[u]
  BY <1>1 DEF Finish, IInv, Serving
<1>3. /\ stage'[cur[t]] = "finish" /\ \A p \in Objects : p # cur[t] => stage'[p] = stage[p]
      /\ cur'[t] = 0 /\ tpc'[t] = "next"
      /\ \A u \in Threads : u # t => cur'[u] = cur[u] /\ tpc'[u] = tpc[u]
  BY <1>1, <1>2
<1>4. Types'
  BY <1>1, <1>2 DEF IInv, Types, Stages
<1>5. Serving'
  BY <1>1, <1>2, <1>3 DEF IInv, Serving
<1>6. Tags'
  <2>0. \A i \in 1..Len(queue) : queue[i] \in Objects
    BY <1>1, ElementOfSeq
  <2>1. \A i \in 1..Len(queue) : queue[i] \in Objects /\ queue[i] # 0 /\ queue[i] # cur[t]
    <3>1. \A i \in 1..Len(queue) : queue[i] # cur[t]
      BY <1>2 DEF IInv, Tags
    <3> QED
      BY <2>0, <3>1 DEF Objects
  <2> QED
    BY <1>2, <1>3, <2>1 DEF IInv, Tags
<1>7. AlwaysArmed'
  <2>1. Waiting' = Waiting /\ Pending' = Pending
    BY <1>2, <1>3 DEF Waiting, Pending
  <2> QED
    BY <2>1, Armed DEF IInv
<1>8. ListedAll'
  BY <1>2, <1>3 DEF IInv, ListedAll
<1> QED
  BY <1>4, <1>5, <1>6, <1>7, <1>8 DEF IInv
-----------------------------------------------------------------------------
(* The queue thread, and the directory *)

\* ProcessQueuedRequests
LEMMA QueueThreadInv ==
  ASSUME IInv, QueueThread
  PROVE  IInv'
<1> USE DEF queueVars, threadVars, envVars
<1>1. stage \in [Objects -> Stages] /\ queue \in Seq(Objects) /\ Len(queue) \in Nat /\ marked \in Nat
  BY LenProperties DEF IInv, Types
<1>2. CASE Scan
  <2>1. Waiting' = Waiting /\ Pending' = Pending
    BY <1>2 DEF Scan, Waiting, Pending
  <2>2. AlwaysArmed'
    BY <2>1, Armed DEF IInv
  <2>3. Types' /\ Serving' /\ Tags' /\ ListedAll'
    BY <1>2 DEF Scan, IInv, Types, Serving, Tags, ListedAll
  <2> QED
    BY <2>2, <2>3 DEF IInv
<1>3. CASE Register
  <2>1. /\ scanning /\ marked < Len(queue) /\ stage' = [stage EXCEPT ![queue[marked + 1]] = "registered"]
        /\ marked' = marked + 1
        /\ UNCHANGED <<listing, queue, scanning, tpc, cur, entries, steady, skipped, dir>>
    BY <1>3 DEF Register
  <2>2. \A i \in 1..Len(queue) : queue[i] \in Objects
    BY <1>1, ElementOfSeq
  <2>3. marked + 1 \in 1..Len(queue) /\ marked + 1 > marked
    BY <1>1, <2>1
  <2>4. stage[queue[marked + 1]] = "queued"
    BY <2>3 DEF IInv, Tags
  <2>5. /\ stage'[queue[marked + 1]] = "registered"
        /\ \A p \in Objects : p # queue[marked + 1] => stage'[p] = stage[p]
    BY <1>1, <2>1, <2>2, <2>3
  <2>6. Types'
    BY <1>1, <2>1, <2>2, <2>3 DEF IInv, Types, Stages
  <2>7. Serving'
    BY <2>1, <2>4, <2>5 DEF IInv, Serving
  <2>8. Tags'
    <3>1. \A i \in 1..Len(queue) : i # marked + 1 => queue[i] # queue[marked + 1]
      BY <2>3 DEF IInv, Tags
    <3>2. \A i \in 1..Len(queue) :
            stage'[queue[i]] \in IF i > marked + 1 THEN {"queued"} ELSE {"registered", "event", "busy"}
      BY <1>1, <2>2, <2>5, <3>1 DEF IInv, Tags
    <3> QED
      BY <1>1, <2>1, <3>2 DEF IInv, Tags
  <2>9. AlwaysArmed'
    <3>1. Waiting' = Waiting /\ Pending' = Pending
      BY <2>1, <2>4, <2>5 DEF Waiting, Pending
    <3> QED
      BY <3>1, Armed DEF IInv
  <2>10. ListedAll'
    BY <2>1 DEF IInv, ListedAll
  <2> QED
    BY <2>6, <2>7, <2>8, <2>9, <2>10 DEF IInv
<1>4. CASE Erase
  <2>1. Waiting' = Waiting /\ Pending' = Pending
    BY <1>4 DEF Erase, Waiting, Pending
  <2>2. AlwaysArmed'
    BY <2>1, Armed DEF IInv
  <2>0. /\ queue' = << >> /\ << >> \in Seq(Objects) /\ marked' = 0 /\ 0 \in Nat /\ scanning' = FALSE
        /\ UNCHANGED <<stage, listing, tpc, cur, entries, steady, skipped, dir>>
    BY <1>4, EmptySeq DEF Erase
  <2>3. Types' /\ Serving' /\ ListedAll'
    BY <2>0 DEF IInv, Types, Serving, ListedAll
  <2>4. queue' = << >> /\ marked' = 0 /\ Len(queue') = 0
    BY <1>4 DEF Erase
  <2>5. Tags'
    BY <2>4 DEF Tags
  <2> QED
    BY <2>2, <2>3, <2>5 DEF IInv
<1> QED
  BY <1>2, <1>3, <1>4 DEF QueueThread

\* StoreFile and DeleteFile
LEMMA ChangeDirInv ==
  ASSUME IInv, NEW f \in Names, ChangeDir(f)
  PROVE  IInv'
<1> USE DEF queueVars, clientVars
<1>1. /\ UNCHANGED <<stage, listing, queue, marked, scanning, tpc, cur, entries, skipped>>
      /\ dir' \subseteq Names /\ DOMAIN steady' = Threads
      /\ \A t \in Threads : steady'[t] \subseteq steady[t]
  BY DEF ChangeDir, IInv, Types
<1>2. Waiting' = Waiting /\ Pending' = Pending
  BY <1>1 DEF Waiting, Pending
<1>3. AlwaysArmed'
  BY <1>2, Armed DEF IInv
<1>4. Types' /\ Serving' /\ Tags'
  BY <1>1 DEF IInv, Types, Serving, Tags
<1>5. ListedAll'
  BY <1>1 DEF IInv, ListedAll
<1> QED
  BY <1>3, <1>4, <1>5 DEF IInv
-----------------------------------------------------------------------------
(* The theorems *)

\* When the threads are started all of them owe an object.
LEMMA InitInv == Init => IInv
<1> SUFFICES ASSUME Init PROVE IInv
  OBVIOUS
<1>1. queue = << >> /\ marked = 0 /\ Len(queue) = 0
  BY DEF Init
<1>2. Types
  <2>1. << >> \in Seq(Objects)
    BY EmptySeq
  <2>2. stage \in [Objects -> Stages] /\ DOMAIN listing = Objects /\ dir \subseteq Names
    BY DEF Init, Stages
  <2>3. /\ tpc \in [Threads -> {"start", "next", "spawn", "opendir", "list"}] /\ cur \in [Threads -> Nat]
        /\ entries \in [Threads -> SUBSET (1..Len(Files))]
        /\ DOMAIN steady = Threads /\ DOMAIN skipped = Threads
    BY DEF Init
  <2>4. queue \in Seq(Objects) /\ marked \in Nat
    BY <1>1, <2>1
  <2>5. scanning \in BOOLEAN
    BY Zenon DEF Init
  <2> QED
    BY <2>2, <2>3, <2>4, <2>5, Zenon DEF Types
<1>3. Serving /\ ListedAll
  BY DEF Init, Serving, ListedAll
<1>4. Tags
  BY <1>1 DEF Tags
<1>5. AlwaysArmed
  <2>1. Waiting = {} /\ Pending = Threads
    BY DEF Init, Waiting, Pending
  <2>2. Cardinality(Waiting) = 0 /\ Cardinality(Threads) \in Nat
    BY <2>1, CallbackAssumption, FS_EmptySet, FS_CardinalityType
  <2> QED
    BY <2>1, <2>2, Armed
<1> QED
  BY <1>2, <1>3, <1>4, <1>5 DEF IInv

\* Every step keeps the invariant.
LEMMA NextInv == IInv /\ [Next]_vars => IInv'
<1> SUFFICES ASSUME IInv, [Next]_vars PROVE IInv'
  OBVIOUS
<1>1. ASSUME NEW t \in Threads, Start(t) \/ Spawn(t) PROVE IInv'
  BY <1>1, NewTag DEF Start, Spawn, envVars, IInv
<1>2. ASSUME NEW t \in Threads, Async(t) PROVE IInv'
  BY <1>2, NextRequestInv, ListInv, FinishInv, LastTagInv DEF Async
<1>3. CASE UNCHANGED vars
  BY <1>3, Unmoved DEF vars, envVars
<1> QED
  BY <1>1, <1>2, <1>3, QueueThreadInv, GrpcInv, ChangeDirInv DEF Next

\* IInv is an inductive invariant of the CallbackList service: who serves which
\* object, and how far the queue thread is, with the properties below.
THEOREM Invariance == Spec => []IInv
  BY InitInv, NextInv, PTL DEF Spec

\* HandleAsyncRPC and Proceed keep as many objects waiting for a call as there are
\* async threads, for any number of threads and of lost calls.
THEOREM ServiceArmed == Spec => []AlwaysArmed
<1>1. IInv => AlwaysArmed
  BY DEF IInv
<1> QED
  BY <1>1, Invariance, PTL

\* ProcessQueuedRequests registers a tag once and never touches one whose object is
\* finished or deleted, also when the call arrives while the queue is scanned.
THEOREM TagsAlive == Spec => []NoDanglingTag
<1>1. IInv => NoDanglingTag
  BY DEF IInv, Tags, Serving, NoDanglingTag
<1> QED
  BY <1>1, Invariance, PTL

\* ProcessCallback lists every file that stays in the directory, whatever appears
\* and disappears meanwhile, unless a stat fails.
THEOREM ListingsComplete == Spec => []ListedAll
<1>1. IInv => ListedAll
  BY DEF IInv
<1> QED
  BY <1>1, Invariance, PTL
=============================================================================
