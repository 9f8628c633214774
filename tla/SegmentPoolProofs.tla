------------------------- MODULE SegmentPoolProofs -------------------------
(***************************************************************************)
(* Theorems about the pool of segments, for any number of workers and      *)
(* segments: however the operations of the steque interleave it hands out  *)
(* no segment twice, and as long as they do not it loses none and counts   *)
(* them right.                                                             *)
(***************************************************************************)
EXTENDS SegmentPool, FiniteSetTheorems, WellFoundedInduction, TLAPS

Pointers == Addr \union {NULL}
Nodes == [item : Segments \union {NULL}, next : Pointers]

\* The workers between sem_wait and sem_post
Guarded(w) ==
  pc[w] \in {"check", "pop", "next", "through", "advance", "test", "clear", "free", "load", "store"}

\* A worker has popped a node and not freed it yet.
HasPopped(w) == pc[w] \in {"next", "through", "advance", "test", "clear", "free"}

Types ==
  /\ front \in Pointers /\ back \in Pointers /\ N \in Int
  /\ heap \in [Addr -> Nodes]
  /\ allocated \subseteq Addr
  /\ id \in [Workers -> Segments \union {NULL}]
  /\ node \in [Workers -> Pointers]
  /\ tmp \in [Workers -> Int \union {NULL}]
  /\ pc \in [Workers -> {"lock", "check", "pop", "next", "through", "advance", "test", "clear",
                         "free", "load", "store", "use", "malloc", "empty", "first", "deref",
                         "link", "back", "loadN", "storeN"}]

\* sem_queue admits one worker.
Mutex ==
  /\ semQueue \in {0, 1}
  /\ \A w \in Workers : Guarded(w) => semQueue = 0
  /\ \A u, w \in Workers : Guarded(u) /\ Guarded(w) => u = w

\* What the locals of a worker are at its program points
Locals(w) ==
  /\ pc[w] \in {"lock", "check", "pop", "back", "loadN", "storeN"} <=> id[w] = NULL
  /\ HasPopped(w) => node[w] \in allocated \ Reachable
  /\ pc[w] = "next" => front \in allocated \ Reachable
  /\ pc[w] = "through" => tmp[w] \in allocated \ Reachable
  /\ pc[w] = "advance" => tmp[w] \in Pointers
  /\ pc[w] = "link" => tmp[w] \in Addr
  /\ pc[w] \in {"store", "storeN"} => tmp[w] \in Int
  /\ pc[w] = "back" => node[w] \in Addr
  /\ Linking(w) => node[w] \in Addr /\ heap[node[w]].item = id[w]

\* No two workers hold one segment.
HeldOnce == \A u, w \in Workers : id[u] = id[w] /\ id[u] # NULL => u = w

\* The nodes that count are allocated and form disjoint lists with different items, of
\* which nobody holds one except a worker the one it is about to give back.
Sound(S) ==
  /\ S \subseteq allocated
  /\ \A a, b \in S : heap[a].next = heap[b].next /\ heap[a].next # NULL => a = b
  /\ \A a \in S : heap[a].next \notin Roots
  /\ \A w \in Workers : Linking(w) => node[w] # First
  /\ \A u, w \in Workers : Linking(u) /\ Linking(w) /\ node[u] = node[w] => u = w
  /\ \A a, b \in S : heap[a].item = heap[b].item => a = b
  /\ \A a \in S : heap[a].item \in Segments
  /\ \A a \in S : \A w \in Workers : heap[a].item = id[w] => Linking(w) /\ node[w] = a

IInv == Types /\ Mutex /\ (\A w \in Workers : Locals(w)) /\ HeldOnce /\ Sound(Reachable)

(* While operations have not overlapped *)

\* The nodes behind First
Listed == Reachable \ {node[w] : w \in {u \in Workers : Linking(u)}}

\* Node b is the last one of the list.
Last(b) == b \in Listed /\ \A a \in Listed : heap[a].next = NULL <=> a = b

\* this->back is the last node, or NULL when there is none.
Settled == IF First = NULL THEN back = NULL ELSE Last(back)

\* What holds while w alone is inside an operation
Alone(w) ==
  /\ pc[w] \in {"pop", "free", "load", "store", "empty", "loadN", "storeN"} => Settled
  /\ pc[w] = "pop" => front # NULL
  /\ pc[w] \in {"next", "through", "advance", "test"} => First = NULL \/ Last(back)
  /\ pc[w] = "clear" => First = NULL
  /\ Linking(w) => heap[node[w]].next = NULL
  /\ pc[w] = "first" => front = NULL
  /\ pc[w] \in {"deref", "link"} => front # NULL /\ Last(back)
  /\ pc[w] = "link" => tmp[w] = back
  /\ pc[w] = "back" => front # NULL /\ Last(node[w])
  /\ N = CASE HasPopped(w) \/ pc[w] \in {"load", "store"} -> Cardinality(FreeIds) + 1
           [] pc[w] \in {"back", "loadN", "storeN"} -> Cardinality(FreeIds) - 1
           [] OTHER -> Cardinality(FreeIds)
  /\ pc[w] \in {"store", "storeN"} => tmp[w] = N

\* What holds as long as no two operations have overlapped
Serial ==
  ~overlapped =>
    /\ ~crashed
    /\ FreeIds \union Out = Segments
    /\ \A u, w \in Inside : u = w
    /\ \A w \in Inside : Alone(w)
    /\ Inside = {} => Settled /\ N = Cardinality(FreeIds)
-----------------------------------------------------------------------------
(* The list *)

\* First is what a pop under way is going to write, or this->front.
FirstFact ==
  /\ \A w \in Workers : Popping(w) => First = Upcoming(w)
  /\ (\A w \in Workers : ~Popping(w)) => First = front

\* sem_queue lets one worker pop, so First is its next node.
LEMMA FirstIs == Mutex => FirstFact
<1>1. ASSUME Mutex, NEW w \in Workers, Popping(w) PROVE First = Upcoming(w)
  <2>1. \A u \in Workers : Popping(u) => u = w
    BY <1>1 DEF Mutex, Guarded, Popping
  <2>2. (CHOOSE u \in Workers : Popping(u)) = w
    BY <1>1, <2>1
  <2> QED
    BY <1>1, <2>2 DEF First
<1> QED
  BY <1>1 DEF FirstFact, First

\* ... and the same in the next state
LEMMA FirstIsNext == Mutex' => FirstFact'
BY FirstIs, PTL

\* The pointers of a good state
LEMMA FirstType ==
  ASSUME IInv
  PROVE  First \in Pointers /\ Roots \subseteq Addr
<1> USE DEF Pointers, Nodes
<1>1. First \in Pointers
  <2>1. CASE \E w \in Workers : Popping(w)
    <3>1. PICK w \in Workers : Popping(w)
      BY <2>1
    <3>2. First = Upcoming(w) /\ Locals(w) /\ allocated \subseteq Addr /\ heap \in [Addr -> Nodes]
      BY <3>1, FirstIs DEF FirstFact, IInv, Types
    <3>3. CASE pc[w] = "next"
      <4>1. front \in Addr
        BY <3>2, <3>3 DEF Locals
      <4> QED
        BY <3>2, <3>3, <4>1 DEF Upcoming
    <3>4. CASE pc[w] = "through"
      <4>1. tmp[w] \in Addr
        BY <3>2, <3>4 DEF Locals
      <4> QED
        BY <3>2, <3>4, <4>1 DEF Upcoming
    <3>5. CASE pc[w] = "advance"
      BY <3>2, <3>5 DEF Upcoming, Locals
    <3> QED
      BY <3>1, <3>3, <3>4, <3>5 DEF Popping
  <2>2. CASE \A w \in Workers : ~Popping(w)
    BY <2>2 DEF First, IInv, Types
  <2> QED
    BY <2>1, <2>2
<1>2. \A w \in Workers : Linking(w) => node[w] \in Addr
  BY DEF IInv, Locals
<1> QED
  BY <1>1, <1>2 DEF Roots

\* The reachable addresses are closed ...
LEMMA ReachableClosed ==
  ASSUME IInv
  PROVE  /\ Reachable \subseteq Addr /\ Roots \subseteq Reachable
         /\ \A a \in Reachable : heap[a].next \in Reachable \union {NULL}
<1>1. Reachable \subseteq Addr
  BY DEF Reachable
<1>2. Roots \subseteq Reachable
  BY FirstType DEF Reachable, Closed
<1>3. ASSUME NEW a \in Reachable PROVE heap[a].next \in Reachable \union {NULL}
  <2>1. heap[a].next \in Pointers
    BY <1>1 DEF IInv, Types, Nodes, Pointers
  <2>2. ASSUME NEW S \in SUBSET Addr, Closed(S), heap[a].next # NULL PROVE heap[a].next \in S
    <3>1. a \in S
      BY <2>2 DEF Reachable
    <3> QED
      BY <2>2, <3>1 DEF Closed
  <2> QED
    BY <2>1, <2>2 DEF Reachable, Pointers
<1> QED
  BY <1>1, <1>2, <1>3

\* ... and contained in every closed set,
LEMMA Least ==
  ASSUME NEW S, S \subseteq Addr, Closed(S)
  PROVE  Reachable \subseteq S
BY DEF Reachable

\* in the next state as well.
LEMMA LeastNext ==
  ASSUME NEW S, S \subseteq Addr, Roots' \subseteq S,
         \A a \in S : heap'[a].next \in S \union {NULL}
  PROVE  Reachable' \subseteq S
BY DEF Reachable, Closed

\* A step that moves no pointer of the list leaves its nodes alone.
LEMMA SameList ==
  ASSUME heap' = heap, First' = First,
         \A u \in Workers : (Linking(u)' <=> Linking(u)) /\ (Linking(u) => node'[u] = node[u])
  PROVE  Roots' = Roots /\ Reachable' = Reachable
<1>1. Roots' = Roots
  <2>1. {node'[u] : u \in {v \in Workers : Linking(v)'}} = {node[u] : u \in {v \in Workers : Linking(v)}}
    OBVIOUS
  <2> QED
    BY <2>1 DEF Roots
<1>2. \A S : Closed(S)' <=> Closed(S)
  BY <1>1 DEF Closed
<1> QED
  BY <1>1, <1>2 DEF Reachable

\* What is needed for First to stay
LEMMA SameFirst ==
  ASSUME Mutex, Mutex',
         \A u \in Workers : Popping(u)' <=> Popping(u),
         \A u \in Workers : Popping(u) => Upcoming(u)' = Upcoming(u),
         (\A u \in Workers : ~Popping(u)) => front' = front
  PROVE  First' = First
<1>1. FirstFact /\ FirstFact'
  BY FirstIs, FirstIsNext
<1>2. CASE \A u \in Workers : ~Popping(u)
  BY <1>1, <1>2 DEF FirstFact
<1>3. CASE \E u \in Workers : Popping(u)
  <2>1. PICK u \in Workers : Popping(u)
    BY <1>3
  <2> QED
    BY <1>1, <2>1 DEF FirstFact
<1> QED
  BY <1>2, <1>3

\* A worker that takes no part in a step keeps what it relies on.
LEMMA OtherLocals ==
  ASSUME IInv, NEW u \in Workers,
         pc'[u] = pc[u], id'[u] = id[u], node'[u] = node[u], tmp'[u] = tmp[u],
         Linking(u) => heap'[node[u]].item = heap[node[u]].item,
         Guarded(u) => allocated \subseteq allocated',
         pc[u] = "next" => front' \in allocated' \ Reachable',
         Guarded(u) => Reachable' \intersect allocated \subseteq Reachable
  PROVE  Locals(u)'
<1>1. Locals(u)
  BY DEF IInv
<1>2. HasPopped(u) => Guarded(u)
  BY DEF HasPopped, Guarded
<1>3. pc[u] = "through" => Guarded(u)
  BY DEF Guarded
<1>4. /\ HasPopped(u)' => node'[u] \in allocated' \ Reachable'
      /\ pc'[u] = "through" => tmp'[u] \in allocated' \ Reachable'
  BY <1>1, <1>2, <1>3 DEF Locals, HasPopped
<1> QED
  BY <1>1, <1>4 DEF Locals, Linking

\* A step of w that moves no pointer of the list and no segment between the list and a
\* worker: what is left to show is about the semaphore and the locals of w.
LEMMA QuietStep ==
  ASSUME IInv, NEW w \in Workers, Types', Mutex',
         heap' = heap, id' = id, First' = First,
         Linking(w)' <=> Linking(w), Linking(w) => node'[w] = node[w],
         \A u \in Workers : u # w => pc'[u] = pc[u] /\ node'[u] = node[u] /\ tmp'[u] = tmp[u],
         Guarded(w) \/ (front' = front /\ allocated \subseteq allocated'),
         Reachable \subseteq allocated',
         Reachable' = Reachable => Locals(w)'
  PROVE  IInv' /\ Reachable' = Reachable /\ Roots' = Roots
<1>1. \A u \in Workers : (Linking(u)' <=> Linking(u)) /\ (Linking(u) => node'[u] = node[u])
  BY DEF Linking
<1>2. Reachable' = Reachable /\ Roots' = Roots
  BY <1>1, SameList
<1>3. ASSUME NEW u \in Workers, u # w PROVE Locals(u)'
  <2>1. Locals(u)
    BY DEF IInv
  <2>2. Guarded(u) => front' = front /\ allocated \subseteq allocated'
    BY <1>3 DEF IInv, Mutex
  <2>3. pc[u] = "next" => front' \in allocated' \ Reachable'
    BY <1>2, <2>1, <2>2 DEF Locals, Guarded
  <2> QED
    BY <1>2, <1>3, <2>2, <2>3, OtherLocals
<1>4. HeldOnce'
  BY DEF IInv, HeldOnce
<1>5. Sound(Reachable)'
  BY <1>1, <1>2 DEF IInv, Sound
<1> QED
  BY <1>2, <1>3, <1>4, <1>5 DEF IInv

\* The same for a step that leaves this->front and the locals of a pop alone too.
LEMMA SilentStep ==
  ASSUME IInv, NEW w \in Workers, Types', Mutex',
         heap' = heap, id' = id, front' = front, allocated' = allocated,
         ~Popping(w), ~Popping(w)',
         Linking(w)' <=> Linking(w), Linking(w) => node'[w] = node[w],
         \A u \in Workers : u # w => pc'[u] = pc[u] /\ node'[u] = node[u] /\ tmp'[u] = tmp[u],
         Reachable' = Reachable => Locals(w)'
  PROVE  IInv' /\ Reachable' = Reachable /\ Roots' = Roots /\ First' = First
<1>1. \A u \in Workers : (Popping(u)' <=> Popping(u)) /\ (Popping(u) => Upcoming(u)' = Upcoming(u))
  BY DEF Popping, Upcoming
<1>2. First' = First
  BY <1>1, SameFirst DEF IInv
<1>3. Reachable \subseteq allocated'
  BY DEF IInv, Sound
<1> QED
  BY <1>2, <1>3, QuietStep
-----------------------------------------------------------------------------
(* Every step preserves the invariant.  One lemma per action, which also says how the
   list changes. *)

\* The list, the items and who holds what stay the same.
KeepsList == Reachable' = Reachable /\ Roots' = Roots /\ First' = First /\ heap' = heap /\ id' = id

\* Worker w goes to a program point.
LEMMA GotoFacts ==
  ASSUME Types, NEW w \in Workers, NEW from, NEW to, Goto(w, from, to)
  PROVE  /\ ~crashed /\ pc[w] = from /\ pc'[w] = to
         /\ \A u \in Workers : u # w => pc'[u] = pc[u]
BY DEF Goto, Types

\* sem_wait(sem_queue)
LEMMA LockInv ==
  ASSUME IInv, NEW w \in Workers, Lock(w)
  PROVE  IInv' /\ KeepsList
<1> USE DEF list
<1>1. /\ pc[w] = "lock" /\ pc'[w] = "check" /\ \A u \in Workers : u # w => pc'[u] = pc[u]
      /\ UNCHANGED <<list, heap, allocated, id, node, tmp>>
  BY GotoFacts DEF Lock, IInv
<1>2. Types'
  BY <1>1 DEF IInv, Types, Lock, Goto
<1>3. Mutex'
  <2>1. semQueue = 1 /\ semQueue' = 0
    BY DEF Lock, IInv, Mutex
  <2>2. \A u \in Workers : ~Guarded(u)
    BY <2>1 DEF IInv, Mutex
  <2>3. \A u \in Workers : Guarded(u)' => u = w
    BY <1>1, <2>2 DEF Guarded
  <2> QED
    BY <2>1, <2>3 DEF Mutex
<1>4. Locals(w)'
  BY <1>1 DEF IInv, Locals, HasPopped, Linking
<1> QED
  BY <1>1, <1>2, <1>3, <1>4, SilentStep DEF KeepsList, Popping, Linking

\* steque_isempty, sem_post
LEMMA PollInv ==
  ASSUME IInv, NEW w \in Workers, Poll(w)
  PROVE  IInv' /\ KeepsList
<1> USE DEF list
<1>1. /\ pc[w] = "check" /\ pc'[w] = "lock" /\ \A u \in Workers : u # w => pc'[u] = pc[u]
      /\ UNCHANGED <<list, heap, allocated, id, node, tmp>>
  BY GotoFacts DEF Poll, IInv
<1>2. Types'
  BY <1>1 DEF IInv, Types, Poll, Goto
<1>3. Mutex'
  <2>1. Guarded(w) /\ ~Guarded(w)'
    BY <1>1 DEF Guarded
  <2>2. semQueue' = 1
    BY <2>1 DEF Poll, IInv, Mutex
  <2>3. \A u \in Workers : ~Guarded(u)'
    BY <1>1, <2>1 DEF Guarded, IInv, Mutex
  <2> QED
    BY <2>2, <2>3 DEF Mutex
<1>4. Locals(w)'
  BY <1>1 DEF IInv, Locals, HasPopped, Linking
<1> QED
  BY <1>1, <1>2, <1>3, <1>4, SilentStep DEF KeepsList, Popping, Linking

\* steque_isempty is false
LEMMA NotEmptyInv ==
  ASSUME IInv, NEW w \in Workers, NotEmpty(w)
  PROVE  IInv' /\ KeepsList
<1> USE DEF list
<1>1. /\ pc[w] = "check" /\ pc'[w] = "pop" /\ \A u \in Workers : u # w => pc'[u] = pc[u]
      /\ UNCHANGED <<list, heap, allocated, semQueue, id, node, tmp>>
  BY GotoFacts DEF NotEmpty, IInv
<1>2. Types'
  BY <1>1 DEF IInv, Types, NotEmpty, Goto
<1>3. Mutex'
  <2>1. \A u \in Workers : Guarded(u)' <=> Guarded(u)
    BY <1>1 DEF Guarded
  <2> QED
    BY <1>1, <2>1 DEF IInv, Mutex
<1>4. Locals(w)'
  BY <1>1 DEF IInv, Locals, HasPopped, Linking
<1> QED
  BY <1>1, <1>2, <1>3, <1>4, SilentStep DEF KeepsList, Popping, Linking

\* An underflow, or a NULL this->back
LEMMA CrashInv ==
  ASSUME IInv, NEW w \in Workers, Underflow(w) \/ EnqNullDeref(w)
  PROVE  IInv' /\ KeepsList
<1> USE DEF list
<1>1. UNCHANGED <<front, back, N, heap, allocated, semQueue, pc, id, node, tmp>>
  BY DEF Underflow, EnqNullDeref
<1>2. /\ \A u \in Workers : Popping(u)' = Popping(u) /\ Upcoming(u)' = Upcoming(u) /\ Linking(u)' = Linking(u)
                            /\ Guarded(u)' = Guarded(u) /\ HasPopped(u)' = HasPopped(u)
      /\ First' = First
  BY <1>1 DEF Popping, Upcoming, Linking, Guarded, HasPopped, First
<1>3. Reachable' = Reachable /\ Roots' = Roots
  BY <1>1, <1>2, SameList
<1>4. Types' /\ Mutex' /\ HeldOnce'
  BY <1>1, <1>2 DEF IInv, Types, Mutex, HeldOnce
<1>5. \A u \in Workers : Locals(u)'
  BY <1>1, <1>2, <1>3 DEF IInv, Locals
<1>6. Sound(Reachable)'
  BY <1>1, <1>2, <1>3 DEF IInv, Sound
<1> QED
  BY <1>1, <1>2, <1>3, <1>4, <1>5, <1>6 DEF IInv, KeepsList

\* The transfer, and the call of steque_enqueue
LEMMA TransferInv ==
  ASSUME IInv, NEW w \in Workers, Transfer(w)
  PROVE  IInv' /\ KeepsList
<1> USE DEF list, Pointers
<1>1. /\ pc[w] = "use" /\ pc'[w] = "malloc" /\ \A u \in Workers : u # w => pc'[u] = pc[u]
      /\ UNCHANGED <<list, heap, allocated, semQueue, id, node, tmp>>
  BY GotoFacts DEF Transfer, IInv
<1>2. Types'
  BY <1>1 DEF IInv, Types, Transfer, Goto
<1>3. Mutex'
  <2>1. \A u \in Workers : Guarded(u)' <=> Guarded(u)
    BY <1>1 DEF Guarded
  <2> QED
    BY <1>1, <2>1 DEF IInv, Mutex
<1>4. /\ Reachable' = Reachable => Locals(w)'
      /\ \A u \in Workers : u # w => node'[u] = node[u] /\ tmp'[u] = tmp[u]
  BY <1>1 DEF Transfer, IInv, Types, Locals, HasPopped, Linking
<1> QED
  BY <1>1, <1>2, <1>3, <1>4, SilentStep DEF KeepsList, Popping, Linking

\* if (this->front == NULL)
LEMMA PopTestInv ==
  ASSUME IInv, NEW w \in Workers, PopTest(w)
  PROVE  IInv' /\ KeepsList
<1> USE DEF list, Pointers
<1>1. /\ pc[w] = "test" /\ (pc'[w] = "clear" \/ pc'[w] = "free") /\ \A u \in Workers : u # w => pc'[u] = pc[u]
      /\ UNCHANGED <<list, heap, allocated, semQueue, id, node, tmp>>
  BY GotoFacts DEF PopTest, IInv
<1>2. Types'
  BY <1>1 DEF IInv, Types, PopTest, Goto
<1>3. Mutex'
  <2>1. \A u \in Workers : Guarded(u)' <=> Guarded(u)
    BY <1>1 DEF Guarded
  <2> QED
    BY <1>1, <2>1 DEF IInv, Mutex
<1>4. /\ Reachable' = Reachable => Locals(w)'
      /\ \A u \in Workers : u # w => node'[u] = node[u] /\ tmp'[u] = tmp[u]
  BY <1>1 DEF PopTest, IInv, Types, Locals, HasPopped, Linking
<1> QED
  BY <1>1, <1>2, <1>3, <1>4, SilentStep DEF KeepsList, Popping, Linking

\* this->back = NULL
LEMMA PopClearInv ==
  ASSUME IInv, NEW w \in Workers, PopClear(w)
  PROVE  IInv' /\ KeepsList
<1> USE DEF list, Pointers
<1>1. /\ pc[w] = "clear" /\ pc'[w] = "free" /\ \A u \in Workers : u # w => pc'[u] = pc[u]
      /\ UNCHANGED <<front, N, heap, allocated, semQueue, id, node, tmp>>
  BY GotoFacts DEF PopClear, IInv
<1>2. Types'
  BY <1>1 DEF IInv, Types, PopClear, Goto
<1>3. Mutex'
  <2>1. \A u \in Workers : Guarded(u)' <=> Guarded(u)
    BY <1>1 DEF Guarded
  <2> QED
    BY <1>1, <2>1 DEF IInv, Mutex
<1>4. /\ Reachable' = Reachable => Locals(w)'
      /\ \A u \in Workers : u # w => node'[u] = node[u] /\ tmp'[u] = tmp[u]
  BY <1>1 DEF PopClear, IInv, Types, Locals, HasPopped, Linking
<1> QED
  BY <1>1, <1>2, <1>3, <1>4, SilentStep DEF KeepsList, Popping, Linking

\* this->N--, the read
LEMMA PopLoadInv ==
  ASSUME IInv, NEW w \in Workers, PopLoad(w)
  PROVE  IInv' /\ KeepsList
<1> USE DEF list, Pointers
<1>1. /\ pc[w] = "load" /\ pc'[w] = "store" /\ \A u \in Workers : u # w => pc'[u] = pc[u]
      /\ UNCHANGED <<list, heap, allocated, semQueue, id, node>>
  BY GotoFacts DEF PopLoad, IInv
<1>2. Types'
  BY <1>1 DEF IInv, Types, PopLoad, Goto
<1>3. Mutex'
  <2>1. \A u \in Workers : Guarded(u)' <=> Guarded(u)
    BY <1>1 DEF Guarded
  <2> QED
    BY <1>1, <2>1 DEF IInv, Mutex
<1>4. /\ Reachable' = Reachable => Locals(w)'
      /\ \A u \in Workers : u # w => node'[u] = node[u] /\ tmp'[u] = tmp[u]
  BY <1>1 DEF PopLoad, IInv, Types, Locals, HasPopped, Linking
<1> QED
  BY <1>1, <1>2, <1>3, <1>4, SilentStep DEF KeepsList, Popping, Linking

\* this->N--, the write; sem_post
LEMMA PopStoreInv ==
  ASSUME IInv, NEW w \in Workers, PopStore(w)
  PROVE  IInv' /\ KeepsList
<1> USE DEF list, Pointers
<1>1. /\ pc[w] = "store" /\ pc'[w] = "use" /\ \A u \in Workers : u # w => pc'[u] = pc[u]
      /\ UNCHANGED <<front, back, heap, allocated, id, node>>
  BY GotoFacts DEF PopStore, IInv
<1>2. Types'
  BY <1>1 DEF IInv, Types, PopStore, Goto
<1>3. Mutex'
  <2>1. Guarded(w) /\ ~Guarded(w)'
    BY <1>1 DEF Guarded
  <2>2. semQueue' = 1
    BY <2>1 DEF PopStore, IInv, Mutex
  <2>3. \A u \in Workers : ~Guarded(u)'
    BY <1>1, <2>1 DEF Guarded, IInv, Mutex
  <2> QED
    BY <2>2, <2>3 DEF Mutex
<1>4. /\ Reachable' = Reachable => Locals(w)'
      /\ \A u \in Workers : u # w => node'[u] = node[u] /\ tmp'[u] = tmp[u]
  BY <1>1 DEF PopStore, IInv, Types, Locals, HasPopped, Linking
<1> QED
  BY <1>1, <1>2, <1>3, <1>4, SilentStep DEF KeepsList, Popping, Linking

\* if (this->back == NULL)
LEMMA EnqTestInv ==
  ASSUME IInv, NEW w \in Workers, EnqTest(w)
  PROVE  IInv' /\ KeepsList
<1> USE DEF list, Pointers
<1>1. /\ pc[w] = "empty" /\ (pc'[w] = "first" \/ pc'[w] = "deref") /\ \A u \in Workers : u # w => pc'[u] = pc[u]
      /\ UNCHANGED <<list, heap, allocated, semQueue, id, node, tmp>>
  BY GotoFacts DEF EnqTest, IInv
<1>2. Types'
  BY <1>1 DEF IInv, Types, EnqTest, Goto
<1>3. Mutex'
  <2>1. \A u \in Workers : Guarded(u)' <=> Guarded(u)
    BY <1>1 DEF Guarded
  <2> QED
    BY <1>1, <2>1 DEF IInv, Mutex
<1>4. /\ Reachable' = Reachable => Locals(w)'
      /\ \A u \in Workers : u # w => node'[u] = node[u] /\ tmp'[u] = tmp[u]
  BY <1>1 DEF EnqTest, IInv, Types, Locals, HasPopped, Linking
<1> QED
  BY <1>1, <1>2, <1>3, <1>4, SilentStep DEF KeepsList, Popping, Linking

\* The second read of this->back
LEMMA EnqDerefInv ==
  ASSUME IInv, NEW w \in Workers, EnqDeref(w)
  PROVE  IInv' /\ KeepsList
<1> USE DEF list, Pointers
<1>1. /\ pc[w] = "deref" /\ pc'[w] = "link" /\ \A u \in Workers : u # w => pc'[u] = pc[u]
      /\ UNCHANGED <<list, heap, allocated, semQueue, id, node>>
  BY GotoFacts DEF EnqDeref, IInv
<1>2. Types'
  BY <1>1, SegmentAssumption DEF IInv, Types, EnqDeref, Goto, Addr
<1>3. Mutex'
  <2>1. \A u \in Workers : Guarded(u)' <=> Guarded(u)
    BY <1>1 DEF Guarded
  <2> QED
    BY <1>1, <2>1 DEF IInv, Mutex
<1>4. /\ Reachable' = Reachable => Locals(w)'
      /\ \A u \in Workers : u # w => node'[u] = node[u] /\ tmp'[u] = tmp[u]
  BY <1>1 DEF EnqDeref, IInv, Types, Locals, HasPopped, Linking
<1> QED
  BY <1>1, <1>2, <1>3, <1>4, SilentStep DEF KeepsList, Popping, Linking

\* this->back = node
LEMMA EnqBackInv ==
  ASSUME IInv, NEW w \in Workers, EnqBack(w)
  PROVE  IInv' /\ KeepsList
<1> USE DEF list, Pointers
<1>1. /\ pc[w] = "back" /\ pc'[w] = "loadN" /\ \A u \in Workers : u # w => pc'[u] = pc[u]
      /\ UNCHANGED <<front, N, heap, allocated, semQueue, id, tmp>>
  BY GotoFacts DEF EnqBack, IInv
<1>2. Types'
  BY <1>1 DEF IInv, Types, EnqBack, Goto
<1>3. Mutex'
  <2>1. \A u \in Workers : Guarded(u)' <=> Guarded(u)
    BY <1>1 DEF Guarded
  <2> QED
    BY <1>1, <2>1 DEF IInv, Mutex
<1>4. /\ Reachable' = Reachable => Locals(w)'
      /\ \A u \in Workers : u # w => node'[u] = node[u] /\ tmp'[u] = tmp[u]
  BY <1>1 DEF EnqBack, IInv, Types, Locals, HasPopped, Linking
<1> QED
  BY <1>1, <1>2, <1>3, <1>4, SilentStep DEF KeepsList, Popping, Linking

\* this->N++, the read
LEMMA EnqLoadInv ==
  ASSUME IInv, NEW w \in Workers, EnqLoad(w)
  PROVE  IInv' /\ KeepsList
<1> USE DEF list, Pointers
<1>1. /\ pc[w] = "loadN" /\ pc'[w] = "storeN" /\ \A u \in Workers : u # w => pc'[u] = pc[u]
      /\ UNCHANGED <<list, heap, allocated, semQueue, id, node>>
  BY GotoFacts DEF EnqLoad, IInv
<1>2. Types'
  BY <1>1 DEF IInv, Types, EnqLoad, Goto
<1>3. Mutex'
  <2>1. \A u \in Workers : Guarded(u)' <=> Guarded(u)
    BY <1>1 DEF Guarded
  <2> QED
    BY <1>1, <2>1 DEF IInv, Mutex
<1>4. /\ Reachable' = Reachable => Locals(w)'
      /\ \A u \in Workers : u # w => node'[u] = node[u] /\ tmp'[u] = tmp[u]
  BY <1>1 DEF EnqLoad, IInv, Types, Locals, HasPopped, Linking
<1> QED
  BY <1>1, <1>2, <1>3, <1>4, SilentStep DEF KeepsList, Popping, Linking

\* this->N++, the write
LEMMA EnqStoreInv ==
  ASSUME IInv, NEW w \in Workers, EnqStore(w)
  PROVE  IInv' /\ KeepsList
<1> USE DEF list, Pointers
<1>1. /\ pc[w] = "storeN" /\ pc'[w] = "lock" /\ \A u \in Workers : u # w => pc'[u] = pc[u]
      /\ UNCHANGED <<front, back, heap, allocated, semQueue, id, node>>
  BY GotoFacts DEF EnqStore, IInv
<1>2. Types'
  BY <1>1 DEF IInv, Types, EnqStore, Goto
<1>3. Mutex'
  <2>1. \A u \in Workers : Guarded(u)' <=> Guarded(u)
    BY <1>1 DEF Guarded
  <2> QED
    BY <1>1, <2>1 DEF IInv, Mutex
<1>4. /\ Reachable' = Reachable => Locals(w)'
      /\ \A u \in Workers : u # w => node'[u] = node[u] /\ tmp'[u] = tmp[u]
  BY <1>1 DEF EnqStore, IInv, Types, Locals, HasPopped, Linking
<1> QED
  BY <1>1, <1>2, <1>3, <1>4, SilentStep DEF KeepsList, Popping, Linking

\* this->front = this->front->next: the read of this->front
LEMMA PopNextInv ==
  ASSUME IInv, NEW w \in Workers, PopNext(w)
  PROVE  IInv' /\ KeepsList
<1> USE DEF list, Pointers
<1>1. /\ pc[w] = "next" /\ pc'[w] = "through" /\ \A u \in Workers : u # w => pc'[u] = pc[u]
      /\ tmp'[w] = front /\ \A u \in Workers : u # w => tmp'[u] = tmp[u]
      /\ UNCHANGED <<list, heap, allocated, semQueue, id, node>>
  BY GotoFacts DEF PopNext, IInv, Types
<1>2. Types'
  BY <1>1, SegmentAssumption DEF IInv, Types, PopNext, Goto, Addr
<1>3. Mutex'
  <2>1. \A u \in Workers : Guarded(u)' <=> Guarded(u)
    BY <1>1 DEF Guarded
  <2> QED
    BY <1>1, <2>1 DEF IInv, Mutex
<1>4. First' = First
  BY <1>1, <1>3, SameFirst DEF Popping, Upcoming, IInv
<1>5. Reachable' = Reachable => Locals(w)'
  BY <1>1 DEF IInv, Locals, HasPopped, Linking
<1>6. Reachable \subseteq allocated'
  BY <1>1 DEF IInv, Sound
<1> QED
  BY <1>1, <1>2, <1>3, <1>4, <1>5, <1>6, QuietStep DEF KeepsList, Linking

\* ... the read of next
LEMMA PopThroughInv ==
  ASSUME IInv, NEW w \in Workers, PopThrough(w)
  PROVE  IInv' /\ KeepsList
<1> USE DEF list, Pointers
<1>1. /\ pc[w] = "through" /\ pc'[w] = "advance" /\ \A u \in Workers : u # w => pc'[u] = pc[u]
      /\ tmp'[w] = heap[tmp[w]].next /\ \A u \in Workers : u # w => tmp'[u] = tmp[u]
      /\ UNCHANGED <<list, heap, allocated, semQueue, id, node>>
  BY GotoFacts DEF PopThrough, IInv, Types
<1>2. heap[tmp[w]].next \in Pointers
  <2>1. tmp[w] \in Addr
    BY <1>1 DEF IInv, Locals, Types
  <2> QED
    BY <2>1 DEF IInv, Types, Nodes
<1>3. Types'
  BY <1>1, <1>2, SegmentAssumption DEF IInv, Types, PopThrough, Goto, Addr
<1>4. Mutex'
  <2>1. \A u \in Workers : Guarded(u)' <=> Guarded(u)
    BY <1>1 DEF Guarded
  <2> QED
    BY <1>1, <2>1 DEF IInv, Mutex
<1>5. First' = First
  BY <1>1, <1>4, SameFirst DEF Popping, Upcoming, IInv
<1>6. Reachable' = Reachable => Locals(w)'
  BY <1>1, <1>2 DEF IInv, Locals, HasPopped, Linking
<1>7. Reachable \subseteq allocated'
  BY <1>1 DEF IInv, Sound
<1> QED
  BY <1>1, <1>3, <1>4, <1>5, <1>6, <1>7, QuietStep DEF KeepsList, Linking

\* ... the write of this->front, which may undo that of an enqueue
LEMMA PopAdvanceInv ==
  ASSUME IInv, NEW w \in Workers, PopAdvance(w)
  PROVE  IInv' /\ KeepsList
<1> USE DEF list, Pointers
<1>1. /\ pc[w] = "advance" /\ pc'[w] = "test" /\ \A u \in Workers : u # w => pc'[u] = pc[u]
      /\ front' = tmp[w]
      /\ UNCHANGED <<back, N, heap, allocated, semQueue, id, node, tmp>>
  BY GotoFacts DEF PopAdvance, IInv, Types
<1>2. Types'
  BY <1>1 DEF IInv, Types, PopAdvance, Goto, Locals
<1>3. Mutex'
  <2>1. \A u \in Workers : Guarded(u)' <=> Guarded(u)
    BY <1>1 DEF Guarded
  <2> QED
    BY <1>1, <2>1 DEF IInv, Mutex
<1>4. First' = First
  <2>1. FirstFact /\ FirstFact'
    BY <1>3, FirstIs, FirstIsNext DEF IInv
  <2>2. First = tmp[w]
    BY <1>1, <2>1 DEF FirstFact, Popping, Upcoming
  <2>3. \A u \in Workers : Guarded(u) => u = w
    BY <1>1 DEF IInv, Mutex, Guarded
  <2>4. \A u \in Workers : ~Popping(u)'
    BY <1>1, <2>3 DEF Guarded, Popping
  <2> QED
    BY <1>1, <2>1, <2>2, <2>4 DEF FirstFact
<1>5. Reachable' = Reachable => Locals(w)'
  BY <1>1 DEF IInv, Locals, HasPopped, Linking
<1>6. Reachable \subseteq allocated' /\ Guarded(w)
  BY <1>1 DEF IInv, Sound, Guarded
<1> QED
  BY <1>1, <1>2, <1>3, <1>4, <1>5, <1>6, QuietStep DEF KeepsList, Linking

\* free(node): the node is on no list any more
LEMMA PopFreeInv ==
  ASSUME IInv, NEW w \in Workers, PopFree(w)
  PROVE  IInv' /\ KeepsList
<1> USE DEF list, Pointers
<1>1. /\ pc[w] = "free" /\ pc'[w] = "load" /\ \A u \in Workers : u # w => pc'[u] = pc[u]
      /\ allocated' = allocated \ {node[w]} /\ \A u \in Workers : u # w => node'[u] = node[u]
      /\ UNCHANGED <<list, heap, semQueue, id, tmp>>
  BY GotoFacts DEF PopFree, IInv, Types
<1>2. Types'
  BY <1>1 DEF IInv, Types, PopFree, Goto
<1>3. Mutex'
  <2>1. \A u \in Workers : Guarded(u)' <=> Guarded(u)
    BY <1>1 DEF Guarded
  <2> QED
    BY <1>1, <2>1 DEF IInv, Mutex
<1>4. First' = First
  BY <1>1, <1>3, SameFirst DEF Popping, Upcoming, IInv
<1>5. Locals(w)'
  BY <1>1 DEF IInv, Locals, HasPopped, Linking
<1>6. Reachable \subseteq allocated' /\ Guarded(w)
  <2>1. node[w] \notin Reachable /\ Reachable \subseteq allocated
    BY <1>1 DEF IInv, Locals, HasPopped, Sound
  <2> QED
    BY <1>1, <2>1 DEF Guarded
<1> QED
  BY <1>1, <1>2, <1>3, <1>4, <1>5, <1>6, QuietStep DEF KeepsList, Linking

\* node = this->front, ans = node->item: the node leaves the list.
LEMMA PopFrontInv ==
  ASSUME IInv, NEW w \in Workers, PopFront(w)
  PROVE  /\ IInv'
         /\ front \in Reachable /\ id[w] = NULL /\ First = front /\ First' = heap[front].next
         /\ id' = [id EXCEPT ![w] = heap[front].item]
         /\ heap' = heap /\ Reachable' = Reachable \ {front}
<1> USE DEF list, Pointers
<1>1. /\ pc[w] = "pop" /\ pc'[w] = "next" /\ \A u \in Workers : u # w => pc'[u] = pc[u]
      /\ front # NULL
      /\ node'[w] = front /\ \A u \in Workers : u # w => node'[u] = node[u]
      /\ id' = [id EXCEPT ![w] = heap[front].item]
      /\ id'[w] = heap[front].item /\ \A u \in Workers : u # w => id'[u] = id[u]
      /\ UNCHANGED <<list, heap, allocated, semQueue, tmp>>
  BY GotoFacts DEF PopFront, IInv, Types
<1>2. Mutex'
  <2>1. \A u \in Workers : Guarded(u)' <=> Guarded(u)
    BY <1>1 DEF Guarded
  <2> QED
    BY <1>1, <2>1 DEF IInv, Mutex
<1>3. First = front /\ First' = heap[front].next
  <2>1. FirstFact /\ FirstFact'
    BY <1>2, FirstIs, FirstIsNext DEF IInv
  <2>2. \A u \in Workers : Guarded(u) => u = w
    BY <1>1 DEF IInv, Mutex, Guarded
  <2>3. \A u \in Workers : ~Popping(u)
    BY <1>1, <2>2 DEF Guarded, Popping
  <2> QED
    BY <1>1, <2>1, <2>3 DEF FirstFact, Popping, Upcoming
<1>4. /\ Reachable \subseteq Addr /\ Roots \subseteq Reachable
      /\ \A a \in Reachable : heap[a].next \in Reachable \union {NULL}
  BY ReachableClosed
<1>5. front \in Roots /\ front \in Reachable
  BY <1>1, <1>3, <1>4 DEF Roots
<1>6. \A u \in Workers : (Linking(u)' <=> Linking(u)) /\ (Linking(u) => u # w /\ node'[u] = node[u])
  BY <1>1 DEF Linking
<1>7. \A u \in Workers : Linking(u) => node[u] \in Roots /\ node[u] # front
  <2>1. \A u \in Workers : Linking(u) => node[u] # NULL
    BY SegmentAssumption DEF IInv, Locals, Addr
  <2> QED
    BY <1>3, <2>1 DEF Roots, IInv, Sound
<1>8. Roots' = ((Roots \ {front}) \union {heap[front].next}) \ {NULL}
  BY <1>3, <1>6, <1>7 DEF Roots
<1>9. \A a \in Reachable : heap[a].next \notin Roots
  BY DEF IInv, Sound
<1>10. Reachable' = Reachable \ {front}
  <2>1. Reachable' \subseteq Reachable \ {front}
    <3>1. Roots' \subseteq Reachable \ {front}
      BY <1>4, <1>5, <1>8, <1>9
    <3>2. \A a \in Reachable \ {front} : heap'[a].next \in (Reachable \ {front}) \union {NULL}
      BY <1>1, <1>4, <1>5, <1>9
    <3> QED
      BY <1>4, <3>1, <3>2, LeastNext
  <2>2. ASSUME NEW S \in SUBSET Addr, Closed(S)' PROVE Reachable \ {front} \subseteq S
    <3>1. Roots' \subseteq S /\ \A a \in S : heap[a].next \in S \union {NULL}
      BY <1>1, <2>2 DEF Closed
    <3>2. Closed(S \union {front})
      <4>1. Roots \subseteq S \union {front}
        BY <1>8, <3>1 DEF Roots
      <4>2. heap[front].next \in S \union {NULL}
        BY <1>8, <3>1
      <4> QED
        BY <3>1, <4>1, <4>2 DEF Closed
    <3>3. S \union {front} \in SUBSET Addr
      BY <1>4, <1>5
    <3> QED
      BY <3>2, <3>3, Least
  <2> QED
    BY <1>4, <2>1, <2>2 DEF Reachable
<1>11. heap[front].item \in Segments /\ id[w] = NULL
  BY <1>1, <1>5 DEF IInv, Sound, Locals
<1>12. Types'
  BY <1>1, <1>11 DEF IInv, Types, PopFront, Goto
<1>13. front \in allocated' \ Reachable'
  BY <1>1, <1>5, <1>10 DEF IInv, Sound
<1>14. ASSUME NEW u \in Workers PROVE Locals(u)'
  <2>1. CASE u = w
    BY <1>1, <1>11, <1>13, <2>1, SegmentAssumption DEF Locals, HasPopped, Linking, Segments
  <2>2. CASE u # w
    BY <1>1, <1>10, <1>13, <2>2, OtherLocals
  <2> QED
    BY <2>1, <2>2
<1>15. \A a \in Reachable \ {front} : heap[a].item # heap[front].item
  BY <1>5 DEF IInv, Sound
<1>16. \A u \in Workers : heap[front].item # id[u]
  BY <1>5, <1>7 DEF IInv, Sound
<1>17. HeldOnce'
  BY <1>1, <1>16 DEF IInv, HeldOnce
<1>18. \A a \in Reachable \ {front} : heap[a].next \notin Roots'
  <2>1. \A a \in Reachable \ {front} : heap[a].next = heap[front].next => heap[front].next = NULL
    BY <1>5 DEF IInv, Sound
  <2> QED
    BY <1>8, <1>9, <2>1
<1>19. \A u \in Workers : Linking(u)' => node'[u] # First'
  BY <1>3, <1>5, <1>6, <1>7, <1>9
<1>20. Sound(Reachable)'
  <2>1. /\ Reachable' \subseteq allocated'
        /\ \A a, b \in Reachable' : heap'[a].next = heap'[b].next /\ heap'[a].next # NULL => a = b
        /\ \A a \in Reachable' : heap'[a].next \notin Roots'
        /\ \A a, b \in Reachable' : heap'[a].item = heap'[b].item => a = b
        /\ \A a \in Reachable' : heap'[a].item \in Segments
    BY <1>1, <1>10, <1>18 DEF IInv, Sound
  <2>2. \A u, v \in Workers : Linking(u)' /\ Linking(v)' /\ node'[u] = node'[v] => u = v
    BY <1>6 DEF IInv, Sound
  <2>3. \A a \in Reachable' : \A u \in Workers : heap'[a].item = id'[u] => Linking(u)' /\ node'[u] = a
    BY <1>1, <1>6, <1>10, <1>15 DEF IInv, Sound
  <2> QED
    BY <1>19, <2>1, <2>2, <2>3 DEF Sound
<1> QED
  BY <1>1, <1>2, <1>3, <1>5, <1>10, <1>11, <1>12, <1>14, <1>17, <1>20 DEF IInv

\* malloc and the initialisation of the node
LEMMA EnqMallocInv ==
  ASSUME IInv, NEW w \in Workers, EnqMalloc(w)
  PROVE  /\ IInv'
         /\ id' = id /\ id[w] # NULL /\ First' = First
         /\ \E a \in Addr \ allocated :
              /\ node'[w] = a /\ Reachable' = Reachable \union {a}
              /\ heap' = [heap EXCEPT ![a] = [item |-> id[w], next |-> NULL]]
<1> USE DEF list, Pointers
<1>1. PICK a \in Addr \ allocated :
        /\ node' = [node EXCEPT ![w] = a]
        /\ allocated' = allocated \union {a}
        /\ heap' = [heap EXCEPT ![a] = [item |-> id[w], next |-> NULL]]
  BY DEF EnqMalloc
<1>2. /\ pc[w] = "malloc" /\ pc'[w] = "empty" /\ \A u \in Workers : u # w => pc'[u] = pc[u]
      /\ node'[w] = a /\ \A u \in Workers : u # w => node'[u] = node[u]
      /\ UNCHANGED <<list, id, tmp, semQueue>>
  BY <1>1, GotoFacts DEF EnqMalloc, IInv, Types
<1>3. /\ heap'[a] = [item |-> id[w], next |-> NULL] /\ heap'[a].item = id[w] /\ heap'[a].next = NULL
      /\ \A b \in Addr : b # a => heap'[b] = heap[b]
  BY <1>1 DEF IInv, Types
<1>4. Types'
  <2>1. [item |-> id[w], next |-> NULL] \in Nodes
    BY DEF IInv, Types, Nodes
  <2>2. heap' \in [Addr -> Nodes]
    BY <1>1, <2>1 DEF IInv, Types
  <2>3. allocated' \subseteq Addr /\ node' \in [Workers -> Pointers]
    BY <1>1 DEF IInv, Types
  <2> QED
    BY <1>2, <2>2, <2>3 DEF IInv, Types, EnqMalloc, Goto
<1>5. Mutex'
  <2>1. \A u \in Workers : Guarded(u)' <=> Guarded(u)
    BY <1>2 DEF Guarded
  <2> QED
    BY <1>2, <2>1 DEF IInv, Mutex
<1>6. /\ Reachable \subseteq Addr /\ Roots \subseteq Reachable
      /\ \A b \in Reachable : heap[b].next \in Reachable \union {NULL}
      /\ Reachable \subseteq allocated
  BY ReachableClosed DEF IInv, Sound
<1>7. First' = First
  <2>1. \A u \in Workers : Popping(u)' <=> Popping(u)
    BY <1>2 DEF Popping
  <2>2. ASSUME NEW u \in Workers, Popping(u) PROVE Upcoming(u)' = Upcoming(u)
    <3>1. Locals(u) /\ pc'[u] = pc[u] /\ allocated \subseteq Addr
      BY <1>2, <2>2 DEF IInv, Types, Popping
    <3>2. pc[u] = "next" => front \in Addr /\ front # a
      BY <3>1 DEF Locals
    <3>3. pc[u] = "through" => tmp[u] \in Addr /\ tmp[u] # a
      BY <3>1 DEF Locals
    <3> QED
      BY <1>2, <1>3, <3>1, <3>2, <3>3 DEF Upcoming
  <2> QED
    BY <1>2, <1>5, <2>1, <2>2, SameFirst DEF IInv
<1>8. \A u \in Workers : /\ u # w => (Linking(u)' <=> Linking(u))
                         /\ Linking(u) => u # w /\ node'[u] = node[u] /\ node[u] \in Roots /\ node[u] # a
  <2>1. \A u \in Workers : Linking(u) => node[u] # NULL
    BY SegmentAssumption DEF IInv, Locals, Addr
  <2>2. \A u \in Workers : Linking(u) => node[u] \in Roots
    BY <2>1 DEF Roots
  <2> QED
    BY <1>1, <1>2, <1>6, <2>2 DEF Linking
<1>9. Linking(w)' /\ a # NULL
  BY <1>2, SegmentAssumption DEF Linking, Addr
<1>10. Roots' = Roots \union {a}
  BY <1>2, <1>7, <1>8, <1>9 DEF Roots
<1>11. Reachable' = Reachable \union {a}
  <2>1. Reachable' \subseteq Reachable \union {a}
    <3>1. Roots' \subseteq Reachable \union {a}
      BY <1>6, <1>10
    <3>2. \A b \in Reachable \union {a} : heap'[b].next \in (Reachable \union {a}) \union {NULL}
      BY <1>3, <1>6
    <3>3. Reachable \union {a} \subseteq Addr
      BY <1>6
    <3> QED
      BY <3>1, <3>2, <3>3, LeastNext
  <2>2. ASSUME NEW S \in SUBSET Addr, Closed(S)' PROVE Reachable \union {a} \subseteq S
    <3>1. Roots' \subseteq S /\ \A b \in S : heap'[b].next \in S \union {NULL}
      BY <2>2 DEF Closed
    <3>2. Closed(S \intersect Reachable)
      <4>1. \A b \in Reachable : heap'[b] = heap[b]
        BY <1>1, <1>3, <1>6
      <4>2. \A b \in S \intersect Reachable : heap[b].next \in (S \intersect Reachable) \union {NULL}
        BY <1>6, <3>1, <4>1
      <4>3. Roots \subseteq S \intersect Reachable
        BY <1>6, <1>10, <3>1
      <4> QED
        BY <4>2, <4>3 DEF Closed
    <3>3. S \intersect Reachable \in SUBSET Addr
      BY <1>6
    <3>4. Reachable \subseteq S
      BY <3>2, <3>3, Least
    <3> QED
      BY <1>10, <3>1, <3>4
  <2> QED
    BY <1>1, <1>6, <2>1, <2>2 DEF Reachable
<1>12. id[w] # NULL /\ id[w] \in Segments
  <2>1. id[w] # NULL
    BY <1>2 DEF IInv, Locals
  <2> QED
    BY <2>1 DEF IInv, Types
<1>13. ASSUME NEW u \in Workers PROVE Locals(u)'
  <2>1. CASE u = w
    <3>1. heap'[node'[w]].item = id'[w] /\ node'[w] \in Addr
      BY <1>2, <1>3
    <3> QED
      BY <1>2, <1>12, <2>1, <3>1 DEF Locals, HasPopped, Linking
  <2>2. CASE u # w
    <3>1. Linking(u) => heap'[node[u]].item = heap[node[u]].item
      BY <1>3, <1>6, <1>8
    <3>2. allocated \subseteq allocated' /\ Reachable' \intersect allocated \subseteq Reachable
      BY <1>1, <1>11
    <3>3. pc[u] = "next" => front' \in allocated' \ Reachable'
      BY <1>1, <1>2, <1>11 DEF IInv, Locals
    <3> QED
      BY <1>2, <2>2, <3>1, <3>2, <3>3, OtherLocals
  <2> QED
    BY <2>1, <2>2
<1>14. HeldOnce'
  BY <1>2 DEF IInv, HeldOnce
<1>15. \A b \in Reachable : b \in Addr /\ b # a /\ heap'[b] = heap[b]
  BY <1>1, <1>3, <1>6
<1>16. Sound(Reachable)'
  <2>1. /\ Reachable' \subseteq allocated'
        /\ \A b \in Reachable' : heap'[b].item \in Segments
    BY <1>1, <1>3, <1>6, <1>11, <1>12, <1>15 DEF IInv, Sound
  <2>2. \A b, c \in Reachable' : heap'[b].next = heap'[c].next /\ heap'[b].next # NULL => b = c
    BY <1>3, <1>11, <1>15 DEF IInv, Sound
  <2>3. \A b \in Reachable' : heap'[b].next \notin Roots'
    <3>1. NULL \notin Roots'
      BY DEF Roots
    <3>2. \A b \in Reachable : heap[b].next # a
      BY <1>1, <1>6, <1>9
    <3> QED
      BY <1>3, <1>10, <1>11, <1>15, <3>1, <3>2 DEF IInv, Sound
  <2>4. \A u \in Workers : Linking(u)' => node'[u] # First'
    <3>1. First # a
      <4>1. First = NULL \/ First \in Roots
        BY DEF Roots
      <4> QED
        BY <1>1, <1>6, <1>9, <4>1
    <3> QED
      BY <1>2, <1>7, <1>8, <3>1 DEF IInv, Sound
  <2>5. \A u, v \in Workers : Linking(u)' /\ Linking(v)' /\ node'[u] = node'[v] => u = v
    BY <1>2, <1>8 DEF IInv, Sound
  <2>6. \A b \in Reachable : heap[b].item # id[w]
    BY <1>8 DEF IInv, Sound
  <2>7. \A b, c \in Reachable' : heap'[b].item = heap'[c].item => b = c
    BY <1>3, <1>11, <1>15, <2>6 DEF IInv, Sound
  <2>8. \A b \in Reachable' : \A u \in Workers : heap'[b].item = id'[u] => Linking(u)' /\ node'[u] = b
    <3>1. \A u \in Workers : id[u] = id[w] => u = w
      BY <1>12 DEF IInv, HeldOnce
    <3> QED
      BY <1>2, <1>3, <1>8, <1>9, <1>11, <1>15, <2>6, <3>1 DEF IInv, Sound
  <2> QED
    BY <2>1, <2>2, <2>3, <2>4, <2>5, <2>7, <2>8 DEF Sound
<1> QED
  BY <1>1, <1>2, <1>4, <1>5, <1>7, <1>11, <1>12, <1>13, <1>14, <1>16 DEF IInv

\* this->front = node.  A pop under way overwrites it, or has it for its next node.
LEMMA EnqFirstInv ==
  ASSUME IInv, NEW w \in Workers, EnqFirst(w)
  PROVE  /\ IInv'
         /\ id[w] # NULL /\ heap[node[w]].item = id[w] /\ heap' = heap
         /\ id' = [id EXCEPT ![w] = NULL] /\ Reachable' \subseteq Reachable
<1> USE DEF list, Pointers
<1> DEFINE n == node[w]
<1>1. /\ pc[w] = "first" /\ pc'[w] = "back" /\ \A u \in Workers : u # w => pc'[u] = pc[u]
      /\ front' = n /\ id' = [id EXCEPT ![w] = NULL]
      /\ id'[w] = NULL /\ \A u \in Workers : u # w => id'[u] = id[u]
      /\ UNCHANGED <<back, N, heap, allocated, semQueue, node, tmp>>
  BY GotoFacts DEF EnqFirst, IInv, Types
<1>2. Mutex'
  <2>1. \A u \in Workers : Guarded(u)' <=> Guarded(u)
    BY <1>1 DEF Guarded
  <2> QED
    BY <1>1, <2>1 DEF IInv, Mutex
<1>3. /\ Reachable \subseteq Addr /\ Roots \subseteq Reachable /\ NULL \notin Roots
      /\ \A a \in Reachable : heap[a].next \in Reachable \union {NULL}
      /\ \A a \in Reachable : heap[a].next \notin Roots
      /\ First \in Roots \union {NULL}
  BY ReachableClosed DEF IInv, Sound, Roots
<1>4. /\ Linking(w) /\ ~Linking(w)' /\ \A u \in Workers : u # w => (Linking(u)' <=> Linking(u))
      /\ \A u \in Workers : Linking(u) => node[u] \in Roots /\ node[u] # First
  <2>1. \A u \in Workers : Linking(u) => node[u] # NULL
    BY SegmentAssumption DEF IInv, Locals, Addr
  <2> QED
    BY <1>1, <2>1 DEF IInv, Sound, Linking, Roots
<1>5. n \in Roots /\ n \in Reachable /\ n \in Addr /\ n \in allocated /\ id[w] # NULL /\ heap[n].item = id[w]
  BY <1>1, <1>3, <1>4 DEF IInv, Locals, Sound
<1>6. /\ (\A u \in Workers : ~Popping(u)) => First' = n
      /\ \A u \in Workers : pc[u] = "next" => First' = heap[n].next
      /\ \A u \in Workers : pc[u] \in {"through", "advance"} => First' = First
  <2>1. FirstFact /\ FirstFact'
    BY <1>2, FirstIs, FirstIsNext DEF IInv
  <2>2. \A u \in Workers : Popping(u)' <=> Popping(u)
    BY <1>1 DEF Popping
  <2>3. \A u \in Workers : u # w => pc'[u] = pc[u]
    BY <1>1
  <2>4. (\A u \in Workers : ~Popping(u)) => First' = n
    BY <1>1, <2>1, <2>2 DEF FirstFact
  <2>5. ASSUME NEW u \in Workers, pc[u] = "next" PROVE First' = heap[n].next
    BY <1>1, <2>1, <2>5 DEF FirstFact, Popping, Upcoming
  <2>6. ASSUME NEW u \in Workers, pc[u] \in {"through", "advance"} PROVE First' = First
    BY <1>1, <2>1, <2>6 DEF FirstFact, Popping, Upcoming
  <2> QED
    BY <2>4, <2>5, <2>6
<1>7. Roots' \subseteq ((Roots \ {n}) \union {First'}) \ {NULL}
  <2>1. \A u, v \in Workers : Linking(u) /\ Linking(v) /\ node[u] = node[v] => u = v
    BY DEF IInv, Sound
  <2>2. \A u \in Workers : Linking(u)' => node'[u] \in Roots \ {n}
    BY <1>1, <1>4, <2>1
  <2> QED
    BY <2>2 DEF Roots
<1>8. \E S \in SUBSET Reachable :
        /\ Roots' \subseteq S
        /\ \A a \in S : heap[a].next \in S \union {NULL}
        /\ \A a \in S : heap[a].next \notin Roots'
        /\ First' \notin Roots \ {n, First}
        /\ (\E u \in Workers : pc[u] = "next") => n \notin S
  <2>1. CASE \A u \in Workers : ~Popping(u)
    <3>1. Roots' \subseteq Reachable
      BY <1>3, <1>5, <1>6, <1>7, <2>1
    <3>2. \A a \in Reachable : heap[a].next \notin Roots'
      BY <1>3, <1>5, <1>6, <1>7, <2>1
    <3> QED
      BY <1>3, <1>6, <2>1, <3>1, <3>2 DEF Popping
  <2>2. CASE \E u \in Workers : pc[u] = "next"
    <3>1. First' = heap[n].next
      BY <1>6, <2>2
    <3>2. Roots' \subseteq Reachable \ {n}
      BY <1>3, <1>5, <1>7, <3>1
    <3>3. \A a \in Reachable \ {n} : heap[a].next \in (Reachable \ {n}) \union {NULL}
      BY <1>3, <1>5
    <3>4. \A a \in Reachable \ {n} : heap[a].next = heap[n].next => heap[n].next = NULL
      BY <1>5 DEF IInv, Sound
    <3>5. \A a \in Reachable \ {n} : heap[a].next \notin Roots'
      BY <1>3, <1>7, <3>1, <3>4
    <3>6. First' \notin Roots \ {n, First}
      BY <1>3, <1>5, <3>1
    <3> QED
      BY <3>2, <3>3, <3>5, <3>6
  <2>3. CASE \E u \in Workers : pc[u] \in {"through", "advance"}
    <3>1. First' = First
      BY <1>6, <2>3
    <3>2. \A u \in Workers : pc[u] # "next"
      BY <2>3 DEF IInv, Mutex, Guarded
    <3>3. Roots' \subseteq Reachable
      BY <1>3, <1>7, <3>1
    <3>4. \A a \in Reachable : heap[a].next \notin Roots'
      BY <1>3, <1>7, <3>1
    <3> QED
      BY <1>3, <3>1, <3>2, <3>3, <3>4
  <2> QED
    BY <2>1, <2>2, <2>3 DEF Popping
<1>9. PICK S \in SUBSET Reachable :
        /\ Roots' \subseteq S
        /\ \A a \in S : heap[a].next \in S \union {NULL}
        /\ \A a \in S : heap[a].next \notin Roots'
        /\ First' \notin Roots \ {n, First}
        /\ (\E u \in Workers : pc[u] = "next") => n \notin S
  BY <1>8
<1>10. Reachable' \subseteq S /\ S \subseteq Reachable
  <2>1. S \subseteq Addr /\ \A a \in S : heap'[a].next \in S \union {NULL}
    BY <1>1, <1>3, <1>9
  <2> QED
    BY <1>9, <2>1, LeastNext
<1>11. Types'
  BY <1>1, <1>5 DEF IInv, Types, EnqFirst, Goto
<1>12. ASSUME NEW u \in Workers PROVE Locals(u)'
  <2>1. CASE u = w
    BY <1>1, <1>5, <2>1 DEF Locals, HasPopped, Linking
  <2>2. CASE u # w
    <3>1. pc[u] = "next" => front' \in allocated' \ Reachable'
      BY <1>1, <1>5, <1>9, <1>10
    <3> QED
      BY <1>1, <1>10, <2>2, <3>1, OtherLocals
  <2> QED
    BY <2>1, <2>2
<1>13. HeldOnce'
  BY <1>1 DEF IInv, HeldOnce
<1>14. Sound(Reachable)'
  <2>1. /\ Reachable' \subseteq allocated'
        /\ \A a, b \in Reachable' : heap'[a].next = heap'[b].next /\ heap'[a].next # NULL => a = b
        /\ \A a, b \in Reachable' : heap'[a].item = heap'[b].item => a = b
        /\ \A a \in Reachable' : heap'[a].item \in Segments
    BY <1>1, <1>10 DEF IInv, Sound
  <2>2. \A a \in Reachable' : heap'[a].next \notin Roots'
    BY <1>1, <1>9, <1>10
  <2>3. \A u, v \in Workers : Linking(u)' /\ Linking(v)' /\ node'[u] = node'[v] => u = v
    BY <1>1, <1>4 DEF IInv, Sound
  <2>4. \A u \in Workers : Linking(u)' => node'[u] # First'
    <3>1. \A u \in Workers : Linking(u)' => node[u] \in Roots /\ node[u] # n /\ node[u] # First
      BY <1>4 DEF IInv, Sound
    <3> QED
      BY <1>1, <1>9, <3>1
  <2>5. \A a \in Reachable' : \A u \in Workers : heap'[a].item = id'[u] => Linking(u)' /\ node'[u] = a
    <3>1. \A a \in Reachable' : heap'[a].item # NULL
      BY <2>1, SegmentAssumption DEF Segments
    <3> QED
      BY <1>1, <1>4, <1>10, <3>1 DEF IInv, Sound
  <2> QED
    BY <2>1, <2>2, <2>3, <2>4, <2>5 DEF Sound
<1> QED
  BY <1>1, <1>2, <1>5, <1>10, <1>11, <1>12, <1>13, <1>14 DEF IInv

\* this->back->next = node, through a pointer that may be stale
LEMMA EnqLinkInv ==
  ASSUME IInv, NEW w \in Workers, EnqLink(w)
  PROVE  /\ IInv'
         /\ id[w] # NULL /\ heap[node[w]].item = id[w]
         /\ \A a \in Addr : heap'[a].item = heap[a].item
         /\ id' = [id EXCEPT ![w] = NULL] /\ Reachable' \subseteq Reachable
<1> USE DEF list, Pointers
<1> DEFINE n == node[w]
           t == tmp[w]
<1>1. /\ pc[w] = "link" /\ pc'[w] = "back" /\ \A u \in Workers : u # w => pc'[u] = pc[u]
      /\ heap' = [heap EXCEPT ![t].next = n] /\ id' = [id EXCEPT ![w] = NULL]
      /\ id'[w] = NULL /\ \A u \in Workers : u # w => id'[u] = id[u]
      /\ tmp'[w] = NULL /\ \A u \in Workers : u # w => tmp'[u] = tmp[u]
      /\ UNCHANGED <<front, back, N, allocated, semQueue, node>>
  BY GotoFacts DEF EnqLink, IInv, Types
<1>2. Mutex'
  <2>1. \A u \in Workers : Guarded(u)' <=> Guarded(u)
    BY <1>1 DEF Guarded
  <2> QED
    BY <1>1, <2>1 DEF IInv, Mutex
<1>3. /\ Reachable \subseteq Addr /\ Roots \subseteq Reachable /\ NULL \notin Roots
      /\ \A a \in Reachable : heap[a].next \in Reachable \union {NULL}
      /\ \A a \in Reachable : heap[a].next \notin Roots
      /\ First \in Roots \union {NULL}
  BY ReachableClosed DEF IInv, Sound, Roots
<1>4. /\ Linking(w) /\ ~Linking(w)' /\ \A u \in Workers : u # w => (Linking(u)' <=> Linking(u))
      /\ \A u \in Workers : Linking(u) => node[u] \in Roots /\ node[u] # First
  <2>1. \A u \in Workers : Linking(u) => node[u] # NULL
    BY SegmentAssumption DEF IInv, Locals, Addr
  <2> QED
    BY <1>1, <2>1 DEF IInv, Sound, Linking, Roots
<1>5. n \in Roots /\ n \in Reachable /\ n \in Addr /\ t \in Addr /\ id[w] # NULL /\ heap[n].item = id[w]
  BY <1>1, <1>3, <1>4 DEF IInv, Locals, Sound
<1>6. /\ heap' \in [Addr -> Nodes]
      /\ \A a \in Addr : heap'[a].item = heap[a].item /\ heap'[a].next = IF a = t THEN n ELSE heap[a].next
  <2>1. heap[t] \in Nodes /\ heap \in [Addr -> Nodes]
    BY <1>5 DEF IInv, Types
  <2>2. heap'[t] = [heap[t] EXCEPT !.next = n] /\ \A a \in Addr : a # t => heap'[a] = heap[a]
    BY <1>1, <1>5, <2>1
  <2>3. heap'[t] \in Nodes /\ heap'[t].item = heap[t].item /\ heap'[t].next = n
    BY <1>5, <2>1, <2>2 DEF Nodes
  <2> QED
    BY <1>1, <2>1, <2>2, <2>3
<1>7. First' = First \/ (First' = n /\ t \notin Reachable)
  <2>1. FirstFact /\ FirstFact'
    BY <1>2, FirstIs, FirstIsNext DEF IInv
  <2>2. \A u \in Workers : Popping(u)' <=> Popping(u)
    BY <1>1 DEF Popping
  <2>3. CASE \A u \in Workers : ~Popping(u)
    BY <1>1, <2>1, <2>2, <2>3 DEF FirstFact
  <2>4. CASE \E u \in Workers : Popping(u)
    <3>1. PICK u \in Workers : Popping(u)
      BY <2>4
    <3>2. First = Upcoming(u) /\ First' = Upcoming(u)' /\ Locals(u) /\ u # w
      BY <1>1, <2>1, <2>2, <3>1 DEF FirstFact, IInv, Popping
    <3>3. pc'[u] = pc[u] /\ tmp'[u] = tmp[u] /\ front' = front /\ allocated \subseteq Addr
      BY <1>1, <3>2 DEF IInv, Types
    <3>4. CASE pc[u] = "next"
      <4>1. front \in Addr /\ front \notin Reachable
        BY <3>2, <3>3, <3>4 DEF Locals
      <4> QED
        BY <1>6, <3>2, <3>3, <3>4, <4>1 DEF Upcoming
    <3>5. CASE pc[u] = "through"
      <4>1. tmp[u] \in Addr /\ tmp[u] \notin Reachable
        BY <3>2, <3>3, <3>5 DEF Locals
      <4> QED
        BY <1>6, <3>2, <3>3, <3>5, <4>1 DEF Upcoming
    <3>6. CASE pc[u] = "advance"
      BY <3>2, <3>3, <3>6 DEF Upcoming
    <3> QED
      BY <3>1, <3>4, <3>5, <3>6 DEF Popping
  <2> QED
    BY <2>3, <2>4
<1>8. \A u \in Workers : Linking(u)' => node'[u] = node[u] /\ node[u] \in Roots /\ node[u] # n /\ node[u] # First
  BY <1>1, <1>4 DEF IInv, Sound
<1>9. Roots' \subseteq ((Roots \ {n}) \union {First'}) \ {NULL}
  BY <1>8 DEF Roots
<1>10. Reachable' \subseteq Reachable
  <2>1. Roots' \subseteq Reachable
    BY <1>3, <1>5, <1>7, <1>9
  <2>2. \A a \in Reachable : heap'[a].next \in Reachable \union {NULL}
    BY <1>3, <1>5, <1>6
  <2> QED
    BY <1>3, <2>1, <2>2, LeastNext
<1>11. Types'
  BY <1>1, <1>6 DEF IInv, Types, EnqLink, Goto
<1>12. ASSUME NEW u \in Workers PROVE Locals(u)'
  <2>1. CASE u = w
    BY <1>1, <1>5, <2>1 DEF Locals, HasPopped, Linking
  <2>2. CASE u # w
    <3>1. pc[u] = "next" => front' \in allocated' \ Reachable'
      BY <1>1, <1>10 DEF IInv, Locals
    <3>2. Linking(u) => heap'[node[u]].item = heap[node[u]].item
      BY <1>3, <1>4, <1>6
    <3> QED
      BY <1>1, <1>10, <2>2, <3>1, <3>2, OtherLocals
  <2> QED
    BY <2>1, <2>2
<1>13. HeldOnce'
  BY <1>1 DEF IInv, HeldOnce
<1>14. Sound(Reachable)'
  <2>1. /\ Reachable' \subseteq allocated'
        /\ \A a, b \in Reachable' : heap'[a].item = heap'[b].item => a = b
        /\ \A a \in Reachable' : heap'[a].item \in Segments
    BY <1>1, <1>3, <1>6, <1>10 DEF IInv, Sound
  <2>2. \A a, b \in Reachable' : heap'[a].next = heap'[b].next /\ heap'[a].next # NULL => a = b
    <3>1. \A a, b \in Reachable : heap[a].next = heap[b].next /\ heap[a].next # NULL => a = b
      BY DEF IInv, Sound
    <3>2. \A a \in Reachable : heap[a].next # n
      BY <1>3, <1>5
    <3> QED
      BY <1>3, <1>6, <1>10, <3>1, <3>2
  <2>3. \A a \in Reachable' : heap'[a].next \notin Roots'
    BY <1>3, <1>4, <1>5, <1>6, <1>7, <1>9, <1>10
  <2>4. \A u, v \in Workers : Linking(u)' /\ Linking(v)' /\ node'[u] = node'[v] => u = v
    BY <1>1, <1>4 DEF IInv, Sound
  <2>5. \A u \in Workers : Linking(u)' => node'[u] # First'
    BY <1>7, <1>8
  <2>6. \A a \in Reachable' : \A u \in Workers : heap'[a].item = id'[u] => Linking(u)' /\ node'[u] = a
    <3>1. \A a \in Reachable' : heap'[a].item # NULL
      BY <2>1, SegmentAssumption DEF Segments
    <3> QED
      BY <1>1, <1>3, <1>4, <1>6, <1>10, <3>1 DEF IInv, Sound
  <2> QED
    BY <2>1, <2>2, <2>3, <2>4, <2>5, <2>6 DEF Sound
<1> QED
  BY <1>1, <1>2, <1>5, <1>6, <1>10, <1>11, <1>12, <1>13, <1>14 DEF IInv

\* A set of natural numbers that is not empty has a least element.
LEMMA LeastNat ==
  ASSUME NEW S, S \in SUBSET Nat, S # {}
  PROVE  \E x \in S : \A y \in S : x <= y
<1>1. PICK x \in S : \A y \in S : <<y, x>> \notin OpToRel(<, Nat)
  BY NatLessThanWellFounded, WFMin, Zenon
<1>2. \A y \in S : ~(y < x)
  BY <1>1 DEF OpToRel
<1> QED
  BY <1>2

\* main puts all segments on the list: node by node, every closed set has them.
LEMMA InitList ==
  ASSUME Init
  PROVE  /\ \A w \in Workers : ~Popping(w) /\ ~Linking(w)
         /\ First = 0 /\ Roots = {0} /\ Reachable = Segments
<1>0. Segments \subseteq Addr /\ 0 \in Segments /\ NULL \notin Segments
  BY SegmentAssumption DEF Segments, Addr
<1>1. \A w \in Workers : ~Popping(w) /\ ~Linking(w)
  BY DEF Init, Popping, Linking
<1>2. First = 0 /\ Roots = {0}
  <2>1. First = 0
    BY <1>1 DEF First, Init
  <2>2. {u \in Workers : Linking(u)} = {}
    BY <1>1
  <2> QED
    BY <1>0, <2>1, <2>2 DEF Roots
<1>3. \A a \in Segments : heap[a].next = IF a = NSegments - 1 THEN NULL ELSE a + 1
  BY <1>0 DEF Init
<1>4. Reachable \subseteq Segments
  <2>1. Closed(Segments)
    BY <1>0, <1>2, <1>3, SegmentAssumption DEF Closed, Segments
  <2> QED
    BY <1>0, <2>1, Least
<1>5. ASSUME NEW S \in SUBSET Addr, Closed(S) PROVE Segments \subseteq S
  <2> DEFINE M == Segments \ S
  <2> SUFFICES ASSUME M # {} PROVE FALSE
    OBVIOUS
  <2>0. M \in SUBSET Nat
    BY DEF Segments
  <2>1. PICK x \in M : \A y \in M : x <= y
    <3> HIDE DEF M
    <3> QED
      BY <2>0, LeastNat
  <2>2. x # 0 /\ x \in Segments /\ x \notin S
    BY <1>2, <1>5 DEF Closed
  <2>3. x - 1 \in Segments /\ x - 1 # NSegments - 1 /\ ~(x <= x - 1)
    BY <2>2, SegmentAssumption DEF Segments
  <2>4. x - 1 \in S
    BY <2>1, <2>3
  <2>5. heap[x - 1].next = x
    BY <1>3, <2>2, <2>3 DEF Segments
  <2> QED
    BY <1>0, <1>5, <2>2, <2>4, <2>5 DEF Closed
<1> QED
  BY <1>0, <1>1, <1>2, <1>4, <1>5 DEF Reachable

\* The invariant holds when main has filled the pool.
LEMMA InitInv == Init => IInv
<1> SUFFICES ASSUME Init PROVE IInv
  OBVIOUS
<1>1. /\ \A w \in Workers : ~Popping(w) /\ ~Linking(w)
      /\ First = 0 /\ Roots = {0} /\ Reachable = Segments
  BY InitList
<1>2. /\ Segments \subseteq Addr /\ NULL \notin Segments /\ NULL \notin Int
      /\ \A a \in Segments : heap[a].item = a
      /\ \A a \in Segments : heap[a].next = IF a = NSegments - 1 THEN NULL ELSE a + 1
  BY SegmentAssumption DEF Init, Segments, Addr
<1>3. Types
  <2>1. front \in Pointers /\ back \in Pointers /\ N \in Int
    BY SegmentAssumption DEF Init, Pointers, Addr
  <2>2. heap \in [Addr -> Nodes]
    <3>1. ASSUME NEW a \in Segments
          PROVE [item |-> a, next |-> IF a = NSegments - 1 THEN NULL ELSE a + 1] \in Nodes
      BY SegmentAssumption DEF Nodes, Pointers, Segments, Addr
    <3>2. [item |-> NULL, next |-> NULL] \in Nodes
      BY DEF Nodes, Pointers
    <3> QED
      BY <3>1, <3>2 DEF Init
  <2>3. /\ allocated \subseteq Addr /\ id \in [Workers -> Segments \union {NULL}]
        /\ node \in [Workers -> Pointers] /\ tmp \in [Workers -> Int \union {NULL}]
    BY <1>2 DEF Init, Pointers
  <2>4. pc = [w \in Workers |-> "lock"]
    BY DEF Init
  <2> QED
    BY <2>1, <2>2, <2>3, <2>4 DEF Types
<1>4. Mutex /\ HeldOnce
  BY DEF Init, Mutex, Guarded, HeldOnce
<1>5. \A w \in Workers : Locals(w)
  BY DEF Init, Locals, HasPopped, Linking
<1>6. Sound(Reachable)
  <2>1. \A a \in Segments : heap[a].next \notin Roots
    BY <1>1, <1>2, SegmentAssumption DEF Segments
  <2>2. \A a, b \in Segments : heap[a].next = heap[b].next /\ heap[a].next # NULL => a = b
    BY <1>2, SegmentAssumption DEF Segments
  <2>3. Reachable \subseteq allocated /\ \A w \in Workers : id[w] = NULL
    BY <1>1 DEF Init
  <2>4. \A a \in Segments : \A w \in Workers : heap[a].item # id[w]
    BY <1>2, <2>3
  <2> QED
    BY <1>1, <1>2, <2>1, <2>2, <2>3, <2>4 DEF Sound
<1> QED
  BY <1>3, <1>4, <1>5, <1>6 DEF IInv
-----------------------------------------------------------------------------
(* The theorems *)

\* Nothing changes.
LEMMA StutterInv ==
  ASSUME IInv, UNCHANGED vars
  PROVE  IInv' /\ KeepsList
<1>1. UNCHANGED <<front, back, N, heap, allocated, semQueue, pc, id, node, tmp>>
  BY DEF vars
<1>2. /\ \A u \in Workers : Popping(u)' = Popping(u) /\ Upcoming(u)' = Upcoming(u) /\ Linking(u)' = Linking(u)
                            /\ Guarded(u)' = Guarded(u) /\ HasPopped(u)' = HasPopped(u)
      /\ First' = First
  BY <1>1 DEF Popping, Upcoming, Linking, Guarded, HasPopped, First
<1>3. Reachable' = Reachable /\ Roots' = Roots
  BY <1>1, <1>2, SameList
<1>4. Types' /\ Mutex' /\ HeldOnce'
  BY <1>1, <1>2 DEF IInv, Types, Mutex, HeldOnce
<1>5. \A u \in Workers : Locals(u)'
  BY <1>1, <1>2, <1>3 DEF IInv, Locals
<1>6. Sound(Reachable)'
  BY <1>1, <1>2, <1>3 DEF IInv, Sound
<1> QED
  BY <1>1, <1>2, <1>3, <1>4, <1>5, <1>6 DEF IInv, KeepsList

\* The steps that touch neither the list nor a segment somebody holds
Keeps(w) ==
  \/ Lock(w) \/ Poll(w) \/ NotEmpty(w) \/ PopNext(w) \/ PopThrough(w) \/ PopAdvance(w)
  \/ PopTest(w) \/ PopClear(w) \/ PopFree(w) \/ PopLoad(w) \/ PopStore(w) \/ Transfer(w)
  \/ EnqTest(w) \/ EnqDeref(w) \/ EnqBack(w) \/ EnqLoad(w) \/ EnqStore(w)

\* They keep the invariant, and the process runs on.
LEMMA KeepsInv ==
  ASSUME IInv, NEW w \in Workers, Keeps(w)
  PROVE  IInv' /\ KeepsList /\ crashed' = crashed
<1>1. crashed' = crashed
  BY DEF Keeps, Lock, Poll, NotEmpty, PopNext, PopThrough, PopAdvance, PopTest, PopClear, PopFree,
         PopLoad, PopStore, Transfer, EnqTest, EnqDeref, EnqBack, EnqLoad, EnqStore
<1>2. IInv' /\ KeepsList
  BY LockInv, PollInv, NotEmptyInv, PopNextInv, PopThroughInv, PopAdvanceInv, PopTestInv,
     PopClearInv, PopFreeInv, PopLoadInv, PopStoreInv, TransferInv, EnqTestInv, EnqDerefInv,
     EnqBackInv, EnqLoadInv, EnqStoreInv, Zenon DEF Keeps
<1> QED
  BY <1>1, <1>2

\* How a step of a worker is classified
LEMMA StepCases ==
  ASSUME NEW w \in Workers, Step(w)
  PROVE  \/ Keeps(w) \/ Underflow(w) \/ EnqNullDeref(w) \/ PopFront(w)
         \/ EnqMalloc(w) \/ EnqFirst(w) \/ EnqLink(w)
BY Zenon DEF Step, Keeps

\* The invariant of the pool: the nodes that count are allocated, form disjoint lists
\* and have different items, and no segment is held twice.
THEOREM Invariance == Spec => []IInv
<1>1. IInv /\ [Next]_vars => IInv'
  <2> SUFFICES ASSUME IInv, [Next]_vars PROVE IInv'
    OBVIOUS
  <2>1. CASE UNCHANGED vars
    BY <2>1, StutterInv
  <2>2. ASSUME NEW w \in Workers, Step(w) PROVE IInv'
    BY <2>2, StepCases, KeepsInv, CrashInv, PopFrontInv, EnqMallocInv, EnqFirstInv, EnqLinkInv
  <2> QED
    BY <2>1, <2>2 DEF Next
<1> QED
  BY <1>1, InitInv, PTL DEF Spec

\* What a step does to the free segments and to those that workers hold: the abstract
\* pool can do the same.
LEMMA StepRefines ==
  ASSUME IInv, NEW w \in Workers, Step(w)
  PROVE  [Lossy!ANext]_(Lossy!avars)
<1>0. Types
  BY DEF IInv
<1>1. CASE Keeps(w)
  <2>1. KeepsList /\ crashed' = crashed
    BY <1>1, KeepsInv
  <2>2. FreeIds' = FreeIds
    BY <2>1 DEF KeepsList, FreeIds, Out
  <2> QED
    BY <2>1, <2>2 DEF KeepsList, Lossy!avars
<1>2. CASE Underflow(w) \/ EnqNullDeref(w)
  <2>1. KeepsList /\ crashed' = TRUE
    BY <1>2, CrashInv DEF Underflow, EnqNullDeref
  <2>2. FreeIds' = FreeIds
    BY <2>1 DEF KeepsList, FreeIds, Out
  <2> QED
    BY <2>1, <2>2 DEF KeepsList, Lossy!ANext, Lossy!End
<1>3. CASE PopFront(w)
  <2> DEFINE s == heap[front].item
  <2>1. /\ front \in Reachable /\ id[w] = NULL /\ id' = [id EXCEPT ![w] = s]
        /\ heap' = heap /\ Reachable' = Reachable \ {front} /\ crashed' = crashed
    BY <1>3, PopFrontInv DEF PopFront
  <2>2. \A u \in Workers : id[u] # s
    <3>1. First = front /\ ~Linking(w) /\ pc[w] = "pop"
      BY <1>3, PopFrontInv DEF PopFront, Goto, Linking
    <3> QED
      BY <2>1, <3>1 DEF IInv, Sound
  <2>3. s \in FreeIds
    BY <2>1, <2>2 DEF FreeIds, Out
  <2>4. Out' = Out \union {s}
    <3>1. s # NULL
      BY <2>1, SegmentAssumption DEF IInv, Sound, Segments
    <3>2. id'[w] = s /\ \A u \in Workers : u # w => id'[u] = id[u]
      BY <1>0, <2>1 DEF Types
    <3> QED
      BY <2>1, <3>1, <3>2 DEF Out
  <2>5. FreeIds' \in SUBSET (FreeIds \ {s})
    BY <2>1, <2>4 DEF FreeIds
  <2>6. Lossy!Take(w)
    BY <2>1, <2>3, <2>5 DEF Lossy!Take, Lossy!FreeBecomes
  <2> QED
    BY <2>6 DEF Lossy!ANext
<1>4. CASE EnqMalloc(w)
  <2>1. PICK a \in Addr \ allocated :
          /\ Reachable' = Reachable \union {a}
          /\ heap' = [heap EXCEPT ![a] = [item |-> id[w], next |-> NULL]]
    BY <1>4, EnqMallocInv
  <2>2. id' = id /\ id[w] # NULL /\ crashed' = crashed
    BY <1>4, EnqMallocInv DEF EnqMalloc
  <2>3. /\ heap'[a].item = id[w] /\ Reachable \subseteq Addr
        /\ \A b \in Addr : b # a => heap'[b] = heap[b]
    BY <1>0, <2>1, ReachableClosed DEF Types
  <2>4. id[w] \in Out /\ Out' = Out
    BY <2>2 DEF Out
  <2>5. FreeIds' \in SUBSET FreeIds
    BY <2>1, <2>3, <2>4 DEF FreeIds
  <2>6. Lossy!Lose
    BY <2>2, <2>5 DEF Lossy!Lose, Lossy!FreeBecomes
  <2> QED
    BY <2>6 DEF Lossy!ANext
<1>5. CASE EnqFirst(w) \/ EnqLink(w)
  <2>1. /\ id[w] # NULL /\ id' = [id EXCEPT ![w] = NULL] /\ crashed' = crashed
        /\ Reachable' \subseteq Reachable /\ \A a \in Addr : heap'[a].item = heap[a].item
    <3>1. CASE EnqFirst(w)
      BY <3>1, EnqFirstInv DEF EnqFirst
    <3>2. CASE EnqLink(w)
      BY <3>2, EnqLinkInv DEF EnqLink
    <3> QED
      BY <1>5, <3>1, <3>2
  <2>2. Out \subseteq Out' \union {id[w]}
    <3>1. \A u \in Workers : u # w => id'[u] = id[u]
      BY <1>0, <2>1 DEF Types
    <3> QED
      BY <3>1 DEF Out
  <2>3. FreeIds' \in SUBSET (FreeIds \union {id[w]})
    <3>1. Reachable \subseteq Addr
      BY ReachableClosed
    <3> QED
      BY <2>1, <2>2, <3>1 DEF FreeIds
  <2>4. Lossy!Give(w)
    BY <2>1, <2>3 DEF Lossy!Give, Lossy!FreeBecomes
  <2> QED
    BY <2>4 DEF Lossy!ANext
<1> QED
  BY <1>1, <1>2, <1>3, <1>4, <1>5, StepCases

\* However steque_pop and the unguarded steque_enqueue interleave, whatever a stale
\* this->back or a reused address leads to, the steque is a pool that may lose segments
\* and end the process but hands out only segments that are free.
THEOREM PoolRefinement == Spec => ImplementsLossyPool
<1>1. Init => Lossy!AInit
  <2> SUFFICES ASSUME Init PROVE Lossy!AInit
    OBVIOUS
  <2>1. Reachable = Segments /\ Out = {}
    BY InitList DEF Init, Out
  <2>2. \A a \in Segments : heap[a].item = a
    BY SegmentAssumption DEF Init, Segments, Addr
  <2>3. FreeIds = Segments
    BY <2>1, <2>2 DEF FreeIds
  <2> QED
    BY <2>3 DEF Init, Lossy!AInit
<1>2. IInv /\ [Next]_vars => [Lossy!ANext]_(Lossy!avars)
  <2> SUFFICES ASSUME IInv, [Next]_vars PROVE [Lossy!ANext]_(Lossy!avars)
    OBVIOUS
  <2>1. CASE UNCHANGED vars
    <3>1. KeepsList /\ crashed' = crashed
      BY <2>1, StutterInv DEF vars
    <3>2. FreeIds' = FreeIds
      BY <3>1 DEF KeepsList, FreeIds, Out
    <3> QED
      BY <3>1, <3>2 DEF KeepsList, Lossy!avars
  <2>2. CASE Next
    BY <2>2, StepRefines DEF Next
  <2> QED
    BY <2>1, <2>2
<1> QED
  BY <1>1, <1>2, Invariance, PTL DEF Spec, ImplementsLossyPool, Lossy!ASpec

\* No two workers ever use the same segment.
THEOREM NeverTwice == Spec => []Lossy!AExclusive
<1>1. IInv => Lossy!AExclusive
  BY DEF IInv, HeldOnce, Lossy!AExclusive
<1> QED
  BY <1>1, Invariance, PTL
-----------------------------------------------------------------------------
(* As long as operations do not overlap *)

\* The free segments can be counted.
LEMMA FreeFinite ==
  ASSUME IInv
  PROVE  FreeIds \subseteq Segments /\ IsFiniteSet(FreeIds) /\ Cardinality(FreeIds) \in Nat
<1>1. FreeIds \subseteq Segments
  BY DEF IInv, Sound, FreeIds
<1>2. IsFiniteSet(Segments)
  BY SegmentAssumption, FS_Interval DEF Segments
<1> QED
  BY <1>1, <1>2, FS_Subset, FS_CardinalityType

\* Who is not inside is neither popping nor linking.
LEMMA OutsideFacts ==
  ASSUME NEW w \in Workers, w \notin Inside
  PROVE  ~Popping(w) /\ ~Linking(w)
BY DEF Inside, Popping, Linking

\* Nodes that are linked are addresses, and behind NULL there are none.
LEMMA ListFacts ==
  ASSUME IInv
  PROVE  /\ NULL \notin Addr /\ Listed \subseteq Addr
         /\ (\A u \in Workers : ~Linking(u)) => Listed = Reachable
         /\ First = NULL /\ (\A u \in Workers : ~Linking(u)) => Reachable = {}
         /\ \A b : Last(b) => b # NULL
<1>1. NULL \notin Addr /\ Listed \subseteq Addr
  BY SegmentAssumption, ReachableClosed DEF Addr, Listed
<1>2. (\A u \in Workers : ~Linking(u)) => Listed = Reachable
  BY DEF Listed
<1>3. ASSUME First = NULL, \A u \in Workers : ~Linking(u) PROVE Reachable = {}
  <2>1. Roots = {}
    BY <1>3 DEF Roots
  <2>2. Closed({})
    BY <2>1 DEF Closed
  <2>3. Reachable \subseteq {}
    BY <2>2, Least
  <2> QED
    BY <2>3
<1> QED
  BY <1>1, <1>2, <1>3 DEF Last

\* A step that keeps the list keeps what is said of it.
LEMMA KeepsShape ==
  ASSUME IInv, NEW w \in Workers, Keeps(w)
  PROVE  /\ First' = First /\ FreeIds' = FreeIds /\ Out' = Out /\ heap' = heap
         /\ \A b : Last(b)' <=> Last(b)
         /\ \A u \in Workers : u # w => pc'[u] = pc[u] /\ node'[u] = node[u] /\ tmp'[u] = tmp[u]
<1>1. KeepsList
  BY KeepsInv
<1>2. \A u \in Workers : u # w => pc'[u] = pc[u] /\ node'[u] = node[u] /\ tmp'[u] = tmp[u]
  BY DEF IInv, Types, Keeps, Goto, Lock, Poll, NotEmpty, PopNext, PopThrough, PopAdvance, PopTest,
         PopClear, PopFree, PopLoad, PopStore, Transfer, EnqTest, EnqDeref, EnqBack, EnqLoad, EnqStore
<1>3. (Linking(w)' <=> Linking(w)) /\ (Linking(w) => node'[w] = node[w])
  BY DEF IInv, Types, Linking, Keeps, Goto, Lock, Poll, NotEmpty, PopNext, PopThrough, PopAdvance,
         PopTest, PopClear, PopFree, PopLoad, PopStore, Transfer, EnqTest, EnqDeref, EnqBack, EnqLoad,
         EnqStore
<1>4. Listed' = Listed
  <2>1. \A u \in Workers : (Linking(u)' <=> Linking(u)) /\ (Linking(u) => node'[u] = node[u])
    BY <1>2, <1>3 DEF Linking
  <2>2. {node'[u] : u \in {v \in Workers : Linking(v)'}} = {node[u] : u \in {v \in Workers : Linking(v)}}
    BY <2>1
  <2> QED
    BY <1>1, <2>2 DEF Listed, KeepsList
<1>5. \A b : Last(b)' <=> Last(b)
  BY <1>1, <1>4 DEF Last, KeepsList
<1> QED
  BY <1>1, <1>2, <1>5 DEF KeepsList, FreeIds, Out

\* When only w is inside, nobody else pops or links.
LEMMA OnlyFacts ==
  ASSUME IInv, NEW w \in Workers, Inside \subseteq {w}
  PROVE  /\ \A u \in Workers : u # w => ~Popping(u) /\ ~Linking(u)
         /\ ~Popping(w) => First = front
<1>1. \A u \in Workers : u # w => ~Popping(u) /\ ~Linking(u)
  BY OutsideFacts
<1>2. FirstFact
  BY FirstIs DEF IInv
<1> QED
  BY <1>1, <1>2 DEF FirstFact

\* The steps inside a pop
LEMMA PopAlone ==
  ASSUME IInv, IInv', NEW w \in Workers, Inside \subseteq {w}, Alone(w),
         PopNext(w) \/ PopThrough(w) \/ PopAdvance(w) \/ PopTest(w) \/ PopClear(w) \/ PopFree(w) \/ PopLoad(w)
  PROVE  Alone(w)'
<1>1. Keeps(w)
  BY DEF Keeps
<1>2. /\ First' = First /\ FreeIds' = FreeIds /\ \A b : Last(b)' <=> Last(b)
  BY <1>1, KeepsShape
<1>3. /\ ~Popping(w) => First = front
      /\ \A b : Last(b) => b # NULL
  BY OnlyFacts, ListFacts
<1>4. Types /\ Types'
  BY DEF IInv
<1>5. CASE PopNext(w)
  <2>1. pc[w] = "next" /\ pc'[w] = "through" /\ UNCHANGED <<front, back, N>>
    BY <1>4, <1>5 DEF PopNext, Goto, Types, list
  <2> QED
    BY <1>2, <2>1 DEF Alone, HasPopped, Linking
<1>6. CASE PopThrough(w)
  <2>1. pc[w] = "through" /\ pc'[w] = "advance" /\ UNCHANGED <<front, back, N>>
    BY <1>4, <1>6 DEF PopThrough, Goto, Types, list
  <2> QED
    BY <1>2, <2>1 DEF Alone, HasPopped, Linking
<1>7. CASE PopAdvance(w)
  <2>1. pc[w] = "advance" /\ pc'[w] = "test" /\ UNCHANGED <<back, N>>
    BY <1>4, <1>7 DEF PopAdvance, Goto, Types, list
  <2> QED
    BY <1>2, <2>1 DEF Alone, HasPopped, Linking
<1>8. CASE PopTest(w)
  <2>1. pc[w] = "test" /\ pc'[w] = (IF front = NULL THEN "clear" ELSE "free") /\ UNCHANGED <<front, back, N>>
    BY <1>4, <1>8 DEF PopTest, Goto, Types, list
  <2>2. First = front
    BY <1>3, <2>1 DEF Popping
  <2> QED
    BY <1>2, <2>1, <2>2 DEF Alone, HasPopped, Linking, Settled
<1>9. CASE PopClear(w)
  <2>1. pc[w] = "clear" /\ pc'[w] = "free" /\ back' = NULL /\ UNCHANGED <<front, N>>
    BY <1>4, <1>9 DEF PopClear, Goto, Types, list
  <2> QED
    BY <1>2, <2>1 DEF Alone, HasPopped, Linking, Settled
<1>10. CASE PopFree(w)
  <2>1. pc[w] = "free" /\ pc'[w] = "load" /\ UNCHANGED <<front, back, N>>
    BY <1>4, <1>10 DEF PopFree, Goto, Types, list
  <2> QED
    BY <1>2, <2>1 DEF Alone, HasPopped, Linking, Settled
<1>11. CASE PopLoad(w)
  <2>1. pc[w] = "load" /\ pc'[w] = "store" /\ tmp'[w] = N /\ UNCHANGED <<front, back, N>>
    BY <1>4, <1>11 DEF PopLoad, Goto, Types, list
  <2> QED
    BY <1>2, <2>1 DEF Alone, HasPopped, Linking, Settled
<1> QED
  BY <1>5, <1>6, <1>7, <1>8, <1>9, <1>10, <1>11

\* The steps inside an enqueue that keep the list
LEMMA EnqAlone ==
  ASSUME IInv, IInv', NEW w \in Workers, Inside \subseteq {w}, Alone(w),
         EnqTest(w) \/ EnqDeref(w) \/ EnqBack(w) \/ EnqLoad(w)
  PROVE  Alone(w)'
<1>1. Keeps(w)
  BY DEF Keeps
<1>2. First' = First /\ FreeIds' = FreeIds /\ heap' = heap /\ \A b : Last(b)' <=> Last(b)
  BY <1>1, KeepsShape
<1>3. /\ ~Popping(w) => First = front
      /\ \A b : Last(b) => b # NULL
  BY OnlyFacts, ListFacts
<1>4. Types /\ Types'
  BY DEF IInv
<1>5. CASE EnqTest(w)
  <2>1. /\ pc[w] = "empty" /\ pc'[w] = (IF back = NULL THEN "first" ELSE "deref")
        /\ node' = node /\ UNCHANGED <<front, back, N>>
    BY <1>4, <1>5 DEF EnqTest, Goto, Types, list
  <2>2. First = front
    BY <1>3, <2>1 DEF Popping
  <2> QED
    BY <1>2, <1>3, <2>1, <2>2 DEF Alone, HasPopped, Linking, Settled
<1>6. CASE EnqDeref(w)
  <2>1. pc[w] = "deref" /\ pc'[w] = "link" /\ tmp'[w] = back /\ node' = node /\ UNCHANGED <<front, back, N>>
    BY <1>4, <1>6 DEF EnqDeref, Goto, Types, list
  <2> QED
    BY <1>2, <2>1 DEF Alone, HasPopped, Linking, Settled
<1>7. CASE EnqBack(w)
  <2>1. pc[w] = "back" /\ pc'[w] = "loadN" /\ back' = node[w] /\ UNCHANGED <<front, N>>
    BY <1>4, <1>7 DEF EnqBack, Goto, Types, list
  <2>2. First = front
    BY <1>3, <2>1 DEF Popping
  <2> QED
    BY <1>2, <2>1, <2>2 DEF Alone, HasPopped, Linking, Settled
<1>8. CASE EnqLoad(w)
  <2>1. pc[w] = "loadN" /\ pc'[w] = "storeN" /\ tmp'[w] = N /\ UNCHANGED <<front, back, N>>
    BY <1>4, <1>8 DEF EnqLoad, Goto, Types, list
  <2> QED
    BY <1>2, <2>1 DEF Alone, HasPopped, Linking, Settled
<1> QED
  BY <1>5, <1>6, <1>7, <1>8

\* A pop takes exactly the first node and its segment.
LEMMA PopFrontAlone ==
  ASSUME IInv, IInv', NEW w \in Workers, Inside \subseteq {w}, Alone(w), PopFront(w),
         FreeIds \union Out = Segments
  PROVE  Alone(w)' /\ FreeIds' \union Out' = Segments
<1> DEFINE s == heap[front].item
<1>1. /\ front \in Reachable /\ First = front /\ First' = heap[front].next
      /\ id' = [id EXCEPT ![w] = s] /\ heap' = heap /\ Reachable' = Reachable \ {front}
      /\ id[w] = NULL
  BY PopFrontInv
<1>2. pc[w] = "pop" /\ pc'[w] = "next" /\ front # NULL /\ UNCHANGED <<front, back, N>>
      /\ \A u \in Workers : u # w => pc'[u] = pc[u]
  BY DEF PopFront, Goto, IInv, Types, list
<1>3. \A u \in Workers : ~Linking(u) /\ ~Linking(u)'
  BY <1>2, OnlyFacts DEF Linking
<1>4. Listed = Reachable /\ Listed' = Reachable'
  BY <1>3 DEF Listed
<1>5. Last(back)
  BY <1>1, <1>2 DEF Alone, Settled
<1>6. First' = NULL \/ Last(back)'
  BY <1>1, <1>2, <1>4, <1>5 DEF Last
<1>7. /\ \A u \in Workers : id[u] # s
      /\ \A a \in Reachable \ {front} : heap[a].item # s
      /\ s # NULL
  BY <1>1, <1>3, SegmentAssumption DEF IInv, Sound, Segments
<1>8. Out' = Out \union {s}
  <2>1. id'[w] = s /\ \A u \in Workers : u # w => id'[u] = id[u]
    BY <1>1 DEF IInv, Types
  <2> QED
    BY <1>1, <1>7, <2>1 DEF Out
<1>9. s \in FreeIds /\ FreeIds' = FreeIds \ {s}
  BY <1>1, <1>7, <1>8 DEF FreeIds, Out
<1>10. Cardinality(FreeIds') = Cardinality(FreeIds) - 1
  <2>1. IsFiniteSet(FreeIds)
    BY FreeFinite
  <2> HIDE DEF s
  <2> QED
    BY <1>9, <2>1, FS_RemoveElement
<1>11. N' = Cardinality(FreeIds') + 1
  <2>1. N = Cardinality(FreeIds) /\ Cardinality(FreeIds) \in Nat
    BY <1>2, FreeFinite DEF Alone, HasPopped
  <2> QED
    BY <1>2, <1>10, <2>1
<1>12. Alone(w)'
  BY <1>2, <1>6, <1>11 DEF Alone, HasPopped, Linking
<1> QED
  BY <1>8, <1>9, <1>12

\* A node is allocated, and the list is as before.
LEMMA EnqMallocAlone ==
  ASSUME IInv, IInv', NEW w \in Workers, Inside = {}, EnqMalloc(w),
         Settled, N = Cardinality(FreeIds), FreeIds \union Out = Segments
  PROVE  Alone(w)' /\ FreeIds' \union Out' = Segments
<1>1. PICK a \in Addr \ allocated :
          /\ node'[w] = a /\ Reachable' = Reachable \union {a}
          /\ heap' = [heap EXCEPT ![a] = [item |-> id[w], next |-> NULL]]
  BY EnqMallocInv
<1>2. id' = id /\ id[w] # NULL /\ First' = First
  BY EnqMallocInv
<1>3. pc[w] = "malloc" /\ pc'[w] = "empty" /\ UNCHANGED <<front, back, N>>
      /\ \A u \in Workers : u # w => pc'[u] = pc[u]
  BY DEF EnqMalloc, Goto, IInv, Types, list
<1>4. \A u \in Workers : ~Linking(u) /\ (Linking(u)' <=> u = w)
  BY <1>3, OutsideFacts DEF Linking
<1>5. /\ Reachable \subseteq Addr /\ a \notin Reachable
      /\ heap'[a].item = id[w] /\ heap'[a].next = NULL /\ \A b \in Reachable : heap'[b] = heap[b]
  <2>1. Reachable \subseteq Addr /\ a \notin Reachable
    BY ReachableClosed DEF IInv, Sound
  <2> QED
    BY <1>1, <2>1 DEF IInv, Types
<1>6. Listed = Reachable /\ Listed' = Reachable
  <2>1. {node'[u] : u \in {v \in Workers : Linking(v)'}} = {a}
    BY <1>1, <1>4
  <2> QED
    BY <1>1, <1>4, <1>5, <2>1 DEF Listed
<1>7. Settled'
  BY <1>2, <1>3, <1>5, <1>6 DEF Settled, Last
<1>8. Out' = Out /\ id[w] \in Out
  BY <1>2 DEF Out
<1>9. FreeIds' = FreeIds
  <2>1. {heap'[b].item : b \in Reachable'} = {heap[b].item : b \in Reachable} \union {id[w]}
    BY <1>1, <1>5
  <2> QED
    BY <1>8, <2>1 DEF FreeIds
<1>10. Alone(w)'
  BY <1>1, <1>3, <1>5, <1>7, <1>9 DEF Alone, HasPopped, Linking
<1> QED
  BY <1>8, <1>9, <1>10

\* A segment becomes free: what both ways of linking a node have in common
LEMMA GiveBack ==
  ASSUME IInv, IInv', NEW w \in Workers, Linking(w), Reachable' = Reachable,
         \A a \in Addr : heap'[a].item = heap[a].item, id' = [id EXCEPT ![w] = NULL],
         FreeIds \union Out = Segments
  PROVE  /\ Cardinality(FreeIds') = Cardinality(FreeIds) + 1
         /\ FreeIds' \union Out' = Segments
<1> DEFINE s == id[w]
<1>1. node[w] \in Reachable /\ heap[node[w]].item = s /\ Reachable \subseteq Addr
  <2>1. node[w] # NULL /\ heap[node[w]].item = s
    BY SegmentAssumption DEF IInv, Locals, Addr
  <2>2. node[w] \in Roots
    BY <2>1 DEF Roots
  <2> QED
    BY <2>1, <2>2, ReachableClosed
<1>2. s # NULL /\ \A u \in Workers : u # w => id[u] # s
  <2>1. s # NULL
    BY <1>1, SegmentAssumption DEF IInv, Sound, Segments
  <2> QED
    BY <2>1 DEF IInv, HeldOnce
<1>3. Out = Out' \union {s} /\ s \notin Out'
  <2>1. id'[w] = NULL /\ \A u \in Workers : u # w => id'[u] = id[u]
    BY DEF IInv, Types
  <2> QED
    BY <1>2, <2>1 DEF Out
<1>4. {heap'[a].item : a \in Reachable'} = {heap[a].item : a \in Reachable}
  BY <1>1
<1>5. FreeIds' = FreeIds \union {s} /\ s \notin FreeIds
  BY <1>1, <1>3, <1>4 DEF FreeIds
<1>6. Cardinality(FreeIds') = Cardinality(FreeIds) + 1
  <2>1. IsFiniteSet(FreeIds)
    BY FreeFinite
  <2> HIDE DEF s
  <2> QED
    BY <1>5, <2>1, FS_AddElement
<1> QED
  BY <1>3, <1>5, <1>6

\* The node becomes the only one of the list.
LEMMA EnqFirstAlone ==
  ASSUME IInv, IInv', NEW w \in Workers, Inside \subseteq {w}, Alone(w), EnqFirst(w),
         FreeIds \union Out = Segments
  PROVE  Alone(w)' /\ FreeIds' \union Out' = Segments
<1> DEFINE n == node[w]
<1>1. /\ pc[w] = "first" /\ pc'[w] = "back" /\ UNCHANGED <<back, N, heap, node>> /\ front' = n
      /\ id' = [id EXCEPT ![w] = NULL]
      /\ \A u \in Workers : u # w => pc'[u] = pc[u]
  BY DEF EnqFirst, Goto, IInv, Types, list
<1>2. \A u \in Workers : ~Popping(u) /\ ~Popping(u)' /\ ~Linking(u)' /\ (Linking(u) <=> u = w)
  BY <1>1, OnlyFacts DEF Linking, Popping
<1>3. First = NULL /\ First' = n
  <2>1. front = NULL
    BY <1>1 DEF Alone
  <2> QED
    BY <1>1, <1>2, <2>1 DEF First
<1>4. n \in Addr /\ n # NULL /\ heap[n].next = NULL
  BY <1>1, <1>2, SegmentAssumption DEF Alone, IInv, Locals, Addr
<1>5. Roots = {n} /\ Roots' = {n}
  <2>1. {node[u] : u \in {v \in Workers : Linking(v)}} = {n}
    BY <1>2
  <2>2. {node'[u] : u \in {v \in Workers : Linking(v)'}} = {}
    BY <1>2
  <2> QED
    BY <1>3, <1>4, <2>1, <2>2 DEF Roots
<1>6. Reachable' = Reachable /\ Reachable = {n}
  <2>1. \A S : Closed(S)' <=> Closed(S)
    BY <1>1, <1>5 DEF Closed
  <2>2. Reachable' = Reachable
    BY <2>1 DEF Reachable
  <2>3. Closed({n})
    BY <1>4, <1>5 DEF Closed
  <2>4. Reachable \subseteq {n}
    <3> HIDE DEF n
    <3> QED
      BY <1>4, <2>3, Least
  <2>5. Roots \subseteq Reachable
    BY ReachableClosed
  <2> QED
    BY <1>5, <2>2, <2>4, <2>5
<1>7. Last(n)'
  BY <1>1, <1>2, <1>4, <1>6 DEF Last, Listed
<1>8. Cardinality(FreeIds') = Cardinality(FreeIds) + 1 /\ FreeIds' \union Out' = Segments
  BY <1>1, <1>2, <1>6, GiveBack
<1>9. N' = Cardinality(FreeIds') - 1
  <2>1. N = Cardinality(FreeIds) /\ Cardinality(FreeIds) \in Nat
    BY <1>1, FreeFinite DEF Alone, HasPopped
  <2> QED
    BY <1>1, <1>8, <2>1
<1>10. Alone(w)'
  BY <1>1, <1>4, <1>7, <1>9 DEF Alone, HasPopped, Linking
<1> QED
  BY <1>8, <1>10

\* The node follows the last one.
LEMMA EnqLinkAlone ==
  ASSUME IInv, IInv', NEW w \in Workers, Inside \subseteq {w}, Alone(w), EnqLink(w),
         FreeIds \union Out = Segments
  PROVE  Alone(w)' /\ FreeIds' \union Out' = Segments
<1> DEFINE n == node[w]
           t == tmp[w]
<1>1. /\ pc[w] = "link" /\ pc'[w] = "back" /\ UNCHANGED <<front, back, N, node>>
      /\ heap' = [heap EXCEPT ![t].next = n] /\ id' = [id EXCEPT ![w] = NULL]
      /\ \A u \in Workers : u # w => pc'[u] = pc[u]
  BY DEF EnqLink, Goto, IInv, Types, list
<1>2. \A u \in Workers : ~Popping(u) /\ ~Popping(u)' /\ ~Linking(u)' /\ (Linking(u) <=> u = w)
  BY <1>1, OnlyFacts DEF Linking, Popping
<1>3. First = front /\ First' = front /\ front # NULL
  BY <1>1, <1>2 DEF First, Alone
<1>4. n \in Addr /\ n # NULL /\ heap[n].next = NULL
  BY <1>1, <1>2, SegmentAssumption DEF Alone, IInv, Locals, Addr
<1>5. Listed = Reachable \ {n} /\ Listed' = Reachable'
  <2>1. {node[u] : u \in {v \in Workers : Linking(v)}} = {n}
    BY <1>2
  <2>2. {node'[u] : u \in {v \in Workers : Linking(v)'}} = {}
    BY <1>2
  <2> QED
    BY <2>1, <2>2 DEF Listed
<1>6. t = back /\ t \in Reachable /\ t # n /\ \A a \in Reachable \ {n} : heap[a].next = NULL <=> a = t
  <2>1. t = back /\ Last(back)
    BY <1>1 DEF Alone
  <2> QED
    BY <1>5, <2>1 DEF Last
<1>7. Roots = {front, n} /\ Roots' = {front}
  <2>1. {node[u] : u \in {v \in Workers : Linking(v)}} = {n}
    BY <1>2
  <2>2. {node'[u] : u \in {v \in Workers : Linking(v)'}} = {}
    BY <1>2
  <2> QED
    BY <1>3, <1>4, <2>1, <2>2 DEF Roots
<1>8. Reachable \subseteq Addr /\ Reachable' \subseteq Reachable /\ \A a \in Addr : heap'[a].item = heap[a].item
  BY ReachableClosed, EnqLinkInv
<1>9. \A a \in Addr : heap'[a].next = IF a = t THEN n ELSE heap[a].next
  <2>1. t \in Addr /\ heap \in [Addr -> Nodes]
    BY <1>6, <1>8 DEF IInv, Types
  <2>2. heap[t] \in Nodes
    BY <2>1
  <2> QED
    BY <1>1, <2>1, <2>2 DEF Nodes
<1>10. Reachable' = Reachable
  <2>1. ASSUME NEW S \in SUBSET Addr, Closed(S)' PROVE Reachable \subseteq S
    <3>1. front \in S /\ \A a \in S : heap'[a].next \in S \union {NULL}
      BY <1>7, <2>1 DEF Closed
    <3>2. Closed(S \union {n})
      <4>1. \A a \in S : heap[a].next \in S \union {n, NULL}
        <5>1. ASSUME NEW a \in S, a # t PROVE heap[a].next \in S \union {n, NULL}
          BY <1>9, <3>1, <5>1
        <5>2. heap[t].next = NULL
          BY <1>6
        <5> QED
          BY <5>1, <5>2
      <4> QED
        BY <1>4, <1>7, <3>1, <4>1 DEF Closed
    <3>3. Reachable \subseteq S \union {n}
      <4>1. S \union {n} \subseteq Addr
        BY <1>4
      <4> HIDE DEF n
      <4> QED
        BY <3>2, <4>1, Least
    <3>4. t \in S /\ t \in Addr
      BY <1>6, <1>8, <3>3
    <3>5. n \in S
      BY <1>4, <1>9, <3>1, <3>4
    <3> QED
      BY <3>3, <3>5
  <2> QED
    BY <1>8, <2>1 DEF Reachable
<1>11. Last(n)'
  <2>1. n \in Reachable
    BY <1>7, ReachableClosed
  <2>2. \A a \in Reachable : heap'[a].next = NULL <=> a = n
    BY <1>4, <1>6, <1>8, <1>9
  <2> QED
    BY <1>1, <1>5, <1>10, <2>1, <2>2 DEF Last
<1>12. Cardinality(FreeIds') = Cardinality(FreeIds) + 1 /\ FreeIds' \union Out' = Segments
  BY <1>1, <1>2, <1>8, <1>10, GiveBack
<1>13. N' = Cardinality(FreeIds') - 1
  <2>1. N = Cardinality(FreeIds) /\ Cardinality(FreeIds) \in Nat
    BY <1>1, FreeFinite DEF Alone, HasPopped
  <2> QED
    BY <1>1, <1>12, <2>1
<1>14. Alone(w)'
  BY <1>1, <1>3, <1>11, <1>13 DEF Alone, HasPopped, Linking
<1> QED
  BY <1>12, <1>14

\* A set that is counted and has no more than one element
LEMMA AtMostOne ==
  ASSUME NEW S, IsFiniteSet(S), ~(Cardinality(S) > 1), NEW a \in S, NEW b \in S
  PROVE  a = b
<1> SUFFICES ASSUME a # b PROVE FALSE
  OBVIOUS
<1>1. PICK T : T = {a}
  OBVIOUS
<1>2. IsFiniteSet(T) /\ Cardinality(T) = 1 /\ b \notin T
  BY <1>1, FS_Singleton
<1>3. IsFiniteSet(T \union {b}) /\ Cardinality(T \union {b}) = 2
  BY <1>2, FS_AddElement
<1>4. T \union {b} \subseteq S
  BY <1>1
<1>5. Cardinality(T \union {b}) <= Cardinality(S) /\ Cardinality(S) \in Nat
  BY <1>4, FS_Subset, FS_CardinalityType
<1> QED
  BY <1>3, <1>5

\* A step changes only its own worker's program point.
LEMMA StepOthers ==
  ASSUME Types, NEW w \in Workers, Step(w)
  PROVE  \A u \in Workers : u # w => pc'[u] = pc[u] /\ node'[u] = node[u] /\ tmp'[u] = tmp[u]
BY DEF Types, Step, Goto, Lock, Poll, NotEmpty, Underflow, PopFront, PopNext, PopThrough,
       PopAdvance, PopTest, PopClear, PopFree, PopLoad, PopStore, Transfer, EnqMalloc, EnqTest,
       EnqFirst, EnqDeref, EnqNullDeref, EnqLink, EnqBack, EnqLoad, EnqStore

\* The steps of a worker that stays outside do not concern the one that is inside.
LEMMA OutsideAlone ==
  ASSUME IInv, NEW w \in Workers, Lock(w) \/ Poll(w) \/ Transfer(w), NEW u \in Workers, u # w, Alone(u)
  PROVE  Alone(u)'
<1>1. Keeps(w) /\ UNCHANGED <<front, back, N>>
  BY DEF Keeps, Lock, Poll, Transfer, list
<1>2. /\ First' = First /\ FreeIds' = FreeIds /\ heap' = heap
      /\ \A b : Last(b)' <=> Last(b)
      /\ pc'[u] = pc[u] /\ node'[u] = node[u] /\ tmp'[u] = tmp[u]
  BY <1>1, KeepsShape
<1>3. Settled' <=> Settled
  BY <1>1, <1>2 DEF Settled
<1> QED
  BY <1>1, <1>2, <1>3 DEF Alone, HasPopped, Linking

\* The first worker inside finds an element when N says that there is one.
LEMMA NotEmptyAlone ==
  ASSUME IInv, NEW w \in Workers, NotEmpty(w), Inside = {}, Settled, N = Cardinality(FreeIds)
  PROVE  Alone(w)'
<1>1. Keeps(w) /\ pc[w] = "check" /\ pc'[w] = "pop" /\ N # 0 /\ UNCHANGED <<front, back, N>>
  BY DEF Keeps, NotEmpty, Goto, list, IInv, Types
<1>2. First' = First /\ FreeIds' = FreeIds /\ \A b : Last(b)' <=> Last(b)
  BY <1>1, KeepsShape
<1>3. First = front /\ \A u \in Workers : ~Linking(u)
  BY <1>1, OutsideFacts, OnlyFacts
<1>4. FreeIds # {}
  BY <1>1, FS_EmptySet
<1>5. front # NULL
  BY <1>3, <1>4, ListFacts DEF FreeIds
<1>6. Settled'
  BY <1>1, <1>2 DEF Settled
<1> QED
  BY <1>1, <1>2, <1>5, <1>6 DEF Alone, HasPopped, Linking

\* A step that does not overlap another operation preserves the exact pool.
LEMMA SerialStep ==
  ASSUME IInv, IInv', Serial, NEW w \in Workers, Step(w),
         overlapped' = (overlapped \/ Cardinality(Inside') > 1)
  PROVE  Serial'
<1> SUFFICES ASSUME ~overlapped'
             PROVE  /\ ~crashed'
                    /\ FreeIds' \union Out' = Segments
                    /\ \A u, v \in Inside' : u = v
                    /\ \A u \in Inside' : Alone(u)'
                    /\ Inside' = {} => Settled' /\ N' = Cardinality(FreeIds')
  BY DEF Serial
<1>1. /\ ~overlapped /\ ~crashed /\ ~(Cardinality(Inside') > 1)
      /\ FreeIds \union Out = Segments
      /\ \A u, v \in Inside : u = v
      /\ \A u \in Inside : Alone(u)
      /\ Inside = {} => Settled /\ N = Cardinality(FreeIds)
  BY Zenon DEF Serial
<1>2. \A u \in Workers : u # w => pc'[u] = pc[u] /\ (u \in Inside' <=> u \in Inside)
  BY StepOthers DEF IInv, Inside
<1>3. \A u, v \in Inside' : u = v
  <2>1. PICK S : IsFiniteSet(S) /\ Inside \subseteq S
    <3>1. CASE Inside = {}
      BY <3>1, FS_EmptySet
    <3>2. CASE Inside # {}
      <4>1. PICK u \in Inside : Inside \subseteq {u}
        BY <1>1, <3>2
      <4> QED
        BY <4>1, FS_Singleton
    <3> QED
      BY <3>1, <3>2
  <2>2. Inside' \subseteq S \union {w}
    BY <1>2, <2>1 DEF Inside
  <2>3. IsFiniteSet(S \union {w})
    BY <2>1, FS_AddElement
  <2>4. IsFiniteSet(Inside')
    BY <2>2, <2>3, FS_Subset
  <2> QED
    BY <1>1, <2>4, AtMostOne
<1>4. w \in Inside => Inside \subseteq {w} /\ Inside' \subseteq {w} /\ Alone(w)
  BY <1>1, <1>2 DEF Inside
<1>5. w \notin Inside /\ w \in Inside' => Inside = {} /\ Inside' = {w}
  BY <1>2, <1>3 DEF Inside
<1>6. Types /\ Types'
  BY DEF IInv
<1>7. CASE Lock(w) \/ Poll(w) \/ Transfer(w)
  <2>1. Keeps(w) /\ UNCHANGED <<front, back, N, crashed>>
    BY <1>7 DEF Keeps, Lock, Poll, Transfer, list
  <2>2. First' = First /\ FreeIds' = FreeIds /\ Out' = Out /\ \A b : Last(b)' <=> Last(b)
    BY <2>1, KeepsShape
  <2>3. w \notin Inside /\ w \notin Inside'
    BY <1>6, <1>7 DEF Inside, Lock, Poll, Transfer, Goto, Types
  <2>4. Inside' = Inside
    BY <1>2, <2>3 DEF Inside
  <2>5. \A u \in Inside' : Alone(u)'
    BY <1>1, <1>7, <2>3, <2>4, OutsideAlone DEF Inside
  <2>6. Settled' <=> Settled
    BY <2>1, <2>2 DEF Settled
  <2> QED
    BY <1>1, <1>3, <2>1, <2>2, <2>4, <2>5, <2>6
<1>8. CASE NotEmpty(w)
  <2>1. Keeps(w) /\ crashed' = crashed /\ w \notin Inside /\ w \in Inside'
    BY <1>6, <1>8 DEF Keeps, NotEmpty, Goto, Inside, Types
  <2>2. FreeIds' = FreeIds /\ Out' = Out
    BY <2>1, KeepsShape
  <2>3. Alone(w)'
    BY <1>1, <1>5, <1>8, <2>1, NotEmptyAlone
  <2> QED
    BY <1>1, <1>3, <1>5, <2>1, <2>2, <2>3
<1>9. CASE \/ PopNext(w) \/ PopThrough(w) \/ PopAdvance(w) \/ PopTest(w) \/ PopClear(w) \/ PopFree(w) \/ PopLoad(w)
           \/ EnqTest(w) \/ EnqDeref(w) \/ EnqBack(w) \/ EnqLoad(w)
  <2>1. Keeps(w)
    BY <1>9 DEF Keeps
  <2>2. FreeIds' = FreeIds /\ Out' = Out /\ crashed' = crashed
    BY <2>1, KeepsShape, KeepsInv
  <2>3. w \in Inside /\ w \in Inside'
    BY <1>6, <1>9 DEF Inside, Goto, Types, PopNext, PopThrough, PopAdvance, PopTest, PopClear, PopFree,
                      PopLoad, EnqTest, EnqDeref, EnqBack, EnqLoad
  <2>4. Alone(w)'
    BY <1>4, <1>9, <2>3, PopAlone, EnqAlone
  <2> QED
    BY <1>1, <1>3, <1>4, <2>2, <2>3, <2>4
<1>10. CASE PopStore(w) \/ EnqStore(w)
  <2>1. Keeps(w)
    BY <1>10 DEF Keeps
  <2>2. First' = First /\ FreeIds' = FreeIds /\ Out' = Out /\ crashed' = crashed /\ \A b : Last(b)' <=> Last(b)
    BY <2>1, KeepsShape, KeepsInv
  <2>3. w \in Inside /\ w \notin Inside' /\ back' = back
    BY <1>6, <1>10 DEF Inside, Goto, Types, PopStore, EnqStore
  <2>4. Inside' = {}
    BY <1>4, <2>3
  <2>5. Settled
    BY <1>4, <1>10, <2>3 DEF Alone, PopStore, EnqStore, Goto
  <2>6. Settled'
    BY <2>2, <2>3, <2>5 DEF Settled
  <2>7. N' = Cardinality(FreeIds)
    <3>1. Cardinality(FreeIds) \in Nat
      BY FreeFinite
    <3>2. CASE PopStore(w)
      <4>1. tmp[w] = Cardinality(FreeIds) + 1
        BY <1>4, <2>3, <3>2 DEF Alone, PopStore, Goto, HasPopped
      <4> QED
        BY <3>1, <3>2, <4>1 DEF PopStore
    <3>3. CASE EnqStore(w)
      <4>1. tmp[w] = Cardinality(FreeIds) - 1
        BY <1>4, <2>3, <3>3 DEF Alone, EnqStore, Goto, HasPopped
      <4> QED
        BY <3>1, <3>3, <4>1 DEF EnqStore
    <3> QED
      BY <1>10, <3>2, <3>3
  <2> QED
    BY <1>1, <2>2, <2>4, <2>6, <2>7
<1>11. CASE Underflow(w) \/ EnqNullDeref(w)
  <2>1. w \in Inside
    BY <1>11 DEF Inside, Underflow, EnqNullDeref
  <2>2. Alone(w) /\ \A b : Last(b) => b # NULL
    BY <1>4, <2>1, ListFacts
  <2> QED
    BY <1>11, <2>2 DEF Alone, Underflow, EnqNullDeref
<1>12. CASE PopFront(w) \/ EnqFirst(w) \/ EnqLink(w)
  <2>1. w \in Inside /\ w \in Inside' /\ crashed' = crashed
    BY <1>6, <1>12 DEF Inside, Goto, Types, PopFront, EnqFirst, EnqLink
  <2>2. Alone(w)' /\ FreeIds' \union Out' = Segments
    BY <1>1, <1>4, <1>12, <2>1, PopFrontAlone, EnqFirstAlone, EnqLinkAlone
  <2> QED
    BY <1>1, <1>3, <1>4, <2>1, <2>2
<1>13. CASE EnqMalloc(w)
  <2>1. w \notin Inside /\ w \in Inside' /\ crashed' = crashed
    BY <1>6, <1>13 DEF Inside, Goto, Types, EnqMalloc
  <2>2. Alone(w)' /\ FreeIds' \union Out' = Segments
    BY <1>1, <1>5, <1>13, <2>1, EnqMallocAlone
  <2> QED
    BY <1>1, <1>3, <1>5, <2>1, <2>2
<1> QED
  BY <1>7, <1>8, <1>9, <1>10, <1>11, <1>12, <1>13, StepCases DEF Keeps

\* The pool main has filled is exact.
LEMMA SerialInit == Init => Serial
<1> SUFFICES ASSUME Init PROVE Serial
  OBVIOUS
<1>1. IInv /\ First = 0 /\ Reachable = Segments /\ \A u \in Workers : ~Linking(u)
  BY InitInv, InitList
<1>2. Inside = {} /\ Out = {}
  BY DEF Init, Inside, Out
<1>3. \A a \in Segments : heap[a].item = a /\ (heap[a].next = NULL <=> a = NSegments - 1)
  BY SegmentAssumption DEF Init, Segments, Addr
<1>4. FreeIds = Segments
  BY <1>1, <1>2, <1>3 DEF FreeIds
<1>5. Cardinality(Segments) = NSegments
  BY SegmentAssumption, FS_Interval DEF Segments
<1>6. Settled
  <2>1. Listed = Segments
    BY <1>1, ListFacts
  <2>2. 0 # NULL /\ NSegments - 1 \in Segments /\ back = NSegments - 1
    BY SegmentAssumption DEF Init, Segments
  <2> QED
    BY <1>1, <1>3, <2>1, <2>2 DEF Settled, Last
<1> QED
  BY <1>2, <1>4, <1>5, <1>6 DEF Serial, Init

\* As long as no two operations have overlapped, no segment is lost, nothing crashes,
\* and N, on which steque_isempty relies, is the number of free segments.
THEOREM ExactPool == Spec => []ExactWhenSerial
<1>1. IInv /\ IInv' /\ Serial /\ [Next]_vars => Serial'
  <2> SUFFICES ASSUME IInv, IInv', Serial, [Next]_vars PROVE Serial'
    OBVIOUS
  <2>1. CASE Next
    BY <2>1, SerialStep DEF Next
  <2>2. CASE UNCHANGED vars
    <3>1. KeepsList
      BY <2>2, StutterInv
    <3>2. /\ UNCHANGED <<front, back, N, heap, crashed, pc, id, node, tmp, overlapped>>
          /\ First' = First /\ Reachable' = Reachable
      BY <2>2, <3>1 DEF vars, KeepsList
    <3>3. FreeIds' = FreeIds /\ Out' = Out /\ Inside' = Inside /\ Listed' = Listed
      BY <3>2 DEF FreeIds, Out, Inside, Listed, Linking
    <3>4. (\A b : Last(b)' <=> Last(b)) /\ (Settled' <=> Settled)
      BY <3>2, <3>3 DEF Last, Settled
    <3>5. \A u : Alone(u)' <=> Alone(u)
      BY <3>2, <3>3, <3>4 DEF Alone, HasPopped, Linking
    <3> QED
      BY <3>2, <3>3, <3>4, <3>5 DEF Serial
  <2> QED
    BY <2>1, <2>2
<1>2. Serial => ExactWhenSerial
  BY DEF Serial, ExactWhenSerial
<1> QED
  BY <1>1, <1>2, SerialInit, Invariance, PTL DEF Spec
=============================================================================
