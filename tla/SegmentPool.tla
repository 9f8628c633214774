---------------------------- MODULE SegmentPool ----------------------------
(***************************************************************************)
(* The pool of free segment ids of ipc/cache: a steque (steque.c) shared   *)
(* by the proxy workers.  handle_with_cache pops under sem_queue and       *)
(* enqueues without it, so an enqueue may run between any two statements   *)
(* of a pop or of another enqueue.  One action per access to a shared      *)
(* field, as the unoptimised build of the Makefile performs them: this->N  *)
(* is read and written in separate steps, this->back is read twice in an   *)
(* enqueue, and this->front->next is a read of this->front and then one of *)
(* the node, between which an enqueue may overwrite this->front.           *)
(*                                                                         *)
(* Nodes live at addresses.  malloc returns any address that is not        *)
(* allocated, so a stale pointer to a freed node may hit a newer one.      *)
(***************************************************************************)
EXTENDS Integers, Sequences, FiniteSets

CONSTANTS
  Workers,   \* proxy worker threads
  NSegments, \* nsegments of webproxy.c
  NAddr,     \* number of addresses malloc can return
  NULL,
  MaxN       \* bound on N, which lost updates let grow without limit

ASSUME SegmentAssumption ==
  /\ NSegments \in Nat \ {0}
  /\ NAddr \in Nat /\ NAddr >= NSegments
  /\ NULL \notin Int
  /\ MaxN \in Nat /\ MaxN >= NSegments

Segments == 0..(NSegments - 1)
Addr == 0..(NAddr - 1)

VARIABLES
  front, back, N,  \* the fields of steque_t
  heap,            \* [address -> node]: item and next
  allocated,       \* addresses that are allocated
  semQueue,
  crashed,         \* the proxy has exited: underflow, or a NULL dereference
  pc,
  id,              \* the id a worker has popped and not yet enqueued, or NULL
  node,            \* local: the node of a pop or enqueue
  tmp,             \* local: a value read and not yet used
  overlapped       \* history: two workers have been inside the steque at once

list == <<front, back, N>>
vars == <<front, back, N, heap, allocated, semQueue, crashed, pc, id, node, tmp, overlapped>>

\* main has enqueued id i in the node at address i.
Init ==
  LET last == NSegments - 1 IN
  /\ front = 0
  /\ back = last
  /\ N = NSegments
  /\ heap = [a \in Addr |->
               IF a \in Segments
               THEN [item |-> a, next |-> IF a = last THEN NULL ELSE a + 1]
               ELSE [item |-> NULL, next |-> NULL]]
  /\ allocated = Segments
  /\ semQueue = 1
  /\ crashed = FALSE
  /\ pc = [w \in Workers |-> "lock"]
  /\ id = [w \in Workers |-> NULL]
  /\ node = [w \in Workers |-> NULL]
  /\ tmp = [w \in Workers |-> NULL]
  /\ overlapped = FALSE

Goto(w, from, to) == ~crashed /\ pc[w] = from /\ pc' = [pc EXCEPT ![w] = to]
-----------------------------------------------------------------------------
(* Taking a segment: under sem_queue *)

\* sem_wait(sem_queue)
Lock(w) ==
  /\ Goto(w, "lock", "check")
  /\ semQueue > 0
  /\ semQueue' = semQueue - 1
  /\ UNCHANGED <<list, heap, allocated, crashed, id, node, tmp>>

\* steque_isempty: sem_post(sem_queue), sleep(1), try again
Poll(w) ==
  /\ Goto(w, "check", "lock")
  /\ N = 0
  /\ semQueue' = semQueue + 1
  /\ UNCHANGED <<list, heap, allocated, crashed, id, node, tmp>>

NotEmpty(w) ==
  /\ Goto(w, "check", "pop")
  /\ N # 0
  /\ UNCHANGED <<list, heap, allocated, semQueue, crashed, id, node, tmp>>

\* steque_pop with front = NULL: exit(STEQUE_FAILURE)
Underflow(w) ==
  /\ ~crashed
  /\ pc[w] = "pop"
  /\ front = NULL
  /\ crashed' = TRUE
  /\ UNCHANGED <<list, heap, allocated, semQueue, pc, id, node, tmp>>

\* node = this->front; ans = node->item
PopFront(w) ==
  /\ Goto(w, "pop", "next")
  /\ front # NULL
  /\ node' = [node EXCEPT ![w] = front]
  /\ id' = [id EXCEPT ![w] = heap[front].item]
  /\ UNCHANGED <<list, heap, allocated, semQueue, crashed, tmp>>

\* this->front = this->front->next, the reads: this->front ...
PopNext(w) ==
  /\ Goto(w, "next", "through")
  /\ tmp' = [tmp EXCEPT ![w] = front]
  /\ UNCHANGED <<list, heap, allocated, semQueue, crashed, id, node>>

\* ... and next of the node it points to
PopThrough(w) ==
  /\ Goto(w, "through", "advance")
  /\ tmp' = [tmp EXCEPT ![w] = heap[tmp[w]].next]
  /\ UNCHANGED <<list, heap, allocated, semQueue, crashed, id, node>>

\* Mutant of PopAdvance: this->front stays
PopAdvanceForgotten(w) ==
  /\ Goto(w, "advance", "test")
  /\ UNCHANGED <<list, heap, allocated, semQueue, crashed, id, node, tmp>>

\* this->front = this->front->next, the write
PopAdvance(w) ==
  /\ Goto(w, "advance", "test")
  /\ front' = tmp[w]
  /\ UNCHANGED <<back, N, heap, allocated, semQueue, crashed, id, node, tmp>>

\* if (this->front == NULL)
PopTest(w) ==
  /\ Goto(w, "test", IF front = NULL THEN "clear" ELSE "free")
  /\ UNCHANGED <<list, heap, allocated, semQueue, crashed, id, node, tmp>>

\* this->back = NULL
PopClear(w) ==
  /\ Goto(w, "clear", "free")
  /\ back' = NULL
  /\ UNCHANGED <<front, N, heap, allocated, semQueue, crashed, id, node, tmp>>

\* free(node)
PopFree(w) ==
  /\ Goto(w, "free", "load")
  /\ allocated' = allocated \ {node[w]}
  /\ node' = [node EXCEPT ![w] = NULL]
  /\ UNCHANGED <<list, heap, semQueue, crashed, id, tmp>>

\* this->N--, the read
PopLoad(w) ==
  /\ Goto(w, "load", "store")
  /\ tmp' = [tmp EXCEPT ![w] = N]
  /\ UNCHANGED <<list, heap, allocated, semQueue, crashed, id, node>>

\* this->N--, the write; sem_post(sem_queue)
PopStore(w) ==
  /\ Goto(w, "store", "use")
  /\ N' = tmp[w] - 1
  /\ tmp' = [tmp EXCEPT ![w] = NULL]
  /\ semQueue' = semQueue + 1
  /\ UNCHANGED <<front, back, heap, allocated, crashed, id, node>>
-----------------------------------------------------------------------------
(* Giving it back: no semaphore.  Between "use" and "malloc" is the transfer. *)

Transfer(w) ==
  /\ Goto(w, "use", "malloc")
  /\ UNCHANGED <<list, heap, allocated, semQueue, crashed, id, node, tmp>>

\* node = malloc(...); node->item = item; node->next = NULL
EnqMalloc(w) ==
  /\ Goto(w, "malloc", "empty")
  /\ \E a \in Addr \ allocated :
       /\ node' = [node EXCEPT ![w] = a]
       /\ allocated' = allocated \union {a}
       /\ heap' = [heap EXCEPT ![a] = [item |-> id[w], next |-> NULL]]
  /\ UNCHANGED <<list, semQueue, crashed, id, tmp>>

\* if (this->back == NULL)
EnqTest(w) ==
  /\ Goto(w, "empty", IF back = NULL THEN "first" ELSE "deref")
  /\ UNCHANGED <<list, heap, allocated, semQueue, crashed, id, node, tmp>>

\* this->front = node: from here on another worker can pop the id
EnqFirst(w) ==
  /\ Goto(w, "first", "back")
  /\ front' = node[w]
  /\ id' = [id EXCEPT ![w] = NULL]
  /\ UNCHANGED <<back, N, heap, allocated, semQueue, crashed, node, tmp>>

\* this->back->next = node: this->back is read again ...
EnqDeref(w) ==
  /\ Goto(w, "deref", "link")
  /\ back # NULL
  /\ tmp' = [tmp EXCEPT ![w] = back]
  /\ UNCHANGED <<list, heap, allocated, semQueue, crashed, id, node>>

\* ... and may be NULL by now
EnqNullDeref(w) ==
  /\ ~crashed
  /\ pc[w] = "deref"
  /\ back = NULL
  /\ crashed' = TRUE
  /\ UNCHANGED <<list, heap, allocated, semQueue, pc, id, node, tmp>>

\* ... or the node it points to may be freed by now
EnqLink(w) ==
  /\ Goto(w, "link", "back")
  /\ heap' = [heap EXCEPT ![tmp[w]].next = node[w]]
  /\ tmp' = [tmp EXCEPT ![w] = NULL]
  /\ id' = [id EXCEPT ![w] = NULL]
  /\ UNCHANGED <<list, allocated, semQueue, crashed, node>>

\* Mutant of EnqBack: this->back stays
EnqBackForgotten(w) ==
  /\ Goto(w, "back", "loadN")
  /\ node' = [node EXCEPT ![w] = NULL]
  /\ UNCHANGED <<list, heap, allocated, semQueue, crashed, id, tmp>>

\* this->back = node
EnqBack(w) ==
  /\ Goto(w, "back", "loadN")
  /\ back' = node[w]
  /\ node' = [node EXCEPT ![w] = NULL]
  /\ UNCHANGED <<front, N, heap, allocated, semQueue, crashed, id, tmp>>

\* this->N++, the read
EnqLoad(w) ==
  /\ Goto(w, "loadN", "storeN")
  /\ tmp' = [tmp EXCEPT ![w] = N]
  /\ UNCHANGED <<list, heap, allocated, semQueue, crashed, id, node>>

\* this->N++, the write; the handler returns and the worker takes a new request
EnqStore(w) ==
  /\ Goto(w, "storeN", "lock")
  /\ tmp[w] < MaxN
  /\ N' = tmp[w] + 1
  /\ tmp' = [tmp EXCEPT ![w] = NULL]
  /\ UNCHANGED <<front, back, heap, allocated, semQueue, crashed, id, node>>

Step(w) ==
  \/ Lock(w) \/ Poll(w) \/ NotEmpty(w) \/ Underflow(w) \/ PopFront(w)
  \/ PopNext(w) \/ PopThrough(w) \/ PopAdvance(w) \/ PopTest(w) \/ PopClear(w) \/ PopFree(w)
  \/ PopLoad(w) \/ PopStore(w) \/ Transfer(w) \/ EnqMalloc(w) \/ EnqTest(w)
  \/ EnqFirst(w) \/ EnqDeref(w) \/ EnqNullDeref(w) \/ EnqLink(w)
  \/ EnqBack(w) \/ EnqLoad(w) \/ EnqStore(w)

\* The workers that are inside steque_pop or steque_enqueue.
Inside == {w \in Workers : pc[w] \notin {"lock", "check", "use", "malloc"}}

Next ==
  /\ \E w \in Workers : Step(w)
  /\ overlapped' = (overlapped \/ Cardinality(Inside') > 1)

Spec == Init /\ [][Next]_vars
-----------------------------------------------------------------------------
(* Properties *)

\* A worker whose pop has taken front's item and not yet written this->front: what
\* it is going to write
Popping(w) == pc[w] \in {"next", "through", "advance"}
Upcoming(w) ==
  CASE pc[w] = "next" -> heap[front].next
    [] pc[w] = "through" -> heap[tmp[w]].next
    [] OTHER -> tmp[w]

\* A worker whose node is not linked yet
Linking(w) == pc[w] \in {"empty", "first", "deref", "link"}

\* Where the list of free segments starts
First == IF \E w \in Workers : Popping(w) THEN Upcoming(CHOOSE w \in Workers : Popping(w)) ELSE front

\* The addresses on the list, or behind a node that is about to be put on it (a
\* stale this->back may point to such a node): the least set that has the roots
\* and what their next fields lead to.
Roots == ({First} \union {node[w] : w \in {u \in Workers : Linking(u)}}) \ {NULL}
Closed(S) == Roots \subseteq S /\ \A a \in S : heap[a].next \in S \union {NULL}
Reachable == {a \in Addr : \A S \in SUBSET Addr : Closed(S) => a \in S}

Out == {id[w] : w \in Workers} \ {NULL}
FreeIds == {heap[a].item : a \in Reachable} \ Out

\* The steque, however its operations interleave, is a pool that may lose ids
\* and may end the process but never hands out an id twice.
Lossy == INSTANCE SegmentAllocator WITH
           None <- NULL, MayLose <- TRUE, free <- FreeIds, held <- id, ended <- crashed

ImplementsLossyPool == Lossy!ASpec

\* As long as no two operations have overlapped, the steque is an exact pool: it
\* has lost no id, has not crashed, and between operations N, on which
\* steque_isempty relies, is the number of elements on the list.
ExactWhenSerial ==
  ~overlapped =>
    /\ ~crashed
    /\ Inside = {} => /\ N = Cardinality(FreeIds)
                      /\ FreeIds \union Out = Segments

\* No interleaving of the workers makes the proxy exit with an underflow in
\* steque_pop or dereference a NULL this->back in steque_enqueue.
NoCrash == ~crashed
=============================================================================
