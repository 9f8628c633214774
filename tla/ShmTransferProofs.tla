------------------------- MODULE ShmTransferProofs -------------------------
(***************************************************************************)
(* The proof that ShmTransfer keeps its safety properties for any number   *)
(* of threads and segments, any files, any chunk size and queue length.    *)
(***************************************************************************)
EXTENDS ShmTransferInv, SequenceTheorems, TLAPS

-----------------------------------------------------------------------------
(* What the pieces of the protocol depend on *)

\* Whether a cache worker serves a segment depends on its own state only.
LEMMA SameServes ==
  ASSUME NEW c, cpc'[c] = cpc[c], job'[c] = job[c], offset'[c] = offset[c], NEW s
  PROVE  Serves(c, s)' = Serves(c, s)
  BY DEF Serves, Lags

\* The two sides of a transfer are related through their own state and that of
\* the one segment they share.
LEMMA SamePair ==
  ASSUME NEW w, NEW c,
         pc'[w] = pc[w], seg'[w] = seg[w], path'[w] = path[w], body'[w] = body[w],
         cpc'[c] = cpc[c], job'[c] = job[c], offset'[c] = offset[c],
         sem1'[seg[w]] = sem1[seg[w]], sem2'[seg[w]] = sem2[seg[w]],
         shm'[seg[w]] = shm[seg[w]]
  PROVE  Pair(w, c)' = Pair(w, c)
  BY DEF Pair, Fresh, HeaderOf, Slot, Chunk, HeaderToken

\* Nor does what the cache has left behind depend on anything else.
LEMMA SameServed ==
  ASSUME NEW w,
         pc'[w] = pc[w], seg'[w] = seg[w], path'[w] = path[w], body'[w] = body[w],
         sem1'[seg[w]] = sem1[seg[w]], sem2'[seg[w]] = sem2[seg[w]],
         shm'[seg[w]] = shm[seg[w]]
  PROVE  Served(w)' = Served(w)
  BY DEF Served, HeaderOf, Slot, Chunk, HeaderToken

\* A segment stays fresh while nobody touches it or its semaphores.
LEMMA SameFresh ==
  ASSUME NEW s, sem1'[s] = sem1[s], sem2'[s] = sem2[s], shm'[s] = shm[s]
  PROVE  Fresh(s)' = Fresh(s)
  BY DEF Fresh, ZeroMsg

\* A step of the process as a whole leaves the protocol state alone.
LEMMA SameProtocol ==
  ASSUME Protocol, UNCHANGED <<mq, sem1, sem2, shm, pc, seg, path, body, cacheVars>>
  PROVE  Protocol'
<1> USE DEF cacheVars
<1>1. \A c \in CacheWorkers : \A s : Serves(c, s)' = Serves(c, s)
  BY SameServes
<1>2. \A s : Fresh(s)' = Fresh(s)
  BY SameFresh
<1>3. \A w \in ProxyWorkers, c \in CacheWorkers : Pair(w, c)' = Pair(w, c)
  BY SamePair
<1>4. \A w \in ProxyWorkers : Served(w)' = Served(w)
  BY SameServed
<1>5. \A w \in ProxyWorkers : \A s : Holds(w, s)' = Holds(w, s)
  BY DEF Holds
<1>6. QueuedHeld' /\ QueuedWaits' /\ QueuedOnce' /\ QueuedUnserved'
  BY <1>1, <1>2, <1>5 DEF Protocol, QueuedHeld, QueuedWaits, QueuedOnce, QueuedUnserved
<1>7. ServedHeld' /\ ServedPair' /\ ServedOnce'
  BY <1>1, <1>3, <1>5 DEF Protocol, ServedHeld, ServedPair, ServedOnce
<1>8. UnheldFresh' /\ ParkedFresh' /\ Accounted'
  BY <1>1, <1>2, <1>4, <1>5 DEF Protocol, UnheldFresh, ParkedFresh, Accounted
<1> QED
  BY <1>6, <1>7, <1>8 DEF Protocol
-----------------------------------------------------------------------------
(* Steps of a proxy worker *)

\* A step of a worker that holds no segment, before and after.
LEMMA OutsideStep ==
  ASSUME TypeOK, Protocol, NEW w \in ProxyWorkers,
         pc[w] \notin Holding, pc'[w] \notin Holding,
         \A u \in ProxyWorkers \ {w} :
           pc'[u] = pc[u] /\ seg'[u] = seg[u] /\ path'[u] = path[u] /\ body'[u] = body[u],
         UNCHANGED <<mq, sem1, sem2, shm, cacheVars>>
  PROVE  Protocol'
<1> USE DEF TypeOK, cacheVars
<1>1. \A u \in ProxyWorkers : \A s : Holds(u, s)' = Holds(u, s)
  BY DEF Holds
<1>2. \A c \in CacheWorkers : \A s : Serves(c, s)' = Serves(c, s)
  BY SameServes
<1>3. \A s : Fresh(s)' = Fresh(s)
  BY SameFresh
<1>4. \A u \in ProxyWorkers, c \in CacheWorkers :
        pc[u] \in Holding => Pair(u, c)' = Pair(u, c)
  BY SamePair
<1>5. \A u \in ProxyWorkers : pc[u] \in Holding => Served(u)' = Served(u)
  BY SameServed
<1>6. \A u \in ProxyWorkers : pc'[u] \in Holding =>
        pc[u] \in Holding /\ pc'[u] = pc[u] /\ seg'[u] = seg[u] /\ path'[u] = path[u]
  OBVIOUS
<1>7. Transferring \subseteq Holding /\ {"send", "enqueue", "enqueueNF"} \subseteq Holding
  BY DEF Transferring, Holding
<1>8. QueuedHeld' /\ QueuedOnce' /\ QueuedUnserved' /\ ServedHeld' /\ ServedOnce' /\ UnheldFresh'
  BY <1>1, <1>2, <1>3 DEF Protocol, QueuedHeld, QueuedOnce, QueuedUnserved, ServedHeld, ServedOnce, UnheldFresh
<1>9. QueuedWaits'
  BY <1>1, <1>3, <1>6 DEF Protocol, QueuedWaits, Holds, Job
<1>10. ServedPair'
  BY <1>2, <1>4, <1>6, <1>7 DEF Protocol, ServedPair
<1>11. ParkedFresh'
  BY <1>3, <1>6, <1>7 DEF Protocol, ParkedFresh
<1>12. Accounted'
  BY <1>2, <1>5, <1>6, <1>7 DEF Protocol, Accounted
<1> QED
  BY <1>8, <1>9, <1>10, <1>11, <1>12 DEF Protocol

\* A step in the course of a transfer.  What has to be shown of it concerns the
\* worker, its segment and the cache worker that serves it, and nobody else.
LEMMA TransferStep ==
  ASSUME TypeOK, Local, Exclusive, Protocol, NEW w \in ProxyWorkers,
         pc[w] \in Transferring, pc'[w] \in Holding \ {"send"},
         seg'[w] = seg[w],
         \A u \in ProxyWorkers \ {w} :
           pc'[u] = pc[u] /\ seg'[u] = seg[u] /\ path'[u] = path[u] /\ body'[u] = body[u],
         \A s \in Segments \ {seg[w]} :
           sem1'[s] = sem1[s] /\ sem2'[s] = sem2[s] /\ shm'[s] = shm[s],
         UNCHANGED <<mq, cacheVars>>,
         \A i \in 1..Len(mq) : mq[i].id # seg[w],
         \A c \in CacheWorkers : Serves(c, seg[w]) => pc'[w] \in Transferring /\ Pair(w, c)',
         pc'[w] \notin Transferring => Fresh(seg[w])',
         pc'[w] \in Transferring => Served(w)' \/ \E c \in CacheWorkers : Serves(c, seg[w])
  PROVE  Protocol'
<1> USE DEF cacheVars
<1>1. Transferring \subseteq Holding /\ {"send", "enqueue", "enqueueNF"} \subseteq Holding
      /\ Transferring \cap {"send", "enqueue", "enqueueNF"} = {}
  BY DEF Transferring, Holding
<1>2. \A u \in ProxyWorkers : \A s : Holds(u, s)' = Holds(u, s)
  BY <1>1 DEF Holds
<1>3. \A c \in CacheWorkers : \A s : Serves(c, s)' = Serves(c, s)
  BY SameServes
<1>4. \A s \in Segments \ {seg[w]} : Fresh(s)' = Fresh(s)
  BY SameFresh
<1>5. \A u \in ProxyWorkers \ {w} : pc[u] \in Holding => seg[u] \in Segments \ {seg[w]}
  BY <1>1 DEF Local, ProxyLocal, Exclusive, Holds
<1>6. \A u \in ProxyWorkers \ {w}, c \in CacheWorkers :
        pc[u] \in Holding => Pair(u, c)' = Pair(u, c)
  BY <1>5, SamePair
<1>7. \A u \in ProxyWorkers \ {w} : pc[u] \in Holding => Served(u)' = Served(u)
  BY <1>5, SameServed
<1>8. QueuedHeld' /\ QueuedOnce' /\ QueuedUnserved' /\ ServedHeld' /\ ServedOnce'
  BY <1>2, <1>3 DEF Protocol, QueuedHeld, QueuedOnce, QueuedUnserved, ServedHeld, ServedOnce
<1>9. QueuedWaits'
  <2> SUFFICES ASSUME NEW i \in 1..Len(mq), NEW u \in ProxyWorkers, Holds(u, mq[i].id)
               PROVE  pc'[u] = "header" /\ path'[u] = mq[i].path /\ Fresh(seg[u])'
    BY <1>2 DEF QueuedWaits
  <2>1. u # w
    BY DEF Holds
  <2>2. pc[u] = "header" /\ path[u] = mq[i].path /\ Fresh(seg[u])
    BY DEF Protocol, QueuedWaits
  <2>3. Fresh(seg[u])'
    BY <1>1, <1>4, <1>5, <2>1, <2>2 DEF Holds
  <2> QED
    BY <2>1, <2>2, <2>3
<1>10. ServedPair'
  <2> SUFFICES ASSUME NEW c \in CacheWorkers, NEW u \in ProxyWorkers,
                      pc'[u] \in Holding, Serves(c, seg[u])'
               PROVE  pc'[u] \in Transferring /\ Pair(u, c)'
    BY DEF ServedPair
  <2>1. CASE u = w
    BY <1>3, <2>1
  <2>2. CASE u # w
    BY <1>3, <1>6, <2>2 DEF Protocol, ServedPair
  <2> QED
    BY <2>1, <2>2
<1>11. UnheldFresh'
  BY <1>1, <1>2, <1>4 DEF Protocol, UnheldFresh, Holds
<1>12. ParkedFresh'
  BY <1>1, <1>4, <1>5 DEF Protocol, ParkedFresh
<1>13. Accounted'
  BY <1>1, <1>3, <1>7 DEF Protocol, Accounted
<1> QED
  BY <1>8, <1>9, <1>10, <1>11, <1>12, <1>13 DEF Protocol

\* Taking a segment: nobody held it, so it is fresh, in no message and unserved.
LEMMA PopStep ==
  ASSUME TypeOK, Local, Exclusive, Protocol, NEW w \in ProxyWorkers, Pop(w)
  PROVE  Protocol'
<1> USE DEF cacheVars
<1>1. PICK s \in pool : seg' = [seg EXCEPT ![w] = s]
  BY DEF Pop
<1>2. pc[w] = "check" /\ pc' = [pc EXCEPT ![w] = "send"]
      /\ UNCHANGED <<mq, sem1, sem2, shm, path, body, cacheVars>>
  BY DEF Pop, Goto
<1>3. s \in Segments /\ \A u \in ProxyWorkers : ~Holds(u, s)
  BY DEF TypeOK, Exclusive
<1>4. Transferring \subseteq Holding /\ "send" \in Holding \ Transferring
      /\ "check" \notin Holding /\ {"send", "enqueue", "enqueueNF"} \subseteq Holding
  BY DEF Transferring, Holding
<1>5. pc'[w] = "send" /\ seg'[w] = s
      /\ \A u \in ProxyWorkers \ {w} : pc'[u] = pc[u] /\ seg'[u] = seg[u]
  BY <1>1, <1>2 DEF TypeOK
<1>6. \A u \in ProxyWorkers : \A t : Holds(u, t)' = (Holds(u, t) \/ (u = w /\ t = s))
  BY <1>2, <1>4, <1>5 DEF Holds
<1>7. \A c \in CacheWorkers : \A t : Serves(c, t)' = Serves(c, t)
  BY <1>2, SameServes
<1>8. \A t : Fresh(t)' = Fresh(t)
  BY <1>2, SameFresh
<1>9. \A u \in ProxyWorkers \ {w}, c \in CacheWorkers : Pair(u, c)' = Pair(u, c)
  BY <1>2, <1>5, SamePair
<1>10. \A u \in ProxyWorkers \ {w} : Served(u)' = Served(u)
  BY <1>2, <1>5, SameServed
<1>11. Fresh(s)
  BY <1>3 DEF Protocol, UnheldFresh
<1>12. \A i \in 1..Len(mq) : mq[i].id # s
  BY <1>3 DEF Protocol, QueuedHeld
<1>13. \A c \in CacheWorkers : ~Serves(c, s)
  BY <1>3 DEF Protocol, ServedHeld
<1>14. QueuedHeld' /\ QueuedOnce' /\ QueuedUnserved' /\ ServedHeld' /\ ServedOnce'
  BY <1>2, <1>6, <1>7 DEF Protocol, QueuedHeld, QueuedOnce, QueuedUnserved, ServedHeld, ServedOnce
<1>15. QueuedWaits'
  BY <1>2, <1>4, <1>5, <1>6, <1>8, <1>12 DEF Protocol, QueuedWaits, Holds
<1>16. ServedPair'
  BY <1>5, <1>7, <1>9, <1>13 DEF Protocol, ServedPair
<1>17. UnheldFresh'
  BY <1>6, <1>8 DEF Protocol, UnheldFresh
<1>18. ParkedFresh'
  BY <1>5, <1>8, <1>11 DEF Protocol, ParkedFresh
<1>19. Accounted'
  BY <1>2, <1>4, <1>5, <1>7, <1>10 DEF Protocol, Accounted
<1> QED
  BY <1>14, <1>15, <1>16, <1>17, <1>18, <1>19 DEF Protocol

\* Giving it back: it is fresh again, in no message and unserved.
LEMMA EnqueueStep ==
  ASSUME TypeOK, Local, Exclusive, Protocol, NEW w \in ProxyWorkers,
         NEW from \in {"enqueue", "enqueueNF"}, NEW to \in {"count", "countNF"},
         Enqueue(w, from, to)
  PROVE  Protocol'
<1> USE DEF cacheVars
<1>1. pc[w] = from /\ pc' = [pc EXCEPT ![w] = to]
      /\ UNCHANGED <<mq, sem1, sem2, shm, seg, path, body, cacheVars>>
  BY DEF Enqueue, Goto
<1>2. Transferring \subseteq Holding /\ {"send", "enqueue", "enqueueNF"} \subseteq Holding
      /\ from \in Holding /\ from \notin Transferring /\ to \notin Holding /\ from # "header"
  BY DEF Transferring, Holding
<1>3. pc'[w] = to /\ \A u \in ProxyWorkers \ {w} : pc'[u] = pc[u]
  BY <1>1 DEF TypeOK
<1>4. Holds(w, seg[w]) /\ \A u \in ProxyWorkers : \A t : Holds(u, t)' = (Holds(u, t) /\ u # w)
  BY <1>1, <1>2, <1>3 DEF Holds
<1>5. \A c \in CacheWorkers : \A t : Serves(c, t)' = Serves(c, t)
  BY <1>1, SameServes
<1>6. \A t : Fresh(t)' = Fresh(t)
  BY <1>1, SameFresh
<1>7. \A u \in ProxyWorkers \ {w}, c \in CacheWorkers : Pair(u, c)' = Pair(u, c)
  BY <1>1, <1>3, SamePair
<1>8. \A u \in ProxyWorkers \ {w} : Served(u)' = Served(u)
  BY <1>1, <1>3, SameServed
<1>9. Fresh(seg[w])
  BY <1>1 DEF Protocol, ParkedFresh
<1>10. \A i \in 1..Len(mq) : mq[i].id # seg[w]
  BY <1>1, <1>2, <1>4 DEF Protocol, QueuedWaits
<1>11. \A c \in CacheWorkers : ~Serves(c, seg[w])
  BY <1>1, <1>2 DEF Protocol, ServedPair
<1>12. \A t : (\E u \in ProxyWorkers : Holds(u, t)) /\ t # seg[w] => (\E u \in ProxyWorkers : Holds(u, t)')
  BY <1>4 DEF Holds
<1>13. QueuedHeld' /\ QueuedOnce' /\ QueuedUnserved'
  BY <1>1, <1>5, <1>10, <1>12 DEF Protocol, QueuedHeld, QueuedOnce, QueuedUnserved
<1>14. ServedHeld' /\ ServedOnce'
  BY <1>5, <1>11, <1>12 DEF Protocol, ServedHeld, ServedOnce
<1>15. QueuedWaits'
  BY <1>1, <1>3, <1>4, <1>6 DEF Protocol, QueuedWaits
<1>16. ServedPair'
  BY <1>1, <1>2, <1>3, <1>5, <1>7 DEF Protocol, ServedPair
<1>17. UnheldFresh'
  BY <1>6, <1>9, <1>12 DEF Protocol, UnheldFresh
<1>18. ParkedFresh'
  BY <1>1, <1>2, <1>3, <1>6 DEF Protocol, ParkedFresh
<1>19. Accounted'
  BY <1>1, <1>2, <1>3, <1>5, <1>8 DEF Protocol, Accounted
<1> QED
  BY <1>13, <1>14, <1>15, <1>16, <1>17, <1>18, <1>19 DEF Protocol

\* The elements of a queue after a send and after a receive.
LEMMA AppendElements ==
  ASSUME NEW S, NEW q \in Seq(S), NEW e \in S
  PROVE  /\ Append(q, e) \in Seq(S)
         /\ Len(Append(q, e)) = Len(q) + 1
         /\ \A i \in 1..Len(q) : Append(q, e)[i] = q[i]
         /\ Append(q, e)[Len(q) + 1] = e
  BY AppendProperties

\* The same for a receive.
LEMMA TailElements ==
  ASSUME NEW S, NEW q \in Seq(S), q # << >>
  PROVE  /\ Head(q) \in S
         /\ Head(q) = q[1]
         /\ Len(q) >= 1
         /\ Tail(q) \in Seq(S)
         /\ Len(Tail(q)) = Len(q) - 1
         /\ \A i \in 1..(Len(q) - 1) : Tail(q)[i] = q[i + 1]
  BY HeadTailProperties, EmptySeq

\* Sending the message: the segment was fresh, in no message and unserved.
LEMMA MqSendStep ==
  ASSUME TypeOK, Local, Exclusive, Protocol, NEW w \in ProxyWorkers, MqSend(w)
  PROVE  Protocol'
<1> USE DEF cacheVars
<1> DEFINE m == [id |-> seg[w], path |-> path[w]]
<1>1. pc[w] = "send" /\ pc' = [pc EXCEPT ![w] = "header"] /\ mq' = Append(mq, m)
      /\ UNCHANGED <<sem1, sem2, shm, seg, path, body, cacheVars>>
  BY DEF MqSend, Goto
<1>2. Transferring \subseteq Holding /\ {"send", "enqueue", "enqueueNF"} \subseteq Holding
      /\ "header" \in Transferring /\ "send" \notin Transferring
      /\ "header" \notin {"send", "enqueue", "enqueueNF"}
  BY DEF Transferring, Holding
<1>3. pc'[w] = "header" /\ \A u \in ProxyWorkers \ {w} : pc'[u] = pc[u]
  BY <1>1 DEF TypeOK
<1>4. Holds(w, seg[w]) /\ \A u \in ProxyWorkers : \A t : Holds(u, t)' = Holds(u, t)
  BY <1>1, <1>2, <1>3 DEF Holds
<1>5. m \in Job
  BY <1>1, <1>2 DEF Local, ProxyLocal, Job
<1>6. Len(mq) \in Nat /\ Len(mq') = Len(mq) + 1 /\ mq'[Len(mq) + 1] = m
      /\ \A i \in 1..Len(mq) : mq'[i] = mq[i]
  BY <1>1, <1>5, AppendElements, LenProperties DEF TypeOK
<1>7. \A i \in 1..Len(mq') : i \in 1..Len(mq) \/ i = Len(mq) + 1
  BY <1>6
<1>8. \A c \in CacheWorkers : \A t : Serves(c, t)' = Serves(c, t)
  BY <1>1, SameServes
<1>9. \A t : Fresh(t)' = Fresh(t)
  BY <1>1, SameFresh
<1>10. \A u \in ProxyWorkers \ {w}, c \in CacheWorkers : Pair(u, c)' = Pair(u, c)
  BY <1>1, <1>3, SamePair
<1>11. \A u \in ProxyWorkers \ {w} : Served(u)' = Served(u)
  BY <1>1, <1>3, SameServed
<1>12. Fresh(seg[w])
  BY <1>1 DEF Protocol, ParkedFresh
<1>13. \A i \in 1..Len(mq) : mq[i].id # seg[w]
  BY <1>1, <1>4 DEF Protocol, QueuedWaits
<1>14. \A c \in CacheWorkers : ~Serves(c, seg[w])
  BY <1>1, <1>2 DEF Protocol, ServedPair
<1>15. m.id = seg[w] /\ m.path = path[w]
  OBVIOUS
<1> HIDE DEF m
<1>16. QueuedHeld'
  BY <1>4, <1>6, <1>7, <1>15 DEF Protocol, QueuedHeld
<1>17. QueuedWaits'
  <2> SUFFICES ASSUME NEW i \in 1..Len(mq'), NEW u \in ProxyWorkers, Holds(u, mq'[i].id)
               PROVE  pc'[u] = "header" /\ path'[u] = mq'[i].path /\ Fresh(seg[u])'
    BY <1>4 DEF QueuedWaits
  <2>1. CASE i = Len(mq) + 1
    <3>1. u = w
      BY <1>4, <1>6, <1>15, <2>1 DEF Exclusive, Local, ProxyLocal, Holds
    <3> QED
      BY <1>1, <1>3, <1>6, <1>9, <1>12, <1>15, <2>1, <3>1
  <2>2. CASE i \in 1..Len(mq)
    <3>1. u # w
      BY <1>6, <1>13, <2>2 DEF Holds
    <3> QED
      BY <1>1, <1>3, <1>6, <1>9, <2>2, <3>1 DEF Protocol, QueuedWaits
  <2> QED
    BY <1>7, <2>1, <2>2
<1>18. QueuedOnce'
  BY <1>6, <1>7, <1>13, <1>15 DEF Protocol, QueuedOnce
<1>19. QueuedUnserved'
  BY <1>6, <1>7, <1>8, <1>14, <1>15 DEF Protocol, QueuedUnserved
<1>20. ServedHeld' /\ ServedOnce'
  BY <1>4, <1>8 DEF Protocol, ServedHeld, ServedOnce
<1>21. ServedPair'
  BY <1>1, <1>3, <1>8, <1>10, <1>14 DEF Protocol, ServedPair
<1>22. UnheldFresh' /\ ParkedFresh'
  BY <1>1, <1>2, <1>3, <1>4, <1>9 DEF Protocol, UnheldFresh, ParkedFresh
<1>23. Accounted'
  <2> SUFFICES ASSUME NEW u \in ProxyWorkers, pc'[u] \in Transferring
               PROVE  \/ \E i \in 1..Len(mq') : mq'[i].id = seg[u]
                      \/ \E c \in CacheWorkers : Serves(c, seg[u])
                      \/ Served(u)'
    BY <1>1, <1>8 DEF Accounted
  <2>1. CASE u = w
    BY <1>6, <1>15, <2>1
  <2>2. CASE u # w
    <3>1. 1..Len(mq) \subseteq 1..Len(mq')
      BY <1>6
    <3> QED
      BY <1>3, <1>6, <1>11, <2>2, <3>1 DEF Protocol, Accounted
  <2> QED
    BY <2>1, <2>2
<1> QED
  BY <1>16, <1>17, <1>18, <1>19, <1>20, <1>21, <1>22, <1>23 DEF Protocol
-----------------------------------------------------------------------------
(* Steps of a cache worker *)

\* A step in the course of serving segment s: afterwards c still serves it and is
\* at a point that matches its owner, or it serves nothing and the owner has all.
LEMMA ServeStep ==
  ASSUME TypeOK, Local, Exclusive, Protocol, NEW c \in CacheWorkers, NEW s \in Segments,
         Serves(c, s),
         \A b \in CacheWorkers \ {c} :
           cpc'[b] = cpc[b] /\ job'[b] = job[b] /\ offset'[b] = offset[b],
         \A t \in Segments \ {s} :
           sem1'[t] = sem1[t] /\ sem2'[t] = sem2[t] /\ shm'[t] = shm[t],
         UNCHANGED <<mq, pc, seg, path, body>>,
         \A t : Serves(c, t)' => t = s,
         Serves(c, s)' => \A w \in ProxyWorkers : Holds(w, s) => Pair(w, c)',
         ~Serves(c, s)' => \A w \in ProxyWorkers : Holds(w, s) => Served(w)'
  PROVE  Protocol'
<1>1. Transferring \subseteq Holding /\ {"send", "enqueue", "enqueueNF"} \subseteq Holding
      /\ Transferring \cap {"send", "enqueue", "enqueueNF"} = {}
  BY DEF Transferring, Holding
<1>2. \A u \in ProxyWorkers : \A t : Holds(u, t)' = Holds(u, t)
  BY DEF Holds
<1>3. \A b \in CacheWorkers \ {c} : \A t : Serves(b, t)' = Serves(b, t)
  BY SameServes
<1>4. \A t \in Segments \ {s} : Fresh(t)' = Fresh(t)
  BY SameFresh
<1>5. PICK w \in ProxyWorkers : Holds(w, s)
  BY DEF Protocol, ServedHeld
<1>6. \A u \in ProxyWorkers : Holds(u, s) => u = w
  BY <1>5 DEF Exclusive
<1>7. pc[w] \in Transferring
  BY <1>5 DEF Protocol, ServedPair, Holds
<1>8. \A i \in 1..Len(mq) : mq[i].id # s
  BY DEF Protocol, QueuedUnserved
<1>9. \A b \in CacheWorkers : Serves(b, s) => b = c
  BY DEF Protocol, ServedOnce
<1>10. \A t : Serves(c, t) => t = s
  BY DEF Serves
<1>11. \A u \in ProxyWorkers \ {w} : pc[u] \in Holding => seg[u] \in Segments \ {s}
  BY <1>6 DEF Local, ProxyLocal, Holds
<1>12. \A u \in ProxyWorkers \ {w}, b \in CacheWorkers \ {c} :
         pc[u] \in Holding => Pair(u, b)' = Pair(u, b)
  BY <1>11, SamePair
<1>13. \A u \in ProxyWorkers \ {w} : pc[u] \in Holding => Served(u)' = Served(u)
  BY <1>11, SameServed
<1>14. seg[w] = s /\ pc[w] \in Holding
  BY <1>5 DEF Holds
<1>15. QueuedHeld' /\ QueuedOnce'
  BY <1>2 DEF Protocol, QueuedHeld, QueuedOnce
<1>16. QueuedWaits'
  <2> SUFFICES ASSUME NEW i \in 1..Len(mq), NEW u \in ProxyWorkers, Holds(u, mq[i].id)
               PROVE  pc[u] = "header" /\ path[u] = mq[i].path /\ Fresh(seg[u])'
    BY <1>2 DEF QueuedWaits
  <2>1. pc[u] = "header" /\ path[u] = mq[i].path /\ Fresh(seg[u])
    BY DEF Protocol, QueuedWaits
  <2>2. u # w
    BY <1>8, <1>14 DEF Holds
  <2> QED
    BY <1>4, <1>11, <2>1, <2>2 DEF Holds
<1>17. QueuedUnserved'
  BY <1>3, <1>8 DEF Protocol, QueuedUnserved
<1>18. ServedHeld'
  BY <1>2, <1>3, <1>5 DEF Protocol, ServedHeld
<1>19. ServedOnce'
  BY <1>3, <1>9 DEF Protocol, ServedOnce
<1>20. ServedPair'
  <2> SUFFICES ASSUME NEW b \in CacheWorkers, NEW u \in ProxyWorkers,
                      pc[u] \in Holding, Serves(b, seg[u])'
               PROVE  pc[u] \in Transferring /\ Pair(u, b)'
    BY DEF ServedPair
  <2>1. CASE b = c
    BY <1>5, <1>6, <1>7, <1>14, <2>1 DEF Holds
  <2>2. CASE b # c
    <3>1. Serves(b, seg[u])
      BY <1>3, <2>2
    <3>2. u # w
      BY <1>9, <1>14, <2>2, <3>1
    <3> QED
      BY <1>12, <2>2, <3>1, <3>2 DEF Protocol, ServedPair
  <2> QED
    BY <2>1, <2>2
<1>21. UnheldFresh'
  BY <1>2, <1>4, <1>5 DEF Protocol, UnheldFresh
<1>22. ParkedFresh'
  BY <1>1, <1>4, <1>7, <1>11 DEF Protocol, ParkedFresh
<1>23. Accounted'
  <2> SUFFICES ASSUME NEW u \in ProxyWorkers, pc[u] \in Transferring
               PROVE  \/ \E i \in 1..Len(mq) : mq[i].id = seg[u]
                      \/ \E b \in CacheWorkers : Serves(b, seg[u])'
                      \/ Served(u)'
    BY DEF Accounted
  <2>1. CASE u = w
    BY <1>5, <1>14, <2>1
  <2>2. CASE u # w
    BY <1>1, <1>3, <1>10, <1>11, <1>13, <2>2 DEF Protocol, Accounted
  <2> QED
    BY <2>1, <2>2
<1> QED
  BY <1>15, <1>16, <1>17, <1>18, <1>19, <1>20, <1>21, <1>22, <1>23 DEF Protocol

\* A cache worker that has handed over the whole file notices the end of it.
LEMMA EndOfFileStep ==
  ASSUME TypeOK, Local, Protocol, NEW c \in CacheWorkers, EndOfFile(c)
  PROVE  Protocol'
<1> USE DEF proxyVars
<1>1. cpc[c] = "read" /\ cpc' = [cpc EXCEPT ![c] = "receive"]
      /\ PRead(job[c].path, offset[c]) <= 0
      /\ job' = [job EXCEPT ![c] = NoJob] /\ offset' = [offset EXCEPT ![c] = 0]
      /\ UNCHANGED <<mq, sem1, sem2, shm, pc, seg, path, body>>
  BY DEF EndOfFile, CGoto, NextJob
<1>2. FileLen[job[c].path] \in Nat /\ offset[c] <= FileLen[job[c].path] /\ offset[c] \in Nat
  BY <1>1, FileAssumption DEF Local, CacheLocal, TypeOK
<1>3. Lags(c)
  BY <1>1, <1>2, BoundAssumption DEF Lags, PRead
<1>4. \A b \in CacheWorkers : \A t : Serves(b, t)' = Serves(b, t)
  <2> SUFFICES ASSUME NEW b \in CacheWorkers, NEW t PROVE Serves(b, t)' = Serves(b, t)
    OBVIOUS
  <2>1. CASE b = c
    BY <1>1, <1>3, <2>1 DEF Serves, TypeOK
  <2>2. CASE b # c
    BY <1>1, <2>2, SameServes DEF TypeOK
  <2> QED
    BY <2>1, <2>2
<1>5. \A b \in CacheWorkers, w \in ProxyWorkers : Serves(b, seg[w]) => Pair(w, b)' = Pair(w, b)
  <2> SUFFICES ASSUME NEW b \in CacheWorkers, NEW w \in ProxyWorkers, Serves(b, seg[w])
               PROVE  Pair(w, b)' = Pair(w, b)
    OBVIOUS
  <2>1. b # c
    BY <1>3 DEF Serves
  <2> QED
    BY <1>1, <2>1, SamePair DEF TypeOK
<1>6. \A w \in ProxyWorkers : Served(w)' = Served(w)
  BY <1>1, SameServed
<1>7. \A t : Fresh(t)' = Fresh(t)
  BY <1>1, SameFresh
<1>8. \A w \in ProxyWorkers : \A t : Holds(w, t)' = Holds(w, t)
  BY <1>1 DEF Holds
<1>9. QueuedHeld' /\ QueuedWaits' /\ QueuedOnce' /\ QueuedUnserved'
  BY <1>1, <1>4, <1>7, <1>8 DEF Protocol, QueuedHeld, QueuedWaits, QueuedOnce, QueuedUnserved
<1>10. ServedHeld' /\ ServedPair' /\ ServedOnce'
  BY <1>1, <1>4, <1>5, <1>8 DEF Protocol, ServedHeld, ServedPair, ServedOnce
<1>11. UnheldFresh' /\ ParkedFresh' /\ Accounted'
  BY <1>1, <1>4, <1>6, <1>7, <1>8 DEF Protocol, UnheldFresh, ParkedFresh, Accounted
<1> QED
  BY <1>9, <1>10, <1>11 DEF Protocol

\* Receiving a message: its owner waits for the header and the segment is fresh.
LEMMA MqReceiveStep ==
  ASSUME TypeOK, Local, Exclusive, Protocol, NEW c \in CacheWorkers, MqReceive(c)
  PROVE  Protocol'
<1> USE DEF proxyVars
<1> DEFINE m == Head(mq)
<1>1. cpc[c] = "receive" /\ cpc' = [cpc EXCEPT ![c] = "lookup"] /\ mq # << >>
      /\ job' = [job EXCEPT ![c] = m] /\ mq' = Tail(mq)
      /\ UNCHANGED <<offset, sem1, sem2, shm, pc, seg, path, body>>
  BY DEF MqReceive, CGoto
<1>2. m \in Job /\ m = mq[1] /\ Len(mq) \in Nat /\ Len(mq) >= 1 /\ Len(mq') = Len(mq) - 1
      /\ \A i \in 1..(Len(mq) - 1) : mq'[i] = mq[i + 1]
  BY <1>1, TailElements, LenProperties DEF TypeOK
<1> HIDE DEF m
<1>3. \A i \in 1..Len(mq') : i + 1 \in 1..Len(mq) /\ i + 1 # 1 /\ mq'[i] = mq[i + 1]
  BY <1>2
<1>4. 1 \in 1..Len(mq) /\ m.id \in Segments
  BY <1>2 DEF Job
<1>5. cpc'[c] = "lookup" /\ job'[c] = m
      /\ \A b \in CacheWorkers \ {c} : cpc'[b] = cpc[b] /\ job'[b] = job[b] /\ offset'[b] = offset[b]
  BY <1>1 DEF TypeOK
<1>6. \A t : ~Serves(c, t) /\ (Serves(c, t)' <=> t = m.id)
  BY <1>1, <1>5 DEF Serves, Lags
<1>7. \A b \in CacheWorkers \ {c} : \A t : Serves(b, t)' = Serves(b, t)
  BY <1>5, SameServes
<1>8. \A b \in CacheWorkers : ~Serves(b, m.id)
  BY <1>2, <1>4 DEF Protocol, QueuedUnserved
<1>9. \A i \in 1..Len(mq') : mq'[i].id # m.id
  BY <1>2, <1>3, <1>4 DEF Protocol, QueuedOnce
<1>10. \A w \in ProxyWorkers : Holds(w, m.id) =>
         pc[w] = "header" /\ path[w] = m.path /\ Fresh(seg[w])
  BY <1>2, <1>4 DEF Protocol, QueuedWaits
<1>11. \E w \in ProxyWorkers : Holds(w, m.id)
  BY <1>2, <1>4 DEF Protocol, QueuedHeld
<1>12. \A t : Fresh(t)' = Fresh(t)
  BY <1>1, SameFresh
<1>13. \A w \in ProxyWorkers : \A t : Holds(w, t)' = Holds(w, t)
  BY <1>1 DEF Holds
<1>14. \A w \in ProxyWorkers : Served(w)' = Served(w)
  BY <1>1, SameServed
<1>15. \A w \in ProxyWorkers, b \in CacheWorkers \ {c} : Pair(w, b)' = Pair(w, b)
  BY <1>1, <1>5, SamePair
<1>16. \A w \in ProxyWorkers : Holds(w, m.id) => Pair(w, c)'
  <2> SUFFICES ASSUME NEW w \in ProxyWorkers, Holds(w, m.id) PROVE Pair(w, c)'
    OBVIOUS
  <2>1. pc'[w] = "header" /\ path'[w] = job'[c].path /\ Fresh(seg[w])'
    BY <1>1, <1>5, <1>10, <1>12
  <2> QED
    BY <1>5, <2>1 DEF Pair
<1>17. QueuedHeld' /\ QueuedOnce'
  BY <1>2, <1>3, <1>13 DEF Protocol, QueuedHeld, QueuedOnce
<1>18. QueuedWaits'
  BY <1>1, <1>3, <1>12, <1>13 DEF Protocol, QueuedWaits
<1>19. QueuedUnserved'
  BY <1>3, <1>6, <1>7, <1>9 DEF Protocol, QueuedUnserved
<1>20. ServedHeld'
  BY <1>6, <1>7, <1>11, <1>13 DEF Protocol, ServedHeld
<1>21. ServedOnce'
  BY <1>6, <1>7, <1>8 DEF Protocol, ServedOnce
<1>22. ServedPair'
  BY <1>1, <1>6, <1>7, <1>10, <1>15, <1>16 DEF Protocol, ServedPair, Holds, Transferring
<1>23. UnheldFresh' /\ ParkedFresh'
  BY <1>1, <1>12, <1>13 DEF Protocol, UnheldFresh, ParkedFresh
<1>24. Accounted'
  <2> SUFFICES ASSUME NEW w \in ProxyWorkers, pc[w] \in Transferring
               PROVE  \/ \E i \in 1..Len(mq') : mq'[i].id = seg[w]
                      \/ \E b \in CacheWorkers : Serves(b, seg[w])'
                      \/ Served(w)'
    BY <1>1 DEF Accounted
  <2>1. CASE \E i \in 1..Len(mq) : mq[i].id = seg[w]
    <3>1. PICK i \in 1..Len(mq) : mq[i].id = seg[w]
      BY <2>1
    <3>2. CASE i = 1
      BY <1>1, <1>2, <1>6, <3>1, <3>2
    <3>3. CASE i # 1
      <4>1. i - 1 \in 1..Len(mq') /\ mq'[i - 1] = mq[i]
        BY <1>2, <3>3
      <4> QED
        BY <3>1, <4>1
    <3> QED
      BY <3>2, <3>3
  <2>2. CASE \E b \in CacheWorkers : Serves(b, seg[w])
    BY <1>1, <1>6, <1>7, <2>2
  <2>3. CASE Served(w)
    BY <1>14, <2>3
  <2> QED
    BY <2>1, <2>2, <2>3 DEF Protocol, Accounted
<1> QED
  BY <1>17, <1>18, <1>19, <1>20, <1>21, <1>22, <1>23, <1>24 DEF Protocol
-----------------------------------------------------------------------------
(* Every action preserves the invariant *)

\* Operations of the steque, racing or not, add no id of their own.
LEMMA ChangeQueueType ==
  ASSUME raced \in BOOLEAN, NEW w, NEW ids, ChangeQueue(w, ids)
  PROVE  pool' \subseteq ids /\ raced' \in BOOLEAN
<1>1. pool' \subseteq ids
  BY DEF ChangeQueue
<1>2. raced' \in BOOLEAN
  BY Zenon DEF ChangeQueue
<1> QED
  BY <1>1, <1>2

\* The actions of a worker that holds no segment, but for Pop.
LEMMA BeginInv ==
  ASSUME IInv, NEW w \in ProxyWorkers, Begin(w)
  PROVE  IInv'
<1> USE DEF IInv
<1>1. TypeOK'
  BY DEF TypeOK, Begin, Goto, cacheVars, ProxyPC
<1>2. Local'
  BY DEF TypeOK, Begin, Goto, cacheVars, Local, QueueLock, ProxyLocal, CacheLocal, Holding
<1>3. AnsweredInFull' /\ DeliveredPrefix' /\ Exclusive'
  BY DEF TypeOK, Begin, Goto, Local, ProxyLocal, AnsweredInFull, DeliveredPrefix, Exclusive, Holds, Holding
<1>4. Protocol'
  BY OutsideStep DEF TypeOK, Begin, Goto, Holding
<1> QED
  BY <1>1, <1>2, <1>3, <1>4

\* sem_wait(sem_queue) keeps the invariant: only one worker is past it.
LEMMA LockQueueInv ==
  ASSUME IInv, NEW w \in ProxyWorkers, LockQueue(w)
  PROVE  IInv'
<1> USE DEF IInv
<1>1. TypeOK'
  BY DEF TypeOK, LockQueue, Goto, cacheVars, ProxyPC
<1>2. Local'
  BY DEF TypeOK, LockQueue, Goto, cacheVars, Local, QueueLock, ProxyLocal, CacheLocal, Holding
<1>3. AnsweredInFull' /\ DeliveredPrefix' /\ Exclusive'
  BY DEF TypeOK, LockQueue, Goto, AnsweredInFull, DeliveredPrefix, Exclusive, Holds, Holding
<1>4. Protocol'
  BY OutsideStep DEF TypeOK, LockQueue, Goto, Holding
<1> QED
  BY <1>1, <1>2, <1>3, <1>4

\* Finding the pool empty and releasing sem_queue keeps the invariant.
LEMMA PollQueueInv ==
  ASSUME IInv, NEW w \in ProxyWorkers, PollQueue(w)
  PROVE  IInv'
<1> USE DEF IInv
<1>1. TypeOK'
  BY DEF TypeOK, PollQueue, Goto, cacheVars, ProxyPC, Local, QueueLock
<1>2. Local'
  BY DEF TypeOK, PollQueue, Goto, cacheVars, Local, QueueLock, ProxyLocal, CacheLocal, Holding
<1>3. AnsweredInFull' /\ DeliveredPrefix' /\ Exclusive'
  BY DEF TypeOK, PollQueue, Goto, AnsweredInFull, DeliveredPrefix, Exclusive, Holds, Holding
<1>4. Protocol'
  BY OutsideStep DEF TypeOK, PollQueue, Goto, Holding
<1> QED
  BY <1>1, <1>2, <1>3, <1>4

\* The exit of the process after a race keeps the invariant.
LEMMA CrashInv ==
  ASSUME IInv, NEW w \in ProxyWorkers, Crash(w)
  PROVE  IInv'
<1> USE DEF IInv
<1>1. alive' \in BOOLEAN
  BY Zenon DEF Crash
<1>2. TypeOK'
  BY <1>1 DEF TypeOK, Crash, cacheVars
<1>3. Local'
  BY DEF Crash, cacheVars, Local, QueueLock, ProxyLocal, CacheLocal, Holding
<1>4. AnsweredInFull' /\ DeliveredPrefix' /\ Exclusive'
  BY DEF Crash, AnsweredInFull, DeliveredPrefix, Exclusive, Holds
<1>5. Protocol'
  BY SameProtocol DEF Crash
<1> QED
  BY <1>2, <1>3, <1>4, <1>5

\* The N++ of steque_enqueue, racing or not, keeps the invariant.
LEMMA CountInv ==
  ASSUME IInv, NEW w \in ProxyWorkers,
         Count(w, "count", "return") \/ Count(w, "countNF", "sendNF")
  PROVE  IInv'
<1> USE DEF IInv
<1>1. pool' \subseteq pool /\ raced' \in BOOLEAN
  BY ChangeQueueType DEF TypeOK, Count
<1>0. /\ UNCHANGED <<alive, semQueue, mq, sem1, sem2, shm, seg, path, status, body, cacheVars>>
      /\ \/ pc[w] = "count" /\ pc' = [pc EXCEPT ![w] = "return"]
         \/ pc[w] = "countNF" /\ pc' = [pc EXCEPT ![w] = "sendNF"]
  BY DEF Count, Goto
<1>2. TypeOK'
  BY <1>0, <1>1 DEF TypeOK, cacheVars, ProxyPC
<1>3. Local'
  <2>1. QueueLock'
    BY <1>0 DEF TypeOK, Local, QueueLock
  <2>2. \A u \in ProxyWorkers : ProxyLocal(u)'
    BY <1>0 DEF TypeOK, Local, ProxyLocal, Holding
  <2>3. \A c \in CacheWorkers : CacheLocal(c)'
    BY <1>0 DEF cacheVars, Local, CacheLocal
  <2> QED
    BY <2>1, <2>2, <2>3 DEF Local
<1>4. AnsweredInFull'
  BY <1>0 DEF TypeOK, Local, ProxyLocal, AnsweredInFull
<1>6. DeliveredPrefix'
  BY <1>0 DEF DeliveredPrefix
<1>7. Exclusive'
  BY <1>0, <1>1 DEF TypeOK, Exclusive, Holds, Holding
<1>5. Protocol'
  BY <1>0, OutsideStep DEF TypeOK, Holding
<1> QED
  BY <1>2, <1>3, <1>4, <1>5, <1>6, <1>7

\* Answering FILE_NOT_FOUND keeps the invariant.
LEMMA SendNotFoundInv ==
  ASSUME IInv, NEW w \in ProxyWorkers, SendNotFound(w)
  PROVE  IInv'
<1> USE DEF IInv
<1>1. TypeOK'
  BY DEF TypeOK, SendNotFound, Goto, cacheVars, ProxyPC
<1>2. Local'
  BY DEF TypeOK, SendNotFound, Goto, cacheVars, Local, QueueLock, ProxyLocal, CacheLocal, Holding
<1>3. AnsweredInFull' /\ DeliveredPrefix' /\ Exclusive'
  BY DEF TypeOK, SendNotFound, Goto, Local, ProxyLocal, AnsweredInFull, DeliveredPrefix, Exclusive, Holds, Holding
<1>4. Protocol'
  BY OutsideStep DEF TypeOK, SendNotFound, Goto, Holding
<1> QED
  BY <1>1, <1>2, <1>3, <1>4

\* The return of the handler keeps the invariant.
LEMMA ReturnInv ==
  ASSUME IInv, NEW w \in ProxyWorkers, Return(w)
  PROVE  IInv'
<1> USE DEF IInv
<1>1. TypeOK'
  BY DEF TypeOK, Return, Goto, cacheVars, ProxyPC
<1>2. Local'
  BY DEF TypeOK, Return, Goto, cacheVars, Local, QueueLock, ProxyLocal, CacheLocal, Holding
<1>3. AnsweredInFull' /\ DeliveredPrefix' /\ Exclusive'
  BY DEF TypeOK, Return, Goto, Local, ProxyLocal, AnsweredInFull, DeliveredPrefix, Exclusive, Holds, Holding
<1>4. Protocol'
  BY OutsideStep DEF TypeOK, Return, Goto, Holding
<1> QED
  BY <1>1, <1>2, <1>3, <1>4

\* Taking a segment and giving it back.
LEMMA PopInv ==
  ASSUME IInv, NEW w \in ProxyWorkers, Pop(w)
  PROVE  IInv'
<1> USE DEF IInv
<1>1. PICK s \in pool : seg' = [seg EXCEPT ![w] = s] /\ ChangeQueue(w, pool \ {s})
  BY DEF Pop
<1>2. pool' \subseteq pool \ {s} /\ raced' \in BOOLEAN
  BY <1>1, ChangeQueueType DEF TypeOK
<1>3. TypeOK'
  BY <1>1, <1>2 DEF TypeOK, Pop, Goto, cacheVars, ProxyPC, Local, QueueLock
<1>4. Local'
  BY <1>1 DEF TypeOK, Pop, Goto, cacheVars, Local, QueueLock, ProxyLocal, CacheLocal, Holding
<1>5. AnsweredInFull' /\ DeliveredPrefix'
  BY <1>1 DEF TypeOK, Pop, Goto, Local, ProxyLocal, AnsweredInFull, DeliveredPrefix
<1>6. Exclusive'
  BY <1>1, <1>2 DEF TypeOK, Pop, Goto, Exclusive, Holds, Holding
<1>7. Protocol'
  BY PopStep
<1> QED
  BY <1>3, <1>4, <1>5, <1>6, <1>7

\* Giving the segment back keeps the invariant, because it is fresh.
LEMMA EnqueueInv ==
  ASSUME IInv, NEW w \in ProxyWorkers,
         Enqueue(w, "enqueue", "count") \/ Enqueue(w, "enqueueNF", "countNF")
  PROVE  IInv'
<1> USE DEF IInv
<1>1. pool' \subseteq pool \union {seg[w]} /\ raced' \in BOOLEAN
  BY ChangeQueueType DEF TypeOK, Enqueue
<1>0. /\ UNCHANGED <<alive, semQueue, mq, sem1, sem2, shm, seg, path, status, body, cacheVars>>
      /\ \/ pc[w] = "enqueue" /\ pc' = [pc EXCEPT ![w] = "count"]
         \/ pc[w] = "enqueueNF" /\ pc' = [pc EXCEPT ![w] = "countNF"]
  BY DEF Enqueue, Goto
<1>2. TypeOK'
  <2>1. seg[w] \in Segments
    BY <1>0 DEF Local, ProxyLocal, Holding
  <2>2. pool' \in SUBSET Segments
    BY <1>1, <2>1 DEF TypeOK
  <2>3. pc' \in [ProxyWorkers -> ProxyPC]
    BY <1>0 DEF TypeOK, ProxyPC
  <2> QED
    BY <1>0, <1>1, <2>2, <2>3 DEF TypeOK, cacheVars
<1>3. Local'
  <2>1. QueueLock'
    BY <1>0 DEF TypeOK, Local, QueueLock
  <2>2. \A u \in ProxyWorkers : ProxyLocal(u)'
    BY <1>0 DEF TypeOK, Local, ProxyLocal, Holding
  <2>3. \A c \in CacheWorkers : CacheLocal(c)'
    BY <1>0 DEF cacheVars, Local, CacheLocal
  <2> QED
    BY <2>1, <2>2, <2>3 DEF Local
<1>4. AnsweredInFull'
  BY <1>0 DEF TypeOK, AnsweredInFull
<1>7. DeliveredPrefix'
  BY <1>0 DEF DeliveredPrefix
<1>5. Exclusive'
  <2>1. Holds(w, seg[w]) /\ \A u \in ProxyWorkers : \A t : Holds(u, t)' => Holds(u, t) /\ u # w
    BY <1>0 DEF TypeOK, Holds, Holding
  <2> QED
    BY <1>1, <2>1 DEF Exclusive
<1>6. Protocol'
  BY EnqueueStep
<1> QED
  BY <1>2, <1>3, <1>4, <1>5, <1>6, <1>7

\* Naming a fresh segment in a message keeps the invariant.
LEMMA MqSendInv ==
  ASSUME IInv, NEW w \in ProxyWorkers, MqSend(w)
  PROVE  IInv'
<1> USE DEF IInv
<1>1. [id |-> seg[w], path |-> path[w]] \in Job
  BY DEF MqSend, Goto, Local, ProxyLocal, Holding, Job
<1>2. mq' \in Seq(Job) /\ Len(mq') <= MQMax
  BY <1>1, AppendElements, LenProperties, BoundAssumption DEF MqSend, TypeOK
<1>3. TypeOK'
  BY <1>2 DEF TypeOK, MqSend, Goto, cacheVars, ProxyPC
<1>4. Local'
  BY DEF TypeOK, MqSend, Goto, cacheVars, Local, QueueLock, ProxyLocal, CacheLocal, Holding
<1>5. AnsweredInFull' /\ DeliveredPrefix' /\ Exclusive'
  BY DEF TypeOK, MqSend, Goto, AnsweredInFull, DeliveredPrefix, Exclusive, Holds, Holding
<1>6. Protocol'
  BY MqSendStep
<1> QED
  BY <1>3, <1>4, <1>5, <1>6

\* What holds for a worker whose request is no longer queued.
LEMMA OwnerFacts ==
  ASSUME IInv, NEW w \in ProxyWorkers, pc[w] \in Transferring,
         pc[w] # "header" \/ sem1[seg[w]] > 0
  PROVE  /\ seg[w] \in Segments /\ path[w] \in Paths /\ pc[w] \in Holding
         /\ \A i \in 1..Len(mq) : mq[i].id # seg[w]
         /\ \A c \in CacheWorkers : Serves(c, seg[w]) => Pair(w, c)
         /\ Served(w) \/ \E c \in CacheWorkers : Serves(c, seg[w])
         /\ Len(body[w]) \in Nat
<1> USE DEF IInv
<1>1. pc[w] \in Holding
  BY DEF Transferring, Holding
<1>2. seg[w] \in Segments /\ path[w] \in Paths
  BY <1>1 DEF Local, ProxyLocal, Transferring
<1>3. \A i \in 1..Len(mq) : mq[i].id # seg[w]
  BY <1>1 DEF Protocol, QueuedWaits, Holds, Fresh
<1>4. \A c \in CacheWorkers : Serves(c, seg[w]) => Pair(w, c)
  BY <1>1 DEF Protocol, ServedPair
<1>5. Served(w) \/ \E c \in CacheWorkers : Serves(c, seg[w])
  BY <1>3 DEF Protocol, Accounted
<1>6. Len(body[w]) \in Nat
  BY LenProperties DEF TypeOK
<1> QED
  BY <1>1, <1>2, <1>3, <1>4, <1>5, <1>6

\* What holds for a cache worker that serves a segment.
LEMMA ServerFacts ==
  ASSUME IInv, NEW c \in CacheWorkers, NEW s, Serves(c, s)
  PROVE  /\ job[c].id = s /\ job[c] \in Job /\ s \in Segments
         /\ cpc[c] \in CachePC \ {"receive"}
         /\ offset[c] \in Nat /\ nread[c] \in Nat
         /\ cpc[c] \in {"postHeader", "read", "waitFree", "write", "postChunk"} =>
              /\ job[c].path \in Cached /\ FileLen[job[c].path] \in Nat
              /\ offset[c] <= FileLen[job[c].path]
         /\ cpc[c] \in {"read", "waitFree", "write"} => offset[c] < FileLen[job[c].path]
<1> USE DEF IInv
<1>1. job[c].id = s /\ cpc[c] \in CachePC \ {"receive"} /\ offset[c] \in Nat /\ nread[c] \in Nat
  BY DEF Serves, TypeOK
<1>2. job[c] \in Job /\ s \in Segments
  BY <1>1 DEF Local, CacheLocal, Job
<1>3. cpc[c] \in {"postHeader", "read", "waitFree", "write", "postChunk"} =>
        /\ job[c].path \in Cached /\ FileLen[job[c].path] \in Nat
        /\ offset[c] <= FileLen[job[c].path]
  BY FileAssumption DEF Local, CacheLocal
<1>4. cpc[c] \in {"read", "waitFree", "write"} => offset[c] < FileLen[job[c].path]
  BY <1>1, <1>3, BoundAssumption DEF Local, CacheLocal, Serves, Lags, PRead
<1> QED
  BY <1>1, <1>2, <1>3, <1>4

\* Consuming the header keeps the invariant.
LEMMA WaitHeaderInv ==
  ASSUME IInv, NEW w \in ProxyWorkers, WaitHeader(w)
  PROVE  IInv'
<1> USE DEF IInv
<1> DEFINE s == seg[w]
<1>1. /\ pc[w] = "header" /\ sem1[s] > 0
      /\ pc' = [pc EXCEPT ![w] = "test"]
      /\ sem1' = [sem1 EXCEPT ![s] = @ - 1]
      /\ UNCHANGED <<alive, semQueue, pool, raced, mq, sem2, shm, seg, path, status, body, cacheVars>>
  BY DEF WaitHeader, Goto
<1>2. /\ s \in Segments /\ \A i \in 1..Len(mq) : mq[i].id # s
      /\ \A c \in CacheWorkers : Serves(c, s) => Pair(w, c)
      /\ Served(w) \/ \E c \in CacheWorkers : Serves(c, s)
  BY <1>1, OwnerFacts DEF Transferring
<1>3. TypeOK'
  BY <1>1, <1>2 DEF TypeOK, cacheVars, ProxyPC
<1>4. Local'
  BY <1>1 DEF TypeOK, cacheVars, Local, QueueLock, ProxyLocal, CacheLocal, Holding
<1>5. AnsweredInFull' /\ DeliveredPrefix' /\ Exclusive'
  BY <1>1 DEF TypeOK, AnsweredInFull, DeliveredPrefix, Exclusive, Holds, Holding
<1>6. pc'[w] = "test" /\ sem1'[s] = sem1[s] - 1 /\ sem1[s] \in 0..2
  BY <1>1, <1>2 DEF TypeOK
<1>7. \A c \in CacheWorkers : Serves(c, s) => Pair(w, c)'
  <2> SUFFICES ASSUME NEW c \in CacheWorkers, Serves(c, s) PROVE Pair(w, c)'
    OBVIOUS
  <2> QED
    BY <1>1, <1>2, <1>6, ServerFacts
    DEF cacheVars, Pair, Slot, Chunk, HeaderOf, HeaderToken, Fresh, CachePC
<1>8. Served(w) => Served(w)'
  BY <1>1, <1>6 DEF Served, Slot, Chunk, HeaderOf, HeaderToken
<1>9. Protocol'
  BY <1>1, <1>2, <1>6, <1>7, <1>8, TransferStep DEF TypeOK, Transferring, Holding
<1> QED
  BY <1>3, <1>4, <1>5, <1>9

\* The memset after a miss makes the segment fresh again.
LEMMA NotFoundInv ==
  ASSUME IInv, NEW w \in ProxyWorkers, NotFound(w)
  PROVE  IInv'
<1> USE DEF IInv
<1> DEFINE s == seg[w]
<1>1. /\ pc[w] = "test" /\ shm[s].type = -1
      /\ pc' = [pc EXCEPT ![w] = "enqueueNF"]
      /\ shm' = [shm EXCEPT ![s] = ZeroMsg]
      /\ UNCHANGED <<alive, semQueue, pool, raced, mq, sem1, sem2, seg, path, status, body, cacheVars>>
  BY DEF NotFound, Goto
<1>2. /\ s \in Segments /\ \A i \in 1..Len(mq) : mq[i].id # s
      /\ \A c \in CacheWorkers : Serves(c, s) => Pair(w, c)
      /\ Served(w) \/ \E c \in CacheWorkers : Serves(c, s)
  BY <1>1, OwnerFacts DEF Transferring
<1>3. \A c \in CacheWorkers : ~Serves(c, s)
  <2> SUFFICES ASSUME NEW c \in CacheWorkers, Serves(c, s) PROVE FALSE
    OBVIOUS
  <2> QED
    BY <1>1, <1>2, ServerFacts DEF Pair, HeaderOf, CachePC
<1>4. path[w] \notin Cached /\ sem1[s] = 0 /\ sem2[s] = 1
  BY <1>1, <1>2, <1>3 DEF Served, HeaderOf, HeaderToken
<1>5. pc'[w] = "enqueueNF" /\ shm'[s] = ZeroMsg
  BY <1>1, <1>2 DEF TypeOK
<1>6. TypeOK'
  BY <1>1, <1>2 DEF TypeOK, cacheVars, ProxyPC, ZeroMsg, Message
<1>7. Local'
  <2>1. QueueLock' /\ \A c \in CacheWorkers : CacheLocal(c)'
    BY <1>1 DEF TypeOK, cacheVars, Local, QueueLock, CacheLocal
  <2>2. \A u \in ProxyWorkers : ProxyLocal(u)'
    BY <1>1, <1>4 DEF TypeOK, Local, ProxyLocal, Holding
  <2> QED
    BY <2>1, <2>2 DEF Local
<1>8. AnsweredInFull' /\ DeliveredPrefix' /\ Exclusive'
  BY <1>1 DEF TypeOK, AnsweredInFull, DeliveredPrefix, Exclusive, Holds, Holding
<1>9. Fresh(s)'
  BY <1>1, <1>4, <1>5 DEF Fresh
<1>10. Protocol'
  BY <1>1, <1>2, <1>3, <1>5, <1>9, TransferStep DEF TypeOK, Transferring, Holding
<1> QED
  BY <1>6, <1>7, <1>8, <1>10

\* The OK header is sent only for a cached path.
LEMMA SendHeaderInv ==
  ASSUME IInv, NEW w \in ProxyWorkers, SendHeader(w)
  PROVE  IInv'
<1> USE DEF IInv
<1> DEFINE s == seg[w]
<1>1. /\ pc[w] = "test" /\ shm[s].type # -1
      /\ pc' = [pc EXCEPT ![w] = "loop"]
      /\ status' = [status EXCEPT ![w] = "OK"]
      /\ UNCHANGED <<alive, semQueue, pool, raced, mq, sem1, sem2, shm, seg, path, body, cacheVars>>
  BY DEF SendHeader, Goto
<1>2. /\ s \in Segments /\ \A i \in 1..Len(mq) : mq[i].id # s
      /\ \A c \in CacheWorkers : Serves(c, s) => Pair(w, c)
      /\ Served(w) \/ \E c \in CacheWorkers : Serves(c, s)
  BY <1>1, OwnerFacts DEF Transferring
<1>3. pc'[w] = "loop"
  BY <1>1 DEF TypeOK
<1>4. \A c \in CacheWorkers : Serves(c, s) => path[w] \in Cached /\ Pair(w, c)'
  <2> SUFFICES ASSUME NEW c \in CacheWorkers, Serves(c, s) PROVE path[w] \in Cached /\ Pair(w, c)'
    OBVIOUS
  <2> QED
    BY <1>1, <1>2, <1>3, ServerFacts
    DEF cacheVars, Pair, Slot, Chunk, HeaderOf, HeaderToken, CachePC
<1>5. Served(w) => path[w] \in Cached /\ Served(w)'
  BY <1>1, <1>3 DEF Served, Slot, Chunk, HeaderOf, HeaderToken, ZeroMsg
<1>6. TypeOK'
  BY <1>1 DEF TypeOK, cacheVars, ProxyPC
<1>7. Local'
  <2>1. QueueLock' /\ \A c \in CacheWorkers : CacheLocal(c)'
    BY <1>1 DEF TypeOK, cacheVars, Local, QueueLock, CacheLocal
  <2>2. \A u \in ProxyWorkers : ProxyLocal(u)'
    BY <1>1, <1>2, <1>4, <1>5 DEF TypeOK, Local, ProxyLocal, Holding
  <2> QED
    BY <2>1, <2>2 DEF Local
<1>8. AnsweredInFull' /\ DeliveredPrefix' /\ Exclusive'
  BY <1>1 DEF TypeOK, AnsweredInFull, DeliveredPrefix, Exclusive, Holds, Holding
<1>9. Protocol'
  BY <1>1, <1>2, <1>3, <1>4, <1>5, TransferStep DEF TypeOK, Transferring, Holding
<1> QED
  BY <1>6, <1>7, <1>8, <1>9

\* sem_wait(sem_1) in the loop takes a full chunk.
LEMMA WaitChunkInv ==
  ASSUME IInv, NEW w \in ProxyWorkers, WaitChunk(w)
  PROVE  IInv'
<1> USE DEF IInv
<1> DEFINE s == seg[w]
<1>1. /\ pc[w] = "loop" /\ sem1[s] > 0
      /\ pc' = [pc EXCEPT ![w] = "copy"]
      /\ sem1' = [sem1 EXCEPT ![s] = @ - 1]
      /\ UNCHANGED <<alive, semQueue, pool, raced, mq, sem2, shm, seg, path, status, body, cacheVars>>
  BY DEF WaitChunk, Goto
<1>2. /\ s \in Segments /\ \A i \in 1..Len(mq) : mq[i].id # s
      /\ \A c \in CacheWorkers : Serves(c, s) => Pair(w, c)
      /\ Served(w) \/ \E c \in CacheWorkers : Serves(c, s)
  BY <1>1, OwnerFacts DEF Transferring
<1>3. pc'[w] = "copy" /\ sem1'[s] = sem1[s] - 1 /\ sem1[s] \in 0..2
  BY <1>1, <1>2 DEF TypeOK
<1>4. \A c \in CacheWorkers : Serves(c, s) => Pair(w, c)'
  <2> SUFFICES ASSUME NEW c \in CacheWorkers, Serves(c, s) PROVE Pair(w, c)'
    OBVIOUS
  <2> QED
    BY <1>1, <1>2, <1>3, ServerFacts
    DEF cacheVars, Pair, Slot, Chunk, HeaderOf, HeaderToken, CachePC
<1>5. Served(w) => Served(w)'
  BY <1>1, <1>3 DEF Served, Slot, Chunk, HeaderOf, HeaderToken
<1>6. TypeOK'
  BY <1>1, <1>2 DEF TypeOK, cacheVars, ProxyPC
<1>7. Local'
  BY <1>1 DEF TypeOK, cacheVars, Local, QueueLock, ProxyLocal, CacheLocal, Holding
<1>8. AnsweredInFull' /\ DeliveredPrefix' /\ Exclusive'
  BY <1>1 DEF TypeOK, AnsweredInFull, DeliveredPrefix, Exclusive, Holds, Holding
<1>9. Protocol'
  BY <1>1, <1>2, <1>3, <1>4, <1>5, TransferStep DEF TypeOK, Transferring, Holding
<1> QED
  BY <1>6, <1>7, <1>8, <1>9

\* What the client has been sent after one more chunk.
LEMMA ReceivedElements ==
  ASSUME NEW b \in Seq((Paths \union {NoPath}) \X Nat), NEW m \in Message
  PROVE  /\ Received(b, m) \in Seq((Paths \union {NoPath}) \X Nat)
         /\ Len(Received(b, m)) = Len(b) + m.contentLen
         /\ \A i \in 1..Len(b) : Received(b, m)[i] = b[i]
         /\ \A i \in (Len(b) + 1)..(Len(b) + m.contentLen) :
              Received(b, m)[i] = Byte(m.src, m.off + (i - Len(b)) - 1)
<1> DEFINE S == (Paths \union {NoPath}) \X Nat
           t == [i \in 1..m.contentLen |-> Byte(m.src, m.off + i - 1)]
<1>1. m.contentLen \in Nat /\ m.off \in Nat /\ m.src \in Paths \union {NoPath}
  BY DEF Message
<1>2. t \in Seq(S) /\ Len(t) = m.contentLen
  <2>1. \A i \in 1..m.contentLen : Byte(m.src, m.off + i - 1) \in S
    BY <1>1 DEF Byte
  <2>2. t \in [1..m.contentLen -> S]
    BY <2>1
  <2>0. Len(t) = m.contentLen
    BY <1>1
  <2> HIDE DEF t, S
  <2>3. t \in Seq(S)
    BY <1>1, <2>2, SeqDef
  <2> QED
    BY <2>0, <2>3
<1>3. Received(b, m) = b \o t
  BY DEF Received
<1>4. Len(b) \in Nat
  BY LenProperties
<1>5. \A i \in 1..m.contentLen : t[i] = Byte(m.src, m.off + i - 1)
  OBVIOUS
<1> HIDE DEF t
<1>6. b \o t \in Seq(S) /\ Len(b \o t) = Len(b) + Len(t)
      /\ \A i \in 1..(Len(b) + Len(t)) :
           (b \o t)[i] = IF i <= Len(b) THEN b[i] ELSE t[i - Len(b)]
  BY <1>2, ConcatProperties
<1>7. \A i \in 1..Len(b) : Received(b, m)[i] = b[i]
  BY <1>1, <1>2, <1>3, <1>4, <1>6
<1>8. ASSUME NEW i \in (Len(b) + 1)..(Len(b) + m.contentLen)
      PROVE  Received(b, m)[i] = Byte(m.src, m.off + (i - Len(b)) - 1)
  <2>1. i \in 1..(Len(b) + Len(t)) /\ ~(i <= Len(b)) /\ i - Len(b) \in 1..m.contentLen
    BY <1>1, <1>2, <1>4
  <2>2. Received(b, m)[i] = t[i - Len(b)]
    BY <1>3, <1>6, <2>1
  <2> QED
    BY <1>5, <2>1, <2>2
<1> QED
  BY <1>2, <1>3, <1>6, <1>7, <1>8

\* The chunk copied is the next one of the file.
LEMMA CopyChunkInv ==
  ASSUME IInv, NEW w \in ProxyWorkers, CopyChunk(w)
  PROVE  IInv'
<1> USE DEF IInv
<1> DEFINE s == seg[w]
           n == Len(body[w])
           k == shm[s].contentLen
<1>1. /\ pc[w] = "copy"
      /\ pc' = [pc EXCEPT ![w] = "post"]
      /\ body' = [body EXCEPT ![w] = Received(@, shm[s])]
      /\ UNCHANGED <<alive, semQueue, pool, raced, mq, sem1, sem2, shm, seg, path, status, cacheVars>>
  BY DEF CopyChunk, Goto
<1>2. /\ s \in Segments /\ \A i \in 1..Len(mq) : mq[i].id # s
      /\ \A c \in CacheWorkers : Serves(c, s) => Pair(w, c)
      /\ Served(w) \/ \E c \in CacheWorkers : Serves(c, s)
      /\ n \in Nat
  BY <1>1, OwnerFacts DEF Transferring
<1>3. pc'[w] = "post" /\ body'[w] = Received(body[w], shm[s]) /\ shm[s] \in Message
      /\ body[w] \in Seq((Paths \union {NoPath}) \X Nat)
      /\ \A u \in ProxyWorkers \ {w} : body'[u] = body[u]
  BY <1>1, <1>2 DEF TypeOK
<1>4. k \in Nat
  BY <1>3 DEF Message
<1>5. /\ body'[w] \in Seq((Paths \union {NoPath}) \X Nat)
      /\ Len(body'[w]) = n + k
      /\ \A i \in 1..n : body'[w][i] = body[w][i]
      /\ \A i \in (n + 1)..(n + k) : body'[w][i] = Byte(shm[s].src, shm[s].off + (i - n) - 1)
  <2>1. /\ Received(body[w], shm[s]) \in Seq((Paths \union {NoPath}) \X Nat)
        /\ Len(Received(body[w], shm[s])) = n + k
        /\ \A i \in 1..n : Received(body[w], shm[s])[i] = body[w][i]
        /\ \A i \in (n + 1)..(n + k) :
             Received(body[w], shm[s])[i] = Byte(shm[s].src, shm[s].off + (i - n) - 1)
    BY <1>3, ReceivedElements, Zenon
  <2> QED
    BY <1>3, <2>1, Zenon
<1>6. \A c \in CacheWorkers : Serves(c, s) => Chunk(w, offset[c]) /\ Pair(w, c)'
  <2> SUFFICES ASSUME NEW c \in CacheWorkers, Serves(c, s)
               PROVE  Chunk(w, offset[c]) /\ Pair(w, c)'
    OBVIOUS
  <2>1. Pair(w, c) /\ cpc[c] \in {"read", "waitFree"} /\ cpc[c] \in CachePC
    BY <1>1, <1>2, ServerFacts DEF Pair, CachePC
  <2>2. Chunk(w, offset[c]) /\ HeaderOf(w) /\ sem1[s] = 0 /\ sem2[s] = 0 /\ path[w] = job[c].path
    BY <1>1, <2>1 DEF Pair, Slot
  <2>3. Slot(w, offset[c])'
    BY <1>1, <1>3, <1>5, <2>2 DEF cacheVars, Slot, Chunk
  <2> QED
    BY <1>1, <2>1, <2>2, <2>3 DEF cacheVars, Pair, HeaderOf
<1>7. Served(w) => Chunk(w, FileLen[path[w]]) /\ Served(w)'
  BY <1>1, <1>3, <1>5 DEF Served, Slot, Chunk, HeaderOf
<1>8. shm[s].src = path[w] /\ shm[s].off = n
  BY <1>2, <1>6, <1>7 DEF Chunk
<1>9. TypeOK'
  <2>1. body' \in [ProxyWorkers -> Seq((Paths \union {NoPath}) \X Nat)]
    BY <1>1, <1>3, <1>5 DEF TypeOK
  <2> QED
    BY <1>1, <2>1 DEF TypeOK, cacheVars, ProxyPC
<1>10. Local'
  <2>1. QueueLock' /\ \A c \in CacheWorkers : CacheLocal(c)'
    BY <1>1 DEF TypeOK, cacheVars, Local, QueueLock, CacheLocal
  <2>2. \A u \in ProxyWorkers : ProxyLocal(u)'
    BY <1>1 DEF TypeOK, Local, ProxyLocal, Holding
  <2> QED
    BY <2>1, <2>2 DEF Local
<1>11. DeliveredPrefix'
  <2> SUFFICES ASSUME NEW u \in ProxyWorkers, NEW i \in 1..Len(body'[u])
               PROVE  body'[u][i] = Byte(path[u], i - 1)
    BY <1>1 DEF DeliveredPrefix
  <2>1. CASE u # w
    BY <1>3, <2>1 DEF DeliveredPrefix
  <2>2. CASE u = w /\ i \in 1..n
    BY <1>5, <2>2 DEF DeliveredPrefix
  <2>3. CASE u = w /\ i \in (n + 1)..(n + k)
    <3>1. shm[s].off + (i - n) - 1 = i - 1
      BY <1>2, <1>8, <2>3
    <3> QED
      BY <1>5, <1>8, <2>3, <3>1
  <2> QED
    BY <1>2, <1>4, <1>5, <2>1, <2>2, <2>3
<1>12. AnsweredInFull' /\ Exclusive'
  BY <1>1 DEF TypeOK, AnsweredInFull, Exclusive, Holds, Holding
<1>13. Protocol'
  BY <1>1, <1>2, <1>3, <1>6, <1>7, TransferStep DEF TypeOK, Transferring, Holding
<1> QED
  BY <1>9, <1>10, <1>11, <1>12, <1>13

\* sem_post(sem_2) hands the content back to the cache.
LEMMA PostFreeInv ==
  ASSUME IInv, NEW w \in ProxyWorkers, PostFree(w)
  PROVE  IInv'
<1> USE DEF IInv
<1> DEFINE s == seg[w]
<1>1. /\ pc[w] = "post"
      /\ pc' = [pc EXCEPT ![w] = "loop"]
      /\ sem2' = [sem2 EXCEPT ![s] = @ + 1]
      /\ UNCHANGED <<alive, semQueue, pool, raced, mq, sem1, shm, seg, path, status, body, cacheVars>>
  BY DEF PostFree, Goto
<1>2. /\ s \in Segments /\ \A i \in 1..Len(mq) : mq[i].id # s
      /\ \A c \in CacheWorkers : Serves(c, s) => Pair(w, c)
      /\ Served(w) \/ \E c \in CacheWorkers : Serves(c, s)
  BY <1>1, OwnerFacts DEF Transferring
<1>3. pc'[w] = "loop" /\ sem2'[s] = sem2[s] + 1
  BY <1>1, <1>2 DEF TypeOK
<1>4. \A c \in CacheWorkers : Serves(c, s) => sem2[s] = 0 /\ Pair(w, c)'
  <2> SUFFICES ASSUME NEW c \in CacheWorkers, Serves(c, s) PROVE sem2[s] = 0 /\ Pair(w, c)'
    OBVIOUS
  <2> QED
    BY <1>1, <1>2, <1>3, ServerFacts
    DEF cacheVars, Pair, Slot, Chunk, HeaderOf, HeaderToken, CachePC
<1>5. Served(w) => sem2[s] = 0 /\ Served(w)'
  BY <1>1, <1>3 DEF Served, Slot, Chunk, HeaderOf, HeaderToken
<1>6. TypeOK'
  BY <1>1, <1>2, <1>4, <1>5 DEF TypeOK, cacheVars, ProxyPC
<1>7. Local'
  BY <1>1 DEF TypeOK, cacheVars, Local, QueueLock, ProxyLocal, CacheLocal, Holding
<1>8. AnsweredInFull' /\ DeliveredPrefix' /\ Exclusive'
  BY <1>1 DEF TypeOK, AnsweredInFull, DeliveredPrefix, Exclusive, Holds, Holding
<1>9. Protocol'
  BY <1>1, <1>2, <1>3, <1>4, <1>5, TransferStep DEF TypeOK, Transferring, Holding
<1> QED
  BY <1>6, <1>7, <1>8, <1>9

\* The loop ends only when the cache worker has handed over the whole file, so
\* that the memset does not hit a chunk in flight.
LEMMA EndLoopInv ==
  ASSUME IInv, NEW w \in ProxyWorkers, EndLoop(w)
  PROVE  IInv'
<1> USE DEF IInv
<1> DEFINE s == seg[w]
<1>1. /\ pc[w] = "loop" /\ Len(body[w]) >= shm[s].fileLen
      /\ pc' = [pc EXCEPT ![w] = "enqueue"]
      /\ shm' = [shm EXCEPT ![s] = ZeroMsg]
      /\ UNCHANGED <<alive, semQueue, pool, raced, mq, sem1, sem2, seg, path, status, body, cacheVars>>
  BY DEF EndLoop, Goto
<1>2. /\ s \in Segments /\ \A i \in 1..Len(mq) : mq[i].id # s
      /\ \A c \in CacheWorkers : Serves(c, s) => Pair(w, c)
      /\ Served(w) \/ \E c \in CacheWorkers : Serves(c, s)
      /\ Len(body[w]) \in Nat
  BY <1>1, OwnerFacts DEF Transferring
<1>3. shm[s] \in Message /\ shm[s].contentLen \in Nat
  BY <1>2 DEF TypeOK, Message
<1>4. \A c \in CacheWorkers : ~Serves(c, s)
  <2> SUFFICES ASSUME NEW c \in CacheWorkers, Serves(c, s) PROVE FALSE
    OBVIOUS
  <2>1. HeaderOf(w) /\ path[w] = job[c].path /\ cpc[c] \in {"read", "waitFree", "write", "postChunk"}
    BY <1>1, <1>2, ServerFacts DEF Pair, CachePC
  <2>2. Len(body[w]) >= FileLen[job[c].path]
    BY <1>1, <2>1 DEF HeaderOf
  <2>3. CASE cpc[c] \in {"read", "waitFree", "write"}
    <3>1. Len(body[w]) <= offset[c]
      BY <1>1, <1>2, <1>3, <2>3 DEF Pair, Slot, Chunk
    <3>2. offset[c] < FileLen[job[c].path] /\ offset[c] \in Nat /\ FileLen[job[c].path] \in Nat
      BY <2>3, ServerFacts
    <3> QED
      BY <1>2, <2>2, <3>1, <3>2
  <2>4. CASE cpc[c] = "postChunk"
    <3>1. Len(body[w]) < offset[c]
      BY <1>2, <1>3, <2>4 DEF Pair, Chunk
    <3>2. offset[c] <= FileLen[job[c].path] /\ offset[c] \in Nat /\ FileLen[job[c].path] \in Nat
      BY <2>4, ServerFacts
    <3> QED
      BY <1>2, <2>2, <3>1, <3>2
  <2> QED
    BY <2>1, <2>3, <2>4
<1>5. HeaderOf(w) /\ Slot(w, FileLen[path[w]]) /\ FileLen[path[w]] \in Nat
  BY <1>1, <1>2, <1>4, FileAssumption DEF Served, HeaderOf
<1>6. Len(body[w]) = FileLen[path[w]] /\ sem1[s] = 0 /\ sem2[s] = 1
  BY <1>1, <1>2, <1>3, <1>5 DEF Slot, Chunk, HeaderOf, HeaderToken
<1>7. pc'[w] = "enqueue" /\ shm'[s] = ZeroMsg
  BY <1>1, <1>2 DEF TypeOK
<1>8. TypeOK'
  BY <1>1, <1>2 DEF TypeOK, cacheVars, ProxyPC, ZeroMsg, Message
<1>9. Local'
  <2>1. QueueLock' /\ \A c \in CacheWorkers : CacheLocal(c)'
    BY <1>1 DEF TypeOK, cacheVars, Local, QueueLock, CacheLocal
  <2>2. \A u \in ProxyWorkers : ProxyLocal(u)'
    BY <1>1, <1>6 DEF TypeOK, Local, ProxyLocal, Holding
  <2> QED
    BY <2>1, <2>2 DEF Local
<1>10. AnsweredInFull' /\ DeliveredPrefix' /\ Exclusive'
  BY <1>1 DEF TypeOK, AnsweredInFull, DeliveredPrefix, Exclusive, Holds, Holding
<1>11. Fresh(s)'
  BY <1>1, <1>6, <1>7 DEF Fresh
<1>12. Protocol'
  BY <1>1, <1>2, <1>4, <1>7, <1>11, TransferStep DEF TypeOK, Transferring, Holding
<1> QED
  BY <1>8, <1>9, <1>10, <1>12

\* The actions of a cache worker.
LEMMA MqReceiveInv ==
  ASSUME IInv, NEW c \in CacheWorkers, MqReceive(c)
  PROVE  IInv'
<1> USE DEF IInv
<1>1. /\ cpc[c] = "receive" /\ cpc' = [cpc EXCEPT ![c] = "lookup"] /\ mq # << >>
      /\ job' = [job EXCEPT ![c] = Head(mq)] /\ mq' = Tail(mq)
      /\ UNCHANGED <<proxyVars, sem1, sem2, shm, offset, nread>>
  BY DEF MqReceive, CGoto
<1>2. Head(mq) \in Job /\ mq' \in Seq(Job) /\ Len(mq') <= MQMax
  BY <1>1, TailElements, LenProperties, BoundAssumption DEF TypeOK
<1>3. TypeOK'
  BY <1>1, <1>2 DEF TypeOK, proxyVars, CachePC
<1>4. Local'
  <2>1. QueueLock' /\ \A w \in ProxyWorkers : ProxyLocal(w)'
    BY <1>1 DEF proxyVars, Local, QueueLock, ProxyLocal
  <2>2. \A b \in CacheWorkers : CacheLocal(b)'
    <3>1. cpc'[c] = "lookup" /\ job'[c] \in Job /\ offset'[c] = 0
      BY <1>1, <1>2 DEF TypeOK, Local, CacheLocal
    <3>2. CacheLocal(c)'
      BY <3>1 DEF CacheLocal
    <3>3. \A b \in CacheWorkers \ {c} : CacheLocal(b)'
      BY <1>1 DEF TypeOK, Local, CacheLocal
    <3> QED
      BY <3>2, <3>3
  <2> QED
    BY <2>1, <2>2 DEF Local
<1>5. AnsweredInFull' /\ DeliveredPrefix' /\ Exclusive'
  BY <1>1 DEF proxyVars, AnsweredInFull, DeliveredPrefix, Exclusive, Holds
<1>6. Protocol'
  BY MqReceiveStep
<1> QED
  BY <1>3, <1>4, <1>5, <1>6

\* A cache worker that only had to see the end of the file touches no segment.
LEMMA EndOfFileInv ==
  ASSUME IInv, NEW c \in CacheWorkers, EndOfFile(c)
  PROVE  IInv'
<1> USE DEF IInv
<1>1. TypeOK'
  BY DEF TypeOK, EndOfFile, CGoto, NextJob, proxyVars, CachePC
<1>2. Local'
  BY DEF TypeOK, EndOfFile, CGoto, NextJob, proxyVars, Local, QueueLock, ProxyLocal, CacheLocal
<1>3. AnsweredInFull' /\ DeliveredPrefix' /\ Exclusive'
  BY DEF EndOfFile, proxyVars, AnsweredInFull, DeliveredPrefix, Exclusive, Holds
<1>4. Protocol'
  BY EndOfFileStep
<1> QED
  BY <1>1, <1>2, <1>3, <1>4

\* The owner of a served segment and what the two of them share.
LEMMA ServedOwner ==
  ASSUME IInv, NEW c \in CacheWorkers, NEW w \in ProxyWorkers, NEW s, Serves(c, s), Holds(w, s)
  PROVE  /\ seg[w] = s /\ Pair(w, c) /\ pc[w] \in Transferring
         /\ Len(body[w]) \in Nat /\ shm[s] \in Message /\ shm[s].contentLen \in Nat
<1> USE DEF IInv
<1>1. seg[w] = s /\ Pair(w, c) /\ pc[w] \in Transferring
  BY DEF Holds, Protocol, ServedPair
<1>2. s \in Segments
  BY ServerFacts
<1> QED
  BY <1>1, <1>2, LenProperties DEF TypeOK, Message

\* A step of a cache worker leaves the locals of the proxy workers alone.
LEMMA CacheStepLocals ==
  ASSUME IInv, UNCHANGED proxyVars, \A c \in CacheWorkers : CacheLocal(c)'
  PROVE  Local' /\ AnsweredInFull' /\ DeliveredPrefix' /\ Exclusive'
  BY DEF IInv, proxyVars, Local, QueueLock, ProxyLocal, AnsweredInFull, DeliveredPrefix, Exclusive, Holds

\* The cache does not have the file.
LEMMA MissInv ==
  ASSUME IInv, NEW c \in CacheWorkers, Miss(c)
  PROVE  IInv'
<1> USE DEF IInv
<1> DEFINE s == job[c].id
<1>1. /\ cpc[c] = "lookup" /\ cpc' = [cpc EXCEPT ![c] = "postNF"]
      /\ job[c].path \notin Cached
      /\ shm' = [shm EXCEPT ![s].type = -1]
      /\ UNCHANGED <<proxyVars, mq, sem1, sem2, job, offset, nread>>
  BY DEF Miss, CGoto
<1>2. Serves(c, s)
  BY <1>1 DEF Serves, Lags
<1>3. s \in Segments /\ job[c] \in Job /\ offset[c] \in Nat /\ nread[c] \in Nat
  BY <1>2, ServerFacts
<1>4. /\ cpc'[c] = "postNF" /\ job'[c] = job[c] /\ offset'[c] = offset[c]
      /\ \A b \in CacheWorkers \ {c} : cpc'[b] = cpc[b] /\ job'[b] = job[b] /\ offset'[b] = offset[b]
  BY <1>1 DEF TypeOK
<1>5. \A t : Serves(c, t)' <=> t = s
  BY <1>4 DEF Serves, Lags
<1>6. \A w \in ProxyWorkers : Holds(w, s) => Pair(w, c)'
  <2> SUFFICES ASSUME NEW w \in ProxyWorkers, Holds(w, s) PROVE Pair(w, c)'
    OBVIOUS
  <2>1. seg[w] = s /\ pc[w] = "header" /\ path[w] = job[c].path /\ Fresh(s)
    BY <1>1, <1>2, ServedOwner DEF Pair
  <2>2. shm'[s] = [ZeroMsg EXCEPT !.type = -1] /\ sem1'[s] = 0 /\ sem2'[s] = 1
    BY <1>1, <1>3, <2>1 DEF TypeOK, Fresh
  <2> QED
    BY <1>1, <1>4, <2>1, <2>2 DEF Pair, proxyVars
<1>7. TypeOK'
  BY <1>1, <1>3 DEF TypeOK, proxyVars, CachePC, Message
<1>8. \A b \in CacheWorkers : CacheLocal(b)'
  BY <1>1, <1>3 DEF TypeOK, Local, CacheLocal
<1>9. Protocol'
  BY <1>1, <1>2, <1>3, <1>4, <1>5, <1>6, ServeStep DEF TypeOK, proxyVars
<1> QED
  BY <1>1, <1>7, <1>8, <1>9, CacheStepLocals

\* The thread ends; its request stays with it.
LEMMA FstatFailInv ==
  ASSUME IInv, NEW c \in CacheWorkers, FstatFail(c)
  PROVE  IInv'
<1> USE DEF IInv
<1> DEFINE s == job[c].id
<1>1. /\ cpc[c] = "lookup" /\ cpc' = [cpc EXCEPT ![c] = "dead"]
      /\ UNCHANGED <<proxyVars, mq, sem1, sem2, shm, job, offset, nread>>
  BY DEF FstatFail, CGoto
<1>2. Serves(c, s)
  BY <1>1 DEF Serves, Lags
<1>3. s \in Segments /\ job[c] \in Job /\ offset[c] \in Nat /\ nread[c] \in Nat
  BY <1>2, ServerFacts
<1>4. /\ cpc'[c] = "dead" /\ job'[c] = job[c] /\ offset'[c] = offset[c]
      /\ \A b \in CacheWorkers \ {c} : cpc'[b] = cpc[b] /\ job'[b] = job[b] /\ offset'[b] = offset[b]
  BY <1>1 DEF TypeOK
<1>5. \A t : Serves(c, t)' <=> t = s
  BY <1>4 DEF Serves, Lags
<1>6. \A w \in ProxyWorkers : Holds(w, s) => Pair(w, c)'
  <2> SUFFICES ASSUME NEW w \in ProxyWorkers, Holds(w, s) PROVE Pair(w, c)'
    OBVIOUS
  <2>1. seg[w] = s /\ pc[w] = "header" /\ path[w] = job[c].path /\ Fresh(s)
    BY <1>1, <1>2, ServedOwner DEF Pair
  <2> QED
    BY <1>1, <1>4, <2>1 DEF Pair, proxyVars, Fresh
<1>7. TypeOK'
  BY <1>1 DEF TypeOK, proxyVars, CachePC
<1>8. \A b \in CacheWorkers : CacheLocal(b)'
  BY <1>1, <1>3 DEF TypeOK, Local, CacheLocal
<1>9. Protocol'
  BY <1>1, <1>2, <1>3, <1>4, <1>5, <1>6, ServeStep DEF TypeOK, proxyVars
<1> QED
  BY <1>1, <1>7, <1>8, <1>9, CacheStepLocals

\* The header is in the segment, not yet announced.
LEMMA HitInv ==
  ASSUME IInv, NEW c \in CacheWorkers, Hit(c)
  PROVE  IInv'
<1> USE DEF IInv
<1> DEFINE s == job[c].id
<1>1. /\ cpc[c] = "lookup" /\ cpc' = [cpc EXCEPT ![c] = "postHeader"]
      /\ job[c].path \in Cached
      /\ shm' = [shm EXCEPT ![s].type = 1, ![s].fileLen = FileLen[job[c].path]]
      /\ UNCHANGED <<proxyVars, mq, sem1, sem2, job, offset, nread>>
  BY DEF Hit, CGoto
<1>2. Serves(c, s)
  BY <1>1 DEF Serves, Lags
<1>3. s \in Segments /\ job[c] \in Job /\ offset[c] \in Nat /\ nread[c] \in Nat
  BY <1>2, ServerFacts
<1>4. /\ cpc'[c] = "postHeader" /\ job'[c] = job[c] /\ offset'[c] = offset[c]
      /\ \A b \in CacheWorkers \ {c} : cpc'[b] = cpc[b] /\ job'[b] = job[b] /\ offset'[b] = offset[b]
  BY <1>1 DEF TypeOK
<1>5. \A t : Serves(c, t)' <=> t = s
  BY <1>4 DEF Serves, Lags
<1>6. FileLen[job[c].path] \in Nat /\ shm[s] \in Message
  BY <1>1, <1>3, FileAssumption DEF TypeOK
<1>7. \A w \in ProxyWorkers : Holds(w, s) => Pair(w, c)'
  <2> SUFFICES ASSUME NEW w \in ProxyWorkers, Holds(w, s) PROVE Pair(w, c)'
    OBVIOUS
  <2>1. seg[w] = s /\ pc[w] = "header" /\ path[w] = job[c].path /\ Fresh(s)
    BY <1>1, <1>2, ServedOwner DEF Pair
  <2>2. shm'[s].type = 1 /\ shm'[s].fileLen = FileLen[job[c].path]
    BY <1>1, <1>3, <1>6 DEF TypeOK, Message
  <2> QED
    BY <1>1, <1>4, <2>1, <2>2 DEF Pair, HeaderOf, Fresh, proxyVars
<1>8. TypeOK'
  BY <1>1, <1>3, <1>6 DEF TypeOK, proxyVars, CachePC, Message
<1>9. \A b \in CacheWorkers : CacheLocal(b)'
  BY <1>1, <1>3, <1>6 DEF TypeOK, Local, CacheLocal
<1>10. Protocol'
  BY <1>1, <1>2, <1>3, <1>4, <1>5, <1>7, ServeStep DEF TypeOK, proxyVars
<1> QED
  BY <1>1, <1>8, <1>9, <1>10, CacheStepLocals

\* The answer to a miss: the cache is done with the segment.
LEMMA PostMissInv ==
  ASSUME IInv, NEW c \in CacheWorkers, PostMiss(c)
  PROVE  IInv'
<1> USE DEF IInv
<1> DEFINE s == job[c].id
<1>1. /\ cpc[c] = "postNF" /\ cpc' = [cpc EXCEPT ![c] = "receive"]
      /\ sem1' = [sem1 EXCEPT ![s] = @ + 1]
      /\ job' = [job EXCEPT ![c] = NoJob]
      /\ offset' = [offset EXCEPT ![c] = 0]
      /\ nread' = [nread EXCEPT ![c] = 0]
      /\ UNCHANGED <<proxyVars, mq, sem2, shm>>
  BY DEF PostMiss, CGoto, NextJob
<1>2. Serves(c, s)
  BY <1>1 DEF Serves, Lags
<1>3. s \in Segments /\ job[c] \in Job /\ offset[c] \in Nat /\ nread[c] \in Nat
  BY <1>2, ServerFacts
<1>4. /\ cpc'[c] = "receive" /\ job'[c] = NoJob /\ offset'[c] = 0
      /\ \A b \in CacheWorkers \ {c} : cpc'[b] = cpc[b] /\ job'[b] = job[b] /\ offset'[b] = offset[b]
  BY <1>1 DEF TypeOK
<1>5. \A t : ~Serves(c, t)'
  BY <1>4 DEF Serves
<1>6. \A w \in ProxyWorkers : Holds(w, s) => sem1[s] = 0 /\ Served(w)'
  <2> SUFFICES ASSUME NEW w \in ProxyWorkers, Holds(w, s) PROVE sem1[s] = 0 /\ Served(w)'
    OBVIOUS
  <2>1. /\ seg[w] = s /\ pc[w] = "header" /\ path[w] = job[c].path
        /\ sem1[s] = 0 /\ sem2[s] = 1 /\ shm[s] = [ZeroMsg EXCEPT !.type = -1]
    BY <1>1, <1>2, ServedOwner DEF Pair
  <2>2. path[w] \notin Cached
    BY <1>1, <2>1 DEF Local, CacheLocal
  <2>3. sem1'[s] = 1
    BY <1>1, <1>3, <2>1 DEF TypeOK
  <2> QED
    BY <1>1, <2>1, <2>2, <2>3 DEF Served, HeaderToken, proxyVars
<1>7. sem1[s] = 0
  BY <1>2, <1>3, <1>6 DEF Protocol, ServedHeld
<1>8. TypeOK'
  BY <1>1, <1>3, <1>7 DEF TypeOK, proxyVars, CachePC
<1>9. \A b \in CacheWorkers : CacheLocal(b)'
  BY <1>1 DEF TypeOK, Local, CacheLocal
<1>10. Protocol'
  BY <1>1, <1>2, <1>3, <1>4, <1>5, <1>6, ServeStep DEF TypeOK, proxyVars
<1> QED
  BY <1>1, <1>8, <1>9, <1>10, CacheStepLocals

\* The header is announced; of an empty file nothing else is to come.
LEMMA PostHeaderInv ==
  ASSUME IInv, NEW c \in CacheWorkers, PostHeader(c)
  PROVE  IInv'
<1> USE DEF IInv
<1> DEFINE s == job[c].id
<1>1. /\ cpc[c] = "postHeader" /\ cpc' = [cpc EXCEPT ![c] = "read"]
      /\ sem1' = [sem1 EXCEPT ![s] = @ + 1]
      /\ UNCHANGED <<proxyVars, mq, sem2, shm, job, offset, nread>>
  BY DEF PostHeader, CGoto
<1>2. Serves(c, s)
  BY <1>1 DEF Serves, Lags
<1>3. s \in Segments /\ job[c] \in Job /\ offset[c] \in Nat /\ nread[c] \in Nat
  BY <1>2, ServerFacts
<1>4. /\ cpc'[c] = "read" /\ job'[c] = job[c] /\ offset'[c] = offset[c]
      /\ \A b \in CacheWorkers \ {c} : cpc'[b] = cpc[b] /\ job'[b] = job[b] /\ offset'[b] = offset[b]
  BY <1>1 DEF TypeOK
<1>5. \A t : Serves(c, t)' => t = s
  BY <1>4 DEF Serves
<1>6. offset[c] = 0 /\ offset'[c] = 0
  BY <1>1, <1>4 DEF Local, CacheLocal
<1>7. ASSUME NEW w \in ProxyWorkers, Holds(w, s)
      PROVE  sem1[s] = 0 /\ path'[w] = job'[c].path /\ HeaderOf(w)' /\ Slot(w, 0)'
  <2>1. /\ seg[w] = s /\ pc[w] = "header" /\ path[w] = job[c].path
        /\ sem1[s] = 0 /\ sem2[s] = 1 /\ HeaderOf(w)
    BY <1>1, <1>2, <1>7, ServedOwner DEF Pair
  <2>2. sem1'[s] = 1
    BY <1>1, <1>3, <2>1 DEF TypeOK
  <2>3. Len(body[w]) = 0
    BY <2>1 DEF Local, ProxyLocal
  <2> QED
    BY <1>1, <1>4, <2>1, <2>2, <2>3 DEF HeaderOf, Slot, HeaderToken, proxyVars
<1>8. Serves(c, s)' => \A w \in ProxyWorkers : Holds(w, s) => Pair(w, c)'
  BY <1>4, <1>6, <1>7 DEF Pair
<1>9. ~Serves(c, s)' => \A w \in ProxyWorkers : Holds(w, s) => Served(w)'
  <2>1. ~Serves(c, s)' => FileLen[job'[c].path] = 0
    BY <1>4, <1>6 DEF Serves, Lags
  <2> QED
    BY <1>7, <2>1 DEF Served
<1>10. sem1[s] = 0
  BY <1>2, <1>3, <1>7 DEF Protocol, ServedHeld
<1>11. TypeOK'
  BY <1>1, <1>3, <1>10 DEF TypeOK, proxyVars, CachePC
<1>12. \A b \in CacheWorkers : CacheLocal(b)'
  BY <1>1 DEF TypeOK, Local, CacheLocal
<1>13. Protocol'
  BY <1>1, <1>2, <1>3, <1>4, <1>5, <1>8, <1>9, ServeStep DEF TypeOK, proxyVars
<1> QED
  BY <1>1, <1>11, <1>12, <1>13, CacheStepLocals

\* A chunk that is read is not empty and does not pass the end of the file.
LEMMA ReadChunkInv ==
  ASSUME IInv, NEW c \in CacheWorkers, ReadChunk(c)
  PROVE  IInv'
<1> USE DEF IInv
<1> DEFINE s == job[c].id
<1>1. /\ cpc[c] = "read" /\ cpc' = [cpc EXCEPT ![c] = "waitFree"]
      /\ PRead(job[c].path, offset[c]) > 0
      /\ nread' = [nread EXCEPT ![c] = PRead(job[c].path, offset[c])]
      /\ UNCHANGED <<proxyVars, mq, sem1, sem2, shm, job, offset>>
  BY DEF ReadChunk, CGoto
<1>2. Serves(c, s)
  <2>1. FileLen[job[c].path] \in Nat /\ offset[c] \in Nat
    BY <1>1, FileAssumption DEF TypeOK, Local, CacheLocal
  <2> QED
    BY <1>1, <2>1, BoundAssumption DEF Serves, Lags, PRead
<1>3. s \in Segments /\ job[c] \in Job /\ offset[c] \in Nat /\ nread[c] \in Nat
  BY <1>2, ServerFacts
<1>4. /\ cpc'[c] = "waitFree" /\ job'[c] = job[c] /\ offset'[c] = offset[c]
      /\ \A b \in CacheWorkers \ {c} : cpc'[b] = cpc[b] /\ job'[b] = job[b] /\ offset'[b] = offset[b]
  BY <1>1 DEF TypeOK
<1>5. \A t : Serves(c, t)' <=> t = s
  BY <1>4 DEF Serves, Lags
<1>6. \A w \in ProxyWorkers : Holds(w, s) => Pair(w, c)'
  <2> SUFFICES ASSUME NEW w \in ProxyWorkers, Holds(w, s) PROVE Pair(w, c)'
    OBVIOUS
  <2>1. seg[w] = s /\ path[w] = job[c].path /\ HeaderOf(w) /\ Slot(w, offset[c])
    BY <1>1, <1>2, ServedOwner DEF Pair
  <2>2. HeaderOf(w)' /\ Slot(w, offset[c])'
    BY <1>1, <2>1 DEF HeaderOf, Slot, Chunk, HeaderToken, proxyVars
  <2> QED
    BY <1>1, <1>4, <2>1, <2>2 DEF Pair, proxyVars
<1>7. PRead(job[c].path, offset[c]) \in Nat
  BY <1>1, <1>2, ServerFacts, BoundAssumption DEF PRead
<1>8. TypeOK'
  BY <1>1, <1>7 DEF TypeOK, proxyVars, CachePC
<1>9. \A b \in CacheWorkers : CacheLocal(b)'
  BY <1>1 DEF TypeOK, Local, CacheLocal
<1>10. Protocol'
  BY <1>1, <1>2, <1>3, <1>4, <1>5, <1>6, ServeStep DEF TypeOK, proxyVars
<1> QED
  BY <1>1, <1>8, <1>9, <1>10, CacheStepLocals

\* The content is free: the owner has read all that was written.
LEMMA WaitFreeInv ==
  ASSUME IInv, NEW c \in CacheWorkers, WaitFree(c)
  PROVE  IInv'
<1> USE DEF IInv
<1> DEFINE s == job[c].id
<1>1. /\ cpc[c] = "waitFree" /\ cpc' = [cpc EXCEPT ![c] = "write"]
      /\ sem2[s] > 0
      /\ sem2' = [sem2 EXCEPT ![s] = @ - 1]
      /\ UNCHANGED <<proxyVars, mq, sem1, shm, job, offset, nread>>
  BY DEF WaitFree, CGoto
<1>2. Serves(c, s)
  BY <1>1 DEF Serves, Lags
<1>3. s \in Segments /\ job[c] \in Job /\ offset[c] \in Nat /\ nread[c] \in Nat
  BY <1>2, ServerFacts
<1>4. /\ cpc'[c] = "write" /\ job'[c] = job[c] /\ offset'[c] = offset[c]
      /\ \A b \in CacheWorkers \ {c} : cpc'[b] = cpc[b] /\ job'[b] = job[b] /\ offset'[b] = offset[b]
  BY <1>1 DEF TypeOK
<1>5. \A t : Serves(c, t)' <=> t = s
  BY <1>4 DEF Serves, Lags
<1>6. \A w \in ProxyWorkers : Holds(w, s) => Pair(w, c)'
  <2> SUFFICES ASSUME NEW w \in ProxyWorkers, Holds(w, s) PROVE Pair(w, c)'
    OBVIOUS
  <2>1. seg[w] = s /\ path[w] = job[c].path /\ HeaderOf(w) /\ Slot(w, offset[c])
    BY <1>1, <1>2, ServedOwner DEF Pair
  <2>2. /\ pc[w] \in {"header", "test", "loop"}
        /\ sem1[s] = HeaderToken(w) /\ sem2[s] = 1 /\ Len(body[w]) = offset[c]
    BY <1>1, <2>1 DEF Slot
  <2>3. sem2'[s] = 0
    BY <1>1, <1>3, <2>2 DEF TypeOK
  <2> QED
    BY <1>1, <1>4, <2>1, <2>2, <2>3 DEF Pair, HeaderOf, HeaderToken, proxyVars
<1>7. TypeOK'
  BY <1>1, <1>3 DEF TypeOK, proxyVars, CachePC
<1>8. \A b \in CacheWorkers : CacheLocal(b)'
  BY <1>1 DEF TypeOK, Local, CacheLocal
<1>9. Protocol'
  BY <1>1, <1>2, <1>3, <1>4, <1>5, <1>6, ServeStep DEF TypeOK, proxyVars
<1> QED
  BY <1>1, <1>7, <1>8, <1>9, CacheStepLocals

\* The content written is the next chunk its owner needs.
LEMMA WriteChunkInv ==
  ASSUME IInv, NEW c \in CacheWorkers, WriteChunk(c)
  PROVE  IInv'
<1> USE DEF IInv
<1> DEFINE s == job[c].id
<1>1. /\ cpc[c] = "write" /\ cpc' = [cpc EXCEPT ![c] = "postChunk"]
      /\ shm' = [shm EXCEPT ![s].src = job[c].path, ![s].off = offset[c], ![s].contentLen = nread[c]]
      /\ offset' = [offset EXCEPT ![c] = @ + nread[c]]
      /\ UNCHANGED <<proxyVars, mq, sem1, sem2, job, nread>>
  BY DEF WriteChunk, CGoto
<1>2. Serves(c, s)
  BY <1>1 DEF Serves, Lags
<1>3. s \in Segments /\ job[c] \in Job /\ offset[c] \in Nat /\ nread[c] \in Nat
  BY <1>2, ServerFacts
<1>4. /\ cpc'[c] = "postChunk" /\ job'[c] = job[c] /\ offset'[c] = offset[c] + nread[c]
      /\ \A b \in CacheWorkers \ {c} : cpc'[b] = cpc[b] /\ job'[b] = job[b] /\ offset'[b] = offset[b]
  BY <1>1 DEF TypeOK
<1>5. \A t : Serves(c, t)' <=> t = s
  BY <1>4 DEF Serves, Lags
<1>6. /\ job[c].path \in Cached /\ FileLen[job[c].path] \in Nat
      /\ nread[c] > 0 /\ offset[c] + nread[c] <= FileLen[job[c].path]
  BY <1>1, <1>2, <1>3, ServerFacts, BoundAssumption DEF Local, CacheLocal, PRead
<1>7. /\ shm'[s].src = job[c].path /\ shm'[s].off = offset[c] /\ shm'[s].contentLen = nread[c]
      /\ shm'[s].type = shm[s].type /\ shm'[s].fileLen = shm[s].fileLen
  BY <1>1, <1>3 DEF TypeOK, Message
<1>8. \A w \in ProxyWorkers : Holds(w, s) => Pair(w, c)'
  <2> SUFFICES ASSUME NEW w \in ProxyWorkers, Holds(w, s) PROVE Pair(w, c)'
    OBVIOUS
  <2>1. /\ seg[w] = s /\ path[w] = job[c].path /\ HeaderOf(w)
        /\ pc[w] \in {"header", "test", "loop"}
        /\ sem1[s] = HeaderToken(w) /\ sem2[s] = 0 /\ Len(body[w]) = offset[c]
    BY <1>1, <1>2, ServedOwner DEF Pair
  <2> QED
    BY <1>1, <1>3, <1>4, <1>6, <1>7, <2>1 DEF Pair, HeaderOf, HeaderToken, Chunk, proxyVars
<1>9. TypeOK'
  <2>1. job[c].path \in Paths /\ shm[s] \in Message
    BY <1>3 DEF TypeOK, Job
  <2>2. [shm[s] EXCEPT !.src = job[c].path, !.off = offset[c], !.contentLen = nread[c]] \in Message
    BY <1>3, <2>1 DEF Message
  <2>3. shm' \in [Segments -> Message]
    BY <1>1, <1>3, <2>2 DEF TypeOK
  <2> QED
    BY <1>1, <1>3, <2>3 DEF TypeOK, proxyVars, CachePC
<1>10. \A b \in CacheWorkers : CacheLocal(b)'
  BY <1>1, <1>3, <1>6 DEF TypeOK, Local, CacheLocal
<1>11. Protocol'
  BY <1>1, <1>2, <1>3, <1>4, <1>5, <1>8, ServeStep DEF TypeOK, proxyVars
<1> QED
  BY <1>1, <1>9, <1>10, <1>11, CacheStepLocals

\* The chunk is announced; after the last one the cache is done with the segment.
LEMMA PostChunkInv ==
  ASSUME IInv, NEW c \in CacheWorkers, PostChunk(c)
  PROVE  IInv'
<1> USE DEF IInv
<1> DEFINE s == job[c].id
<1>1. /\ cpc[c] = "postChunk" /\ cpc' = [cpc EXCEPT ![c] = "read"]
      /\ sem1' = [sem1 EXCEPT ![s] = @ + 1]
      /\ UNCHANGED <<proxyVars, mq, sem2, shm, job, offset, nread>>
  BY DEF PostChunk, CGoto
<1>2. Serves(c, s)
  BY <1>1 DEF Serves, Lags
<1>3. s \in Segments /\ job[c] \in Job /\ offset[c] \in Nat /\ nread[c] \in Nat
  BY <1>2, ServerFacts
<1>4. /\ cpc'[c] = "read" /\ job'[c] = job[c] /\ offset'[c] = offset[c]
      /\ \A b \in CacheWorkers \ {c} : cpc'[b] = cpc[b] /\ job'[b] = job[b] /\ offset'[b] = offset[b]
  BY <1>1 DEF TypeOK
<1>5. \A t : Serves(c, t)' => t = s
  BY <1>4 DEF Serves
<1>6. ASSUME NEW w \in ProxyWorkers, Holds(w, s)
      PROVE  sem1[s] \in 0..1 /\ path'[w] = job'[c].path /\ HeaderOf(w)' /\ Slot(w, offset[c])'
  <2>1. /\ seg[w] = s /\ path[w] = job[c].path /\ HeaderOf(w)
        /\ pc[w] \in {"header", "test", "loop"}
        /\ sem1[s] = HeaderToken(w) /\ sem2[s] = 0 /\ Chunk(w, offset[c])
    BY <1>1, <1>2, <1>6, ServedOwner DEF Pair
  <2>2. sem1'[s] = HeaderToken(w) + 1
    BY <1>1, <1>3, <2>1 DEF TypeOK
  <2> QED
    BY <1>1, <1>4, <2>1, <2>2 DEF HeaderOf, Slot, Chunk, HeaderToken, proxyVars
<1>7. Serves(c, s)' => \A w \in ProxyWorkers : Holds(w, s) => Pair(w, c)'
  BY <1>4, <1>6 DEF Pair
<1>8. ~Serves(c, s)' => \A w \in ProxyWorkers : Holds(w, s) => Served(w)'
  <2>1. ~Serves(c, s)' => offset[c] = FileLen[job'[c].path]
    BY <1>4 DEF Serves, Lags
  <2> QED
    BY <1>4, <1>6, <2>1 DEF Served
<1>9. sem1[s] \in 0..1
  BY <1>2, <1>3, <1>6 DEF Protocol, ServedHeld
<1>10. TypeOK'
  BY <1>1, <1>3, <1>9 DEF TypeOK, proxyVars, CachePC
<1>11. \A b \in CacheWorkers : CacheLocal(b)'
  BY <1>1 DEF TypeOK, Local, CacheLocal
<1>12. Protocol'
  BY <1>1, <1>2, <1>3, <1>4, <1>5, <1>7, <1>8, ServeStep DEF TypeOK, proxyVars
<1> QED
  BY <1>1, <1>10, <1>11, <1>12, CacheStepLocals
-----------------------------------------------------------------------------
(* The theorems *)

\* main establishes the invariant.
LEMMA InitInv == Init => IInv
<1> SUFFICES ASSUME Init PROVE IInv
  OBVIOUS
<1> USE FileAssumption, BoundAssumption DEF Init
<1>1. TypeOK
  <2>1. alive \in BOOLEAN /\ raced \in BOOLEAN
    BY Zenon
  <2>2. mq \in Seq(Job) /\ Len(mq) <= MQMax
    BY EmptySeq
  <2>3. body \in [ProxyWorkers -> Seq((Paths \union {NoPath}) \X Nat)]
    BY EmptySeq
  <2>4. ZeroMsg \in Message
    BY DEF ZeroMsg, Message
  <2> QED
    BY <2>1, <2>2, <2>3, <2>4 DEF TypeOK, ProxyPC, CachePC
<1>2. Local
  BY EmptySeq DEF Local, QueueLock, ProxyLocal, CacheLocal, Holding
<1>3. AnsweredInFull /\ DeliveredPrefix /\ Exclusive
  BY EmptySeq DEF AnsweredInFull, DeliveredPrefix, Exclusive, Holds, Holding
<1>4. \A w \in ProxyWorkers : \A s : ~Holds(w, s)
  BY DEF Holds, Holding
<1>5. \A c \in CacheWorkers : \A s : ~Serves(c, s)
  BY DEF Serves
<1>6. \A s \in Segments : Fresh(s)
  BY DEF Fresh
<1>7. 1..Len(mq) = {}
  BY EmptySeq
<1>8. Protocol
  BY <1>4, <1>5, <1>6, <1>7
  DEF Protocol, QueuedHeld, QueuedWaits, QueuedOnce, QueuedUnserved, ServedHeld, ServedPair,
      ServedOnce, UnheldFresh, ParkedFresh, Accounted, Transferring
<1> QED
  BY <1>1, <1>2, <1>3, <1>8 DEF IInv

\* A stuttering step keeps the invariant.
LEMMA StutterInv ==
  ASSUME IInv, UNCHANGED vars
  PROVE  IInv'
<1>1. TypeOK'
  BY DEF IInv, vars, TypeOK
<1>2. Local'
  BY DEF IInv, vars, Local, QueueLock, ProxyLocal, CacheLocal
<1>3. AnsweredInFull' /\ DeliveredPrefix' /\ Exclusive'
  BY DEF IInv, vars, AnsweredInFull, DeliveredPrefix, Exclusive, Holds
<1>4. Protocol'
  BY SameProtocol DEF IInv, vars, cacheVars
<1> QED
  BY <1>1, <1>2, <1>3, <1>4 DEF IInv

\* Every step of a proxy or a cache worker keeps the invariant.
LEMMA NextInv == IInv /\ [Next]_vars => IInv'
<1> SUFFICES ASSUME IInv, [Next]_vars PROVE IInv'
  OBVIOUS
<1>1. ASSUME NEW w \in ProxyWorkers, Begin(w) \/ ProxyStep(w)
      PROVE  IInv'
  BY <1>1, BeginInv, LockQueueInv, PollQueueInv, PopInv, CrashInv, MqSendInv,
     WaitHeaderInv, NotFoundInv, SendHeaderInv, WaitChunkInv, CopyChunkInv,
     PostFreeInv, EndLoopInv, EnqueueInv, CountInv, SendNotFoundInv, ReturnInv
  DEF ProxyStep
<1>2. ASSUME NEW c \in CacheWorkers, CacheStep(c)
      PROVE  IInv'
  BY <1>2, MqReceiveInv, MissInv, FstatFailInv, HitInv, PostMissInv, PostHeaderInv,
     ReadChunkInv, EndOfFileInv, WaitFreeInv, WriteChunkInv, PostChunkInv
  DEF CacheStep
<1>3. CASE UNCHANGED vars
  BY <1>3, StutterInv
<1> QED
  BY <1>1, <1>2, <1>3 DEF Next

\* The invariant holds in every reachable state of the proxy and the cache.
THEOREM Invariance == Spec => []IInv
  BY InitInv, NextInv, PTL DEF Spec

\* Semaphores stay within their ranges, program counters and segments in theirs.
THEOREM TypeCorrect == Spec => []TypeOK
<1>1. IInv => TypeOK
  BY DEF IInv
<1> QED
  BY <1>1, Invariance, PTL

\* What handle_with_cache sends is always a prefix of the requested file.
THEOREM DeliveryCorrect == Spec => []DeliveredPrefix
<1>1. IInv => DeliveredPrefix
  BY DEF IInv
<1> QED
  BY <1>1, Invariance, PTL

\* A handler that returns has answered its request completely.
THEOREM AnswerComplete == Spec => []AnsweredInFull
<1>1. IInv => AnsweredInFull
  BY DEF IInv
<1> QED
  BY <1>1, Invariance, PTL

\* No segment is in the hands of two workers, or in the pool and in use.
THEOREM ExclusiveUse == Spec => []Exclusive
<1>1. IInv => Exclusive
  BY DEF IInv
<1> QED
  BY <1>1, Invariance, PTL

\* A segment goes back to the pool as it came: both semaphores at their initial
\* values, zeroed, and in no queued message.
THEOREM RestoredOnReturn == Spec => []SegmentRestored
<1>1. IInv => SegmentRestored
  <2> SUFFICES ASSUME IInv, NEW s \in Segments,
                      \A w \in ProxyWorkers : Holds(w, s) => pc[w] \in {"send", "enqueue", "enqueueNF"}
               PROVE  Fresh(s) /\ \A i \in 1..Len(mq) : mq[i].id # s
    BY DEF SegmentRestored, Fresh
  <2>1. Fresh(s)
    BY DEF IInv, Protocol, UnheldFresh, ParkedFresh, Holds
  <2>2. ASSUME NEW i \in 1..Len(mq), mq[i].id = s PROVE FALSE
    BY <2>2 DEF IInv, Protocol, QueuedHeld, QueuedWaits
  <2> QED
    BY <2>1, <2>2
<1> QED
  BY <1>1, Invariance, PTL

\* While the cache writes a chunk nobody reads or zeroes the segment, and the
\* chunk is the next one its owner needs.
THEOREM ContentNotTorn == Spec => []NoTornContent
<1>1. IInv => NoTornContent
  <2> SUFFICES ASSUME IInv, NEW c \in CacheWorkers, cpc[c] = "write"
               PROVE  \E w \in ProxyWorkers :
                        /\ Holds(w, job[c].id)
                        /\ path[w] = job[c].path
                        /\ pc[w] \in {"header", "test", "loop"}
                        /\ Len(body[w]) = offset[c]
    BY DEF NoTornContent
  <2>1. Serves(c, job[c].id)
    BY DEF Serves, Lags
  <2>2. PICK w \in ProxyWorkers : Holds(w, job[c].id)
    BY <2>1, ServerFacts DEF IInv, Protocol, ServedHeld
  <2>3. Pair(w, c)
    BY <2>1, <2>2, ServedOwner
  <2> QED
    BY <2>2, <2>3 DEF Pair
<1> QED
  BY <1>1, Invariance, PTL
=============================================================================
