-------------------------- MODULE SegmentAllocator --------------------------
(***************************************************************************)
(* What the pool of shared memory segments promises to the proxy workers:  *)
(* a worker holds at most one segment, takes only one that is free and     *)
(* gives back the one it holds.  With MayLose an operation may also drop   *)
(* free segments for good, and the process may end; no segment is ever     *)
(* handed out twice or made up.                                            *)
(***************************************************************************)
CONSTANTS Workers, Segments, None, MayLose

VARIABLES free, held, ended

avars == <<free, held, ended>>

AInit ==
  /\ free = Segments
  /\ held = [w \in Workers |-> None]
  /\ ended = FALSE

FreeBecomes(ids) == free' = ids \/ (MayLose /\ free' \in SUBSET ids)

Take(w) ==
  /\ held[w] = None
  /\ \E s \in free :
       /\ held' = [held EXCEPT ![w] = s]
       /\ FreeBecomes(free \ {s})
  /\ UNCHANGED ended

Give(w) ==
  /\ held[w] # None
  /\ held' = [held EXCEPT ![w] = None]
  /\ FreeBecomes(free \union {held[w]})
  /\ UNCHANGED ended

Lose ==
  /\ FreeBecomes(free)
  /\ UNCHANGED <<held, ended>>

End ==
  /\ MayLose
  /\ ended' = TRUE
  /\ UNCHANGED <<free, held>>

ANext == (\E w \in Workers : Take(w) \/ Give(w)) \/ Lose \/ End

ASpec == AInit /\ [][ANext]_avars

\* No two workers hold the same segment.
AExclusive ==
  \A u, w \in Workers : held[u] = held[w] /\ held[u] # None => u = w
=============================================================================
