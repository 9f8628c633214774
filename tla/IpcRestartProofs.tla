-------------------------- MODULE IpcRestartProofs --------------------------
(***************************************************************************)
(* Theorems about restarts of the proxy and of the cache daemon, for any   *)
(* number of threads, segments, keys and chunks, any list of cached keys   *)
(* and any number of starts and faults.                                    *)
(***************************************************************************)
EXTENDS IpcRestart, SequenceTheorems, WellFoundedInduction, TLAPS

(* simplecache_get: the bisection of ServerProofs, over the list of the cache *)

Index(list) ==
  /\ list \in Seq(Nat)
  /\ \A i, j \in 1..Len(list) : i < j => list[i] <= list[j]

\* The pairs lo, hi that the search can reach; what it returns for each of them.
Bounds(list) == (0..Len(list)) \X (-1..(Len(list) - 1))

Middle(r) == r[1] + (r[2] - r[1]) \div 2

Bisection(list, k, find) ==
  [r \in Bounds(list) |->
     IF r[1] > r[2] THEN FALSE
     ELSE IF k < list[Middle(r) + 1] THEN find[<<r[1], Middle(r) - 1>>]
     ELSE IF k > list[Middle(r) + 1] THEN find[<<Middle(r) + 1, r[2]>>]
     ELSE TRUE]

Between(list, k) ==
  [r \in Bounds(list) |-> \E i \in 0..(Len(list) - 1) : r[1] <= i /\ i <= r[2] /\ list[i + 1] = k]

\* A set of natural numbers that is not empty has a least element.
LEMMA LeastNat ==
  ASSUME NEW S, S \in SUBSET Nat, S # {}
  PROVE  \E x \in S : \A y \in S : x <= y
<1>1. PICK x \in S : \A y \in S : <<y, x>> \notin OpToRel(<, Nat)
  BY NatLessThanWellFounded, WFMin, Zenon
<1>2. \A y \in S : ~(y < x)
  BY <1>1 DEF OpToRel
<1>3. \A y \in S : x <= y
  BY <1>2
<1> QED
  BY <1>3

\* The middle lies between the bounds, and both halves have bounds again.
LEMMA Halves ==
  ASSUME NEW list, Index(list), NEW r \in Bounds(list)
  PROVE  /\ Len(list) \in Nat /\ r[1] \in Nat /\ r[2] \in Int /\ r = <<r[1], r[2]>>
         /\ r[1] <= Len(list) /\ -1 <= r[2] /\ r[2] < Len(list)
         /\ r[1] <= r[2] =>
              /\ Middle(r) \in Nat /\ r[1] <= Middle(r) /\ Middle(r) <= r[2]
              /\ Middle(r) + 1 \in 1..Len(list) /\ list[Middle(r) + 1] \in Nat
              /\ <<r[1], Middle(r) - 1>> \in Bounds(list)
              /\ <<Middle(r) + 1, r[2]>> \in Bounds(list)
<1>1. Len(list) \in Nat
  BY LenProperties DEF Index
<1>2. /\ r[1] \in 0..Len(list) /\ r[2] \in -1..(Len(list) - 1) /\ r = <<r[1], r[2]>>
  BY DEF Bounds
<1>3. ASSUME r[1] <= r[2]
      PROVE  Middle(r) \in Nat /\ r[1] <= Middle(r) /\ Middle(r) <= r[2]
  <2>1. PICK d \in Nat : d = r[2] - r[1]
    BY <1>1, <1>2, <1>3
  <2>2. d \div 2 \in Nat /\ d \div 2 <= d
    OBVIOUS
  <2> QED
    BY <1>1, <1>2, <2>1, <2>2 DEF Middle
<1>4. ASSUME r[1] <= r[2]
      PROVE  /\ Middle(r) + 1 \in 1..Len(list) /\ list[Middle(r) + 1] \in Nat
             /\ <<r[1], Middle(r) - 1>> \in Bounds(list)
             /\ <<Middle(r) + 1, r[2]>> \in Bounds(list)
  <2>1. Middle(r) + 1 \in 1..Len(list)
    BY <1>1, <1>2, <1>3, <1>4
  <2>2. list[Middle(r) + 1] \in Nat
    BY <2>1, ElementOfSeq DEF Index
  <2> QED
    BY <1>1, <1>2, <1>3, <1>4, <2>1, <2>2 DEF Bounds
<1> QED
  BY <1>1, <1>2, <1>3, <1>4

\* Looking for the key between the bounds is what a step of the bisection does, if
\* the list is sorted.
LEMMA BetweenBisects ==
  ASSUME NEW list, Index(list), NEW k \in Nat
  PROVE  Between(list, k) = Bisection(list, k, Between(list, k))
<1> DEFINE B == Between(list, k)
           In(lo, hi) == \E i \in 0..(Len(list) - 1) : lo <= i /\ i <= hi /\ list[i + 1] = k
<1>0. \A r \in Bounds(list) : B[r] = In(r[1], r[2])
  BY DEF Between
<1>0a. \A lo, hi : <<lo, hi>> \in Bounds(list) => B[<<lo, hi>>] = In(lo, hi)
  BY DEF Between
<1>1. ASSUME NEW r \in Bounds(list)
      PROVE  B[r] = IF r[1] > r[2] THEN FALSE
                    ELSE IF k < list[Middle(r) + 1] THEN B[<<r[1], Middle(r) - 1>>]
                    ELSE IF k > list[Middle(r) + 1] THEN B[<<Middle(r) + 1, r[2]>>]
                    ELSE TRUE
  <2>0. /\ Len(list) \in Nat /\ r[1] \in Nat /\ r[2] \in Int
    BY Halves
  <2>1. CASE r[1] > r[2]
    <3>1. In(r[1], r[2]) = FALSE
      BY <2>0, <2>1
    <3>2. B[r] = FALSE
      BY <1>0, <3>1, Zenon
    <3> HIDE DEF B
    <3> QED
      BY <2>1, <3>2
  <2>2. CASE r[1] <= r[2]
    <3> DEFINE m == Middle(r)
    <3>1. /\ m \in Nat /\ r[1] <= m /\ m <= r[2] /\ m + 1 \in 1..Len(list) /\ list[m + 1] \in Nat
          /\ <<r[1], m - 1>> \in Bounds(list) /\ <<m + 1, r[2]>> \in Bounds(list)
          /\ ~(r[1] > r[2])
      BY <2>0, <2>2, Halves
    <3>3. \A i \in 0..(Len(list) - 1) :
            /\ i + 1 \in 1..Len(list) /\ list[i + 1] \in Nat
            /\ i < m => list[i + 1] <= list[m + 1]
            /\ m < i => list[m + 1] <= list[i + 1]
      <4> TAKE i \in 0..(Len(list) - 1)
      <4>1. i + 1 \in 1..Len(list)
        BY <2>0
      <4>2. list[i + 1] \in Nat
        BY <4>1, ElementOfSeq DEF Index
      <4> HIDE DEF m
      <4>3. i < m => i + 1 < m + 1
        BY <2>0, <3>1
      <4>4. m < i => m + 1 < i + 1
        BY <2>0, <3>1
      <4> QED
        BY <3>1, <4>1, <4>2, <4>3, <4>4 DEF Index
    <3> HIDE DEF m
    <3>4. CASE k < list[m + 1]
      <4>1. In(r[1], r[2]) = In(r[1], m - 1)
        <5>1. ASSUME NEW i \in 0..(Len(list) - 1)
              PROVE  r[1] <= i /\ i <= r[2] /\ list[i + 1] = k <=> r[1] <= i /\ i <= m - 1 /\ list[i + 1] = k
          <6>1. i \in Nat /\ list[i + 1] \in Nat /\ (i < m => list[i + 1] <= list[m + 1])
                /\ (m < i => list[m + 1] <= list[i + 1])
            BY <2>0, <3>3
          <6>2. i < m \/ i = m \/ m < i
            BY <3>1, <6>1
          <6>3. i < m <=> i <= m - 1
            BY <3>1, <6>1
          <6>4. m < i <=> m + 1 <= i
            BY <3>1, <6>1
          <6> QED
            BY <2>0, <3>1, <3>4, <6>1, <6>2, <6>3, <6>4
        <5> QED
          BY <5>1, Zenon
      <4>2. B[r] = B[<<r[1], m - 1>>]
        BY <1>0, <1>0a, <3>1, <4>1, Zenon
      <4> HIDE DEF B
      <4> QED
        BY <3>1, <3>4, <4>2 DEF m
    <3>5. CASE k > list[m + 1]
      <4>1. In(r[1], r[2]) = In(m + 1, r[2])
        <5>1. ASSUME NEW i \in 0..(Len(list) - 1)
              PROVE  r[1] <= i /\ i <= r[2] /\ list[i + 1] = k <=> m + 1 <= i /\ i <= r[2] /\ list[i + 1] = k
          <6>1. i \in Nat /\ list[i + 1] \in Nat /\ (i < m => list[i + 1] <= list[m + 1])
                /\ (m < i => list[m + 1] <= list[i + 1])
            BY <2>0, <3>3
          <6>2. i < m \/ i = m \/ m < i
            BY <3>1, <6>1
          <6>3. i < m <=> i <= m - 1
            BY <3>1, <6>1
          <6>4. m < i <=> m + 1 <= i
            BY <3>1, <6>1
          <6> QED
            BY <2>0, <3>1, <3>5, <6>1, <6>2, <6>3, <6>4
        <5> QED
          BY <5>1, Zenon
      <4>2. B[r] = B[<<m + 1, r[2]>>]
        BY <1>0, <1>0a, <3>1, <4>1, Zenon
      <4>3. ~(k < list[m + 1])
        BY <3>1, <3>5
      <4> HIDE DEF B
      <4> QED
        BY <3>1, <3>5, <4>2, <4>3 DEF m
    <3>6. CASE k = list[m + 1]
      <4>1. In(r[1], r[2]) = TRUE
        <5>1. m \in 0..(Len(list) - 1)
          BY <2>0, <3>1
        <5> QED
          BY <3>1, <3>6, <5>1
      <4>2. B[r] = TRUE
        BY <1>0, <4>1, Zenon
      <4>3. ~(k < list[m + 1]) /\ ~(k > list[m + 1])
        BY <3>1, <3>6
      <4> HIDE DEF B
      <4> QED
        BY <3>1, <4>2, <4>3 DEF m
    <3>7. k < list[m + 1] \/ k > list[m + 1] \/ k = list[m + 1]
      BY <3>1
    <3> QED
      BY <3>4, <3>5, <3>6, <3>7
  <2>3. r[1] > r[2] \/ r[1] <= r[2]
    BY <2>0
  <2> QED
    BY <2>1, <2>2, <2>3
<1>2. B = [r \in Bounds(list) |-> B[r]]
  BY DEF Between
<1> HIDE DEF B
<1> QED
  BY <1>1, <1>2 DEF Bisection, B

\* The recursion has no other solution: among the bounds on which one differed, take
\* those that are closest together.
LEMMA BisectionUnique ==
  ASSUME NEW list, Index(list), NEW k \in Nat,
         NEW f, f = Bisection(list, k, f), NEW g, g = Bisection(list, k, g)
  PROVE  \A r \in Bounds(list) : f[r] = g[r]
<1> DEFINE Width(r) == r[2] - r[1] + Len(list) + 1
           Differ == {r \in Bounds(list) : f[r] # g[r]}
           S == {Width(r) : r \in Differ}
<1>0. \A r \in Bounds(list) :
        /\ Width(r) \in Nat
        /\ r[1] <= r[2] =>
             /\ <<r[1], Middle(r) - 1>> \in Bounds(list) /\ <<Middle(r) + 1, r[2]>> \in Bounds(list)
             /\ Width(<<r[1], Middle(r) - 1>>) < Width(r) /\ Width(<<Middle(r) + 1, r[2]>>) < Width(r)
  <2> TAKE r \in Bounds(list)
  <2>1. /\ Len(list) \in Nat /\ r[1] \in Nat /\ r[2] \in Int
        /\ r[1] <= Len(list) /\ -1 <= r[2]
    BY Halves
  <2>2. ASSUME r[1] <= r[2]
        PROVE  /\ <<r[1], Middle(r) - 1>> \in Bounds(list) /\ <<Middle(r) + 1, r[2]>> \in Bounds(list)
               /\ Middle(r) \in Nat /\ r[1] <= Middle(r) /\ Middle(r) <= r[2]
    BY <2>2, Halves
  <2> QED
    BY <2>1, <2>2
<1> SUFFICES ASSUME Differ # {} PROVE FALSE
  OBVIOUS
<1>1. S \in SUBSET Nat /\ S # {}
  BY <1>0
<1>2. PICK x \in S : \A y \in S : x <= y
  BY <1>1, LeastNat
<1>3. PICK r \in Bounds(list) : f[r] # g[r] /\ Width(r) = x
  BY <1>2
<1>4. \A q \in Bounds(list) : Width(q) < Width(r) => f[q] = g[q]
  <2> SUFFICES ASSUME NEW q \in Bounds(list), Width(q) < Width(r), f[q] # g[q] PROVE FALSE
    OBVIOUS
  <2>1. Width(q) \in S
    OBVIOUS
  <2>2. x <= Width(q) /\ Width(q) \in Nat /\ x \in Nat
    BY <1>0, <1>1, <1>2, <2>1
  <2> HIDE DEF Width
  <2> QED
    BY <1>3, <2>2
<1>5. /\ f[r] = Bisection(list, k, f)[r]
      /\ g[r] = Bisection(list, k, g)[r]
  OBVIOUS
<1> HIDE DEF Width, S, Differ
<1>6. CASE r[1] > r[2]
  BY <1>3, <1>5, <1>6 DEF Bisection
<1>7. CASE ~(r[1] > r[2])
  <2>0. r[1] \in Nat /\ r[2] \in Int
    BY Halves
  <2>1. r[1] <= r[2]
    BY <1>7, <2>0
  <2>2. /\ f[<<r[1], Middle(r) - 1>>] = g[<<r[1], Middle(r) - 1>>]
        /\ f[<<Middle(r) + 1, r[2]>>] = g[<<Middle(r) + 1, r[2]>>]
    BY <1>0, <1>4, <2>1
  <2> QED
    BY <1>3, <1>5, <2>2 DEF Bisection
<1> QED
  BY <1>6, <1>7

\* The search of simplecache_get finds a key exactly if it is in the list.
LEMMA FindsIsMembership ==
  ASSUME NEW list, Index(list), NEW k \in Nat
  PROVE  Finds(list, k) = (k \in Range(list))
<1> DEFINE find == CHOOSE f : f = Bisection(list, k, f)
           Found == \E i \in 0..(Len(list) - 1) : 0 <= i /\ i <= Len(list) - 1 /\ list[i + 1] = k
<1>1. find = Bisection(list, k, find)
  BY BetweenBisects
<1>2. Finds(list, k) = find[<<0, Len(list) - 1>>]
  BY DEF Finds, Bisection, Bounds, Middle
<1>3. Len(list) \in Nat /\ <<0, Len(list) - 1>> \in Bounds(list)
  BY LenProperties DEF Index, Bounds
<1> HIDE DEF find
<1>4. find[<<0, Len(list) - 1>>] = Between(list, k)[<<0, Len(list) - 1>>]
  BY <1>1, <1>3, BetweenBisects, BisectionUnique
<1>5. Between(list, k)[<<0, Len(list) - 1>>] = Found
  BY <1>3 DEF Between
<1>6. Found <=> k \in Range(list)
  <2>1. DOMAIN list = 1..Len(list)
    BY LenProperties DEF Index
  <2>2. ASSUME NEW i \in 0..(Len(list) - 1) PROVE i + 1 \in 1..Len(list)
    BY <1>3
  <2>3. ASSUME NEW j \in 1..Len(list)
        PROVE  /\ j - 1 \in 0..(Len(list) - 1) /\ (j - 1) + 1 = j
               /\ 0 <= j - 1 /\ j - 1 <= Len(list) - 1
    BY <1>3
  <2>4. ASSUME NEW j \in 1..Len(list), list[j] = k
        PROVE  Found
    <3> WITNESS j - 1 \in 0..(Len(list) - 1)
    <3> QED
      BY <2>3, <2>4
  <2> QED
    BY <2>1, <2>2, <2>4 DEF Range
<1> HIDE DEF Found
<1>7. Finds(list, k) = Found
  BY <1>2, <1>4, <1>5, Zenon
<1>8. Found \in BOOLEAN
  BY DEF Found
<1> QED
  BY <1>6, <1>7, <1>8

Cached(k) == \E i \in 1..Len(Locals) : Locals[i] = k

\* qsort loses no key and adds none, so the cache finds exactly the keys of locals.txt.
LEMMA Lookup ==
  ASSUME NEW list \in Sortings(Locals), NEW k \in Nat
  PROVE  Finds(list, k) = Cached(k)
<1>1. Locals \in Seq(Nat)
  BY RestartAssumption
<1>2. PICK p \in Bijection(DOMAIN Locals, DOMAIN Locals) :
        /\ list = [i \in DOMAIN Locals |-> Locals[p[i]]]
        /\ \A i, j \in DOMAIN Locals : i < j => list[i] <= list[j]
  BY DEF Sortings
<1>3. PICK n \in Nat : DOMAIN Locals = 1..n /\ n = Len(Locals)
  BY <1>1, LenProperties
<1>4. p \in [1..n -> 1..n] /\ \A j \in 1..n : \E i \in 1..n : p[i] = j
  BY <1>2, <1>3 DEF Bijection, Injection, Surjection
<1>5. \A i \in 1..n : Locals[i] \in Nat
  BY <1>1, <1>3, ElementOfSeq
<1>6. list \in Seq(Nat) /\ DOMAIN list = 1..n /\ Len(list) = n
  BY <1>2, <1>3, <1>4, <1>5, LenProperties, IsASeq
<1>7. Index(list)
  BY <1>2, <1>3, <1>6 DEF Index
<1>8. k \in Range(list) <=> Cached(k)
  BY <1>2, <1>3, <1>4, <1>6 DEF Range, Cached
<1>9. Finds(list, k) = (k \in Range(list))
  BY <1>7, FindsIsMembership
<1>10. Cached(k) \in BOOLEAN
  BY DEF Cached
<1> QED
  BY <1>8, <1>9, <1>10
-----------------------------------------------------------------------------
(* The inductive invariant *)

Kinds == {"shm", "sem1", "sem2"}
Msgs == [src : Nat, off : Int]
Jobs == [id : Segments, key : Nat, from : Generations]
Handles == [sem1 : 0..MaxStarts, sem2 : 0..MaxStarts, shm : 0..MaxStarts]

\* A cache worker with a request, a proxy worker with a segment
Active == {"sem1", "sem2", "shm", "answer", "chunk"}
Owning == {"open", "send", "header", "chunk"}

Types ==
  /\ names \in [Kinds -> [Segments -> 0..MaxStarts]]
  /\ shm \in [Generations -> [Segments -> Msgs]]
  /\ sem1 \in [Generations -> [Segments -> Nat]]
  /\ sem2 \in [Generations -> [Segments -> Nat]]
  /\ mq \in [Queues -> Seq(Jobs)] /\ mqName \in Queues \union {0}
  /\ proxy \in {"down", "setup", "up"} /\ gen \in 0..MaxStarts
  /\ at \in (0..NSegments) \X (1..6) /\ pool \subseteq Segments
  /\ pc \in [ProxyWorkers -> {"idle", "return"} \union Owning]
  /\ seg \in [ProxyWorkers -> Segments] /\ key \in [ProxyWorkers -> Nat]
  /\ qd \in [ProxyWorkers -> Queues \union {0}] /\ got \in [ProxyWorkers -> Seq(Msgs)]
  /\ cache \in {"up", "down"} /\ cq \in Queues \union {0}
  /\ cpc \in [CacheWorkers -> {"receive", "dead"} \union Active]
  /\ job \in [CacheWorkers -> Jobs \union {NoJob}]
  /\ h \in [CacheWorkers -> Handles] /\ off \in [CacheWorkers -> Nat]

\* The two processes: what is there while they are up
Processes ==
  /\ proxy # "down" => gen > 0
  /\ proxy # "up" => \A w \in ProxyWorkers : pc[w] = "idle"
  /\ \A w \in ProxyWorkers : pc[w] = "send" => qd[w] # 0
  /\ \A w \in ProxyWorkers : pc[w] \in {"idle", "open", "send", "header"} => got[w] = << >>
  /\ cache = "up" => cq # 0 /\ items \in Sortings(Locals)
  /\ cache = "down" => \A c \in CacheWorkers : cpc[c] = "receive"

\* A segment is in the pool or with one worker.
Ownership ==
  \A w \in ProxyWorkers : pc[w] \in Owning =>
    /\ seg[w] \notin pool
    /\ \A u \in ProxyWorkers : pc[u] \in Owning /\ seg[u] = seg[w] => u = w

\* What has the names: in a proxy that serves, its own objects
Naming ==
  /\ proxy = "up" => \A k \in Kinds : \A s \in Segments : names[k][s] = gen
  /\ proxy = "setup" =>
       /\ \A s \in Segments : s \in pool <=> s < at[1]
       /\ \A k \in Kinds : \A s \in pool : names[k][s] = gen
       /\ \A s \in Segments : s = at[1] =>
            (at[2] > 2 => names["shm"][s] = gen) /\ (at[2] > 4 => names["sem1"][s] = gen)

\* Objects that nobody has used yet
New(s) == sem1[gen][s] = 0 /\ sem2[gen][s] = 1
Unused ==
  /\ \A g \in Generations : g > gen => \A s \in Segments : sem1[g][s] = 0
  /\ proxy = "setup" =>
       /\ \A s \in Segments : sem1[gen][s] = 0
       /\ \A s \in pool : sem2[gen][s] = 1

\* A request in the queue, or with a cache worker, is of this proxy or an earlier one ...
Sent == \A q \in Queues : \A i \in 1..Len(mq[q]) :
          mq[q][i].from <= gen /\ (proxy = "setup" => mq[q][i].from # gen)
Taken == \A c \in CacheWorkers : cpc[c] \in Active =>
           /\ job[c] \in Jobs
           /\ job[c].from <= gen /\ (proxy = "setup" => job[c].from # gen)
\* ... and the cache has the objects of that proxy.
Opened == \A c \in CacheWorkers :
            /\ cpc[c] \in {"sem2", "shm", "answer", "chunk"} => h[c].sem1 = job[c].from
            /\ cpc[c] \in {"shm", "answer", "chunk"} => h[c].sem2 = job[c].from
            /\ cpc[c] \in {"answer", "chunk"} => h[c].shm = job[c].from

\* Requests of the proxy that is up are there once.
Now(j) == j.from = gen
Once ==
  /\ \A q, r \in Queues : \A i \in 1..Len(mq[q]) : \A j \in 1..Len(mq[r]) :
       Now(mq[q][i]) /\ Now(mq[r][j]) /\ mq[q][i].id = mq[r][j].id => q = r /\ i = j
  /\ \A c, d \in CacheWorkers :
       cpc[c] \in Active /\ cpc[d] \in Active /\ Now(job[c]) /\ Now(job[d]) /\ job[c].id = job[d].id => c = d
  /\ \A c \in CacheWorkers : \A q \in Queues : \A i \in 1..Len(mq[q]) :
       cpc[c] \in Active /\ Now(job[c]) /\ Now(mq[q][i]) => job[c].id # mq[q][i].id

ChunkOf(k, i) == [src |-> k, off |-> i]
FirstChunks(k, n) == [i \in 1..n |-> ChunkOf(k, i - 1)]

\* How many chunks the cache has posted for w
Posted(w) == IF pc[w] = "header" THEN sem1[gen][seg[w]] - 1 ELSE Len(got[w]) + sem1[gen][seg[w]]

\* Who a request is for
QueuedFor(j, w) == pc[w] = "header" /\ seg[w] = j.id /\ key[w] = j.key /\ New(j.id)
ServedFor(c, w) ==
  /\ pc[w] \in {"header", "chunk"} /\ seg[w] = job[c].id /\ key[w] = job[c].key
  /\ cpc[c] # "chunk" => pc[w] = "header" /\ New(seg[w])
  /\ cpc[c] = "chunk" => /\ Cached(key[w]) /\ off[c] = Posted(w) /\ off[c] < NChunks
                         /\ pc[w] = "header" => sem1[gen][seg[w]] > 0
Wanted ==
  /\ \A q \in Queues : \A i \in 1..Len(mq[q]) :
       Now(mq[q][i]) => \E w \in ProxyWorkers : QueuedFor(mq[q][i], w)
  /\ \A c \in CacheWorkers :
       cpc[c] \in Active /\ Now(job[c]) => \E w \in ProxyWorkers : ServedFor(c, w)

\* What a worker finds in its segment
HeaderSlot(s, k) ==
  \/ New(s)
  \/ sem1[gen][s] = 1 /\ sem2[gen][s] = 1 /\ shm[gen][s] = IF Cached(k) THEN ChunkOf(k, 0) ELSE Miss
  \/ sem1[gen][s] = 2 /\ sem2[gen][s] = 0 /\ shm[gen][s] = ChunkOf(k, 0) /\ Cached(k) /\ NChunks > 0
ChunkSlot(s, k, n) ==
  /\ Cached(k) /\ n < NChunks
  /\ New(s) \/ (sem1[gen][s] = 1 /\ sem2[gen][s] = 0 /\ shm[gen][s] = ChunkOf(k, n))

Slot(w) ==
  /\ pc[w] \in {"open", "send"} => New(seg[w])
  /\ pc[w] = "header" => HeaderSlot(seg[w], key[w])
  /\ pc[w] = "chunk" => /\ ChunkSlot(seg[w], key[w], Len(got[w]))
                        /\ got[w] = FirstChunks(key[w], Len(got[w]))
  /\ pc[w] = "return" => got[w] = Expected(key[w])
Slots ==
  /\ \A s \in pool : New(s)
  /\ \A w \in ProxyWorkers : Slot(w)

Busy == Once /\ Wanted /\ Slots

Good ==
  /\ Types /\ Processes /\ Ownership /\ Naming /\ Unused /\ Sent /\ Taken /\ Opened
  /\ proxy = "up" => Busy

IInv == stale \/ Good
-----------------------------------------------------------------------------
(* The processes *)

LEMMA Ranges ==
  /\ NSegments \in Nat /\ 0 \in Segments /\ \A s \in Segments : s \in Nat /\ s < NSegments
  /\ \A s \in Nat : s < NSegments => s \in Segments
  /\ MaxStarts \in Nat /\ MaxFaults \in Nat /\ NChunks \in Nat
  /\ \A g \in Generations : g \in Nat /\ g > 0
  /\ \A g \in 0..MaxStarts : g \in Nat /\ (g # 0 => g \in Generations)
  /\ \A q \in Queues : q # 0
BY RestartAssumption DEF Segments, Generations, Queues

LEMMA Records ==
  /\ Zero \in Msgs /\ Miss \in Msgs /\ NoHandles \in Handles
  /\ \A j \in Jobs : j.id \in Segments /\ j.key \in Nat /\ j.from \in Generations
BY Ranges DEF Zero, Miss, NoHandles, Msgs, Handles, Jobs

LEMMA InitGood == Init => Good
<1> SUFFICES ASSUME Init PROVE Good
  OBVIOUS
<1>1. Types
  <2>1. << >> \in Seq(Jobs) /\ << >> \in Seq(Msgs)
    BY EmptySeq
  <2>2. names \in [Kinds -> [Segments -> 0..MaxStarts]]
    BY Ranges DEF Init, Kinds
  <2>3. shm \in [Generations -> [Segments -> Msgs]]
    BY Records DEF Init, OfAll
  <2>4. sem1 \in [Generations -> [Segments -> Nat]] /\ sem2 \in [Generations -> [Segments -> Nat]]
    BY DEF Init, OfAll
  <2>5. mq \in [Queues -> Seq(Jobs)] /\ mqName \in Queues \union {0}
    BY <2>1 DEF Init
  <2>6. /\ proxy \in {"down", "setup", "up"} /\ gen \in 0..MaxStarts
        /\ at \in (0..NSegments) \X (1..6) /\ pool \subseteq Segments
    BY Ranges DEF Init
  <2>7. /\ pc \in [ProxyWorkers -> {"idle", "return"} \union Owning]
        /\ seg \in [ProxyWorkers -> Segments] /\ key \in [ProxyWorkers -> Nat]
    BY Ranges DEF Init, IdlePc
  <2>8. qd \in [ProxyWorkers -> Queues \union {0}] /\ got \in [ProxyWorkers -> Seq(Msgs)]
    BY <2>1 DEF Init
  <2>9. /\ cache \in {"up", "down"} /\ cq \in Queues \union {0}
        /\ cpc \in [CacheWorkers -> {"receive", "dead"} \union Active]
        /\ job \in [CacheWorkers -> Jobs \union {NoJob}]
        /\ h \in [CacheWorkers -> Handles] /\ off \in [CacheWorkers -> Nat]
    BY Records DEF Init, ReceivePc
  <2> QED
    BY <2>2, <2>3, <2>4, <2>5, <2>6, <2>7, <2>8, <2>9 DEF Types
<1>2. Processes /\ Ownership
  BY DEF Init, Processes, Ownership, IdlePc, ReceivePc, Owning
<1>3. Naming /\ Unused
  BY DEF Init, Naming, Unused, OfAll
<1>4. Sent
  BY DEF Init, Sent
<1>5. Taken /\ Opened
  BY DEF Init, Taken, Opened, ReceivePc, Active
<1> QED
  BY <1>1, <1>2, <1>3, <1>4, <1>5 DEF Good, Init

\* What a process leaves alone when only the other one acts
LEMMA CacheSide ==
  ASSUME Good, UNCHANGED <<mq, mqName, cache, cq, items, cpc, job, h, off>>
  PROVE  /\ mq' \in [Queues -> Seq(Jobs)] /\ mqName' \in Queues \union {0}
         /\ cache' \in {"up", "down"} /\ cq' \in Queues \union {0}
         /\ cpc' \in [CacheWorkers -> {"receive", "dead"} \union Active]
         /\ job' \in [CacheWorkers -> Jobs \union {NoJob}]
         /\ h' \in [CacheWorkers -> Handles] /\ off' \in [CacheWorkers -> Nat]
         /\ cache' = "up" => cq' # 0 /\ items' \in Sortings(Locals)
         /\ cache' = "down" => \A c \in CacheWorkers : cpc'[c] = "receive"
         /\ Opened'
BY DEF Good, Types, Processes, Opened

LEMMA ProxyStartGood == Good /\ ProxyStart => Good'
<1> SUFFICES ASSUME Good, ProxyStart PROVE Good'
  OBVIOUS
<1>1. /\ proxy = "down" /\ proxy' = "setup" /\ gen < MaxStarts /\ gen' = gen + 1
      /\ at' = <<0, 1>> /\ pool' = {}
      /\ UNCHANGED <<names, shm, sem1, sem2>> /\ UNCHANGED <<pc, seg, key, qd, got>>
      /\ UNCHANGED <<mq, mqName, cache, cq, items, cpc, job, h, off>>
  BY DEF ProxyStart, objects, workerVars, cacheVars, threadVars
<1>2. gen \in Nat /\ gen' \in Nat /\ gen' > gen /\ gen' > 0 /\ gen' \in Generations /\ gen' \in 0..MaxStarts
  BY <1>1, Ranges DEF Good, Types, Generations
<1>3. Types'
  <2>1. at' \in (0..NSegments) \X (1..6)
    BY <1>1, Ranges
  <2> QED
    BY <1>1, <1>2, <2>1, CacheSide DEF Good, Types
<1>4. Processes'
  BY <1>1, <1>2, CacheSide DEF Good, Processes
<1>5. Ownership'
  BY <1>1 DEF Good, Ownership, Processes, Owning
<1>6. Naming'
  <2>1. at'[1] = 0 /\ at'[2] = 1
    BY <1>1
  <2> QED
    BY <1>1, <2>1, Ranges DEF Naming
<1>7. Unused'
  <2>1. \A g \in Generations : g > gen' => g > gen
    BY <1>2, Ranges
  <2> QED
    BY <1>1, <1>2, <2>1 DEF Good, Unused
<1>8. Sent'
  <2>1. \A q \in Queues : \A i \in 1..Len(mq[q]) : mq[q][i].from \in Nat
    BY ElementOfSeq, Records, Ranges DEF Good, Types
  <2> QED
    BY <1>1, <1>2, <2>1 DEF Good, Sent
<1>9. Taken'
  <2>1. \A j \in Jobs : j.from \in Nat
    BY Records, Ranges
  <2> QED
    BY <1>1, <1>2, <2>1 DEF Good, Taken
<1> QED
  BY <1>1, <1>3, <1>4, <1>5, <1>6, <1>7, <1>8, <1>9, CacheSide DEF Good

LEMMA SetupGood == Good /\ Setup => Good'
<1> SUFFICES ASSUME Good, Setup PROVE Good'
  OBVIOUS
<1> DEFINE s == at[1]
           kind == Calls[at[2]]
<1>1. /\ proxy = "setup" /\ proxy' = "setup" /\ s < NSegments
      /\ gen' = gen
      /\ at' = IF at[2] < 6 THEN <<s, at[2] + 1>> ELSE <<s + 1, 1>>
      /\ pool' = IF kind = "sem2+" THEN pool \union {s} ELSE pool
      /\ UNCHANGED <<shm, sem1>> /\ UNCHANGED <<pc, seg, key, qd, got>>
      /\ UNCHANGED <<mq, mqName, cache, cq, items, cpc, job, h, off>>
  BY DEF Setup, workerVars, cacheVars, threadVars
<1>2. /\ s \in Nat /\ s \in Segments /\ at[2] \in 1..6 /\ gen \in Nat /\ gen \in Generations
      /\ gen \in 0..MaxStarts /\ pool \subseteq Segments
  BY <1>1, Ranges DEF Good, Types, Processes
<1>3. /\ kind = "sem2+" <=> at[2] = 6
      /\ kind = "sem1+" <=> at[2] = 4
      /\ kind = "shm+" <=> at[2] = 2
      /\ kind = "shm-" <=> at[2] = 1
      /\ kind = "sem1-" <=> at[2] = 3
      /\ kind = "sem2-" <=> at[2] = 5
  BY <1>2 DEF Calls
<1>4. PICK k \in Kinds, v \in {0, gen} :
        /\ names' = [names EXCEPT ![k][s] = v]
        /\ at[2] = 1 => k = "shm"
        /\ at[2] = 2 => k = "shm" /\ v = gen
        /\ at[2] = 3 => k = "sem1"
        /\ at[2] = 4 => k = "sem1" /\ v = gen
        /\ at[2] = 5 => k = "sem2"
        /\ at[2] = 6 => k = "sem2" /\ v = gen
  BY <1>2, <1>3 DEF Setup, Kinds
<1>5. sem2' = IF at[2] = 6 THEN [sem2 EXCEPT ![gen][s] = 1] ELSE sem2
  BY <1>2, <1>3 DEF Setup
<1>6. Types'
  <2>a. v = 0 \/ v = gen
    BY <1>4
  <2>0. names \in [Kinds -> [Segments -> 0..MaxStarts]] /\ v \in 0..MaxStarts
    <3>1. 0 \in 0..MaxStarts
      BY RestartAssumption
    <3> QED
      BY <1>2, <2>a, <3>1 DEF Good, Types
  <2>1. names' \in [Kinds -> [Segments -> 0..MaxStarts]]
    <3> HIDE DEF s
    <3> QED
      BY <1>2, <1>4, <2>0
  <2>2. sem2' \in [Generations -> [Segments -> Nat]]
    BY <1>2, <1>5 DEF Good, Types
  <2>3. at' \in (0..NSegments) \X (1..6)
    BY <1>1, <1>2, Ranges
  <2>4. pool' \subseteq Segments
    BY <1>1, <1>2
  <2> QED
    BY <1>1, <1>2, <2>1, <2>2, <2>3, <2>4, CacheSide DEF Good, Types
<1>7. Processes'
  BY <1>1, CacheSide DEF Good, Processes
<1>8. Ownership'
  BY <1>1 DEF Good, Ownership, Processes, Owning
<1>9. /\ \A t \in Segments : t \in pool <=> t < s
      /\ \A l \in Kinds : \A t \in pool : names[l][t] = gen
      /\ at[2] > 2 => names["shm"][s] = gen
      /\ at[2] > 4 => names["sem1"][s] = gen
      /\ s \notin pool
  BY <1>1, <1>2 DEF Good, Naming
<1>10. names \in [Kinds -> [Segments -> 0..MaxStarts]]
  BY DEF Good, Types
<1>11. Naming'
  <2> HIDE DEF s, kind
  <2>1. CASE at[2] < 6
    <3>1. at'[1] = s /\ at'[2] = at[2] + 1 /\ pool' = pool
      BY <1>1, <1>2, <1>3, <2>1
    <3>2. \A l \in Kinds : \A t \in pool : names'[l][t] = gen
      BY <1>2, <1>4, <1>9, <1>10
    <3>3. (at'[2] > 2 => names'["shm"][s] = gen) /\ (at'[2] > 4 => names'["sem1"][s] = gen)
      BY <1>2, <1>4, <1>9, <1>10, <2>1, <3>1 DEF Kinds
    <3> QED
      BY <1>1, <1>9, <3>1, <3>2, <3>3 DEF Naming
  <2>2. CASE at[2] = 6
    <3>1. at'[1] = s + 1 /\ at'[2] = 1 /\ pool' = pool \union {s}
      BY <1>1, <1>2, <1>3, <2>2
    <3>2. \A l \in Kinds : \A t \in pool' : names'[l][t] = gen
      BY <1>2, <1>4, <1>9, <1>10, <2>2, <3>1 DEF Kinds
    <3>3. \A t \in Segments : t \in pool' <=> t < at'[1]
      BY <1>2, <1>9, <3>1, Ranges
    <3> QED
      BY <1>1, <3>1, <3>2, <3>3 DEF Naming
  <2> QED
    BY <1>2, <2>1, <2>2
<1>12. Unused'
  <2> HIDE DEF s, kind
  <2>1. \A t \in pool' : sem2'[gen][t] = 1
    BY <1>1, <1>2, <1>3, <1>5 DEF Good, Unused, Types
  <2> QED
    BY <1>1, <2>1 DEF Good, Unused
<1>13. Sent' /\ Taken'
  BY <1>1 DEF Good, Sent, Taken
<1> QED
  BY <1>1, <1>6, <1>7, <1>8, <1>11, <1>12, <1>13, CacheSide DEF Good

\* A new proxy that has set up its segments starts with all of them as new: what is still
\* under way is for its predecessors.
LEMMA ServeGood == Good /\ Serve => Good'
<1> SUFFICES ASSUME Good, Serve PROVE Good'
  OBVIOUS
<1>1. /\ proxy = "setup" /\ proxy' = "up" /\ at[1] = NSegments
      /\ UNCHANGED <<gen, at, pool>> /\ UNCHANGED <<names, shm, sem1, sem2>>
      /\ UNCHANGED <<pc, seg, key, qd, got>>
      /\ UNCHANGED <<mq, mqName, cache, cq, items, cpc, job, h, off>>
  BY DEF Serve, objects, workerVars, cacheVars, threadVars
<1>2. Types'
  BY <1>1, CacheSide DEF Good, Types
<1>3. Processes' /\ Ownership'
  BY <1>1, CacheSide DEF Good, Processes, Ownership
<1>4. pool = Segments
  BY <1>1, Ranges DEF Good, Types, Naming
<1>5. Naming'
  BY <1>1, <1>4 DEF Good, Naming
<1>6. Unused' /\ Sent' /\ Taken'
  BY <1>1 DEF Good, Unused, Sent, Taken
<1>7. /\ \A q \in Queues : \A i \in 1..Len(mq'[q]) : mq'[q][i].from # gen'
      /\ \A c \in CacheWorkers : cpc'[c] \in Active => job'[c].from # gen'
  BY <1>1 DEF Good, Sent, Taken
<1>8. Once' /\ Wanted'
  BY <1>7 DEF Once, Wanted, Now
<1>9. Slots'
  BY <1>1, <1>4 DEF Good, Processes, Unused, Slots, Slot, New
<1> QED
  BY <1>1, <1>2, <1>3, <1>5, <1>6, <1>8, <1>9, CacheSide DEF Good, Busy

LEMMA ProxyExitGood == Good /\ ProxyExit => Good'
<1> SUFFICES ASSUME Good, ProxyExit PROVE Good'
  OBVIOUS
<1>1. /\ proxy' = "down" /\ at' = <<0, 1>> /\ pool' = {} /\ gen' = gen
      /\ pc' = IdlePc /\ UNCHANGED <<names, shm, sem1, sem2>>
      /\ seg' = [w \in ProxyWorkers |-> 0] /\ key' = [w \in ProxyWorkers |-> 0]
      /\ qd' = [w \in ProxyWorkers |-> 0] /\ got' = [w \in ProxyWorkers |-> << >>]
      /\ UNCHANGED <<mq, mqName, cache, cq, items, cpc, job, h, off>>
  BY DEF ProxyExit, objects, cacheVars, threadVars
<1>2. Types'
  <2>1. at' \in (0..NSegments) \X (1..6)
    BY <1>1, Ranges
  <2>2. /\ seg' \in [ProxyWorkers -> Segments] /\ key' \in [ProxyWorkers -> Nat]
        /\ qd' \in [ProxyWorkers -> Queues \union {0}]
    BY <1>1, Ranges
  <2>3. got' \in [ProxyWorkers -> Seq(Msgs)]
    BY <1>1, EmptySeq
  <2>4. pc' \in [ProxyWorkers -> {"idle", "return"} \union Owning]
    BY <1>1 DEF IdlePc
  <2> QED
    BY <1>1, <2>1, <2>2, <2>3, <2>4, CacheSide DEF Good, Types
<1>3. Processes' /\ Ownership'
  BY <1>1, CacheSide DEF Good, Processes, Ownership, Owning, IdlePc
<1>4. Naming' /\ Unused' /\ Sent' /\ Taken'
  BY <1>1 DEF Good, Naming, Unused, Sent, Taken
<1> QED
  BY <1>1, <1>2, <1>3, <1>4, CacheSide DEF Good
-----------------------------------------------------------------------------
(* Requests and the workers they are for *)

\* A step may leave a worker of the proxy alone, and the objects of a segment.
SameWorker(w) == pc'[w] = pc[w] /\ seg'[w] = seg[w] /\ key'[w] = key[w] /\ got'[w] = got[w]
SameObjects(s) ==
  /\ sem1'[gen'][s] = sem1[gen][s] /\ sem2'[gen'][s] = sem2[gen][s]
  /\ shm'[gen'][s] = shm[gen][s]

\* What holds of a worker, or of a request and its worker, still does after such a step.
LEMMA SlotKept ==
  ASSUME NEW w, Slot(w), SameWorker(w), pc[w] \in Owning => SameObjects(seg[w])
  PROVE  Slot(w)'
BY DEF Slot, HeaderSlot, ChunkSlot, New, FirstChunks, ChunkOf, Cached, Expected, Owning,
       SameWorker, SameObjects

LEMMA QueuedKept ==
  ASSUME NEW w, NEW j, QueuedFor(j, w), SameWorker(w), SameObjects(seg[w])
  PROVE  QueuedFor(j, w)'
BY DEF QueuedFor, New, SameWorker, SameObjects

LEMMA ServedKept ==
  ASSUME NEW w, NEW c, ServedFor(c, w), cpc'[c] = cpc[c], job'[c] = job[c], off'[c] = off[c],
         SameWorker(w), SameObjects(seg[w])
  PROVE  ServedFor(c, w)'
BY DEF ServedFor, New, Posted, Cached, SameWorker, SameObjects

\* The request for a segment is that of the worker who has the segment.
LEMMA Mine ==
  ASSUME Good, proxy = "up", NEW w \in ProxyWorkers, pc[w] \in Owning
  PROVE  /\ \A q \in Queues : \A i \in 1..Len(mq[q]) :
              Now(mq[q][i]) /\ mq[q][i].id = seg[w] => QueuedFor(mq[q][i], w)
         /\ \A c \in CacheWorkers :
              cpc[c] \in Active /\ Now(job[c]) /\ job[c].id = seg[w] => ServedFor(c, w)
<1>1. Wanted /\ Ownership
  BY DEF Good, Busy
<1>2. \A u \in ProxyWorkers : pc[u] \in {"header", "chunk"} /\ seg[u] = seg[w] => u = w
  BY <1>1 DEF Ownership, Owning
<1>3. \A q \in Queues : \A i \in 1..Len(mq[q]) :
        Now(mq[q][i]) /\ mq[q][i].id = seg[w] => QueuedFor(mq[q][i], w)
  BY <1>1, <1>2 DEF Wanted, QueuedFor
<1>4. \A c \in CacheWorkers :
        cpc[c] \in Active /\ Now(job[c]) /\ job[c].id = seg[w] => ServedFor(c, w)
  BY <1>1, <1>2 DEF Wanted, ServedFor
<1> QED
  BY <1>3, <1>4

\* The segment of a request is not in the pool, and of its worker only.
LEMMA Apart ==
  ASSUME Good, proxy = "up", NEW u \in ProxyWorkers, pc[u] \in Owning,
         NEW w \in ProxyWorkers, pc[w] \in Owning, u # w
  PROVE  seg[u] # seg[w]
BY DEF Good, Ownership

\* The objects that have the names are those of the proxy that serves.
LEMMA Named ==
  ASSUME Good, proxy = "up"
  PROVE  /\ gen \in Generations /\ gen \in Nat
         /\ \A s \in Segments : Sem1(s) = gen /\ Sem2(s) = gen /\ Shm(s) = gen
BY Ranges DEF Good, Types, Processes, Naming, Sem1, Sem2, Shm, Kinds

\* A step of one worker of the proxy, on the objects of its segment only, leaves what is
\* true of the other workers and of the free segments.
OnlyOf(w) ==
  /\ gen' = gen
  /\ \A u \in ProxyWorkers \ {w} : SameWorker(u)
  /\ \A s \in Segments : s # seg[w] \/ pc[w] \notin Owning => SameObjects(s)

LEMMA OthersKept ==
  ASSUME Good, proxy = "up", NEW w \in ProxyWorkers, OnlyOf(w)
  PROVE  /\ \A u \in ProxyWorkers \ {w} : Slot(u)'
         /\ \A u \in ProxyWorkers \ {w} : pc[u] \in Owning => SameObjects(seg[u])
         /\ \A s \in pool : New(s)'
<1>1. seg \in [ProxyWorkers -> Segments] /\ pool \subseteq Segments /\ Slots /\ Ownership
  BY DEF Good, Types, Busy
<1>2. ASSUME NEW u \in ProxyWorkers \ {w}, pc[u] \in Owning PROVE SameObjects(seg[u])
  BY <1>1, <1>2, Apart DEF OnlyOf
<1>3. ASSUME NEW u \in ProxyWorkers \ {w} PROVE Slot(u)'
  <2>1. Slot(u) /\ SameWorker(u)
    BY <1>1 DEF Slots, OnlyOf
  <2> QED
    BY <1>2, <2>1, SlotKept
<1>4. ASSUME NEW s \in pool PROVE New(s)'
  <2>1. SameObjects(s) /\ New(s)
    BY <1>1 DEF OnlyOf, Ownership, Slots
  <2> QED
    BY <2>1 DEF SameObjects, New
<1> QED
  BY <1>2, <1>3, <1>4

LEMMA WantedKept ==
  ASSUME Good, proxy = "up", NEW w \in ProxyWorkers, OnlyOf(w), UNCHANGED <<mq, cpc, job, off>>,
         \A q \in Queues : \A i \in 1..Len(mq[q]) : QueuedFor(mq[q][i], w) => QueuedFor(mq[q][i], w)',
         \A c \in CacheWorkers : cpc[c] \in Active /\ ServedFor(c, w) => ServedFor(c, w)'
  PROVE  Once' /\ Wanted'
<1>0. Once /\ Wanted /\ gen' = gen
  BY DEF Good, Busy, OnlyOf
<1>1. Once'
  BY <1>0 DEF Once, Now
<1>2. ASSUME NEW q \in Queues, NEW i \in 1..Len(mq[q]), Now(mq[q][i])
      PROVE  \E u \in ProxyWorkers : QueuedFor(mq[q][i], u)'
  <2>1. PICK u \in ProxyWorkers : QueuedFor(mq[q][i], u)
    BY <1>0, <1>2 DEF Wanted
  <2>2. CASE u = w
    BY <2>1, <2>2
  <2>3. CASE u # w
    <3>1. pc[u] \in Owning /\ SameWorker(u)
      BY <2>1, <2>3 DEF QueuedFor, Owning, OnlyOf
    <3>2. SameObjects(seg[u])
      BY <2>3, <3>1, OthersKept
    <3>3. QueuedFor(mq[q][i], u) /\ mq'[q][i] = mq[q][i]
      BY <2>1
    <3> QED
      BY <3>1, <3>2, <3>3 DEF QueuedFor, New, SameWorker, SameObjects
  <2> QED
    BY <2>2, <2>3
<1>3. ASSUME NEW c \in CacheWorkers, cpc[c] \in Active, Now(job[c])
      PROVE  \E u \in ProxyWorkers : ServedFor(c, u)'
  <2>1. PICK u \in ProxyWorkers : ServedFor(c, u)
    BY <1>0, <1>3 DEF Wanted
  <2>2. CASE u = w
    BY <1>3, <2>1, <2>2
  <2>3. CASE u # w
    <3>1. pc[u] \in Owning /\ SameWorker(u)
      BY <2>1, <2>3 DEF ServedFor, Owning, OnlyOf
    <3>2. SameObjects(seg[u])
      BY <2>3, <3>1, OthersKept
    <3> QED
      BY <2>1, <3>1, <3>2, ServedKept
  <2> QED
    BY <2>2, <2>3
<1>4. Wanted'
  BY <1>0, <1>2, <1>3 DEF Wanted, Now
<1> QED
  BY <1>1, <1>4

\* The rest of the invariant in a step of a worker of the proxy
LEMMA ProxyWorkerRest ==
  ASSUME Good, proxy = "up", UNCHANGED <<names, proxy, gen, at>>,
         UNCHANGED <<mq, mqName, cache, cq, items, cpc, job, h, off>>,
         \A g \in Generations : g # gen => sem1'[g] = sem1[g]
  PROVE  /\ Naming' /\ Unused' /\ Sent' /\ Taken' /\ Opened'
<1>1. gen \in Nat
  BY Named
<1>2. \A g \in Generations : g > gen => g # gen
  BY <1>1, Ranges
<1>3. Unused'
  BY <1>2 DEF Good, Unused
<1>4. Naming' /\ Sent' /\ Taken' /\ Opened'
  BY CacheSide DEF Good, Naming, Sent, Taken
<1> QED
  BY <1>3, <1>4
-----------------------------------------------------------------------------
(* handle_with_cache *)

LEMMA BeginGood == \A w \in ProxyWorkers : Good /\ Begin(w) => Good'
<1> SUFFICES ASSUME NEW w \in ProxyWorkers, Good, Begin(w) PROVE Good'
  OBVIOUS
<1>1. PICK s \in pool, k \in Keys :
        /\ pool' = pool \ {s} /\ seg' = [seg EXCEPT ![w] = s] /\ key' = [key EXCEPT ![w] = k]
  BY DEF Begin
<1>2. /\ proxy = "up" /\ pc[w] = "idle" /\ pc' = [pc EXCEPT ![w] = "open"]
      /\ UNCHANGED <<names, shm, sem1, sem2>> /\ UNCHANGED <<names, proxy, gen, at>> /\ UNCHANGED <<qd, got>>
      /\ UNCHANGED <<mq, mqName, cache, cq, items, cpc, job, h, off>>
  BY DEF Begin, objects, cacheVars, threadVars
<1>3. /\ s \in Segments /\ k \in Nat /\ pool \subseteq Segments
      /\ pc \in [ProxyWorkers -> {"idle", "return"} \union Owning]
      /\ seg \in [ProxyWorkers -> Segments] /\ key \in [ProxyWorkers -> Nat]
  BY RestartAssumption DEF Good, Types
<1>4. /\ pc'[w] = "open" /\ seg'[w] = s /\ key'[w] = k /\ got'[w] = got[w]
      /\ \A u \in ProxyWorkers \ {w} : SameWorker(u)
  BY <1>1, <1>2, <1>3 DEF SameWorker
<1>5. OnlyOf(w)
  BY <1>2, <1>4 DEF OnlyOf, SameObjects
<1>6. Types'
  <2>1. /\ pc' \in [ProxyWorkers -> {"idle", "return"} \union Owning] /\ pool' \subseteq Segments
        /\ seg' \in [ProxyWorkers -> Segments] /\ key' \in [ProxyWorkers -> Nat]
    BY <1>1, <1>2, <1>3 DEF Owning
  <2> QED
    BY <1>2, <2>1, CacheSide DEF Good, Types
<1>7. Processes'
  <2>1. \A u \in ProxyWorkers : pc'[u] = pc[u] \/ (u = w /\ pc'[u] = "open")
    BY <1>4 DEF SameWorker
  <2>2. got[w] = << >>
    BY <1>2 DEF Good, Processes
  <2>3. \A u \in ProxyWorkers : pc'[u] = "send" => pc[u] = "send"
    BY <2>1
  <2>4. \A u \in ProxyWorkers : pc'[u] \in {"idle", "open", "send", "header"} => got'[u] = << >>
    BY <1>2, <2>1, <2>2 DEF Good, Processes
  <2> QED
    BY <1>2, <2>3, <2>4, CacheSide DEF Good, Processes
<1>8. Ownership'
  BY <1>1, <1>3, <1>4 DEF Good, Ownership, SameWorker, Owning
<1>9. Once' /\ Wanted'
  <2>1. \A j : ~QueuedFor(j, w)
    BY <1>2 DEF QueuedFor
  <2>2. \A c : ~ServedFor(c, w)
    BY <1>2 DEF ServedFor
  <2> QED
    BY <1>2, <1>5, <2>1, <2>2, WantedKept
<1>10. Slots'
  <2>1. New(s)' /\ \A t \in pool' : New(t)'
    BY <1>1, <1>2, <1>5, OthersKept
  <2>2. Slot(w)'
    BY <1>4, <2>1 DEF Slot, New
  <2> QED
    BY <1>2, <1>5, <2>1, <2>2, OthersKept DEF Slots
<1> QED
  BY <1>2, <1>6, <1>7, <1>8, <1>9, <1>10, ProxyWorkerRest DEF Good, Busy

LEMMA OpenGood == \A w \in ProxyWorkers : Good /\ Open(w) => Good'
<1> SUFFICES ASSUME NEW w \in ProxyWorkers, Good, Open(w) PROVE Good'
  OBVIOUS
<1>1. /\ pc[w] = "open" /\ pc' = [pc EXCEPT ![w] = "send"] /\ QueueExists
      /\ mqName' = MqOpened /\ qd' = [qd EXCEPT ![w] = MqOpened]
      /\ UNCHANGED <<names, shm, sem1, sem2>> /\ UNCHANGED <<proxy, gen, at, pool>>
      /\ UNCHANGED <<seg, key, got>> /\ UNCHANGED <<mq, cache, cq, items, cpc, job, h, off>>
  BY DEF Open, objects, proxyVars, cacheVars, threadVars
<1>2. /\ pc \in [ProxyWorkers -> {"idle", "return"} \union Owning]
      /\ qd \in [ProxyWorkers -> Queues \union {0}] /\ mqName \in Queues \union {0}
  BY DEF Good, Types
<1>3. MqOpened \in Queues /\ MqOpened # 0
  BY <1>1, <1>2, Ranges DEF MqOpened, QueueExists
<1>4. proxy = "up"
  BY <1>1 DEF Good, Processes
<1>5. pc'[w] = "send" /\ \A u \in ProxyWorkers \ {w} : SameWorker(u)
  BY <1>1, <1>2 DEF SameWorker
<1>6. OnlyOf(w)
  BY <1>1, <1>5 DEF OnlyOf, SameObjects
<1>7. Types'
  <2>1. /\ pc' \in [ProxyWorkers -> {"idle", "return"} \union Owning]
        /\ qd' \in [ProxyWorkers -> Queues \union {0}] /\ mqName' \in Queues \union {0}
    BY <1>1, <1>2, <1>3 DEF Owning
  <2> QED
    BY <1>1, <2>1 DEF Good, Types
<1>8. Processes'
  <2>1. \A u \in ProxyWorkers : (pc'[u] = pc[u] /\ qd'[u] = qd[u]) \/ (u = w /\ pc'[u] = "send" /\ qd'[u] # 0)
    BY <1>1, <1>2, <1>3, <1>5
  <2>2. got[w] = << >>
    BY <1>1 DEF Good, Processes
  <2>3. \A u \in ProxyWorkers : pc'[u] = "send" => qd'[u] # 0
    BY <2>1 DEF Good, Processes
  <2>4. \A u \in ProxyWorkers : pc'[u] \in {"idle", "open", "send", "header"} => got'[u] = << >>
    BY <1>1, <2>1, <2>2 DEF Good, Processes
  <2> QED
    BY <1>1, <1>4, <2>3, <2>4 DEF Good, Processes
<1>9. Ownership'
  BY <1>1, <1>2, <1>5 DEF Good, Ownership, SameWorker, Owning
<1>10. Naming' /\ Unused' /\ Sent' /\ Taken' /\ Opened'
  BY <1>1 DEF Good, Naming, Unused, Sent, Taken, Opened
<1>11. Once' /\ Wanted'
  <2>1. \A j : ~QueuedFor(j, w)
    BY <1>1 DEF QueuedFor
  <2>2. \A c : ~ServedFor(c, w)
    BY <1>1 DEF ServedFor
  <2> QED
    BY <1>1, <1>4, <1>6, <2>1, <2>2, WantedKept
<1>12. Slots'
  <2>1. New(seg[w])
    BY <1>1, <1>4 DEF Good, Busy, Slots, Slot
  <2>2. Slot(w)'
    BY <1>1, <1>5, <2>1 DEF Slot, New
  <2> QED
    BY <1>1, <1>4, <1>6, <2>2, OthersKept DEF Slots
<1> QED
  BY <1>1, <1>7, <1>8, <1>9, <1>10, <1>11, <1>12 DEF Good, Busy

\* The worker has no request under way when it sends one.
LEMMA MqSendGood == \A w \in ProxyWorkers : Good /\ MqSend(w) => Good'
<1> SUFFICES ASSUME NEW w \in ProxyWorkers, Good, MqSend(w) PROVE Good'
  OBVIOUS
<1> DEFINE q == qd[w]
           m == [id |-> seg[w], key |-> key[w], from |-> gen]
<1>1. /\ pc[w] = "send" /\ pc' = [pc EXCEPT ![w] = "header"]
      /\ mq' = [mq EXCEPT ![q] = Append(@, m)]
      /\ UNCHANGED <<names, shm, sem1, sem2>> /\ UNCHANGED <<proxy, gen, at, pool>>
      /\ UNCHANGED <<seg, key, qd, got>> /\ UNCHANGED <<mqName, cache, cq, items, cpc, job, h, off>>
  BY DEF MqSend, objects, proxyVars, cacheVars, threadVars
<1>2. /\ proxy = "up" /\ q \in Queues /\ seg[w] \in Segments /\ key[w] \in Nat
      /\ pc \in [ProxyWorkers -> {"idle", "return"} \union Owning]
      /\ mq \in [Queues -> Seq(Jobs)]
  BY <1>1 DEF Good, Types, Processes
<1>3. gen \in Generations /\ gen \in Nat
  BY <1>2, Named
<1>4. m \in Jobs /\ m.id = seg[w] /\ m.key = key[w] /\ m.from = gen
  BY <1>2, <1>3 DEF Jobs
<1> HIDE DEF q, m
<1>5. /\ mq'[q] \in Seq(Jobs) /\ Len(mq[q]) \in Nat /\ Len(mq'[q]) = Len(mq[q]) + 1
      /\ mq'[q][Len(mq[q]) + 1] = m
      /\ \A i \in 1..Len(mq[q]) : mq'[q][i] = mq[q][i]
  <2>1. mq'[q] = Append(mq[q], m) /\ mq[q] \in Seq(Jobs)
    BY <1>1, <1>2
  <2> QED
    BY <1>4, <2>1, AppendProperties, LenProperties
<1>6. \A r \in Queues \ {q} : mq'[r] = mq[r]
  BY <1>1, <1>2
<1>7. \A r \in Queues : \A i \in 1..Len(mq'[r]) :
        \/ i \in 1..Len(mq[r]) /\ mq'[r][i] = mq[r][i]
        \/ r = q /\ i = Len(mq[q]) + 1 /\ mq'[r][i] = m
  <2> TAKE r \in Queues
  <2> TAKE i \in 1..Len(mq'[r])
  <2>1. CASE r = q
    <3>1. i \in 1..Len(mq[q]) \/ i = Len(mq[q]) + 1
      BY <1>5, <2>1
    <3> QED
      BY <1>5, <2>1, <3>1
  <2>2. CASE r # q
    BY <1>6, <2>2
  <2> QED
    BY <2>1, <2>2
<1>8. pc'[w] = "header" /\ \A u \in ProxyWorkers \ {w} : SameWorker(u)
  BY <1>1, <1>2 DEF SameWorker
<1>9. OnlyOf(w)
  BY <1>1, <1>8 DEF OnlyOf, SameObjects
<1>10. Types'
  <2>1. pc' \in [ProxyWorkers -> {"idle", "return"} \union Owning]
    BY <1>1, <1>2 DEF Owning
  <2>2. mq' \in [Queues -> Seq(Jobs)]
    BY <1>1, <1>2, <1>5, <1>6
  <2> QED
    BY <1>1, <2>1, <2>2 DEF Good, Types
<1>11. Processes'
  <2>1. \A u \in ProxyWorkers : pc'[u] = pc[u] \/ (u = w /\ pc'[u] = "header")
    BY <1>8 DEF SameWorker
  <2>2. got[w] = << >>
    BY <1>1 DEF Good, Processes
  <2>3. \A u \in ProxyWorkers : pc'[u] = "send" => qd'[u] # 0
    BY <1>1, <2>1 DEF Good, Processes
  <2>4. \A u \in ProxyWorkers : pc'[u] \in {"idle", "open", "send", "header"} => got'[u] = << >>
    BY <1>1, <2>1, <2>2 DEF Good, Processes
  <2> QED
    BY <1>1, <1>2, <2>3, <2>4 DEF Good, Processes
<1>12. Ownership'
  BY <1>1, <1>2, <1>8 DEF Good, Ownership, SameWorker, Owning
<1>13. Naming' /\ Unused' /\ Taken' /\ Opened'
  BY <1>1 DEF Good, Naming, Unused, Taken, Opened
<1>14. Sent'
  <2>1. \A r \in Queues : \A i \in 1..Len(mq'[r]) : mq'[r][i].from <= gen
    BY <1>3, <1>4, <1>7 DEF Good, Sent
  <2> QED
    BY <1>1, <1>2, <2>1 DEF Sent
<1>15. /\ \A r \in Queues : \A i \in 1..Len(mq[r]) : Now(mq[r][i]) => mq[r][i].id # seg[w]
       /\ \A c \in CacheWorkers : cpc[c] \in Active /\ Now(job[c]) => job[c].id # seg[w]
  <2>1. pc[w] \in Owning /\ (\A j : ~QueuedFor(j, w)) /\ (\A c : ~ServedFor(c, w))
    BY <1>1 DEF Owning, QueuedFor, ServedFor
  <2> QED
    BY <1>2, <2>1, Mine
<1>16. Once'
  <2>0. Once /\ gen' = gen /\ cpc' = cpc /\ job' = job
    BY <1>1, <1>2 DEF Good, Busy
  <2>1. ASSUME NEW r \in Queues, NEW t \in Queues, NEW i \in 1..Len(mq'[r]), NEW j \in 1..Len(mq'[t]),
               mq'[r][i].from = gen, mq'[t][j].from = gen, mq'[r][i].id = mq'[t][j].id
        PROVE  r = t /\ i = j
    <3>1. CASE i \in 1..Len(mq[r]) /\ mq'[r][i] = mq[r][i] /\ j \in 1..Len(mq[t]) /\ mq'[t][j] = mq[t][j]
      BY <2>0, <2>1, <3>1 DEF Once, Now
    <3> QED
      BY <1>4, <1>7, <1>15, <2>1, <3>1 DEF Now
  <2>2. ASSUME NEW c \in CacheWorkers, NEW r \in Queues, NEW i \in 1..Len(mq'[r]),
               cpc[c] \in Active, job[c].from = gen, mq'[r][i].from = gen
        PROVE  job[c].id # mq'[r][i].id
    <3>1. CASE i \in 1..Len(mq[r]) /\ mq'[r][i] = mq[r][i]
      BY <2>0, <2>2, <3>1 DEF Once, Now
    <3> QED
      BY <1>4, <1>7, <1>15, <2>2, <3>1 DEF Now
  <2>3. \A c, d \in CacheWorkers :
          cpc[c] \in Active /\ cpc[d] \in Active /\ Now(job[c]) /\ Now(job[d]) /\ job[c].id = job[d].id => c = d
    BY <2>0 DEF Once
  <2> QED
    BY <2>0, <2>1, <2>2, <2>3 DEF Once, Now
<1>17. New(seg[w])
  BY <1>1, <1>2 DEF Good, Busy, Slots, Slot
<1>18. Wanted'
  <2>0. Wanted /\ gen' = gen /\ cpc' = cpc /\ job' = job /\ off' = off
    BY <1>1, <1>2 DEF Good, Busy
  <2>1. \A u \in ProxyWorkers : pc[u] \in {"header", "chunk"} => SameWorker(u) /\ SameObjects(seg[u])
    BY <1>1, <1>8 DEF SameObjects
  <2>2. ASSUME NEW r \in Queues, NEW i \in 1..Len(mq'[r]), mq'[r][i].from = gen
        PROVE  \E u \in ProxyWorkers : QueuedFor(mq[r][i], u)'
    <3>1. CASE i \in 1..Len(mq[r]) /\ mq'[r][i] = mq[r][i]
      <4>1. PICK u \in ProxyWorkers : QueuedFor(mq[r][i], u)
        BY <2>0, <2>2, <3>1 DEF Wanted, Now
      <4>2. pc[u] = "header" /\ SameWorker(u) /\ SameObjects(seg[u])
        BY <2>1, <4>1 DEF QueuedFor
      <4> QED
        BY <3>1, <4>1, <4>2 DEF QueuedFor, New, SameWorker, SameObjects
    <3>2. CASE mq'[r][i] = m
      <4>1. QueuedFor(mq[r][i], w)'
        BY <1>1, <1>4, <1>8, <1>17, <3>2 DEF QueuedFor, New
      <4> QED
        BY <4>1
    <3> QED
      BY <1>7, <3>1, <3>2
  <2>3. ASSUME NEW c \in CacheWorkers, cpc[c] \in Active, job[c].from = gen
        PROVE  \E u \in ProxyWorkers : ServedFor(c, u)'
    <3>1. PICK u \in ProxyWorkers : ServedFor(c, u)
      BY <2>0, <2>3 DEF Wanted, Now
    <3>2. SameWorker(u) /\ SameObjects(seg[u])
      BY <2>1, <3>1 DEF ServedFor
    <3> QED
      BY <2>0, <3>1, <3>2, ServedKept
  <2> QED
    BY <2>0, <2>2, <2>3 DEF Wanted, Now
<1>19. Slots'
  <2>1. Slot(w)'
    BY <1>1, <1>8, <1>17 DEF Slot, HeaderSlot, New
  <2> QED
    BY <1>1, <1>2, <1>9, <2>1, OthersKept DEF Slots
<1> QED
  BY <1>1, <1>10, <1>11, <1>12, <1>13, <1>14, <1>16, <1>18, <1>19 DEF Good, Busy

\* A chunk is never taken for the answer to a request for a key that is not cached.
LEMMA NotMiss == \A k, i : i \in Nat => ChunkOf(k, i) # Miss
<1> SUFFICES ASSUME NEW k, NEW i \in Nat PROVE ChunkOf(k, i) # Miss
  OBVIOUS
<1>1. ChunkOf(k, i).off = i /\ Miss.off = -1
  BY DEF ChunkOf, Miss
<1> QED
  BY <1>1

LEMMA ExpectedFacts ==
  ASSUME NEW k
  PROVE  /\ ~Cached(k) => Expected(k) = <<Miss>>
         /\ Cached(k) => Expected(k) = FirstChunks(k, NChunks)
BY DEF Expected, Cached, FirstChunks, ChunkOf

\* The end of the handler, when nothing more comes for the worker: the segment goes back
\* to the pool as new.
LEMMA FinishGood ==
  ASSUME Good, NEW w \in ProxyWorkers, pc[w] \in {"header", "chunk"}, NEW answer \in Seq(Msgs),
         Finish(w, answer), OnlyOf(w), answer = Expected(key[w]), New(seg[w])',
         \A j : ~QueuedFor(j, w),
         \A c \in CacheWorkers : cpc[c] \in Active => ~ServedFor(c, w),
         UNCHANGED <<names, proxy, gen, at>>, UNCHANGED <<seg, key>>,
         UNCHANGED <<mq, mqName, cache, cq, items, cpc, job, h, off>>,
         sem1' \in [Generations -> [Segments -> Nat]],
         sem2' \in [Generations -> [Segments -> Nat]],
         \A g \in Generations : g # gen => sem1'[g] = sem1[g]
  PROVE  Good'
<1>1. /\ got' = [got EXCEPT ![w] = answer] /\ shm' = [shm EXCEPT ![Shm(seg[w])][seg[w]] = Zero]
      /\ pool' = pool \union {seg[w]} /\ pc' = [pc EXCEPT ![w] = "return"] /\ qd' = [qd EXCEPT ![w] = 0]
  BY DEF Finish
<1>2. /\ proxy = "up" /\ pc[w] \in Owning
      /\ pc \in [ProxyWorkers -> {"idle", "return"} \union Owning] /\ seg[w] \in Segments
      /\ got \in [ProxyWorkers -> Seq(Msgs)] /\ qd \in [ProxyWorkers -> Queues \union {0}]
      /\ shm \in [Generations -> [Segments -> Msgs]] /\ pool \subseteq Segments
  BY DEF Good, Types, Processes, Owning
<1>3. Shm(seg[w]) = gen /\ gen \in Generations
  BY <1>2, Named
<1>4. pc'[w] = "return" /\ got'[w] = answer /\ \A u \in ProxyWorkers \ {w} : SameWorker(u)
  BY <1>1, <1>2 DEF SameWorker
<1>5. Types'
  <2>1. shm' \in [Generations -> [Segments -> Msgs]]
    BY <1>1, <1>2, <1>3, Records
  <2>2. /\ got' \in [ProxyWorkers -> Seq(Msgs)] /\ qd' \in [ProxyWorkers -> Queues \union {0}]
        /\ pc' \in [ProxyWorkers -> {"idle", "return"} \union Owning] /\ pool' \subseteq Segments
    BY <1>1, <1>2
  <2> QED
    BY <1>1, <2>1, <2>2, CacheSide DEF Good, Types
<1>6. Processes'
  <2>1. \A u \in ProxyWorkers :
          (pc'[u] = pc[u] /\ qd'[u] = qd[u] /\ got'[u] = got[u]) \/ (u = w /\ pc'[u] = "return")
    BY <1>1, <1>2, <1>4 DEF SameWorker
  <2>2. \A u \in ProxyWorkers : pc'[u] = "send" => qd'[u] # 0
    BY <2>1 DEF Good, Processes
  <2>3. \A u \in ProxyWorkers : pc'[u] \in {"idle", "open", "send", "header"} => got'[u] = << >>
    BY <2>1 DEF Good, Processes
  <2> QED
    BY <1>2, <2>2, <2>3, CacheSide DEF Good, Processes
<1>7. Ownership'
  <2>1. \A u \in ProxyWorkers : pc'[u] \in Owning => u # w /\ pc[u] \in Owning /\ seg[u] # seg[w]
    BY <1>2, <1>4, Apart DEF SameWorker, Owning
  <2> QED
    BY <1>1, <2>1 DEF Good, Ownership
<1>8. Once' /\ Wanted'
  BY <1>2, WantedKept
<1>9. Slots'
  <2>1. \A s \in pool' : New(s)'
    BY <1>1, <1>2, OthersKept
  <2>2. Slot(w)'
    <3>1. Expected(key[w])' = Expected(key[w])
      BY DEF Expected
    <3> QED
      BY <1>4, <3>1 DEF Slot
  <2> QED
    BY <1>2, <2>1, <2>2, OthersKept DEF Slots
<1> QED
  BY <1>2, <1>5, <1>6, <1>7, <1>8, <1>9, ProxyWorkerRest DEF Good, Busy

\* What a step changes, when it takes one from the worker's sem_1.
LEMMA SemWaits ==
  ASSUME Good, proxy = "up", NEW s \in Segments, sem1[gen][s] > 0,
         sem1' = [sem1 EXCEPT ![gen][s] = @ - 1]
  PROVE  /\ sem1' \in [Generations -> [Segments -> Nat]]
         /\ sem1'[gen][s] = sem1[gen][s] - 1 /\ sem1[gen][s] \in Nat
         /\ \A t \in Segments \ {s} : sem1'[gen][t] = sem1[gen][t]
         /\ \A g \in Generations : g # gen => sem1'[g] = sem1[g]
<1>1. gen \in Generations /\ sem1 \in [Generations -> [Segments -> Nat]]
  BY Named DEF Good, Types
<1>2. sem1[gen][s] \in Nat /\ sem1[gen][s] - 1 \in Nat
  BY <1>1
<1> QED
  BY <1>1, <1>2

LEMMA HeaderGood == \A w \in ProxyWorkers : Good /\ Header(w) => Good'
<1> SUFFICES ASSUME NEW w \in ProxyWorkers, Good, Header(w) PROVE Good'
  OBVIOUS
<1> DEFINE s == seg[w]
           k == key[w]
           m == shm[gen][s]
<1>0. /\ pc[w] = "header" /\ pc[w] \in Owning /\ proxy = "up" /\ s \in Segments
      /\ got[w] = << >>
  BY DEF Header, Good, Types, Processes, Owning
<1>1. Sem1(s) = gen /\ Shm(s) = gen /\ gen \in Generations
  BY <1>0, Named
<1>2. /\ sem1[gen][s] > 0 /\ sem1' = [sem1 EXCEPT ![gen][s] = @ - 1]
      /\ IF m = Miss \/ NChunks = 0
         THEN Finish(w, IF m = Miss THEN <<Miss>> ELSE << >>)
         ELSE /\ pc' = [pc EXCEPT ![w] = "chunk"]
              /\ UNCHANGED <<shm, got, pool, qd, orphan>>
      /\ UNCHANGED <<names, proxy, gen, at>> /\ UNCHANGED <<sem2, seg, key>>
      /\ UNCHANGED <<mq, mqName, cache, cq, items, cpc, job, h, off>>
  BY <1>1 DEF Header, cacheVars, threadVars
<1>3. /\ sem1' \in [Generations -> [Segments -> Nat]]
      /\ sem1'[gen][s] = sem1[gen][s] - 1 /\ sem1[gen][s] \in Nat
      /\ \A t \in Segments \ {s} : sem1'[gen][t] = sem1[gen][t]
      /\ \A g \in Generations : g # gen => sem1'[g] = sem1[g]
  BY <1>0, <1>2, SemWaits
<1>4. HeaderSlot(s, k) /\ NChunks \in Nat
  BY <1>0, Ranges DEF Good, Busy, Slots, Slot
<1>5. ~New(s) /\ \A j : ~QueuedFor(j, w)
  BY <1>2, <1>3 DEF New, QueuedFor
<1>6. /\ sem1[gen][s] = 1 /\ sem2[gen][s] = 1 /\ (Cached(k) => m = ChunkOf(k, 0)) /\ (~Cached(k) => m = Miss)
      \/ /\ sem1[gen][s] = 2 /\ sem2[gen][s] = 0 /\ m = ChunkOf(k, 0) /\ Cached(k) /\ NChunks > 0
  BY <1>4, <1>5 DEF HeaderSlot
<1>7. ASSUME NEW c \in CacheWorkers, cpc[c] \in Active, ServedFor(c, w)
      PROVE  cpc[c] = "chunk" /\ Cached(k) /\ off[c] = sem1[gen][s] - 1 /\ off[c] < NChunks /\ job[c].id = s
  BY <1>0, <1>5, <1>7 DEF ServedFor, Posted
<1>8. Cached(k) => m # Miss
  BY <1>6, NotMiss
<1>s. s' = s /\ k' = k
  BY <1>2
<1> HIDE DEF s, k, m
<1>9. CASE m = Miss \/ NChunks = 0
  <2> DEFINE answer == IF m = Miss THEN <<Miss>> ELSE << >>
  <2>1. Finish(w, answer)
    BY <1>2, <1>9
  <2>2. sem1[gen][s] = 1 /\ sem2[gen][s] = 1
    BY <1>4, <1>6, <1>8, <1>9
  <2>3. answer \in Seq(Msgs)
    BY Records, EmptySeq
  <2>4. answer = Expected(k)
    <3>1. CASE Cached(k)
      <4>1. NChunks = 0 /\ answer = << >>
        BY <1>8, <1>9, <3>1
      <4>2. FirstChunks(k, NChunks) = << >>
        BY <4>1 DEF FirstChunks
      <4> QED
        BY <3>1, <4>1, <4>2, ExpectedFacts
    <3>2. CASE ~Cached(k)
      BY <1>6, <3>2, ExpectedFacts
    <3> QED
      BY <3>1, <3>2
  <2>5. New(s)'
    BY <1>2, <1>3, <1>s, <2>2 DEF New
  <2>6. \A c \in CacheWorkers : cpc[c] \in Active => ~ServedFor(c, w)
    <3> SUFFICES ASSUME NEW c \in CacheWorkers, cpc[c] \in Active, ServedFor(c, w) PROVE FALSE
      OBVIOUS
    <3>1. Cached(k) /\ off[c] < NChunks /\ off[c] \in Nat
      BY <1>7 DEF Good, Types
    <3> QED
      BY <1>8, <1>9, <3>1
  <2>7. OnlyOf(w)
    <3>1. /\ got' = [got EXCEPT ![w] = answer] /\ shm' = [shm EXCEPT ![gen][s] = Zero]
          /\ pc' = [pc EXCEPT ![w] = "return"]
      BY <1>1, <2>1 DEF Finish, s
    <3>2. \A u \in ProxyWorkers \ {w} : SameWorker(u)
      BY <1>2, <3>1 DEF SameWorker, Good, Types
    <3>3. \A t \in Segments \ {s} : SameObjects(t)
      BY <1>1, <1>2, <1>3, <3>1 DEF SameObjects, Good, Types
    <3> QED
      BY <1>0, <1>2, <3>2, <3>3 DEF OnlyOf, s
  <2>8. sem2' \in [Generations -> [Segments -> Nat]]
    BY <1>2 DEF Good, Types
  <2> HIDE DEF answer
  <2> QED
    BY <1>0, <1>2, <1>3, <1>5, <2>1, <2>3, <2>4, <2>5, <2>6, <2>7, <2>8, FinishGood DEF s, k
<1>10. CASE ~(m = Miss \/ NChunks = 0)
  <2>1. pc' = [pc EXCEPT ![w] = "chunk"] /\ UNCHANGED <<shm, got, pool, qd>>
    BY <1>2, <1>10
  <2>2. /\ pc \in [ProxyWorkers -> {"idle", "return"} \union Owning]
        /\ sem2' \in [Generations -> [Segments -> Nat]] /\ shm' \in [Generations -> [Segments -> Msgs]]
    BY <1>2, <2>1 DEF Good, Types
  <2>3. pc'[w] = "chunk" /\ \A u \in ProxyWorkers \ {w} : SameWorker(u)
    BY <1>2, <2>1, <2>2 DEF SameWorker
  <2>4. OnlyOf(w)
    BY <1>0, <1>2, <1>3, <2>1, <2>3 DEF OnlyOf, SameObjects, s
  <2>5. Types'
    <3>1. pc' \in [ProxyWorkers -> {"idle", "return"} \union Owning]
      BY <2>1, <2>2 DEF Owning
    <3> QED
      BY <1>2, <1>3, <2>1, <2>2, <3>1, CacheSide DEF Good, Types
  <2>6. Processes'
    <3>1. \A u \in ProxyWorkers : pc'[u] = pc[u] \/ (u = w /\ pc'[u] = "chunk")
      BY <2>3 DEF SameWorker
    <3>2. \A u \in ProxyWorkers : pc'[u] = "send" => qd'[u] # 0
      BY <2>1, <3>1 DEF Good, Processes
    <3>3. \A u \in ProxyWorkers : pc'[u] \in {"idle", "open", "send", "header"} => got'[u] = << >>
      BY <2>1, <3>1 DEF Good, Processes
    <3> QED
      BY <1>0, <1>2, <3>2, <3>3, CacheSide DEF Good, Processes
  <2>7. Ownership'
    BY <1>0, <1>2, <2>1, <2>2, <2>3 DEF Good, Ownership, SameWorker, Owning
  <2>8. Cached(k) /\ m = ChunkOf(k, 0) /\ NChunks > 0
    BY <1>4, <1>6, <1>10
  <2>9. Cached(k)' /\ got'[w] = << >> /\ Len(got'[w]) = 0 /\ seg'[w] = s /\ key'[w] = k
    BY <1>0, <1>2, <2>1, <2>8 DEF Cached, s, k
  <2>10. ASSUME NEW c \in CacheWorkers, cpc[c] \in Active, ServedFor(c, w)
         PROVE  ServedFor(c, w)'
    <3>1. /\ cpc[c] = "chunk" /\ off[c] = sem1[gen][s] - 1 /\ off[c] < NChunks /\ job[c].id = s
          /\ job[c].key = k
      BY <1>7, <2>10 DEF ServedFor, k
    <3>2. Posted(w)' = sem1[gen][s] - 1
      BY <1>2, <1>3, <2>3, <2>9 DEF Posted
    <3> QED
      BY <1>2, <1>s, <2>3, <2>9, <3>1, <3>2 DEF ServedFor
  <2>11. Once' /\ Wanted'
    BY <1>0, <1>2, <1>5, <2>4, <2>10, WantedKept
  <2>12. Slots'
    <3>1. ChunkSlot(s, k, 0)'
      BY <1>2, <1>3, <1>6, <1>s, <2>1, <2>8, <2>9 DEF ChunkSlot, New, ChunkOf, Cached, m
    <3>2. FirstChunks(k, 0) = << >>
      BY DEF FirstChunks
    <3>3. Slot(w)'
      BY <1>s, <2>3, <2>9, <3>1, <3>2 DEF Slot, FirstChunks, ChunkSlot, New
    <3> QED
      BY <1>0, <2>1, <2>4, <3>3, OthersKept DEF Slots
  <2> QED
    BY <1>0, <1>2, <1>3, <2>5, <2>6, <2>7, <2>11, <2>12, ProxyWorkerRest DEF Good, Busy
<1> QED
  BY <1>9, <1>10

LEMMA OneMore ==
  ASSUME NEW k \in Nat, NEW n \in Nat, NEW sofar \in Seq(Msgs), Len(sofar) = n, sofar = FirstChunks(k, n)
  PROVE  /\ Append(sofar, ChunkOf(k, n)) = FirstChunks(k, n + 1)
         /\ Append(sofar, ChunkOf(k, n)) \in Seq(Msgs)
         /\ Len(Append(sofar, ChunkOf(k, n))) = n + 1
<1>1. ChunkOf(k, n) \in Msgs
  BY DEF ChunkOf, Msgs
<1> DEFINE c == ChunkOf(k, n)
           all == Append(sofar, c)
           first == FirstChunks(k, n + 1)
<1>2. /\ all \in Seq(Msgs) /\ Len(all) = n + 1 /\ all[n + 1] = c
      /\ \A i \in 1..n : all[i] = sofar[i]
  BY <1>1, AppendProperties
<1>3. DOMAIN all = 1..(n + 1) /\ all = [i \in 1..(n + 1) |-> all[i]]
  BY <1>2, LenProperties
<1>4. first = [i \in 1..(n + 1) |-> first[i]] /\ DOMAIN first = 1..(n + 1)
  BY DEF FirstChunks
<1>5. ASSUME NEW i \in 1..(n + 1) PROVE all[i] = first[i]
  <2>1. CASE i = n + 1
    <3>1. first[i] = ChunkOf(k, n)
      BY <2>1 DEF FirstChunks
    <3> QED
      BY <1>2, <2>1, <3>1
  <2>2. CASE i # n + 1
    <3>1. i \in 1..n
      BY <2>2
    <3>2. sofar[i] = ChunkOf(k, i - 1) /\ first[i] = ChunkOf(k, i - 1)
      BY <3>1 DEF FirstChunks
    <3> QED
      BY <1>2, <3>1, <3>2
  <2> QED
    BY <2>1, <2>2
<1> HIDE DEF all, first
<1>6. all = first
  BY <1>3, <1>4, <1>5
<1> QED
  BY <1>2, <1>6 DEF all, first

LEMMA ChunkGood == \A w \in ProxyWorkers : Good /\ Chunk(w) => Good'
<1> SUFFICES ASSUME NEW w \in ProxyWorkers, Good, Chunk(w) PROVE Good'
  OBVIOUS
<1> DEFINE s == seg[w]
           k == key[w]
           n == Len(got[w])
           all == Append(got[w], shm[gen][s])
<1>0. /\ pc[w] = "chunk" /\ pc[w] \in Owning /\ proxy = "up" /\ s \in Segments /\ k \in Nat
      /\ got[w] \in Seq(Msgs) /\ NChunks \in Nat
  BY Ranges DEF Chunk, Good, Types, Processes, Owning
<1>1. Sem1(s) = gen /\ Sem2(s) = gen /\ Shm(s) = gen /\ gen \in Generations
  BY <1>0, Named
<1>2. /\ sem1[gen][s] > 0 /\ sem1' = [sem1 EXCEPT ![gen][s] = @ - 1]
      /\ sem2' = [sem2 EXCEPT ![gen][s] = @ + 1]
      /\ IF Len(all) = NChunks
         THEN Finish(w, all)
         ELSE /\ got' = [got EXCEPT ![w] = all]
              /\ UNCHANGED <<shm, pc, pool, qd, orphan>>
      /\ UNCHANGED <<names, proxy, gen, at>> /\ UNCHANGED <<seg, key>>
      /\ UNCHANGED <<mq, mqName, cache, cq, items, cpc, job, h, off>>
  BY <1>1 DEF Chunk, cacheVars, threadVars
<1>3. /\ sem1' \in [Generations -> [Segments -> Nat]]
      /\ sem1'[gen][s] = sem1[gen][s] - 1 /\ sem1[gen][s] \in Nat
      /\ \A t \in Segments \ {s} : sem1'[gen][t] = sem1[gen][t]
      /\ \A g \in Generations : g # gen => sem1'[g] = sem1[g]
  BY <1>0, <1>2, SemWaits
<1>4. /\ sem2' \in [Generations -> [Segments -> Nat]] /\ sem2'[gen][s] = sem2[gen][s] + 1
      /\ \A t \in Segments \ {s} : sem2'[gen][t] = sem2[gen][t]
  BY <1>0, <1>1, <1>2 DEF Good, Types
<1>5. ChunkSlot(s, k, n) /\ got[w] = FirstChunks(k, n) /\ n \in Nat
  BY <1>0, LenProperties DEF Good, Busy, Slots, Slot
<1>6. ~New(s) /\ \A j : ~QueuedFor(j, w)
  BY <1>0, <1>2, <1>3 DEF New, QueuedFor
<1>7. Cached(k) /\ n < NChunks /\ sem1[gen][s] = 1 /\ sem2[gen][s] = 0 /\ shm[gen][s] = ChunkOf(k, n)
  BY <1>5, <1>6 DEF ChunkSlot
<1>8. ASSUME NEW c \in CacheWorkers, cpc[c] \in Active, ServedFor(c, w)
      PROVE  /\ cpc[c] = "chunk" /\ off[c] = n + 1 /\ off[c] < NChunks
             /\ job[c].id = s /\ job[c].key = k
  BY <1>0, <1>6, <1>7, <1>8 DEF ServedFor, Posted
<1>9. all = FirstChunks(k, n + 1) /\ all \in Seq(Msgs) /\ Len(all) = n + 1
  <2>1. all = Append(got[w], ChunkOf(k, n))
    BY <1>7
  <2>2. Len(got[w]) = n
    OBVIOUS
  <2> HIDE DEF all, n, k
  <2> QED
    BY <1>0, <1>5, <2>1, <2>2, OneMore
<1>10. New(s)' /\ s' = s /\ k' = k /\ Cached(k)'
  BY <1>2, <1>3, <1>4, <1>7 DEF New, Cached
<1> HIDE DEF s, k, n, all
<1>11. CASE Len(all) = NChunks
  <2>1. Finish(w, all)
    BY <1>2, <1>11
  <2>2. all = Expected(k)
    BY <1>7, <1>9, <1>11, ExpectedFacts
  <2>3. \A c \in CacheWorkers : cpc[c] \in Active => ~ServedFor(c, w)
    BY <1>5, <1>8, <1>9, <1>11
  <2>4. OnlyOf(w)
    <3>1. /\ got' = [got EXCEPT ![w] = all] /\ shm' = [shm EXCEPT ![gen][s] = Zero]
          /\ pc' = [pc EXCEPT ![w] = "return"]
      BY <1>1, <2>1 DEF Finish, s
    <3>2. \A u \in ProxyWorkers \ {w} : SameWorker(u)
      BY <1>2, <3>1 DEF SameWorker, Good, Types
    <3>3. \A t \in Segments \ {s} : SameObjects(t)
      BY <1>1, <1>2, <1>3, <1>4, <3>1 DEF SameObjects, Good, Types
    <3> QED
      BY <1>0, <1>2, <3>2, <3>3 DEF OnlyOf, s
  <2>5. New(seg[w])'
    BY <1>10 DEF s
  <2> QED
    BY <1>0, <1>2, <1>3, <1>4, <1>6, <1>9, <2>1, <2>2, <2>3, <2>4, <2>5, FinishGood DEF s, k
<1>12. CASE Len(all) # NChunks
  <2>1. got' = [got EXCEPT ![w] = all] /\ UNCHANGED <<shm, pc, pool, qd>>
    BY <1>2, <1>12
  <2>2. got \in [ProxyWorkers -> Seq(Msgs)]
    BY DEF Good, Types
  <2>3. got'[w] = all /\ \A u \in ProxyWorkers \ {w} : SameWorker(u)
    BY <1>2, <2>1, <2>2 DEF SameWorker
  <2>4. OnlyOf(w)
    BY <1>0, <1>2, <1>3, <1>4, <2>1, <2>3 DEF OnlyOf, SameObjects, s
  <2>5. Types'
    <3>1. got' \in [ProxyWorkers -> Seq(Msgs)]
      BY <1>9, <2>1, <2>2
    <3> QED
      BY <1>2, <1>3, <1>4, <2>1, <3>1, CacheSide DEF Good, Types
  <2>6. Processes'
    <3>1. \A u \in ProxyWorkers : pc[u] \in {"idle", "open", "send", "header"} => got'[u] = << >>
      BY <1>0, <2>3 DEF Good, Processes, SameWorker
    <3> QED
      BY <1>0, <1>2, <2>1, <3>1, CacheSide DEF Good, Processes
  <2>7. Ownership'
    BY <1>2, <2>1 DEF Good, Ownership
  <2>8. n + 1 < NChunks
    BY <1>0, <1>5, <1>7, <1>9, <1>12
  <2>9. pc'[w] = "chunk" /\ seg'[w] = s /\ key'[w] = k /\ Len(got'[w]) = n + 1
    BY <1>0, <1>2, <1>9, <2>1, <2>3 DEF s, k
  <2>10. ASSUME NEW c \in CacheWorkers, cpc[c] \in Active, ServedFor(c, w)
         PROVE  ServedFor(c, w)'
    <3>1. /\ cpc[c] = "chunk" /\ off[c] = n + 1 /\ off[c] < NChunks /\ job[c].id = s /\ job[c].key = k
      BY <1>8, <2>10
    <3>2. Posted(w)' = n + 1
      BY <1>2, <1>3, <1>5, <1>7, <2>9 DEF Posted
    <3> QED
      BY <1>2, <1>10, <2>9, <3>1, <3>2 DEF ServedFor
  <2>11. Once' /\ Wanted'
    BY <1>0, <1>2, <1>6, <2>4, <2>10, WantedKept
  <2>12. Slots'
    <3>1. ChunkSlot(seg[w], key[w], Len(got[w]))'
      BY <1>10, <2>8, <2>9 DEF ChunkSlot, New, Cached
    <3>2. got'[w] = FirstChunks(key'[w], Len(got'[w]))
      BY <1>9, <2>3, <2>9
    <3>3. Slot(w)'
      BY <2>9, <3>1, <3>2 DEF Slot, FirstChunks, ChunkOf
    <3> QED
      BY <1>0, <2>1, <2>4, <3>3, OthersKept DEF Slots
  <2> QED
    BY <1>0, <1>2, <1>3, <2>5, <2>6, <2>7, <2>11, <2>12, ProxyWorkerRest DEF Good, Busy
<1> QED
  BY <1>11, <1>12

LEMMA ReturnGood == \A w \in ProxyWorkers : Good /\ Return(w) => Good'
<1> SUFFICES ASSUME NEW w \in ProxyWorkers, Good, Return(w) PROVE Good'
  OBVIOUS
<1>1. /\ pc[w] = "return" /\ pc' = [pc EXCEPT ![w] = "idle"] /\ seg' = [seg EXCEPT ![w] = 0]
      /\ key' = [key EXCEPT ![w] = 0] /\ got' = [got EXCEPT ![w] = << >>]
      /\ UNCHANGED <<names, shm, sem1, sem2>> /\ UNCHANGED <<names, proxy, gen, at>> /\ UNCHANGED <<pool, qd>>
      /\ UNCHANGED <<mq, mqName, cache, cq, items, cpc, job, h, off>>
  BY DEF Return, objects, proxyVars, cacheVars, threadVars
<1>2. /\ proxy = "up" /\ pc \in [ProxyWorkers -> {"idle", "return"} \union Owning]
      /\ seg \in [ProxyWorkers -> Segments] /\ key \in [ProxyWorkers -> Nat]
      /\ got \in [ProxyWorkers -> Seq(Msgs)]
  BY <1>1 DEF Good, Types, Processes
<1>3. pc'[w] = "idle" /\ got'[w] = << >> /\ \A u \in ProxyWorkers \ {w} : SameWorker(u)
  BY <1>1, <1>2 DEF SameWorker
<1>4. OnlyOf(w)
  BY <1>1, <1>3 DEF OnlyOf, SameObjects
<1>5. Types'
  <2>1. /\ pc' \in [ProxyWorkers -> {"idle", "return"} \union Owning]
        /\ seg' \in [ProxyWorkers -> Segments] /\ key' \in [ProxyWorkers -> Nat]
    BY <1>1, <1>2, Ranges
  <2>2. got' \in [ProxyWorkers -> Seq(Msgs)]
    BY <1>1, <1>2, EmptySeq
  <2> QED
    BY <1>1, <2>1, <2>2, CacheSide DEF Good, Types
<1>6. Processes'
  <2>1. \A u \in ProxyWorkers : pc'[u] = "send" => qd'[u] # 0
    BY <1>1, <1>3 DEF Good, Processes, SameWorker
  <2>2. \A u \in ProxyWorkers : pc'[u] \in {"idle", "open", "send", "header"} => got'[u] = << >>
    BY <1>3 DEF Good, Processes, SameWorker
  <2> QED
    BY <1>1, <1>2, <2>1, <2>2, CacheSide DEF Good, Processes
<1>7. Ownership'
  BY <1>1, <1>3 DEF Good, Ownership, SameWorker, Owning
<1>8. Once' /\ Wanted'
  <2>1. \A j : ~QueuedFor(j, w)
    BY <1>1 DEF QueuedFor
  <2>2. \A c : ~ServedFor(c, w)
    BY <1>1 DEF ServedFor
  <2> QED
    BY <1>1, <1>2, <1>4, <2>1, <2>2, WantedKept
<1>9. Slots'
  <2>1. Slot(w)'
    BY <1>3 DEF Slot
  <2> QED
    BY <1>1, <1>2, <1>4, <2>1, OthersKept DEF Slots
<1> QED
  BY <1>1, <1>2, <1>5, <1>6, <1>7, <1>8, <1>9, ProxyWorkerRest DEF Good, Busy
-----------------------------------------------------------------------------
(* The cache: starts and ends *)

LEMMA ProxySide ==
  ASSUME Good, UNCHANGED <<names, shm, sem1, sem2>>, UNCHANGED <<proxy, gen, at, pool>>,
         UNCHANGED <<pc, seg, key, qd, got>>
  PROVE  /\ names' \in [Kinds -> [Segments -> 0..MaxStarts]]
         /\ shm' \in [Generations -> [Segments -> Msgs]]
         /\ sem1' \in [Generations -> [Segments -> Nat]]
         /\ sem2' \in [Generations -> [Segments -> Nat]]
         /\ proxy' \in {"down", "setup", "up"} /\ gen' \in 0..MaxStarts
         /\ at' \in (0..NSegments) \X (1..6) /\ pool' \subseteq Segments
         /\ pc' \in [ProxyWorkers -> {"idle", "return"} \union Owning]
         /\ seg' \in [ProxyWorkers -> Segments] /\ key' \in [ProxyWorkers -> Nat]
         /\ qd' \in [ProxyWorkers -> Queues \union {0}] /\ got' \in [ProxyWorkers -> Seq(Msgs)]
         /\ proxy' # "down" => gen' > 0
         /\ proxy' # "up" => \A w \in ProxyWorkers : pc'[w] = "idle"
         /\ \A w \in ProxyWorkers : pc'[w] = "send" => qd'[w] # 0
         /\ \A w \in ProxyWorkers : pc'[w] \in {"idle", "open", "send", "header"} => got'[w] = << >>
         /\ Ownership' /\ Naming' /\ Unused'
         /\ proxy = "up" => Slots'
         /\ \A w \in ProxyWorkers : SameWorker(w) /\ SameObjects(seg[w])
<1>1. \A w \in ProxyWorkers : SameWorker(w) /\ SameObjects(seg[w])
  BY DEF SameWorker, SameObjects
<1>2. ASSUME proxy = "up" PROVE Slots'
  <2>1. Slots
    BY <1>2 DEF Good, Busy
  <2>2. \A w \in ProxyWorkers : Slot(w)'
    BY <1>1, <2>1, SlotKept DEF Slots
  <2> QED
    BY <2>1, <2>2 DEF Slots, New
<1>3. Ownership' /\ Naming' /\ Unused'
  BY DEF Good, Ownership, Naming, Unused
<1>4. /\ proxy' # "down" => gen' > 0
      /\ proxy' # "up" => \A w \in ProxyWorkers : pc'[w] = "idle"
      /\ \A w \in ProxyWorkers : pc'[w] = "send" => qd'[w] # 0
      /\ \A w \in ProxyWorkers : pc'[w] \in {"idle", "open", "send", "header"} => got'[w] = << >>
  BY DEF Good, Processes
<1> QED
  BY <1>1, <1>2, <1>3, <1>4 DEF Good, Types

LEMMA CacheStartGood == Good /\ CacheStart => Good'
<1> SUFFICES ASSUME Good, CacheStart PROVE Good'
  OBVIOUS
<1>1. /\ cache = "down" /\ cache' = "up" /\ items' \in Sortings(Locals) /\ QueueExists
      /\ mqName' = MqOpened /\ cq' = MqOpened
      /\ UNCHANGED <<names, shm, sem1, sem2>> /\ UNCHANGED <<proxy, gen, at, pool>>
      /\ UNCHANGED <<pc, seg, key, qd, got>> /\ UNCHANGED <<mq, cpc, job, h, off>>
  BY DEF CacheStart, objects, proxyVars, workerVars, threadVars
<1>2. MqOpened \in Queues /\ MqOpened # 0
  <2>1. mqName \in Queues \union {0}
    BY DEF Good, Types
  <2> QED
    BY <1>1, <2>1, Ranges DEF MqOpened, QueueExists
<1>3. Types'
  BY <1>1, <1>2, ProxySide DEF Good, Types
<1>4. Processes'
  BY <1>1, <1>2, ProxySide DEF Processes
<1>5. Sent' /\ Taken' /\ Opened'
  BY <1>1 DEF Good, Sent, Taken, Opened
<1>6. ASSUME proxy = "up" PROVE Once' /\ Wanted'
  <2>1. Once /\ Wanted
    BY <1>6 DEF Good, Busy
  <2> QED
    BY <1>1, <2>1 DEF Once, Wanted, Now, QueuedFor, ServedFor, New, Posted, Cached
<1> QED
  BY <1>1, <1>3, <1>4, <1>5, <1>6, ProxySide DEF Good, Busy

\* The process ends with all the requests it has; those in a queue may be lost as well.
LEMMA CacheEndsGood ==
  ASSUME Good, NEW lost, CacheEnds(lost),
         mq' \in [Queues -> Seq(Jobs)], \A q \in Queues : mq'[q] = mq[q] \/ mq'[q] = << >>,
         mqName' \in Queues \union {0},
         UNCHANGED <<names, shm, sem1, sem2>>, UNCHANGED <<proxy, gen, at, pool>>,
         UNCHANGED <<pc, seg, key, qd, got>>
  PROVE  Good'
<1>1. /\ cache' = "down" /\ cq' = 0 /\ cpc' = ReceivePc /\ job' = [c \in CacheWorkers |-> NoJob]
      /\ h' = [c \in CacheWorkers |-> NoHandles] /\ off' = [c \in CacheWorkers |-> 0]
  BY DEF CacheEnds
<1>2. \A c \in CacheWorkers : cpc'[c] = "receive" /\ cpc'[c] \notin Active
  BY <1>1 DEF ReceivePc, Active
<1>3. Types'
  <2>1. /\ cache' \in {"up", "down"} /\ cq' \in Queues \union {0}
        /\ cpc' \in [CacheWorkers -> {"receive", "dead"} \union Active]
        /\ job' \in [CacheWorkers -> Jobs \union {NoJob}]
        /\ h' \in [CacheWorkers -> Handles] /\ off' \in [CacheWorkers -> Nat]
    BY <1>1, Records DEF ReceivePc
  <2> QED
    BY <2>1, ProxySide DEF Types
<1>4. Processes'
  BY <1>1, <1>2, ProxySide DEF Processes
<1>5. \A q \in Queues : \A i \in 1..Len(mq'[q]) : mq'[q] = mq[q] /\ i \in 1..Len(mq[q])
  <2> TAKE q \in Queues
  <2>1. CASE mq'[q] = << >>
    BY <2>1
  <2> QED
    BY <2>1
<1>6. Sent'
  BY <1>5 DEF Good, Sent
<1>7. Taken' /\ Opened'
  BY <1>2 DEF Taken, Opened
<1>8. ASSUME proxy = "up" PROVE Once' /\ Wanted'
  <2>0. Once /\ Wanted
    BY <1>8 DEF Good, Busy
  <2>1. Once'
    BY <1>2, <1>5, <2>0 DEF Once, Now
  <2>2. ASSUME NEW q \in Queues, NEW i \in 1..Len(mq'[q]), mq'[q][i].from = gen
        PROVE  \E w \in ProxyWorkers : QueuedFor(mq[q][i], w)'
    <3>1. PICK w \in ProxyWorkers : QueuedFor(mq[q][i], w)
      BY <1>5, <2>0, <2>2 DEF Wanted, Now
    <3> QED
      BY <1>5, <3>1 DEF QueuedFor, New
  <2>3. Wanted'
    BY <1>2, <2>2 DEF Wanted, Now
  <2> QED
    BY <2>1, <2>3
<1> QED
  BY <1>3, <1>4, <1>6, <1>7, <1>8, ProxySide DEF Good, Busy

LEMMA CacheExitGood == Good /\ CacheExit => Good'
<1> SUFFICES ASSUME Good, CacheExit PROVE Good'
  OBVIOUS
<1>1. /\ mqName' = (IF mqName = cq THEN 0 ELSE mqName) /\ mq' = [mq EXCEPT ![cq] = << >>]
      /\ CacheEnds(InHand \union {w \in ProxyWorkers : qd[w] = cq})
      /\ UNCHANGED <<names, shm, sem1, sem2>> /\ UNCHANGED <<proxy, gen, at, pool>>
      /\ UNCHANGED <<pc, seg, key, qd, got>>
  BY DEF CacheExit, objects, proxyVars, workerVars
<1>2. mqName \in Queues \union {0} /\ mq \in [Queues -> Seq(Jobs)] /\ << >> \in Seq(Jobs)
  BY EmptySeq DEF Good, Types
<1>3. mq' \in [Queues -> Seq(Jobs)] /\ \A q \in Queues : mq'[q] = mq[q] \/ mq'[q] = << >>
  BY <1>1, <1>2
<1>4. mqName' \in Queues \union {0}
  BY <1>1, <1>2
<1> QED
  BY <1>1, <1>3, <1>4, CacheEndsGood

LEMMA CacheCrashGood ==
  ASSUME Good, CacheEnds(InHand), UNCHANGED <<objects, mq, mqName, proxyVars, workerVars>>
  PROVE  Good'
<1>1. /\ UNCHANGED <<names, shm, sem1, sem2>> /\ UNCHANGED <<proxy, gen, at, pool>>
      /\ UNCHANGED <<pc, seg, key, qd, got>> /\ UNCHANGED <<mq, mqName>>
  BY DEF objects, proxyVars, workerVars
<1>2. mqName' \in Queues \union {0} /\ mq' \in [Queues -> Seq(Jobs)]
  BY <1>1 DEF Good, Types
<1> QED
  BY <1>1, <1>2, CacheEndsGood
-----------------------------------------------------------------------------
(* worker_thread *)

\* The thread ends in the middle of a request: the request is lost.
LEMMA FstatFailsGood == \A c \in CacheWorkers : Good /\ FstatFails(c) => Good'
<1> SUFFICES ASSUME NEW c \in CacheWorkers, Good, FstatFails(c) PROVE Good'
  OBVIOUS
<1>1. UNCHANGED <<objects, mq, mqName, proxyVars, workerVars>>
  BY DEF FstatFails
<1>2. CASE CacheEnds(InHand)
  BY <1>1, <1>2, CacheCrashGood
<1>3. CASE cpc' = [cpc EXCEPT ![c] = "dead"] /\ UNCHANGED <<cache, cq, items, job, h, off>>
  <2>1. /\ UNCHANGED <<names, shm, sem1, sem2>> /\ UNCHANGED <<proxy, gen, at, pool>>
        /\ UNCHANGED <<pc, seg, key, qd, got>> /\ UNCHANGED <<mq, mqName>>
    BY <1>1 DEF objects, proxyVars, workerVars
  <2>2. cpc \in [CacheWorkers -> {"receive", "dead"} \union Active] /\ cpc[c] = "answer"
    BY DEF Good, Types, FstatFails
  <2>3. /\ cpc' \in [CacheWorkers -> {"receive", "dead"} \union Active]
        /\ \A d \in CacheWorkers : cpc'[d] # "dead" => cpc'[d] = cpc[d]
        /\ \A d \in CacheWorkers : cpc'[d] = "dead" => cpc'[d] \notin Active
    BY <1>3, <2>2 DEF Active
  <2>4. Types'
    BY <1>3, <2>1, <2>3, ProxySide DEF Good, Types
  <2>5. Processes'
    <3>1. cache # "down"
      BY <2>2 DEF Good, Processes
    <3> QED
      BY <1>3, <3>1, <2>1, ProxySide DEF Good, Processes
  <2>6. \A d \in CacheWorkers : cpc'[d] \in Active => cpc'[d] = cpc[d] /\ cpc[d] \in Active
    BY <2>3
  <2>7. Sent' /\ Taken'
    BY <1>3, <2>1, <2>6 DEF Good, Sent, Taken
  <2>8. Opened'
    BY <1>3, <2>3 DEF Good, Opened
  <2>9. ASSUME proxy = "up" PROVE Once' /\ Wanted'
    <3>0. Once /\ Wanted
      BY <2>9 DEF Good, Busy
    <3>1. Once'
      BY <1>3, <2>1, <2>6, <3>0 DEF Once, Now
    <3>2. ASSUME NEW q \in Queues, NEW i \in 1..Len(mq[q]), mq[q][i].from = gen
          PROVE  \E w \in ProxyWorkers : QueuedFor(mq[q][i], w)'
      <4>1. PICK w \in ProxyWorkers : QueuedFor(mq[q][i], w)
        BY <3>0, <3>2 DEF Wanted, Now
      <4> QED
        BY <2>1, <4>1 DEF QueuedFor, New
    <3>3. ASSUME NEW d \in CacheWorkers, cpc'[d] \in Active, job[d].from = gen
          PROVE  \E w \in ProxyWorkers : ServedFor(d, w)'
      <4>1. PICK w \in ProxyWorkers : ServedFor(d, w)
        BY <2>6, <3>0, <3>3 DEF Wanted, Now
      <4>2. SameWorker(w) /\ SameObjects(seg[w]) /\ cpc'[d] = cpc[d] /\ job'[d] = job[d] /\ off'[d] = off[d]
        BY <1>3, <2>1, <2>6, <3>3, ProxySide
      <4> QED
        BY <4>1, <4>2, ServedKept
    <3>4. Wanted'
      BY <1>3, <2>1, <3>2, <3>3 DEF Wanted, Now
    <3> QED
      BY <3>1, <3>4
  <2> QED
    BY <2>1, <2>4, <2>5, <2>7, <2>8, <2>9, ProxySide DEF Good, Busy
<1> QED
  BY <1>2, <1>3 DEF FstatFails

\* A request passes from the head of the queue to the worker.
LEMMA ReceiveGood == \A c \in CacheWorkers : Good /\ Receive(c) => Good'
<1> SUFFICES ASSUME NEW c \in CacheWorkers, Good, Receive(c) PROVE Good'
  OBVIOUS
<1> DEFINE m == Head(mq[cq])
<1>1. /\ cache = "up" /\ cpc[c] = "receive" /\ mq[cq] # << >>
      /\ job' = [job EXCEPT ![c] = m] /\ mq' = [mq EXCEPT ![cq] = Tail(@)]
      /\ cpc' = [cpc EXCEPT ![c] = "sem1"]
      /\ UNCHANGED <<names, shm, sem1, sem2>> /\ UNCHANGED <<proxy, gen, at, pool>>
      /\ UNCHANGED <<pc, seg, key, qd, got>> /\ UNCHANGED <<mqName, cache, cq, items, h, off>>
  BY DEF Receive, objects, proxyVars, workerVars, cacheVars
<1>2. /\ mq \in [Queues -> Seq(Jobs)] /\ cq \in Queues
      /\ cpc \in [CacheWorkers -> {"receive", "dead"} \union Active]
      /\ job \in [CacheWorkers -> Jobs \union {NoJob}]
  BY <1>1 DEF Good, Types, Processes
<1>3. /\ m \in Jobs /\ m = mq[cq][1] /\ 1 \in 1..Len(mq[cq]) /\ Len(mq[cq]) \in Nat
      /\ mq'[cq] \in Seq(Jobs) /\ Len(mq'[cq]) = Len(mq[cq]) - 1
      /\ \A i \in 1..Len(mq'[cq]) : i + 1 \in 1..Len(mq[cq]) /\ mq'[cq][i] = mq[cq][i + 1]
  <2>1. mq'[cq] = Tail(mq[cq]) /\ mq[cq] \in Seq(Jobs) /\ mq[cq] # << >>
    BY <1>1, <1>2
  <2>2. Len(mq[cq]) \in Nat /\ Len(mq[cq]) # 0
    BY <2>1, LenProperties, EmptySeq
  <2>3. m \in Jobs /\ m = mq[cq][1] /\ 1 \in 1..Len(mq[cq])
    BY <2>1, <2>2, HeadTailProperties
  <2>4. mq'[cq] \in Seq(Jobs) /\ Len(mq'[cq]) = Len(mq[cq]) - 1
        /\ \A i \in 1..Len(Tail(mq[cq])) : Tail(mq[cq])[i] = mq[cq][i + 1]
    BY <2>1, HeadTailProperties
  <2> QED
    BY <2>1, <2>2, <2>3, <2>4
<1> HIDE DEF m
<1> DEFINE Old(r, i) == IF r = cq THEN i + 1 ELSE i
<1>4. \A r \in Queues : \A i \in 1..Len(mq'[r]) :
        /\ Old(r, i) \in 1..Len(mq[r]) /\ mq'[r][i] = mq[r][Old(r, i)]
        /\ r = cq => Old(r, i) # 1
  BY <1>1, <1>2, <1>3
<1>5. /\ cpc'[c] = "sem1" /\ job'[c] = m
      /\ \A d \in CacheWorkers \ {c} : cpc'[d] = cpc[d] /\ job'[d] = job[d]
  BY <1>1, <1>2
<1>6. Types'
  <2>1. mq' \in [Queues -> Seq(Jobs)]
    BY <1>1, <1>2, <1>3
  <2>2. /\ cpc' \in [CacheWorkers -> {"receive", "dead"} \union Active]
        /\ job' \in [CacheWorkers -> Jobs \union {NoJob}]
    BY <1>1, <1>2, <1>3 DEF Active
  <2> QED
    BY <1>1, <2>1, <2>2, ProxySide DEF Good, Types
<1>7. Processes'
  BY <1>1, ProxySide DEF Good, Processes
<1>8. Sent'
  <2>1. \A r \in Queues : \A i \in 1..Len(mq'[r]) :
          mq'[r][i].from <= gen /\ (proxy = "setup" => mq'[r][i].from # gen)
    BY <1>4 DEF Good, Sent
  <2> QED
    BY <1>1, <2>1 DEF Sent
<1>9. Taken'
  <2>1. m.from <= gen /\ (proxy = "setup" => m.from # gen)
    BY <1>2, <1>3 DEF Good, Sent
  <2> QED
    BY <1>1, <1>3, <1>5, <2>1 DEF Good, Taken
<1>10. Opened'
  BY <1>1, <1>5 DEF Good, Opened
<1>11. ASSUME proxy = "up" PROVE Once' /\ Wanted'
  <2>0. Once /\ Wanted
    BY <1>11 DEF Good, Busy
  <2>1. ASSUME NEW r \in Queues, NEW t \in Queues, NEW i \in 1..Len(mq'[r]), NEW j \in 1..Len(mq'[t]),
               mq'[r][i].from = gen, mq'[t][j].from = gen, mq'[r][i].id = mq'[t][j].id
        PROVE  r = t /\ i = j
    <3>1. r = t /\ Old(r, i) = Old(t, j)
      <4>1. /\ Old(r, i) \in 1..Len(mq[r]) /\ mq'[r][i] = mq[r][Old(r, i)]
            /\ Old(t, j) \in 1..Len(mq[t]) /\ mq'[t][j] = mq[t][Old(t, j)]
        BY <1>4
      <4> HIDE DEF Old
      <4> QED
        BY <2>0, <2>1, <4>1 DEF Once, Now
    <3>2. i \in Int /\ j \in Int
      OBVIOUS
    <3> QED
      BY <3>1, <3>2
  <2> HIDE DEF Old
  <2>2. ASSUME NEW d \in CacheWorkers, NEW e \in CacheWorkers, cpc'[d] \in Active, cpc'[e] \in Active,
               job'[d].from = gen, job'[e].from = gen, job'[d].id = job'[e].id
        PROVE  d = e
    <3>1. CASE d # c /\ e # c
      BY <1>5, <2>0, <2>2, <3>1 DEF Once, Now
    <3>2. \A x \in CacheWorkers \ {c} : cpc[x] \in Active /\ job[x].from = gen /\ m.from = gen => job[x].id # m.id
      BY <1>2, <1>3, <2>0 DEF Once, Now
    <3> QED
      BY <1>5, <2>2, <3>1, <3>2
  <2>3. ASSUME NEW d \in CacheWorkers, NEW r \in Queues, NEW i \in 1..Len(mq'[r]), cpc'[d] \in Active,
               job'[d].from = gen, mq'[r][i].from = gen
        PROVE  job'[d].id # mq'[r][i].id
    <3>1. Old(r, i) \in 1..Len(mq[r]) /\ mq'[r][i] = mq[r][Old(r, i)] /\ (r = cq => Old(r, i) # 1)
      BY <1>4
    <3>2. CASE d # c
      BY <1>5, <2>0, <2>3, <3>1, <3>2 DEF Once, Now
    <3>3. CASE d = c
      <4>1. job'[d] = mq[cq][1] /\ 1 \in 1..Len(mq[cq])
        BY <1>3, <1>5, <3>3
      <4>2. mq[cq][1].id = mq[r][Old(r, i)].id => cq = r /\ 1 = Old(r, i)
        BY <1>2, <2>0, <2>3, <3>1, <4>1 DEF Once, Now
      <4> QED
        BY <3>1, <4>1, <4>2
    <3> QED
      BY <3>2, <3>3
  <2>4. Once'
    <3>1. gen' = gen
      BY <1>1
    <3> QED
      BY <2>1, <2>2, <2>3, <3>1 DEF Once, Now
  <2>5. ASSUME NEW r \in Queues, NEW i \in 1..Len(mq'[r]), mq'[r][i].from = gen
        PROVE  \E w \in ProxyWorkers : QueuedFor(mq[r][i], w)'
    <3>1. Old(r, i) \in 1..Len(mq[r]) /\ mq'[r][i] = mq[r][Old(r, i)]
      BY <1>4
    <3>2. PICK w \in ProxyWorkers : QueuedFor(mq[r][Old(r, i)], w)
      BY <2>0, <2>5, <3>1 DEF Wanted, Now
    <3> QED
      BY <1>1, <3>1, <3>2 DEF QueuedFor, New
  <2>6. ASSUME NEW d \in CacheWorkers, cpc'[d] \in Active, job'[d].from = gen
        PROVE  \E w \in ProxyWorkers : ServedFor(d, w)'
    <3>1. CASE d = c
      <4>1. m.from = gen
        BY <1>5, <2>6, <3>1
      <4>2. PICK w \in ProxyWorkers : QueuedFor(m, w)
        BY <1>2, <1>3, <2>0, <4>1 DEF Wanted, Now
      <4>3. ServedFor(c, w)'
        BY <1>1, <1>5, <4>2 DEF QueuedFor, ServedFor, New
      <4> QED
        BY <3>1, <4>3
    <3>2. CASE d # c
      <4>1. PICK w \in ProxyWorkers : ServedFor(d, w)
        BY <1>5, <2>0, <2>6, <3>2 DEF Wanted, Now
      <4>2. SameWorker(w) /\ SameObjects(seg[w]) /\ cpc'[d] = cpc[d] /\ job'[d] = job[d] /\ off'[d] = off[d]
        BY <1>1, <1>5, <3>2, ProxySide
      <4> QED
        BY <4>1, <4>2, ServedKept
    <3> QED
      BY <3>1, <3>2
  <2>7. Wanted'
    BY <1>1, <2>5, <2>6 DEF Wanted, Now
  <2> QED
    BY <2>4, <2>7
<1> QED
  BY <1>1, <1>6, <1>7, <1>8, <1>9, <1>10, <1>11, ProxySide DEF Good, Busy

\* A name resolves to the object of the proxy that sent the request, or the step is
\* what makes stale true.
LEMMA OpenNameGood ==
  ASSUME NEW c \in CacheWorkers, NEW kind, NEW next, Good, ~stale', OpenName(c, kind, next),
         \/ kind = "sem1" /\ next = "sem2"
         \/ kind = "sem2" /\ next = "shm"
         \/ kind = "shm" /\ next = "answer"
  PROVE  Good'
<1> DEFINE g == names[kind][job[c].id]
<1>1. /\ cpc[c] = kind /\ g # 0 /\ g = job[c].from
      /\ h' = [h EXCEPT ![c][kind] = g] /\ cpc' = [cpc EXCEPT ![c] = next]
      /\ UNCHANGED <<names, shm, sem1, sem2>> /\ UNCHANGED <<proxy, gen, at, pool>>
      /\ UNCHANGED <<pc, seg, key, qd, got>> /\ UNCHANGED <<mq, mqName, cache, cq, items, job, off>>
  BY DEF OpenName, objects, proxyVars, workerVars, cacheVars
<1>2. /\ cpc \in [CacheWorkers -> {"receive", "dead"} \union Active]
      /\ h \in [CacheWorkers -> Handles] /\ job[c] \in Jobs
      /\ names \in [Kinds -> [Segments -> 0..MaxStarts]]
  BY <1>1 DEF Good, Types, Taken, Active
<1>3. g \in 0..MaxStarts
  BY <1>2, Records DEF Kinds
<1> HIDE DEF g
<1>4. /\ cpc'[c] = next /\ \A d \in CacheWorkers \ {c} : cpc'[d] = cpc[d] /\ h'[d] = h[d]
  BY <1>1, <1>2
<1>5. /\ h'[c] = [h[c] EXCEPT ![kind] = g] /\ h[c] \in Handles
  BY <1>1, <1>2
<1>6. /\ h'[c] \in Handles
      /\ h'[c].sem1 = IF kind = "sem1" THEN g ELSE h[c].sem1
      /\ h'[c].sem2 = IF kind = "sem2" THEN g ELSE h[c].sem2
      /\ h'[c].shm = IF kind = "shm" THEN g ELSE h[c].shm
  BY <1>3, <1>5 DEF Handles
<1>7. Types'
  <2>1. /\ cpc' \in [CacheWorkers -> {"receive", "dead"} \union Active] /\ h' \in [CacheWorkers -> Handles]
    BY <1>1, <1>2, <1>4, <1>6 DEF Active
  <2> QED
    BY <1>1, <2>1, ProxySide DEF Good, Types
<1>8. Processes'
  <2>1. cache # "down"
    BY <1>1 DEF Good, Processes
  <2> QED
    BY <1>1, <2>1, ProxySide DEF Good, Processes
<1>9. /\ cpc[c] \in Active /\ cpc[c] # "chunk" /\ cpc'[c] # "chunk" /\ cpc'[c] \in Active
      /\ \A d \in CacheWorkers : cpc'[d] \in Active => cpc[d] \in Active
  BY <1>1, <1>4 DEF Active
<1>10. Sent' /\ Taken'
  BY <1>1, <1>9 DEF Good, Sent, Taken
<1>11. Opened'
  <2>1. /\ cpc[c] \in {"sem2", "shm"} => h[c].sem1 = job[c].from
        /\ cpc[c] = "shm" => h[c].sem2 = job[c].from
    BY DEF Good, Opened
  <2>2. /\ h'[c].sem1 = job[c].from
        /\ next \in {"shm", "answer"} => h'[c].sem2 = job[c].from
        /\ next = "answer" => h'[c].shm = job[c].from
    BY <1>1, <1>6, <2>1
  <2>3. \A d \in CacheWorkers \ {c} :
            /\ cpc'[d] \in {"sem2", "shm", "answer", "chunk"} => h'[d].sem1 = job[d].from
            /\ cpc'[d] \in {"shm", "answer", "chunk"} => h'[d].sem2 = job[d].from
            /\ cpc'[d] \in {"answer", "chunk"} => h'[d].shm = job[d].from
    BY <1>4 DEF Good, Opened
  <2> QED
    BY <1>1, <1>4, <2>2, <2>3 DEF Opened
<1>12. ASSUME proxy = "up" PROVE Once' /\ Wanted'
  <2>0. Once /\ Wanted
    BY <1>12 DEF Good, Busy
  <2>1. Once'
    BY <1>1, <1>9, <2>0 DEF Once, Now
  <2>2. ASSUME NEW r \in Queues, NEW i \in 1..Len(mq[r]), mq[r][i].from = gen
        PROVE  \E w \in ProxyWorkers : QueuedFor(mq[r][i], w)'
    <3>1. PICK w \in ProxyWorkers : QueuedFor(mq[r][i], w)
      BY <2>0, <2>2 DEF Wanted, Now
    <3> QED
      BY <1>1, <3>1 DEF QueuedFor, New
  <2>3. ASSUME NEW d \in CacheWorkers, cpc'[d] \in Active, job[d].from = gen
        PROVE  \E w \in ProxyWorkers : ServedFor(d, w)'
    <3>1. PICK w \in ProxyWorkers : ServedFor(d, w)
      BY <1>9, <2>0, <2>3 DEF Wanted, Now
    <3>2. SameWorker(w) /\ SameObjects(seg[w]) /\ job'[d] = job[d] /\ off'[d] = off[d]
      BY <1>1, ProxySide
    <3>3. CASE d = c
      BY <1>9, <3>1, <3>2, <3>3 DEF ServedFor, New, SameWorker, SameObjects
    <3>4. CASE d # c
      <4>1. cpc'[d] = cpc[d]
        BY <1>4, <3>4
      <4> QED
        BY <3>1, <3>2, <4>1, ServedKept
    <3> QED
      BY <3>3, <3>4
  <2>4. Wanted'
    BY <1>1, <2>2, <2>3 DEF Wanted, Now
  <2> QED
    BY <2>1, <2>4
<1> QED
  BY <1>1, <1>7, <1>8, <1>10, <1>11, <1>12, ProxySide DEF Good, Busy

\* A cache worker posts into the objects it has: those of the sender of its request.
Posts(c, v) ==
  LET g == job[c].from
      s == job[c].id
  IN
  /\ shm' = [shm EXCEPT ![g][s] = v]
  /\ sem1' = [sem1 EXCEPT ![g][s] = @ + 1]
  /\ sem2' = sem2 \/ (sem2[g][s] > 0 /\ sem2' = [sem2 EXCEPT ![g][s] = @ - 1])

\* If the sender is gone this touches nothing of the proxy that is up; if not, only the
\* segment of the worker that waits for it.
LEMMA PostsGood ==
  ASSUME Good, NEW c \in CacheWorkers, cpc[c] \in {"answer", "chunk"}, NEW v \in Msgs, Posts(c, v),
         NEW more \in BOOLEAN, NEW n \in Nat, Continue(c, more, n),
         UNCHANGED <<names, proxy, gen, at, pool>>, UNCHANGED <<pc, seg, key, qd, got>>,
         UNCHANGED <<mq, mqName, cache, cq, items>>,
         \A w \in ProxyWorkers : proxy = "up" /\ job[c].from = gen /\ ServedFor(c, w) =>
           Slot(w)' /\ (more => ServedFor(c, w)')
  PROVE  Good'
<1> DEFINE g == job[c].from
           s == job[c].id
<1>1. /\ shm' = [shm EXCEPT ![g][s] = v] /\ sem1' = [sem1 EXCEPT ![g][s] = @ + 1]
      /\ sem2' = sem2 \/ (sem2[g][s] > 0 /\ sem2' = [sem2 EXCEPT ![g][s] = @ - 1])
  BY DEF Posts
<1>2. job[c] \in Jobs /\ g <= gen /\ (proxy = "setup" => g # gen) /\ cpc[c] \in Active
  BY DEF Good, Taken, Active
<1>3. g \in Generations /\ s \in Segments /\ g \in Nat /\ gen \in Nat
  BY <1>2, Records, Ranges DEF Good, Types
<1> HIDE DEF g, s
<1>4. /\ shm \in [Generations -> [Segments -> Msgs]] /\ sem1 \in [Generations -> [Segments -> Nat]]
      /\ sem2 \in [Generations -> [Segments -> Nat]]
      /\ cpc \in [CacheWorkers -> {"receive", "dead"} \union Active]
      /\ job \in [CacheWorkers -> Jobs \union {NoJob}]
      /\ h \in [CacheWorkers -> Handles] /\ off \in [CacheWorkers -> Nat]
  BY DEF Good, Types
<1>5. /\ shm' \in [Generations -> [Segments -> Msgs]] /\ sem1' \in [Generations -> [Segments -> Nat]]
      /\ \A e \in Generations : \A t \in Segments : e # g \/ t # s =>
           sem1'[e][t] = sem1[e][t] /\ shm'[e][t] = shm[e][t]
  BY <1>1, <1>3, <1>4
<1>6. /\ sem2' \in [Generations -> [Segments -> Nat]]
      /\ \A e \in Generations : \A t \in Segments : e # g \/ t # s => sem2'[e][t] = sem2[e][t]
  <2>1. CASE sem2' = sem2
    BY <1>4, <2>1
  <2>2. CASE sem2[g][s] > 0 /\ sem2' = [sem2 EXCEPT ![g][s] = @ - 1]
    <3>1. sem2[g][s] - 1 \in Nat
      BY <1>3, <1>4, <2>2
    <3> QED
      BY <1>3, <1>4, <2>2, <3>1
  <2> QED
    BY <1>1, <2>1, <2>2
<1>7. /\ cpc' \in [CacheWorkers -> {"receive", "dead"} \union Active]
      /\ job' \in [CacheWorkers -> Jobs \union {NoJob}]
      /\ h' \in [CacheWorkers -> Handles] /\ off' \in [CacheWorkers -> Nat]
      /\ \A d \in CacheWorkers \ {c} : cpc'[d] = cpc[d] /\ job'[d] = job[d] /\ h'[d] = h[d] /\ off'[d] = off[d]
      /\ more => cpc'[c] = "chunk" /\ job'[c] = job[c] /\ h'[c] = h[c]
      /\ ~more => cpc'[c] = "receive"
  <2>1. CASE more
    BY <1>4, <2>1 DEF Continue, Active
  <2>2. CASE ~more
    <3>1. /\ cpc' = [cpc EXCEPT ![c] = "receive"] /\ off' = [off EXCEPT ![c] = 0]
          /\ job' = [job EXCEPT ![c] = NoJob] /\ h' = [h EXCEPT ![c] = NoHandles]
      BY <2>2 DEF Continue
    <3>2. NoHandles \in Handles /\ NoJob \in Jobs \union {NoJob}
      BY Records
    <3>3. /\ cpc' \in [CacheWorkers -> {"receive", "dead"} \union Active]
          /\ job' \in [CacheWorkers -> Jobs \union {NoJob}]
          /\ h' \in [CacheWorkers -> Handles] /\ off' \in [CacheWorkers -> Nat]
      BY <1>4, <3>1, <3>2
    <3> QED
      BY <1>4, <2>2, <3>1, <3>3
  <2> QED
    BY <2>1, <2>2
<1>8. \A d \in CacheWorkers : cpc'[d] \in Active =>
        /\ cpc[d] \in Active /\ job'[d] = job[d] /\ h'[d] = h[d] /\ (d = c => more)
  BY <1>2, <1>7 DEF Active
<1>9. Types'
  BY <1>5, <1>6, <1>7 DEF Good, Types
<1>10. Processes'
  <2>1. cache # "down"
    BY DEF Good, Processes
  <2> QED
    BY <2>1 DEF Good, Processes
<1>11. Ownership' /\ Naming' /\ Sent'
  BY DEF Good, Ownership, Naming, Sent
<1>12. Unused'
  <2>1. \A e \in Generations : e > gen => e # g
    BY <1>2, <1>3, Ranges
  <2>2. \A e \in Generations : e > gen => \A t \in Segments : sem1'[e][t] = 0
    BY <1>5, <2>1 DEF Good, Unused
  <2>3. ASSUME proxy = "setup"
        PROVE  (\A t \in Segments : sem1'[gen][t] = 0) /\ (\A t \in pool : sem2'[gen][t] = 1)
    <3>1. gen \in Generations /\ gen # g /\ pool \subseteq Segments
      BY <1>2, <2>3, Ranges DEF Good, Types, Processes
    <3> QED
      BY <1>5, <1>6, <2>3, <3>1 DEF Good, Unused
  <2> QED
    BY <2>2, <2>3 DEF Unused
<1>13. Taken'
  BY <1>8 DEF Good, Taken
<1>14. Opened'
  <2>1. \A d \in CacheWorkers : cpc'[d] \in {"sem2", "shm", "answer", "chunk"} =>
          /\ job'[d] = job[d] /\ h'[d] = h[d] /\ (cpc'[d] = cpc[d] \/ cpc[d] \in {"answer", "chunk"})
    BY <1>7
  <2> QED
    BY <2>1 DEF Good, Opened
<1>15. ASSUME proxy = "up" PROVE Busy'
  <2>0. /\ Once /\ Wanted /\ Slots /\ gen \in Generations
        /\ seg \in [ProxyWorkers -> Segments] /\ pool \subseteq Segments
    BY <1>15, Named DEF Good, Busy, Types
  <2>1. \A w \in ProxyWorkers : SameWorker(w)
    BY DEF SameWorker
  <2>2. \A t \in Segments : g # gen \/ t # s => SameObjects(t)
    BY <1>5, <1>6, <2>0 DEF SameObjects
  <2>3. Once'
    BY <1>8, <2>0 DEF Once, Now
  <2>4. ASSUME NEW q \in Queues, NEW i \in 1..Len(mq[q]), mq[q][i].from = gen
        PROVE  \E w \in ProxyWorkers : QueuedFor(mq[q][i], w)'
    <3>1. PICK w \in ProxyWorkers : QueuedFor(mq[q][i], w)
      BY <2>0, <2>4 DEF Wanted, Now
    <3>2. g = gen => mq[q][i].id # s
      BY <1>2, <2>0, <2>4 DEF Once, Now, g, s
    <3>3. SameObjects(seg[w])
      BY <2>0, <2>2, <3>1, <3>2 DEF QueuedFor
    <3> QED
      BY <3>1, <3>3 DEF QueuedFor, New, SameObjects
  <2>5. ASSUME NEW d \in CacheWorkers, cpc'[d] \in Active, job'[d].from = gen
        PROVE  \E w \in ProxyWorkers : ServedFor(d, w)'
    <3>0. cpc[d] \in Active /\ job'[d] = job[d]
      BY <1>8, <2>5
    <3>1. PICK w \in ProxyWorkers : ServedFor(d, w)
      BY <2>0, <2>5, <3>0 DEF Wanted, Now
    <3>2. CASE d = c
      <4>1. more /\ job[c].from = gen
        BY <1>8, <2>5, <3>0, <3>2
      <4> QED
        BY <1>15, <3>1, <3>2, <4>1
    <3>3. CASE d # c
      <4>1. g = gen => job[d].id # s
        BY <1>2, <2>0, <2>5, <3>0, <3>3 DEF Once, Now, g, s
      <4>2. SameObjects(seg[w])
        BY <2>0, <2>2, <3>1, <4>1 DEF ServedFor
      <4>3. cpc'[d] = cpc[d] /\ job'[d] = job[d] /\ off'[d] = off[d]
        BY <1>7, <3>3
      <4> QED
        BY <2>1, <3>1, <4>2, <4>3, ServedKept
    <3> QED
      BY <3>2, <3>3
  <2>6. Wanted'
    BY <2>4, <2>5 DEF Wanted, Now
  <2>7. Slots'
    <3>1. CASE g = gen
      <4>1. PICK w \in ProxyWorkers : ServedFor(c, w)
        BY <1>2, <2>0, <3>1 DEF Wanted, Now, g
      <4>2. seg[w] = s /\ pc[w] \in Owning
        BY <4>1 DEF ServedFor, Owning, s
      <4>3. OnlyOf(w)
        BY <2>1, <2>2, <4>2 DEF OnlyOf
      <4>4. Slot(w)'
        BY <1>15, <3>1, <4>1 DEF g
      <4> QED
        BY <1>15, <4>3, <4>4, OthersKept DEF Slots
    <3>2. CASE g # gen
      <4>1. \A t \in Segments : SameObjects(t)
        BY <2>2, <3>2
      <4>2. \A w \in ProxyWorkers : Slot(w)'
        BY <2>0, <2>1, <4>1, SlotKept DEF Slots
      <4>3. \A t \in pool : New(t)'
        BY <2>0, <4>1 DEF Slots, New, SameObjects
      <4> QED
        BY <4>2, <4>3 DEF Slots
    <3> QED
      BY <3>1, <3>2
  <2> QED
    BY <2>3, <2>6, <2>7 DEF Busy
<1> QED
  BY <1>9, <1>10, <1>11, <1>12, <1>13, <1>14, <1>15 DEF Good

LEMMA PostHeaderGood == \A c \in CacheWorkers : Good /\ PostHeader(c) => Good'
<1> SUFFICES ASSUME NEW c \in CacheWorkers, Good, PostHeader(c) PROVE Good'
  OBVIOUS
<1> DEFINE g == job[c].from
           s == job[c].id
           k == job[c].key
           hit == simplecache_get(k)
           v == IF hit THEN ChunkOf(k, 0) ELSE Miss
           more == hit /\ NChunks > 0
<1>1. cpc[c] = "answer" /\ cpc[c] \in Active /\ cache = "up"
  BY DEF PostHeader, Good, Processes, Active, Types
<1>2. h[c].sem1 = g /\ h[c].shm = g /\ job[c] \in Jobs
  BY <1>1 DEF Good, Opened, Taken
<1>3. k \in Nat /\ s \in Segments /\ g \in Generations /\ NChunks \in Nat
  BY <1>2, Records, Ranges
<1>4. hit = Cached(k)
  BY <1>1, <1>3, Lookup DEF Good, Processes, simplecache_get
<1>5. /\ shm' = [shm EXCEPT ![g][s] = v] /\ sem1' = [sem1 EXCEPT ![g][s] = @ + 1] /\ sem2' = sem2
      /\ Continue(c, more, 0)
      /\ UNCHANGED <<names, proxy, gen, at, pool>> /\ UNCHANGED <<pc, seg, key, qd, got>>
      /\ UNCHANGED <<mq, mqName, cache, cq, items>>
  BY <1>2 DEF PostHeader, ChunkOf, proxyVars, workerVars, cacheVars
<1>6. Posts(c, v)
  BY <1>5 DEF Posts
<1>7. v \in Msgs /\ more \in BOOLEAN
  <2>1. ChunkOf(k, 0) \in Msgs
    BY <1>3 DEF ChunkOf, Msgs
  <2>2. hit \in BOOLEAN
    BY <1>4 DEF Cached
  <2> HIDE DEF hit
  <2> QED
    BY <2>1, <2>2, Records
<1>8. v = IF Cached(k) THEN ChunkOf(k, 0) ELSE Miss
  BY <1>4
<1>9. more => Cached(k) /\ NChunks > 0
  BY <1>4
<1> HIDE DEF g, s, k, hit, v, more
<1>10. ASSUME NEW w \in ProxyWorkers, proxy = "up", job[c].from = gen, ServedFor(c, w)
       PROVE  Slot(w)' /\ (more => ServedFor(c, w)')
  <2>1. /\ pc[w] = "header" /\ seg[w] = s /\ key[w] = k /\ New(s) /\ g = gen
    BY <1>1, <1>10 DEF ServedFor, s, k, g
  <2>2. /\ sem1'[gen'][seg'[w]] = 1 /\ sem2'[gen'][seg'[w]] = 1 /\ shm'[gen'][seg'[w]] = v
    BY <1>3, <1>5, <2>1 DEF New, Good, Types
  <2>3. pc'[w] = "header" /\ key'[w] = k /\ seg'[w] = s
    BY <1>5, <2>1
  <2>4. HeaderSlot(seg[w], key[w])'
    BY <1>8, <2>2, <2>3 DEF HeaderSlot, Cached, ChunkOf, Miss
  <2>5. Slot(w)'
    BY <2>3, <2>4 DEF Slot, HeaderSlot, New, Cached, ChunkOf
  <2>6. ASSUME more PROVE ServedFor(c, w)'
    <3>1. cpc'[c] = "chunk" /\ job'[c] = job[c] /\ off'[c] = 0
      BY <1>5, <2>6 DEF Continue, Good, Types
    <3>2. Posted(w)' = 0
      BY <2>2, <2>3 DEF Posted
    <3>3. Cached(key[w])'
      BY <1>9, <2>3, <2>6 DEF Cached
    <3> QED
      BY <1>3, <1>9, <2>2, <2>3, <2>6, <3>1, <3>2, <3>3 DEF ServedFor, s, k
  <2> QED
    BY <2>5, <2>6
<1> QED
  BY <1>1, <1>5, <1>6, <1>7, <1>10, PostsGood

LEMMA PostChunkGood == \A c \in CacheWorkers : Good /\ PostChunk(c) => Good'
<1> SUFFICES ASSUME NEW c \in CacheWorkers, Good, PostChunk(c) PROVE Good'
  OBVIOUS
<1> DEFINE g == job[c].from
           s == job[c].id
           k == job[c].key
           n == off[c]
           v == ChunkOf(k, n)
           more == n + 1 < NChunks
<1>1. cpc[c] = "chunk" /\ cpc[c] \in Active
  BY DEF PostChunk, Active
<1>2. h[c].sem1 = g /\ h[c].sem2 = g /\ h[c].shm = g /\ job[c] \in Jobs
  BY <1>1 DEF Good, Opened, Taken
<1>3. k \in Nat /\ s \in Segments /\ g \in Generations /\ NChunks \in Nat /\ n \in Nat /\ n + 1 \in Nat
  BY <1>2, Records, Ranges DEF Good, Types
<1>4. /\ shm' = [shm EXCEPT ![g][s] = v] /\ sem1' = [sem1 EXCEPT ![g][s] = @ + 1]
      /\ sem2[g][s] > 0 /\ sem2' = [sem2 EXCEPT ![g][s] = @ - 1]
      /\ Continue(c, more, n + 1)
      /\ UNCHANGED <<names, proxy, gen, at, pool>> /\ UNCHANGED <<pc, seg, key, qd, got>>
      /\ UNCHANGED <<mq, mqName, cache, cq, items>>
  BY <1>2 DEF PostChunk, ChunkOf, proxyVars, workerVars, cacheVars
<1>5. Posts(c, v)
  BY <1>4 DEF Posts
<1>6. v \in Msgs /\ more \in BOOLEAN
  BY <1>3 DEF ChunkOf, Msgs
<1> HIDE DEF g, s, k, n, v
<1>7. ASSUME NEW w \in ProxyWorkers, proxy = "up", job[c].from = gen, ServedFor(c, w)
      PROVE  Slot(w)' /\ (more => ServedFor(c, w)')
  <2>1. /\ pc[w] \in {"header", "chunk"} /\ seg[w] = s /\ key[w] = k /\ g = gen
        /\ Cached(k) /\ n = Posted(w) /\ n < NChunks
        /\ pc[w] = "header" => sem1[gen][s] > 0
    BY <1>1, <1>7 DEF ServedFor, s, k, g, n
  <2>2. sem1[gen][s] \in Nat /\ sem2[gen][s] \in Nat /\ Len(got[w]) \in Nat
    BY <1>3, <2>1, LenProperties DEF Good, Types
  <2>3. /\ sem1'[gen'][s] = sem1[gen][s] + 1 /\ sem2'[gen'][s] = sem2[gen][s] - 1 /\ shm'[gen'][s] = v
    BY <1>3, <1>4, <2>1 DEF Good, Types
  <2>4. pc'[w] = pc[w] /\ key'[w] = k /\ seg'[w] = s /\ got'[w] = got[w] /\ Cached(key[w])'
    BY <1>4, <2>1 DEF Cached
  <2>5. Slot(w)
    BY <1>7 DEF Good, Busy, Slots
  <2>6. ASSUME more PROVE cpc'[c] = "chunk" /\ job'[c] = job[c] /\ off'[c] = n + 1
    BY <1>4, <2>6 DEF Continue, Good, Types
  <2>7. CASE pc[w] = "header"
    <3>1. n = sem1[gen][s] - 1
      BY <2>1, <2>7 DEF Posted
    <3>2. sem1[gen][s] = 1 /\ sem2[gen][s] = 1 /\ n = 0
      <4>1. sem2[gen][s] > 0 /\ sem1[gen][s] > 0
        BY <1>4, <2>1, <2>7
      <4>2. HeaderSlot(s, k)
        BY <2>1, <2>5, <2>7 DEF Slot
      <4>3. ~New(s) /\ ~(sem2[gen][s] = 0)
        BY <2>2, <4>1 DEF New
      <4> QED
        BY <3>1, <4>2, <4>3 DEF HeaderSlot
    <3>3. HeaderSlot(seg[w], key[w])'
      BY <1>3, <2>1, <2>3, <2>4, <3>2 DEF HeaderSlot, ChunkOf, v
    <3>4. Slot(w)'
      BY <2>4, <2>7, <3>3 DEF Slot, HeaderSlot, New, Cached, ChunkOf
    <3>5. Posted(w)' = n + 1
      BY <2>3, <2>4, <2>7, <3>2 DEF Posted
    <3>6. more => ServedFor(c, w)'
      BY <1>3, <2>3, <2>4, <2>6, <2>7, <3>2, <3>5 DEF ServedFor, s, k
    <3> QED
      BY <3>4, <3>6
  <2>8. CASE pc[w] = "chunk"
    <3>1. n = Len(got[w]) + sem1[gen][s]
      BY <2>1, <2>8 DEF Posted
    <3>2. ChunkSlot(s, k, Len(got[w])) /\ got[w] = FirstChunks(k, Len(got[w]))
      BY <2>1, <2>5, <2>8 DEF Slot
    <3>3. sem1[gen][s] = 0 /\ sem2[gen][s] = 1 /\ n = Len(got[w])
      BY <1>4, <2>1, <2>2, <3>1, <3>2 DEF ChunkSlot, New
    <3>4. ChunkSlot(seg[w], key[w], Len(got[w]))'
      BY <2>1, <2>3, <2>4, <3>3 DEF ChunkSlot, ChunkOf, v
    <3>5. got'[w] = FirstChunks(key'[w], Len(got'[w]))
      BY <2>4, <3>2
    <3>6. Slot(w)'
      BY <2>4, <2>8, <3>4, <3>5 DEF Slot, FirstChunks, ChunkOf
    <3>7. Posted(w)' = n + 1
      BY <2>2, <2>3, <2>4, <2>8, <3>3 DEF Posted
    <3>8. more => ServedFor(c, w)'
      BY <2>4, <2>6, <2>8, <3>7 DEF ServedFor, s, k
    <3> QED
      BY <3>6, <3>8
  <2> QED
    BY <2>1, <2>7, <2>8
<1> HIDE DEF more
<1> QED
  BY <1>1, <1>3, <1>4, <1>5, <1>6, <1>7, PostsGood
-----------------------------------------------------------------------------
(* The theorems *)

LEMMA NextGood == Good /\ ~stale' /\ [Next]_vars => Good'
<1> SUFFICES ASSUME Good, ~stale', [Next]_vars PROVE Good'
  OBVIOUS
<1>1. CASE ProxyStart \/ Setup \/ Serve \/ ProxyExit
  BY <1>1, ProxyStartGood, SetupGood, ServeGood, ProxyExitGood
<1>2. CASE CacheStart \/ CacheExit
  BY <1>2, CacheStartGood, CacheExitGood
<1>3. CASE CacheKill
  BY <1>3, CacheCrashGood DEF CacheKill
<1>4. CASE \E w \in ProxyWorkers : Begin(w) \/ ProxyWorker(w)
  BY <1>4, BeginGood, OpenGood, MqSendGood, HeaderGood, ChunkGood, ReturnGood DEF ProxyWorker
<1>5. ASSUME NEW c \in CacheWorkers, CacheWorker(c) \/ FstatFails(c)
      PROVE  Good'
  <2>1. CASE Receive(c) \/ PostHeader(c) \/ PostChunk(c) \/ FstatFails(c)
    BY <2>1, ReceiveGood, PostHeaderGood, PostChunkGood, FstatFailsGood
  <2>2. CASE OpenName(c, "sem1", "sem2")
    BY <2>2, OpenNameGood
  <2>3. CASE OpenName(c, "sem2", "shm")
    BY <2>3, OpenNameGood
  <2>4. CASE OpenName(c, "shm", "answer")
    BY <2>4, OpenNameGood
  <2>5. CASE OpenFails(c)
    BY <2>5, CacheCrashGood DEF OpenFails
  <2>6. CASE OpenEmpty(c)
    BY <2>6 DEF OpenEmpty
  <2> QED
    BY <1>5, <2>1, <2>2, <2>3, <2>4, <2>5, <2>6 DEF CacheWorker
<1>6. CASE UNCHANGED vars
  <2>1. /\ UNCHANGED <<names, shm, sem1, sem2>> /\ UNCHANGED <<proxy, gen, at, pool>>
        /\ UNCHANGED <<pc, seg, key, qd, got>> /\ UNCHANGED <<mq, mqName, cache, cq, items, cpc, job, h, off>>
    BY <1>6 DEF vars, objects, proxyVars, workerVars, cacheVars, threadVars
  <2>2. Types' /\ Processes'
    BY <2>1, ProxySide, CacheSide DEF Types, Processes
  <2>3. Sent' /\ Taken'
    BY <2>1 DEF Good, Sent, Taken
  <2>4. ASSUME proxy = "up" PROVE Once' /\ Wanted'
    <3>1. Once /\ Wanted
      BY <2>4 DEF Good, Busy
    <3> QED
      BY <2>1, <3>1 DEF Once, Wanted, Now, QueuedFor, ServedFor, New, Posted, Cached
  <2> QED
    BY <2>1, <2>2, <2>3, <2>4, ProxySide, CacheSide DEF Good, Busy
<1> QED
  BY <1>1, <1>2, <1>3, <1>4, <1>5, <1>6 DEF Next

LEMMA StaleStays == stale /\ [Next]_vars => stale'
<1> SUFFICES ASSUME stale, [Next]_vars PROVE stale'
  OBVIOUS
<1>1. CASE ProxyStart \/ Setup \/ Serve \/ ProxyExit
  BY <1>1 DEF ProxyStart, Setup, Serve, ProxyExit, history
<1>2. CASE CacheStart \/ CacheExit \/ CacheKill
  BY <1>2 DEF CacheStart, CacheExit, CacheKill, history
<1>3. ASSUME NEW w \in ProxyWorkers, Begin(w) \/ ProxyWorker(w) PROVE stale'
  BY <1>3 DEF Begin, ProxyWorker, Open, MqSend, Header, Chunk, Return, history
<1>4. ASSUME NEW c \in CacheWorkers, CacheWorker(c) \/ FstatFails(c) PROVE stale'
  <2>1. CASE Receive(c) \/ PostHeader(c) \/ PostChunk(c) \/ FstatFails(c) \/ OpenFails(c)
    BY <2>1 DEF Receive, PostHeader, PostChunk, FstatFails, OpenFails, history
  <2>2. CASE OpenEmpty(c)
    BY <2>2 DEF OpenEmpty
  <2>3. ASSUME NEW kind, NEW next, OpenName(c, kind, next) PROVE stale'
    BY <2>3 DEF OpenName
  <2> QED
    BY <1>4, <2>1, <2>2, <2>3 DEF CacheWorker
<1>5. CASE UNCHANGED vars
  BY <1>5 DEF vars, history
<1> QED
  BY <1>1, <1>2, <1>3, <1>4, <1>5 DEF Next

\* Until the cache resolves the names of a request whose proxy is gone, the objects that
\* have the names, the requests under way and the workers that wait agree: in every
\* behaviour of the two processes, whatever is killed and started again.
THEOREM Invariance == Spec => []IInv
<1>1. Init => IInv
  BY InitGood DEF IInv
<1>2. IInv /\ [Next]_vars => IInv'
  BY NextGood, StaleStays DEF IInv
<1> QED
  BY <1>1, <1>2, PTL DEF Spec

\* handle_with_cache sends its client the chunks of the file that was asked for, in order
\* and all of them, or the answer that it is not cached; restarts of either process and
\* the transfers they cut off do not change that before stale does.
THEOREM AnswersItsOwn == Spec => []OwnAnswer
<1>1. IInv => OwnAnswer
  <2> SUFFICES ASSUME Good, NEW w \in ProxyWorkers
               PROVE  /\ pc[w] = "chunk" => got[w] = SubSeq(Expected(key[w]), 1, Len(got[w]))
                      /\ pc[w] = "return" => got[w] = Expected(key[w])
    BY DEF IInv, OwnAnswer
  <2>1. ASSUME pc[w] \in {"chunk", "return"} PROVE proxy = "up" /\ Slot(w)
    BY <2>1 DEF Good, Processes, Busy, Slots
  <2>2. ASSUME pc[w] = "chunk" PROVE got[w] = SubSeq(Expected(key[w]), 1, Len(got[w]))
    <3> DEFINE n == Len(got[w])
               k == key[w]
    <3>1. /\ Cached(k) /\ n < NChunks /\ got[w] = FirstChunks(k, n) /\ n \in Nat /\ NChunks \in Nat
          /\ k \in Nat
      BY <2>1, <2>2, LenProperties, Ranges DEF Slot, ChunkSlot, Good, Types
    <3>2. Expected(k) = FirstChunks(k, NChunks)
      BY <3>1, ExpectedFacts
    <3> HIDE DEF n, k
    <3>3. SubSeq(FirstChunks(k, NChunks), 1, n) = FirstChunks(k, n)
      <4>1. FirstChunks(k, NChunks) \in Seq(Msgs) /\ Len(FirstChunks(k, NChunks)) = NChunks
        <5>1. \A i \in 1..NChunks : ChunkOf(k, i - 1) \in Msgs
          BY <3>1 DEF ChunkOf, Msgs
        <5> QED
          BY <3>1, <5>1 DEF FirstChunks
      <4> QED
        BY <3>1, <4>1 DEF FirstChunks
    <3> QED
      BY <3>1, <3>2, <3>3 DEF n, k
  <2> QED
    BY <2>1, <2>2 DEF Slot
<1> QED
  BY <1>1, Invariance, PTL

\* main's unlinking and recreating works: what a proxy finds behind the names of a free
\* segment is as it made it, and no transfer for a predecessor reaches it.
THEOREM StartsClean == Spec => []CleanSlate
<1>1. IInv => CleanSlate
  <2> SUFFICES ASSUME Good, proxy = "up", NEW s \in pool
               PROVE  /\ sem1[Sem1(s)][s] = 0 /\ sem2[Sem2(s)][s] = 1
                      /\ \A c \in CacheWorkers :
                           (cpc[c] \in {"answer", "chunk"} /\ job[c].id = s) =>
                             h[c].sem1 # Sem1(s) /\ h[c].sem2 # Sem2(s) /\ h[c].shm # Shm(s)
    BY DEF IInv, CleanSlate
  <2>1. s \in Segments /\ New(s) /\ Wanted /\ Ownership
    BY DEF Good, Types, Busy, Slots
  <2>2. Sem1(s) = gen /\ Sem2(s) = gen /\ Shm(s) = gen
    BY <2>1, Named
  <2>3. ASSUME NEW c \in CacheWorkers, cpc[c] \in {"answer", "chunk"}, job[c].id = s
        PROVE  h[c].sem1 # gen /\ h[c].sem2 # gen /\ h[c].shm # gen
    <3>1. h[c].sem1 = job[c].from /\ h[c].sem2 = job[c].from /\ h[c].shm = job[c].from
      BY <2>3 DEF Good, Opened
    <3>2. job[c].from # gen
      <4> SUFFICES ASSUME job[c].from = gen PROVE FALSE
        OBVIOUS
      <4>1. PICK w \in ProxyWorkers : ServedFor(c, w)
        BY <2>1, <2>3 DEF Wanted, Now, Active
      <4> QED
        BY <2>1, <2>3, <4>1 DEF ServedFor, Ownership, Owning
    <3> QED
      BY <3>1, <3>2
  <2> QED
    BY <2>1, <2>2, <2>3 DEF New
<1> QED
  BY <1>1, Invariance, PTL
-----------------------------------------------------------------------------
(* The first proxy *)

\* While there has been one proxy at most, every name there is is its own, and if it has
\* ever sent a request it has made all of them.
Pending ==
  \/ \E q \in Queues : \E i \in 1..Len(mq[q]) : TRUE
  \/ \E c \in CacheWorkers : cpc[c] \in Active
First ==
  /\ gen \in Nat
  /\ gen <= 1 =>
       /\ ~stale
       /\ \A k \in Kinds : \A s \in Segments : names[k][s] \in {0, gen}
       /\ Pending => \A k \in Kinds : \A s \in Segments : names[k][s] = gen

LEMMA PendingFrom ==
  ASSUME Good, gen <= 1, Pending
  PROVE  gen = 1 /\ proxy # "setup" /\ \A c \in CacheWorkers : cpc[c] \in Active => job[c].from = 1 /\ job[c] \in Jobs
<1>1. gen \in Nat
  BY Ranges DEF Good, Types
<1>2. \A j \in Jobs : j.from \in Nat /\ j.from > 0
  BY Records, Ranges
<1>3. ASSUME NEW j \in Jobs, j.from <= gen, proxy = "setup" => j.from # gen
      PROVE  gen = 1 /\ proxy # "setup" /\ j.from = 1
  BY <1>1, <1>2, <1>3
<1>4. \A c \in CacheWorkers : cpc[c] \in Active => gen = 1 /\ proxy # "setup" /\ job[c].from = 1 /\ job[c] \in Jobs
  BY <1>3 DEF Good, Taken
<1>5. ASSUME NEW q \in Queues, NEW i \in 1..Len(mq[q]) PROVE gen = 1 /\ proxy # "setup"
  <2>1. mq[q][i] \in Jobs
    BY ElementOfSeq DEF Good, Types
  <2> QED
    BY <1>3, <2>1 DEF Good, Sent
<1> QED
  BY <1>4, <1>5 DEF Pending

\* Requests come from workers of a proxy that serves only.
LEMMA PendingKept ==
  ASSUME Good, [Next]_vars, ~Setup, ~ProxyStart
  PROVE  UNCHANGED <<names, gen>> /\ (Pending' => Pending \/ proxy = "up")
<1>0. << >> \in Seq(Jobs) /\ Len(<< >>) = 0
  OBVIOUS
<1>1. CASE Serve \/ ProxyExit \/ CacheStart \/ CacheKill
  <2>1. UNCHANGED <<names, gen, mq>>
    BY <1>1 DEF Serve, ProxyExit, CacheStart, CacheKill, objects, proxyVars
  <2>2. cpc' = cpc \/ cpc' = ReceivePc
    BY <1>1 DEF Serve, ProxyExit, CacheStart, CacheKill, CacheEnds, threadVars
  <2> QED
    BY <2>1, <2>2 DEF Pending, ReceivePc, Active
<1>2. CASE CacheExit
  <2>1. UNCHANGED <<names, gen>> /\ mq' = [mq EXCEPT ![cq] = << >>] /\ cpc' = ReceivePc
    BY <1>2 DEF CacheExit, CacheEnds, objects, proxyVars
  <2>2. \A q \in Queues : \A i \in 1..Len(mq'[q]) : i \in 1..Len(mq[q])
    BY <1>0, <2>1 DEF Good, Types
  <2> QED
    BY <2>1, <2>2 DEF Pending, ReceivePc, Active
<1>3. ASSUME NEW w \in ProxyWorkers, Begin(w) \/ ProxyWorker(w)
      PROVE  UNCHANGED <<names, gen>> /\ proxy = "up"
  <2>1. pc[w] # "idle" \/ proxy = "up"
    BY <1>3 DEF Begin, ProxyWorker, Open, MqSend, Header, Chunk, Return
  <2>2. UNCHANGED <<names, gen>>
    BY <1>3 DEF Begin, ProxyWorker, Open, MqSend, Header, Chunk, Return, objects, proxyVars
  <2> QED
    BY <2>1, <2>2 DEF Good, Processes
<1>4. ASSUME NEW c \in CacheWorkers, Receive(c)
      PROVE  UNCHANGED <<names, gen>> /\ Pending
  <2>1. mq[cq] # << >> /\ cq \in Queues /\ mq[cq] \in Seq(Jobs)
    BY <1>4 DEF Receive, Good, Types, Processes
  <2>2. 1 \in 1..Len(mq[cq])
    BY <2>1, LenProperties, EmptySeq
  <2> QED
    BY <1>4, <2>1, <2>2 DEF Pending, Receive, objects, proxyVars
<1>5. ASSUME NEW c \in CacheWorkers, CacheWorker(c) \/ FstatFails(c), ~Receive(c)
      PROVE  UNCHANGED <<names, gen>> /\ Pending
  <2>1. cpc[c] \in Active
    BY <1>5 DEF CacheWorker, OpenName, OpenFails, OpenEmpty, PostHeader, PostChunk, FstatFails, Active
  <2>2. UNCHANGED <<names, gen>>
    BY <1>5 DEF CacheWorker, OpenName, OpenFails, OpenEmpty, PostHeader, PostChunk, FstatFails, objects, proxyVars
  <2> QED
    BY <2>1, <2>2 DEF Pending
<1>6. CASE UNCHANGED vars
  BY <1>6 DEF vars, objects, proxyVars, threadVars, Pending
<1> QED
  BY <1>1, <1>2, <1>3, <1>4, <1>5, <1>6 DEF Next

LEMMA GenKept == [Next]_vars => gen' = gen \/ (ProxyStart /\ gen' = gen + 1)
<1> SUFFICES ASSUME [Next]_vars PROVE gen' = gen \/ (ProxyStart /\ gen' = gen + 1)
  OBVIOUS
<1>1. CASE ProxyStart \/ Setup \/ Serve \/ ProxyExit
  BY <1>1 DEF ProxyStart, Setup, Serve, ProxyExit
<1>2. CASE CacheStart \/ CacheExit \/ CacheKill
  BY <1>2 DEF CacheStart, CacheExit, CacheKill, proxyVars
<1>3. ASSUME NEW w \in ProxyWorkers, Begin(w) \/ ProxyWorker(w) PROVE gen' = gen
  BY <1>3 DEF Begin, ProxyWorker, Open, MqSend, Header, Chunk, Return, proxyVars
<1>4. ASSUME NEW c \in CacheWorkers, CacheWorker(c) \/ FstatFails(c) PROVE gen' = gen
  BY <1>4 DEF CacheWorker, Receive, OpenName, OpenFails, OpenEmpty, PostHeader, PostChunk, FstatFails, proxyVars
<1>5. CASE UNCHANGED vars
  BY <1>5 DEF vars, proxyVars
<1> QED
  BY <1>1, <1>2, <1>3, <1>4, <1>5 DEF Next

LEMMA FirstNext == IInv /\ First /\ [Next]_vars => First'
<1> SUFFICES ASSUME IInv, First, [Next]_vars PROVE First'
  OBVIOUS
<1>1. gen \in Nat /\ gen' \in Nat /\ gen <= gen'
  BY GenKept DEF First
<1> SUFFICES ASSUME gen' <= 1
             PROVE  /\ ~stale'
                    /\ \A k \in Kinds : \A s \in Segments : names'[k][s] \in {0, gen'}
                    /\ Pending' => \A k \in Kinds : \A s \in Segments : names'[k][s] = gen'
  BY <1>1 DEF First
<1>2. gen <= 1 /\ ~stale /\ Good
  BY <1>1 DEF First, IInv
<1>3. /\ \A k \in Kinds : \A s \in Segments : names[k][s] \in {0, gen}
      /\ Pending => \A k \in Kinds : \A s \in Segments : names[k][s] = gen
  BY <1>2 DEF First
<1>4. CASE ProxyStart
  <2>1. gen' = gen + 1 /\ UNCHANGED <<names, mq, cpc, stale>>
    BY <1>4 DEF ProxyStart, objects, threadVars, history
  <2>2. gen = 0
    BY <1>1, <2>1
  <2>3. ~Pending
    BY <1>2, <2>2, PendingFrom
  <2>4. ~Pending'
    BY <2>1, <2>3 DEF Pending
  <2> QED
    BY <1>2, <1>3, <2>1, <2>2, <2>4
<1>5. CASE Setup
  <2>1. proxy = "setup" /\ UNCHANGED <<gen, mq, cpc, stale>>
    BY <1>5 DEF Setup, threadVars, history
  <2>2. ~Pending
    BY <1>2, <2>1, PendingFrom
  <2>3. ~Pending'
    BY <2>1, <2>2 DEF Pending
  <2>4. PICK k \in Kinds, v \in {0, gen} : names' = [names EXCEPT ![k][at[1]] = v]
    BY <1>5 DEF Setup, Kinds
  <2>5. names \in [Kinds -> [Segments -> 0..MaxStarts]]
    BY <1>2 DEF Good, Types
  <2>6. \A l \in Kinds : \A t \in Segments : names'[l][t] = names[l][t] \/ names'[l][t] = v
    BY <2>4, <2>5
  <2>7. v = 0 \/ v = gen
    BY <2>4
  <2>8. gen' = gen /\ ~stale'
    BY <1>2, <2>1
  <2> QED
    BY <1>3, <2>3, <2>6, <2>7, <2>8
<1>6. CASE ~ProxyStart /\ ~Setup
  <2>1. UNCHANGED <<names, gen>> /\ (Pending' => Pending \/ proxy = "up")
    BY <1>2, <1>6, PendingKept
  <2>2. proxy = "up" => \A k \in Kinds : \A s \in Segments : names[k][s] = gen
    BY <1>2 DEF Good, Naming
  <2>3. ASSUME NEW c \in CacheWorkers, cpc[c] \in Active
        PROVE  /\ job[c].from = gen /\ gen # 0
               /\ \A k \in Kinds : names[k][job[c].id] = gen
    <3>1. Pending
      BY <2>3 DEF Pending
    <3>2. gen = 1 /\ job[c].from = 1 /\ job[c].id \in Segments
      BY <1>2, <2>3, <3>1, PendingFrom, Records
    <3> QED
      BY <1>3, <3>1, <3>2
  <2>4. ~stale'
    <3>1. ASSUME NEW c \in CacheWorkers, NEW kind \in Kinds, NEW next, OpenName(c, kind, next) PROVE ~stale'
      <4>1. cpc[c] \in Active
        BY <3>1 DEF OpenName, Kinds, Active
      <4> QED
        BY <1>2, <2>3, <3>1, <4>1 DEF OpenName
    <3>2. ASSUME NEW c \in CacheWorkers, OpenEmpty(c) PROVE FALSE
      <4>1. cpc[c] \in Active /\ names["shm"][job[c].id] = 0
        BY <3>2 DEF OpenEmpty, Active
      <4> QED
        BY <2>3, <4>1 DEF Kinds
    <3>3. CASE Serve \/ ProxyExit \/ CacheStart \/ CacheExit \/ CacheKill
      BY <1>2, <3>3 DEF Serve, ProxyExit, CacheStart, CacheExit, CacheKill, history
    <3>4. ASSUME NEW w \in ProxyWorkers, Begin(w) \/ ProxyWorker(w) PROVE ~stale'
      BY <1>2, <3>4 DEF Begin, ProxyWorker, Open, MqSend, Header, Chunk, Return, history
    <3>5. ASSUME NEW c \in CacheWorkers,
                 Receive(c) \/ PostHeader(c) \/ PostChunk(c) \/ FstatFails(c) \/ OpenFails(c)
          PROVE  ~stale'
      BY <1>2, <3>5 DEF Receive, PostHeader, PostChunk, FstatFails, OpenFails, history
    <3>6. CASE UNCHANGED vars
      BY <1>2, <3>6 DEF vars, history
    <3> QED
      BY <1>6, <3>1, <3>2, <3>3, <3>4, <3>5, <3>6 DEF Next, CacheWorker, Kinds
  <2> QED
    BY <1>3, <2>1, <2>2, <2>4
<1> QED
  BY <1>4, <1>5, <1>6

\* As long as the proxy is the first one, the cache never finds the objects of another:
\* kills and restarts of the cache alone never lead to a wrong answer.
THEOREM FirstProxyNeverStale == Spec => [](gen <= 1 => ~stale)
<1>1. Init => First
  BY DEF Init, First, Pending, ReceivePc, Active, Kinds
<1>2. First => (gen <= 1 => ~stale)
  BY DEF First
<1> QED
  BY <1>1, <1>2, FirstNext, Invariance, PTL DEF Spec
=============================================================================
