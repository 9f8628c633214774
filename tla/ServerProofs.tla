------------------------ MODULE ServerProofs -------------------------------
(***************************************************************************)
(* The proofs about two servers that hand out and take in files: that      *)
(* GetFileServer keeps its safety properties for any number of workers,    *)
(* requests and keys, any content file and any buffer size, with the proof *)
(* that the bisection of content_get is right; and, below, that the calls  *)
(* of DfsPart1 carry whole files for any number of users, calls, chunks    *)
(* and messages under way.                                                 *)
(***************************************************************************)
EXTENDS GetFileServer, DfsPart1, FiniteSetTheorems, SequenceTheorems, WellFoundedInduction, TLAPS

(* content_get *)

Index(list) ==
  /\ list \in Seq(Nat)
  /\ \A i, j \in 1..Len(list) : i < j => list[i] <= list[j]

\* The pairs lo, hi that the search can reach; what it returns for each of them.
Bounds(list) == (0..Len(list)) \X (-1..(Len(list) - 1))

Middle(r) == r[1] + (r[2] - r[1]) \div 2

Bisection(list, k, find) ==
  [r \in Bounds(list) |->
     IF r[1] > r[2] THEN FALSE
     ELSE IF k < list[Middle(r) + 1] THEN find[<<r[1], Middle(r) - 1>>]
     ELSE IF k > list[Middle(r) + 1] THEN find[<<Middle(r) + 1, r[2]>>]
     ELSE TRUE]

Between(list, k) ==
  [r \in Bounds(list) |-> \E i \in 0..(Len(list) - 1) : r[1] <= i /\ i <= r[2] /\ list[i + 1] = k]

\* A set of natural numbers that is not empty has a least element.
LEMMA LeastNat ==
  ASSUME NEW S, S \in SUBSET Nat, S # {}
  PROVE  \E x \in S : \A y \in S : x <= y
<1>1. PICK x \in S : \A y \in S : <<y, x>> \notin OpToRel(<, Nat)
  BY NatLessThanWellFounded, WFMin, Zenon
<1>2. \A y \in S : ~(y < x)
  BY <1>1 DEF OpToRel
<1>3. \A y \in S : x <= y
  BY <1>2
<1> QED
  BY <1>3

\* The middle lies between the bounds, and both halves have bounds again.
LEMMA Halves ==
  ASSUME NEW list, Index(list), NEW r \in Bounds(list)
  PROVE  /\ Len(list) \in Nat /\ r[1] \in Nat /\ r[2] \in Int /\ r = <<r[1], r[2]>>
         /\ r[1] <= Len(list) /\ -1 <= r[2] /\ r[2] < Len(list)
         /\ r[1] <= r[2] =>
              /\ Middle(r) \in Nat /\ r[1] <= Middle(r) /\ Middle(r) <= r[2]
              /\ Middle(r) + 1 \in 1..Len(list) /\ list[Middle(r) + 1] \in Nat
              /\ <<r[1], Middle(r) - 1>> \in Bounds(list)
              /\ <<Middle(r) + 1, r[2]>> \in Bounds(list)
<1>1. Len(list) \in Nat
  BY LenProperties DEF Index
<1>2. /\ r[1] \in 0..Len(list) /\ r[2] \in -1..(Len(list) - 1) /\ r = <<r[1], r[2]>>
  BY DEF Bounds
<1>3. ASSUME r[1] <= r[2]
      PROVE  Middle(r) \in Nat /\ r[1] <= Middle(r) /\ Middle(r) <= r[2]
  <2>1. PICK d \in Nat : d = r[2] - r[1]
    BY <1>1, <1>2, <1>3
  <2>2. d \div 2 \in Nat /\ d \div 2 <= d
    OBVIOUS
  <2> QED
    BY <1>1, <1>2, <2>1, <2>2 DEF Middle
<1>4. ASSUME r[1] <= r[2]
      PROVE  /\ Middle(r) + 1 \in 1..Len(list) /\ list[Middle(r) + 1] \in Nat
             /\ <<r[1], Middle(r) - 1>> \in Bounds(list)
             /\ <<Middle(r) + 1, r[2]>> \in Bounds(list)
  <2>1. Middle(r) + 1 \in 1..Len(list)
    BY <1>1, <1>2, <1>3, <1>4
  <2>2. list[Middle(r) + 1] \in Nat
    BY <2>1, ElementOfSeq DEF Index
  <2> QED
    BY <1>1, <1>2, <1>3, <1>4, <2>1, <2>2 DEF Bounds
<1> QED
  BY <1>1, <1>2, <1>3, <1>4

\* Looking for the key between the bounds is what a step of the bisection does, if
\* the list is sorted.
LEMMA BetweenBisects ==
  ASSUME NEW list, Index(list), NEW k \in Nat
  PROVE  Between(list, k) = Bisection(list, k, Between(list, k))
<1> DEFINE B == Between(list, k)
           In(lo, hi) == \E i \in 0..(Len(list) - 1) : lo <= i /\ i <= hi /\ list[i + 1] = k
<1>0. \A r \in Bounds(list) : B[r] = In(r[1], r[2])
  BY DEF Between
<1>0a. \A lo, hi : <<lo, hi>> \in Bounds(list) => B[<<lo, hi>>] = In(lo, hi)
  BY DEF Between
<1>1. ASSUME NEW r \in Bounds(list)
      PROVE  B[r] = IF r[1] > r[2] THEN FALSE
                    ELSE IF k < list[Middle(r) + 1] THEN B[<<r[1], Middle(r) - 1>>]
                    ELSE IF k > list[Middle(r) + 1] THEN B[<<Middle(r) + 1, r[2]>>]
                    ELSE TRUE
  <2>0. /\ Len(list) \in Nat /\ r[1] \in Nat /\ r[2] \in Int
    BY Halves
  <2>1. CASE r[1] > r[2]
    <3>1. In(r[1], r[2]) = FALSE
      BY <2>0, <2>1
    <3>2. B[r] = FALSE
      BY <1>0, <3>1, Zenon
    <3> HIDE DEF B
    <3> QED
      BY <2>1, <3>2
  <2>2. CASE r[1] <= r[2]
    <3> DEFINE m == Middle(r)
    <3>1. /\ m \in Nat /\ r[1] <= m /\ m <= r[2] /\ m + 1 \in 1..Len(list) /\ list[m + 1] \in Nat
          /\ <<r[1], m - 1>> \in Bounds(list) /\ <<m + 1, r[2]>> \in Bounds(list)
          /\ ~(r[1] > r[2])
      BY <2>0, <2>2, Halves
    <3>3. \A i \in 0..(Len(list) - 1) :
            /\ i + 1 \in 1..Len(list) /\ list[i + 1] \in Nat
            /\ i < m => list[i + 1] <= list[m + 1]
            /\ m < i => list[m + 1] <= list[i + 1]
      <4> TAKE i \in 0..(Len(list) - 1)
      <4>1. i + 1 \in 1..Len(list)
        BY <2>0
      <4>2. list[i + 1] \in Nat
        BY <4>1, ElementOfSeq DEF Index
      <4> HIDE DEF m
      <4>3. i < m => i + 1 < m + 1
        BY <2>0, <3>1
      <4>4. m < i => m + 1 < i + 1
        BY <2>0, <3>1
      <4> QED
        BY <3>1, <4>1, <4>2, <4>3, <4>4 DEF Index
    <3> HIDE DEF m
    <3>4. CASE k < list[m + 1]
      <4>1. In(r[1], r[2]) = In(r[1], m - 1)
        <5>1. ASSUME NEW i \in 0..(Len(list) - 1)
              PROVE  r[1] <= i /\ i <= r[2] /\ list[i + 1] = k <=> r[1] <= i /\ i <= m - 1 /\ list[i + 1] = k
          <6>1. i \in Nat /\ list[i + 1] \in Nat /\ (i < m => list[i + 1] <= list[m + 1])
                /\ (m < i => list[m + 1] <= list[i + 1])
            BY <2>0, <3>3
          <6>2. i < m \/ i = m \/ m < i
            BY <3>1, <6>1
          <6>3. i < m <=> i <= m - 1
            BY <3>1, <6>1
          <6>4. m < i <=> m + 1 <= i
            BY <3>1, <6>1
          <6> QED
            BY <2>0, <3>1, <3>4, <6>1, <6>2, <6>3, <6>4
        <5> QED
          BY <5>1, Zenon
      <4>2. B[r] = B[<<r[1], m - 1>>]
        BY <1>0, <1>0a, <3>1, <4>1, Zenon
      <4> HIDE DEF B
      <4> QED
        BY <3>1, <3>4, <4>2 DEF m
    <3>5. CASE k > list[m + 1]
      <4>1. In(r[1], r[2]) = In(m + 1, r[2])
        <5>1. ASSUME NEW i \in 0..(Len(list) - 1)
              PROVE  r[1] <= i /\ i <= r[2] /\ list[i + 1] = k <=> m + 1 <= i /\ i <= r[2] /\ list[i + 1] = k
          <6>1. i \in Nat /\ list[i + 1] \in Nat /\ (i < m => list[i + 1] <= list[m + 1])
                /\ (m < i => list[m + 1] <= list[i + 1])
            BY <2>0, <3>3
          <6>2. i < m \/ i = m \/ m < i
            BY <3>1, <6>1
          <6>3. i < m <=> i <= m - 1
            BY <3>1, <6>1
          <6>4. m < i <=> m + 1 <= i
            BY <3>1, <6>1
          <6> QED
            BY <2>0, <3>1, <3>5, <6>1, <6>2, <6>3, <6>4
        <5> QED
          BY <5>1, Zenon
      <4>2. B[r] = B[<<m + 1, r[2]>>]
        BY <1>0, <1>0a, <3>1, <4>1, Zenon
      <4>3. ~(k < list[m + 1])
        BY <3>1, <3>5
      <4> HIDE DEF B
      <4> QED
        BY <3>1, <3>5, <4>2, <4>3 DEF m
    <3>6. CASE k = list[m + 1]
      <4>1. In(r[1], r[2]) = TRUE
        <5>1. m \in 0..(Len(list) - 1)
          BY <2>0, <3>1
        <5> QED
          BY <3>1, <3>6, <5>1
      <4>2. B[r] = TRUE
        BY <1>0, <4>1, Zenon
      <4>3. ~(k < list[m + 1]) /\ ~(k > list[m + 1])
        BY <3>1, <3>6
      <4> HIDE DEF B
      <4> QED
        BY <3>1, <4>2, <4>3 DEF m
    <3>7. k < list[m + 1] \/ k > list[m + 1] \/ k = list[m + 1]
      BY <3>1
    <3> QED
      BY <3>4, <3>5, <3>6, <3>7
  <2>3. r[1] > r[2] \/ r[1] <= r[2]
    BY <2>0
  <2> QED
    BY <2>1, <2>2, <2>3
<1>2. B = [r \in Bounds(list) |-> B[r]]
  BY DEF Between
<1> HIDE DEF B
<1> QED
  BY <1>1, <1>2 DEF Bisection, B

\* The recursion has no other solution: among the bounds on which one differed, take
\* those that are closest together.
LEMMA BisectionUnique ==
  ASSUME NEW list, Index(list), NEW k \in Nat,
         NEW f, f = Bisection(list, k, f), NEW g, g = Bisection(list, k, g)
  PROVE  \A r \in Bounds(list) : f[r] = g[r]
<1> DEFINE Width(r) == r[2] - r[1] + Len(list) + 1
           Differ == {r \in Bounds(list) : f[r] # g[r]}
           S == {Width(r) : r \in Differ}
<1>0. \A r \in Bounds(list) :
        /\ Width(r) \in Nat
        /\ r[1] <= r[2] =>
             /\ <<r[1], Middle(r) - 1>> \in Bounds(list) /\ <<Middle(r) + 1, r[2]>> \in Bounds(list)
             /\ Width(<<r[1], Middle(r) - 1>>) < Width(r) /\ Width(<<Middle(r) + 1, r[2]>>) < Width(r)
  <2> TAKE r \in Bounds(list)
  <2>1. /\ Len(list) \in Nat /\ r[1] \in Nat /\ r[2] \in Int
        /\ r[1] <= Len(list) /\ -1 <= r[2]
    BY Halves
  <2>2. ASSUME r[1] <= r[2]
        PROVE  /\ <<r[1], Middle(r) - 1>> \in Bounds(list) /\ <<Middle(r) + 1, r[2]>> \in Bounds(list)
               /\ Middle(r) \in Nat /\ r[1] <= Middle(r) /\ Middle(r) <= r[2]
    BY <2>2, Halves
  <2> QED
    BY <2>1, <2>2
<1> SUFFICES ASSUME Differ # {} PROVE FALSE
  OBVIOUS
<1>1. S \in SUBSET Nat /\ S # {}
  BY <1>0
<1>2. PICK x \in S : \A y \in S : x <= y
  BY <1>1, LeastNat
<1>3. PICK r \in Bounds(list) : f[r] # g[r] /\ Width(r) = x
  BY <1>2
<1>4. \A q \in Bounds(list) : Width(q) < Width(r) => f[q] = g[q]
  <2> SUFFICES ASSUME NEW q \in Bounds(list), Width(q) < Width(r), f[q] # g[q] PROVE FALSE
    OBVIOUS
  <2>1. Width(q) \in S
    OBVIOUS
  <2>2. x <= Width(q) /\ Width(q) \in Nat /\ x \in Nat
    BY <1>0, <1>1, <1>2, <2>1
  <2> HIDE DEF Width
  <2> QED
    BY <1>3, <2>2
<1>5. /\ f[r] = Bisection(list, k, f)[r]
      /\ g[r] = Bisection(list, k, g)[r]
  OBVIOUS
<1> HIDE DEF Width, S, Differ
<1>6. CASE r[1] > r[2]
  BY <1>3, <1>5, <1>6 DEF Bisection
<1>7. CASE ~(r[1] > r[2])
  <2>0. r[1] \in Nat /\ r[2] \in Int
    BY Halves
  <2>1. r[1] <= r[2]
    BY <1>7, <2>0
  <2>2. /\ f[<<r[1], Middle(r) - 1>>] = g[<<r[1], Middle(r) - 1>>]
        /\ f[<<Middle(r) + 1, r[2]>>] = g[<<Middle(r) + 1, r[2]>>]
    BY <1>0, <1>4, <2>1
  <2> QED
    BY <1>3, <1>5, <2>2 DEF Bisection
<1> QED
  BY <1>6, <1>7

\* The search of content_get finds a key exactly if it is in the list.
LEMMA FindsIsMembership ==
  ASSUME NEW list, Index(list), NEW k \in Nat
  PROVE  Finds(list, k) = (k \in Range(list))
<1> DEFINE find == CHOOSE f : f = Bisection(list, k, f)
           Found == \E i \in 0..(Len(list) - 1) : 0 <= i /\ i <= Len(list) - 1 /\ list[i + 1] = k
<1>1. find = Bisection(list, k, find)
  BY BetweenBisects
<1>2. Finds(list, k) = find[<<0, Len(list) - 1>>]
  BY DEF Finds, Bisection, Bounds, Middle
<1>3. Len(list) \in Nat /\ <<0, Len(list) - 1>> \in Bounds(list)
  BY LenProperties DEF Index, Bounds
<1> HIDE DEF find
<1>4. find[<<0, Len(list) - 1>>] = Between(list, k)[<<0, Len(list) - 1>>]
  BY <1>1, <1>3, BetweenBisects, BisectionUnique
<1>5. Between(list, k)[<<0, Len(list) - 1>>] = Found
  BY <1>3 DEF Between
<1>6. Found <=> k \in Range(list)
  <2>1. DOMAIN list = 1..Len(list)
    BY LenProperties DEF Index
  <2>2. ASSUME NEW i \in 0..(Len(list) - 1) PROVE i + 1 \in 1..Len(list)
    BY <1>3
  <2>3. ASSUME NEW j \in 1..Len(list)
        PROVE  /\ j - 1 \in 0..(Len(list) - 1) /\ (j - 1) + 1 = j
               /\ 0 <= j - 1 /\ j - 1 <= Len(list) - 1
    BY <1>3
  <2>4. ASSUME NEW j \in 1..Len(list), list[j] = k
        PROVE  Found
    <3> WITNESS j - 1 \in 0..(Len(list) - 1)
    <3> QED
      BY <2>3, <2>4
  <2> QED
    BY <2>1, <2>2, <2>4 DEF Range
<1> HIDE DEF Found
<1>7. Finds(list, k) = Found
  BY <1>2, <1>4, <1>5, Zenon
<1>8. Found \in BOOLEAN
  BY DEF Found
<1> QED
  BY <1>6, <1>7, <1>8
-----------------------------------------------------------------------------
(* The inductive invariant *)

Headers == {NoHeader, NotFound} \union {Ok(n) : n \in Nat}

Types ==
  /\ Index(items)
  /\ path \in [Requests -> Keys] /\ size \in [Keys -> Nat]
  /\ queue \in Seq(Requests)
  /\ arrived \subseteq Requests /\ done \subseteq Requests
  /\ pc \in [Workers -> {"lock", "test", "wait", "signal", "lookup", "send"}]
  /\ item \in [Workers -> SUBSET Requests]
  /\ length \in [Workers -> Nat]
  /\ header \in [Requests -> Headers]
  /\ body \in [Requests -> Nat]

\* item_info is set from steque_pop to the end of the request, and is one request.
Holding ==
  \A w \in Workers :
    IF pc[w] \in {"signal", "lookup", "send"} THEN \E r \in Requests : item[w] = {r}
    ELSE item[w] = {}

\* The three places a request can be in are disjoint ...
Disjoint ==
  /\ \A i, j \in 1..Len(queue) : queue[i] = queue[j] => i = j
  /\ \A i \in 1..Len(queue) : queue[i] \notin done /\ \A w \in Workers : queue[i] \notin item[w]
  /\ \A w \in Workers : item[w] \intersect done = {}
  /\ \A u, w \in Workers : u # w => item[u] \intersect item[w] = {}

\* ... and those that have arrived are in one of them.
Somewhere ==
  /\ \A i \in 1..Len(queue) : queue[i] \in arrived
  /\ \A w \in Workers : item[w] \subseteq arrived
  /\ done \subseteq arrived
  /\ \A r \in arrived : r \in done \/ (\E i \in 1..Len(queue) : queue[i] = r) \/ (\E w \in Workers : r \in item[w])

\* Which header a request has been given, and how much has been sent for it.
AnswerOf(r) ==
  LET known == path[r] \in Range(items) IN
  /\ header[r].status = "GF_OK" => known
  /\ header[r].status = "GF_FILE_NOT_FOUND" => ~known /\ r \in done
  /\ r \in done /\ ~known => header[r] = NotFound
  /\ header[r].status # "GF_OK" => body[r] = 0
  /\ r \in done /\ header[r].status = "GF_OK" => body[r] >= header[r].len
  /\ \A w \in Workers : r \in item[w] =>
       IF pc[w] = "send" THEN header[r] = Ok(length[w]) ELSE header[r] = NoHeader
  /\ r \notin arrived => header[r] = NoHeader
  /\ (\E i \in 1..Len(queue) : queue[i] = r) => header[r] = NoHeader
  /\ header[r].status = "GF_OK" /\ path[r] \notin changed =>
       body[r] <= size[path[r]] /\ header[r].len = size[path[r]]

Answers == \A r \in Requests : AnswerOf(r)

IInv == Types /\ Holding /\ Disjoint /\ Somewhere /\ Answers

\* What a header says.
LEMMA HeaderFacts ==
  /\ NoHeader.status = "none" /\ NotFound.status = "GF_FILE_NOT_FOUND"
  /\ \A n \in Nat : Ok(n).status = "GF_OK" /\ Ok(n).len = n /\ Ok(n) \in Headers
  /\ NoHeader \in Headers /\ NotFound \in Headers
  /\ \A hd \in Headers : \/ hd = NoHeader
                         \/ hd = NotFound
                         \/ hd.status = "GF_OK" /\ hd.len \in Nat
<1>1. NoHeader.status = "none" /\ NotFound.status = "GF_FILE_NOT_FOUND"
  BY DEF NoHeader, NotFound
<1>2. \A n \in Nat : Ok(n).status = "GF_OK" /\ Ok(n).len = n
  BY DEF Ok
<1>3. NoHeader \in Headers /\ NotFound \in Headers /\ \A n \in Nat : Ok(n) \in Headers
  BY Zenon DEF Headers
<1>4. \A hd \in Headers : hd = NoHeader \/ hd = NotFound \/ \E n \in Nat : hd = Ok(n)
  BY Zenon DEF Headers
<1> QED
  BY <1>1, <1>2, <1>3, <1>4

\* content_get answers whether the path is in the content file.
LEMMA ContentGet ==
  ASSUME Types, NEW r \in Requests
  PROVE  content_get(path[r]) = (path[r] \in Range(items))
<1>1. path[r] \in Nat
  BY ServerAssumption DEF Types
<1> QED
  BY <1>1, FindsIsMembership DEF content_get, Types

Busy == {"signal", "lookup", "send"}

\* Steps of the boss and the workers that only lock, unlock, wait and wake up.
LEMMA Waits ==
  ASSUME IInv, UNCHANGED <<items, path, size, queue, arrived, item, length, header, body, done, changed>>,
         pc' \in [Workers -> {"lock", "test", "wait", "signal", "lookup", "send"}],
         \A w \in Workers : /\ pc[w] \in Busy <=> pc'[w] \in Busy
                            /\ pc[w] = "send" <=> pc'[w] = "send"
  PROVE  IInv'
<1>1. Types'
  BY DEF IInv, Types
<1>2. Holding'
  BY DEF IInv, Holding, Busy
<1>3. Disjoint' /\ Somewhere'
  BY DEF IInv, Disjoint, Somewhere
<1>4. Answers'
  BY DEF IInv, Answers, AnswerOf
<1> QED
  BY <1>1, <1>2, <1>3, <1>4 DEF IInv

\* pthread_cond_signal moves at most one worker, from the wait to the mutex.
LEMMA WokenStep ==
  ASSUME NEW pcs \in [Workers -> {"lock", "test", "wait", "signal", "lookup", "send"}],
         NEW next \in Woken(pcs)
  PROVE  /\ next \in [Workers -> {"lock", "test", "wait", "signal", "lookup", "send"}]
         /\ \A w \in Workers : next[w] = pcs[w] \/ (pcs[w] = "wait" /\ next[w] = "lock")
<1>1. CASE next = pcs
  BY <1>1
<1>2. CASE \E w \in Workers : pcs[w] = "wait" /\ next = [pcs EXCEPT ![w] = "lock"]
  BY <1>2
<1> QED
  BY <1>1, <1>2 DEF Woken

\* The steps that wait and wake.
LEMMA WaitInv ==
  ASSUME IInv, \/ HandlerSignal
               \/ \E w \in Workers : Lock(w) \/ Wait(w) \/ WakeUp(w) \/ Signal(w)
               \/ SigExit
               \/ UNCHANGED vars
  PROVE  IInv'
<1> USE DEF files, workerVars, replyVars, Busy
<1>0. pc \in [Workers -> {"lock", "test", "wait", "signal", "lookup", "send"}]
  BY DEF IInv, Types
<1>1. CASE HandlerSignal
  <2>1. /\ pc' \in [Workers -> {"lock", "test", "wait", "signal", "lookup", "send"}]
        /\ \A w \in Workers : pc'[w] = pc[w] \/ (pc[w] = "wait" /\ pc'[w] = "lock")
    BY <1>0, <1>1, WokenStep DEF HandlerSignal
  <2> QED
    BY <1>1, <2>1, Waits DEF HandlerSignal
<1>2. ASSUME NEW w \in Workers, Lock(w) \/ Wait(w) \/ WakeUp(w) PROVE IInv'
  <2>1. /\ pc' \in [Workers -> {"lock", "test", "wait", "signal", "lookup", "send"}]
        /\ pc[w] \notin Busy /\ pc'[w] \notin Busy /\ \A u \in Workers : u # w => pc'[u] = pc[u]
    BY <1>0, <1>2 DEF Lock, Wait, WakeUp
  <2> QED
    BY <1>2, <2>1, Waits DEF Lock, Wait, WakeUp
<1>3. ASSUME NEW w \in Workers, Signal(w) PROVE IInv'
  <2> DEFINE pcs == [pc EXCEPT ![w] = "lookup"]
  <2>1. /\ pcs \in [Workers -> {"lock", "test", "wait", "signal", "lookup", "send"}]
        /\ pc[w] = "signal" /\ pcs[w] = "lookup" /\ \A u \in Workers : u # w => pcs[u] = pc[u]
        /\ pc' \in Woken(pcs)
    BY <1>0, <1>3 DEF Signal
  <2> HIDE DEF pcs
  <2>2. /\ pc' \in [Workers -> {"lock", "test", "wait", "signal", "lookup", "send"}]
        /\ \A u \in Workers : pc'[u] = pcs[u] \/ (pcs[u] = "wait" /\ pc'[u] = "lock")
    BY <2>1, WokenStep
  <2>3. \A u \in Workers : /\ pc[u] \in Busy <=> pc'[u] \in Busy
                           /\ pc[u] = "send" <=> pc'[u] = "send"
    BY <2>1, <2>2
  <2> QED
    BY <1>3, <2>2, <2>3, Waits DEF Signal
<1>4. CASE SigExit \/ UNCHANGED vars
  BY <1>0, <1>4, Waits DEF SigExit, vars
<1> QED
  BY <1>1, <1>2, <1>3, <1>4
-----------------------------------------------------------------------------
(* The queue *)

\* gfs_handler: the new request is in the queue and nowhere else.
LEMMA HandleInv ==
  ASSUME IInv, NEW r \in Requests, Handle(r)
  PROVE  IInv'
<1> USE DEF files, workerVars, replyVars
<1>1. /\ r \notin arrived /\ queue' = Append(queue, r) /\ arrived' = arrived \union {r}
      /\ UNCHANGED <<items, path, size, pc, item, length, header, body, done, changed>>
  BY DEF Handle
<1>2. queue \in Seq(Requests) /\ Len(queue) \in Nat
  BY LenProperties DEF IInv, Types
<1>3. /\ queue' \in Seq(Requests) /\ Len(queue') = Len(queue) + 1
      /\ \A i \in 1..Len(queue) : queue'[i] = queue[i]
      /\ queue'[Len(queue) + 1] = r
  BY <1>1, <1>2, AppendProperties
<1>4. /\ \A i \in 1..Len(queue') : i \in 1..Len(queue) \/ i = Len(queue) + 1
      /\ \A i \in 1..Len(queue) : i \in 1..Len(queue')
      /\ Len(queue) + 1 \in 1..Len(queue')
  BY <1>2, <1>3
<1>5. /\ r \notin done /\ \A w \in Workers : r \notin item[w]
      /\ \A i \in 1..Len(queue) : queue[i] # r
  BY <1>1 DEF IInv, Somewhere
<1>6. Types'
  BY <1>1, <1>3 DEF IInv, Types
<1>7. Holding'
  BY <1>1 DEF IInv, Holding
<1>8. Disjoint'
  BY <1>1, <1>3, <1>4, <1>5 DEF IInv, Disjoint
<1>9. Somewhere'
  <2>1. \A q \in arrived' :
          \/ q \in done \/ (\E i \in 1..Len(queue') : queue'[i] = q) \/ (\E w \in Workers : q \in item[w])
    BY <1>1, <1>3, <1>4 DEF IInv, Somewhere
  <2>2. \A i \in 1..Len(queue') : queue'[i] \in arrived'
    BY <1>1, <1>3, <1>4 DEF IInv, Somewhere
  <2> QED
    BY <1>1, <2>1, <2>2 DEF IInv, Somewhere
<1>10. Answers'
  <2>1. \A q \in Requests : (\E i \in 1..Len(queue') : queue'[i] = q) =>
                              q = r \/ \E i \in 1..Len(queue) : queue[i] = q
    BY <1>3, <1>4
  <2>2. header[r] = NoHeader
    BY <1>1 DEF IInv, Answers, AnswerOf
  <2> QED
    BY <1>1, <2>1, <2>2 DEF IInv, Answers, AnswerOf
<1> QED
  BY <1>6, <1>7, <1>8, <1>9, <1>10 DEF IInv

\* steque_pop: the request moves from the queue to the worker.
LEMMA PopInv ==
  ASSUME IInv, NEW w \in Workers, Pop(w)
  PROVE  IInv'
<1> USE DEF files, replyVars
<1>1. /\ pc[w] = "test" /\ queue # << >> /\ queue' = Tail(queue)
      /\ item' = [item EXCEPT ![w] = {Head(queue)}] /\ pc' = [pc EXCEPT ![w] = "signal"]
      /\ UNCHANGED <<items, path, size, arrived, length, header, body, done, changed>>
  BY DEF Pop
<1>2. /\ queue \in Seq(Requests) /\ Len(queue) \in Nat
      /\ pc \in [Workers -> {"lock", "test", "wait", "signal", "lookup", "send"}]
      /\ item \in [Workers -> SUBSET Requests] /\ item[w] = {}
  BY <1>1, LenProperties DEF IInv, Types, Holding
<1>3. /\ Len(queue) > 0 /\ Head(queue) = queue[1] /\ Head(queue) \in Requests
      /\ Tail(queue) \in Seq(Requests) /\ Len(Tail(queue)) = Len(queue) - 1
      /\ \A i \in 1..Len(Tail(queue)) : Tail(queue)[i] = queue[i + 1]
  BY <1>1, <1>2, HeadTailProperties, EmptySeq
<1>4. /\ \A i \in 1..Len(queue') : i + 1 \in 1..Len(queue) /\ i + 1 # 1
      /\ 1 \in 1..Len(queue)
      /\ \A i \in 1..Len(queue) : i = 1 \/ (i - 1 \in 1..Len(queue') /\ (i - 1) + 1 = i)
  BY <1>1, <1>2, <1>3
<1>5. PICK r \in Requests : r = queue[1] /\ r = Head(queue)
  BY <1>3
<1>6. /\ item'[w] = {r} /\ pc'[w] = "signal"
      /\ \A u \in Workers : u # w => item'[u] = item[u] /\ pc'[u] = pc[u]
      /\ \A i \in 1..Len(queue') : queue'[i] = queue[i + 1] /\ queue'[i] # r
      /\ \A u \in Workers : r \notin item[u]
      /\ r \notin done /\ r \in arrived
  <2>1. \A i \in 1..Len(queue') : queue'[i] = queue[i + 1] /\ queue'[i] # r
    BY <1>1, <1>3, <1>4, <1>5 DEF IInv, Disjoint
  <2>2. (\A u \in Workers : r \notin item[u]) /\ r \notin done /\ r \in arrived
    BY <1>4, <1>5 DEF IInv, Disjoint, Somewhere
  <2> QED
    BY <1>1, <1>2, <1>5, <2>1, <2>2
<1>7. Types'
  BY <1>1, <1>2, <1>3 DEF IInv, Types
<1>8. Holding'
  BY <1>6 DEF IInv, Holding
<1>9. Disjoint'
  <2>1. \A i, j \in 1..Len(queue') : queue'[i] = queue'[j] => i = j
    <3> TAKE i, j \in 1..Len(queue')
    <3>1. queue[i + 1] = queue[j + 1] => i + 1 = j + 1
      BY <1>4 DEF IInv, Disjoint
    <3> QED
      BY <1>6, <3>1
  <2>2. \A i \in 1..Len(queue') : queue'[i] \notin done /\ \A u \in Workers : queue'[i] \notin item[u]
    BY <1>4, <1>6 DEF IInv, Disjoint
  <2>3. \A u \in Workers : item'[u] \intersect done = {}
    BY <1>6 DEF IInv, Disjoint
  <2>4. \A u, v \in Workers : u # v => item'[u] \intersect item'[v] = {}
    BY <1>6 DEF IInv, Disjoint
  <2>5. \A i \in 1..Len(queue') : \A u \in Workers : queue'[i] \notin item'[u]
    BY <1>6, <2>2
  <2> QED
    BY <1>1, <2>1, <2>2, <2>3, <2>4, <2>5 DEF Disjoint
<1>10. Somewhere'
  <2>1. \A i \in 1..Len(queue') : queue'[i] \in arrived
    BY <1>4, <1>6 DEF IInv, Somewhere
  <2>2. \A q \in arrived :
          q \in done \/ (\E i \in 1..Len(queue') : queue'[i] = q) \/ (\E u \in Workers : q \in item'[u])
    <3> SUFFICES ASSUME NEW q \in arrived, q \notin done, \A u \in Workers : q \notin item'[u]
                 PROVE  \E i \in 1..Len(queue') : queue'[i] = q
      OBVIOUS
    <3>1. \A u \in Workers : q \notin item[u]
      BY <1>2, <1>6
    <3>2. PICK i \in 1..Len(queue) : queue[i] = q
      BY <3>1 DEF IInv, Somewhere
    <3>3. i # 1
      BY <1>5, <1>6, <3>2
    <3> QED
      BY <1>4, <1>6, <3>2, <3>3
  <2>3. \A u \in Workers : item'[u] \subseteq arrived
    BY <1>6 DEF IInv, Somewhere
  <2> QED
    BY <1>1, <2>1, <2>2, <2>3 DEF IInv, Somewhere
<1>11. Answers'
  <2>1. header[r] = NoHeader
    BY <1>4, <1>5 DEF IInv, Answers, AnswerOf
  <2>2. \A q \in Requests : (\E i \in 1..Len(queue') : queue'[i] = q) => \E i \in 1..Len(queue) : queue[i] = q
    BY <1>4, <1>6
  <2>3. \A u \in Workers, q \in Requests : q \in item'[u] =>
          IF pc'[u] = "send" THEN header[q] = Ok(length[u]) ELSE header[q] = NoHeader
    BY <1>6, <2>1 DEF IInv, Answers, AnswerOf
  <2> QED
    BY <1>1, <2>2, <2>3 DEF IInv, Answers, AnswerOf
<1> QED
  BY <1>7, <1>8, <1>9, <1>10, <1>11 DEF IInv
-----------------------------------------------------------------------------
(* The answer *)

\* The end of a request: it is done, and no longer with the worker.
LEMMA FinishedInv ==
  ASSUME IInv, NEW w \in Workers, NEW r \in Requests, item[w] = {r}, Finished(w),
         UNCHANGED <<items, path, size, queue, arrived, length, body, changed>>,
         NEW hd \in Headers, header' = [header EXCEPT ![r] = hd],
         \/ hd = NotFound /\ path[r] \notin Range(items) /\ header[r] = NoHeader
         \/ hd = header[r] /\ header[r] = NoHeader /\ path[r] \in Range(items)
         \/ hd = header[r] /\ header[r].status = "GF_OK" /\ body[r] >= header[r].len
  PROVE  IInv'
<1>1. /\ pc \in [Workers -> {"lock", "test", "wait", "signal", "lookup", "send"}]
      /\ item \in [Workers -> SUBSET Requests] /\ header \in [Requests -> Headers]
  BY DEF IInv, Types
<1>2. /\ pc'[w] = "lock" /\ item'[w] = {} /\ done' = done \union {r}
      /\ \A u \in Workers : u # w => pc'[u] = pc[u] /\ item'[u] = item[u]
      /\ header'[r] = hd /\ \A q \in Requests : q # r => header'[q] = header[q]
  BY <1>1 DEF Finished
<1>3. Types'
  BY <1>1, <1>2 DEF IInv, Types, Finished
<1>4. Holding'
  BY <1>2 DEF IInv, Holding
<1>5. /\ \A u \in Workers : u # w => r \notin item[u]
      /\ \A i \in 1..Len(queue) : queue[i] # r
      /\ r \in arrived /\ r \notin done
  BY DEF IInv, Disjoint, Somewhere
<1>6. Disjoint'
  BY <1>2, <1>5 DEF IInv, Disjoint
<1>7. Somewhere'
  <2>1. \A q \in arrived : q \in done' \/ (\E i \in 1..Len(queue) : queue[i] = q) \/ (\E u \in Workers : q \in item'[u])
    BY <1>2 DEF IInv, Somewhere
  <2>2. (\A u \in Workers : item'[u] \subseteq arrived) /\ done' \subseteq arrived
    BY <1>2, <1>5 DEF IInv, Somewhere
  <2> QED
    BY <2>1, <2>2 DEF IInv, Somewhere
<1>8. Answers'
  <2>1. ASSUME NEW q \in Requests, q # r
        PROVE  /\ header'[q] = header[q] /\ (q \in done' <=> q \in done)
               /\ \A u \in Workers : q \in item'[u] => q \in item[u] /\ pc'[u] = pc[u]
    BY <1>2, <2>1
  <2>2. /\ \A u \in Workers : r \notin item'[u]
        /\ r \in arrived /\ r \in done'
    BY <1>2, <1>5
  <2>3. NoHeader.status = "none" /\ NotFound.status = "GF_FILE_NOT_FOUND"
    BY HeaderFacts
  <2>4. body[r] \in Nat /\ size[path[r]] \in Nat
    BY DEF IInv, Types
  <2>5. ASSUME NEW q \in Requests, q # r PROVE AnswerOf(q)'
    BY <2>1, <2>5 DEF IInv, Answers, AnswerOf
  <2>6. AnswerOf(r)'
    BY <1>2, <1>5, <2>2, <2>3 DEF IInv, Answers, AnswerOf
  <2> QED
    BY <2>5, <2>6 DEF Answers
<1> QED
  BY <1>3, <1>4, <1>6, <1>7, <1>8 DEF IInv

\* The three ways a request ends.
LEMMA EndInv ==
  ASSUME IInv, NEW w \in Workers, SendNotFound(w) \/ FstatFails(w) \/ SendEnd(w)
  PROVE  IInv'
<1> USE DEF files
<1>1. PICK r \in Requests : item[w] = {r}
  BY DEF IInv, Holding, SendNotFound, FstatFails, SendEnd
<1>2. header \in [Requests -> Headers] /\ content_get(path[r]) = (path[r] \in Range(items))
  BY ContentGet DEF IInv, Types
<1>3. CASE SendNotFound(w)
  <2>1. header' = [header EXCEPT ![r] = NotFound]
    BY <1>1, <1>2, <1>3 DEF SendNotFound
  <2>2. header[r] = NoHeader /\ path[r] \notin Range(items)
    BY <1>1, <1>2, <1>3 DEF SendNotFound, IInv, Answers, AnswerOf
  <2>3. Finished(w) /\ UNCHANGED <<items, path, size, queue, arrived, length, body, changed>>
    BY <1>3 DEF SendNotFound
  <2> QED
    BY <1>1, <2>1, <2>2, <2>3, HeaderFacts, FinishedInv
<1>4. CASE FstatFails(w)
  <2>1. header' = [header EXCEPT ![r] = header[r]] /\ header[r] \in Headers
    BY <1>2, <1>4 DEF FstatFails
  <2>2. header[r] = NoHeader /\ path[r] \in Range(items)
    BY <1>1, <1>2, <1>4 DEF FstatFails, IInv, Answers, AnswerOf
  <2>3. Finished(w) /\ UNCHANGED <<items, path, size, queue, arrived, length, body, changed>>
    BY <1>4 DEF FstatFails
  <2> QED
    BY <1>1, <2>1, <2>2, <2>3, FinishedInv
<1>5. CASE SendEnd(w)
  <2>1. header' = [header EXCEPT ![r] = header[r]] /\ header[r] \in Headers
    BY <1>2, <1>5 DEF SendEnd
  <2>2. header[r] = Ok(length[w]) /\ length[w] \in Nat /\ body[r] >= length[w]
    BY <1>1, <1>5 DEF SendEnd, IInv, Answers, AnswerOf, Types
  <2>3. Finished(w) /\ UNCHANGED <<items, path, size, queue, arrived, length, body, changed>>
    BY <1>5 DEF SendEnd
  <2>4. header[r].status = "GF_OK" /\ body[r] >= header[r].len
    BY <2>2, HeaderFacts
  <2> QED
    BY <1>1, <2>1, <2>3, <2>4, FinishedInv
<1> QED
  BY <1>3, <1>4, <1>5

\* The OK header, with the length fstat returned.
LEMMA SendHeaderInv ==
  ASSUME IInv, NEW w \in Workers, SendHeader(w)
  PROVE  IInv'
<1> USE DEF files
<1>1. PICK r \in Requests : item[w] = {r}
  BY DEF IInv, Holding, SendHeader
<1>2. /\ pc \in [Workers -> {"lock", "test", "wait", "signal", "lookup", "send"}]
      /\ length \in [Workers -> Nat] /\ header \in [Requests -> Headers]
      /\ content_get(path[r]) = (path[r] \in Range(items))
      /\ size[path[r]] \in Nat /\ body[r] \in Nat
  BY ContentGet DEF IInv, Types
<1>3. /\ pc[w] = "lookup" /\ pc' = [pc EXCEPT ![w] = "send"] /\ path[r] \in Range(items)
      /\ length' = [length EXCEPT ![w] = size[path[r]]]
      /\ header' = [header EXCEPT ![r] = Ok(size[path[r]])]
      /\ UNCHANGED <<items, path, size, queue, arrived, item, body, done, changed>>
  BY <1>1, <1>2 DEF SendHeader
<1>4. /\ pc'[w] = "send" /\ \A u \in Workers : u # w => pc'[u] = pc[u] /\ length'[u] = length[u]
      /\ length'[w] = size[path[r]] /\ header'[r] = Ok(size[path[r]])
      /\ \A q \in Requests : q # r => header'[q] = header[q]
  BY <1>2, <1>3
<1>5. /\ header'[r].status = "GF_OK" /\ header'[r].len = size[path[r]] /\ header'[r] \in Headers
      /\ Ok(size[path[r]]) \in Headers
  BY <1>2, <1>4, HeaderFacts
<1>6. Types'
  BY <1>2, <1>3, <1>5 DEF IInv, Types
<1>7. Holding' /\ Disjoint' /\ Somewhere'
  BY <1>1, <1>3, <1>4 DEF IInv, Holding, Disjoint, Somewhere
<1>8. /\ \A u \in Workers : u # w => r \notin item[u]
      /\ \A i \in 1..Len(queue) : queue[i] # r
      /\ r \in arrived /\ r \notin done
  BY <1>1 DEF IInv, Disjoint, Somewhere
<1>9. body[r] = 0
  <2>1. header[r] = NoHeader
    BY <1>1, <1>3 DEF IInv, Answers, AnswerOf
  <2>2. header[r].status # "GF_OK"
    BY <2>1, HeaderFacts
  <2> QED
    BY <2>2 DEF IInv, Answers, AnswerOf
<1>10. Answers'
  <2>1. ASSUME NEW q \in Requests, q # r PROVE AnswerOf(q)'
    <3>1. \A u \in Workers : q \in item[u] => pc'[u] = pc[u] /\ length'[u] = length[u]
      BY <1>1, <1>4, <2>1
    <3> QED
      BY <1>3, <1>4, <2>1, <3>1 DEF IInv, Answers, AnswerOf
  <2>2. AnswerOf(r)'
    BY <1>1, <1>2, <1>3, <1>4, <1>5, <1>8, <1>9 DEF AnswerOf
  <2> QED
    BY <2>1, <2>2 DEF Answers
<1> QED
  BY <1>6, <1>7, <1>10 DEF IInv

\* pread never returns bytes past the end of the file.
LEMMA PreadBound ==
  ASSUME NEW n \in Nat, NEW at \in Nat
  PROVE  pread(n, at) \in Nat /\ (at <= n => at + pread(n, at) <= n)
  BY ServerAssumption DEF pread

\* pread and gfs_send
LEMMA SendChunkInv ==
  ASSUME IInv, NEW w \in Workers, SendChunk(w)
  PROVE  IInv'
<1> USE DEF files, workerVars
<1>1. PICK r \in Requests : item[w] = {r}
  BY DEF IInv, Holding, SendChunk
<1>2. body \in [Requests -> Nat] /\ body[r] \in Nat /\ size[path[r]] \in Nat /\ header \in [Requests -> Headers]
      /\ length[w] \in Nat
  BY DEF IInv, Types
<1>3. PICK n \in Nat : /\ n = pread(size[path[r]], body[r])
                       /\ body[r] <= size[path[r]] => body[r] + n <= size[path[r]]
  BY <1>2, PreadBound
<1>4. /\ pc[w] = "send" /\ body' = [body EXCEPT ![r] = body[r] + n]
      /\ UNCHANGED <<items, path, size, queue, arrived, pc, item, length, header, done, changed>>
  BY <1>1, <1>2, <1>3 DEF SendChunk
<1>5. body'[r] = body[r] + n /\ \A q \in Requests : q # r => body'[q] = body[q]
  BY <1>2, <1>4
<1>6. Types' /\ Holding' /\ Disjoint' /\ Somewhere'
  <2>1. body[r] + n \in Nat
    BY <1>2, <1>3
  <2>2. body' \in [Requests -> Nat]
    BY <1>2, <1>4, <2>1
  <2>3. Types'
    BY <1>4, <2>2 DEF IInv, Types
  <2>4. Holding' /\ Disjoint' /\ Somewhere'
    BY <1>4 DEF IInv, Holding, Disjoint, Somewhere
  <2> QED
    BY <2>3, <2>4
<1>7. header[r] = Ok(length[w]) /\ header[r].status = "GF_OK" /\ header[r].len \in Nat
  <2>1. header[r] = Ok(length[w])
    BY <1>1, <1>4 DEF IInv, Answers, AnswerOf
  <2> QED
    BY <1>2, <2>1, HeaderFacts
<1>8. Answers'
  <2>1. ASSUME NEW q \in Requests, q # r PROVE AnswerOf(q)'
    BY <1>4, <1>5, <2>1 DEF IInv, Answers, AnswerOf
  <2>2. AnswerOf(r)'
    BY <1>2, <1>3, <1>4, <1>5, <1>7 DEF IInv, Answers, AnswerOf
  <2> QED
    BY <2>1, <2>2 DEF Answers
<1> QED
  BY <1>6, <1>8 DEF IInv

\* Another program changes a file that the server has open.
LEMMA ChangeFileInv ==
  ASSUME IInv, NEW k \in Keys, ChangeFile(k)
  PROVE  IInv'
<1> USE DEF files, workerVars, replyVars
<1>1. PICK n \in Nat : size' = [size EXCEPT ![k] = n]
  BY ServerAssumption DEF ChangeFile
<1>2. /\ changed' = changed \union {k}
      /\ UNCHANGED <<items, path, queue, arrived, pc, item, length, header, body, done>>
  BY DEF ChangeFile
<1>3. size \in [Keys -> Nat] /\ path \in [Requests -> Keys]
  BY DEF IInv, Types
<1>4. Types' /\ Holding' /\ Disjoint' /\ Somewhere'
  BY <1>1, <1>2, <1>3 DEF IInv, Types, Holding, Disjoint, Somewhere
<1>5. \A r \in Requests : path[r] \notin changed' => path[r] \notin changed /\ size'[path[r]] = size[path[r]]
  BY <1>1, <1>2, <1>3
<1>6. Answers'
  BY <1>2, <1>5 DEF IInv, Answers, AnswerOf
<1> QED
  BY <1>4, <1>6 DEF IInv
-----------------------------------------------------------------------------
(* The theorems *)

\* content_init leaves a sorted list; nothing has been asked for yet.
LEMMA InitInv == Init => IInv
<1> SUFFICES ASSUME Init PROVE IInv
  OBVIOUS
<1>1. PICK c \in Contents : items \in Sortings(c.list) /\ size = c.size
  BY DEF Init
<1>2. c.list \in Seq(Keys) /\ c.size \in [Keys -> Nat] /\ Keys \subseteq Nat
  BY ServerAssumption
<1>3. PICK p \in Bijection(DOMAIN c.list, DOMAIN c.list) :
        /\ items = [i \in DOMAIN c.list |-> c.list[p[i]]]
        /\ \A i, j \in DOMAIN c.list : i < j => items[i] <= items[j]
  BY <1>1 DEF Sortings
<1>4. PICK n \in Nat : DOMAIN c.list = 1..n
  BY <1>2, LenProperties
<1>5. \A i \in 1..n : p[i] \in 1..n /\ c.list[p[i]] \in Nat
  <2>1. p \in [1..n -> 1..n]
    BY <1>3, <1>4 DEF Bijection, Injection, Surjection
  <2>2. \A i \in 1..n : c.list[i] \in Nat
    BY <1>2, <1>4, ElementOfSeq, LenProperties
  <2> QED
    BY <2>1, <2>2
<1>6. items \in Seq(Nat) /\ DOMAIN items = 1..n /\ Len(items) \in Nat /\ DOMAIN items = 1..Len(items)
  BY <1>3, <1>4, <1>5, LenProperties, IsASeq
<1>7. Index(items)
  BY <1>3, <1>4, <1>6 DEF Index
<1>8. << >> \in Seq(Requests) /\ queue = << >> /\ Len(queue) = 0
  BY EmptySeq DEF Init
<1>9. Types
  <2>1. header \in [Requests -> Headers]
    BY HeaderFacts DEF Init
  <2>2. pc \in [Workers -> {"lock", "test", "wait", "signal", "lookup", "send"}]
    BY DEF Init
  <2>3. item \in [Workers -> SUBSET Requests] /\ length \in [Workers -> Nat] /\ body \in [Requests -> Nat]
    BY DEF Init
  <2>4. path \in [Requests -> Keys] /\ arrived \subseteq Requests /\ done \subseteq Requests
    BY DEF Init
  <2>5. queue \in Seq(Requests)
    BY <1>8
  <2> QED
    BY <1>1, <1>2, <1>7, <2>1, <2>2, <2>3, <2>4, <2>5 DEF Types
<1>10. Holding /\ Disjoint /\ Somewhere
  BY <1>8 DEF Init, Holding, Disjoint, Somewhere
<1>11. Answers
  <2>1. \A r \in Requests : header[r] = NoHeader /\ header[r].status = "none" /\ body[r] = 0
    BY HeaderFacts DEF Init
  <2>2. done = {} /\ \A w \in Workers : item[w] = {}
    BY DEF Init
  <2> QED
    BY <1>8, <2>1, <2>2 DEF Answers, AnswerOf
<1> QED
  BY <1>9, <1>10, <1>11 DEF IInv

\* Every step keeps the invariant.
LEMMA NextInv == IInv /\ [Next]_vars => IInv'
<1> SUFFICES ASSUME IInv, [Next]_vars PROVE IInv'
  OBVIOUS
<1>1. ASSUME NEW w \in Workers, Work(w) PROVE IInv'
  BY <1>1, WaitInv, PopInv, EndInv, SendHeaderInv, SendChunkInv DEF Work
<1>2. ASSUME NEW w \in Workers, WakeUp(w) \/ FstatFails(w) PROVE IInv'
  BY <1>2, WaitInv, EndInv
<1> QED
  BY <1>1, <1>2, WaitInv, HandleInv, ChangeFileInv DEF Next

\* IInv is an inductive invariant of the server: where every request is, and what
\* has been answered to it.
THEOREM Invariance == Spec => []IInv
  BY InitInv, NextInv, PTL DEF Spec

\* A set that is empty, or has one element, has that many elements.
LEMMA CountsOne ==
  ASSUME NEW S, NEW x, S \subseteq {x}
  PROVE  Cardinality(S) = IF x \in S THEN 1 ELSE 0
<1>1. CASE x \in S
  <2>1. S = {x}
    BY <1>1
  <2> QED
    BY <1>1, <2>1, FS_Singleton
<1>2. CASE x \notin S
  <2>1. S = {}
    BY <1>2
  <2> QED
    BY <1>2, <2>1, FS_EmptySet
<1> QED
  BY <1>1, <1>2

\* Every request that has reached gfs_handler is in the queue, with one worker or
\* done, and in one of these places only, however many workers there are.
THEOREM RequestsInOnePlace == Spec => []OnePlace
<1>1. IInv => OnePlace
  <2> SUFFICES ASSUME IInv, NEW r \in Requests
               PROVE  LET queued == {i \in 1..Len(queue) : queue[i] = r}
                          held == {w \in Workers : r \in item[w]}
                      IN Cardinality(queued) + Cardinality(held) + (IF r \in done THEN 1 ELSE 0)
                           = (IF r \in arrived THEN 1 ELSE 0)
    BY DEF OnePlace
  <2> DEFINE queued == {i \in 1..Len(queue) : queue[i] = r}
             held == {w \in Workers : r \in item[w]}
  <2>1. Cardinality(queued) = IF queued = {} THEN 0 ELSE 1
    <3>1. CASE queued = {}
      BY <3>1, FS_EmptySet
    <3>2. CASE queued # {}
      <4>1. PICK i \in queued : queued \subseteq {i}
        BY <3>2 DEF IInv, Disjoint
      <4> QED
        BY <3>2, <4>1, CountsOne
    <3> QED
      BY <3>1, <3>2
  <2>2. Cardinality(held) = IF held = {} THEN 0 ELSE 1
    <3>1. CASE held = {}
      BY <3>1, FS_EmptySet
    <3>2. CASE held # {}
      <4>1. PICK w \in held : held \subseteq {w}
        BY <3>2 DEF IInv, Disjoint
      <4> QED
        BY <3>2, <4>1, CountsOne
    <3> QED
      BY <3>1, <3>2
  <2>3. /\ queued # {} => held = {} /\ r \notin done /\ r \in arrived
        /\ held # {} => r \notin done /\ r \in arrived
        /\ r \in done => r \in arrived
        /\ r \in arrived => queued # {} \/ held # {} \/ r \in done
    BY DEF IInv, Disjoint, Somewhere
  <2> QED
    BY <2>1, <2>2, <2>3
<1> QED
  BY <1>1, Invariance, PTL

\* content_get and worker_thread give the right answer for every content file, path
\* and buffer size: "not found" exactly for keys that are not in the file, and the
\* announced number of bytes of every file that nobody changes.
THEOREM AnswersRight == Spec => []RightAnswer
<1>1. IInv => RightAnswer
  <2> SUFFICES ASSUME IInv, NEW r \in Requests
               PROVE  LET known == path[r] \in Range(items) IN
                      /\ header[r] = NotFound => ~known
                      /\ header[r].status = "GF_OK" => known
                      /\ r \in done /\ ~known => header[r] = NotFound
                      /\ (header[r].status = "GF_OK" /\ path[r] \notin changed) =>
                           /\ body[r] <= size[path[r]]
                           /\ header[r].len = size[path[r]]
                           /\ r \in done => body[r] = size[path[r]]
    BY DEF RightAnswer
  <2>1. AnswerOf(r) /\ NotFound.status = "GF_FILE_NOT_FOUND"
    BY HeaderFacts DEF IInv, Answers
  <2>2. body[r] \in Nat /\ size[path[r]] \in Nat
    BY DEF IInv, Types
  <2> QED
    BY <2>1, <2>2 DEF AnswerOf
<1> QED
  BY <1>1, Invariance, PTL
-----------------------------------------------------------------------------
(* DfsPart1: chunks and contents *)

Chunk == (Clients \union Files \union {None}) \X (0..NChunks)

\* A chunk, or the lack of one, that may stand at place p of a file: only the last place
\* of a whole file holds a chunk that a read returns short.
Fit(m, p) == m = Empty \/ (m \in Chunk /\ p <= NChunks /\ (m[2] = NChunks <=> p = NChunks))

FileContents == {d \in Seq(Chunk) : Len(d) <= NChunks /\ \A j \in 1..Len(d) : d[j][2] = NChunks <=> j = NChunks}

\* The number of messages that carry a file, and its first p chunks
Total(d) == IF Len(d) = NChunks THEN NChunks ELSE Len(d) + 1
First(d, p) == [j \in 1..(IF p < Len(d) THEN p ELSE Len(d)) |-> d[j]]

LEMMA ChunkIs == ASSUME NEW m \in Chunk PROVE m # Empty /\ m[2] \in Nat
  BY DEF Chunk, Empty

LEMMA HoleIs == <<None, 0>> \in Chunk /\ <<None, 0>>[2] = 0
  BY Part1Assumption DEF Chunk

LEMMA ContentsAre ==
  ASSUME NEW d \in FileContents
  PROVE  /\ d \in Seq(Chunk) /\ Len(d) \in Nat /\ Len(d) <= NChunks /\ NChunks \in Nat /\ NChunks > 0
         /\ DOMAIN d = 1..Len(d) /\ d = [j \in 1..Len(d) |-> d[j]]
         /\ \A j \in 1..Len(d) : d[j] \in Chunk /\ (d[j][2] = NChunks <=> j = NChunks)
  BY Part1Assumption, LenProperties, ElementOfSeq DEF FileContents

LEMMA MakeContents ==
  ASSUME NEW n \in Nat, n <= NChunks, NEW d, d = [j \in 1..n |-> d[j]],
         \A j \in 1..n : d[j] \in Chunk /\ (d[j][2] = NChunks <=> j = NChunks)
  PROVE  d \in FileContents /\ Len(d) = n
<1>1. d \in [1..n -> Chunk]
  OBVIOUS
<1>2. d \in Seq(Chunk) /\ Len(d) = n
  BY <1>1, SeqDef, LenProperties
<1> QED
  BY <1>2 DEF FileContents

LEMMA NothingIs == << >> \in FileContents /\ Len(<< >>) = 0
<1>1. << >> \in Seq(Chunk) /\ Len(<< >>) = 0
  BY EmptySeq
<1> QED
  BY <1>1, Part1Assumption DEF FileContents

LEMMA WholeIs ==
  ASSUME NEW v \in Clients \union Files
  PROVE  Whole(v) \in FileContents
<1>1. Whole(v) = [j \in 1..NChunks |-> Whole(v)[j]] /\ NChunks \in Nat
  BY Part1Assumption DEF Whole
<1>2. ASSUME NEW j \in 1..NChunks PROVE Whole(v)[j] \in Chunk /\ (Whole(v)[j][2] = NChunks <=> j = NChunks)
  <2>1. Whole(v)[j] = <<v, j>>
    BY DEF Whole
  <2>2. j \in 0..NChunks
    BY <1>1
  <2> QED
    BY <2>1, <2>2 DEF Chunk
<1> QED
  BY <1>1, <1>2, MakeContents

LEMMA ReadIs ==
  ASSUME NEW d \in FileContents, NEW p \in Nat
  PROVE  /\ ReadAt(d, p) \in Chunk \union {Empty} /\ Fit(ReadAt(d, p), p + 1)
         /\ ReadAt(d, p) = Empty <=> p >= Len(d)
         /\ p <= Len(d) /\ p < NChunks =>
              /\ Short(ReadAt(d, p)) => p + 1 = Total(d)
              /\ ~Short(ReadAt(d, p)) => p + 1 <= Len(d) /\ p + 1 < NChunks
<1>1. /\ Len(d) \in Nat /\ Len(d) <= NChunks /\ NChunks \in Nat
      /\ \A j \in 1..Len(d) : d[j] \in Chunk /\ (d[j][2] = NChunks <=> j = NChunks)
  BY ContentsAre
<1>2. CASE p < Len(d)
  <2>1. ReadAt(d, p) = d[p + 1] /\ p + 1 \in 1..Len(d)
    BY <1>1, <1>2 DEF ReadAt
  <2>2. d[p + 1] \in Chunk /\ (d[p + 1][2] = NChunks <=> p + 1 = NChunks) /\ d[p + 1] # Empty
    BY <1>1, <2>1, ChunkIs
  <2>3. p + 1 <= NChunks /\ p + 1 <= Len(d)
    BY <1>1, <2>1
  <2>4. Short(d[p + 1]) <=> p + 1 = NChunks
    BY <2>2 DEF Short
  <2>5. p + 1 = NChunks => p + 1 = Total(d)
    BY <1>1, <2>3 DEF Total
  <2> QED
    BY <1>1, <1>2, <2>1, <2>2, <2>3, <2>4, <2>5 DEF Fit
<1>3. CASE p >= Len(d)
  <2>1. ReadAt(d, p) = Empty /\ Short(Empty)
    BY <1>1, <1>3 DEF ReadAt, Short
  <2>2. p <= Len(d) /\ p < NChunks => p + 1 = Total(d)
    BY <1>1, <1>3 DEF Total
  <2> QED
    BY <1>3, <2>1, <2>2 DEF Fit
<1> QED
  BY <1>1, <1>2, <1>3

LEMMA WriteIs ==
  ASSUME NEW d \in FileContents, NEW p \in Nat, NEW m, Fit(m, p + 1)
  PROVE  WriteAt(d, p, m) \in FileContents
<1>1. CASE m = Empty
  BY <1>1 DEF WriteAt
<1>2. CASE m # Empty
  <2> DEFINE n == IF p >= Len(d) THEN p + 1 ELSE Len(d)
             w == [j \in 1..n |-> IF j = p + 1 THEN m ELSE IF j <= Len(d) THEN d[j] ELSE <<None, 0>>]
  <2>1. WriteAt(d, p, m) = w
    BY <1>2 DEF WriteAt
  <2>2. /\ Len(d) \in Nat /\ Len(d) <= NChunks /\ NChunks \in Nat /\ NChunks > 0
        /\ \A j \in 1..Len(d) : d[j] \in Chunk /\ (d[j][2] = NChunks <=> j = NChunks)
    BY ContentsAre
  <2>3. m \in Chunk /\ p + 1 <= NChunks /\ (m[2] = NChunks <=> p + 1 = NChunks)
    BY <1>2 DEF Fit
  <2>4. n \in Nat /\ n <= NChunks /\ (n = p + 1 \/ n = Len(d))
    BY <2>2, <2>3
  <2>5. ASSUME NEW j \in 1..n PROVE w[j] \in Chunk /\ (w[j][2] = NChunks <=> j = NChunks)
    <3>1. CASE j = p + 1
      BY <2>3, <3>1
    <3>2. CASE j # p + 1 /\ j <= Len(d)
      <4>1. w[j] = d[j] /\ j \in 1..Len(d)
        BY <2>2, <3>2
      <4> QED
        BY <2>2, <4>1
    <3>3. CASE j # p + 1 /\ ~(j <= Len(d))
      <4>1. w[j] = <<None, 0>>
        BY <3>3
      <4>2. j < NChunks
        BY <2>2, <2>3, <2>4, <3>3
      <4> QED
        BY <2>2, <4>1, <4>2, HoleIs
    <3> QED
      BY <3>1, <3>2, <3>3
  <2>6. w = [j \in 1..n |-> w[j]]
    OBVIOUS
  <2> HIDE DEF n, w
  <2> QED
    BY <2>1, <2>4, <2>5, <2>6, MakeContents
<1> QED
  BY <1>1, <1>2

LEMMA FirstIs ==
  ASSUME NEW d \in FileContents, NEW p \in Nat
  PROVE  /\ p >= Len(d) => First(d, p) = d
         /\ p = 0 => First(d, p) = << >>
         /\ WriteAt(First(d, p), p, ReadAt(d, p)) = First(d, p + 1)
<1>1. /\ Len(d) \in Nat /\ Len(d) <= NChunks /\ NChunks \in Nat /\ d = [j \in 1..Len(d) |-> d[j]]
      /\ \A j \in 1..Len(d) : d[j] \in Chunk /\ (d[j][2] = NChunks <=> j = NChunks)
  BY ContentsAre
<1>2. ASSUME NEW q \in Nat, q >= Len(d) PROVE First(d, q) = d
  BY <1>1, <1>2 DEF First
<1>3. p = 0 => First(d, p) = << >>
  <2>1. SUFFICES ASSUME p = 0 PROVE First(d, p) = << >>
    OBVIOUS
  <2>2. First(d, p) = [j \in 1..0 |-> d[j]]
    BY <1>1, <2>1 DEF First
  <2>3. [j \in 1..0 |-> d[j]] \in Seq(Chunk) /\ Len([j \in 1..0 |-> d[j]]) = 0
    <3>1. [j \in 1..0 |-> d[j]] \in [1..0 -> Chunk]
      OBVIOUS
    <3> QED
      BY <3>1, SeqDef, LenProperties
  <2> QED
    BY <2>2, <2>3, EmptySeq
<1>4. CASE p >= Len(d)
  <2>1. ReadAt(d, p) = Empty
    BY <1>1, <1>4 DEF ReadAt
  <2>2. First(d, p) = d /\ First(d, p + 1) = d
    BY <1>1, <1>2, <1>4
  <2> QED
    BY <1>2, <1>3, <1>4, <2>1, <2>2 DEF WriteAt
<1>5. CASE p < Len(d)
  <2> DEFINE e == First(d, p)
  <2>1. e = [j \in 1..p |-> d[j]]
    BY <1>1, <1>5 DEF First
  <2>2. Len(e) = p
    <3>1. e \in [1..p -> Chunk]
      BY <1>1, <1>5, <2>1
    <3> QED
      BY <3>1, SeqDef, LenProperties
  <2>3. ReadAt(d, p) = d[p + 1] /\ d[p + 1] # Empty
    <3>1. p + 1 \in 1..Len(d)
      BY <1>1, <1>5
    <3> QED
      BY <1>1, <1>5, <3>1, ChunkIs DEF ReadAt
  <2>4. WriteAt(e, p, d[p + 1]) = [j \in 1..(p + 1) |-> IF j = p + 1 THEN d[p + 1] ELSE IF j <= p THEN e[j] ELSE <<None, 0>>]
    BY <2>2, <2>3 DEF WriteAt
  <2>5. \A j \in 1..(p + 1) : (IF j = p + 1 THEN d[p + 1] ELSE IF j <= p THEN e[j] ELSE <<None, 0>>) = d[j]
    BY <2>1
  <2>6. First(d, p + 1) = [j \in 1..(p + 1) |-> d[j]]
    BY <1>1, <1>5 DEF First
  <2> HIDE DEF e
  <2>7. WriteAt(e, p, d[p + 1]) = First(d, p + 1)
    BY <2>4, <2>5, <2>6
  <2> QED
    BY <1>1, <1>3, <1>5, <2>3, <2>7 DEF e
<1> QED
  BY <1>1, <1>4, <1>5
-----------------------------------------------------------------------------
(* DfsPart1: the inductive invariant *)

ClientPC == {"idle", "send", "recv", "wait"}
HandlerPC == {"none", "first", "open", "firstwrite", "write", "read", "push", "remove", "done"}
Handlers == [pc : HandlerPC, ino : Inodes \union {None}, pos : Nat, buf : Chunk \union {Empty}]

Part1Types ==
  /\ cli \in [Clients -> [pc : ClientPC, n : 0..MaxCalls, pos : Nat,
                          status : {"none", "ok", "notfound", "deadline", "cancelled", "killed"}]]
  /\ local \in [Clients -> [Names -> FileContents \union {Missing}]]
  /\ call \in [Calls -> [cmd : {"none", "store", "fetch", "delete", "list", "stat"}, name : Names \union {None}]]
  /\ over \in [Calls -> {"no", "deadline", "killed"}]
  /\ stream \in [Calls -> Seq(Chunk \union {Empty})]
  /\ shut \in [Calls -> BOOLEAN]
  /\ reply \in [Calls -> {"none", "ok", "notfound", "deadline"}]
  /\ srv \in [Calls -> Handlers]
  /\ dir \in [Files -> Inodes \union {None}]
  /\ disk \in [Inodes -> FileContents]
  /\ writers \in [Inodes -> SUBSET Calls]
  /\ seen \in [Calls -> FileContents \union {None}]

\* A call is made when its number comes, and what is not made yet has left no trace.
Made(k) ==
  /\ k[2] > cli[k[1]].n <=> call[k].cmd = "none"
  /\ call[k].cmd = "none" => over[k] = "no" /\ stream[k] = << >> /\ ~shut[k] /\ srv[k].pc = "none"
  /\ call[k].cmd \in {"store", "fetch"} => call[k].name \in Names

\* Which handler does what, and what it has of the file.
Serving(k) ==
  /\ srv[k].pc \in {"first", "open", "firstwrite", "write"} => call[k].cmd = "store"
  /\ srv[k].pc \in {"read", "push"} => call[k].cmd = "fetch"
  /\ srv[k].pc = "remove" => call[k].cmd = "delete"
  /\ srv[k].pc \in {"none", "first", "open", "remove"} => srv[k].ino = None /\ srv[k].pos = 0 /\ srv[k].buf = Empty
  /\ srv[k].pc = "none" => seen[k] = None
  /\ srv[k].pc = "firstwrite" => srv[k].pos = 0 /\ srv[k].buf = Empty
  /\ reply[k] # "none" <=> srv[k].pc = "done"

\* StoreFile has its file open, or may come to have it
Storing(k) ==
  /\ call[k].cmd = "store"
  /\ \/ srv[k].pc \in {"none", "first", "open"}
     \/ srv[k].pc \in {"firstwrite", "write"} /\ srv[k].ino # None

\* Messages come in the order of the file, the short one last, and the ofstream keeps
\* only the last one.
Flow(k) ==
  Storing(k) =>
    /\ \A j \in 1..Len(stream[k]) : Fit(stream[k][j], srv[k].pos + j) /\ (Short(stream[k][j]) => j = Len(stream[k]))
    /\ Fit(srv[k].buf, srv[k].pos + 1)
    /\ srv[k].buf # Empty => stream[k] = << >>

\* FetchFile reads what it opened, as long as nobody writes to it.
Reading(k) ==
  srv[k].pc \in {"read", "push"} =>
    /\ seen[k] # None => srv[k].ino # None /\ disk[srv[k].ino] = seen[k]
    /\ srv[k].ino = None => srv[k].buf = Empty
    /\ srv[k].ino # None => Fit(srv[k].buf, srv[k].pos + 1)
    /\ srv[k].pc = "read" => srv[k].buf = Empty

CallOK(k) == Made(k) /\ Serving(k) /\ Flow(k) /\ Reading(k)

\* Every store that has an inode open is among its writers.
Opened == \A i \in Inodes : i # None => OpenStores(i) \subseteq writers[i]

Active(c) == ~At(c, "idle") \/ cli[c].status = "ok"
Mine(c) == local[c][call[Current(c)].name]

Working(c) ==
  /\ Active(c) => cli[c].n > 0
  /\ At(c, "send") => call[Current(c)].cmd = "store"
  /\ At(c, "recv") => call[Current(c)].cmd = "fetch"
  /\ cli[c].status = "ok" => At(c, "idle") /\ reply[Current(c)] = "ok"
  /\ At(c, "wait") /\ call[Current(c)].cmd = "fetch" /\ ~Cancelled(Current(c)) => reply[Current(c)] # "none"

\* What a store has sent, and what of it the handler has received and written
Sent(c) ==
  LET k == Current(c) IN
  (~At(c, "idle") /\ call[k].cmd = "store") =>
    /\ Mine(c) \in FileContents
    /\ At(c, "send") =>
         cli[c].pos <= Len(Mine(c)) /\ cli[c].pos < NChunks /\ ~shut[k] /\ (~Cancelled(k) => srv[k].pc # "done")
    /\ At(c, "wait") => cli[c].pos = Total(Mine(c))
    /\ (~Cancelled(k) /\ Storing(k)) =>
         /\ \A j \in 1..Len(stream[k]) : stream[k][j] = ReadAt(Mine(c), srv[k].pos + j - 1)
         /\ \/ srv[k].pos + Len(stream[k]) = cli[c].pos /\ srv[k].buf = Empty
            \/ /\ At(c, "wait") /\ stream[k] = << >>
               /\ srv[k].pos + 1 = cli[c].pos /\ srv[k].buf = ReadAt(Mine(c), srv[k].pos)
         /\ (srv[k].ino # None /\ writers[srv[k].ino] = {k}) => disk[srv[k].ino] = First(Mine(c), srv[k].pos)

\* The call has returned OK, or will
Good(c) ==
  \/ At(c, "idle") /\ cli[c].status = "ok"
  \/ At(c, "wait") /\ ~Cancelled(Current(c)) /\ reply[Current(c)] = "ok"

Stored(c) ==
  LET k == Current(c)
      i == srv[k].ino
  IN (Good(c) /\ call[k].cmd = "store" /\ i # None /\ writers[i] = {k}) => disk[i] = Mine(c)

\* What a fetch has received, and what is under way to it
Received(c) ==
  LET k == Current(c)
      M == stream[k]
  IN At(c, "recv") =>
       /\ Mine(c) \in FileContents
       /\ \A j \in 1..Len(M) : Fit(M[j], cli[c].pos + j) /\ (M[j] = Empty => \A l \in j..Len(M) : M[l] = Empty)
       /\ (~Cancelled(k) /\ srv[k].pc = "none") => M = << >> /\ cli[c].pos = 0 /\ Mine(c) = << >>
       /\ (~Cancelled(k) /\ srv[k].pc \in {"read", "push"} /\ srv[k].ino = None) => \A j \in 1..Len(M) : M[j] = Empty
       /\ (~Cancelled(k) /\ srv[k].pc \in {"read", "push"} /\ srv[k].ino # None) =>
            srv[k].pos = cli[c].pos + Len(M) /\ \A j \in 1..Len(M) : M[j] # Empty

\* The same for a file nobody has written to since the handler opened it
Fetching(c) ==
  LET k == Current(c)
      M == stream[k]
  IN (At(c, "recv") /\ ~Cancelled(k) /\ seen[k] # None) =>
       /\ cli[c].pos <= Len(seen[k]) /\ Mine(c) = First(seen[k], cli[c].pos)
       /\ \A j \in 1..Len(M) : M[j] = ReadAt(seen[k], cli[c].pos + j - 1)
       /\ srv[k].pc \in {"read", "push"} => srv[k].pos <= Len(seen[k]) /\ srv[k].pos < NChunks
       /\ srv[k].pc = "push" => srv[k].buf = ReadAt(seen[k], srv[k].pos)
       /\ srv[k].pc = "done" => cli[c].pos + Len(M) = Total(seen[k]) \/ (M = << >> /\ cli[c].pos = Len(seen[k]))

Fetched(c) ==
  LET k == Current(c) IN
  ((Good(c) \/ (At(c, "wait") /\ ~Cancelled(k))) /\ call[k].cmd = "fetch" /\ seen[k] # None) => Mine(c) = seen[k]

ClientOK(c) == Working(c) /\ Sent(c) /\ Stored(c) /\ Received(c) /\ Fetching(c) /\ Fetched(c)

Part1Inv == Part1Types /\ Opened /\ (\A k \in Calls : CallOK(k)) /\ \A c \in Clients : ClientOK(c)
-----------------------------------------------------------------------------
(* Who is not involved in a step keeps what it has *)

LEMMA CurrentIs ==
  ASSUME Part1Types, NEW c \in Clients
  PROVE  /\ Current(c)[1] = c /\ Current(c)[2] = cli[c].n /\ cli[c].n \in Nat
         /\ cli[c].n > 0 => Current(c) \in Calls
         /\ \A d \in Clients : Current(d) = Current(c) => d = c
  BY DEF Part1Types, Current, Calls

LEMMA SameClient ==
  ASSUME NEW c \in Clients, ClientOK(c), cli'[c] = cli[c], local'[c] = local[c],
         NEW k, k = Current(c),
         cli[c].n > 0 =>
           /\ call'[k] = call[k] /\ over'[k] = over[k] /\ stream'[k] = stream[k] /\ shut'[k] = shut[k]
           /\ reply'[k] = reply[k] /\ srv'[k] = srv[k] /\ (seen'[k] = seen[k] \/ seen'[k] = None)
           /\ (srv[k].ino # None /\ writers'[srv[k].ino] = {k}) =>
                writers[srv[k].ino] = {k} /\ disk'[srv[k].ino] = disk[srv[k].ino]
  PROVE  ClientOK(c)'
<1>1. Current(c)' = k /\ (\A p : At(c, p)' = At(c, p)) /\ Active(c)' = Active(c) /\ cli'[c].n = cli[c].n
  BY DEF Current, At, Active
<1>2. CASE ~Active(c)
  BY <1>1, <1>2 DEF ClientOK, Working, Sent, Stored, Received, Fetching, Fetched, Good, Active, At
<1>3. CASE Active(c)
  <2>1. cli[c].n > 0
    BY <1>3 DEF ClientOK, Working
  <2>2. /\ call'[k] = call[k] /\ over'[k] = over[k] /\ stream'[k] = stream[k] /\ shut'[k] = shut[k]
        /\ reply'[k] = reply[k] /\ srv'[k] = srv[k] /\ (seen'[k] = seen[k] \/ seen'[k] = None)
        /\ (srv[k].ino # None /\ writers'[srv[k].ino] = {k}) =>
             writers[srv[k].ino] = {k} /\ disk'[srv[k].ino] = disk[srv[k].ino]
    BY <2>1
  <2>3. Mine(c)' = Mine(c) /\ Cancelled(k)' = Cancelled(k) /\ Storing(k)' = Storing(k) /\ Good(c)' = Good(c)
    BY <1>1, <2>2 DEF Mine, Cancelled, Storing, Good, At
  <2>4. Working(c)'
    BY <1>1, <2>2, <2>3 DEF ClientOK, Working
  <2>5. Sent(c)'
    BY <1>1, <2>2, <2>3 DEF ClientOK, Sent
  <2>6. Stored(c)'
    BY <1>1, <2>2, <2>3 DEF ClientOK, Stored
  <2>7. Received(c)'
    BY <1>1, <2>2, <2>3 DEF ClientOK, Received
  <2>8. Fetching(c)'
    BY <1>1, <2>2, <2>3 DEF ClientOK, Fetching
  <2>9. Fetched(c)'
    BY <1>1, <2>2, <2>3 DEF ClientOK, Fetched
  <2> QED
    BY <2>4, <2>5, <2>6, <2>7, <2>8, <2>9 DEF ClientOK
<1> QED
  BY <1>2, <1>3

LEMMA SameCall ==
  ASSUME NEW k \in Calls, CallOK(k),
         k[2] > cli'[k[1]].n <=> k[2] > cli[k[1]].n,
         call'[k] = call[k], over'[k] = over[k], stream'[k] = stream[k], shut'[k] = shut[k],
         reply'[k] = reply[k], srv'[k] = srv[k], seen'[k] = seen[k] \/ seen'[k] = None,
         (srv[k].pc \in {"read", "push"} /\ srv[k].ino # None /\ seen'[k] # None) =>
           disk'[srv[k].ino] = disk[srv[k].ino]
  PROVE  CallOK(k)'
<1>1. Made(k)'
  BY DEF CallOK, Made
<1>2. Serving(k)'
  BY DEF CallOK, Serving
<1>3. Flow(k)'
  BY DEF CallOK, Flow, Storing
<1>4. Reading(k)'
  BY DEF CallOK, Reading
<1> QED
  BY <1>1, <1>2, <1>3, <1>4 DEF CallOK

LEMMA ServeFrame ==
  ASSUME Part1Inv, NEW k \in Calls, UNCHANGED <<local, cli, call, over, shut>>, Part1Types',
         \A j \in Calls : j # k => stream'[j] = stream[j] /\ reply'[j] = reply[j] /\ srv'[j] = srv[j],
         \A i \in Inodes : k \notin writers'[i] => writers'[i] = writers[i] /\ disk'[i] = disk[i],
         \A j \in Calls : j # k => seen'[j] = seen[j] \/ seen'[j] = None,
         \A j \in Calls : (j # k /\ srv[j].pc \in {"read", "push"} /\ srv[j].ino # None /\ seen'[j] # None) =>
           disk'[srv[j].ino] = disk[srv[j].ino],
         Opened', CallOK(k)', \A c \in Clients : Current(c) = k => ClientOK(c)'
  PROVE  Part1Inv'
<1>1. ASSUME NEW j \in Calls, j # k PROVE CallOK(j)'
  <2>1. CallOK(j)
    BY DEF Part1Inv
  <2> QED
    BY <1>1, <2>1, SameCall
<1>2. ASSUME NEW c \in Clients, Current(c) # k PROVE ClientOK(c)'
  <2>1. ClientOK(c) /\ Part1Types
    BY DEF Part1Inv
  <2> DEFINE j == Current(c)
  <2>2. ASSUME cli[c].n > 0
        PROVE  /\ call'[j] = call[j] /\ over'[j] = over[j] /\ stream'[j] = stream[j] /\ shut'[j] = shut[j]
               /\ reply'[j] = reply[j] /\ srv'[j] = srv[j] /\ (seen'[j] = seen[j] \/ seen'[j] = None)
               /\ (srv[j].ino # None /\ writers'[srv[j].ino] = {j}) =>
                    writers[srv[j].ino] = {j} /\ disk'[srv[j].ino] = disk[srv[j].ino]
    <3>1. j \in Calls
      BY <2>1, <2>2, CurrentIs
    <3>2. srv[j].ino # None => srv[j].ino \in Inodes
      BY <2>1, <3>1 DEF Part1Types, Handlers
    <3> HIDE DEF j
    <3> QED
      BY <1>2, <3>1, <3>2 DEF j
  <2> HIDE DEF j
  <2> QED
    BY <2>1, <2>2, SameClient DEF j
<1> QED
  BY <1>1, <1>2 DEF Part1Inv

LEMMA ClientFrame ==
  ASSUME Part1Inv, NEW c \in Clients, NEW k \in Calls, k[1] = c, Part1Types',
         UNCHANGED <<reply, srv, dir, disk, writers, seen>>,
         \A d \in Clients : d # c => cli'[d] = cli[d] /\ local'[d] = local[d],
         \A j \in Calls : j # k => call'[j] = call[j] /\ over'[j] = over[j] /\ stream'[j] = stream[j] /\ shut'[j] = shut[j],
         \A j \in Calls : (j # k /\ j[1] = c) => (j[2] > cli'[c].n <=> j[2] > cli[c].n),
         CallOK(k)', ClientOK(c)'
  PROVE  Part1Inv'
<1>1. ASSUME NEW j \in Calls, j # k PROVE CallOK(j)'
  <2>1. CallOK(j) /\ j[1] \in Clients
    BY DEF Part1Inv, Calls
  <2>2. j[2] > cli'[j[1]].n <=> j[2] > cli[j[1]].n
    BY <1>1, <2>1
  <2> QED
    BY <1>1, <2>1, <2>2, SameCall
<1>2. ASSUME NEW d \in Clients, d # c PROVE ClientOK(d)'
  <2>1. ClientOK(d) /\ Part1Types
    BY DEF Part1Inv
  <2> DEFINE j == Current(d)
  <2>2. j # k /\ (cli[d].n > 0 => j \in Calls)
    BY <1>2, <2>1, CurrentIs
  <2>3. cli[d].n > 0 => call'[j] = call[j] /\ over'[j] = over[j] /\ stream'[j] = stream[j] /\ shut'[j] = shut[j]
    BY <2>2
  <2> HIDE DEF j
  <2> QED
    BY <1>2, <2>1, <2>2, <2>3, SameClient DEF j
<1>3. Opened'
  BY DEF Part1Inv, Opened, OpenStores
<1> QED
  BY <1>1, <1>2, <1>3 DEF Part1Inv
-----------------------------------------------------------------------------
(* The client of a call whose handler takes a step *)

\* The handler of a call that has returned OK has ended.
LEMMA NotYetOK ==
  ASSUME Part1Inv, NEW c \in Clients, NEW k \in Calls, k = Current(c), srv[k].pc # "done"
  PROVE  reply[k] = "none" /\ cli[c].status # "ok" /\ ~(At(c, "wait") /\ call[k].cmd = "fetch" /\ ~Cancelled(k))
<1>1. Serving(k) /\ Working(c)
  BY DEF Part1Inv, CallOK, ClientOK
<1> QED
  BY <1>1 DEF Serving, Working

\* A call that is over for the client, or that is no store and no fetch
LEMMA OtherClient ==
  ASSUME Part1Inv, NEW c \in Clients, NEW k \in Calls, k = Current(c), srv[k].pc # "done",
         UNCHANGED <<local, cli, call, over, shut>>,
         Cancelled(k) \/ call[k].cmd \notin {"store", "fetch"},
         stream'[k] = stream[k] \/ call[k].cmd = "store"
  PROVE  ClientOK(c)'
<1>1. /\ k = Current(c)' /\ (\A p : At(c, p)' <=> At(c, p)) /\ Mine(c)' = Mine(c)
      /\ (Cancelled(k)' <=> Cancelled(k)) /\ call'[k] = call[k] /\ cli'[c] = cli[c] /\ shut'[k] = shut[k]
  BY DEF Current, At, Mine, Cancelled
<1>2. cli[c].status # "ok" /\ ~(At(c, "wait") /\ call[k].cmd = "fetch" /\ ~Cancelled(k))
  BY NotYetOK
<1>3. ClientOK(c)
  BY DEF Part1Inv
<1>4. Good(c)' => ~Cancelled(k) /\ call[k].cmd \notin {"store", "fetch"}
  BY <1>1, <1>2 DEF Good
<1>5. Working(c)'
  BY <1>1, <1>2, <1>3 DEF ClientOK, Working, Active
<1>6. Sent(c)'
  BY <1>1, <1>3 DEF ClientOK, Sent
<1>7. Stored(c)'
  BY <1>1, <1>4 DEF Stored
<1>8. Received(c)' /\ Fetching(c)'
  <2>1. At(c, "recv") => call[k].cmd = "fetch" /\ Cancelled(k) /\ stream'[k] = stream[k]
    BY <1>3 DEF ClientOK, Working
  <2> QED
    BY <1>1, <1>3, <2>1 DEF ClientOK, Received, Fetching
<1>9. Fetched(c)'
  BY <1>1, <1>2, <1>4 DEF Fetched
<1> QED
  BY <1>5, <1>6, <1>7, <1>8, <1>9 DEF ClientOK

\* A store under way
LEMMA StoreClient ==
  ASSUME Part1Inv, NEW c \in Clients, NEW k \in Calls, k = Current(c), srv[k].pc # "done",
         UNCHANGED <<local, cli, call, over, shut>>,
         call[k].cmd = "store", ~Cancelled(k),
         Mine(c) \in FileContents /\ At(c, "send") => srv'[k].pc # "done",
         (Mine(c) \in FileContents /\ ~At(c, "idle") /\ Storing(k)') =>
           /\ \A j \in 1..Len(stream'[k]) : stream'[k][j] = ReadAt(Mine(c), srv'[k].pos + j - 1)
           /\ \/ srv'[k].pos + Len(stream'[k]) = cli[c].pos /\ srv'[k].buf = Empty
              \/ /\ At(c, "wait") /\ stream'[k] = << >>
                 /\ srv'[k].pos + 1 = cli[c].pos /\ srv'[k].buf = ReadAt(Mine(c), srv'[k].pos)
           /\ (srv'[k].ino # None /\ writers'[srv'[k].ino] = {k}) => disk'[srv'[k].ino] = First(Mine(c), srv'[k].pos),
         (Mine(c) \in FileContents /\ At(c, "wait") /\ reply'[k] = "ok" /\ srv'[k].ino # None /\ writers'[srv'[k].ino] = {k}) =>
           disk'[srv'[k].ino] = Mine(c)
  PROVE  ClientOK(c)'
<1>1. /\ k = Current(c)' /\ (\A p : At(c, p)' <=> At(c, p)) /\ Mine(c)' = Mine(c)
      /\ (Cancelled(k)' <=> Cancelled(k)) /\ call'[k] = call[k] /\ cli'[c] = cli[c] /\ shut'[k] = shut[k]
  BY DEF Current, At, Mine, Cancelled
<1>2. cli[c].status # "ok"
  BY NotYetOK
<1>3. ClientOK(c)
  BY DEF Part1Inv
<1>4. Good(c)' => At(c, "wait") /\ reply'[k] = "ok"
  BY <1>1, <1>2 DEF Good
<1>5. ~At(c, "idle") => Mine(c) \in FileContents
  BY <1>3 DEF ClientOK, Sent
<1>6. Working(c)'
  BY <1>1, <1>2, <1>3 DEF ClientOK, Working, Active
<1>7. Sent(c)'
  BY <1>1, <1>3, <1>5 DEF ClientOK, Sent, At
<1>8. Stored(c)'
  BY <1>1, <1>4, <1>5 DEF Stored, At
<1>9. Received(c)' /\ Fetching(c)'
  BY <1>1, <1>3 DEF ClientOK, Working, Received, Fetching
<1>10. Fetched(c)'
  BY <1>1 DEF Fetched
<1> QED
  BY <1>6, <1>7, <1>8, <1>9, <1>10 DEF ClientOK

\* A fetch under way
LEMMA FetchClient ==
  ASSUME Part1Inv, NEW c \in Clients, NEW k \in Calls, k = Current(c), srv[k].pc # "done",
         UNCHANGED <<local, cli, call, over, shut>>,
         call[k].cmd = "fetch", ~Cancelled(k),
         At(c, "recv") => Received(c)' /\ Fetching(c)'
  PROVE  ClientOK(c)'
<1>1. /\ k = Current(c)' /\ (\A p : At(c, p)' <=> At(c, p)) /\ Mine(c)' = Mine(c)
      /\ (Cancelled(k)' <=> Cancelled(k)) /\ call'[k] = call[k] /\ cli'[c] = cli[c] /\ shut'[k] = shut[k]
  BY DEF Current, At, Mine, Cancelled
<1>2. cli[c].status # "ok" /\ ~At(c, "wait")
  BY NotYetOK
<1>3. ClientOK(c)
  BY DEF Part1Inv
<1>4. ~Good(c)'
  BY <1>1, <1>2 DEF Good
<1>5. Working(c)'
  BY <1>1, <1>2, <1>3 DEF ClientOK, Working, Active
<1>6. Sent(c)' /\ Stored(c)'
  BY <1>1 DEF Sent, Stored
<1>7. Received(c)' /\ Fetching(c)'
  BY <1>1 DEF Received, Fetching
<1>8. Fetched(c)'
  BY <1>1, <1>2, <1>4 DEF Fetched
<1> QED
  BY <1>5, <1>6, <1>7, <1>8 DEF ClientOK
-----------------------------------------------------------------------------
(* The handlers *)

\* A step that opens, writes and closes nothing
LEMMA Quiet ==
  ASSUME Part1Inv, NEW k \in Calls, UNCHANGED <<local, cli, call, over, shut>>, Part1Types',
         \A j \in Calls : j # k => stream'[j] = stream[j] /\ reply'[j] = reply[j] /\ srv'[j] = srv[j] /\ seen'[j] = seen[j],
         UNCHANGED <<disk, writers>>,
         srv'[k].pc \in {"firstwrite", "write"} =>
           srv'[k].ino = None \/ (srv[k].pc \in {"firstwrite", "write"} /\ srv'[k].ino = srv[k].ino),
         CallOK(k)', \A c \in Clients : Current(c) = k => ClientOK(c)'
  PROVE  Part1Inv'
<1>1. Opened'
  <2>1. ASSUME NEW i \in Inodes, i # None, NEW j \in OpenStores(i)' PROVE j \in writers'[i]
    <3>1. j \in Calls /\ srv'[j].pc \in {"firstwrite", "write"} /\ srv'[j].ino = i
      BY <2>1 DEF OpenStores
    <3>2. j \in OpenStores(i)
      BY <2>1, <3>1 DEF OpenStores
    <3> QED
      BY <2>1, <3>2 DEF Part1Inv, Opened
  <2> QED
    BY <2>1 DEF Opened
<1> QED
  BY <1>1, ServeFrame

LEMMA AnswerIs ==
  ASSUME Part1Types, NEW k \in Calls, NEW s \in {"none", "ok", "notfound", "deadline"}, Answer(k, s)
  PROVE  /\ srv'[k].pc = "done" /\ srv'[k].ino = srv[k].ino /\ srv'[k].pos = 0 /\ srv'[k].buf = Empty /\ reply'[k] = s
         /\ \A j \in Calls : j # k => reply'[j] = reply[j] /\ srv'[j] = srv[j]
         /\ srv' \in [Calls -> Handlers]
         /\ reply' \in [Calls -> {"none", "ok", "notfound", "deadline"}]
<1>1. srv[k] \in Handlers /\ \A j \in Calls : j # k => reply'[j] = reply[j] /\ srv'[j] = srv[j]
  BY DEF Part1Types, Answer
<1>2. srv'[k] = [pc |-> "done", ino |-> srv[k].ino, pos |-> 0, buf |-> Empty]
  BY <1>1 DEF Part1Types, Answer, Handlers
<1>3. srv'[k] \in Handlers
  BY <1>1, <1>2 DEF Handlers, HandlerPC
<1>4. srv' \in [Calls -> Handlers]
  BY <1>3 DEF Part1Types, Answer
<1> QED
  BY <1>1, <1>2, <1>4 DEF Part1Types, Answer

\* What a handler that has ended owes to nobody
LEMMA EndedCall ==
  ASSUME NEW k \in Calls, CallOK(k), call[k].cmd # "none", UNCHANGED <<cli, call>>,
         srv'[k].pc = "done", reply'[k] # "none"
  PROVE  CallOK(k)'
BY DEF CallOK, Made, Serving, Flow, Reading, Storing

LEMMA EndOther ==
  ASSUME Part1Inv, NEW k \in Calls, UNCHANGED <<local, cli, call, over, shut>>,
         NEW s \in {"ok", "notfound", "deadline"}, Answer(k, s),
         UNCHANGED <<stream, disk, writers, seen>>, dir' \in [Files -> Inodes \union {None}],
         srv[k].pc # "done", call[k].cmd # "none", Cancelled(k) \/ call[k].cmd \notin {"store", "fetch"}
  PROVE  Part1Inv'
<1>1. Part1Types /\ CallOK(k)
  BY DEF Part1Inv
<1>2. /\ srv'[k].pc = "done" /\ reply'[k] = s
      /\ \A j \in Calls : j # k => reply'[j] = reply[j] /\ srv'[j] = srv[j]
      /\ srv' \in [Calls -> Handlers] /\ reply' \in [Calls -> {"none", "ok", "notfound", "deadline"}]
  BY <1>1, AnswerIs
<1>3. Part1Types'
  BY <1>1, <1>2 DEF Part1Types
<1>4. CallOK(k)'
  BY <1>1, <1>2, EndedCall
<1>5. ASSUME NEW c \in Clients, Current(c) = k PROVE ClientOK(c)'
  BY <1>5, OtherClient
<1> QED
  BY <1>2, <1>3, <1>4, <1>5, Quiet

LEMMA GotoIs ==
  ASSUME Part1Types, NEW k \in Calls, NEW at \in HandlerPC, Goto(k, at)
  PROVE  /\ srv'[k].pc = at /\ srv'[k].ino = srv[k].ino /\ srv'[k].pos = srv[k].pos /\ srv'[k].buf = srv[k].buf
         /\ \A j \in Calls : j # k => srv'[j] = srv[j]
         /\ srv' \in [Calls -> Handlers]
<1>1. srv[k] \in Handlers /\ \A j \in Calls : j # k => srv'[j] = srv[j]
  BY DEF Part1Types, Goto
<1>2. srv'[k] = [pc |-> at, ino |-> srv[k].ino, pos |-> srv[k].pos, buf |-> srv[k].buf]
  BY <1>1 DEF Part1Types, Goto, Handlers
<1>3. srv'[k] \in Handlers
  BY <1>1, <1>2 DEF Handlers
<1>4. srv' \in [Calls -> Handlers]
  BY <1>3 DEF Part1Types, Goto
<1> QED
  BY <1>1, <1>2, <1>4

\* The steps of handlers that end without a word on the file
LEMMA EndSteps ==
  ASSUME Part1Inv, NEW k \in Calls, UNCHANGED <<local, cli, call, over, shut>>,
         TooLate(k) \/ ReadNothing(k) \/ FetchCancelled(k) \/ Remove(k) \/ ListFile(k) \/ StatusFile(k)
  PROVE  Part1Inv'
<1>1. Part1Types /\ CallOK(k)
  BY DEF Part1Inv
<1>2. Serving(k) /\ Made(k) /\ call[k].cmd \in {"none", "store", "fetch", "delete", "list", "stat"}
  BY <1>1 DEF CallOK, Part1Types
<1>3. dir \in [Files -> Inodes \union {None}]
  BY <1>1 DEF Part1Types
<1>4. CASE TooLate(k)
  BY <1>2, <1>3, <1>4, EndOther DEF TooLate, Arrives, Handler, diskVars
<1>5. CASE ReadNothing(k)
  BY <1>2, <1>3, <1>5, EndOther DEF ReadNothing, Handler, diskVars, Serving
<1>6. CASE FetchCancelled(k)
  BY <1>2, <1>3, <1>6, EndOther DEF FetchCancelled, Handler, diskVars, Serving
<1>7. CASE Remove(k)
  <2>1. dir' \in [Files -> Inodes \union {None}]
    BY <1>3, <1>7 DEF Remove
  <2> QED
    BY <1>2, <1>7, <2>1, EndOther DEF Remove, Handler, Serving
<1>8. CASE ListFile(k)
  BY <1>2, <1>3, <1>8, EndOther DEF ListFile, Arrives, Handler, diskVars
<1>9. CASE StatusFile(k)
  <2>1. PICK s \in {"ok", "notfound"} : Answer(k, s)
    BY <1>9 DEF StatusFile
  <2> QED
    BY <1>2, <1>3, <1>9, <2>1, EndOther DEF StatusFile, Arrives, Handler, diskVars
<1> QED
  BY <1>4, <1>5, <1>6, <1>7, <1>8, <1>9

LEMMA DeleteStartStep ==
  ASSUME Part1Inv, NEW k \in Calls, UNCHANGED <<local, cli, call, over, shut>>, DeleteStart(k)
  PROVE  Part1Inv'
<1>1. Part1Types /\ CallOK(k) /\ call[k].cmd = "delete" /\ srv[k].pc = "none"
  BY DEF Part1Inv, DeleteStart, Arrives, Handler
<1>2. CASE Exists(call[k].name)
  <2>1. Goto(k, "remove") /\ UNCHANGED <<reply, stream, diskVars>>
    BY <1>2 DEF DeleteStart
  <2>2. /\ srv'[k].pc = "remove" /\ srv'[k].ino = srv[k].ino /\ srv'[k].pos = srv[k].pos /\ srv'[k].buf = srv[k].buf
        /\ \A j \in Calls : j # k => srv'[j] = srv[j]
        /\ srv' \in [Calls -> Handlers]
    BY <1>1, <2>1, GotoIs DEF HandlerPC
  <2>3. Part1Types'
    BY <1>1, <2>1, <2>2 DEF Part1Types, diskVars
  <2>4. CallOK(k)'
    BY <1>1, <2>1, <2>2 DEF CallOK, Made, Serving, Flow, Reading, Storing, diskVars
  <2>5. ASSUME NEW c \in Clients, Current(c) = k PROVE ClientOK(c)'
    BY <1>1, <2>1, <2>5, OtherClient
  <2> QED
    BY <2>1, <2>2, <2>3, <2>4, <2>5, Quiet DEF diskVars
<1>3. CASE ~Exists(call[k].name)
  <2>1. dir \in [Files -> Inodes \union {None}]
    BY <1>1 DEF Part1Types
  <2> QED
    BY <1>1, <1>3, <2>1, EndOther DEF DeleteStart, diskVars
<1> QED
  BY <1>2, <1>3
-----------------------------------------------------------------------------
(* StoreFile *)

\* What the client of a store has sent, read off the invariant
LEMMA SentIs ==
  ASSUME Part1Inv, NEW c \in Clients, NEW k \in Calls, k = Current(c), call[k].cmd = "store", ~Cancelled(k),
         ~At(c, "idle"), Mine(c) \in FileContents
  PROVE  /\ At(c, "send") =>
              cli[c].pos <= Len(Mine(c)) /\ cli[c].pos < NChunks /\ ~shut[k] /\ srv[k].pc # "done"
         /\ At(c, "wait") => cli[c].pos = Total(Mine(c))
         /\ At(c, "send") \/ At(c, "wait")
         /\ Storing(k) =>
              /\ \A j \in 1..Len(stream[k]) : stream[k][j] = ReadAt(Mine(c), srv[k].pos + j - 1)
              /\ \/ srv[k].pos + Len(stream[k]) = cli[c].pos /\ srv[k].buf = Empty
                 \/ /\ At(c, "wait") /\ stream[k] = << >>
                    /\ srv[k].pos + 1 = cli[c].pos /\ srv[k].buf = ReadAt(Mine(c), srv[k].pos)
              /\ (srv[k].ino # None /\ writers[srv[k].ino] = {k}) => disk[srv[k].ino] = First(Mine(c), srv[k].pos)
<1>1. Sent(c) /\ Working(c) /\ Part1Types
  BY DEF Part1Inv, ClientOK
<1>2. At(c, "idle") \/ At(c, "send") \/ At(c, "recv") \/ At(c, "wait")
  BY <1>1 DEF Part1Types, At, ClientPC
<1>3. ~At(c, "recv")
  BY <1>1 DEF Working
<1> QED
  BY <1>1, <1>2, <1>3 DEF Sent

\* The call begins, the name has come, or there is no file to open.
LEMMA StoreGoto ==
  ASSUME Part1Inv, NEW k \in Calls, UNCHANGED <<local, cli, call, over, shut>>, call[k].cmd = "store",
         NEW at, Goto(k, at), UNCHANGED <<stream, reply, diskVars>>,
         \/ srv[k].pc = "none" /\ at = "first"
         \/ srv[k].pc = "first" /\ at = "open"
         \/ srv[k].pc = "open" /\ at = "firstwrite"
  PROVE  Part1Inv'
<1>1. Part1Types /\ CallOK(k) /\ srv[k].pc # "done" /\ at \in HandlerPC
  BY DEF Part1Inv, HandlerPC
<1>2. /\ srv'[k].pc = at /\ srv'[k].ino = srv[k].ino /\ srv'[k].pos = srv[k].pos /\ srv'[k].buf = srv[k].buf
      /\ \A j \in Calls : j # k => srv'[j] = srv[j]
      /\ srv' \in [Calls -> Handlers]
  BY <1>1, GotoIs
<1>3. Part1Types'
  BY <1>1, <1>2 DEF Part1Types, diskVars
<1>4. Storing(k) /\ srv[k].ino = None /\ srv[k].pos = 0 /\ srv[k].buf = Empty /\ reply[k] = "none"
  BY <1>1 DEF CallOK, Serving, Storing
<1>5. CallOK(k)'
  <2>1. Made(k)' /\ Serving(k)' /\ Reading(k)'
    BY <1>1, <1>2, <1>4 DEF CallOK, Made, Serving, Reading, diskVars
  <2>2. Flow(k)'
    BY <1>1, <1>2, <1>4 DEF CallOK, Flow
  <2> QED
    BY <2>1, <2>2 DEF CallOK
<1>6. ASSUME NEW c \in Clients, Current(c) = k PROVE ClientOK(c)'
  <2>1. CASE Cancelled(k)
    BY <1>1, <1>6, <2>1, OtherClient
  <2>2. CASE ~Cancelled(k)
    <3>1. srv'[k].pc # "done" /\ reply'[k] = "none" /\ stream'[k] = stream[k] /\ disk' = disk /\ writers' = writers
      BY <1>2, <1>4 DEF diskVars
    <3> QED
      BY <1>1, <1>2, <1>4, <1>6, <2>2, <3>1, SentIs, StoreClient
  <2> QED
    BY <2>1, <2>2
<1>7. srv'[k].ino = None
  BY <1>2, <1>4
<1> QED
  BY <1>2, <1>3, <1>5, <1>6, <1>7, Quiet DEF diskVars

LEMMA WrittenIs ==
  ASSUME Part1Types, NEW i \in Inodes, NEW d \in FileContents, Written(i, d)
  PROVE  /\ disk' \in [Inodes -> FileContents] /\ seen' \in [Calls -> FileContents \union {None}]
         /\ disk'[i] = d /\ \A l \in Inodes : l # i => disk'[l] = disk[l]
         /\ \A j \in Calls : /\ seen'[j] = seen[j] \/ seen'[j] = None
                             /\ srv[j].pc \notin {"read", "push"} => seen'[j] = seen[j]
                             /\ (srv[j].pc \in {"read", "push"} /\ srv[j].ino # None /\ seen'[j] # None) =>
                                  disk'[srv[j].ino] = disk[srv[j].ino]
<1>1. disk' \in [Inodes -> FileContents] /\ disk'[i] = d /\ \A l \in Inodes : l # i => disk'[l] = disk[l]
  BY DEF Part1Types, Written
<1>2. seen' \in [Calls -> FileContents \union {None}] /\ \A j \in Calls : seen'[j] = seen[j] \/ seen'[j] = None
  BY DEF Part1Types, Written
<1>3. ASSUME NEW j \in Calls, srv[j].pc \notin {"read", "push"} PROVE seen'[j] = seen[j]
  BY <1>3 DEF Written, OpenFetches
<1>4. ASSUME NEW j \in Calls, srv[j].pc \in {"read", "push"}, srv[j].ino # None, seen'[j] # None
      PROVE  disk'[srv[j].ino] = disk[srv[j].ino]
  <2>1. srv[j].ino \in Inodes
    BY <1>4 DEF Part1Types, Handlers
  <2>2. CASE srv[j].ino = i
    <3>1. j \in OpenFetches(i)
      BY <1>4, <2>2 DEF OpenFetches
    <3>2. d = disk[i]
      BY <1>4, <3>1 DEF Written
    <3> QED
      BY <1>1, <2>2, <3>2
  <2> QED
    BY <1>1, <2>1, <2>2
<1> QED
  BY <1>1, <1>2, <1>3, <1>4

LEMMA OpenTargetStep ==
  ASSUME Part1Inv, NEW k \in Calls, UNCHANGED <<local, cli, call, over, shut>>, OpenTarget(k)
  PROVE  Part1Inv'
<1> DEFINE f == call[k].name
           i == IF dir[f] = None THEN k ELSE dir[f]
<1>1. /\ Part1Types /\ CallOK(k) /\ srv[k].pc = "open" /\ f \in Files /\ dir' = [dir EXCEPT ![f] = i]
      /\ Written(i, << >>) /\ writers' = [writers EXCEPT ![i] = OpenStores(i) \union {k}]
      /\ srv' = [srv EXCEPT ![k].pc = "firstwrite", ![k].ino = i] /\ UNCHANGED <<stream, reply>>
  BY DEF Part1Inv, OpenTarget, Handler
<1>2. i \in Inodes
  BY <1>1 DEF Part1Types, Inodes
<1> HIDE DEF i
<1>3. /\ call[k].cmd = "store" /\ srv[k].pos = 0 /\ srv[k].buf = Empty /\ reply[k] = "none" /\ Storing(k)
      /\ srv[k] \in Handlers
  BY <1>1 DEF CallOK, Serving, Storing, Part1Types
<1>4. srv'[k] = [pc |-> "firstwrite", ino |-> i, pos |-> 0, buf |-> Empty] /\ \A j \in Calls : j # k => srv'[j] = srv[j]
  BY <1>1, <1>3 DEF Part1Types, Handlers
<1>5. srv' \in [Calls -> Handlers]
  <2>1. srv'[k] \in Handlers
    BY <1>2, <1>4 DEF Handlers, HandlerPC
  <2> QED
    BY <1>1, <2>1 DEF Part1Types
<1>6. /\ disk' \in [Inodes -> FileContents] /\ seen' \in [Calls -> FileContents \union {None}]
      /\ disk'[i] = << >> /\ \A l \in Inodes : l # i => disk'[l] = disk[l]
      /\ \A j \in Calls : /\ seen'[j] = seen[j] \/ seen'[j] = None
                          /\ srv[j].pc \notin {"read", "push"} => seen'[j] = seen[j]
                          /\ (srv[j].pc \in {"read", "push"} /\ srv[j].ino # None /\ seen'[j] # None) =>
                               disk'[srv[j].ino] = disk[srv[j].ino]
  BY <1>1, <1>2, NothingIs, WrittenIs
<1>7. OpenStores(i) \subseteq Calls
  BY DEF OpenStores
<1>8. writers' \in [Inodes -> SUBSET Calls] /\ writers'[i] = OpenStores(i) \union {k} /\ \A l \in Inodes : l # i => writers'[l] = writers[l]
  BY <1>1, <1>2, <1>7 DEF Part1Types
<1>9. dir' \in [Files -> Inodes \union {None}]
  BY <1>1, <1>2 DEF Part1Types
<1>10. Part1Types'
  BY <1>1, <1>5, <1>6, <1>8, <1>9 DEF Part1Types
<1>11. Opened'
  <2>1. ASSUME NEW l \in Inodes, l # None, NEW j \in OpenStores(l)' PROVE j \in writers'[l]
    <3>1. j \in Calls /\ srv'[j].pc \in {"firstwrite", "write"} /\ srv'[j].ino = l
      BY <2>1 DEF OpenStores
    <3>2. CASE j = k
      BY <1>4, <1>8, <3>1, <3>2
    <3>3. CASE j # k
      <4>1. j \in OpenStores(l)
        BY <1>4, <3>1, <3>3 DEF OpenStores
      <4>2. OpenStores(l) \subseteq writers[l]
        BY <2>1 DEF Part1Inv, Opened
      <4> QED
        BY <1>8, <2>1, <4>1, <4>2
    <3> QED
      BY <3>2, <3>3
  <2> QED
    BY <2>1 DEF Opened
<1>12. CallOK(k)'
  <2>1. Made(k)' /\ Serving(k)' /\ Reading(k)'
    BY <1>1, <1>3, <1>4 DEF CallOK, Made, Serving, Reading
  <2>2. Flow(k)'
    BY <1>1, <1>3, <1>4 DEF CallOK, Flow
  <2> QED
    BY <2>1, <2>2 DEF CallOK
<1>13. ASSUME NEW c \in Clients, Current(c) = k PROVE ClientOK(c)'
  <2>1. CASE Cancelled(k)
    BY <1>1, <1>3, <1>13, <2>1, OtherClient
  <2>2. CASE ~Cancelled(k)
    <3>1. srv'[k].pc # "done" /\ reply'[k] = "none" /\ stream'[k] = stream[k] /\ srv'[k].pos = srv[k].pos /\ srv'[k].buf = srv[k].buf
      BY <1>1, <1>3, <1>4
    <3>2. Mine(c) \in FileContents => disk'[srv'[k].ino] = First(Mine(c), srv'[k].pos)
      BY <1>4, <1>6, FirstIs
    <3>3. ASSUME Mine(c) \in FileContents, ~At(c, "idle")
          PROVE  /\ \A j \in 1..Len(stream'[k]) : stream'[k][j] = ReadAt(Mine(c), srv'[k].pos + j - 1)
                 /\ \/ srv'[k].pos + Len(stream'[k]) = cli[c].pos /\ srv'[k].buf = Empty
                    \/ /\ At(c, "wait") /\ stream'[k] = << >>
                       /\ srv'[k].pos + 1 = cli[c].pos /\ srv'[k].buf = ReadAt(Mine(c), srv'[k].pos)
      <4>1. call[k].cmd = "store" /\ Storing(k) /\ k = Current(c)
        BY <1>3, <1>13
      <4>2. /\ \A j \in 1..Len(stream[k]) : stream[k][j] = ReadAt(Mine(c), srv[k].pos + j - 1)
            /\ \/ srv[k].pos + Len(stream[k]) = cli[c].pos /\ srv[k].buf = Empty
               \/ /\ At(c, "wait") /\ stream[k] = << >>
                  /\ srv[k].pos + 1 = cli[c].pos /\ srv[k].buf = ReadAt(Mine(c), srv[k].pos)
        BY <2>2, <3>3, <4>1, SentIs
      <4> QED
        BY <3>1, <4>2
    <3>4. srv[k].pc # "done" /\ reply'[k] # "ok"
      BY <1>1, <3>1
    <3> QED
      BY <1>3, <1>13, <2>2, <3>1, <3>2, <3>3, <3>4, StoreClient
  <2> QED
    BY <2>1, <2>2
<1> QED
  BY <1>1, <1>4, <1>6, <1>8, <1>10, <1>11, <1>12, <1>13, ServeFrame

LEMMA TailIs ==
  ASSUME NEW S, NEW s \in Seq(S), s # << >>
  PROVE  /\ Tail(s) \in Seq(S) /\ Len(s) \in Nat /\ Len(s) >= 1 /\ Len(Tail(s)) = Len(s) - 1
         /\ Head(s) = s[1] /\ s[1] \in S
         /\ \A j \in 1..Len(Tail(s)) : Tail(s)[j] = s[j + 1] /\ j + 1 \in 1..Len(s)
         /\ Len(s) = 1 => Tail(s) = << >>
<1>1. Tail(s) \in Seq(S) /\ Head(s) = s[1] /\ Len(s) \in Nat /\ Len(s) >= 1 /\ Len(Tail(s)) = Len(s) - 1
  BY HeadTailProperties, LenProperties, EmptySeq
<1>2. s[1] \in S
  BY <1>1, ElementOfSeq
<1>3. \A j \in 1..Len(Tail(s)) : Tail(s)[j] = s[j + 1] /\ j + 1 \in 1..Len(s)
  BY <1>1, HeadTailProperties
<1>4. Len(s) = 1 => Tail(s) = << >>
  <2>1. Tail(s) # << >> => Len(Tail(s)) \in Nat \ {0}
    BY <1>1, EmptySeq
  <2> QED
    BY <1>1, <2>1
<1> QED
  BY <1>1, <1>2, <1>3, <1>4

\* A step that writes to a file the handler has open
LEMMA Writes ==
  ASSUME Part1Inv, NEW k \in Calls, UNCHANGED <<local, cli, call, over, shut, dir, writers>>,
         srv[k].pc \in {"firstwrite", "write"}, NEW i, i = srv[k].ino, i # None,
         NEW d \in FileContents, Written(i, d),
         \A j \in Calls : j # k => stream'[j] = stream[j] /\ reply'[j] = reply[j] /\ srv'[j] = srv[j],
         stream' \in [Calls -> Seq(Chunk \union {Empty})], reply' \in [Calls -> {"none", "ok", "notfound", "deadline"}],
         srv' \in [Calls -> Handlers], srv'[k].ino = i,
         CallOK(k)', \A c \in Clients : Current(c) = k => ClientOK(c)'
  PROVE  Part1Inv'
<1>1. Part1Types /\ i \in Inodes
  BY DEF Part1Inv, Part1Types, Handlers
<1>2. /\ disk' \in [Inodes -> FileContents] /\ seen' \in [Calls -> FileContents \union {None}]
      /\ disk'[i] = d /\ \A l \in Inodes : l # i => disk'[l] = disk[l]
      /\ \A j \in Calls : /\ seen'[j] = seen[j] \/ seen'[j] = None
                          /\ (srv[j].pc \in {"read", "push"} /\ srv[j].ino # None /\ seen'[j] # None) =>
                               disk'[srv[j].ino] = disk[srv[j].ino]
  BY <1>1, WrittenIs
<1>3. Part1Types'
  BY <1>1, <1>2 DEF Part1Types
<1>4. k \in writers[i]
  BY <1>1 DEF Part1Inv, Opened, OpenStores
<1>5. Opened'
  <2>1. ASSUME NEW l \in Inodes, l # None, NEW j \in OpenStores(l)' PROVE j \in writers'[l]
    <3>1. j \in Calls /\ srv'[j].pc \in {"firstwrite", "write"} /\ srv'[j].ino = l
      BY <2>1 DEF OpenStores
    <3>2. j \in OpenStores(l)
      BY <3>1 DEF OpenStores
    <3> QED
      BY <2>1, <3>2 DEF Part1Inv, Opened
  <2> QED
    BY <2>1 DEF Opened
<1>6. \A l \in Inodes : k \notin writers'[l] => writers'[l] = writers[l] /\ disk'[l] = disk[l]
  BY <1>2, <1>4
<1> QED
  BY <1>2, <1>3, <1>5, <1>6, ServeFrame

\* A message goes to the file, or stays in the buffer, or has nowhere to go.
LEMMA WriteChunkStep ==
  ASSUME Part1Inv, NEW k \in Calls, UNCHANGED <<local, cli, call, over, shut>>, WriteChunk(k)
  PROVE  Part1Inv'
<1> DEFINE m == Head(stream[k])
           i == srv[k].ino
           M == stream[k]
           N == Tail(stream[k])
           p == srv[k].pos
<1>1. /\ Part1Types /\ CallOK(k) /\ srv[k].pc \in {"firstwrite", "write"} /\ M # << >>
      /\ stream' = [stream EXCEPT ![k] = N] /\ UNCHANGED <<reply, dir, writers>>
  BY DEF Part1Inv, WriteChunk, Handler
<1>2. /\ M \in Seq(Chunk \union {Empty}) /\ srv[k] \in Handlers /\ p \in Nat /\ i \in Inodes \union {None}
      /\ disk \in [Inodes -> FileContents] /\ srv[k].pc # "done"
  BY <1>1 DEF Part1Types, Handlers
<1>3. call[k].cmd = "store" /\ reply[k] = "none" /\ (i # None => Storing(k)) /\ Made(k)
  BY <1>1 DEF CallOK, Serving, Storing
<1>4. /\ N \in Seq(Chunk \union {Empty}) /\ Len(M) \in Nat /\ Len(M) >= 1 /\ Len(N) = Len(M) - 1
      /\ m = M[1] /\ \A j \in 1..Len(N) : N[j] = M[j + 1] /\ j + 1 \in 1..Len(M)
      /\ Len(M) = 1 => N = << >>
  BY <1>1, <1>2, TailIs
<1>5. stream' \in [Calls -> Seq(Chunk \union {Empty})] /\ stream'[k] = N /\ \A j \in Calls : j # k => stream'[j] = stream[j]
  BY <1>1, <1>4 DEF Part1Types
<1>6. i # None => /\ \A j \in 1..Len(M) : Fit(M[j], p + j) /\ (Short(M[j]) => j = Len(M))
                  /\ srv[k].buf = Empty
  BY <1>1, <1>3 DEF CallOK, Flow
<1>7. i # None => Fit(m, p + 1) /\ (Short(m) => N = << >>)
  <2>1. 1 \in 1..Len(M)
    BY <1>4
  <2> QED
    BY <1>4, <1>6, <2>1
<1>8. ASSUME NEW c \in Clients, Current(c) = k, ~Cancelled(k), Mine(c) \in FileContents, ~At(c, "idle"), i # None
      PROVE  /\ p + Len(M) = cli[c].pos /\ p + Len(N) + 1 = cli[c].pos
             /\ m = ReadAt(Mine(c), p) /\ \A j \in 1..Len(N) : N[j] = ReadAt(Mine(c), p + 1 + j - 1)
             /\ writers[i] = {k} => disk[i] = First(Mine(c), p)
             /\ Short(m) => At(c, "wait")
  <2>1. /\ At(c, "send") => cli[c].pos <= Len(Mine(c)) /\ cli[c].pos < NChunks
        /\ At(c, "send") \/ At(c, "wait")
        /\ \A j \in 1..Len(M) : M[j] = ReadAt(Mine(c), p + j - 1)
        /\ p + Len(M) = cli[c].pos
        /\ writers[i] = {k} => disk[i] = First(Mine(c), p)
    BY <1>1, <1>3, <1>8, SentIs
  <2>2. 1 \in 1..Len(M) /\ p + 1 - 1 = p
    BY <1>2, <1>4
  <2>3. m = ReadAt(Mine(c), p)
    BY <1>4, <2>1, <2>2
  <2>4. ASSUME NEW j \in 1..Len(N) PROVE N[j] = ReadAt(Mine(c), p + 1 + j - 1)
    <3>1. p + (j + 1) - 1 = p + 1 + j - 1
      BY <1>2
    <3> QED
      BY <1>4, <2>1, <3>1
  <2>5. ASSUME Short(m), At(c, "send") PROVE FALSE
    <3>1. Len(N) = 0
      BY <1>7, <1>8, <2>5, NothingIs
    <3>2. Len(M) = 1 /\ cli[c].pos = p + 1
      BY <1>4, <2>1, <3>1
    <3>3. Len(Mine(c)) \in Nat /\ p + 1 <= Len(Mine(c)) /\ p + 1 < NChunks /\ NChunks \in Nat
      BY <1>8, <2>1, <2>5, <3>2, ContentsAre
    <3>4. p + 1 = Total(Mine(c))
      <4>1. p <= Len(Mine(c)) /\ p < NChunks
        BY <1>2, <3>3
      <4> QED
        BY <1>2, <1>8, <2>3, <2>5, <4>1, ReadIs
    <3> QED
      BY <1>2, <3>3, <3>4 DEF Total
  <2> QED
    BY <1>2, <1>4, <2>1, <2>3, <2>4, <2>5
<1> HIDE DEF m, M, N
<1>9. CASE /\ i # None /\ Written(i, WriteAt(disk[i], p, m))
           /\ srv' = [srv EXCEPT ![k].pc = "write", ![k].pos = @ + 1]
  <2>1. srv'[k] = [pc |-> "write", ino |-> i, pos |-> p + 1, buf |-> Empty] /\ \A j \in Calls : j # k => srv'[j] = srv[j]
    BY <1>1, <1>2, <1>6, <1>9 DEF Part1Types, Handlers
  <2>2. srv' \in [Calls -> Handlers]
    <3>1. srv'[k] \in Handlers
      BY <1>2, <2>1 DEF Handlers, HandlerPC
    <3> QED
      BY <1>1, <1>9, <3>1 DEF Part1Types
  <2>3. disk[i] \in FileContents /\ WriteAt(disk[i], p, m) \in FileContents
    BY <1>2, <1>7, <1>9, WriteIs
  <2>4. CallOK(k)'
    <3>1. Made(k)' /\ Serving(k)' /\ Reading(k)'
      BY <1>1, <1>3, <2>1 DEF CallOK, Made, Serving, Reading
    <3>2. Flow(k)'
      <4>1. ASSUME NEW j \in 1..Len(N) PROVE Fit(N[j], p + 1 + j) /\ (Short(N[j]) => j = Len(N))
        <5>1. p + (j + 1) = p + 1 + j
          BY <1>2
        <5>2. Fit(M[j + 1], p + (j + 1)) /\ (Short(M[j + 1]) => j + 1 = Len(M))
          BY <1>4, <1>6, <1>9
        <5> QED
          BY <1>4, <5>1, <5>2
      <4> QED
        BY <1>5, <2>1, <4>1 DEF Flow, Fit
    <3> QED
      BY <3>1, <3>2 DEF CallOK
  <2>5. ASSUME NEW c \in Clients, Current(c) = k PROVE ClientOK(c)'
    <3>1. CASE Cancelled(k)
      BY <1>2, <1>3, <2>5, <3>1, OtherClient
    <3>2. CASE ~Cancelled(k)
      <4>1. srv'[k].pc # "done" /\ reply'[k] = "none"
        BY <1>1, <1>3, <2>1
      <4>2. ASSUME Mine(c) \in FileContents, ~At(c, "idle")
            PROVE  /\ \A j \in 1..Len(stream'[k]) : stream'[k][j] = ReadAt(Mine(c), srv'[k].pos + j - 1)
                   /\ srv'[k].pos + Len(stream'[k]) = cli[c].pos /\ srv'[k].buf = Empty
                   /\ writers'[srv'[k].ino] = {k} => disk'[srv'[k].ino] = First(Mine(c), srv'[k].pos)
        <5>1. /\ p + Len(N) + 1 = cli[c].pos
              /\ m = ReadAt(Mine(c), p) /\ \A j \in 1..Len(N) : N[j] = ReadAt(Mine(c), p + 1 + j - 1)
              /\ writers[i] = {k} => disk[i] = First(Mine(c), p)
          BY <1>8, <1>9, <2>5, <3>2, <4>2
        <5>2. p + 1 + Len(N) = cli[c].pos
          BY <1>2, <1>4, <5>1
        <5>3. disk'[i] = WriteAt(disk[i], p, m)
          BY <1>2, <1>9 DEF Written
        <5>4. writers[i] = {k} => disk'[i] = First(Mine(c), p + 1)
          BY <1>2, <4>2, <5>1, <5>3, FirstIs
        <5> QED
          BY <1>1, <1>5, <2>1, <5>1, <5>2, <5>4
      <4> QED
        BY <1>2, <1>3, <2>5, <3>2, <4>1, <4>2, StoreClient
    <3> QED
      BY <3>1, <3>2
  <2>6. reply' \in [Calls -> {"none", "ok", "notfound", "deadline"}] /\ srv'[k].ino = i /\ \A j \in Calls : reply'[j] = reply[j]
    BY <1>1, <2>1 DEF Part1Types
  <2> HIDE DEF i, p
  <2> QED
    BY <1>1, <1>5, <1>9, <2>1, <2>2, <2>3, <2>4, <2>5, <2>6, Writes DEF i
<1>10. CASE /\ i # None /\ Short(m) /\ srv' = [srv EXCEPT ![k].pc = "write", ![k].buf = m] /\ UNCHANGED <<disk, seen>>
  <2>1. srv'[k] = [pc |-> "write", ino |-> i, pos |-> p, buf |-> m] /\ \A j \in Calls : j # k => srv'[j] = srv[j]
    BY <1>1, <1>2, <1>10 DEF Part1Types, Handlers
  <2>2. m \in Chunk \union {Empty}
    BY <1>1, <1>2, TailIs DEF m, M
  <2>3. srv' \in [Calls -> Handlers]
    <3>1. srv'[k] \in Handlers
      BY <1>2, <2>1, <2>2 DEF Handlers, HandlerPC
    <3> QED
      BY <1>1, <1>10, <3>1 DEF Part1Types
  <2>4. Part1Types'
    BY <1>1, <1>5, <1>10, <2>3 DEF Part1Types
  <2>5. N = << >> /\ Len(N) = 0
    BY <1>7, <1>10, NothingIs
  <2>6. CallOK(k)'
    <3>1. Made(k)' /\ Serving(k)' /\ Reading(k)'
      BY <1>1, <1>3, <2>1 DEF CallOK, Made, Serving, Reading
    <3>2. Flow(k)'
      BY <1>5, <1>7, <1>10, <2>1, <2>5 DEF Flow
    <3> QED
      BY <3>1, <3>2 DEF CallOK
  <2>7. ASSUME NEW c \in Clients, Current(c) = k PROVE ClientOK(c)'
    <3>1. CASE Cancelled(k)
      BY <1>2, <1>3, <2>7, <3>1, OtherClient
    <3>2. CASE ~Cancelled(k)
      <4>1. srv'[k].pc # "done" /\ reply'[k] = "none"
        BY <1>1, <1>3, <2>1
      <4>2. ASSUME Mine(c) \in FileContents, ~At(c, "idle")
            PROVE  /\ At(c, "wait") /\ stream'[k] = << >> /\ Len(stream'[k]) = 0
                   /\ srv'[k].pos + 1 = cli[c].pos /\ srv'[k].buf = ReadAt(Mine(c), srv'[k].pos)
                   /\ writers'[srv'[k].ino] = {k} => disk'[srv'[k].ino] = First(Mine(c), srv'[k].pos)
        <5>1. /\ p + Len(N) + 1 = cli[c].pos /\ m = ReadAt(Mine(c), p)
              /\ writers[i] = {k} => disk[i] = First(Mine(c), p)
              /\ At(c, "wait")
          BY <1>8, <1>10, <2>7, <3>2, <4>2
        <5>2. p + 1 = cli[c].pos
          BY <1>2, <2>5, <5>1
        <5>3. stream'[k] = << >> /\ Len(stream'[k]) = 0 /\ srv'[k].pos = p /\ srv'[k].buf = m /\ srv'[k].ino = i
          BY <1>5, <2>1, <2>5
        <5>4. disk' = disk /\ writers' = writers
          BY <1>1, <1>10
        <5> HIDE DEF i, p
        <5> QED
          BY <5>1, <5>2, <5>3, <5>4
      <4> QED
        BY <1>2, <1>3, <2>7, <3>2, <4>1, <4>2, StoreClient
    <3> QED
      BY <3>1, <3>2
  <2>8. UNCHANGED <<disk, writers, seen, reply>> /\ srv'[k].ino = srv[k].ino
    BY <1>1, <1>10, <2>1
  <2> QED
    BY <1>1, <1>5, <2>1, <2>4, <2>6, <2>7, <2>8, Quiet
<1>11. CASE i = None /\ Goto(k, "write") /\ UNCHANGED <<disk, seen>>
  <2>1. /\ srv'[k].pc = "write" /\ srv'[k].ino = i /\ srv' \in [Calls -> Handlers]
        /\ \A j \in Calls : j # k => srv'[j] = srv[j]
    BY <1>1, <1>11, GotoIs DEF HandlerPC
  <2>2. Part1Types'
    BY <1>1, <1>5, <1>11, <2>1 DEF Part1Types
  <2>3. CallOK(k)'
    BY <1>1, <1>3, <1>11, <2>1 DEF CallOK, Made, Serving, Reading, Flow, Storing
  <2>4. ASSUME NEW c \in Clients, Current(c) = k PROVE ClientOK(c)'
    <3>1. CASE Cancelled(k)
      BY <1>2, <1>3, <2>4, <3>1, OtherClient
    <3>2. CASE ~Cancelled(k)
      <4>1. srv'[k].pc # "done" /\ reply'[k] = "none" /\ ~Storing(k)'
        BY <1>1, <1>3, <1>11, <2>1 DEF Storing
      <4> QED
        BY <1>2, <1>3, <2>4, <3>2, <4>1, StoreClient
    <3> QED
      BY <3>1, <3>2
  <2> QED
    BY <1>1, <1>5, <1>11, <2>1, <2>2, <2>3, <2>4, Quiet
<1> QED
  BY <1>9, <1>10, <1>11 DEF WriteChunk, m

\* The ofstream is flushed and closed.
LEMMA WriteEndStep ==
  ASSUME Part1Inv, NEW k \in Calls, UNCHANGED <<local, cli, call, over, shut>>, WriteEnd(k)
  PROVE  Part1Inv'
<1> DEFINE i == srv[k].ino
           p == srv[k].pos
           b == srv[k].buf
<1>1. /\ Part1Types /\ CallOK(k) /\ srv[k].pc = "write" /\ (~Cancelled(k) => stream[k] = << >> /\ shut[k])
      /\ Answer(k, "ok") /\ UNCHANGED <<stream, dir, writers>>
      /\ i = None => UNCHANGED <<disk, seen>>
      /\ i # None => Written(i, WriteAt(disk[i], p, b))
  BY DEF Part1Inv, WriteEnd, Handler
<1>2. /\ srv'[k].pc = "done" /\ srv'[k].ino = i /\ reply'[k] = "ok"
      /\ \A j \in Calls : j # k => reply'[j] = reply[j] /\ srv'[j] = srv[j]
      /\ srv' \in [Calls -> Handlers] /\ reply' \in [Calls -> {"none", "ok", "notfound", "deadline"}]
  BY <1>1, AnswerIs
<1>3. call[k].cmd = "store" /\ (i # None => Storing(k) /\ Fit(b, p + 1)) /\ srv[k].pc # "done"
  BY <1>1 DEF CallOK, Serving, Storing, Flow
<1>4. /\ p \in Nat /\ i \in Inodes \union {None} /\ disk \in [Inodes -> FileContents]
      /\ stream' \in [Calls -> Seq(Chunk \union {Empty})]
  BY <1>1 DEF Part1Types, Handlers
<1>5. CallOK(k)'
  BY <1>1, <1>2, <1>3, EndedCall
<1>6. i # None => disk[i] \in FileContents /\ WriteAt(disk[i], p, b) \in FileContents
  BY <1>3, <1>4, WriteIs
<1>7. ASSUME NEW c \in Clients, Current(c) = k PROVE ClientOK(c)'
  <2>1. CASE Cancelled(k)
    BY <1>1, <1>3, <1>7, <2>1, OtherClient
  <2>2. CASE ~Cancelled(k)
    <3>1. ~(Mine(c) \in FileContents /\ At(c, "send"))
      <4>1. At(c, "send") => ~At(c, "idle")
        BY DEF At
      <4> QED
        BY <1>1, <1>3, <1>7, <2>2, <4>1, SentIs
    <3>2. ASSUME Mine(c) \in FileContents, At(c, "wait"), i # None, writers[i] = {k} PROVE disk'[i] = Mine(c)
      <4>1. ~At(c, "idle") /\ Storing(k) /\ stream[k] = << >> /\ k = Current(c)
        BY <1>1, <1>3, <1>7, <2>2, <3>2 DEF At
      <4>2. /\ cli[c].pos = Total(Mine(c))
            /\ (p + Len(stream[k]) = cli[c].pos /\ b = Empty) \/ (p + 1 = cli[c].pos /\ b = ReadAt(Mine(c), p))
            /\ disk[i] = First(Mine(c), p)
        BY <1>3, <2>2, <3>2, <4>1, SentIs
      <4>3. disk'[i] = WriteAt(disk[i], p, b)
        BY <1>1, <1>4, <3>2 DEF Written
      <4>4. Len(Mine(c)) \in Nat /\ Total(Mine(c)) >= Len(Mine(c))
        BY <3>2, ContentsAre DEF Total
      <4>5. CASE p + Len(stream[k]) = cli[c].pos /\ b = Empty
        <5>1. p = Total(Mine(c))
          BY <1>4, <4>1, <4>2, <4>5, NothingIs
        <5> QED
          BY <1>4, <3>2, <4>2, <4>3, <4>4, <4>5, <5>1, FirstIs DEF WriteAt
      <4>6. CASE p + 1 = cli[c].pos /\ b = ReadAt(Mine(c), p)
        <5>1. p + 1 \in Nat /\ p + 1 = Total(Mine(c))
          BY <1>4, <4>2, <4>6
        <5>2. disk'[i] = First(Mine(c), p + 1)
          BY <1>4, <3>2, <4>2, <4>3, <4>6, FirstIs
        <5> QED
          BY <3>2, <4>4, <5>1, <5>2, FirstIs
      <4> QED
        BY <4>2, <4>5, <4>6
    <3>3. ~Storing(k)' /\ writers' = writers /\ srv'[k].ino = i
      BY <1>1, <1>2 DEF Storing
    <3> HIDE DEF i, p, b
    <3> QED
      BY <1>3, <1>7, <2>2, <3>1, <3>2, <3>3, StoreClient
  <2> QED
    BY <2>1, <2>2
<1>8. CASE i = None
  <2>1. Part1Types'
    BY <1>1, <1>2, <1>8 DEF Part1Types
  <2> QED
    BY <1>1, <1>2, <1>5, <1>7, <1>8, <2>1, Quiet
<1>9. CASE i # None
  BY <1>1, <1>2, <1>4, <1>5, <1>6, <1>7, <1>9, Writes
<1> QED
  BY <1>8, <1>9
-----------------------------------------------------------------------------
(* FetchFile *)

LEMMA AppendIs ==
  ASSUME NEW S, NEW s \in Seq(S), NEW e \in S
  PROVE  /\ Append(s, e) \in Seq(S) /\ Len(s) \in Nat /\ Len(Append(s, e)) = Len(s) + 1
         /\ Append(s, e)[Len(s) + 1] = e
         /\ \A j \in 1..Len(s) : Append(s, e)[j] = s[j]
  BY AppendProperties, LenProperties

LEMMA FetchStartStep ==
  ASSUME Part1Inv, NEW k \in Calls, UNCHANGED <<local, cli, call, over, shut>>, FetchStart(k)
  PROVE  Part1Inv'
<1> DEFINE f == call[k].name
           i == IF f \in Dirs THEN None ELSE dir[f]
<1>1. /\ Part1Types /\ CallOK(k) /\ srv[k].pc = "none" /\ call[k].cmd = "fetch"
      /\ UNCHANGED <<stream, dir, disk, writers>>
  BY DEF Part1Inv, FetchStart, Arrives, Handler
<1>2. /\ srv[k].pos = 0 /\ srv[k].buf = Empty /\ reply[k] = "none" /\ seen[k] = None /\ f \in Names /\ Made(k)
      /\ srv[k].pc # "done" /\ srv[k] \in Handlers
  BY <1>1 DEF CallOK, Serving, Made, Part1Types
<1>3. ASSUME NEW c \in Clients, Current(c) = k, ~Cancelled(k), At(c, "recv")
      PROVE  stream'[k] = << >> /\ Len(stream'[k]) = 0 /\ cli[c].pos = 0 /\ Mine(c) = << >> /\ Mine(c) \in FileContents
  <2>1. Received(c)
    BY DEF Part1Inv, ClientOK
  <2> QED
    BY <1>1, <1>3, <2>1, NothingIs DEF Received
<1>4. CASE ~Exists(f)
  <2>1. Answer(k, "notfound") /\ UNCHANGED seen
    BY <1>4 DEF FetchStart
  <2>2. /\ srv'[k].pc = "done" /\ reply'[k] = "notfound"
        /\ \A j \in Calls : j # k => reply'[j] = reply[j] /\ srv'[j] = srv[j]
        /\ srv' \in [Calls -> Handlers] /\ reply' \in [Calls -> {"none", "ok", "notfound", "deadline"}]
    BY <1>1, <2>1, AnswerIs
  <2>3. Part1Types'
    BY <1>1, <2>1, <2>2 DEF Part1Types
  <2>4. CallOK(k)'
    BY <1>1, <2>2, EndedCall
  <2>5. ASSUME NEW c \in Clients, Current(c) = k PROVE ClientOK(c)'
    <3>1. CASE Cancelled(k)
      BY <1>1, <1>2, <2>5, <3>1, OtherClient
    <3>2. CASE ~Cancelled(k)
      <4>1. ASSUME At(c, "recv") PROVE Received(c)' /\ Fetching(c)'
        <5>1. Current(c)' = k /\ Mine(c)' = Mine(c)
          BY <2>5 DEF Current, Mine
        <5>2. stream'[k] = << >> /\ Len(stream'[k]) = 0 /\ Mine(c) \in FileContents /\ seen'[k] = None
          BY <1>2, <1>3, <2>1, <2>5, <3>2, <4>1
        <5> QED
          BY <2>2, <5>1, <5>2 DEF Received, Fetching
      <4> QED
        BY <1>1, <1>2, <2>5, <3>2, <4>1, FetchClient
    <3> QED
      BY <3>1, <3>2
  <2> QED
    BY <1>1, <2>1, <2>2, <2>3, <2>4, <2>5, Quiet
<1>5. CASE Exists(f)
  <2>1. /\ srv' = [srv EXCEPT ![k].pc = "read", ![k].ino = i]
        /\ seen' = [seen EXCEPT ![k] = IF i = None THEN None ELSE disk[i]] /\ UNCHANGED reply
    BY <1>5 DEF FetchStart
  <2>2. i \in Inodes \union {None}
    BY <1>1, <1>2 DEF Part1Types, Names
  <2> HIDE DEF i, f
  <2>3. srv'[k] = [pc |-> "read", ino |-> i, pos |-> 0, buf |-> Empty] /\ \A j \in Calls : j # k => srv'[j] = srv[j]
    BY <1>1, <1>2, <2>1 DEF Part1Types, Handlers
  <2>4. srv' \in [Calls -> Handlers]
    <3>1. srv'[k] \in Handlers
      BY <2>2, <2>3 DEF Handlers, HandlerPC
    <3> QED
      BY <1>1, <2>1, <3>1 DEF Part1Types
  <2>5. /\ seen' \in [Calls -> FileContents \union {None}] /\ (\A j \in Calls : j # k => seen'[j] = seen[j])
        /\ i = None => seen'[k] = None
        /\ i # None => seen'[k] = disk[i] /\ disk[i] \in FileContents
    BY <1>1, <2>1, <2>2 DEF Part1Types
  <2>6. Part1Types'
    BY <1>1, <2>1, <2>4, <2>5 DEF Part1Types
  <2>7. CallOK(k)'
    BY <1>1, <1>2, <2>1, <2>3, <2>5 DEF CallOK, Made, Serving, Reading, Flow, Storing, Fit
  <2>8. ASSUME NEW c \in Clients, Current(c) = k PROVE ClientOK(c)'
    <3>1. CASE Cancelled(k)
      BY <1>1, <1>2, <2>8, <3>1, OtherClient
    <3>2. CASE ~Cancelled(k)
      <4>1. ASSUME At(c, "recv") PROVE Received(c)' /\ Fetching(c)'
        <5>1. Current(c)' = k /\ Mine(c)' = Mine(c) /\ cli'[c] = cli[c]
          BY <2>8 DEF Current, Mine
        <5>2. stream'[k] = << >> /\ Len(stream'[k]) = 0 /\ cli[c].pos = 0 /\ Mine(c) = << >> /\ Mine(c) \in FileContents
          BY <1>3, <2>8, <3>2, <4>1
        <5>3. srv'[k].pc = "read" /\ srv'[k].pos = 0
          BY <2>3
        <5>4. Received(c)'
          BY <5>1, <5>2, <5>3 DEF Received
        <5>5. seen'[k] # None => Len(seen'[k]) >= 0 /\ First(seen'[k], 0) = << >> /\ 0 < NChunks
          BY <2>5, ContentsAre, FirstIs
        <5>6. Fetching(c)'
          BY <5>1, <5>2, <5>3, <5>5 DEF Fetching
        <5> QED
          BY <5>4, <5>6
      <4> QED
        BY <1>1, <1>2, <2>8, <3>2, <4>1, FetchClient
    <3> QED
      BY <3>1, <3>2
  <2>9. srv'[k].pc \notin {"firstwrite", "write"} /\ UNCHANGED <<disk, writers>>
    BY <1>1, <2>3
  <2>10. \A j \in Calls : j # k => stream'[j] = stream[j] /\ reply'[j] = reply[j] /\ srv'[j] = srv[j] /\ seen'[j] = seen[j]
    BY <1>1, <2>1, <2>3, <2>5
  <2> QED
    BY <2>6, <2>7, <2>8, <2>9, <2>10, Quiet
<1> QED
  BY <1>4, <1>5

LEMMA ReadChunkStep ==
  ASSUME Part1Inv, NEW k \in Calls, UNCHANGED <<local, cli, call, over, shut>>, ReadChunk(k)
  PROVE  Part1Inv'
<1> DEFINE i == srv[k].ino
           p == srv[k].pos
           m == IF i = None THEN Empty ELSE ReadAt(disk[i], p)
<1>1. /\ Part1Types /\ CallOK(k) /\ srv[k].pc = "read" /\ ~Cancelled(k)
      /\ srv' = [srv EXCEPT ![k].pc = "push", ![k].buf = m] /\ UNCHANGED <<stream, reply, diskVars>>
  BY DEF Part1Inv, ReadChunk, Handler
<1>2. srv[k] \in Handlers /\ p \in Nat /\ i \in Inodes \union {None} /\ (i # None => disk[i] \in FileContents)
  BY <1>1 DEF Part1Types, Handlers
<1>3. m \in Chunk \union {Empty} /\ (i # None => Fit(m, p + 1)) /\ (i = None => m = Empty)
  BY <1>2, ReadIs
<1>4. call[k].cmd = "fetch" /\ srv[k].pc # "done" /\ (seen[k] # None => i # None /\ disk[i] = seen[k])
  BY <1>1 DEF CallOK, Serving, Reading
<1>5. seen[k] # None => m = ReadAt(seen[k], p)
  BY <1>4
<1> HIDE DEF m
<1>6. srv'[k] = [pc |-> "push", ino |-> i, pos |-> p, buf |-> m] /\ \A j \in Calls : j # k => srv'[j] = srv[j]
  BY <1>1, <1>2 DEF Part1Types, Handlers
<1>7. srv' \in [Calls -> Handlers]
  <2>1. srv'[k] \in Handlers
    BY <1>2, <1>3, <1>6 DEF Handlers, HandlerPC
  <2> QED
    BY <1>1, <2>1 DEF Part1Types
<1>8. Part1Types'
  BY <1>1, <1>7 DEF Part1Types, diskVars
<1>9. CallOK(k)'
  BY <1>1, <1>3, <1>4, <1>6 DEF CallOK, Made, Serving, Reading, Flow, Storing, diskVars
<1>10. ASSUME NEW c \in Clients, Current(c) = k PROVE ClientOK(c)'
  <2>1. ASSUME At(c, "recv") PROVE Received(c)' /\ Fetching(c)'
    <3>1. Current(c)' = k /\ Mine(c)' = Mine(c) /\ cli'[c] = cli[c] /\ ~Cancelled(k)' /\ stream'[k] = stream[k] /\ seen'[k] = seen[k]
      BY <1>1, <1>10 DEF Current, Mine, Cancelled, diskVars
    <3>2. Received(c) /\ Fetching(c) /\ srv'[k].pc = "push" /\ srv'[k].ino = i /\ srv'[k].pos = p /\ srv'[k].buf = m
      BY <1>6 DEF Part1Inv, ClientOK
    <3>3. Received(c)'
      BY <1>1, <1>10, <2>1, <3>1, <3>2 DEF Received
    <3>4. Fetching(c)'
      BY <1>1, <1>5, <1>10, <2>1, <3>1, <3>2 DEF Fetching
    <3> QED
      BY <3>3, <3>4
  <2> QED
    BY <1>1, <1>4, <1>10, <2>1, FetchClient
<1>11. srv'[k].pc \notin {"firstwrite", "write"} /\ UNCHANGED <<disk, writers>>
  BY <1>1, <1>6 DEF diskVars
<1>12. \A j \in Calls : j # k => stream'[j] = stream[j] /\ reply'[j] = reply[j] /\ srv'[j] = srv[j] /\ seen'[j] = seen[j]
  BY <1>1, <1>6 DEF diskVars
<1> QED
  BY <1>8, <1>9, <1>10, <1>11, <1>12, Quiet

\* Write waits for room; the short chunk is the last one.
LEMMA PushChunkStep ==
  ASSUME Part1Inv, NEW k \in Calls, UNCHANGED <<local, cli, call, over, shut>>, PushChunk(k)
  PROVE  Part1Inv'
<1> DEFINE i == srv[k].ino
           p == srv[k].pos
           m == srv[k].buf
           M == stream[k]
           last == i # None /\ Short(m)
<1>1. /\ Part1Types /\ CallOK(k) /\ srv[k].pc = "push" /\ UNCHANGED diskVars
      /\ Cancelled(k) => UNCHANGED stream
      /\ ~Cancelled(k) => stream' = [stream EXCEPT ![k] = Append(@, m)]
      /\ last => Answer(k, "ok")
      /\ ~last => /\ srv' = [srv EXCEPT ![k].pc = "read", ![k].buf = Empty, ![k].pos = IF m = Empty THEN @ ELSE @ + 1]
                  /\ UNCHANGED reply
  BY DEF Part1Inv, PushChunk, Handler
<1>2. /\ M \in Seq(Chunk \union {Empty}) /\ srv[k] \in Handlers /\ p \in Nat /\ i \in Inodes \union {None}
      /\ m \in Chunk \union {Empty} /\ srv[k].pc # "done"
  BY <1>1 DEF Part1Types, Handlers
<1>3. /\ call[k].cmd = "fetch" /\ reply[k] = "none" /\ Made(k)
      /\ seen[k] # None => i # None /\ disk[i] = seen[k]
      /\ i = None => m = Empty
      /\ i # None => Fit(m, p + 1)
  BY <1>1 DEF CallOK, Serving, Reading
<1>4. /\ Append(M, m) \in Seq(Chunk \union {Empty}) /\ Len(M) \in Nat /\ Len(Append(M, m)) = Len(M) + 1
      /\ Append(M, m)[Len(M) + 1] = m /\ \A j \in 1..Len(M) : Append(M, m)[j] = M[j]
  BY <1>2, AppendIs
<1>5. /\ stream' \in [Calls -> Seq(Chunk \union {Empty})] /\ (\A j \in Calls : j # k => stream'[j] = stream[j])
      /\ ~Cancelled(k) => stream'[k] = Append(M, m)
      /\ Cancelled(k) => stream'[k] = M
  <2>1. stream \in [Calls -> Seq(Chunk \union {Empty})]
    BY <1>1 DEF Part1Types
  <2>2. CASE Cancelled(k)
    BY <1>1, <2>1, <2>2
  <2>3. CASE ~Cancelled(k)
    <3> DEFINE N == Append(M, m)
    <3>1. stream' = [stream EXCEPT ![k] = N] /\ N \in Seq(Chunk \union {Empty})
      BY <1>1, <1>4, <2>3
    <3> HIDE DEF N
    <3>2. stream' \in [Calls -> Seq(Chunk \union {Empty})] /\ stream'[k] = N /\ \A j \in Calls : j # k => stream'[j] = stream[j]
      BY <2>1, <3>1
    <3> QED
      BY <2>3, <3>2 DEF N
  <2> QED
    BY <2>2, <2>3
<1> DEFINE q == IF m = Empty THEN p ELSE p + 1
<1>6. q \in Nat
  BY <1>2
<1>7. /\ srv' \in [Calls -> Handlers] /\ reply' \in [Calls -> {"none", "ok", "notfound", "deadline"}]
      /\ \A j \in Calls : j # k => srv'[j] = srv[j] /\ reply'[j] = reply[j]
      /\ last => srv'[k].pc = "done" /\ reply'[k] = "ok"
      /\ ~last => reply'[k] = "none" /\ srv'[k].pc = "read" /\ srv'[k].ino = i /\ srv'[k].pos = q /\ srv'[k].buf = Empty
  <2>1. CASE last
    BY <1>1, <2>1, AnswerIs
  <2>2. CASE ~last
    <3>1. srv'[k] = [pc |-> "read", ino |-> i, pos |-> q, buf |-> Empty] /\ \A j \in Calls : j # k => srv'[j] = srv[j]
      BY <1>1, <1>2, <2>2 DEF Part1Types, Handlers
    <3> HIDE DEF q
    <3>2. srv'[k] \in Handlers
      BY <1>2, <1>6, <3>1 DEF Handlers, HandlerPC
    <3>3. srv' \in [Calls -> Handlers]
      BY <1>1, <2>2, <3>2 DEF Part1Types
    <3> QED
      BY <1>1, <1>3, <2>2, <3>1, <3>3 DEF Part1Types
  <2> QED
    BY <2>1, <2>2
<1>8. Part1Types'
  BY <1>1, <1>5, <1>7 DEF Part1Types, diskVars
<1>9. CallOK(k)'
  <2>1. CASE last
    BY <1>1, <1>3, <1>7, <2>1, EndedCall
  <2>2. CASE ~last
    BY <1>1, <1>3, <1>7, <2>2 DEF CallOK, Made, Serving, Reading, Flow, Storing, Fit, diskVars
  <2> QED
    BY <2>1, <2>2
<1>10. ASSUME NEW c \in Clients, Current(c) = k, ~Cancelled(k), At(c, "recv") PROVE Received(c)' /\ Fetching(c)'
  <2> DEFINE N == Append(M, m)
             x == cli[c].pos
             d == seen[k]
  <2>1. Current(c)' = k /\ Mine(c)' = Mine(c) /\ cli'[c] = cli[c] /\ stream'[k] = N /\ seen'[k] = seen[k]
    BY <1>1, <1>5, <1>10 DEF Current, Mine, diskVars
  <2>2. /\ Mine(c) \in FileContents
        /\ \A j \in 1..Len(M) : Fit(M[j], x + j)
        /\ i = None => \A j \in 1..Len(M) : M[j] = Empty
        /\ i # None => p = x + Len(M) /\ \A j \in 1..Len(M) : M[j] # Empty
    <3>1. Received(c)
      BY DEF Part1Inv, ClientOK
    <3> QED
      BY <1>1, <1>10, <3>1 DEF Received
  <2>3. d # None =>
          /\ x <= Len(d) /\ Mine(c) = First(d, x) /\ p <= Len(d) /\ p < NChunks /\ m = ReadAt(d, p) /\ d \in FileContents
          /\ \A j \in 1..Len(M) : M[j] = ReadAt(d, x + j - 1)
    <3>1. Fetching(c)
      BY DEF Part1Inv, ClientOK
    <3>2. d # None => d \in FileContents
      BY <1>1 DEF Part1Types
    <3> QED
      BY <1>1, <1>10, <3>1, <3>2 DEF Fetching
  <2>4. x \in Nat
    BY <1>1 DEF Part1Types
  <2>5. \A j \in 1..Len(N) : (j \in 1..Len(M) /\ N[j] = M[j]) \/ (j = Len(M) + 1 /\ N[j] = m)
    BY <1>4
  <2>6. ~last /\ i # None => m # Empty /\ q = p + 1
    BY DEF Short
  <2> HIDE DEF N, x, d, q, m, M, i, p
  <2>7. ASSUME NEW j \in 1..Len(N) PROVE Fit(N[j], x + j)
    <3>1. CASE j \in 1..Len(M) /\ N[j] = M[j]
      BY <2>2, <3>1
    <3>2. CASE j = Len(M) + 1 /\ N[j] = m /\ i = None
      BY <1>3, <3>2 DEF Fit
    <3>3. CASE j = Len(M) + 1 /\ N[j] = m /\ i # None
      <4>1. x + j = p + 1
        BY <1>4, <2>2, <2>4, <3>3
      <4> QED
        BY <1>3, <3>3, <4>1
    <3> QED
      BY <2>5, <3>1, <3>2, <3>3
  <2>8. ASSUME NEW j \in 1..Len(N), N[j] = Empty, NEW l \in j..Len(N) PROVE N[l] = Empty
    <3>1. l \in 1..Len(N) /\ Len(N) = Len(M) + 1
      BY <1>4 DEF N
    <3>2. CASE i = None
      BY <1>3, <2>2, <2>5, <3>1, <3>2
    <3>3. CASE i # None
      <4>1. j = Len(M) + 1
        BY <2>2, <2>5, <2>8, <3>3
      <4>2. l = j
        BY <1>4, <3>1, <4>1
      <4> QED
        BY <2>8, <4>2
    <3> QED
      BY <3>2, <3>3
  <2>9. ~last /\ i = None => \A j \in 1..Len(N) : N[j] = Empty
    BY <1>3, <2>2, <2>5
  <2>10. ~last /\ i # None => q = x + Len(N) /\ \A j \in 1..Len(N) : N[j] # Empty
    <3>1. Len(N) = Len(M) + 1
      BY <1>4 DEF N
    <3>2. ~last /\ i # None => q = x + Len(N)
      BY <1>4, <2>2, <2>4, <2>6, <3>1
    <3> QED
      BY <2>2, <2>5, <2>6, <3>2
  <2>11. Received(c)'
    BY <1>7, <2>1, <2>2, <2>7, <2>8, <2>9, <2>10 DEF Received, x
  <2>12. ASSUME d # None
         PROVE  /\ x <= Len(d) /\ Mine(c) = First(d, x)
                /\ \A j \in 1..Len(N) : N[j] = ReadAt(d, x + j - 1)
                /\ ~last => q <= Len(d) /\ q < NChunks
                /\ last => x + Len(N) = Total(d)
    <3>1. i # None /\ p = x + Len(M) /\ Len(N) = Len(M) + 1
      BY <1>3, <1>4, <2>2, <2>12 DEF N, d, i, M, m
    <3>2. ASSUME NEW j \in 1..Len(N) PROVE N[j] = ReadAt(d, x + j - 1)
      <4>1. CASE j \in 1..Len(M) /\ N[j] = M[j]
        BY <2>3, <2>12, <4>1
      <4>2. CASE j = Len(M) + 1 /\ N[j] = m
        <5>1. x + j - 1 = p
          BY <1>4, <2>4, <3>1, <4>2
        <5> QED
          BY <2>3, <2>12, <4>2, <5>1
      <4> QED
        BY <2>5, <4>1, <4>2
    <3>3. /\ Short(m) => p + 1 = Total(d)
          /\ ~Short(m) => p + 1 <= Len(d) /\ p + 1 < NChunks
      <4>1. d \in FileContents /\ p \in Nat /\ p <= Len(d) /\ p < NChunks /\ m = ReadAt(d, p)
        BY <1>2, <2>3, <2>12
      <4> QED
        BY <4>1, ReadIs
    <3>4. ~last => q <= Len(d) /\ q < NChunks
      BY <2>6, <3>1, <3>3
    <3>5. last => x + Len(N) = Total(d)
      <4>1. x + Len(N) = p + 1
        BY <1>4, <2>4, <3>1
      <4> QED
        BY <3>3, <4>1
    <3> QED
      BY <2>3, <2>12, <3>2, <3>4, <3>5
  <2>13. Fetching(c)'
    BY <1>7, <2>1, <2>12 DEF Fetching, x, d
  <2> QED
    BY <2>11, <2>13
<1>11. ASSUME NEW c \in Clients, Current(c) = k PROVE ClientOK(c)'
  <2>1. CASE Cancelled(k)
    BY <1>2, <1>5, <1>11, <2>1, OtherClient
  <2>2. CASE ~Cancelled(k)
    BY <1>2, <1>3, <1>10, <1>11, <2>2, FetchClient
  <2> QED
    BY <2>1, <2>2
<1>12. srv'[k].pc \notin {"firstwrite", "write"} /\ UNCHANGED <<disk, writers>>
  BY <1>1, <1>7 DEF diskVars
<1>13. \A j \in Calls : j # k => stream'[j] = stream[j] /\ reply'[j] = reply[j] /\ srv'[j] = srv[j] /\ seen'[j] = seen[j]
  BY <1>1, <1>5, <1>7 DEF diskVars
<1> QED
  BY <1>8, <1>9, <1>11, <1>12, <1>13, Quiet

LEMMA ServeStep ==
  ASSUME Part1Inv, NEW k \in Calls, Serve(k)
  PROVE  Part1Inv'
<1>1. UNCHANGED <<local, cli, call, over, shut>>
  BY DEF Serve
<1>2. CASE TooLate(k) \/ ReadNothing(k) \/ FetchCancelled(k) \/ Remove(k) \/ ListFile(k) \/ StatusFile(k)
  BY <1>1, <1>2, EndSteps
<1>3. CASE StoreStart(k)
  BY <1>1, <1>3, StoreGoto DEF StoreStart, Arrives, Handler
<1>4. ASSUME srv[k].pc \in {"first", "open"} PROVE call[k].cmd = "store"
  BY <1>4 DEF Part1Inv, CallOK, Serving
<1>5. CASE ReadFirst(k)
  BY <1>1, <1>4, <1>5, StoreGoto DEF ReadFirst, Handler
<1>6. CASE OpenFails(k)
  BY <1>1, <1>4, <1>6, StoreGoto DEF OpenFails, Handler
<1> QED
  BY <1>1, <1>2, <1>3, <1>5, <1>6, OpenTargetStep, WriteChunkStep, WriteEndStep, FetchStartStep, ReadChunkStep,
     PushChunkStep, DeleteStartStep DEF Serve
-----------------------------------------------------------------------------
(* The client *)

\* Below the bound on the commands of all users, this one has a number left.
LEMMA NumberLeft ==
  ASSUME Part1Inv, NEW c \in Clients, Cardinality({k \in Calls : call[k].cmd # "none"}) < MaxCalls
  PROVE  cli[c].n + 1 \in 1..MaxCalls /\ cli[c].n \in Nat
<1> DEFINE S == {k \in Calls : call[k].cmd # "none"}
           f == [j \in 1..MaxCalls |-> <<c, j>>]
<1>1. MaxCalls \in Nat /\ cli[c].n \in 0..MaxCalls
  BY Part1Assumption DEF Part1Inv, Part1Types
<1>2. SUFFICES ASSUME cli[c].n = MaxCalls PROVE FALSE
  BY <1>1
<1>3. IsFiniteSet(1..MaxCalls) /\ Cardinality(1..MaxCalls) = MaxCalls
  BY <1>1, FS_Interval
<1>4. IsFiniteSet(Calls)
  BY <1>3, Part1Assumption, FS_Product DEF Calls
<1>5. IsFiniteSet(S)
  BY <1>4, FS_Subset
<1>6. ASSUME NEW j \in 1..MaxCalls PROVE <<c, j>> \in S
  <2>1. <<c, j>> \in Calls /\ Made(<<c, j>>)
    BY DEF Calls, Part1Inv, CallOK
  <2>2. ~(j > cli[c].n)
    BY <1>1, <1>2
  <2> QED
    BY <2>1, <2>2 DEF Made
<1>7. f \in Injection(1..MaxCalls, S)
  <2>1. f \in [1..MaxCalls -> S]
    BY <1>6
  <2>2. \A a, b \in 1..MaxCalls : f[a] = f[b] => a = b
    OBVIOUS
  <2> HIDE DEF f, S
  <2> QED
    BY <2>1, <2>2 DEF Injection, IsInjective
<1>8. Cardinality(1..MaxCalls) <= Cardinality(S) /\ Cardinality(S) \in Nat
  BY <1>5, <1>7, FS_Injection, FS_CardinalityType
<1> HIDE DEF S
<1> QED
  BY <1>1, <1>3, <1>8 DEF S

\* A call that was made a moment ago, and nothing has come of it yet
Fresh(c, cmd, f, at) ==
  LET k == Current(c) IN
  /\ k \in Calls /\ cli[c].pc = at /\ cli[c].pos = 0 /\ call[k].cmd = cmd /\ call[k].name = f
  /\ over[k] = "no" /\ stream[k] = << >> /\ Len(stream[k]) = 0 /\ ~shut[k] /\ reply[k] = "none" /\ seen[k] = None
  /\ srv[k].pc = "none" /\ srv[k].ino = None /\ srv[k].pos = 0 /\ srv[k].buf = Empty

\* ProcessCommand makes a call: what is left to show is what the client has of the file.
LEMMA BeginIs ==
  ASSUME Part1Inv, NEW c \in Clients, NEW cmd \in {"store", "fetch", "delete", "list", "stat"}, NEW f \in Names \union {None},
         NEW at, at = IF cmd = "store" THEN "send" ELSE IF cmd = "fetch" THEN "recv" ELSE "wait",
         Begin(c, cmd, f, at), cmd \in {"store", "fetch"} => f \in Names,
         local' \in [Clients -> [Names -> FileContents \union {Missing}]],
         \A d \in Clients : d # c => local'[d] = local[d],
         Fresh(c, cmd, f, at)' => Sent(c)' /\ Received(c)'
  PROVE  Part1Inv'
<1>0. PICK k : k = <<c, cli[c].n + 1>>
  OBVIOUS
<1>1. /\ cli' = [cli EXCEPT ![c] = [pc |-> at, n |-> @.n + 1, pos |-> 0, status |-> "none"]]
      /\ call' = [call EXCEPT ![<<c, cli[c].n + 1>>] = [cmd |-> cmd, name |-> f]]
      /\ UNCHANGED <<over, netVars, srv, diskVars>> /\ Part1Types
  BY DEF Begin, Part1Inv
<1>2. cli[c].n + 1 \in 1..MaxCalls /\ cli[c].n \in Nat
  BY NumberLeft DEF Begin
<1>3. k \in Calls /\ k[1] = c /\ k[2] = cli[c].n + 1
  BY <1>0, <1>2 DEF Calls
<1>4. CallOK(k) /\ call[k].cmd = "none"
  <2>1. CallOK(k)
    BY <1>3 DEF Part1Inv
  <2> QED
    BY <1>2, <1>3, <2>1 DEF CallOK, Made
<1>5. /\ over[k] = "no" /\ stream[k] = << >> /\ ~shut[k] /\ srv[k].pc = "none" /\ srv[k].ino = None /\ srv[k].pos = 0
      /\ srv[k].buf = Empty /\ reply[k] = "none" /\ seen[k] = None
  BY <1>4 DEF CallOK, Made, Serving
<1>6. /\ cli'[c] = [pc |-> at, n |-> cli[c].n + 1, pos |-> 0, status |-> "none"]
      /\ \A d \in Clients : d # c => cli'[d] = cli[d]
      /\ call'[k] = [cmd |-> cmd, name |-> f] /\ \A j \in Calls : j # k => call'[j] = call[j]
  BY <1>0, <1>1, <1>3 DEF Part1Types
<1>7. Part1Types'
  <2>1. cli'[c] \in [pc : ClientPC, n : 0..MaxCalls, pos : Nat, status : {"none", "ok", "notfound", "deadline", "cancelled", "killed"}]
    BY <1>2, <1>6 DEF ClientPC
  <2>2. cli' \in [Clients -> [pc : ClientPC, n : 0..MaxCalls, pos : Nat, status : {"none", "ok", "notfound", "deadline", "cancelled", "killed"}]]
    BY <1>1, <1>6, <2>1 DEF Part1Types
  <2>3. call' \in [Calls -> [cmd : {"none", "store", "fetch", "delete", "list", "stat"}, name : Names \union {None}]]
    BY <1>0, <1>1, <1>3, <1>6 DEF Part1Types
  <2> QED
    BY <1>1, <2>2, <2>3 DEF Part1Types, netVars, diskVars
<1>8. /\ over'[k] = "no" /\ stream'[k] = << >> /\ Len(stream'[k]) = 0 /\ ~shut'[k] /\ srv'[k].pc = "none" /\ srv'[k].ino = None
      /\ srv'[k].pos = 0 /\ srv'[k].buf = Empty /\ reply'[k] = "none" /\ seen'[k] = None
  BY <1>1, <1>5, NothingIs DEF netVars, diskVars
<1>9. CallOK(k)'
  <2>1. Made(k)'
    BY <1>2, <1>3, <1>6, <1>8 DEF Made
  <2>2. Serving(k)' /\ Flow(k)' /\ Reading(k)'
    BY <1>8 DEF Serving, Flow, Reading, Fit
  <2> QED
    BY <2>1, <2>2 DEF CallOK
<1>10. Current(c)' = k
  BY <1>0, <1>6 DEF Current
<1>11. ClientOK(c)'
  <2>1. Fresh(c, cmd, f, at)' /\ cli'[c].status = "none" /\ cli'[c].n > 0
    BY <1>2, <1>3, <1>6, <1>8, <1>10 DEF Fresh
  <2>2. /\ (At(c, "wait")' => cmd # "fetch") /\ ~At(c, "idle")'
        /\ (At(c, "send")' => cmd = "store") /\ (At(c, "recv")' => cmd = "fetch")
    BY <2>1 DEF At, Fresh
  <2>3. ~Good(c)'
    BY <2>1, <2>2 DEF Good, Fresh
  <2>4. Working(c)'
    BY <2>1, <2>2 DEF Working, Fresh
  <2>5. Stored(c)' /\ Fetched(c)' /\ Fetching(c)'
    BY <2>1, <2>2, <2>3 DEF Stored, Fetched, Fetching, Fresh
  <2> QED
    BY <2>1, <2>4, <2>5 DEF ClientOK
<1>12. ASSUME NEW j \in Calls, j # k, j[1] = c PROVE j[2] > cli'[c].n <=> j[2] > cli[c].n
  <2>1. j[2] \in Nat /\ j[2] # cli[c].n + 1
    BY <1>0, <1>12 DEF Calls
  <2> QED
    BY <1>2, <1>6, <2>1
<1>13. UNCHANGED <<over, stream, shut, reply, srv, dir, disk, writers, seen>>
  BY <1>1 DEF netVars, diskVars
<1> QED
  BY <1>3, <1>6, <1>7, <1>9, <1>11, <1>12, <1>13, ClientFrame

LEMMA CommandStep ==
  ASSUME Part1Inv, NEW c \in Clients, ProcessCommand(c)
  PROVE  Part1Inv'
<1>1. Part1Types /\ local \in [Clients -> [Names -> FileContents \union {Missing}]]
  BY DEF Part1Inv, Part1Types
<1>2. ASSUME NEW f \in Names, Store(c, f) PROVE Part1Inv'
  <2>1. Begin(c, "store", f, "send") /\ local' = local /\ local[c][f] \in FileContents
    BY <1>1, <1>2 DEF Store
  <2>2. ASSUME Fresh(c, "store", f, "send")' PROVE Sent(c)' /\ Received(c)'
    <3>1. Mine(c)' = local[c][f] /\ Len(Mine(c)') \in Nat /\ NChunks \in Nat /\ NChunks > 0
      BY <2>1, <2>2, ContentsAre DEF Mine, Fresh
    <3>2. Sent(c)'
      BY <2>1, <2>2, <3>1 DEF Sent, At, Fresh
    <3> QED
      BY <2>2, <3>2 DEF Received, At, Fresh
  <2> QED
    BY <1>1, <2>1, <2>2, BeginIs
<1>3. ASSUME NEW f \in Names, Fetch(c, f) PROVE Part1Inv'
  <2>1. Begin(c, "fetch", f, "recv") /\ local' = [local EXCEPT ![c][f] = << >>]
    BY <1>3 DEF Fetch
  <2>2. local' \in [Clients -> [Names -> FileContents \union {Missing}]] /\ local'[c][f] = << >> /\ \A d \in Clients : d # c => local'[d] = local[d]
    BY <1>1, <2>1, NothingIs
  <2>3. ASSUME Fresh(c, "fetch", f, "recv")' PROVE Sent(c)' /\ Received(c)'
    <3>1. Mine(c)' = << >> /\ Mine(c)' \in FileContents
      BY <2>2, <2>3, NothingIs DEF Mine, Fresh
    <3>2. Received(c)'
      BY <2>3, <3>1 DEF Received, Fresh
    <3> QED
      BY <2>3, <3>2 DEF Sent, Fresh
  <2> QED
    BY <2>1, <2>2, <2>3, BeginIs
<1>4. ASSUME NEW cmd \in {"delete", "stat", "list"}, NEW f \in Names \union {None}, Unary(c, cmd, f) PROVE Part1Inv'
  <2>1. Begin(c, cmd, f, "wait") /\ local' = local
    BY <1>4 DEF Unary
  <2>2. ASSUME Fresh(c, cmd, f, "wait")' PROVE Sent(c)' /\ Received(c)'
    BY <1>4, <2>2 DEF Sent, Received, At, Fresh
  <2> QED
    BY <1>1, <1>4, <2>1, <2>2, BeginIs
<1> QED
  BY <1>2, <1>3, <1>4 DEF ProcessCommand

CliType == [pc : ClientPC, n : 0..MaxCalls, pos : Nat, status : {"none", "ok", "notfound", "deadline", "cancelled", "killed"}]

\* The call a client is in
LEMMA InCall ==
  ASSUME Part1Inv, NEW c \in Clients, ~At(c, "idle"), NEW k, k = Current(c)
  PROVE  /\ k \in Calls /\ k[1] = c /\ CallOK(k) /\ ClientOK(c) /\ Part1Types /\ call[k].cmd # "none" /\ cli[c].n > 0
         /\ cli[c] \in CliType /\ cli[c].pos \in Nat /\ cli[c].status # "ok"
<1>1. Part1Types /\ ClientOK(c)
  BY DEF Part1Inv
<1>2. cli[c].n > 0 /\ cli[c].status # "ok"
  BY <1>1 DEF ClientOK, Working, Active
<1>3. k \in Calls /\ k[1] = c /\ k[2] = cli[c].n /\ cli[c].n \in Nat
  BY <1>1, <1>2, CurrentIs
<1>4. CallOK(k)
  BY <1>3 DEF Part1Inv
<1>5. call[k].cmd # "none"
  BY <1>3, <1>4 DEF CallOK, Made
<1>6. cli[c] \in CliType /\ cli[c].pos \in Nat
  BY <1>1 DEF Part1Types, CliType
<1> QED
  BY <1>1, <1>2, <1>3, <1>4, <1>5, <1>6

\* A step in the middle of a call
LEMMA InCallFrame ==
  ASSUME Part1Inv, NEW c \in Clients, ~At(c, "idle"), NEW k, k = Current(c),
         UNCHANGED <<call, reply, srv, dir, disk, writers, seen>>,
         cli' \in [Clients -> CliType], cli'[c].n = cli[c].n, \A d \in Clients : d # c => cli'[d] = cli[d],
         local' \in [Clients -> [Names -> FileContents \union {Missing}]],
         over' \in [Calls -> {"no", "deadline", "killed"}],
         stream' \in [Calls -> Seq(Chunk \union {Empty})], shut' \in [Calls -> BOOLEAN],
         \A d \in Clients : d # c => local'[d] = local[d],
         \A j \in Calls : j # k => over'[j] = over[j] /\ stream'[j] = stream[j] /\ shut'[j] = shut[j],
         Flow(k)', ClientOK(c)'
  PROVE  Part1Inv'
<1>1. /\ k \in Calls /\ k[1] = c /\ CallOK(k) /\ Part1Types /\ call[k].cmd # "none"
  BY InCall
<1>2. Part1Types'
  BY <1>1 DEF Part1Types, CliType
<1>3. CallOK(k)'
  <2>1. Made(k)' /\ Serving(k)' /\ Reading(k)'
    BY <1>1 DEF CallOK, Made, Serving, Reading
  <2> QED
    BY <2>1 DEF CallOK
<1> QED
  BY <1>1, <1>2, <1>3, ClientFrame

\* Nothing of the call is over the wire but what was.
LEMMA SameFlow ==
  ASSUME NEW k, Flow(k), UNCHANGED <<call, srv>>, stream'[k] = stream[k] \/ call[k].cmd # "store"
  PROVE  Flow(k)'
BY DEF Flow, Storing

LEMMA ExpireStep ==
  ASSUME Part1Inv, NEW c \in Clients, Expire(c)
  PROVE  Part1Inv'
<1>1. PICK k : k = Current(c)
  OBVIOUS
<1>2. /\ ~At(c, "idle") /\ over' = [over EXCEPT ![k] = "deadline"]
      /\ UNCHANGED <<local, cli, call, stream, shut, reply, srv, dir, disk, writers, seen>>
  BY <1>1 DEF Expire, netVars, diskVars
<1>3. /\ k \in Calls /\ CallOK(k) /\ ClientOK(c) /\ Part1Types /\ cli[c] \in CliType /\ cli[c].status # "ok" /\ cli[c].n > 0
  BY <1>1, <1>2, InCall
<1>4. over' \in [Calls -> {"no", "deadline", "killed"}] /\ over'[k] = "deadline" /\ \A j \in Calls : j # k => over'[j] = over[j]
  BY <1>2, <1>3 DEF Part1Types
<1>5. Flow(k)'
  BY <1>2, <1>3, SameFlow DEF CallOK
<1>6. ClientOK(c)'
  <2>1. /\ Current(c)' = k /\ Cancelled(k)' /\ Mine(c)' = Mine(c) /\ (\A p : At(c, p)' <=> At(c, p)) /\ cli'[c] = cli[c]
    BY <1>1, <1>2, <1>4 DEF Current, Cancelled, Mine, At
  <2>2. ~Good(c)'
    BY <1>2, <2>1 DEF Good
  <2>3. Working(c)'
    BY <1>1, <1>2, <1>3, <2>1 DEF ClientOK, Working
  <2>4. Sent(c)'
    BY <1>1, <1>2, <1>3, <2>1 DEF ClientOK, Sent
  <2>5. Received(c)' /\ Fetching(c)'
    BY <1>1, <1>2, <1>3, <2>1 DEF ClientOK, Received, Fetching
  <2>6. Stored(c)' /\ Fetched(c)'
    BY <2>1, <2>2 DEF Stored, Fetched
  <2> QED
    BY <2>3, <2>4, <2>5, <2>6 DEF ClientOK
<1>7. cli' \in [Clients -> CliType] /\ stream' \in [Calls -> Seq(Chunk \union {Empty})] /\ shut' \in [Calls -> BOOLEAN]
  BY <1>2, <1>3 DEF Part1Types, CliType
<1>8. local' \in [Clients -> [Names -> FileContents \union {Missing}]]
  BY <1>2, <1>3 DEF Part1Types
<1> QED
  BY <1>1, <1>2, <1>3, <1>4, <1>5, <1>6, <1>7, <1>8, InCallFrame

\* A client that is idle with a call that did not succeed
LEMMA Idles ==
  ASSUME NEW c, At(c, "idle")', cli'[c].status # "ok"
  PROVE  ClientOK(c)'
BY DEF At, ClientOK, Working, Active, Sent, Stored, Received, Fetching, Fetched, Good

LEMMA SignalStep ==
  ASSUME Part1Inv, NEW c \in Clients, HandleSignal(c)
  PROVE  Part1Inv'
<1>1. PICK k : k = Current(c)
  OBVIOUS
<1>2. /\ ~At(c, "idle") /\ over' = [over EXCEPT ![k] = "killed"]
      /\ cli' = [cli EXCEPT ![c].pc = "idle", ![c].status = "killed"]
      /\ UNCHANGED <<local, call, stream, shut, reply, srv, dir, disk, writers, seen>>
  BY <1>1 DEF HandleSignal, Returns, netVars, diskVars
<1>3. /\ k \in Calls /\ CallOK(k) /\ Part1Types /\ cli[c] \in CliType
  BY <1>1, <1>2, InCall
<1>4. cli'[c] = [pc |-> "idle", n |-> cli[c].n, pos |-> cli[c].pos, status |-> "killed"] /\ \A d \in Clients : d # c => cli'[d] = cli[d]
  BY <1>2, <1>3 DEF Part1Types, CliType
<1>5. cli'[c] \in CliType
  BY <1>3, <1>4 DEF CliType, ClientPC
<1>6. cli' \in [Clients -> CliType]
  BY <1>2, <1>3, <1>5 DEF Part1Types, CliType
<1>7. over' \in [Calls -> {"no", "deadline", "killed"}] /\ \A j \in Calls : j # k => over'[j] = over[j]
  BY <1>2, <1>3 DEF Part1Types
<1>8. Flow(k)'
  BY <1>2, <1>3, SameFlow DEF CallOK
<1>9. ClientOK(c)'
  <2>1. At(c, "idle")' /\ cli'[c].status # "ok"
    BY <1>4 DEF At
  <2> QED
    BY <2>1, Idles
<1>10. /\ stream' \in [Calls -> Seq(Chunk \union {Empty})] /\ shut' \in [Calls -> BOOLEAN]
       /\ local' \in [Clients -> [Names -> FileContents \union {Missing}]]
  BY <1>2, <1>3 DEF Part1Types
<1>11. cli'[c].n = cli[c].n /\ \A d \in Clients : d # c => cli'[d] = cli[d]
  BY <1>4
<1> QED
  BY <1>1, <1>2, <1>6, <1>7, <1>8, <1>9, <1>10, <1>11, InCallFrame

\* The call returns OK only if the handler said so to a client that still listened.
LEMMA FinishStep ==
  ASSUME Part1Inv, NEW c \in Clients, Finish(c)
  PROVE  Part1Inv'
<1>1. PICK k : k = Current(c)
  OBVIOUS
<1> DEFINE s == Code(k)
<1>2. /\ At(c, "wait") /\ ~At(c, "idle") /\ (Cancelled(k) \/ reply[k] # "none")
      /\ cli' = [cli EXCEPT ![c].pc = "idle", ![c].status = s]
      /\ UNCHANGED <<local, call, over, stream, shut, reply, srv, dir, disk, writers, seen>>
  BY <1>1 DEF Finish, Returns, At, netVars, diskVars
<1>3. /\ k \in Calls /\ CallOK(k) /\ ClientOK(c) /\ Part1Types /\ cli[c] \in CliType /\ cli[c].n > 0
  BY <1>1, <1>2, InCall
<1>4. s \in {"ok", "notfound", "deadline", "cancelled"} /\ (s = "ok" => ~Cancelled(k) /\ reply[k] = "ok")
  <2>1. over[k] \in {"no", "deadline", "killed"}
    BY <1>3 DEF Part1Types
  <2> QED
    BY <2>1 DEF Code, Cancelled
<1> HIDE DEF s
<1>5. cli'[c] = [pc |-> "idle", n |-> cli[c].n, pos |-> cli[c].pos, status |-> s] /\ \A d \in Clients : d # c => cli'[d] = cli[d]
  BY <1>2, <1>3 DEF Part1Types, CliType
<1>6. cli'[c] \in CliType
  BY <1>3, <1>4, <1>5 DEF CliType, ClientPC
<1>7. cli' \in [Clients -> CliType]
  BY <1>2, <1>3, <1>6 DEF Part1Types, CliType
<1>8. Flow(k)'
  BY <1>2, <1>3, SameFlow DEF CallOK
<1>9. ClientOK(c)'
  <2>1. CASE s # "ok"
    <3>1. At(c, "idle")' /\ cli'[c].status # "ok"
      BY <1>5, <2>1 DEF At
    <3> QED
      BY <3>1, Idles
  <2>2. CASE s = "ok"
    <3>1. Good(c) /\ reply[k] = "ok" /\ ~Cancelled(k)
      BY <1>1, <1>2, <1>4, <2>2 DEF Good
    <3>2. /\ Current(c)' = k /\ Mine(c)' = Mine(c) /\ At(c, "idle")' /\ ~At(c, "wait")' /\ ~At(c, "send")' /\ ~At(c, "recv")'
          /\ cli'[c].n > 0 /\ reply'[k] = "ok"
      <4>1. cli'[c].n = cli[c].n /\ cli'[c].pc = "idle"
        BY <1>5
      <4>2. Current(c)' = k
        BY <1>1, <4>1 DEF Current
      <4> QED
        BY <1>1, <1>2, <1>3, <3>1, <4>1, <4>2 DEF Mine, At
    <3>3. Working(c)' /\ Sent(c)' /\ Received(c)' /\ Fetching(c)'
      BY <3>2 DEF Working, Sent, Received, Fetching
    <3>4. Stored(c)'
      BY <1>1, <1>2, <1>3, <3>1, <3>2 DEF ClientOK, Stored
    <3>5. Fetched(c)'
      BY <1>1, <1>2, <1>3, <3>1, <3>2 DEF ClientOK, Fetched
    <3> QED
      BY <3>3, <3>4, <3>5 DEF ClientOK
  <2> QED
    BY <2>1, <2>2
<1>10. /\ stream' \in [Calls -> Seq(Chunk \union {Empty})] /\ shut' \in [Calls -> BOOLEAN]
       /\ local' \in [Clients -> [Names -> FileContents \union {Missing}]] /\ over' \in [Calls -> {"no", "deadline", "killed"}]
  BY <1>2, <1>3 DEF Part1Types
<1> QED
  BY <1>1, <1>2, <1>5, <1>7, <1>8, <1>9, <1>10, InCallFrame

\* Store sends the next chunk; the short one is the last.
LEMMA SendStep ==
  ASSUME Part1Inv, NEW c \in Clients, Send(c)
  PROVE  Part1Inv'
<1>1. PICK k : k = Current(c)
  OBVIOUS
<1> DEFINE x == cli[c].pos
           f == Mine(c)
           m == ReadAt(f, x)
           M == stream[k]
           N == Append(M, m)
           at == IF Short(m) THEN "wait" ELSE "send"
<1>2. /\ At(c, "send") /\ ~At(c, "idle")
      /\ Cancelled(k) => stream' = stream
      /\ ~Cancelled(k) => stream' = [stream EXCEPT ![k] = N]
      /\ shut' = [shut EXCEPT ![k] = Short(m)]
      /\ cli' = [cli EXCEPT ![c].pos = @ + 1, ![c].pc = at]
      /\ UNCHANGED <<local, call, over, reply, srv, dir, disk, writers, seen>>
  BY <1>1 DEF Send, At, Mine, diskVars
<1>3. /\ k \in Calls /\ CallOK(k) /\ ClientOK(c) /\ Part1Types /\ cli[c] \in CliType /\ x \in Nat /\ cli[c].status # "ok" /\ cli[c].n > 0
  BY <1>1, <1>2, InCall
<1>4. call[k].cmd = "store"
  BY <1>1, <1>2, <1>3 DEF ClientOK, Working
<1>5. /\ f \in FileContents /\ x <= Len(f) /\ x < NChunks /\ ~shut[k] /\ (~Cancelled(k) => srv[k].pc # "done")
      /\ (~Cancelled(k) /\ Storing(k)) =>
           /\ \A j \in 1..Len(M) : M[j] = ReadAt(f, srv[k].pos + j - 1)
           /\ srv[k].pos + Len(M) = x /\ srv[k].buf = Empty
           /\ (srv[k].ino # None /\ writers[srv[k].ino] = {k}) => disk[srv[k].ino] = First(f, srv[k].pos)
  <2>1. ~At(c, "wait")
    BY <1>2 DEF At
  <2> QED
    BY <1>1, <1>2, <1>3, <1>4, <2>1 DEF ClientOK, Sent
<1>6. /\ m \in Chunk \union {Empty} /\ Fit(m, x + 1) /\ (Short(m) => x + 1 = Total(f)) /\ (~Short(m) => x + 1 <= Len(f) /\ x + 1 < NChunks)
      /\ Len(f) \in Nat /\ NChunks \in Nat
  BY <1>3, <1>5, ReadIs, ContentsAre
<1>7. /\ M \in Seq(Chunk \union {Empty}) /\ srv[k].pos \in Nat /\ stream \in [Calls -> Seq(Chunk \union {Empty})] /\ shut \in [Calls -> BOOLEAN]
  BY <1>3 DEF Part1Types, Handlers
<1>8. /\ N \in Seq(Chunk \union {Empty}) /\ Len(M) \in Nat /\ Len(N) = Len(M) + 1
      /\ \A j \in 1..Len(N) : (j \in 1..Len(M) /\ N[j] = M[j]) \/ (j = Len(M) + 1 /\ N[j] = m)
  <2>1. /\ N \in Seq(Chunk \union {Empty}) /\ Len(M) \in Nat /\ Len(N) = Len(M) + 1
        /\ N[Len(M) + 1] = m /\ \A j \in 1..Len(M) : N[j] = M[j]
    BY <1>6, <1>7, AppendIs
  <2> HIDE DEF N, M, m
  <2> QED
    BY <2>1
<1> HIDE DEF N, m, f
<1>9. /\ stream' \in [Calls -> Seq(Chunk \union {Empty})] /\ (\A j \in Calls : j # k => stream'[j] = stream[j])
      /\ (Cancelled(k) => stream'[k] = M) /\ (~Cancelled(k) => stream'[k] = N)
  <2>1. CASE Cancelled(k)
    BY <1>2, <1>7, <2>1
  <2>2. CASE ~Cancelled(k)
    BY <1>2, <1>3, <1>7, <1>8, <2>2
  <2> QED
    BY <2>1, <2>2
<1>10. shut' \in [Calls -> BOOLEAN] /\ (\A j \in Calls : j # k => shut'[j] = shut[j]) /\ (shut'[k] <=> Short(m))
  <2>1. Short(m) \in BOOLEAN
    BY DEF Short
  <2> QED
    BY <1>2, <1>3, <1>7, <2>1
<1> HIDE DEF x, M
<1>11. cli'[c] = [pc |-> at, n |-> cli[c].n, pos |-> x + 1, status |-> cli[c].status] /\ \A d \in Clients : d # c => cli'[d] = cli[d]
  BY <1>2, <1>3 DEF Part1Types, CliType, x
<1>12. at \in {"wait", "send"} /\ (at = "wait" <=> Short(m))
  OBVIOUS
<1> HIDE DEF at
<1>13. /\ cli'[c].pc = at /\ cli'[c].n = cli[c].n /\ cli'[c].pos = x + 1 /\ cli'[c].status = cli[c].status
  BY <1>11
<1>14. cli' \in [Clients -> CliType]
  <2>1. cli'[c] \in CliType
    BY <1>3, <1>11, <1>12 DEF CliType, ClientPC
  <2> QED
    BY <1>2, <1>3, <2>1 DEF Part1Types, CliType
<1>15. ASSUME ~Cancelled(k), Storing(k)
       PROVE  /\ \A j \in 1..Len(N) : N[j] = ReadAt(f, srv[k].pos + j - 1) /\ Fit(N[j], srv[k].pos + j) /\ (Short(N[j]) => j = Len(N))
              /\ srv[k].pos + Len(N) = x + 1 /\ srv[k].buf = Empty
  <2> DEFINE p == srv[k].pos
  <2>1. /\ p \in Nat /\ p + Len(M) = x /\ srv[k].buf = Empty /\ \A j \in 1..Len(M) : M[j] = ReadAt(f, p + j - 1)
    BY <1>5, <1>7, <1>15
  <2> HIDE DEF p
  <2>2. ASSUME NEW j \in 1..Len(N) PROVE N[j] = ReadAt(f, p + j - 1) /\ Fit(N[j], p + j) /\ (Short(N[j]) => j = Len(N))
    <3>1. CASE j = Len(M) + 1 /\ N[j] = m
      <4>1. p + j - 1 = x /\ p + j = x + 1
        <5>1. p \in Nat /\ Len(M) \in Nat /\ p + Len(M) = x /\ j = Len(M) + 1
          BY <1>8, <2>1, <3>1
        <5> QED
          BY <5>1
      <4> QED
        BY <1>6, <1>8, <3>1, <4>1 DEF m
    <3>2. CASE j \in 1..Len(M) /\ N[j] = M[j]
      <4> DEFINE q == p + j - 1
      <4>1. q \in Nat /\ q + 1 = p + j /\ q + 1 <= x
        BY <1>3, <1>8, <2>1, <3>2
      <4>2. N[j] = ReadAt(f, q)
        BY <2>1, <3>2
      <4> HIDE DEF q
      <4>3. q <= Len(f) /\ q < NChunks /\ q + 1 <= Len(f) /\ q + 1 < NChunks
        BY <1>3, <1>5, <1>6, <4>1
      <4>4. Fit(ReadAt(f, q), q + 1) /\ (Short(ReadAt(f, q)) => q + 1 = Total(f))
        BY <1>5, <4>1, <4>3, ReadIs
      <4>5. q + 1 # Total(f)
        BY <1>6, <4>1, <4>3 DEF Total
      <4> QED
        BY <4>1, <4>2, <4>4, <4>5 DEF q
    <3> QED
      BY <1>8, <3>1, <3>2
  <2>3. p + Len(N) = x + 1
    BY <1>3, <1>8, <2>1
  <2> QED
    BY <2>1, <2>2, <2>3 DEF p
<1>16. Flow(k)'
  <2>1. CASE Cancelled(k)
    BY <1>2, <1>3, <1>9, <2>1, SameFlow DEF CallOK, M
  <2>2. CASE ~Cancelled(k)
    <3>1. SUFFICES ASSUME Storing(k)' PROVE Flow(k)'
      BY DEF Flow
    <3>2. Storing(k) /\ srv'[k] = srv[k]
      BY <1>2, <3>1 DEF Storing
    <3>3. stream'[k] = N /\ Fit(srv[k].buf, srv[k].pos + 1)
      BY <1>9, <1>15, <2>2, <3>2 DEF Fit
    <3> QED
      BY <1>15, <2>2, <3>2, <3>3 DEF Flow
  <2> QED
    BY <2>1, <2>2
<1>17. ClientOK(c)'
  <2>1. /\ Current(c)' = k /\ Mine(c)' = f /\ (Cancelled(k)' <=> Cancelled(k)) /\ (Storing(k)' <=> Storing(k)) /\ call'[k].cmd = "store"
        /\ (At(c, "send")' <=> ~Short(m)) /\ (At(c, "wait")' <=> Short(m)) /\ ~At(c, "recv")' /\ ~At(c, "idle")'
        /\ cli'[c].n > 0 /\ cli'[c].status # "ok"
    <3>1. Current(c)' = k
      BY <1>1, <1>13 DEF Current
    <3>2. Mine(c)' = f
      BY <1>1, <1>2, <3>1 DEF Mine, f
    <3> QED
      BY <1>2, <1>3, <1>4, <1>12, <1>13, <3>1, <3>2 DEF At, Cancelled, Storing
  <2>2. Working(c)'
    BY <2>1 DEF Working
  <2>3. Sent(c)'
    <3>1. At(c, "send")' => cli'[c].pos <= Len(f) /\ cli'[c].pos < NChunks /\ ~shut'[k] /\ (~Cancelled(k)' => srv'[k].pc # "done")
      BY <1>2, <1>5, <1>6, <1>10, <1>13, <2>1
    <3>2. At(c, "wait")' => cli'[c].pos = Total(f)
      BY <1>6, <1>13, <2>1
    <3>3. (~Cancelled(k)' /\ Storing(k)') =>
            /\ \A j \in 1..Len(stream'[k]) : stream'[k][j] = ReadAt(f, srv'[k].pos + j - 1)
            /\ srv'[k].pos + Len(stream'[k]) = cli'[c].pos /\ srv'[k].buf = Empty
            /\ (srv'[k].ino # None /\ writers'[srv'[k].ino] = {k}) => disk'[srv'[k].ino] = First(f, srv'[k].pos)
      BY <1>2, <1>5, <1>9, <1>13, <1>15, <2>1
    <3> QED
      BY <1>5, <2>1, <3>1, <3>2, <3>3 DEF Sent
  <2>4. ~Good(c)'
    <3>1. ~Cancelled(k) => reply[k] = "none"
      BY <1>3, <1>5 DEF CallOK, Serving
    <3> QED
      BY <1>2, <2>1, <3>1 DEF Good
  <2>5. Stored(c)' /\ Received(c)' /\ Fetching(c)' /\ Fetched(c)'
    BY <2>1, <2>4 DEF Stored, Received, Fetching, Fetched
  <2> QED
    BY <2>2, <2>3, <2>5 DEF ClientOK
<1>18. local' \in [Clients -> [Names -> FileContents \union {Missing}]] /\ over' \in [Calls -> {"no", "deadline", "killed"}]
  BY <1>2, <1>3 DEF Part1Types
<1> QED
  BY <1>1, <1>2, <1>9, <1>10, <1>11, <1>13, <1>14, <1>16, <1>17, <1>18, InCallFrame

\* Fetch writes what it reads where the last chunk ended.
LEMMA RecvStep ==
  ASSUME Part1Inv, NEW c \in Clients, Recv(c)
  PROVE  Part1Inv'
<1>1. PICK k : k = Current(c)
  OBVIOUS
<1> DEFINE x == cli[c].pos
           e == Mine(c)
           M == stream[k]
           m == Head(M)
           N == Tail(M)
           y == IF m = Empty THEN x ELSE x + 1
           w == WriteAt(e, x, m)
           d == seen[k]
<1>2. /\ At(c, "recv") /\ ~At(c, "idle") /\ M # << >>
      /\ local' = [local EXCEPT ![c][call[k].name] = w]
      /\ stream' = [stream EXCEPT ![k] = N]
      /\ cli' = [cli EXCEPT ![c].pos = y]
      /\ UNCHANGED <<call, over, shut, reply, srv, dir, disk, writers, seen>>
  BY <1>1 DEF Recv, At, Mine, diskVars
<1>3. /\ k \in Calls /\ CallOK(k) /\ ClientOK(c) /\ Part1Types /\ cli[c] \in CliType /\ x \in Nat /\ cli[c].status # "ok" /\ cli[c].n > 0
  BY <1>1, <1>2, InCall
<1>4. call[k].cmd = "fetch" /\ call[k].name \in Names
  BY <1>1, <1>2, <1>3 DEF ClientOK, Working, CallOK, Made
<1>5. /\ M \in Seq(Chunk \union {Empty}) /\ stream \in [Calls -> Seq(Chunk \union {Empty})]
      /\ local \in [Clients -> [Names -> FileContents \union {Missing}]] /\ d \in FileContents \union {None}
  BY <1>3 DEF Part1Types
<1>6. /\ N \in Seq(Chunk \union {Empty}) /\ Len(M) \in Nat /\ Len(M) >= 1 /\ Len(N) = Len(M) - 1
      /\ m = M[1] /\ 1 \in 1..Len(M)
      /\ \A j \in 1..Len(N) : N[j] = M[j + 1] /\ j + 1 \in 1..Len(M)
      /\ Len(M) = 1 => N = << >>
  <2>1. /\ N \in Seq(Chunk \union {Empty}) /\ Len(M) \in Nat /\ Len(M) >= 1 /\ Len(N) = Len(M) - 1
        /\ m = M[1] /\ (\A j \in 1..Len(N) : N[j] = M[j + 1] /\ j + 1 \in 1..Len(M))
        /\ Len(M) = 1 => N = << >>
    BY <1>2, <1>5, TailIs
  <2>2. 1 \in 1..Len(M)
    BY <2>1
  <2> QED
    BY <2>1, <2>2
<1>7. /\ e \in FileContents
      /\ \A j \in 1..Len(M) : Fit(M[j], x + j) /\ (M[j] = Empty => \A l \in j..Len(M) : M[l] = Empty)
      /\ ~(~Cancelled(k) /\ srv[k].pc = "none")
      /\ (~Cancelled(k) /\ srv[k].pc \in {"read", "push"} /\ srv[k].ino = None) => \A j \in 1..Len(M) : M[j] = Empty
      /\ (~Cancelled(k) /\ srv[k].pc \in {"read", "push"} /\ srv[k].ino # None) =>
           srv[k].pos = x + Len(M) /\ \A j \in 1..Len(M) : M[j] # Empty
  BY <1>1, <1>2, <1>3 DEF ClientOK, Received
<1>8. (~Cancelled(k) /\ d # None) =>
       /\ x <= Len(d) /\ e = First(d, x)
       /\ \A j \in 1..Len(M) : M[j] = ReadAt(d, x + j - 1)
       /\ srv[k].pc \in {"read", "push"} => srv[k].pos <= Len(d) /\ srv[k].pos < NChunks
       /\ srv[k].pc = "push" => srv[k].buf = ReadAt(d, srv[k].pos)
       /\ srv[k].pc = "done" => x + Len(M) = Total(d)
  BY <1>1, <1>2, <1>3 DEF ClientOK, Fetching
<1> HIDE DEF N, m, e, d, M
<1>9. Fit(m, x + 1) /\ w \in FileContents
  BY <1>3, <1>6, <1>7, WriteIs
<1> HIDE DEF w
<1>10. /\ local' \in [Clients -> [Names -> FileContents \union {Missing}]] /\ local'[c][call[k].name] = w
       /\ \A b \in Clients : b # c => local'[b] = local[b]
  BY <1>2, <1>4, <1>5, <1>9
<1>11. stream' \in [Calls -> Seq(Chunk \union {Empty})] /\ stream'[k] = N /\ \A j \in Calls : j # k => stream'[j] = stream[j]
  BY <1>2, <1>3, <1>5, <1>6
<1>12. y \in Nat /\ (m = Empty => y = x) /\ (m # Empty => y = x + 1)
  BY <1>3
<1> HIDE DEF y
<1>13. cli'[c] = [pc |-> cli[c].pc, n |-> cli[c].n, pos |-> y, status |-> cli[c].status] /\ \A b \in Clients : b # c => cli'[b] = cli[b]
  BY <1>2, <1>3 DEF Part1Types, CliType
<1>14. cli'[c].pc = cli[c].pc /\ cli'[c].n = cli[c].n /\ cli'[c].pos = y /\ cli'[c].status = cli[c].status
  BY <1>13
<1>15. cli' \in [Clients -> CliType]
  <2>1. cli'[c] \in CliType
    BY <1>3, <1>12, <1>13 DEF CliType
  <2> QED
    BY <1>2, <1>3, <2>1 DEF Part1Types, CliType
<1> HIDE DEF x
<1>16. Flow(k)'
  BY <1>2, <1>3, <1>4, SameFlow DEF CallOK
<1>17. /\ Current(c)' = k /\ Mine(c)' = w /\ (Cancelled(k)' <=> Cancelled(k)) /\ (\A p : At(c, p)' <=> At(c, p))
  <2>1. Current(c)' = k
    BY <1>1, <1>14 DEF Current
  <2> QED
    BY <1>2, <1>10, <1>14, <2>1 DEF Mine, Cancelled, At
<1>18. Received(c)'
  <2>1. ASSUME NEW j \in 1..Len(N) PROVE Fit(N[j], y + j) /\ (N[j] = Empty => \A l \in j..Len(N) : N[l] = Empty)
    <3>1. Fit(N[j], y + j)
      <4>1. CASE m = Empty
        <5>1. j + 1 \in 1..Len(M) /\ N[j] = M[j + 1]
          BY <1>6
        <5>2. M[j + 1] = Empty
          BY <1>6, <1>7, <4>1, <5>1
        <5> QED
          BY <5>1, <5>2 DEF Fit
      <4>2. CASE m # Empty
        <5>1. y + j = x + (j + 1)
          BY <1>3, <1>12, <4>2
        <5> QED
          BY <1>6, <1>7, <5>1
      <4> QED
        BY <4>1, <4>2
    <3>2. ASSUME N[j] = Empty, NEW l \in j..Len(N) PROVE N[l] = Empty
      <4>1. l \in 1..Len(N) /\ l + 1 \in (j + 1)..Len(M)
        BY <1>6
      <4>2. N[j] = M[j + 1] /\ N[l] = M[l + 1] /\ j + 1 \in 1..Len(M)
        BY <1>6, <4>1
      <4> QED
        BY <1>7, <3>2, <4>1, <4>2
    <3> QED
      BY <3>1, <3>2
  <2>2. (~Cancelled(k) /\ srv[k].pc \in {"read", "push"} /\ srv[k].ino = None) => \A j \in 1..Len(N) : N[j] = Empty
    BY <1>6, <1>7
  <2>3. (~Cancelled(k) /\ srv[k].pc \in {"read", "push"} /\ srv[k].ino # None) =>
          srv[k].pos = y + Len(N) /\ \A j \in 1..Len(N) : N[j] # Empty
    <3>1. SUFFICES ASSUME ~Cancelled(k), srv[k].pc \in {"read", "push"}, srv[k].ino # None
                   PROVE  srv[k].pos = y + Len(N) /\ \A j \in 1..Len(N) : N[j] # Empty
      OBVIOUS
    <3>2. srv[k].pos = x + Len(M) /\ \A j \in 1..Len(M) : M[j] # Empty
      BY <1>7, <3>1
    <3>3. y = x + 1
      BY <1>6, <1>12, <3>2
    <3> QED
      BY <1>3, <1>6, <3>2, <3>3
  <2> QED
    BY <1>2, <1>7, <1>9, <1>11, <1>14, <1>17, <2>1, <2>2, <2>3 DEF Received
<1>19. Fetching(c)'
  <2>1. SUFFICES ASSUME ~Cancelled(k), d # None
                 PROVE  /\ y <= Len(d) /\ w = First(d, y)
                        /\ \A j \in 1..Len(N) : N[j] = ReadAt(d, y + j - 1)
                        /\ srv[k].pc = "done" => y + Len(N) = Total(d) \/ (N = << >> /\ y = Len(d))
    BY <1>2, <1>8, <1>11, <1>14, <1>17 DEF Fetching, d
  <2>2. /\ x <= Len(d) /\ e = First(d, x)
        /\ \A j \in 1..Len(M) : M[j] = ReadAt(d, x + j - 1)
        /\ srv[k].pc = "done" => x + Len(M) = Total(d)
    BY <1>8, <2>1
  <2>3. d \in FileContents /\ Len(d) \in Nat /\ NChunks \in Nat
    BY <1>5, <2>1, ContentsAre
  <2>4. m = ReadAt(d, x)
    <3>1. x + 1 - 1 = x
      BY <1>3
    <3> QED
      BY <1>6, <2>2, <3>1
  <2>5. m = Empty <=> x >= Len(d)
    BY <1>3, <2>3, <2>4, ReadIs
  <2>6. w = First(d, x + 1)
    BY <1>3, <2>2, <2>3, <2>4, FirstIs DEF w
  <2>7. \A j \in 1..Len(N) : N[j] = ReadAt(d, x + j)
    <3>1. ASSUME NEW j \in 1..Len(N) PROVE N[j] = ReadAt(d, x + j)
      <4>1. x + (j + 1) - 1 = x + j
        BY <1>3
      <4> QED
        BY <1>6, <2>2, <4>1
    <3> QED
      BY <3>1
  <2>8. CASE m = Empty
    <3>1. y = x /\ x = Len(d)
      BY <1>3, <1>12, <2>2, <2>3, <2>5, <2>8
    <3>2. w = First(d, y)
      <4>1. x \in Nat /\ x + 1 \in Nat /\ x >= Len(d) /\ x + 1 >= Len(d)
        BY <1>3, <2>3, <3>1
      <4>2. First(d, x) = d /\ First(d, x + 1) = d
        BY <2>3, <4>1, FirstIs
      <4> QED
        BY <2>6, <3>1, <4>2
    <3>3. ASSUME NEW j \in 1..Len(N) PROVE N[j] = ReadAt(d, y + j - 1)
      <4>1. x + j \in Nat /\ x + j >= Len(d) /\ y + j - 1 \in Nat /\ y + j - 1 >= Len(d)
        BY <1>3, <2>3, <3>1
      <4>2. ReadAt(d, x + j) = Empty /\ ReadAt(d, y + j - 1) = Empty
        BY <2>3, <4>1, ReadIs
      <4> QED
        BY <2>7, <4>2
    <3>4. srv[k].pc = "done" => N = << >>
      <4>1. Total(d) <= Len(d) + 1 /\ Total(d) \in Nat
        BY <2>3 DEF Total
      <4>2. x + Len(M) = Total(d) => Len(M) = 1
        BY <1>3, <1>6, <2>3, <3>1, <4>1
      <4> QED
        BY <1>6, <2>2, <4>2
    <3>5. y = Len(d) /\ y <= Len(d)
      BY <2>3, <3>1
    <3> QED
      BY <3>2, <3>3, <3>4, <3>5
  <2>9. CASE m # Empty
    <3>1. y = x + 1 /\ x < Len(d)
      BY <1>3, <1>12, <2>3, <2>5, <2>9
    <3>2. ASSUME NEW j \in 1..Len(N) PROVE N[j] = ReadAt(d, y + j - 1)
      <4>1. y + j - 1 = x + j
        BY <1>3, <3>1
      <4> QED
        BY <2>7, <4>1
    <3>3. y + Len(N) = x + Len(M)
      BY <1>3, <1>6, <3>1
    <3>4. y <= Len(d)
      BY <1>3, <2>3, <3>1
    <3> QED
      BY <2>2, <2>6, <3>1, <3>2, <3>3, <3>4
  <2> QED
    BY <2>8, <2>9
<1>20. ClientOK(c)'
  <2>1. ~At(c, "wait")' /\ ~At(c, "send")' /\ ~At(c, "idle")' /\ cli'[c].status # "ok" /\ call'[k].cmd = "fetch" /\ cli'[c].n > 0
    BY <1>2, <1>3, <1>4, <1>14, <1>17 DEF At
  <2>2. Working(c)' /\ Sent(c)' /\ Stored(c)' /\ Fetched(c)'
    BY <1>17, <2>1 DEF Working, Sent, Stored, Fetched, Good
  <2> QED
    BY <1>18, <1>19, <2>2 DEF ClientOK
<1>21. over' \in [Calls -> {"no", "deadline", "killed"}] /\ shut' \in [Calls -> BOOLEAN]
  BY <1>2, <1>3 DEF Part1Types
<1> QED
  BY <1>1, <1>2, <1>10, <1>11, <1>13, <1>14, <1>15, <1>16, <1>20, <1>21, InCallFrame

\* Fetch has read all that came.
LEMMA RecvEndStep ==
  ASSUME Part1Inv, NEW c \in Clients, RecvEnd(c)
  PROVE  Part1Inv'
<1>1. PICK k : k = Current(c)
  OBVIOUS
<1>2. /\ At(c, "recv") /\ ~At(c, "idle") /\ (Cancelled(k) \/ (stream[k] = << >> /\ reply[k] # "none"))
      /\ cli' = [cli EXCEPT ![c].pc = "wait"] /\ stream' = [stream EXCEPT ![k] = << >>]
      /\ UNCHANGED <<local, call, over, shut, reply, srv, dir, disk, writers, seen>>
  BY <1>1 DEF RecvEnd, At, diskVars
<1>3. /\ k \in Calls /\ CallOK(k) /\ ClientOK(c) /\ Part1Types /\ cli[c] \in CliType /\ cli[c].pos \in Nat /\ cli[c].status # "ok" /\ cli[c].n > 0
  BY <1>1, <1>2, InCall
<1>4. call[k].cmd = "fetch"
  BY <1>1, <1>2, <1>3 DEF ClientOK, Working
<1>5. stream' \in [Calls -> Seq(Chunk \union {Empty})] /\ stream'[k] = << >> /\ \A j \in Calls : j # k => stream'[j] = stream[j]
  BY <1>2, <1>3, EmptySeq DEF Part1Types
<1>6. cli'[c] = [pc |-> "wait", n |-> cli[c].n, pos |-> cli[c].pos, status |-> cli[c].status] /\ \A b \in Clients : b # c => cli'[b] = cli[b]
  BY <1>2, <1>3 DEF Part1Types, CliType
<1>7. cli'[c].pc = "wait" /\ cli'[c].n = cli[c].n /\ cli'[c].status = cli[c].status
  BY <1>6
<1>8. cli' \in [Clients -> CliType]
  <2>1. cli'[c] \in CliType
    BY <1>3, <1>6 DEF CliType, ClientPC
  <2> QED
    BY <1>2, <1>3, <2>1 DEF Part1Types, CliType
<1>9. Flow(k)'
  BY <1>2, <1>3, <1>4, SameFlow DEF CallOK
<1>10. ASSUME ~Cancelled(k), seen[k] # None PROVE Mine(c) = seen[k]
  <2> DEFINE d == seen[k]
             x == cli[c].pos
  <2>1. stream[k] = << >> /\ srv[k].pc = "done" /\ Len(stream[k]) = 0
    BY <1>2, <1>3, <1>10, NothingIs DEF CallOK, Serving
  <2>2. Mine(c) = First(d, x) /\ (x + 0 = Total(d) \/ x = Len(d))
    BY <1>1, <1>2, <1>3, <1>10, <2>1 DEF ClientOK, Fetching
  <2>3. d \in FileContents /\ Len(d) \in Nat /\ Total(d) >= Len(d) /\ Total(d) \in Nat
    BY <1>3, <1>10, ContentsAre DEF Part1Types, Total
  <2>4. x >= Len(d)
    BY <1>3, <2>2, <2>3
  <2> QED
    BY <1>3, <2>2, <2>3, <2>4, FirstIs
<1>11. ClientOK(c)'
  <2>1. /\ Current(c)' = k /\ (Cancelled(k)' <=> Cancelled(k)) /\ At(c, "wait")' /\ ~At(c, "recv")' /\ ~At(c, "send")' /\ ~At(c, "idle")'
    BY <1>1, <1>2, <1>7 DEF Current, Cancelled, At
  <2>2. Mine(c)' = Mine(c)
    BY <1>1, <1>2, <2>1 DEF Mine
  <2>3. Working(c)'
    BY <1>2, <1>3, <1>7, <2>1 DEF Working
  <2>4. Sent(c)' /\ Stored(c)' /\ Received(c)' /\ Fetching(c)'
    BY <1>2, <1>4, <2>1 DEF Sent, Stored, Received, Fetching
  <2>5. Fetched(c)'
    BY <1>2, <1>10, <2>1, <2>2 DEF Fetched, Good
  <2> QED
    BY <2>3, <2>4, <2>5 DEF ClientOK
<1>12. /\ over' \in [Calls -> {"no", "deadline", "killed"}] /\ shut' \in [Calls -> BOOLEAN]
       /\ local' \in [Clients -> [Names -> FileContents \union {Missing}]]
  BY <1>2, <1>3 DEF Part1Types
<1> QED
  BY <1>1, <1>2, <1>5, <1>6, <1>7, <1>8, <1>9, <1>11, <1>12, InCallFrame
-----------------------------------------------------------------------------
(* The theorems *)

LEMMA Part1InitInv == Part1Init => Part1Inv
<1> SUFFICES ASSUME Part1Init PROVE Part1Inv
  OBVIOUS
<1>1. /\ cli = [c \in Clients |-> Idle] /\ call = [k \in Calls |-> [cmd |-> "none", name |-> None]]
      /\ over = [k \in Calls |-> "no"] /\ stream = [k \in Calls |-> << >>] /\ shut = [k \in Calls |-> FALSE]
      /\ reply = [k \in Calls |-> "none"] /\ srv = [k \in Calls |-> Asleep]
      /\ writers = [i \in Inodes |-> {}] /\ seen = [k \in Calls |-> None] /\ dir = [f \in Files |-> f]
  BY DEF Part1Init
<1>2. Part1Types
  <2>1. local \in [Clients -> [Names -> FileContents \union {Missing}]]
    <3>1. ASSUME NEW c \in Clients, NEW f \in Names
          PROVE  (IF f \in Held THEN Whole(c) ELSE Missing) \in FileContents \union {Missing}
      BY WholeIs
    <3> QED
      BY <3>1 DEF Part1Init
  <2>2. disk \in [Inodes -> FileContents]
    <3>1. ASSUME NEW i \in Inodes PROVE (IF i \in Files THEN Whole(i) ELSE << >>) \in FileContents
      BY WholeIs, NothingIs
    <3> QED
      BY <3>1 DEF Part1Init
  <2>3. stream \in [Calls -> Seq(Chunk \union {Empty})]
    BY <1>1, EmptySeq
  <2>4. cli \in [Clients -> CliType]
    BY <1>1, Part1Assumption DEF CliType, ClientPC, Idle
  <2>5. srv \in [Calls -> Handlers]
    BY <1>1 DEF Handlers, HandlerPC, Asleep
  <2>6. dir \in [Files -> Inodes \union {None}]
    BY <1>1 DEF Inodes
  <2> QED
    BY <1>1, <2>1, <2>2, <2>3, <2>4, <2>5, <2>6 DEF Part1Types, CliType
<1>3. Opened
  BY <1>1 DEF Opened, OpenStores, Asleep
<1>4. ASSUME NEW k \in Calls PROVE CallOK(k)
  <2>1. k[1] \in Clients /\ k[2] \in 1..MaxCalls
    BY DEF Calls
  <2>2. cli[k[1]].n = 0 /\ k[2] > 0
    BY <1>1, <2>1 DEF Idle
  <2>3. Made(k)
    BY <1>1, <2>2 DEF Made, Asleep
  <2>4. Serving(k) /\ Flow(k) /\ Reading(k)
    BY <1>1 DEF Serving, Flow, Storing, Reading, Asleep
  <2> QED
    BY <2>3, <2>4 DEF CallOK
<1>5. ASSUME NEW c \in Clients PROVE ClientOK(c)
  BY <1>1 DEF At, ClientOK, Working, Active, Sent, Stored, Received, Fetching, Fetched, Good, Idle
<1> QED
  BY <1>2, <1>3, <1>4, <1>5 DEF Part1Inv

LEMMA Part1NextInv == Part1Inv /\ [Part1Next]_part1Vars => Part1Inv'
<1> SUFFICES ASSUME Part1Inv, [Part1Next]_part1Vars PROVE Part1Inv'
  OBVIOUS
<1>1. ASSUME NEW c \in Clients, ProcessCommand(c) PROVE Part1Inv'
  BY <1>1, CommandStep
<1>2. ASSUME NEW c \in Clients, Client(c) PROVE Part1Inv'
  BY <1>2, SendStep, RecvStep, RecvEndStep, FinishStep DEF Client
<1>3. ASSUME NEW c \in Clients, Expire(c) \/ HandleSignal(c) PROVE Part1Inv'
  BY <1>3, ExpireStep, SignalStep
<1>4. ASSUME NEW k \in Calls, Serve(k) PROVE Part1Inv'
  BY <1>4, ServeStep
<1>5. CASE UNCHANGED part1Vars
  <2>1. ASSUME NEW k \in Calls PROVE CallOK(k)'
    BY <1>5, SameCall DEF Part1Inv, part1Vars, netVars, diskVars
  <2>2. ASSUME NEW c \in Clients PROVE ClientOK(c)'
    BY <1>5, SameClient DEF Part1Inv, part1Vars, netVars, diskVars
  <2>3. Part1Types' /\ Opened'
    BY <1>5 DEF Part1Inv, Part1Types, Opened, OpenStores, part1Vars, netVars, diskVars
  <2> QED
    BY <2>1, <2>2, <2>3 DEF Part1Inv
<1> QED
  BY <1>1, <1>2, <1>3, <1>4, <1>5 DEF Part1Next

\* What a user has sent, what is under way and what the handler has written, or has
\* read, has sent and the user has written, make up one file at every step.
THEOREM Part1Invariance == Part1Spec => []Part1Inv
BY Part1InitInv, Part1NextInv, PTL DEF Part1Spec

\* A Store that returned OK and was alone with the file has stored the file of the
\* mount directory, whatever earlier handlers of cancelled calls, deadlines and the
\* buffer of the ofstream did in between.
THEOREM StoreIsWhole == Part1Spec => []StoredAlone
<1>1. Part1Inv => StoredAlone
  <2> SUFFICES ASSUME Part1Inv, NEW c \in Clients, NEW k, k = Current(c), NEW i, i = srv[k].ino,
                      Returned(c, "store"), i # None, writers[i] = {k}
               PROVE  disk[i] = local[c][call[k].name]
    BY DEF StoredAlone
  <2>1. Stored(c)
    BY DEF Part1Inv, ClientOK
  <2> QED
    BY <2>1 DEF Stored, Good, Mine, Returned
<1> QED
  BY <1>1, Part1Invariance, PTL

\* A Fetch that returned OK has brought the file as it was when FetchFile opened it,
\* unless a store wrote to it meanwhile.
THEOREM FetchIsWhole == Part1Spec => []FetchedAlone
<1>1. Part1Inv => FetchedAlone
  <2> SUFFICES ASSUME Part1Inv, NEW c \in Clients, NEW k, k = Current(c), Returned(c, "fetch"), seen[k] # None
               PROVE  local[c][call[k].name] = seen[k]
    BY DEF FetchedAlone
  <2>1. Fetched(c)
    BY DEF Part1Inv, ClientOK
  <2> QED
    BY <2>1 DEF Fetched, Good, Mine, Returned
<1> QED
  BY <1>1, Part1Invariance, PTL
=============================================================================
