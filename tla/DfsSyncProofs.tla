--------------------------- MODULE DfsSyncProofs ---------------------------
(***************************************************************************)
(* Theorems about mounted clients and the server, for any number of        *)
(* clients, mounts, edits and commands: the two threads of a client never  *)
(* cut a file, and never empty one that the server has not removed.        *)
(***************************************************************************)
EXTENDS DfsSync, TLAPS

Contents == Seq(Chunks)

PCs == {"idle", "lock", "compare", "send", "dlock", "remove", "status", "get", "recv"}
Ops == [pc : PCs, pos : Nat, src : Contents \union {Live}, linked : BOOLEAN, crc : Contents]

Types ==
  /\ disk \in Contents \union {Absent}
  /\ local \in [Clients -> Contents \union {Absent}]
  /\ session \in [Clients -> Nat] /\ commands \in [Clients -> Nat]
  /\ mounted \in [Clients -> BOOLEAN]
  /\ mutex \in [Clients -> {"free", "watcher", "async"}]
  /\ op \in [Procs -> Ops]
  /\ changes \in 0..MaxChanges

\* What the threads of a mounted client do, and that they do it under the mutex
WatcherPCs == {"idle", "lock", "compare", "send", "dlock", "remove"}
AsyncPCs == {"idle", "status", "get", "recv"}
Roles ==
  \A c \in Clients :
    /\ op[<<c, "watcher">>].pc \in WatcherPCs
    /\ op[<<c, "async">>].pc \in AsyncPCs
    /\ op[<<c, "watcher">>].pc # "idle" => mutex[c] = "watcher" /\ mounted[c]
    /\ op[<<c, "async">>].pc # "idle" => mutex[c] = "async" /\ mounted[c]

\* A StoreFile or DeleteFile under way has the write lock.
Locking == {"compare", "send", "remove"}
Locked == \A p \in Procs : op[p].pc \in Locking => owner = Id(p)

\* Where the fields of an operation are as at its start
Fresh ==
  \A p \in Procs :
    /\ op[p].pc \notin Streaming => op[p].pos = 0
    /\ op[p].pc \in {"idle", "status", "get", "dlock", "remove"} => op[p].src = Live
    /\ op[p].pc # "recv" => op[p].linked

\* What a stream writes to is there.
Targets ==
  \A p \in Procs :
    /\ op[p].pc = "send" => disk # Absent
    /\ op[p].pc = "recv" /\ op[p].linked => local[p[1]] # Absent

Control == Types /\ Roles /\ Locked /\ Fresh /\ Targets

\* A client that is not mounted has no events at hand and does not hold its mutex.
Mounting ==
  /\ DOMAIN batch = Clients
  /\ \A c \in Clients : ~mounted[c] => mutex[c] = "free" /\ batch[c] = << >>

Prefix(s, k) == [i \in 1..k |-> s[i]]
Storing(p) == op[p].pc \in {"lock", "compare", "send"}
Receiving(c) == \E t \in Threads : op[<<c, t>>].pc = "recv"

\* One stream at a time, and what it has written is a prefix of a whole file
OneStream == \A p, q \in Procs : op[p].pc \in Streaming /\ op[q].pc \in Streaming => p = q
DiskWhole == (\A p \in Procs : op[p].pc # "send") => disk \in Whole \union {Absent}
LocalWhole == \A c \in Clients : ~Receiving(c) => local[c] \in Whole \union {Absent}
Sources ==
  \A p \in Procs :
    /\ op[p].src \in Whole \union {Live}
    /\ Storing(p) /\ op[p].src = Live => local[p[1]] # Absent
Sent ==
  \A p \in Procs :
    op[p].pc = "send" => op[p].pos <= Len(StoreSource(p)) /\ disk = Prefix(StoreSource(p), op[p].pos)
Received ==
  \A p \in Procs :
    op[p].pc = "recv" =>
      /\ op[p].linked /\ (op[p].src = Live => disk # Absent)
      /\ op[p].pos <= Len(FetchSource(p)) /\ local[p[1]] = Prefix(FetchSource(p), op[p].pos)

Undisturbed == OneStream /\ DiskWhole /\ LocalWhole /\ Sources /\ Sent /\ Received

\* Nothing is empty as long as nothing was removed.
Filled ==
  /\ \A c \in Clients : local[c] = << >> => Receiving(c)
  /\ disk = << >> => \E p \in Procs : op[p].pc = "send"
  /\ \A p \in Procs : op[p].src # << >>
  /\ disk = Absent => \A c \in Clients : op[<<c, "async">>].pc = "idle"

IInv == Control /\ Mounting /\ (~disturbed => Undisturbed) /\ (~disturbed /\ ~removed => Filled)
-----------------------------------------------------------------------------
(* Files *)

\* The contents of files
LEMMA ContentFacts ==
  /\ << >> \in Contents /\ Whole \subseteq Contents
  /\ Absent \notin Contents /\ Live \notin Contents
<1>1. << >> \in Contents
  BY DEF Contents
<1>2. ASSUME NEW v \in 1..MaxChanges PROVE Content(v) \in Contents
  <2>1. <<v, 1>> \in Chunks /\ <<v, 2>> \in Chunks
    BY SyncAssumption DEF Chunks
  <2> QED
    BY <2>1 DEF Contents, Content
<1> QED
  BY <1>1, <1>2, SyncAssumption DEF Whole, Contents

\* A write changes or appends one chunk, and leaves a hole before it if it must.
LEMMA WriteAtType ==
  ASSUME NEW d \in Contents, NEW i \in Nat \ {0}, NEW x \in Chunks
  PROVE  WriteAt(d, i, x) \in Contents
<1> DEFINE n == IF i > Len(d) THEN i ELSE Len(d)
<1>1. n \in Nat /\ Len(d) \in Nat
  BY DEF Contents
<1>2. ASSUME NEW j \in 1..n
      PROVE  (IF j = i THEN x ELSE IF j <= Len(d) THEN d[j] ELSE <<0, 0>>) \in Chunks
  <2>1. <<0, 0>> \in Chunks
    BY SyncAssumption DEF Chunks
  <2>2. j <= Len(d) => d[j] \in Chunks
    BY <1>1 DEF Contents
  <2> QED
    BY <2>1, <2>2
<1>3. [j \in 1..n |-> IF j = i THEN x ELSE IF j <= Len(d) THEN d[j] ELSE <<0, 0>>] \in Seq(Chunks)
  BY <1>1, <1>2
<1> QED
  BY <1>3 DEF WriteAt, Contents

\* Prefixes of a file
LEMMA PrefixFacts ==
  ASSUME NEW s \in Contents
  PROVE  /\ Len(s) \in Nat
         /\ Prefix(s, 0) = << >>
         /\ Prefix(s, Len(s)) = s
         /\ \A k \in 0..(Len(s) - 1) : WriteAt(Prefix(s, k), k + 1, s[k + 1]) = Prefix(s, k + 1)
<1>1. Len(s) \in Nat
  BY DEF Contents
<1>2. Prefix(s, 0) = << >>
  <2>1. Prefix(s, 0) \in Seq(Chunks) /\ Len(Prefix(s, 0)) = 0
    BY DEF Prefix
  <2> QED
    BY <2>1
<1>3. Prefix(s, Len(s)) = s
  BY DEF Prefix, Contents
<1>4. ASSUME NEW k \in 0..(Len(s) - 1)
      PROVE  WriteAt(Prefix(s, k), k + 1, s[k + 1]) = Prefix(s, k + 1)
  <2>1. Len(Prefix(s, k)) = k
    <3>1. Prefix(s, k) \in Seq(Chunks) /\ DOMAIN Prefix(s, k) = 1..k /\ k \in Nat
      BY <1>1 DEF Prefix, Contents
    <3> QED
      BY <3>1
  <2>2. WriteAt(Prefix(s, k), k + 1, s[k + 1])
          = [j \in 1..(k + 1) |-> IF j = k + 1 THEN s[k + 1] ELSE IF j <= k THEN Prefix(s, k)[j] ELSE <<0, 0>>]
    BY <1>1, <2>1 DEF WriteAt
  <2>3. ASSUME NEW j \in 1..(k + 1)
        PROVE (IF j = k + 1 THEN s[k + 1] ELSE IF j <= k THEN Prefix(s, k)[j] ELSE <<0, 0>>) = s[j]
    BY <1>1 DEF Prefix
  <2> QED
    BY <2>2, <2>3 DEF Prefix
<1> QED
  BY <1>1, <1>2, <1>3, <1>4

\* Where streams read from
LEMMA SourceTypes ==
  ASSUME Types, NEW p \in Procs
  PROVE  StoreSource(p) \in Contents /\ FetchSource(p) \in Contents
<1>1. p[1] \in Clients /\ op[p].src \in Contents \union {Live}
  BY DEF Types, Ops, Procs
<1> QED
  BY <1>1, ContentFacts DEF Types, StoreSource, FetchSource, Checksum
-----------------------------------------------------------------------------
(* Operations: what the steps do to op *)

\* Only the program point changes.
LEMMA SetPc ==
  ASSUME Types, NEW p \in Procs, NEW to \in PCs, op' = [op EXCEPT ![p].pc = to]
  PROVE  /\ op' \in [Procs -> Ops]
         /\ op'[p].pc = to /\ op'[p].pos = op[p].pos /\ op'[p].src = op[p].src
         /\ op'[p].linked = op[p].linked
         /\ \A q \in Procs : q # p => op'[q] = op[q]
BY DEF Types, Ops

\* Only the position changes.
LEMMA SetPos ==
  ASSUME Types, NEW p \in Procs, NEW i \in Nat, op' = [op EXCEPT ![p].pos = i]
  PROVE  /\ op' \in [Procs -> Ops]
         /\ op'[p].pc = op[p].pc /\ op'[p].pos = i /\ op'[p].src = op[p].src
         /\ op'[p].linked = op[p].linked
         /\ \A q \in Procs : q # p => op'[q] = op[q]
BY DEF Types, Ops

\* The lock is granted and the checksum computed.
LEMMA SetCrc ==
  ASSUME Types, NEW p \in Procs, NEW x \in Contents,
         op' = [op EXCEPT ![p].pc = "compare", ![p].crc = x]
  PROVE  /\ op' \in [Procs -> Ops]
         /\ op'[p].pc = "compare" /\ op'[p].pos = op[p].pos /\ op'[p].src = op[p].src
         /\ op'[p].linked = op[p].linked
         /\ \A q \in Procs : q # p => op'[q] = op[q]
<1>1. op[p] \in Ops /\ op \in [Procs -> Ops]
  BY DEF Types
<1>2. PICK r : r = [[op[p] EXCEPT !.pc = "compare"] EXCEPT !.crc = x]
  OBVIOUS
<1>3. op' = [op EXCEPT ![p] = r]
  BY <1>1, <1>2
<1>4. r \in Ops /\ r.pc = "compare" /\ r.pos = op[p].pos /\ r.src = op[p].src /\ r.linked = op[p].linked
  BY <1>1, <1>2 DEF Ops, PCs
<1> QED
  BY <1>1, <1>3, <1>4

\* The operation is over.
LEMMA SetIdle ==
  ASSUME Types, NEW p \in Procs, op' = [op EXCEPT ![p] = Idle]
  PROVE  /\ op' \in [Procs -> Ops]
         /\ op'[p].pc = "idle" /\ op'[p].pos = 0 /\ op'[p].src = Live /\ op'[p].linked
         /\ \A q \in Procs : q # p => op'[q] = op[q]
<1>1. Idle \in Ops /\ Idle.pc = "idle" /\ Idle.pos = 0 /\ Idle.src = Live /\ Idle.linked
  BY ContentFacts DEF Idle, Ops, PCs
<1> QED
  BY <1>1 DEF Types

\* The operation is over, and the thread gives up the mutex or goes to its next event.
LEMMA ReturnFacts ==
  ASSUME Types, NEW p \in Procs, Return(p)
  PROVE  /\ op' = [op EXCEPT ![p] = Idle]
         /\ mutex' \in [Clients -> {"free", "watcher", "async"}]
         /\ \A c \in Clients : c # p[1] => mutex'[c] = mutex[c]
         /\ p[2] = "command" => mutex' = mutex
<1>1. op' = [op EXCEPT ![p] = Idle] /\ p[1] \in Clients /\ p[2] \in Threads
  BY DEF Return, Procs
<1>2. CASE p[2] = "watcher"
  BY <1>1, <1>2 DEF Return, EventDone, Types
<1>3. CASE p[2] = "async"
  BY <1>1, <1>3 DEF Return, ReplyDone, Types
<1>4. CASE p[2] = "command"
  BY <1>1, <1>4 DEF Return, Types, clientVars
<1> QED
  BY <1>1, <1>2, <1>3, <1>4 DEF Threads
-----------------------------------------------------------------------------
(* The mutex of a client and the write lock *)

\* Who is at which program point
LEMMA RoleFacts ==
  ASSUME Control, NEW p \in Procs
  PROVE  /\ p = <<p[1], p[2]>> /\ p[1] \in Clients /\ p[2] \in Threads
         /\ p[2] = "watcher" => op[p].pc \in WatcherPCs
         /\ p[2] = "async" => op[p].pc \in AsyncPCs
         /\ p[2] # "command" /\ op[p].pc # "idle" => mutex[p[1]] = p[2] /\ mounted[p[1]]
         /\ Id(p) \in Ids
         /\ op[p] \in Ops
<1>1. p = <<p[1], p[2]>> /\ p[1] \in Clients /\ p[2] \in Threads
  BY DEF Procs
<1>2. session[p[1]] \in Nat /\ commands[p[1]] \in Nat /\ op[p] \in Ops
  BY <1>1 DEF Control, Types
<1>3. Id(p) \in Ids
  BY <1>1, <1>2 DEF Id, Ids
<1>4. /\ p[2] = "watcher" => op[p].pc \in WatcherPCs
      /\ p[2] = "async" => op[p].pc \in AsyncPCs
      /\ p[2] # "command" /\ op[p].pc # "idle" => mutex[p[1]] = p[2] /\ mounted[p[1]]
  <2>1. PICK c \in Clients : c = p[1]
    BY <1>1
  <2>2. CASE p[2] = "watcher"
    <3>1. p = <<c, "watcher">>
      BY <1>1, <2>1, <2>2
    <3> QED
      BY <2>1, <2>2, <3>1 DEF Control, Roles
  <2>3. CASE p[2] = "async"
    <3>1. p = <<c, "async">>
      BY <1>1, <2>1, <2>3
    <3> QED
      BY <2>1, <2>3, <3>1 DEF Control, Roles
  <2> QED
    BY <1>1, <2>2, <2>3 DEF Threads
<1> QED
  BY <1>1, <1>2, <1>3, <1>4

\* Operations that have the write lock, or are granted it, exclude each other.
LEMMA LockExclusive ==
  ASSUME Control, NEW p \in Procs, NEW q \in Procs, op[q].pc \in Locking,
         op[p].pc \in Locking \/ (op[p].pc \in {"lock", "dlock"} /\ Available(p))
  PROVE  p = q
<1>1. owner = Id(q)
  BY DEF Control, Locked
<1>2. /\ p = <<p[1], p[2]>> /\ p[2] \in Threads /\ p[1] \in Clients
      /\ p[2] = "async" => op[p].pc \in AsyncPCs
  BY RoleFacts
<1>3. /\ q = <<q[1], q[2]>> /\ q[2] \in Threads /\ q[1] \in Clients
      /\ q[2] = "async" => op[q].pc \in AsyncPCs
      /\ Id(q) \in Ids
  BY RoleFacts
<1>4. Id(p) = Id(q)
  BY <1>1, <1>3, SyncAssumption DEF Control, Locked, Available
<1>5. p[2] # "async" /\ q[2] # "async" /\ op[p].pc # "idle" /\ op[q].pc # "idle"
  BY <1>2, <1>3 DEF AsyncPCs, Locking
<1>6. p[1] = q[1] /\ (p[2] = "command" <=> q[2] = "command")
  BY <1>2, <1>3, <1>4, <1>5 DEF Id
<1> QED
  BY <1>2, <1>3, <1>5, <1>6 DEF Threads

\* A step of the operation of p: what is left to show is about p itself.
LEMMA StepControl ==
  ASSUME Control, NEW p \in Procs, Types',
         op[p].pc # "idle",
         UNCHANGED <<session, commands, mounted>>,
         \A q \in Procs : q # p => /\ op'[q].pc = op[q].pc /\ op'[q].pos = op[q].pos
                                   /\ op'[q].linked = op[q].linked
                                   /\ op[q].pc # "recv" => op'[q].src = op[q].src,
         \A c \in Clients : c # p[1] => mutex'[c] = mutex[c],
         p[2] = "command" \/ op'[p].pc # "idle" => mutex' = mutex,
         p[2] = "watcher" => op'[p].pc \in WatcherPCs,
         p[2] = "async" => op'[p].pc \in AsyncPCs,
         op'[p].pc \in Locking => owner' = Id(p),
         \A q \in Procs : q # p /\ op[q].pc \in Locking => owner' = owner,
         op'[p].pc \notin Streaming => op'[p].pos = 0,
         op'[p].pc \in {"idle", "status", "get", "dlock", "remove"} => op'[p].src = Live,
         op'[p].pc # "recv" => op'[p].linked,
         \A q \in Procs : op'[q].pc = "send" => disk' # Absent,
         \A q \in Procs : op'[q].pc = "recv" /\ op'[q].linked => local'[q[1]] # Absent
  PROVE  Control'
<1>1. /\ p = <<p[1], p[2]>> /\ p[1] \in Clients /\ p[2] \in Threads
      /\ p[2] # "command" => mutex[p[1]] = p[2] /\ mounted[p[1]]
  BY RoleFacts
<1>2. \A c \in Clients : \A t \in Threads : <<c, t>> \in Procs
  BY DEF Procs
<1>3. Roles'
  <2> SUFFICES ASSUME NEW c \in Clients
               PROVE  /\ op'[<<c, "watcher">>].pc \in WatcherPCs
                      /\ op'[<<c, "async">>].pc \in AsyncPCs
                      /\ op'[<<c, "watcher">>].pc # "idle" => mutex'[c] = "watcher" /\ mounted[c]
                      /\ op'[<<c, "async">>].pc # "idle" => mutex'[c] = "async" /\ mounted[c]
    BY DEF Roles
  <2>1. <<c, "watcher">> \in Procs /\ <<c, "async">> \in Procs
    BY <1>2 DEF Threads
  <2>2. /\ op[<<c, "watcher">>].pc \in WatcherPCs
        /\ op[<<c, "async">>].pc \in AsyncPCs
        /\ op[<<c, "watcher">>].pc # "idle" => mutex[c] = "watcher" /\ mounted[c]
        /\ op[<<c, "async">>].pc # "idle" => mutex[c] = "async" /\ mounted[c]
    BY DEF Control, Roles
  <2>3. CASE c # p[1]
    <3>1. <<c, "watcher">> # p /\ <<c, "async">> # p
      BY <1>1, <2>3
    <3> QED
      BY <2>1, <2>2, <2>3, <3>1
  <2>4. CASE c = p[1] /\ p[2] = "command"
    <3>1. <<c, "watcher">> # p /\ <<c, "async">> # p
      BY <1>1, <2>4
    <3> QED
      BY <2>1, <2>2, <2>4, <3>1
  <2>5. CASE c = p[1] /\ p[2] = "watcher"
    <3>1. <<c, "watcher">> = p /\ <<c, "async">> # p /\ op[<<c, "async">>].pc = "idle"
      BY <1>1, <2>2, <2>5
    <3> QED
      BY <1>1, <2>1, <2>2, <2>5, <3>1
  <2>6. CASE c = p[1] /\ p[2] = "async"
    <3>1. <<c, "watcher">> # p /\ <<c, "async">> = p /\ op[<<c, "watcher">>].pc = "idle"
      BY <1>1, <2>2, <2>6
    <3> QED
      BY <1>1, <2>1, <2>2, <2>6, <3>1
  <2> QED
    BY <1>1, <2>3, <2>4, <2>5, <2>6 DEF Threads
<1>4. Locked'
  BY DEF Locked, Control, Id
<1>5. Fresh'
  <2>1. ASSUME NEW q \in Procs, q # p
        PROVE  /\ op'[q].pc \notin Streaming => op'[q].pos = 0
               /\ op'[q].pc \in {"idle", "status", "get", "dlock", "remove"} => op'[q].src = Live
               /\ op'[q].pc # "recv" => op'[q].linked
    BY <2>1 DEF Control, Fresh
  <2> QED
    BY <2>1 DEF Fresh
<1>6. Targets'
  BY DEF Targets
<1> QED
  BY <1>3, <1>4, <1>5, <1>6 DEF Control

\* The operation of p returns.
LEMMA ReturnControl ==
  ASSUME Control, NEW p \in Procs, op[p].pc # "idle", Return(p),
         UNCHANGED <<mountVars, changes>>,
         disk' \in Contents \union {Absent},
         local' \in [Clients -> Contents \union {Absent}],
         \A q \in Procs : q # p /\ op[q].pc \in Locking => owner' = owner,
         disk' = Absent => disk = Absent,
         \A c \in Clients : local'[c] = Absent => local[c] = Absent
  PROVE  Control'
<1>1. /\ Types /\ UNCHANGED <<session, commands, mounted>>
      /\ p[1] \in Clients /\ \A q \in Procs : q[1] \in Clients
  BY DEF Control, mountVars, Procs
<1>2. /\ op' = [op EXCEPT ![p] = Idle]
      /\ mutex' \in [Clients -> {"free", "watcher", "async"}]
      /\ \A c \in Clients : c # p[1] => mutex'[c] = mutex[c]
      /\ p[2] = "command" => mutex' = mutex
  BY <1>1, ReturnFacts
<1>3. /\ op' \in [Procs -> Ops]
      /\ op'[p].pc = "idle" /\ op'[p].pos = 0 /\ op'[p].src = Live /\ op'[p].linked
      /\ \A q \in Procs : q # p => op'[q] = op[q]
  BY <1>1, <1>2, SetIdle
<1>4. Types'
  BY <1>1, <1>2, <1>3 DEF Types
<1>5. \A q \in Procs : op'[q].pc = "send" => disk' # Absent
  BY <1>3 DEF Control, Targets
<1>6. \A q \in Procs : op'[q].pc = "recv" /\ op'[q].linked => local'[q[1]] # Absent
  BY <1>1, <1>3 DEF Control, Targets
<1>7. op'[p].pc \notin Locking /\ op'[p].pc \in WatcherPCs /\ op'[p].pc \in AsyncPCs
  BY <1>3 DEF Locking, WatcherPCs, AsyncPCs
<1> QED
  BY <1>1, <1>2, <1>3, <1>4, <1>5, <1>6, <1>7, StepControl

\* The operation of p goes on.
LEMMA AdvanceControl ==
  ASSUME Control, NEW p \in Procs, op[p].pc # "idle", op'[p].pc # "idle", mutex' = mutex,
         UNCHANGED <<mountVars, changes>>,
         op' \in [Procs -> Ops],
         \A q \in Procs : q # p => op'[q] = op[q],
         op'[p].src = op[p].src /\ op'[p].linked = op[p].linked,
         op'[p].pc \notin Streaming => op'[p].pos = 0,
         op'[p].pc \in {"status", "get", "dlock", "remove"} => op[p].pc \in {"status", "get", "dlock", "remove"},
         op'[p].pc # "recv" => op[p].pc # "recv",
         op[p].pc \in WatcherPCs => op'[p].pc \in WatcherPCs,
         op[p].pc \in AsyncPCs => op'[p].pc \in AsyncPCs,
         disk' \in Contents \union {Absent},
         local' \in [Clients -> Contents \union {Absent}],
         op'[p].pc \in Locking => owner' = Id(p),
         \A q \in Procs : q # p /\ op[q].pc \in Locking => owner' = owner,
         disk' = Absent => disk = Absent /\ op'[p].pc # "send",
         \A c \in Clients : local'[c] = Absent => local[c] = Absent,
         op'[p].pc = "recv" /\ op[p].linked => local'[p[1]] # Absent
  PROVE  Control'
<1>1. /\ Types /\ UNCHANGED <<session, commands, mounted>>
      /\ p[1] \in Clients /\ \A q \in Procs : q[1] \in Clients
  BY DEF Control, mountVars, Procs
<1>2. Types'
  BY <1>1 DEF Types
<1>3. \A q \in Procs : op'[q].pc = "send" => disk' # Absent
  BY DEF Control, Targets
<1>4. \A q \in Procs : op'[q].pc = "recv" /\ op'[q].linked => local'[q[1]] # Absent
  BY <1>1 DEF Control, Targets
<1>5. /\ op'[p].pc \in {"idle", "status", "get", "dlock", "remove"} => op'[p].src = Live
      /\ op'[p].pc # "recv" => op'[p].linked
  BY DEF Control, Fresh
<1>6. /\ p[2] = "watcher" => op'[p].pc \in WatcherPCs
      /\ p[2] = "async" => op'[p].pc \in AsyncPCs
  BY RoleFacts
<1> QED
  BY <1>1, <1>2, <1>3, <1>4, <1>5, <1>6, StepControl

\* A chunk is written to the file that a stream writes to.
LEMMA ChunkTypes ==
  ASSUME Control, NEW p \in Procs
  PROVE  /\ op[p].pos + 1 \in Nat \ {0} /\ op[p].pos \in Nat
         /\ \A d \in Contents : op[p].pos + 1 <= Len(StoreSource(p)) =>
              WriteAt(d, op[p].pos + 1, StoreSource(p)[op[p].pos + 1]) \in Contents
         /\ \A d \in Contents : op[p].pos + 1 <= Len(FetchSource(p)) =>
              WriteAt(d, op[p].pos + 1, FetchSource(p)[op[p].pos + 1]) \in Contents
<1>1. op[p].pos \in Nat
  BY DEF Control, Types, Ops
<1>2. StoreSource(p) \in Contents /\ FetchSource(p) \in Contents
  BY SourceTypes DEF Control
<1>3. ASSUME NEW s \in Contents, NEW i \in Nat \ {0}, i <= Len(s) PROVE s[i] \in Chunks
  BY <1>3 DEF Contents
<1> QED
  BY <1>1, <1>2, <1>3, WriteAtType

\* The steps of Store
LEMMA StoreControl ==
  ASSUME Control, NEW p \in Procs, UNCHANGED <<mountVars, changes>>,
         Refused(p) \/ Granted(p) \/ SameChecksum(p) \/ OpenTarget(p) \/ SendChunk(p) \/ EndStore(p)
  PROVE  Control'
<1>1. /\ Types /\ p[1] \in Clients /\ p[2] \in Threads /\ op[p] \in Ops
      /\ disk \in Contents \union {Absent} /\ local \in [Clients -> Contents \union {Absent}]
  BY RoleFacts DEF Control, Types
<1>2. CASE Refused(p)
  BY <1>1, <1>2, ReturnControl DEF Refused, serverVars
<1>3. CASE Granted(p)
  <2>1. /\ op[p].pc = "lock" /\ Available(p) /\ owner' = Id(p)
        /\ op' = [op EXCEPT ![p].pc = "compare", ![p].crc = Checksum(local[p[1]])]
        /\ UNCHANGED <<disk, local, mutex>>
    BY <1>3 DEF Granted, clientVars
  <2>2. Checksum(local[p[1]]) \in Contents
    BY <1>1, ContentFacts DEF Checksum
  <2>3. /\ op' \in [Procs -> Ops]
        /\ op'[p].pc = "compare" /\ op'[p].pos = op[p].pos /\ op'[p].src = op[p].src
        /\ op'[p].linked = op[p].linked
        /\ \A q \in Procs : q # p => op'[q] = op[q]
    BY <1>1, <2>1, <2>2, SetCrc
  <2>4. op'[p].pos = 0
    BY <2>1, <2>3 DEF Control, Fresh, Streaming
  <2>5. \A q \in Procs : q # p /\ op[q].pc \in Locking => owner' = owner
    BY <2>1, LockExclusive
  <2> QED
    BY <1>1, <2>1, <2>3, <2>4, <2>5, AdvanceControl DEF WatcherPCs, AsyncPCs, Locking, Streaming
<1>4. CASE SameChecksum(p)
  <2>1. op[p].pc = "compare" /\ Return(p) /\ UNCHANGED <<disk, local>>
    BY <1>4 DEF SameChecksum
  <2>2. \A q \in Procs : q # p => op[q].pc \notin Locking
    BY <2>1, LockExclusive DEF Locking
  <2> QED
    BY <1>1, <2>1, <2>2, ReturnControl
<1>5. CASE OpenTarget(p)
  <2>1. /\ op[p].pc = "compare" /\ op' = [op EXCEPT ![p].pc = "send"]
        /\ disk' = << >> /\ UNCHANGED <<owner, local, mutex>>
    BY <1>5 DEF OpenTarget, Goto, clientVars
  <2>2. /\ op' \in [Procs -> Ops]
        /\ op'[p].pc = "send" /\ op'[p].pos = op[p].pos /\ op'[p].src = op[p].src
        /\ op'[p].linked = op[p].linked
        /\ \A q \in Procs : q # p => op'[q] = op[q]
    BY <1>1, <2>1, SetPc DEF PCs
  <2>3. owner = Id(p)
    BY <2>1 DEF Control, Locked, Locking
  <2>4. disk' \in Contents /\ disk' # Absent
    BY <2>1, ContentFacts
  <2> QED
    BY <1>1, <2>1, <2>2, <2>3, <2>4, AdvanceControl DEF WatcherPCs, AsyncPCs, Streaming
<1>6. CASE SendChunk(p)
  <2>1. /\ op[p].pc = "send" /\ op[p].pos + 1 <= Len(StoreSource(p))
        /\ disk' = WriteAt(disk, op[p].pos + 1, StoreSource(p)[op[p].pos + 1])
        /\ op' = [op EXCEPT ![p].pos = op[p].pos + 1] /\ UNCHANGED <<owner, local, mutex>>
    BY <1>6 DEF SendChunk, clientVars
  <2>2. op[p].pos + 1 \in Nat
    BY ChunkTypes
  <2>3. /\ op' \in [Procs -> Ops]
        /\ op'[p].pc = op[p].pc /\ op'[p].pos = op[p].pos + 1 /\ op'[p].src = op[p].src
        /\ op'[p].linked = op[p].linked
        /\ \A q \in Procs : q # p => op'[q] = op[q]
    BY <1>1, <2>1, <2>2, SetPos
  <2>4. owner = Id(p) /\ disk # Absent
    BY <2>1 DEF Control, Locked, Locking, Targets
  <2>5. disk' \in Contents /\ disk' # Absent
    BY <1>1, <2>1, <2>4, ChunkTypes, ContentFacts
  <2> QED
    BY <1>1, <2>1, <2>3, <2>4, <2>5, AdvanceControl DEF WatcherPCs, AsyncPCs, Streaming
<1>7. CASE EndStore(p)
  <2>1. op[p].pc = "send" /\ Return(p) /\ UNCHANGED <<disk, local>>
    BY <1>7 DEF EndStore
  <2>2. \A q \in Procs : q # p => op[q].pc \notin Locking
    BY <2>1, LockExclusive DEF Locking
  <2> QED
    BY <1>1, <2>1, <2>2, ReturnControl
<1> QED
  BY <1>2, <1>3, <1>4, <1>5, <1>6, <1>7

\* The effect of Remove on the operations: open streams go on with what was there.
LEMMA RemoveFacts ==
  ASSUME Control, NEW p \in Procs, Remove(p)
  PROVE  /\ op[p].pc = "remove" /\ disk # Absent /\ disk' = Absent /\ UNCHANGED local
         /\ op' \in [Procs -> Ops]
         /\ op'[p].pc = "idle" /\ op'[p].pos = 0 /\ op'[p].src = Live /\ op'[p].linked
         /\ \A q \in Procs : q # p =>
              /\ op'[q].pc = op[q].pc /\ op'[q].pos = op[q].pos /\ op'[q].linked = op[q].linked
              /\ op'[q].src = IF op[q].pc = "recv" /\ op[q].src = Live THEN disk ELSE op[q].src
         /\ mutex' \in [Clients -> {"free", "watcher", "async"}]
         /\ \A c \in Clients : c # p[1] => mutex'[c] = mutex[c]
         /\ p[2] = "command" => mutex' = mutex
<1>1. /\ Types /\ p[1] \in Clients /\ p[2] \in Threads
      /\ op[p].pc = "remove" /\ disk \in Contents /\ disk' = Absent /\ UNCHANGED local
  BY RoleFacts DEF Remove, Control, Types
<1>2. op' = [q \in Procs |-> IF q = p THEN Idle
                            ELSE IF op[q].pc = "recv" /\ op[q].src = Live THEN [op[q] EXCEPT !.src = disk]
                            ELSE op[q]]
  BY DEF Remove
<1>3. Idle \in Ops /\ Idle.pc = "idle" /\ Idle.pos = 0 /\ Idle.src = Live /\ Idle.linked
  BY ContentFacts DEF Idle, Ops, PCs
<1>4. ASSUME NEW q \in Procs, q # p
      PROVE  /\ op'[q] \in Ops
             /\ op'[q].pc = op[q].pc /\ op'[q].pos = op[q].pos /\ op'[q].linked = op[q].linked
             /\ op'[q].src = IF op[q].pc = "recv" /\ op[q].src = Live THEN disk ELSE op[q].src
  <2>1. op[q] \in Ops
    BY <1>1 DEF Types
  <2>2. CASE op[q].pc = "recv" /\ op[q].src = Live
    <3>1. op'[q] = [op[q] EXCEPT !.src = disk]
      BY <1>2, <1>4, <2>2
    <3> QED
      BY <1>1, <2>1, <2>2, <3>1 DEF Ops
  <2>3. CASE ~(op[q].pc = "recv" /\ op[q].src = Live)
    BY <1>2, <1>4, <2>1, <2>3
  <2> QED
    BY <2>2, <2>3
<1>5. op'[p] = Idle /\ op' \in [Procs -> Ops]
  BY <1>2, <1>3, <1>4
<1>6. /\ mutex' \in [Clients -> {"free", "watcher", "async"}]
      /\ \A c \in Clients : c # p[1] => mutex'[c] = mutex[c]
      /\ p[2] = "command" => mutex' = mutex
  BY <1>1 DEF Remove, Types, EventDone, clientVars
<1> QED
  BY <1>1, <1>3, <1>4, <1>5, <1>6, ContentFacts

\* The steps of Delete
LEMMA DeleteControl ==
  ASSUME Control, NEW p \in Procs, UNCHANGED <<mountVars, changes>>,
         GrantedDelete(p) \/ DeleteMissing(p) \/ Remove(p)
  PROVE  Control'
<1>1. /\ Types /\ p[1] \in Clients /\ p[2] \in Threads /\ op[p] \in Ops
      /\ disk \in Contents \union {Absent} /\ local \in [Clients -> Contents \union {Absent}]
  BY RoleFacts DEF Control, Types
<1>2. CASE GrantedDelete(p)
  <2>1. /\ op[p].pc = "dlock" /\ Available(p) /\ owner' = Id(p)
        /\ op' = [op EXCEPT ![p].pc = "remove"]
        /\ UNCHANGED <<disk, local, mutex>>
    BY <1>2 DEF GrantedDelete, Goto, clientVars
  <2>2. /\ op' \in [Procs -> Ops]
        /\ op'[p].pc = "remove" /\ op'[p].pos = op[p].pos /\ op'[p].src = op[p].src
        /\ op'[p].linked = op[p].linked
        /\ \A q \in Procs : q # p => op'[q] = op[q]
    BY <1>1, <2>1, SetPc DEF PCs
  <2>3. op'[p].pos = 0
    BY <2>1, <2>2 DEF Control, Fresh, Streaming
  <2>4. \A q \in Procs : q # p /\ op[q].pc \in Locking => owner' = owner
    BY <2>1, LockExclusive
  <2> QED
    BY <1>1, <2>1, <2>2, <2>3, <2>4, AdvanceControl DEF WatcherPCs, AsyncPCs, Locking, Streaming
<1>3. CASE DeleteMissing(p)
  BY <1>1, <1>3, ReturnControl DEF DeleteMissing, serverVars
<1>4. CASE Remove(p)
  <2>1. \A q \in Procs : q # p => op[q].pc \notin Locking
    BY <1>4, RemoveFacts, LockExclusive DEF Locking
  <2>2. Types'
    BY <1>1, <1>4, RemoveFacts DEF Types, mountVars
  <2>3. \A q \in Procs : op'[q].pc = "send" => disk' # Absent
    BY <1>4, <2>1, RemoveFacts DEF Locking
  <2>4. \A q \in Procs : op'[q].pc = "recv" /\ op'[q].linked => local'[q[1]] # Absent
    BY <1>4, RemoveFacts DEF Control, Targets
  <2>5. op'[p].pc \notin Locking /\ op'[p].pc \in WatcherPCs /\ op'[p].pc \in AsyncPCs
    BY <1>4, RemoveFacts DEF Locking, WatcherPCs, AsyncPCs
  <2>6. UNCHANGED <<session, commands, mounted>>
    BY DEF mountVars
  <2> QED
    BY <1>4, <2>1, <2>2, <2>3, <2>4, <2>5, <2>6, RemoveFacts, StepControl
<1> QED
  BY <1>2, <1>3, <1>4

\* The steps of Fetch
LEMMA FetchControl ==
  ASSUME Control, NEW p \in Procs, UNCHANGED <<mountVars, changes>>,
         Unchanged(p) \/ Changed(p) \/ FetchFile(p) \/ RecvChunk(p) \/ EndFetch(p)
  PROVE  Control'
<1>1. /\ Types /\ p[1] \in Clients /\ p[2] \in Threads /\ op[p] \in Ops
      /\ disk \in Contents \union {Absent} /\ local \in [Clients -> Contents \union {Absent}]
  BY RoleFacts DEF Control, Types
<1>2. CASE Unchanged(p)
  BY <1>1, <1>2, ReturnControl DEF Unchanged, serverVars
<1>3. CASE Changed(p)
  <2>1. /\ op[p].pc = "status" /\ op' = [op EXCEPT ![p].pc = "get"]
        /\ UNCHANGED <<disk, owner, local, mutex>>
    BY <1>3 DEF Changed, Goto, clientVars, serverVars
  <2>2. /\ op' \in [Procs -> Ops]
        /\ op'[p].pc = "get" /\ op'[p].pos = op[p].pos /\ op'[p].src = op[p].src
        /\ op'[p].linked = op[p].linked
        /\ \A q \in Procs : q # p => op'[q] = op[q]
    BY <1>1, <2>1, SetPc DEF PCs
  <2>3. op'[p].pos = 0
    BY <2>1, <2>2 DEF Control, Fresh, Streaming
  <2> QED
    BY <1>1, <2>1, <2>2, <2>3, AdvanceControl DEF WatcherPCs, AsyncPCs, Locking, Streaming
<1>4. CASE FetchFile(p)
  <2>1. /\ op[p].pc = "get" /\ local' = [local EXCEPT ![p[1]] = << >>]
        /\ UNCHANGED <<disk, owner>>
    BY <1>4 DEF FetchFile, serverVars
  <2>2. /\ local' \in [Clients -> Contents \union {Absent}] /\ local'[p[1]] # Absent
        /\ \A c \in Clients : local'[c] = Absent => local[c] = Absent
    BY <1>1, <2>1, ContentFacts
  <2>3. CASE disk = Absent
    <3>1. Return(p)
      BY <1>4, <2>3 DEF FetchFile
    <3> QED
      BY <1>1, <2>1, <2>2, <3>1, ReturnControl
  <2>4. CASE disk # Absent
    <3>1. op' = [op EXCEPT ![p].pc = "recv"] /\ mutex' = mutex
      BY <1>4, <2>4 DEF FetchFile, clientVars
    <3>2. /\ op' \in [Procs -> Ops]
          /\ op'[p].pc = "recv" /\ op'[p].pos = op[p].pos /\ op'[p].src = op[p].src
          /\ op'[p].linked = op[p].linked
          /\ \A q \in Procs : q # p => op'[q] = op[q]
      BY <1>1, <3>1, SetPc DEF PCs
    <3> QED
      BY <1>1, <2>1, <2>2, <2>4, <3>1, <3>2, AdvanceControl DEF WatcherPCs, AsyncPCs, Locking, Streaming
  <2> QED
    BY <2>3, <2>4
<1>5. CASE RecvChunk(p)
  <2>1. /\ op[p].pc = "recv" /\ op[p].pos + 1 <= Len(FetchSource(p))
        /\ op' = [op EXCEPT ![p].pos = op[p].pos + 1] /\ UNCHANGED <<disk, owner, mutex>>
        /\ IF op[p].linked
           THEN local' = [local EXCEPT ![p[1]] = WriteAt(local[p[1]], op[p].pos + 1, FetchSource(p)[op[p].pos + 1])]
           ELSE local' = local
    BY <1>5 DEF RecvChunk, clientVars, serverVars
  <2>2. op[p].pos + 1 \in Nat
    BY ChunkTypes
  <2>3. /\ op' \in [Procs -> Ops]
        /\ op'[p].pc = op[p].pc /\ op'[p].pos = op[p].pos + 1 /\ op'[p].src = op[p].src
        /\ op'[p].linked = op[p].linked
        /\ \A q \in Procs : q # p => op'[q] = op[q]
    BY <1>1, <2>1, <2>2, SetPos
  <2>4. /\ local' \in [Clients -> Contents \union {Absent}]
        /\ \A c \in Clients : local'[c] = Absent => local[c] = Absent
        /\ op[p].linked => local'[p[1]] # Absent
    <3>1. CASE op[p].linked
      <4>1. local[p[1]] \in Contents
        BY <1>1, <2>1, <3>1 DEF Control, Targets
      <4>2. PICK d \in Contents : local' = [local EXCEPT ![p[1]] = d]
        BY <2>1, <3>1, <4>1, ChunkTypes
      <4> QED
        BY <1>1, <4>1, <4>2, ContentFacts
    <3>2. CASE ~op[p].linked
      BY <1>1, <2>1, <3>2
    <3> QED
      BY <3>1, <3>2
  <2> QED
    BY <1>1, <2>1, <2>3, <2>4, AdvanceControl DEF WatcherPCs, AsyncPCs, Streaming, Locking
<1>6. CASE EndFetch(p)
  BY <1>1, <1>6, ReturnControl DEF EndFetch, serverVars
<1> QED
  BY <1>2, <1>3, <1>4, <1>5, <1>6

\* A step of an operation
LEMMA OpControl ==
  ASSUME Control, NEW p \in Procs, UNCHANGED <<mountVars, changes>>, OpStep(p)
  PROVE  Control'
BY StoreControl, DeleteControl, FetchControl DEF OpStep

\* An operation begins, in the thread that has the mutex or takes it.
LEMMA BeginControl ==
  ASSUME Control, NEW p \in Procs, op[p].pc = "idle", NEW to \in {"lock", "dlock", "status"},
         op' = [op EXCEPT ![p].pc = to],
         UNCHANGED <<disk, owner, local, session, mounted>>,
         commands' \in [Clients -> Nat],
         \A q \in Procs : q[2] = "command" /\ op[q].pc # "idle" => commands'[q[1]] = commands[q[1]],
         changes' \in 0..MaxChanges,
         p[2] = "watcher" => to # "status" /\ mutex[p[1]] = "watcher" /\ mounted[p[1]] /\ mutex' = mutex,
         p[2] = "async" => to = "status" /\ mutex[p[1]] = "free" /\ mounted[p[1]]
                              /\ mutex' = [mutex EXCEPT ![p[1]] = "async"],
         p[2] = "command" => mutex' = mutex
  PROVE  Control'
<1>1. /\ Types /\ p = <<p[1], p[2]>> /\ p[1] \in Clients /\ p[2] \in Threads /\ op[p] \in Ops
  BY RoleFacts DEF Control
<1>2. /\ op' \in [Procs -> Ops]
      /\ op'[p].pc = to /\ op'[p].pos = op[p].pos /\ op'[p].src = op[p].src
      /\ op'[p].linked = op[p].linked
      /\ \A q \in Procs : q # p => op'[q] = op[q]
  BY <1>1, SetPc DEF PCs
<1>3. /\ mutex' \in [Clients -> {"free", "watcher", "async"}]
      /\ \A c \in Clients : c # p[1] => mutex'[c] = mutex[c]
  BY <1>1 DEF Types, Threads
<1>4. Types'
  BY <1>1, <1>2, <1>3 DEF Types
<1>5. Roles'
  <2> SUFFICES ASSUME NEW c \in Clients
               PROVE  /\ op'[<<c, "watcher">>].pc \in WatcherPCs
                      /\ op'[<<c, "async">>].pc \in AsyncPCs
                      /\ op'[<<c, "watcher">>].pc # "idle" => mutex'[c] = "watcher" /\ mounted[c]
                      /\ op'[<<c, "async">>].pc # "idle" => mutex'[c] = "async" /\ mounted[c]
    BY DEF Roles
  <2>1. <<c, "watcher">> \in Procs /\ <<c, "async">> \in Procs
    BY DEF Threads, Procs
  <2>2. /\ op[<<c, "watcher">>].pc \in WatcherPCs
        /\ op[<<c, "async">>].pc \in AsyncPCs
        /\ op[<<c, "watcher">>].pc # "idle" => mutex[c] = "watcher" /\ mounted[c]
        /\ op[<<c, "async">>].pc # "idle" => mutex[c] = "async" /\ mounted[c]
    BY DEF Control, Roles
  <2>3. CASE c # p[1]
    <3>1. <<c, "watcher">> # p /\ <<c, "async">> # p
      BY <1>1, <2>3
    <3> QED
      BY <1>2, <1>3, <2>1, <2>2, <2>3, <3>1
  <2>4. CASE c = p[1] /\ p[2] = "command"
    <3>1. <<c, "watcher">> # p /\ <<c, "async">> # p
      BY <1>1, <2>4
    <3> QED
      BY <1>2, <2>1, <2>2, <2>4, <3>1
  <2>5. CASE c = p[1] /\ p[2] = "watcher"
    <3>1. <<c, "watcher">> = p /\ <<c, "async">> # p /\ op[<<c, "async">>].pc = "idle"
      BY <1>1, <2>2, <2>5
    <3>2. op'[p].pc \in WatcherPCs
      BY <1>2, <2>5 DEF WatcherPCs
    <3> QED
      BY <1>1, <1>2, <2>1, <2>2, <2>5, <3>1, <3>2
  <2>6. CASE c = p[1] /\ p[2] = "async"
    <3>1. <<c, "watcher">> # p /\ <<c, "async">> = p /\ op[<<c, "watcher">>].pc = "idle"
      BY <1>1, <2>2, <2>6
    <3>2. op'[p].pc \in AsyncPCs /\ mutex'[c] = "async"
      BY <1>1, <1>2, <2>6 DEF AsyncPCs, Types
    <3> QED
      BY <1>1, <1>2, <2>1, <2>2, <2>6, <3>1, <3>2
  <2> QED
    BY <1>1, <2>3, <2>4, <2>5, <2>6 DEF Threads
<1>6. Locked'
  BY <1>2 DEF Locked, Control, Id, Locking
<1>7. Fresh'
  <2>1. ASSUME NEW q \in Procs, q # p
        PROVE  /\ op'[q].pc \notin Streaming => op'[q].pos = 0
               /\ op'[q].pc \in {"idle", "status", "get", "dlock", "remove"} => op'[q].src = Live
               /\ op'[q].pc # "recv" => op'[q].linked
    BY <1>2, <2>1 DEF Control, Fresh
  <2>2. op[p].pos = 0 /\ op[p].src = Live /\ op[p].linked
    BY DEF Control, Fresh, Streaming
  <2> QED
    BY <1>2, <2>1, <2>2 DEF Fresh
<1>8. Targets'
  BY <1>2 DEF Targets, Control
<1> QED
  BY <1>4, <1>5, <1>6, <1>7, <1>8 DEF Control

\* A step in which no operation moves; the mutex of a client changes hands only between operations.
LEMMA QuietControl ==
  ASSUME Control, op' \in [Procs -> Ops],
         \A q \in Procs : /\ op'[q].pc = op[q].pc /\ op'[q].pos = op[q].pos
                          /\ op'[q].src = op[q].src /\ op'[q].linked = op[q].linked,
         UNCHANGED <<disk, owner, session, mounted>>,
         commands' \in [Clients -> Nat],
         \A q \in Procs : q[2] = "command" /\ op[q].pc # "idle" => commands'[q[1]] = commands[q[1]],
         local' \in [Clients -> Contents \union {Absent}],
         \A c \in Clients : local'[c] = Absent => local[c] = Absent,
         changes' \in 0..MaxChanges,
         mutex' \in [Clients -> {"free", "watcher", "async"}],
         \A c \in Clients : mutex'[c] # mutex[c] =>
           op[<<c, "watcher">>].pc = "idle" /\ op[<<c, "async">>].pc = "idle"
  PROVE  Control'
<1>1. Types'
  BY DEF Control, Types
<1>2. \A c \in Clients : <<c, "watcher">> \in Procs /\ <<c, "async">> \in Procs
  BY DEF Procs, Threads
<1>3. Roles'
  BY <1>2 DEF Control, Roles
<1>4. Locked' /\ Fresh'
  <2>1. ASSUME NEW q \in Procs, op[q].pc \in Locking PROVE Id(q)' = Id(q)
    BY <2>1 DEF Id, Locking
  <2> QED
    BY <2>1 DEF Control, Locked, Fresh
<1>5. Targets'
  <2>1. \A q \in Procs : q[1] \in Clients
    BY DEF Procs
  <2> QED
    BY <2>1 DEF Control, Targets
<1> QED
  BY <1>1, <1>3, <1>4, <1>5 DEF Control

\* An operation of an idle thread that returns at once: Store without a file
LEMMA IdleReturn ==
  ASSUME Control, NEW p \in Procs, op[p].pc = "idle", Return(p),
         (p[2] = "watcher" /\ mutex[p[1]] = "watcher") \/ p[2] = "command",
         UNCHANGED <<disk, owner, local, session, mounted>>,
         commands' \in [Clients -> Nat],
         \A q \in Procs : q[2] = "command" /\ op[q].pc # "idle" => commands'[q[1]] = commands[q[1]],
         changes' \in 0..MaxChanges
  PROVE  Control'
<1>1. /\ Types /\ p = <<p[1], p[2]>> /\ p[1] \in Clients /\ p[2] \in Threads
  BY RoleFacts DEF Control
<1>2. /\ op' = [op EXCEPT ![p] = Idle]
      /\ mutex' \in [Clients -> {"free", "watcher", "async"}]
      /\ \A c \in Clients : c # p[1] => mutex'[c] = mutex[c]
      /\ p[2] = "command" => mutex' = mutex
  BY <1>1, ReturnFacts
<1>3. /\ op' \in [Procs -> Ops]
      /\ op'[p].pc = "idle" /\ op'[p].pos = 0 /\ op'[p].src = Live /\ op'[p].linked
      /\ \A q \in Procs : q # p => op'[q] = op[q]
  BY <1>1, <1>2, SetIdle
<1>4. op[p].pos = 0 /\ op[p].src = Live /\ op[p].linked = TRUE /\ op'[p].linked = TRUE
  <2>1. op[p] \in Ops /\ op'[p] \in Ops
    BY <1>1, <1>3 DEF Types
  <2>2. op[p].linked \in BOOLEAN /\ op'[p].linked \in BOOLEAN
    BY <2>1 DEF Ops
  <2> QED
    BY <1>3, <2>2 DEF Control, Fresh, Streaming
<1>5. \A q \in Procs : /\ op'[q].pc = op[q].pc /\ op'[q].pos = op[q].pos
                       /\ op'[q].src = op[q].src /\ op'[q].linked = op[q].linked
  BY <1>3, <1>4
<1>6. ASSUME NEW c \in Clients, mutex'[c] # mutex[c]
      PROVE  op[<<c, "watcher">>].pc = "idle" /\ op[<<c, "async">>].pc = "idle"
  <2>1. c = p[1] /\ p[2] = "watcher" /\ mutex[c] = "watcher"
    BY <1>2, <1>6
  <2>2. <<c, "watcher">> = p
    BY <1>1, <2>1
  <2>3. op[<<c, "async">>].pc # "idle" => mutex[c] = "async"
    BY DEF Control, Roles
  <2> QED
    BY <2>1, <2>2, <2>3
<1> QED
  BY <1>1, <1>2, <1>3, <1>5, <1>6, QuietControl DEF Types

\* The steps of the threads of a client between operations
LEMMA ThreadControl ==
  ASSUME Control, Mounting, NEW c \in Clients, UNCHANGED <<mountVars, changes>>,
         ReadEvents(c) \/ LockWatcher(c) \/ HandleEvent(c) \/ FetchListed(c) \/ FetchMissingHere(c)
  PROVE  Control'
<1>1. /\ Types /\ UNCHANGED <<session, commands, mounted>> /\ changes' \in 0..MaxChanges
      /\ commands' \in [Clients -> Nat] /\ \A q \in Procs : commands'[q[1]] = commands[q[1]]
      /\ local \in [Clients -> Contents \union {Absent}]
      /\ mutex \in [Clients -> {"free", "watcher", "async"}] /\ op \in [Procs -> Ops]
  BY DEF Control, Types, mountVars
<1>2. <<c, "watcher">> \in Procs /\ <<c, "async">> \in Procs
  BY DEF Procs, Threads
<1>3. /\ op[<<c, "watcher">>].pc # "idle" => mutex[c] = "watcher" /\ mounted[c]
      /\ op[<<c, "async">>].pc # "idle" => mutex[c] = "async" /\ mounted[c]
  BY DEF Control, Roles
<1>4. CASE ReadEvents(c)
  BY <1>1, <1>4, QuietControl DEF ReadEvents, serverVars
<1>5. CASE LockWatcher(c)
  <2>1. /\ mutex[c] = "free" /\ mutex' = [mutex EXCEPT ![c] = "watcher"]
        /\ UNCHANGED <<disk, owner, local, op>>
    BY <1>5 DEF LockWatcher, serverVars
  <2>2. \A d \in Clients : mutex'[d] # mutex[d] => d = c
    BY <1>1, <2>1
  <2>3. \A d \in Clients : mutex'[d] # mutex[d] =>
          op[<<d, "watcher">>].pc = "idle" /\ op[<<d, "async">>].pc = "idle"
    BY <1>3, <2>1, <2>2
  <2>4. mutex' \in [Clients -> {"free", "watcher", "async"}]
    BY <1>1, <2>1
  <2> QED
    BY <1>1, <2>1, <2>3, <2>4, QuietControl
<1>6. CASE HandleEvent(c)
  <2> DEFINE p == <<c, "watcher">>
  <2>1. /\ mutex[c] = "watcher" /\ op[p].pc = "idle" /\ UNCHANGED <<disk, owner, local>>
        /\ BeginStore(p) \/ BeginDelete(p)
    BY <1>6 DEF HandleEvent, serverVars
  <2>2. p[1] = c /\ p[2] = "watcher" /\ p \in Procs
    BY <1>2
  <2>3. CASE Return(p)
    BY <1>1, <2>1, <2>2, <2>3, IdleReturn
  <2>4. CASE ~Return(p)
    <3>1. PICK to \in {"lock", "dlock"} : op' = [op EXCEPT ![p].pc = to] /\ mutex' = mutex
      BY <2>1, <2>4 DEF BeginStore, BeginDelete, clientVars
    <3>2. mounted[c]
      BY <2>1 DEF Mounting
    <3> QED
      BY <1>1, <2>1, <2>2, <3>1, <3>2, BeginControl
  <2> QED
    BY <2>3, <2>4
<1>7. CASE FetchListed(c) \/ FetchMissingHere(c)
  <2> DEFINE p == <<c, "async">>
  <2>1. /\ mounted[c] /\ mutex[c] = "free" /\ mutex' = [mutex EXCEPT ![c] = "async"]
        /\ UNCHANGED <<disk, owner, local>> /\ op' = [op EXCEPT ![p].pc = "status"]
    BY <1>7 DEF FetchListed, FetchMissingHere, Reply, serverVars
  <2>2. p[1] = c /\ p[2] = "async" /\ p \in Procs
    BY <1>2
  <2>3. op[p].pc = "idle"
    BY <1>3, <2>1
  <2> QED
    BY <1>1, <2>1, <2>2, <2>3, BeginControl
<1> QED
  BY <1>4, <1>5, <1>6, <1>7

\* The steps of users and signals
LEMMA UserControl ==
  ASSUME Control, NEW c \in Clients, Edit(c) \/ UserDelete(c) \/ Mount(c) \/ Exit(c) \/ Command(c)
  PROVE  Control'
<1>1. /\ Types /\ op \in [Procs -> Ops] /\ local \in [Clients -> Contents \union {Absent}]
      /\ mutex \in [Clients -> {"free", "watcher", "async"}] /\ mounted \in [Clients -> BOOLEAN]
      /\ session \in [Clients -> Nat] /\ commands \in [Clients -> Nat]
  BY DEF Control, Types
<1>2. /\ <<c, "watcher">> \in Procs /\ <<c, "async">> \in Procs /\ <<c, "command">> \in Procs
      /\ \A q \in Procs : q = <<q[1], q[2]>> /\ q[1] \in Clients /\ q[2] \in Threads
  BY DEF Procs, Threads
<1>3. changes' \in 0..MaxChanges /\ changes \in 0..MaxChanges
  <2>1. Change \/ changes' = changes
    BY DEF Edit, UserDelete, Mount, Exit, Command
  <2>2. changes \in 0..MaxChanges /\ MaxChanges \in Nat
    BY <1>1, SyncAssumption DEF Types
  <2> QED
    BY <2>1, <2>2 DEF Change
<1>4. CASE Edit(c)
  <2>1. /\ local' = [local EXCEPT ![c] = Content(changes')] /\ changes' \in 1..MaxChanges
        /\ UNCHANGED <<disk, owner, session, commands, mounted, mutex, op>>
    BY <1>1, <1>3, <1>4 DEF Edit, Change, serverVars, mountVars, clientVars
  <2>2. Content(changes') \in Contents
    BY <2>1, ContentFacts DEF Whole
  <2>3. /\ local' \in [Clients -> Contents \union {Absent}]
        /\ \A d \in Clients : local'[d] = Absent => local[d] = Absent
    BY <1>1, <2>1, <2>2, ContentFacts
  <2> QED
    BY <1>1, <1>3, <2>1, <2>3, QuietControl
<1>5. CASE UserDelete(c)
  <2>1. /\ local[c] # Absent /\ local' = [local EXCEPT ![c] = Absent]
        /\ UNCHANGED <<disk, owner, session, commands, mounted, mutex>>
    BY <1>5 DEF UserDelete, serverVars, mountVars, clientVars
  <2>2. op' = [p \in Procs |->
          IF p[1] # c THEN op[p]
          ELSE [op[p] EXCEPT !.linked = @ /\ op[p].pc # "recv",
                             !.src = IF op[p].pc \in {"lock", "compare", "send"} /\ @ = Live THEN local[c] ELSE @]]
    BY <1>5 DEF UserDelete
  <2>3. ASSUME NEW q \in Procs
        PROVE  /\ op'[q] \in Ops /\ op'[q].pc = op[q].pc /\ op'[q].pos = op[q].pos
               /\ op[q].pc \notin {"lock", "compare", "send"} => op'[q].src = op[q].src
               /\ op[q].pc # "recv" /\ op[q].linked => op'[q].linked
               /\ op'[q].linked => op[q].linked
               /\ q[1] = c /\ op[q].pc = "recv" => ~op'[q].linked
    <3>1. op[q] \in Ops /\ op[q].linked \in BOOLEAN /\ op[q].src \in Contents \union {Live}
      BY <1>1 DEF Ops
    <3>2. CASE q[1] # c
      BY <2>2, <3>1, <3>2
    <3>3. CASE q[1] = c
      <4>1. PICK x : x = (op[q].linked /\ op[q].pc # "recv")
        OBVIOUS
      <4>2. PICK y : y = (IF op[q].pc \in {"lock", "compare", "send"} /\ op[q].src = Live THEN local[c] ELSE op[q].src)
        OBVIOUS
      <4>3. PICK r : r = [[op[q] EXCEPT !.linked = x] EXCEPT !.src = y]
        OBVIOUS
      <4>4. op'[q] = r
        BY <2>2, <3>1, <3>3, <4>1, <4>2, <4>3 DEF Ops
      <4>5. x \in BOOLEAN /\ y \in Contents \union {Live}
        BY <1>1, <2>1, <3>1, <4>1, <4>2
      <4>6. /\ r \in Ops /\ r.pc = op[q].pc /\ r.pos = op[q].pos /\ r.linked = x /\ r.src = y
        BY <3>1, <4>3, <4>5 DEF Ops
      <4> QED
        BY <3>1, <3>3, <4>1, <4>2, <4>4, <4>6
    <3> QED
      BY <3>2, <3>3
  <2>4. op' \in [Procs -> Ops]
    BY <2>2, <2>3
  <2>5. Types'
    <3>1. local' \in [Clients -> Contents \union {Absent}]
      BY <1>1, <2>1
    <3> QED
      BY <1>1, <1>3, <2>1, <2>4, <3>1 DEF Types
  <2>6. Roles'
    <3>1. \A d \in Clients : <<d, "watcher">> \in Procs /\ <<d, "async">> \in Procs
      BY DEF Procs, Threads
    <3> QED
      BY <2>1, <2>3, <3>1 DEF Control, Roles
  <2>7. Locked'
    BY <2>1, <2>3 DEF Control, Locked, Id
  <2>8. Fresh'
    BY <2>3 DEF Control, Fresh
  <2>9. Targets'
    <3>1. ASSUME NEW q \in Procs, op'[q].pc = "recv" /\ op'[q].linked PROVE local'[q[1]] # Absent
      <4>1. q[1] # c /\ op[q].pc = "recv" /\ op[q].linked /\ q[1] \in Clients
        BY <1>2, <2>3, <3>1
      <4> QED
        BY <1>1, <2>1, <4>1 DEF Control, Targets
    <3> QED
      BY <2>1, <2>3, <3>1 DEF Control, Targets
  <2> QED
    BY <2>5, <2>6, <2>7, <2>8, <2>9 DEF Control
<1>6. CASE Mount(c)
  <2>1. /\ ~mounted[c] /\ mounted' = [mounted EXCEPT ![c] = TRUE]
        /\ session' = [session EXCEPT ![c] = session[c] + 1]
        /\ UNCHANGED <<disk, owner, local, commands, mutex, op>>
    BY <1>6 DEF Mount, serverVars
  <2>2. Types'
    BY <1>1, <1>3, <2>1 DEF Types
  <2>3. Roles'
    <3>1. ASSUME NEW d \in Clients
          PROVE  /\ op'[<<d, "watcher">>].pc \in WatcherPCs
                 /\ op'[<<d, "async">>].pc \in AsyncPCs
                 /\ op'[<<d, "watcher">>].pc # "idle" => mutex'[d] = "watcher" /\ mounted'[d]
                 /\ op'[<<d, "async">>].pc # "idle" => mutex'[d] = "async" /\ mounted'[d]
      <4>1. /\ op[<<d, "watcher">>].pc \in WatcherPCs
            /\ op[<<d, "async">>].pc \in AsyncPCs
            /\ op[<<d, "watcher">>].pc # "idle" => mutex[d] = "watcher" /\ mounted[d]
            /\ op[<<d, "async">>].pc # "idle" => mutex[d] = "async" /\ mounted[d]
        BY DEF Control, Roles
      <4>2. CASE d = c
        BY <1>1, <2>1, <4>1, <4>2
      <4>3. CASE d # c
        BY <1>1, <2>1, <4>1, <4>3
      <4> QED
        BY <4>2, <4>3
    <3> QED
      BY <3>1 DEF Roles
  <2>4. Locked'
    <3>1. ASSUME NEW q \in Procs, op[q].pc \in Locking PROVE Id(q)' = Id(q)
      <4>1. q[1] # c \/ q[2] = "command"
        BY <2>1, <3>1, RoleFacts DEF Locking
      <4> QED
        BY <1>1, <1>2, <2>1, <4>1 DEF Id
    <3> QED
      BY <2>1, <3>1 DEF Control, Locked
  <2>5. Fresh' /\ Targets'
    BY <2>1 DEF Control, Fresh, Targets
  <2> QED
    BY <2>2, <2>3, <2>4, <2>5 DEF Control
<1>7. CASE Exit(c)
  <2>1. /\ mounted' = [mounted EXCEPT ![c] = FALSE] /\ mutex' = [mutex EXCEPT ![c] = "free"]
        /\ op' = [p \in Procs |-> IF p[1] = c /\ p[2] # "command" THEN Idle ELSE op[p]]
        /\ owner' = IF \E p \in Procs : p[1] = c /\ p[2] # "command" /\ op[p].pc = "send"
                    THEN Nobody ELSE owner
        /\ UNCHANGED <<disk, local, session, commands>>
    BY <1>7 DEF Exit
  <2>2. Idle \in Ops /\ Idle.pc = "idle" /\ Idle.pos = 0 /\ Idle.src = Live /\ Idle.linked
    BY ContentFacts DEF Idle, Ops, PCs
  <2>3. \A q \in Procs : op'[q] = Idle \/ op'[q] = op[q]
    BY <2>1
  <2>4. Types'
    BY <1>1, <1>3, <2>1, <2>2 DEF Types
  <2>5. Roles'
    <3>1. \A d \in Clients : <<d, "watcher">> \in Procs /\ <<d, "async">> \in Procs
      BY DEF Procs, Threads
    <3>2. ASSUME NEW d \in Clients
          PROVE  /\ op'[<<d, "watcher">>] = IF d = c THEN Idle ELSE op[<<d, "watcher">>]
                 /\ op'[<<d, "async">>] = IF d = c THEN Idle ELSE op[<<d, "async">>]
      BY <2>1, <3>1
    <3>3. "idle" \in WatcherPCs /\ "idle" \in AsyncPCs
      BY DEF WatcherPCs, AsyncPCs
    <3>4. ASSUME NEW d \in Clients
          PROVE  /\ op'[<<d, "watcher">>].pc \in WatcherPCs
                 /\ op'[<<d, "async">>].pc \in AsyncPCs
                 /\ op'[<<d, "watcher">>].pc # "idle" => mutex'[d] = "watcher" /\ mounted'[d]
                 /\ op'[<<d, "async">>].pc # "idle" => mutex'[d] = "async" /\ mounted'[d]
      <4>1. /\ op[<<d, "watcher">>].pc \in WatcherPCs
            /\ op[<<d, "async">>].pc \in AsyncPCs
            /\ op[<<d, "watcher">>].pc # "idle" => mutex[d] = "watcher" /\ mounted[d]
            /\ op[<<d, "async">>].pc # "idle" => mutex[d] = "async" /\ mounted[d]
        BY DEF Control, Roles
      <4>2. CASE d = c
        <5>1. op'[<<d, "watcher">>].pc = "idle" /\ op'[<<d, "async">>].pc = "idle"
          BY <2>2, <3>2, <4>2
        <5>2. mounted'[d] = FALSE
          BY <1>1, <2>1, <4>2
        <5> QED
          BY <3>3, <5>1, <5>2
      <4>3. CASE d # c
        BY <1>1, <2>1, <3>2, <4>1, <4>3
      <4> QED
        BY <4>2, <4>3
    <3> QED
      BY <3>4 DEF Roles
  <2>6. Locked'
    <3>1. ASSUME NEW q \in Procs, op'[q].pc \in Locking PROVE owner' = Id(q)'
      <4>1. op'[q] = op[q] /\ op[q].pc \in Locking /\ ~(q[1] = c /\ q[2] # "command")
        BY <2>1, <2>2, <3>1 DEF Locking
      <4>2. ASSUME NEW p \in Procs, p[1] = c /\ p[2] # "command" /\ op[p].pc = "send" PROVE FALSE
        BY <4>1, <4>2, LockExclusive DEF Locking
      <4>3. owner' = owner
        BY <2>1, <4>2
      <4> QED
        BY <2>1, <4>1, <4>3 DEF Control, Locked, Id
    <3> QED
      BY <3>1 DEF Locked
  <2>7. Fresh'
    BY <2>2, <2>3 DEF Control, Fresh
  <2>8. Targets'
    BY <2>1, <2>2, <2>3 DEF Control, Targets
  <2> QED
    BY <2>4, <2>5, <2>6, <2>7, <2>8 DEF Control
<1>8. CASE Command(c)
  <2> DEFINE p == <<c, "command">>
  <2>1. /\ op[p].pc = "idle" /\ UNCHANGED <<disk, owner, local, session, mounted>>
        /\ commands' = [commands EXCEPT ![c] = @ + 1]
        /\ BeginFetch(p) \/ BeginStore(p) \/ BeginDelete(p)
    BY <1>8, SyncAssumption DEF Command, serverVars, mountVars
  <2>2. p[1] = c /\ p[2] = "command" /\ p \in Procs
    BY <1>2
  <2>5. commands' \in [Clients -> Nat]
    BY <1>1, <2>1
  <2>6. ASSUME NEW q \in Procs, q[2] = "command", op[q].pc # "idle" PROVE commands'[q[1]] = commands[q[1]]
    <3>1. q # p /\ q = <<q[1], q[2]>> /\ q[1] \in Clients
      BY <1>2, <2>1, <2>6
    <3>2. q[1] # c
      BY <2>6, <3>1
    <3> QED
      BY <1>1, <2>1, <3>1, <3>2
  <2>3. CASE Return(p)
    BY <1>3, <2>1, <2>2, <2>3, <2>5, <2>6, IdleReturn
  <2>4. CASE ~Return(p)
    <3>1. PICK to \in {"lock", "dlock", "status"} : op' = [op EXCEPT ![p].pc = to] /\ mutex' = mutex
      BY <2>1, <2>4 DEF BeginFetch, BeginStore, BeginDelete, clientVars
    <3> QED
      BY <1>3, <2>1, <2>2, <2>5, <2>6, <3>1, BeginControl
  <2> QED
    BY <2>3, <2>4
<1> QED
  BY <1>4, <1>5, <1>6, <1>7, <1>8

\* A step of a mounted client, or one that touches neither mutex nor batch
LEMMA KeptMounting ==
  ASSUME Control, Mounting, NEW c \in Clients, UNCHANGED mounted,
         UNCHANGED clientVars
         \/ (mounted[c] /\ \E x, y : mutex' = [mutex EXCEPT ![c] = x] /\ batch' = [batch EXCEPT ![c] = y])
  PROVE  Mounting'
<1>1. DOMAIN mutex = Clients
  BY DEF Control, Types
<1>2. CASE UNCHANGED clientVars
  BY <1>2 DEF Mounting, clientVars
<1>3. ASSUME NEW x, NEW y, mounted[c], mutex' = [mutex EXCEPT ![c] = x], batch' = [batch EXCEPT ![c] = y]
      PROVE  Mounting'
  <2>1. DOMAIN batch' = Clients
    BY <1>3 DEF Mounting
  <2>2. \A d \in Clients : d # c => mutex'[d] = mutex[d] /\ batch'[d] = batch[d]
    BY <1>1, <1>3 DEF Mounting
  <2> QED
    BY <1>3, <2>1, <2>2 DEF Mounting
<1> QED
  BY <1>2, <1>3

\* Only the end of an event or of a reply changes mutex and batch.
LEMMA OpMounting ==
  ASSUME Control, Mounting, NEW p \in Procs, UNCHANGED mounted,
         OpStep(p) \/ (Return(p) /\ (op[p].pc = "idle" => p[2] = "command" \/ mounted[p[1]]))
  PROVE  Mounting'
<1>1. /\ p[1] \in Clients /\ p[2] \in Threads
      /\ p[2] # "command" /\ op[p].pc # "idle" => mounted[p[1]]
      /\ p[2] = "async" => op[p].pc \in AsyncPCs
  BY RoleFacts
<1>2. DOMAIN mutex = Clients /\ DOMAIN batch = Clients
  BY DEF Control, Types, Mounting
<1>3. OpStep(p) => op[p].pc # "idle"
  BY DEF OpStep, Refused, Granted, SameChecksum, OpenTarget, SendChunk, EndStore, GrantedDelete, DeleteMissing, Remove,
         Unchanged, Changed, FetchFile, RecvChunk, EndFetch, Goto
<1>4. OpStep(p) => Return(p) \/ Remove(p) \/ UNCHANGED clientVars
  BY DEF OpStep, Refused, Granted, SameChecksum, OpenTarget, SendChunk, EndStore, GrantedDelete, DeleteMissing, Remove,
         Unchanged, Changed, FetchFile, RecvChunk, EndFetch, Goto
<1>5. \/ UNCHANGED clientVars
      \/ p[2] = "watcher" /\ EventDone(p[1])
      \/ p[2] = "async" /\ ReplyDone(p[1])
  <2>1. CASE Return(p)
    BY <1>1, <2>1 DEF Return, Threads
  <2>2. CASE Remove(p)
    BY <2>2 DEF Remove
  <2> QED
    BY <1>4, <2>1, <2>2
<1>6. CASE UNCHANGED clientVars
  BY <1>1, <1>6, KeptMounting
<1>7. CASE p[2] = "watcher" /\ EventDone(p[1])
  <2>1. \E x, y : mutex' = [mutex EXCEPT ![p[1]] = x] /\ batch' = [batch EXCEPT ![p[1]] = y]
    BY <1>7 DEF EventDone
  <2>2. mounted[p[1]]
    BY <1>1, <1>3, <1>7
  <2> QED
    BY <1>1, <2>1, <2>2, KeptMounting
<1>8. CASE p[2] = "async" /\ ReplyDone(p[1])
  <2>1. \A d \in Clients : d # p[1] => mutex'[d] = mutex[d]
    BY <1>2, <1>8 DEF ReplyDone
  <2>2. mounted[p[1]] /\ batch' = batch
    BY <1>1, <1>3, <1>8 DEF ReplyDone
  <2> QED
    BY <2>1, <2>2 DEF Mounting
<1> QED
  BY <1>5, <1>6, <1>7, <1>8

\* Every step keeps control where it should be.
LEMMA ControlStep ==
  ASSUME Control, Mounting, [Next]_vars
  PROVE  Control' /\ Mounting'
<1>1. CASE UNCHANGED vars
  <2>1. Types' /\ Roles'
    BY <1>1 DEF vars, Control, Types, Roles
  <2>2. Locked' /\ Fresh' /\ Targets'
    BY <1>1 DEF vars, Control, Locked, Fresh, Targets, Id
  <2> QED
    BY <1>1, <2>1, <2>2 DEF vars, Control, Mounting
<1>2. ASSUME NEW p \in Procs, OpStep(p), UNCHANGED <<mountVars, changes>> PROVE Control' /\ Mounting'
  <2>1. UNCHANGED mounted
    BY <1>2 DEF mountVars
  <2> QED
    BY <1>2, <2>1, OpControl, OpMounting
<1>3. ASSUME NEW c \in Clients, UNCHANGED <<mountVars, changes>>,
             ReadEvents(c) \/ LockWatcher(c) \/ HandleEvent(c) \/ FetchListed(c) \/ FetchMissingHere(c)
      PROVE  Control' /\ Mounting'
  <2>1. Control'
    BY <1>3, ThreadControl
  <2> SUFFICES Mounting'
    BY <2>1
  <2>2. UNCHANGED mounted /\ DOMAIN mutex = Clients /\ DOMAIN batch = Clients
    BY <1>3 DEF mountVars, Control, Types, Mounting
  <2>3. CASE ReadEvents(c)
    BY <2>2, <2>3 DEF ReadEvents, Mounting
  <2>4. CASE LockWatcher(c)
    BY <2>2, <2>4 DEF LockWatcher, Mounting
  <2>5. CASE HandleEvent(c)
    <3> DEFINE p == <<c, "watcher">>
    <3>1. mounted[c] /\ p \in Procs /\ p[1] = c
      BY <2>5 DEF HandleEvent, Mounting, Procs, Threads
    <3>2. Return(p) \/ UNCHANGED clientVars
      BY <2>5 DEF HandleEvent, BeginStore, BeginDelete
    <3> QED
      BY <2>2, <3>1, <3>2, OpMounting, KeptMounting
  <2>6. CASE FetchListed(c) \/ FetchMissingHere(c)
    BY <2>2, <2>6 DEF FetchListed, FetchMissingHere, Reply, Mounting
  <2> QED
    BY <1>3, <2>1, <2>3, <2>4, <2>5, <2>6
<1>4. ASSUME NEW c \in Clients, Edit(c) \/ UserDelete(c) \/ Mount(c) \/ Exit(c) \/ Command(c)
      PROVE  Control' /\ Mounting'
  <2>1. Control'
    BY <1>4, UserControl
  <2> SUFFICES Mounting'
    BY <2>1
  <2>2. /\ DOMAIN mutex = Clients /\ DOMAIN batch = Clients /\ mounted \in [Clients -> BOOLEAN]
        /\ mutex \in [Clients -> {"free", "watcher", "async"}]
    BY DEF Control, Types, Mounting
  <2>3. CASE Edit(c) \/ UserDelete(c)
    <3>1. UNCHANGED mounted /\ UNCHANGED clientVars
      BY <2>3 DEF Edit, UserDelete, mountVars
    <3> QED
      BY <3>1, KeptMounting
  <2>4. CASE Mount(c)
    BY <2>2, <2>4 DEF Mount, Mounting
  <2>5. CASE Exit(c)
    <3>1. /\ mounted' = [mounted EXCEPT ![c] = FALSE] /\ mutex' = [mutex EXCEPT ![c] = "free"]
          /\ batch' = [batch EXCEPT ![c] = << >>]
      BY <2>5 DEF Exit
    <3> QED
      BY <2>2, <3>1 DEF Mounting
  <2>6. CASE Command(c)
    <3> DEFINE p == <<c, "command">>
    <3>1. p \in Procs /\ p[2] = "command" /\ UNCHANGED mounted
      BY <2>6 DEF Command, Procs, Threads, mountVars
    <3>2. Return(p) \/ UNCHANGED clientVars
      BY <2>6, SyncAssumption DEF Command, BeginFetch, BeginStore, BeginDelete
    <3> QED
      BY <3>1, <3>2, OpMounting, KeptMounting
  <2> QED
    BY <1>4, <2>1, <2>3, <2>4, <2>5, <2>6
<1>5. \A c \in Clients : \A t \in Threads : <<c, t>> \in Procs
  BY DEF Procs
<1> QED
  BY <1>1, <1>2, <1>3, <1>4, <1>5 DEF Next, Runs, Watcher, Async, User, Threads
-----------------------------------------------------------------------------
(* What the files hold *)

\* The mutex of a client keeps its own two threads apart.
LEMMA Streams == Control => (~Overlap => OneStream)
<1> SUFFICES ASSUME Control, ~Overlap, NEW p \in Procs, NEW q \in Procs,
                    op[p].pc \in Streaming, op[q].pc \in Streaming
             PROVE  p = q
  BY DEF OneStream
<1>1. /\ p = <<p[1], p[2]>> /\ p[2] \in Threads
      /\ p[2] # "command" => mutex[p[1]] = p[2]
  BY RoleFacts DEF Streaming
<1>2. /\ q = <<q[1], q[2]>> /\ q[2] \in Threads
      /\ q[2] # "command" => mutex[q[1]] = q[2]
  BY RoleFacts DEF Streaming
<1>3. p = q \/ (p[1] = q[1] /\ p[2] # "command" /\ q[2] # "command")
  BY DEF Overlap
<1> QED
  BY <1>1, <1>2, <1>3

\* Where a stream that is not cut short reads from: a whole file, and not an empty one
\* as long as nothing was removed
LEMMA WholeSources ==
  ASSUME Control, Undisturbed, NEW p \in Procs
  PROVE  /\ op[p].pc = "send" => StoreSource(p) \in Whole /\ (Filled => StoreSource(p) # << >>)
         /\ op[p].pc = "recv" => FetchSource(p) \in Whole /\ (Filled => FetchSource(p) # << >>)
<1>1. p[1] \in Clients /\ \A c \in Clients : \A t \in Threads : <<c, t>> \in Procs
  BY DEF Procs
<1>2. op[p].src \in Whole \union {Live} /\ (Filled => op[p].src # << >>)
  BY DEF Undisturbed, Sources, Filled
<1>3. ASSUME op[p].pc = "send"
      PROVE  StoreSource(p) \in Whole /\ (Filled => StoreSource(p) # << >>)
  <2>1. ~Receiving(p[1])
    BY <1>1, <1>3 DEF Undisturbed, OneStream, Receiving, Streaming
  <2>2. CASE op[p].src = Live
    <3>1. local[p[1]] # Absent
      BY <1>3, <2>2 DEF Undisturbed, Sources, Storing
    <3>2. local[p[1]] \in Whole
      BY <1>1, <2>1, <3>1 DEF Undisturbed, LocalWhole
    <3>3. Filled => local[p[1]] # << >>
      BY <1>1, <2>1 DEF Filled
    <3> QED
      BY <2>2, <3>1, <3>2, <3>3 DEF StoreSource, Checksum
  <2>3. CASE op[p].src # Live
    BY <1>2, <2>3 DEF StoreSource
  <2> QED
    BY <2>2, <2>3
<1>4. ASSUME op[p].pc = "recv"
      PROVE  FetchSource(p) \in Whole /\ (Filled => FetchSource(p) # << >>)
  <2>1. \A q \in Procs : op[q].pc # "send"
    BY <1>4 DEF Undisturbed, OneStream, Streaming
  <2>2. CASE op[p].src = Live
    <3>1. disk # Absent
      BY <1>4, <2>2 DEF Undisturbed, Received
    <3>2. disk \in Whole
      BY <2>1, <3>1 DEF Undisturbed, DiskWhole
    <3>3. Filled => disk # << >>
      BY <2>1 DEF Filled
    <3> QED
      BY <2>2, <3>1, <3>2, <3>3 DEF FetchSource, Checksum
  <2>3. CASE op[p].src # Live
    BY <1>2, <2>3 DEF FetchSource
  <2> QED
    BY <2>2, <2>3
<1> QED
  BY <1>3, <1>4

\* Steps that touch no file and no stream
LEMMA QuietData ==
  ASSUME Undisturbed, OneStream', UNCHANGED <<disk, local>>,
         \A q \in Procs :
           /\ op[q].pc \in Streaming <=> op'[q].pc \in Streaming
           /\ op[q].pc \in Streaming => op'[q] = op[q]
           /\ op'[q].src \in {op[q].src, Live}
           /\ Storing(q)' /\ op'[q].src = Live => (Storing(q) /\ op[q].src = Live) \/ local[q[1]] # Absent,
         \A c \in Clients : op'[<<c, "async">>].pc # "idle" => op[<<c, "async">>].pc # "idle" \/ disk # Absent
  PROVE  Undisturbed' /\ (Filled => Filled')
<1>1. \A c \in Clients : \A t \in Threads : <<c, t>> \in Procs
  BY DEF Procs
<1>2. \A q \in Procs : \A x \in Streaming : op'[q].pc = x <=> op[q].pc = x
  OBVIOUS
<1>3. \A c \in Clients : Receiving(c)' <=> Receiving(c)
  BY <1>1, <1>2 DEF Receiving, Streaming
<1>4. DiskWhole' /\ LocalWhole'
  BY <1>2, <1>3 DEF Undisturbed, DiskWhole, LocalWhole, Streaming
<1>5. Sources'
  BY DEF Undisturbed, Sources
<1>6. Sent'
  BY <1>2 DEF Undisturbed, Sent, StoreSource, Streaming
<1>7. Received'
  BY <1>2 DEF Undisturbed, Received, FetchSource, Streaming
<1>8. ASSUME Filled PROVE Filled'
  <2>1. /\ \A c \in Clients : local'[c] = << >> => Receiving(c)'
        /\ disk' = << >> => \E p \in Procs : op'[p].pc = "send"
    BY <1>2, <1>3, <1>8 DEF Filled, Streaming
  <2>2. \A p \in Procs : op'[p].src # << >>
    BY <1>8, ContentFacts DEF Filled
  <2>3. disk' = Absent => \A c \in Clients : op'[<<c, "async">>].pc = "idle"
    BY <1>8 DEF Filled
  <2> QED
    BY <2>1, <2>2, <2>3 DEF Filled
<1> QED
  BY <1>4, <1>5, <1>6, <1>7, <1>8 DEF Undisturbed

\* StoreFile empties the file on the server.
LEMMA OpenData ==
  ASSUME Control, Undisturbed, OneStream', NEW p \in Procs, OpenTarget(p)
  PROVE  Undisturbed' /\ (Filled => Filled')
<1>1. /\ op[p].pc = "compare" /\ op' = [op EXCEPT ![p].pc = "send"]
      /\ disk' = << >> /\ UNCHANGED local /\ Types /\ p[1] \in Clients
  BY RoleFacts DEF OpenTarget, Goto, Control
<1>2. /\ op'[p].pc = "send" /\ op'[p].pos = op[p].pos /\ op'[p].src = op[p].src
      /\ op'[p].linked = op[p].linked
      /\ \A q \in Procs : q # p => op'[q] = op[q]
  BY <1>1, SetPc DEF PCs
<1>3. \A q \in Procs : op[q].pc \notin Streaming /\ (op'[q].pc \in Streaming => q = p)
  BY <1>1, <1>2 DEF OneStream, Streaming
<1>4. \A c \in Clients : ~Receiving(c) /\ ~Receiving(c)'
  BY <1>2, <1>3 DEF Receiving, Streaming, Procs
<1>5. DiskWhole' /\ LocalWhole' /\ Received'
  BY <1>1, <1>2, <1>3, <1>4 DEF Undisturbed, DiskWhole, LocalWhole, Received, Streaming
<1>6. Sources'
  BY <1>1, <1>2 DEF Undisturbed, Sources, Storing
<1>7. Sent'
  <2>1. StoreSource(p)' = StoreSource(p) /\ StoreSource(p) \in Contents
    BY <1>1, <1>2, SourceTypes DEF StoreSource
  <2>2. op'[p].pos = 0
    BY <1>1, <1>2 DEF Control, Fresh, Streaming
  <2>3. 0 <= Len(StoreSource(p)) /\ Prefix(StoreSource(p), 0) = << >>
    BY <2>1, PrefixFacts
  <2> QED
    BY <1>1, <1>3, <2>1, <2>2, <2>3 DEF Sent, Streaming
<1>8. ASSUME Filled PROVE Filled'
  <2>1. disk' # Absent
    BY <1>1, ContentFacts
  <2>2. \A q \in Procs : op'[q].src # << >>
    BY <1>2, <1>8 DEF Filled
  <2>3. \A c \in Clients : local'[c] # << >>
    BY <1>1, <1>4, <1>8 DEF Filled
  <2> QED
    BY <1>2, <2>1, <2>2, <2>3 DEF Filled
<1> QED
  BY <1>5, <1>6, <1>7, <1>8 DEF Undisturbed

\* A chunk reaches the server.
LEMMA SendData ==
  ASSUME Control, Undisturbed, OneStream', NEW p \in Procs, SendChunk(p)
  PROVE  Undisturbed' /\ (Filled => Filled')
<1> DEFINE k == op[p].pos
           S == StoreSource(p)
<1>1. /\ op[p].pc = "send" /\ k + 1 <= Len(S) /\ disk' = WriteAt(disk, k + 1, S[k + 1])
      /\ op' = [op EXCEPT ![p].pos = k + 1] /\ UNCHANGED local /\ Types /\ p[1] \in Clients
  BY RoleFacts DEF SendChunk, Control
<1>2. k \in Nat /\ k + 1 \in Nat /\ S \in Contents /\ Len(S) \in Nat
  BY <1>1, ChunkTypes, SourceTypes, PrefixFacts
<1>3. /\ op'[p].pc = "send" /\ op'[p].pos = k + 1 /\ op'[p].src = op[p].src
      /\ op'[p].linked = op[p].linked
      /\ \A q \in Procs : q # p => op'[q] = op[q]
  BY <1>1, <1>2, SetPos
<1>4. \A q \in Procs : q # p => op[q].pc \notin Streaming /\ op'[q].pc \notin Streaming
  BY <1>1, <1>3 DEF Undisturbed, OneStream, Streaming
<1>5. \A c \in Clients : ~Receiving(c) /\ ~Receiving(c)'
  BY <1>1, <1>3, <1>4 DEF Receiving, Streaming, Procs
<1>6. DiskWhole' /\ LocalWhole' /\ Received'
  BY <1>1, <1>3, <1>4, <1>5 DEF Undisturbed, DiskWhole, LocalWhole, Received, Streaming
<1>7. Sources'
  BY <1>1, <1>3 DEF Undisturbed, Sources, Storing
<1>8. disk = Prefix(S, k) /\ S' = S
  BY <1>1, <1>3 DEF Undisturbed, Sent, StoreSource
<1>9. disk' = Prefix(S, k + 1)
  <2>1. k \in 0..(Len(S) - 1)
    BY <1>1, <1>2
  <2> QED
    BY <1>1, <1>2, <1>8, <2>1, PrefixFacts
<1>10. Sent'
  BY <1>1, <1>3, <1>4, <1>8, <1>9 DEF Sent, Streaming
<1>11. disk' # Absent
  <2>1. disk \in Contents
    BY <1>1 DEF Control, Types, Targets
  <2> QED
    BY <1>1, <2>1, ChunkTypes, ContentFacts
<1>12. ASSUME Filled PROVE Filled'
  BY <1>1, <1>3, <1>5, <1>11, <1>12 DEF Filled
<1> QED
  BY <1>6, <1>7, <1>10, <1>12 DEF Undisturbed

\* StoreFile has read the stream to its end.
LEMMA EndStoreData ==
  ASSUME Control, Undisturbed, OneStream', NEW p \in Procs, EndStore(p)
  PROVE  Undisturbed' /\ (Filled => Filled')
<1>1. /\ op[p].pc = "send" /\ op[p].pos >= Len(StoreSource(p)) /\ UNCHANGED <<disk, local>>
      /\ Types /\ p[1] \in Clients /\ Return(p)
  BY RoleFacts DEF EndStore, Control
<1>2. /\ op'[p].pc = "idle" /\ op'[p].src = Live
      /\ \A q \in Procs : q # p => op'[q] = op[q]
  BY <1>1, ReturnFacts, SetIdle
<1>3. \A q \in Procs : op'[q].pc \notin Streaming /\ (op[q].pc \in Streaming => q = p)
  BY <1>1, <1>2 DEF Undisturbed, OneStream, Streaming
<1>4. \A c \in Clients : ~Receiving(c) /\ ~Receiving(c)'
  BY <1>1, <1>3 DEF Receiving, Streaming, Procs
<1>5. StoreSource(p) \in Contents /\ Len(StoreSource(p)) \in Nat /\ op[p].pos \in Nat
  BY <1>1, SourceTypes, PrefixFacts, ChunkTypes
<1>6. disk = StoreSource(p)
  <2>1. op[p].pos <= Len(StoreSource(p)) /\ disk = Prefix(StoreSource(p), op[p].pos)
    BY <1>1 DEF Undisturbed, Sent
  <2>2. op[p].pos = Len(StoreSource(p))
    BY <1>1, <1>5, <2>1
  <2> QED
    BY <1>5, <2>1, <2>2, PrefixFacts
<1>7. disk \in Whole /\ (Filled => disk # << >>)
  BY <1>1, <1>6, WholeSources
<1>8. DiskWhole' /\ LocalWhole' /\ Received' /\ Sent'
  BY <1>1, <1>3, <1>4, <1>7 DEF Undisturbed, DiskWhole, LocalWhole, Received, Sent, Streaming
<1>9. Sources'
  BY <1>1, <1>2 DEF Undisturbed, Sources, Storing
<1>10. disk # Absent
  BY <1>7, ContentFacts
<1>11. ASSUME Filled PROVE Filled'
  BY <1>1, <1>2, <1>4, <1>7, <1>10, <1>11, ContentFacts DEF Filled
<1> QED
  BY <1>8, <1>9, <1>11 DEF Undisturbed

\* DeleteFile removes the file; a FetchFile that has it open reads on.
LEMMA RemoveData ==
  ASSUME Control, Undisturbed, OneStream', NEW p \in Procs, Remove(p)
  PROVE  Undisturbed'
<1>1. \A q \in Procs : op[q].pc # "send"
  BY RemoveFacts, LockExclusive DEF Locking
<1>2. disk \in Whole /\ disk # Live /\ disk # Absent
  BY <1>1, RemoveFacts, ContentFacts DEF Undisturbed, DiskWhole
<1>3. /\ op'[p].pc = "idle" /\ op'[p].src = Live /\ op[p].pc = "remove"
      /\ disk' = Absent /\ local' = local
      /\ \A q \in Procs : q # p =>
           /\ op'[q].pc = op[q].pc /\ op'[q].pos = op[q].pos /\ op'[q].linked = op[q].linked
           /\ op'[q].src = IF op[q].pc = "recv" /\ op[q].src = Live THEN disk ELSE op[q].src
  BY RemoveFacts
<1>4. \A q \in Procs : (op'[q].pc = "recv" <=> op[q].pc = "recv") /\ op'[q].pc # "send"
  BY <1>1, <1>3
<1>5. \A c \in Clients : Receiving(c)' <=> Receiving(c)
  BY <1>4 DEF Receiving, Procs
<1>6. DiskWhole' /\ LocalWhole' /\ Sent'
  BY <1>3, <1>4, <1>5 DEF Undisturbed, DiskWhole, LocalWhole, Sent
<1>7. Sources'
  <2>1. ASSUME NEW q \in Procs
        PROVE  /\ op'[q].src \in Whole \union {Live}
               /\ op'[q].pc \in {"lock", "compare", "send"} /\ op'[q].src = Live => local'[q[1]] # Absent
    <3>1. /\ op[q].src \in Whole \union {Live}
          /\ op[q].pc \in {"lock", "compare", "send"} /\ op[q].src = Live => local[q[1]] # Absent
      BY DEF Undisturbed, Sources, Storing
    <3> QED
      BY <1>2, <1>3, <3>1
  <2> QED
    BY <2>1 DEF Sources, Storing
<1>8. Received'
  <2>1. ASSUME NEW q \in Procs, op'[q].pc = "recv"
        PROVE  /\ op'[q].linked /\ op'[q].src # Live
               /\ FetchSource(q)' = FetchSource(q) /\ op'[q].pos = op[q].pos
    <3>1. q # p /\ op[q].pc = "recv" /\ op[q].linked
      BY <1>3, <2>1 DEF Undisturbed, Received
    <3>2. op'[q].src # Live /\ op'[q].pos = op[q].pos /\ op'[q].linked
      BY <1>2, <1>3, <3>1
    <3>3. FetchSource(q)' = op'[q].src
      BY <3>2 DEF FetchSource
    <3>4. op'[q].src = FetchSource(q)
      BY <1>2, <1>3, <3>1 DEF FetchSource, Checksum
    <3> QED
      BY <3>2, <3>3, <3>4
  <2> QED
    BY <1>3, <1>4, <2>1 DEF Undisturbed, Received
<1> QED
  BY <1>6, <1>7, <1>8 DEF Undisturbed

\* The steps of a Fetch that write to the local file, or end the stream into it
LEMMA FetchData ==
  ASSUME Control, Undisturbed, OneStream', ~Truncates, NEW p \in Procs, FetchFile(p)
  PROVE  /\ Undisturbed'
         /\ disk # Absent => (Filled => Filled')
         /\ disk = Absent /\ p[2] # "command" => ~Filled
<1>1. /\ op[p].pc = "get" /\ local' = [local EXCEPT ![p[1]] = << >>] /\ disk' = disk
      /\ Types /\ p = <<p[1], p[2]>> /\ p[1] \in Clients /\ p[2] \in Threads
      /\ p[2] = "watcher" => op[p].pc \in WatcherPCs
      /\ IF disk = Absent THEN Return(p) ELSE op' = [op EXCEPT ![p].pc = "recv"]
  BY RoleFacts DEF FetchFile, Control, serverVars
<1>2. /\ local \in [Clients -> Contents \union {Absent}] /\ local'[p[1]] = << >> /\ << >> # Absent
      /\ \A c \in Clients : c # p[1] => local'[c] = local[c]
  BY <1>1, ContentFacts DEF Types
<1>3. \A c \in Clients : \A t \in Threads : <<c, t>> \in Procs
  BY DEF Procs
<1>4. \A q \in Procs : q[1] \in Clients /\ q = <<q[1], q[2]>>
  BY DEF Procs
<1>5. << >> \in Whole
  BY DEF Whole
<1>6. CASE disk = Absent
  <2>1. /\ op'[p].pc = "idle" /\ op'[p].src = Live
        /\ \A q \in Procs : q # p => op'[q] = op[q]
    BY <1>1, <1>6, ReturnFacts, SetIdle
  <2>2. \A q \in Procs : q[1] = p[1] => op[q].pc \notin Streaming /\ op'[q].pc \notin Streaming
    BY <1>1, <2>1 DEF Truncates, Streaming
  <2>3. \A q \in Procs : op'[q].pc \in Streaming <=> op[q].pc \in Streaming
    BY <1>1, <2>1 DEF Streaming
  <2>4. \A q \in Procs : op'[q].pc \in Streaming => op'[q] = op[q] /\ local'[q[1]] = local[q[1]] /\ q # p
    BY <1>2, <1>4, <2>1, <2>2
  <2>5. \A c \in Clients : Receiving(c)' <=> Receiving(c)
    BY <1>3, <2>3, <2>4 DEF Receiving, Streaming
  <2>6. DiskWhole' /\ LocalWhole'
    <3>1. (\A q \in Procs : op'[q].pc # "send") => (\A q \in Procs : op[q].pc # "send")
      BY <2>3, <2>4 DEF Streaming
    <3>2. DiskWhole'
      BY <1>1, <3>1 DEF Undisturbed, DiskWhole
    <3>3. LocalWhole'
      BY <1>2, <1>5, <2>5 DEF Undisturbed, LocalWhole
    <3> QED
      BY <3>2, <3>3
  <2>7. Sources'
    <3>1. \A q \in Procs : local[q[1]] # Absent => local'[q[1]] # Absent
      BY <1>2, <1>4
    <3> QED
      BY <2>1, <3>1 DEF Undisturbed, Sources, Storing
  <2>8. Sent' /\ Received'
    <3>1. Sent'
      BY <1>1, <2>3, <2>4 DEF Undisturbed, Sent, StoreSource, Streaming
    <3>2. Received'
      BY <1>1, <2>3, <2>4 DEF Undisturbed, Received, FetchSource, Streaming
    <3> QED
      BY <3>1, <3>2
  <2>9. p[2] # "command" => ~Filled
    <3> SUFFICES ASSUME p[2] # "command", Filled PROVE FALSE
      OBVIOUS
    <3>1. p = <<p[1], "async">>
      BY <1>1 DEF WatcherPCs, Threads
    <3>2. op[<<p[1], "async">>].pc = "idle"
      BY <1>1, <1>6 DEF Filled
    <3> QED
      BY <1>1, <3>1, <3>2
  <2> QED
    BY <1>6, <2>6, <2>7, <2>8, <2>9 DEF Undisturbed
<1>7. CASE disk # Absent
  <2>1. /\ op'[p].pc = "recv" /\ op'[p].pos = op[p].pos /\ op'[p].src = op[p].src
        /\ op'[p].linked = op[p].linked
        /\ \A q \in Procs : q # p => op'[q] = op[q]
    BY <1>1, <1>7, SetPc DEF PCs
  <2>2. \A q \in Procs : op[q].pc \notin Streaming /\ (op'[q].pc \in Streaming => q = p)
    BY <1>1, <2>1 DEF OneStream, Streaming
  <2>3. op[p].pos = 0 /\ op[p].src = Live /\ op[p].linked
    BY <1>1 DEF Control, Fresh, Streaming
  <2>4. Receiving(p[1])' /\ \A c \in Clients : ~Receiving(c)
    BY <1>1, <1>3, <2>1, <2>2 DEF Receiving, Streaming
  <2>5. DiskWhole' /\ LocalWhole' /\ Sent'
    <3>1. DiskWhole'
      BY <1>1, <2>2 DEF Undisturbed, DiskWhole, Streaming
    <3>2. LocalWhole'
      BY <1>2, <2>4 DEF Undisturbed, LocalWhole
    <3>3. Sent'
      BY <2>1, <2>2 DEF Sent, Streaming
    <3> QED
      BY <3>1, <3>2, <3>3
  <2>6. Sources'
    <3>1. \A q \in Procs : local[q[1]] # Absent => local'[q[1]] # Absent
      BY <1>2, <1>4
    <3> QED
      BY <2>1, <3>1 DEF Undisturbed, Sources, Storing
  <2>7. Received'
    <3>1. FetchSource(p)' = disk /\ disk \in Contents
      BY <1>1, <1>7, <2>1, <2>3 DEF FetchSource, Checksum, Types
    <3>2. 0 <= Len(disk) /\ Prefix(disk, 0) = << >>
      BY <3>1, PrefixFacts
    <3> QED
      BY <1>1, <1>2, <1>7, <2>1, <2>2, <2>3, <3>1, <3>2 DEF Received, Streaming
  <2>8. ASSUME Filled PROVE Filled'
    <3>1. \A q \in Procs : op'[q].src # << >>
      BY <2>1, <2>8 DEF Filled
    <3>2. \A c \in Clients : local'[c] = << >> => Receiving(c)'
      BY <1>2, <2>4, <2>8 DEF Filled
    <3>3. disk' # << >> /\ disk' # Absent
      BY <1>1, <1>7, <2>2, <2>8 DEF Filled, Streaming
    <3> QED
      BY <3>1, <3>2, <3>3 DEF Filled
  <2> QED
    BY <1>7, <2>5, <2>6, <2>7, <2>8 DEF Undisturbed
<1> QED
  BY <1>6, <1>7

\* A chunk reaches the client.
LEMMA RecvData ==
  ASSUME Control, Undisturbed, OneStream', NEW p \in Procs, RecvChunk(p)
  PROVE  Undisturbed' /\ (Filled => Filled')
<1> DEFINE k == op[p].pos
           S == FetchSource(p)
<1>1. /\ op[p].pc = "recv" /\ k + 1 <= Len(S) /\ op' = [op EXCEPT ![p].pos = k + 1]
      /\ disk' = disk /\ Types /\ p[1] \in Clients
  BY RoleFacts DEF RecvChunk, Control, serverVars
<1>2. k \in Nat /\ k + 1 \in Nat /\ S \in Contents /\ Len(S) \in Nat
  BY <1>1, ChunkTypes, SourceTypes, PrefixFacts
<1>3. /\ op'[p].pc = "recv" /\ op'[p].pos = k + 1 /\ op'[p].src = op[p].src
      /\ op'[p].linked = op[p].linked
      /\ \A q \in Procs : q # p => op'[q] = op[q]
  BY <1>1, <1>2, SetPos
<1>4. /\ op[p].linked /\ (op[p].src = Live => disk # Absent) /\ local[p[1]] = Prefix(S, k)
  BY <1>1 DEF Undisturbed, Received
<1>5. local' = [local EXCEPT ![p[1]] = WriteAt(local[p[1]], k + 1, S[k + 1])]
  BY <1>4 DEF RecvChunk
<1>6. WriteAt(local[p[1]], k + 1, S[k + 1]) = Prefix(S, k + 1)
  <2>1. k \in 0..(Len(S) - 1)
    BY <1>1, <1>2
  <2> HIDE DEF k, S
  <2>2. WriteAt(Prefix(S, k), k + 1, S[k + 1]) = Prefix(S, k + 1)
    BY <1>2, <2>1, PrefixFacts
  <2> QED
    BY <1>4, <2>2
<1>7. /\ local'[p[1]] = Prefix(S, k + 1)
      /\ \A c \in Clients : c # p[1] => local'[c] = local[c]
  BY <1>1, <1>5, <1>6 DEF Types
<1>8. \A q \in Procs : q # p => op[q].pc \notin Streaming /\ op'[q].pc \notin Streaming
  BY <1>1, <1>3 DEF Undisturbed, OneStream, Streaming
<1>9. \A c \in Clients : \A t \in Threads : <<c, t>> \in Procs
  BY DEF Procs
<1>10. Receiving(p[1])' /\ \A c \in Clients : Receiving(c)' <=> Receiving(c)
  <2>1. p = <<p[1], p[2]>> /\ p[2] \in Threads
    BY RoleFacts
  <2> QED
    BY <1>1, <1>3, <1>8, <1>9, <2>1 DEF Receiving, Streaming
<1>11. DiskWhole' /\ LocalWhole' /\ Sent'
  <2>1. DiskWhole'
    BY <1>1, <1>8 DEF Undisturbed, DiskWhole, Streaming
  <2>2. LocalWhole'
    BY <1>7, <1>10 DEF Undisturbed, LocalWhole
  <2>3. Sent'
    BY <1>3, <1>8 DEF Sent, Streaming
  <2> QED
    BY <2>1, <2>2, <2>3
<1>12. Sources'
  <2>1. local'[p[1]] # Absent
    <3>1. local[p[1]] \in Contents
      BY <1>1, <1>4 DEF Control, Types, Targets
    <3>2. WriteAt(local[p[1]], k + 1, S[k + 1]) \in Contents
      BY <1>1, <3>1, ChunkTypes
    <3> QED
      BY <1>6, <1>7, <3>2, ContentFacts
  <2>2. \A q \in Procs : local[q[1]] # Absent => local'[q[1]] # Absent
    BY <1>7, <2>1 DEF Procs
  <2> QED
    BY <1>1, <1>3, <2>2 DEF Undisturbed, Sources, Storing
<1>13. Received'
  <2>1. S' = S
    BY <1>1, <1>3 DEF FetchSource
  <2> QED
    BY <1>1, <1>3, <1>4, <1>7, <1>8, <2>1 DEF Received, Streaming
<1>14. ASSUME Filled PROVE Filled'
  <2>1. \A q \in Procs : op'[q].src # << >>
    BY <1>3, <1>14 DEF Filled
  <2>2. \A c \in Clients : local'[c] = << >> => Receiving(c)'
    BY <1>7, <1>10, <1>14 DEF Filled
  <2>3. disk' # << >>
    BY <1>1, <1>8, <1>14 DEF Filled, Streaming
  <2>4. disk' = Absent => \A c \in Clients : op'[<<c, "async">>].pc = "idle"
    BY <1>1, <1>3, <1>9, <1>14 DEF Filled, Threads
  <2> QED
    BY <2>1, <2>2, <2>3, <2>4 DEF Filled
<1> QED
  BY <1>11, <1>12, <1>13, <1>14 DEF Undisturbed

\* Fetch has read the stream to its end.
LEMMA EndFetchData ==
  ASSUME Control, Undisturbed, OneStream', NEW p \in Procs, EndFetch(p)
  PROVE  Undisturbed' /\ (Filled => Filled')
<1>1. /\ op[p].pc = "recv" /\ op[p].pos >= Len(FetchSource(p)) /\ UNCHANGED <<disk, local>>
      /\ Types /\ p[1] \in Clients /\ Return(p)
  BY RoleFacts DEF EndFetch, Control, serverVars
<1>2. /\ op'[p].pc = "idle" /\ op'[p].src = Live
      /\ \A q \in Procs : q # p => op'[q] = op[q]
  BY <1>1, ReturnFacts, SetIdle
<1>3. \A q \in Procs : op'[q].pc \notin Streaming /\ (op[q].pc \in Streaming => q = p)
  BY <1>1, <1>2 DEF Undisturbed, OneStream, Streaming
<1>4. \A c \in Clients : c # p[1] => ~Receiving(c)
  <2>1. ASSUME NEW c \in Clients, c # p[1], NEW t \in Threads PROVE op[<<c, t>>].pc # "recv"
    <3>1. <<c, t>> \in Procs /\ <<c, t>> # p
      BY <2>1 DEF Procs
    <3> QED
      BY <1>3, <3>1 DEF Streaming
  <2> QED
    BY <2>1 DEF Receiving
<1>5. FetchSource(p) \in Contents /\ Len(FetchSource(p)) \in Nat /\ op[p].pos \in Nat
  BY <1>1, SourceTypes, PrefixFacts, ChunkTypes
<1>6. local[p[1]] = FetchSource(p)
  <2>1. op[p].pos <= Len(FetchSource(p)) /\ local[p[1]] = Prefix(FetchSource(p), op[p].pos)
    BY <1>1 DEF Undisturbed, Received
  <2>2. op[p].pos = Len(FetchSource(p))
    BY <1>1, <1>5, <2>1
  <2> QED
    BY <1>5, <2>1, <2>2, PrefixFacts
<1>7. local[p[1]] \in Whole /\ (Filled => local[p[1]] # << >>)
  BY <1>1, <1>6, WholeSources
<1>8. DiskWhole' /\ Received' /\ Sent'
  BY <1>1, <1>3 DEF Undisturbed, DiskWhole, Received, Sent, Streaming
<1>9. LocalWhole'
  BY <1>1, <1>4, <1>7 DEF Undisturbed, LocalWhole
<1>10. Sources'
  BY <1>1, <1>2 DEF Undisturbed, Sources, Storing
<1>11. ASSUME Filled PROVE Filled'
  <2>1. \A q \in Procs : op'[q].src # << >>
    BY <1>2, <1>11, ContentFacts DEF Filled
  <2>2. \A c \in Clients : local'[c] # << >>
    BY <1>1, <1>4, <1>7, <1>11 DEF Filled
  <2>3. disk' # << >>
    BY <1>1, <1>3, <1>11 DEF Filled, Streaming
  <2>4. disk' = Absent => \A c \in Clients : op'[<<c, "async">>].pc = "idle"
    BY <1>1, <1>2, <1>11 DEF Filled, Threads, Procs
  <2> QED
    BY <2>1, <2>2, <2>3, <2>4 DEF Filled
<1> QED
  BY <1>8, <1>9, <1>10, <1>11 DEF Undisturbed

\* A user writes the file, no stream being open.
LEMMA EditData ==
  ASSUME Control, Undisturbed, OneStream', NEW c \in Clients, Edit(c),
         \A q \in Procs : op[q].pc \notin Streaming
  PROVE  Undisturbed' /\ (Filled => Filled')
<1>1. /\ local' = [local EXCEPT ![c] = Content(changes')] /\ UNCHANGED <<disk, op>> /\ Types
  BY DEF Edit, Control, serverVars
<1>2. Content(changes') \in Whole /\ Content(changes') # << >>
  <2>1. changes' \in 1..MaxChanges
    BY SyncAssumption DEF Edit, Change, Control, Types
  <2> QED
    BY <2>1 DEF Whole, Content
<1>3. Content(changes') # Absent
  BY <1>2, ContentFacts
<1>4. local'[c] = Content(changes') /\ \A d \in Clients : d # c => local'[d] = local[d]
  BY <1>1 DEF Types
<1>5. \A d \in Clients : ~Receiving(d) /\ ~Receiving(d)'
  BY <1>1 DEF Receiving, Streaming, Procs
<1>6. DiskWhole' /\ Received' /\ Sent'
  BY <1>1 DEF Undisturbed, DiskWhole, Received, Sent, Streaming
<1>7. LocalWhole'
  BY <1>2, <1>4, <1>5 DEF Undisturbed, LocalWhole
<1>8. Sources'
  <2>1. \A q \in Procs : local[q[1]] # Absent => local'[q[1]] # Absent
    BY <1>3, <1>4 DEF Procs
  <2> QED
    BY <1>1, <2>1 DEF Undisturbed, Sources, Storing
<1>9. ASSUME Filled PROVE Filled'
  <2>1. \A d \in Clients : local'[d] # << >>
    BY <1>2, <1>4, <1>5, <1>9 DEF Filled
  <2> QED
    BY <1>1, <1>9, <2>1 DEF Filled
<1> QED
  BY <1>6, <1>7, <1>8, <1>9 DEF Undisturbed

\* A user deletes the file, no stream being open: a Store that has it open keeps it.
LEMMA UserDeleteData ==
  ASSUME Control, Undisturbed, OneStream', NEW c \in Clients, UserDelete(c),
         \A q \in Procs : op[q].pc \notin Streaming
  PROVE  Undisturbed' /\ (Filled => Filled')
<1>1. /\ local' = [local EXCEPT ![c] = Absent] /\ disk' = disk /\ local[c] # Absent /\ Types
  BY DEF UserDelete, Control, serverVars
<1>2. \A d \in Clients : ~Receiving(d)
  BY DEF Receiving, Streaming, Procs
<1>3. /\ local'[c] = Absent /\ \A d \in Clients : d # c => local'[d] = local[d]
      /\ local[c] \in Whole /\ local[c] # Live /\ << >> # Absent
      /\ Filled => local[c] # << >>
  BY <1>1, <1>2, ContentFacts DEF Types, Undisturbed, LocalWhole, Filled
<1>4. ASSUME NEW q \in Procs
      PROVE  /\ op'[q].pc = op[q].pc
             /\ op'[q].src = IF q[1] = c /\ Storing(q) /\ op[q].src = Live THEN local[c] ELSE op[q].src
  <2>1. op[q] \in Ops
    BY <1>1 DEF Types
  <2>2. op'[q] = IF q[1] # c THEN op[q]
                 ELSE [op[q] EXCEPT !.linked = @ /\ op[q].pc # "recv",
                                    !.src = IF op[q].pc \in {"lock", "compare", "send"} /\ @ = Live THEN local[c] ELSE @]
    BY DEF UserDelete
  <2>3. CASE q[1] # c
    BY <2>2, <2>3
  <2>4. CASE q[1] = c
    <3>1. PICK x : x = (op[q].linked /\ op[q].pc # "recv")
      OBVIOUS
    <3>2. PICK y : y = (IF op[q].pc \in {"lock", "compare", "send"} /\ op[q].src = Live THEN local[c] ELSE op[q].src)
      OBVIOUS
    <3>3. PICK r : r = [[op[q] EXCEPT !.linked = x] EXCEPT !.src = y]
      OBVIOUS
    <3>4. op'[q] = r
      BY <2>1, <2>2, <2>4, <3>1, <3>2, <3>3 DEF Ops
    <3>5. r.pc = op[q].pc /\ r.src = y
      BY <2>1, <3>3 DEF Ops
    <3> QED
      BY <2>4, <3>2, <3>4, <3>5 DEF Storing
  <2> QED
    BY <2>3, <2>4
<1>5. \A q \in Procs : op'[q].pc \notin Streaming
  BY <1>4
<1>6. DiskWhole' /\ Received' /\ Sent'
  BY <1>1, <1>5 DEF Undisturbed, DiskWhole, Received, Sent, Streaming
<1>7. LocalWhole'
  BY <1>2, <1>3 DEF Undisturbed, LocalWhole
<1>8. Sources'
  <2>1. ASSUME NEW q \in Procs
        PROVE  /\ op'[q].src \in Whole \union {Live}
               /\ op'[q].pc \in {"lock", "compare", "send"} /\ op'[q].src = Live => local'[q[1]] # Absent
    <3>1. /\ op[q].src \in Whole \union {Live} /\ q[1] \in Clients
          /\ op[q].pc \in {"lock", "compare", "send"} /\ op[q].src = Live => local[q[1]] # Absent
      BY DEF Undisturbed, Sources, Storing, Procs
    <3> QED
      BY <1>3, <1>4, <3>1 DEF Storing
  <2> QED
    BY <2>1 DEF Sources, Storing
<1>9. ASSUME Filled PROVE Filled'
  <2>1. \A d \in Clients : local'[d] # << >>
    BY <1>2, <1>3, <1>9 DEF Filled
  <2>2. \A q \in Procs : op'[q].src # << >>
    BY <1>3, <1>4, <1>9 DEF Filled
  <2>3. disk' # << >>
    BY <1>1, <1>9 DEF Filled, Streaming
  <2>4. disk' = Absent => \A d \in Clients : op'[<<d, "async">>].pc = "idle"
    BY <1>1, <1>4, <1>9 DEF Filled, Threads, Procs
  <2> QED
    BY <2>1, <2>2, <2>3, <2>4 DEF Filled
<1> QED
  BY <1>6, <1>7, <1>8, <1>9 DEF Undisturbed

\* An operation moves without touching a file.
LEMMA MoveData ==
  ASSUME Control, Undisturbed, OneStream', NEW p \in Procs, UNCHANGED <<disk, local>>,
         op[p].pc \notin Streaming, op'[p].pc \notin Streaming,
         op'[p].src \in {op[p].src, Live},
         \A q \in Procs : q # p => op'[q] = op[q],
         op'[p].pc \in {"lock", "compare"} =>
           (op[p].pc \in {"lock", "compare"} /\ op'[p].src = op[p].src) \/ local[p[1]] # Absent,
         p[2] = "async" /\ op'[p].pc # "idle" => op[p].pc # "idle" \/ disk # Absent
  PROVE  Undisturbed' /\ (Filled => Filled')
<1>1. \A q \in Procs :
        /\ op[q].pc \in Streaming <=> op'[q].pc \in Streaming
        /\ op[q].pc \in Streaming => op'[q] = op[q]
        /\ op'[q].src \in {op[q].src, Live}
  OBVIOUS
<1>2. ASSUME NEW q \in Procs, Storing(q)', op'[q].src = Live
      PROVE  (Storing(q) /\ op[q].src = Live) \/ local[q[1]] # Absent
  BY <1>2 DEF Storing, Streaming
<1>3. ASSUME NEW c \in Clients, op'[<<c, "async">>].pc # "idle"
      PROVE  op[<<c, "async">>].pc # "idle" \/ disk # Absent
  <2>1. <<c, "async">> \in Procs
    BY DEF Procs, Threads
  <2> QED
    BY <1>3, <2>1
<1> QED
  BY <1>1, <1>2, <1>3, QuietData

\* The steps of an operation before and between streams
LEMMA OpQuietData ==
  ASSUME Control, Undisturbed, OneStream', NEW p \in Procs,
         Refused(p) \/ Granted(p) \/ SameChecksum(p) \/ GrantedDelete(p) \/ DeleteMissing(p) \/ Unchanged(p) \/ Changed(p)
  PROVE  Undisturbed' /\ (Filled => Filled')
<1>1. Types /\ p[1] \in Clients /\ op[p] \in Ops /\ local \in [Clients -> Contents \union {Absent}]
  BY RoleFacts DEF Control, Types
<1>2. CASE Refused(p) \/ SameChecksum(p) \/ DeleteMissing(p) \/ Unchanged(p)
  <2>1. Return(p) /\ UNCHANGED <<disk, local>> /\ op[p].pc \notin Streaming /\ op[p].pc # "idle"
    BY <1>2 DEF Refused, SameChecksum, DeleteMissing, Unchanged, serverVars, Streaming
  <2>2. /\ op'[p].pc = "idle" /\ op'[p].src = Live
        /\ \A q \in Procs : q # p => op'[q] = op[q]
    BY <1>1, <2>1, ReturnFacts, SetIdle
  <2> QED
    BY <2>1, <2>2, MoveData DEF Streaming
<1>3. CASE Granted(p)
  <2>1. /\ op[p].pc = "lock" /\ UNCHANGED <<disk, local>>
        /\ op' = [op EXCEPT ![p].pc = "compare", ![p].crc = Checksum(local[p[1]])]
    BY <1>3 DEF Granted
  <2>2. Checksum(local[p[1]]) \in Contents
    BY <1>1, ContentFacts DEF Checksum
  <2>3. /\ op'[p].pc = "compare" /\ op'[p].src = op[p].src
        /\ \A q \in Procs : q # p => op'[q] = op[q]
    BY <1>1, <2>1, <2>2, SetCrc
  <2> QED
    BY <2>1, <2>3, MoveData DEF Streaming
<1>4. CASE GrantedDelete(p) \/ Changed(p)
  <2>1. PICK to \in {"remove", "get"} : op' = [op EXCEPT ![p].pc = to]
    BY <1>4 DEF GrantedDelete, Changed, Goto
  <2>2. /\ op[p].pc \in {"dlock", "status"} /\ UNCHANGED <<disk, local>>
    BY <1>4 DEF GrantedDelete, Changed, Goto, serverVars
  <2>3. /\ op'[p].pc = to /\ op'[p].src = op[p].src
        /\ \A q \in Procs : q # p => op'[q] = op[q]
    BY <1>1, <2>1, SetPc DEF PCs
  <2> QED
    BY <2>2, <2>3, MoveData DEF Streaming
<1> QED
  BY <1>2, <1>3, <1>4

\* An operation begins.
LEMMA BeginData ==
  ASSUME Control, Undisturbed, OneStream', NEW p \in Procs, UNCHANGED <<disk, local>>,
         op[p].pc = "idle",
         \/ BeginStore(p) \/ BeginDelete(p)
         \/ op' = [op EXCEPT ![p].pc = "status"],
         p[2] = "async" => disk # Absent
  PROVE  Undisturbed' /\ (Filled => Filled')
<1>1. Types /\ p[1] \in Clients
  BY RoleFacts DEF Control
<1>2. CASE Return(p)
  <2>1. /\ op'[p].pc = "idle" /\ op'[p].src = Live
        /\ \A q \in Procs : q # p => op'[q] = op[q]
    BY <1>1, <1>2, ReturnFacts, SetIdle
  <2> QED
    BY <2>1, MoveData DEF Streaming
<1>3. CASE ~Return(p)
  <2>1. PICK to \in {"lock", "dlock", "status"} :
          op' = [op EXCEPT ![p].pc = to] /\ (to = "lock" => local[p[1]] # Absent)
    BY <1>3 DEF BeginStore, BeginDelete
  <2>2. /\ op'[p].pc = to /\ op'[p].src = op[p].src
        /\ \A q \in Procs : q # p => op'[q] = op[q]
    BY <1>1, <2>1, SetPc DEF PCs
  <2> QED
    BY <2>1, <2>2, MoveData DEF Streaming
<1> QED
  BY <1>2, <1>3

\* The steps of the threads of a client between operations
LEMMA ThreadData ==
  ASSUME Control, Undisturbed, OneStream', NEW c \in Clients,
         ReadEvents(c) \/ LockWatcher(c) \/ HandleEvent(c) \/ FetchListed(c) \/ FetchMissingHere(c)
  PROVE  Undisturbed' /\ (Filled => Filled')
<1>1. <<c, "watcher">> \in Procs /\ <<c, "async">> \in Procs
  BY DEF Procs, Threads
<1>2. CASE ReadEvents(c) \/ LockWatcher(c)
  <2>1. UNCHANGED <<disk, local, op>>
    BY <1>2 DEF ReadEvents, LockWatcher, serverVars
  <2>2. \A q \in Procs : Storing(q)' => Storing(q)
    BY <2>1 DEF Storing
  <2> QED
    BY <2>1, <2>2, QuietData
<1>3. CASE HandleEvent(c)
  <2>1. /\ op[<<c, "watcher">>].pc = "idle" /\ UNCHANGED <<disk, local>>
        /\ BeginStore(<<c, "watcher">>) \/ BeginDelete(<<c, "watcher">>)
    BY <1>3 DEF HandleEvent, serverVars
  <2> QED
    BY <1>1, <2>1, BeginData
<1>4. CASE FetchListed(c) \/ FetchMissingHere(c)
  <2>1. /\ mutex[c] = "free" /\ disk # Absent /\ UNCHANGED <<disk, local>>
        /\ op' = [op EXCEPT ![<<c, "async">>].pc = "status"]
    BY <1>4 DEF FetchListed, FetchMissingHere, Reply, serverVars
  <2>2. op[<<c, "async">>].pc = "idle"
    BY <2>1 DEF Control, Roles
  <2> QED
    BY <1>1, <2>1, <2>2, BeginData
<1> QED
  BY <1>2, <1>3, <1>4

\* Users and signals, which leave open streams alone
LEMMA UserData ==
  ASSUME Control, Undisturbed, OneStream', NEW c \in Clients,
         Edit(c) \/ UserDelete(c) \/ Mount(c) \/ Exit(c) \/ Command(c),
         changes' # changes => \A q \in Procs : op[q].pc \notin Streaming
  PROVE  Undisturbed' /\ (Filled => Filled')
<1>1. Change => \A q \in Procs : op[q].pc \notin Streaming
  BY DEF Change, Control, Types
<1>2. CASE Edit(c)
  BY <1>1, <1>2, EditData DEF Edit
<1>3. CASE UserDelete(c)
  BY <1>1, <1>3, UserDeleteData DEF UserDelete
<1>4. CASE Mount(c)
  <2>1. UNCHANGED <<disk, local, op>>
    BY <1>4 DEF Mount, serverVars
  <2>2. \A q \in Procs : Storing(q)' => Storing(q)
    BY <2>1 DEF Storing
  <2> QED
    BY <2>1, <2>2, QuietData
<1>5. CASE Exit(c)
  <2>1. /\ op' = [p \in Procs |-> IF p[1] = c /\ p[2] # "command" THEN Idle ELSE op[p]]
        /\ UNCHANGED <<disk, local>> /\ \A q \in Procs : op[q].pc \notin Streaming
    BY <1>1, <1>5 DEF Exit
  <2>2. Idle.pc = "idle" /\ Idle.src = Live
    BY DEF Idle
  <2>3. \A q \in Procs : op'[q] = Idle \/ op'[q] = op[q]
    BY <2>1
  <2>4. \A q \in Procs :
          /\ op'[q].pc \notin Streaming /\ op'[q].src \in {op[q].src, Live}
          /\ Storing(q)' => Storing(q) /\ op'[q] = op[q]
    BY <2>1, <2>2, <2>3 DEF Storing, Streaming
  <2>5. \A d \in Clients : op'[<<d, "async">>].pc # "idle" => op[<<d, "async">>].pc # "idle"
    BY <2>2, <2>3 DEF Procs, Threads
  <2> QED
    BY <2>1, <2>4, <2>5, QuietData
<1>6. CASE Command(c)
  <2>1. /\ op[<<c, "command">>].pc = "idle" /\ UNCHANGED <<disk, local>>
        /\ \/ BeginStore(<<c, "command">>) \/ BeginDelete(<<c, "command">>)
           \/ op' = [op EXCEPT ![<<c, "command">>].pc = "status"]
    BY <1>6, SyncAssumption DEF Command, BeginFetch, serverVars
  <2>2. <<c, "command">> \in Procs
    BY DEF Procs, Threads
  <2> QED
    BY <2>1, <2>2, BeginData
<1> QED
  BY <1>2, <1>3, <1>4, <1>5, <1>6

\* A step of an operation: the files stay whole, and nothing is emptied unless it is removed.
LEMMA OpData ==
  ASSUME Control, Undisturbed, OneStream', ~Truncates, NEW p \in Procs, OpStep(p)
  PROVE  /\ Undisturbed'
         /\ \/ disk # Absent /\ disk' = Absent
            \/ disk = Absent /\ \E c \in Clients : op[<<c, "command">>].pc = "get"
            \/ Filled => Filled'
<1>1. CASE Refused(p) \/ Granted(p) \/ SameChecksum(p) \/ GrantedDelete(p) \/ DeleteMissing(p) \/ Unchanged(p) \/ Changed(p)
  BY <1>1, OpQuietData
<1>2. CASE OpenTarget(p) \/ SendChunk(p) \/ EndStore(p)
  BY <1>2, OpenData, SendData, EndStoreData
<1>3. CASE Remove(p)
  BY <1>3, RemoveData, RemoveFacts
<1>4. CASE FetchFile(p)
  <2>1. CASE disk = Absent /\ p[2] = "command"
    <3>1. p = <<p[1], "command">> /\ p[1] \in Clients /\ op[p].pc = "get"
      BY <1>4, <2>1, RoleFacts DEF FetchFile
    <3> QED
      BY <1>4, <2>1, <3>1, FetchData
  <2>2. CASE ~(disk = Absent /\ p[2] = "command")
    BY <1>4, <2>2, FetchData
  <2> QED
    BY <2>1, <2>2
<1>5. CASE RecvChunk(p) \/ EndFetch(p)
  BY <1>5, RecvData, EndFetchData
<1> QED
  BY <1>1, <1>2, <1>3, <1>4, <1>5 DEF OpStep

\* Every step preserves the inductive invariant.
LEMMA Step == IInv /\ [Next]_vars => IInv'
<1> SUFFICES ASSUME IInv, [Next]_vars PROVE IInv'
  OBVIOUS
<1>1. Control' /\ Mounting'
  BY ControlStep DEF IInv
<1>2. Control /\ Mounting
  BY DEF IInv
<1>3. CASE UNCHANGED vars
  <2>1. Undisturbed => Undisturbed'
    BY <1>3 DEF vars, Undisturbed, OneStream, DiskWhole, LocalWhole, Sources, Sent, Received,
                Receiving, Storing, StoreSource, FetchSource
  <2>2. Filled => Filled'
    BY <1>3 DEF vars, Filled, Receiving
  <2>3. disturbed' = disturbed /\ removed' = removed
    BY <1>3 DEF vars
  <2> QED
    BY <1>1, <2>1, <2>2, <2>3 DEF IInv
<1>4. CASE Next
  <2>1. History
    BY <1>4 DEF Next, Runs, User
  <2> SUFFICES ASSUME ~disturbed' PROVE Undisturbed' /\ (~removed' => Filled')
    BY <1>1 DEF IInv
  <2>2. ~disturbed /\ ~Overlap' /\ ~Truncates /\ Undisturbed
    BY <2>1 DEF History, Disturbance, IInv
  <2>3. changes' # changes => \A q \in Procs : op[q].pc \notin Streaming
    BY <2>1 DEF History, Disturbance
  <2>4. OneStream'
    BY <1>1, <2>2, Streams, PTL
  <2>5. ~removed' => /\ Filled /\ ~(disk # Absent /\ disk' = Absent)
                     /\ ~(disk = Absent /\ \E c \in Clients : op[<<c, "command">>].pc = "get")
    BY <2>1, <2>2 DEF History, IInv
  <2>6. ASSUME NEW p \in Procs, OpStep(p) PROVE Undisturbed' /\ (~removed' => Filled')
    BY <1>2, <2>2, <2>4, <2>5, <2>6, OpData
  <2>7. ASSUME NEW c \in Clients,
               ReadEvents(c) \/ LockWatcher(c) \/ HandleEvent(c) \/ FetchListed(c) \/ FetchMissingHere(c)
        PROVE  Undisturbed' /\ (~removed' => Filled')
    BY <1>2, <2>2, <2>4, <2>5, <2>7, ThreadData
  <2>8. ASSUME NEW c \in Clients, Edit(c) \/ UserDelete(c) \/ Mount(c) \/ Exit(c) \/ Command(c)
        PROVE  Undisturbed' /\ (~removed' => Filled')
    BY <1>2, <2>2, <2>3, <2>4, <2>5, <2>8, UserData
  <2>9. \A c \in Clients : \A t \in Threads : <<c, t>> \in Procs
    BY DEF Procs
  <2> QED
    BY <1>4, <2>6, <2>7, <2>8, <2>9 DEF Next, Runs, Watcher, Async, User, Threads
<1> QED
  BY <1>3, <1>4

\* It holds at the start, where there is no file and nothing is mounted.
LEMMA Start == Init => IInv
<1> SUFFICES ASSUME Init PROVE IInv
  OBVIOUS
<1>1. Idle \in Ops /\ Idle.pc = "idle" /\ Idle.pos = 0 /\ Idle.src = Live /\ Idle.linked
  BY ContentFacts DEF Idle, Ops, PCs
<1>2. op = [p \in Procs |-> Idle]
  BY DEF Init
<1>3. \A p \in Procs : op[p] = Idle
  BY <1>2
<1>4. Types
  <2>1. op \in [Procs -> Ops]
    BY <1>1, <1>2
  <2>2. changes \in 0..MaxChanges
    BY SyncAssumption DEF Init
  <2> QED
    BY <2>1, <2>2 DEF Init, Types
<1>5. \A c \in Clients : <<c, "watcher">> \in Procs /\ <<c, "async">> \in Procs /\ <<c, "command">> \in Procs
  BY DEF Procs, Threads
<1>6. Roles
  <2>1. \A c \in Clients : mounted[c] = FALSE
    BY DEF Init
  <2> QED
    BY <1>1, <1>3, <1>5, <2>1 DEF Roles, WatcherPCs, AsyncPCs
<1>7. Locked /\ Fresh /\ Targets
  BY <1>1, <1>3 DEF Locked, Fresh, Targets, Locking
<1>8. Mounting
  BY DEF Init, Mounting
<1>9. \A c \in Clients : ~Receiving(c) /\ local[c] = Absent
  BY <1>1, <1>3 DEF Init, Receiving, Procs
<1>10. disk = Absent /\ Absent # << >> /\ Live # << >>
  BY ContentFacts DEF Init
<1>11. OneStream /\ DiskWhole /\ LocalWhole
  BY <1>1, <1>3, <1>9, <1>10 DEF OneStream, DiskWhole, LocalWhole, Streaming
<1>12. Sources /\ Sent /\ Received
  BY <1>1, <1>3 DEF Sources, Sent, Received, Storing
<1>13. Filled
  BY <1>1, <1>3, <1>5, <1>9, <1>10 DEF Filled
<1> QED
  BY <1>4, <1>6, <1>7, <1>8, <1>11, <1>12, <1>13 DEF IInv, Control, Undisturbed
-----------------------------------------------------------------------------
(* Theorems *)

\* The inductive invariant of mounted clients and the server
THEOREM Invariance == Spec => []IInv
BY Start, Step, PTL DEF Spec

\* The two threads of a client, under their mutex and the write lock of the server, never
\* cut a file: with no stream disturbed, every file at rest is the whole of what some
\* user wrote, or empty, whatever the number of clients, mounts and edits.
THEOREM NeverCut == Spec => []WholeAtRest
<1>1. IInv => WholeAtRest
  BY DEF IInv, Undisturbed, DiskWhole, LocalWhole, Receiving, WholeAtRest
<1> QED
  BY <1>1, Invariance, PTL

\* A client's file is emptied only by a removal, under a Fetch, of what it fetches, or by a
\* command that fetches what the server does not have.
THEOREM NeverEmptied == Spec => []EmptiedByRemoval
<1>1. IInv => EmptiedByRemoval
  BY DEF IInv, Filled, Receiving, EmptiedByRemoval
<1> QED
  BY <1>1, Invariance, PTL
=============================================================================
