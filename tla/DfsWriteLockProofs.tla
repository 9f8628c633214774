------------------------- MODULE DfsWriteLockProofs -------------------------
(***************************************************************************)
(* The proof that DfsWriteLock keeps its safety properties for any clients,*)
(* files and contents and any number of concurrent calls.                  *)
(***************************************************************************)
EXTENDS DfsWriteLock, SequenceTheorems, TLAPS

StorePC == {"store", "storeRead", "storeCheck", "storeCompare", "storeOpen",
            "storeWrite", "storeNext", "storeRelease", "storeClose"}

\* The handler has not yet read a message of the stream into the file.
BeforeWrite == CallPC \ {"returned", "storeWrite", "storeNext", "storeRelease", "storeClose"}

CallType ==
  [client : Clients \union {Nobody}, file : Files \union {Absent},
   ver : Versions \union {Absent}, cancelled : BOOLEAN, sent : Nat, got : Nat,
   linked : BOOLEAN, buffered : BOOLEAN]

Types ==
  /\ writeMap \in [Files -> Clients \union {Nobody}]
  /\ DOMAIN disk = Files
  /\ kpc \in [Calls -> CallPC]
  /\ call \in [Calls -> CallType]
  /\ reply \in [Calls -> Status]
  /\ cpc \in [Clients -> {"idle", "access", "finish"}]
  /\ op \in [Clients -> [rpc : {"none", "store", "delete"}, call : Calls \union {NoCall}]]
  /\ missed \in [Clients -> SUBSET Files]
  /\ late \in BOOLEAN

\* What a call has read, has been sent and can still receive.
Stream(k) ==
  /\ \/ call[k].ver = Absent /\ call[k].sent = 0 /\ call[k].got = 0
     \/ /\ call[k].ver \in Versions
        /\ call[k].got <= call[k].sent /\ call[k].sent <= Messages(call[k].ver)
  /\ kpc[k] \in StorePC => call[k].ver \in Versions
  /\ kpc[k] \in BeforeWrite => call[k].got = 0 /\ call[k].linked
  /\ kpc[k] \in {"storeCheck", "storeCompare", "storeOpen", "storeWrite"} =>
       call[k].got < call[k].sent

\* A call that is running has its arguments, and is the call its client waits
\* for unless that client has given up.
Owned(k) ==
  /\ kpc[k] # "free" => call[k].client \in Clients /\ call[k].file \in Files
  /\ call[k].cancelled => late /\ kpc[k] # "returned"
  /\ kpc[k] # "free" /\ ~call[k].cancelled =>
       cpc[call[k].client] # "idle" /\ op[call[k].client].call = k

\* A client that is not idle waits for a call of its own, which has not been
\* cancelled and is in the phase the client is in.
Waits(c) ==
  cpc[c] # "idle" =>
    /\ op[c].call \in Calls
    /\ op[c].rpc \in {"store", "delete"}
    /\ kpc[op[c].call] # "free"
    /\ call[op[c].call].client = c
    /\ ~call[op[c].call].cancelled
    /\ op[c].rpc = "store" => call[op[c].call].ver \in Versions
    /\ cpc[c] = "access" =>
         /\ kpc[op[c].call] \in {"lock", "lockCheck", "returned"}
         /\ call[op[c].call].got = 0 /\ call[op[c].call].linked
    /\ cpc[c] = "finish" => kpc[op[c].call] \notin {"lock", "lockCheck"}

Linked ==
  /\ \A k \in Calls : Stream(k) /\ Owned(k)
  /\ \A c \in Clients : Waits(c)

\* As long as no deadline has passed, a handler between CheckLock and
\* ReleaseLock has the lock ...
Holds == ~late => \A k \in Calls : kpc[k] \in Locked => writeMap[call[k].file] = call[k].client

\* ... a call that is past ReleaseLock, was refused or ended in anything but
\* NOT_FOUND has not ...
Over(k) ==
  \/ kpc[k] = "storeClose"
  \/ /\ kpc[k] = "returned"
     /\ cpc[call[k].client] = "access" => reply[k] # "OK"
     /\ cpc[call[k].client] = "finish" => reply[k] # "NOT_FOUND"

Released == ~late => \A k \in Calls : Over(k) => writeMap[call[k].file] # call[k].client

\* ... and from Open to ReleaseLock, or to the flush when the last chunk is still in
\* the buffer, the file holds what the handler has written so far, unless another
\* handler opened it before that flush.
Received(v, n) == [i \in 1..(IF n <= NChunks[v] THEN n ELSE NChunks[v]) |-> <<v, i>>]

Streaming == {"storeWrite", "storeNext", "storeRelease"}

\* The handler has the file open and something left to write to it.
Pending(k) ==
  \/ kpc[k] \in Streaming
  \/ kpc[k] = "storeClose" /\ call[k].buffered /\ call[k].linked

Writes(k) ==
  /\ call[k].buffered =>
       call[k].ver \in Versions /\ call[k].got > 0 /\ call[k].got = NChunks[call[k].ver]
  /\ kpc[k] \in Streaming => call[k].linked
  /\ kpc[k] = "storeRelease" => call[k].got = Messages(call[k].ver)
  /\ Pending(k) /\ call[k].file \notin overtaken =>
       disk[call[k].file] =
         Received(call[k].ver, IF call[k].buffered THEN call[k].got - 1 ELSE call[k].got)

Whole ==
  /\ overtaken \subseteq Files
  /\ ~late =>
       /\ \A k \in Calls : Writes(k)
       /\ \A k, l \in Calls :
            Pending(k) /\ Pending(l) /\ call[k].file = call[l].file /\ call[k].file \notin overtaken
              => k = l
       /\ \A f \in Files \ overtaken :
            \/ disk[f] = Absent
            \/ \E v \in Versions : disk[f] = Content(v)
            \/ \E k \in Calls : call[k].file = f /\ Pending(k)

IInv == Types /\ Linked /\ Holds /\ Released /\ NoStrayLock /\ Whole
-----------------------------------------------------------------------------
(* Types and links between clients and calls *)

\* Assignments to the locals of a handler.
LEMMA CallFields ==
  ASSUME NEW r \in CallType, NEW n \in Nat, NEW b \in BOOLEAN
  PROVE  /\ [r EXCEPT !.got = n, !.buffered = b] \in CallType
         /\ [r EXCEPT !.linked = b] \in CallType
         /\ [r EXCEPT !.sent = n] \in CallType
         /\ [r EXCEPT !.cancelled = b] \in CallType
<1>1. r = [client |-> r.client, file |-> r.file, ver |-> r.ver, cancelled |-> r.cancelled,
           sent |-> r.sent, got |-> r.got, linked |-> r.linked, buffered |-> r.buffered]
  BY DEF CallType
<1>2. /\ r.client \in Clients \union {Nobody} /\ r.file \in Files \union {Absent}
      /\ r.ver \in Versions \union {Absent} /\ r.cancelled \in BOOLEAN
      /\ r.sent \in Nat /\ r.got \in Nat /\ r.linked \in BOOLEAN /\ r.buffered \in BOOLEAN
  BY DEF CallType
<1>3. [r EXCEPT !.got = n, !.buffered = b] \in CallType
  BY <1>1, <1>2 DEF CallType
<1>4. [r EXCEPT !.linked = b] \in CallType
  BY <1>1, <1>2 DEF CallType
<1>5. [r EXCEPT !.sent = n] \in CallType
  BY <1>1, <1>2 DEF CallType
<1>6. [r EXCEPT !.cancelled = b] \in CallType
  BY <1>1, <1>2 DEF CallType
<1> QED
  BY <1>3, <1>4, <1>5, <1>6

\* A handler that goes on, and changes nothing a client looks at.
LEMMA GotoLinked ==
  ASSUME Types, Linked, NEW k \in Calls, NEW from \in CallPC, NEW to \in CallPC,
         Goto(k, from, to), from \notin {"free", "returned"}, to \notin {"free", "returned"},
         to \in {"lock", "lockCheck"} <=> from \in {"lock", "lockCheck"},
         call' \in [Calls -> CallType],
         \A l \in Calls : /\ call'[l].client = call[l].client /\ call'[l].file = call[l].file
                          /\ call'[l].ver = call[l].ver /\ call'[l].sent = call[l].sent
                          /\ call'[l].cancelled = call[l].cancelled,
         \A l \in Calls : l # k => /\ call'[l].got = call[l].got
                                   /\ kpc[l] \notin Writing => call'[l].linked = call[l].linked,
         Stream(k)', writeMap' \in [Files -> Clients \union {Nobody}], DOMAIN disk' = Files,
         UNCHANGED late
  PROVE  Types' /\ Linked'
<1>1. kpc' = [kpc EXCEPT ![k] = to] /\ kpc[k] = from /\ UNCHANGED <<reply, cpc, op, missed>>
  BY DEF Goto, clientVars
<1>2. Types'
  BY <1>1 DEF Types
<1>3. \A l \in Calls : l # k => Stream(l)'
  BY <1>1 DEF Types, Linked, Stream, BeforeWrite, Writing
<1>4. \A l \in Calls : Owned(l)'
  BY <1>1 DEF Types, Linked, Owned
<1>5. \A c \in Clients : Waits(c)'
  <2> SUFFICES ASSUME NEW c \in Clients, cpc[c] # "idle" PROVE Waits(c)'
    BY <1>1 DEF Waits
  <2>1. op[c].call \in Calls
    BY DEF Linked, Waits
  <2>2. cpc[c] = "access" => call'[op[c].call].got = 0 /\ call'[op[c].call].linked
    <3>1. CASE op[c].call = k
      <4>1. cpc[c] = "access" => to \in {"lock", "lockCheck"}
        BY <1>1, <3>1 DEF Linked, Waits
      <4>2. {"lock", "lockCheck"} \subseteq BeforeWrite
        BY DEF BeforeWrite, CallPC
      <4> QED
        BY <1>1, <3>1, <4>1, <4>2 DEF Stream, Types
    <3>2. CASE op[c].call # k
      BY <2>1, <3>2 DEF Linked, Waits, Writing
    <3> QED
      BY <3>1, <3>2
  <2> QED
    BY <1>1, <2>1, <2>2 DEF Linked, Waits, Types
<1> QED
  BY <1>2, <1>3, <1>4, <1>5 DEF Linked

\* A handler that returns: to its client, or to nobody.
LEMMA ReturnLinked ==
  ASSUME Types, Linked, NEW k \in Calls, NEW st \in Status, Return(k, st),
         kpc[k] \notin {"free", "returned"},
         writeMap' \in [Files -> Clients \union {Nobody}], DOMAIN disk' = Files,
         UNCHANGED late
  PROVE  Types' /\ Linked'
<1> USE DEF clientVars
<1>1. CASE call[k].cancelled
  <2>1. /\ kpc' = [kpc EXCEPT ![k] = "free"]
        /\ call' = [call EXCEPT ![k] = NoArgs]
        /\ reply' = [reply EXCEPT ![k] = "none"]
        /\ UNCHANGED <<cpc, op, missed>>
    BY <1>1 DEF Return, FreeCall
  <2>2. NoArgs \in CallType
    BY DEF NoArgs, CallType
  <2>3. Types'
    BY <2>1, <2>2 DEF Types, CallPC, Status
  <2>4. \A l \in Calls : Stream(l)'
    BY <2>1 DEF Types, Linked, Stream, NoArgs, StorePC
  <2>5. \A l \in Calls : Owned(l)'
    BY <2>1 DEF Types, Linked, Owned, NoArgs
  <2>6. \A c \in Clients : Waits(c)'
    BY <1>1, <2>1 DEF Types, Linked, Waits
  <2> QED
    BY <2>3, <2>4, <2>5, <2>6 DEF Linked
<1>2. CASE ~call[k].cancelled
  <2>1. /\ kpc' = [kpc EXCEPT ![k] = "returned"]
        /\ reply' = [reply EXCEPT ![k] = st]
        /\ UNCHANGED <<call, cpc, op, missed>>
    BY <1>2 DEF Return
  <2>2. Types'
    BY <2>1 DEF Types, CallPC
  <2>3. \A l \in Calls : Stream(l)'
    BY <2>1 DEF Types, Linked, Stream, StorePC, BeforeWrite
  <2>4. \A l \in Calls : Owned(l)'
    BY <1>2, <2>1 DEF Types, Linked, Owned
  <2>5. \A c \in Clients : Waits(c)'
    BY <2>1 DEF Types, Linked, Waits
  <2> QED
    BY <2>2, <2>3, <2>4, <2>5 DEF Linked
<1> QED
  BY <1>1, <1>2

\* Every step of a handler keeps the types and the links.
LEMMA HandlerLinked ==
  ASSUME Types, Linked, NEW k \in Calls, Handler(k), UNCHANGED late
  PROVE  Types' /\ Linked'
<1> USE DEF serverVars
<1>a. Stream(k) /\ Owned(k)
  BY DEF Linked
<1>b. \A st : UNCHANGED <<writeMap, disk>> /\ Return(k, st) /\ st \in Status
               /\ kpc[k] \notin {"free", "returned"} => Types' /\ Linked'
  BY ReturnLinked DEF Types
<1>c. kpc[k] # "free" =>
        \A w \in {Nobody, call[k].client} :
          [writeMap EXCEPT ![call[k].file] = w] \in [Files -> Clients \union {Nobody}]
  BY <1>a DEF Types, Owned
<1>1. ASSUME NEW from, NEW to, Start(k, from, to),
             \/ from = "lock" /\ to = "lockCheck"
             \/ from = "store" /\ to = "storeRead"
             \/ from = "delete" /\ to = "deleteTest"
      PROVE  Types' /\ Linked'
  <2>1. CASE Goto(k, from, to) /\ UNCHANGED <<writeMap, disk, call>>
    <3>1. Stream(k)'
      BY <1>1, <1>a, <2>1 DEF Goto, Types, Stream, StorePC, BeforeWrite, CallPC
    <3> QED
      BY <1>1, <2>1, <3>1, GotoLinked DEF Types, CallPC
  <2>2. CASE kpc[k] = from /\ Return(k, "DEADLINE_EXCEEDED") /\ UNCHANGED <<writeMap, disk>>
    BY <1>1, <1>b, <2>2 DEF Status
  <2> QED
    BY <1>1, <2>1, <2>2 DEF Start
<1>2. CASE WriteLock(k)
  <2>1. writeMap' \in [Files -> Clients \union {Nobody}] /\ DOMAIN disk' = Files
    BY <1>2, <1>c DEF WriteLock, TakeLock, Types
  <2>2. \E st \in Status : Return(k, st)
    BY <1>2 DEF WriteLock, Status
  <2> QED
    BY <1>2, <2>1, <2>2, ReturnLinked DEF WriteLock
<1>3. ASSUME NEW from, NEW to, CheckLock(k, from, to),
             \/ from = "storeCheck" /\ to = "storeCompare"
             \/ from = "deleteCheck" /\ to = "deleteRemove"
      PROVE  Types' /\ Linked'
  <2>1. writeMap' \in [Files -> Clients \union {Nobody}] /\ DOMAIN disk' = Files
    BY <1>3, <1>c DEF CheckLock, TakeLock, Types
  <2>2. CASE Goto(k, from, to) /\ UNCHANGED call
    <3>1. Stream(k)'
      BY <1>3, <1>a, <2>2 DEF Goto, Types, Stream, StorePC, BeforeWrite, CallPC
    <3> QED
      BY <1>3, <2>1, <2>2, <3>1, GotoLinked DEF Types, CallPC
  <2>3. CASE Return(k, "RESOURCE_EXHAUSTED")
    BY <1>3, <2>1, <2>3, ReturnLinked DEF CheckLock, Status
  <2> QED
    BY <1>3, <2>2, <2>3 DEF CheckLock
<1>4. ASSUME NEW from, NEW to, Goto(k, from, to), UNCHANGED call,
             \/ from = "storeRead" /\ to = "storeCheck" /\ call[k].sent > 0
             \/ from = "storeCompare" /\ to = "storeOpen"
             \/ from = "storeOpen" /\ to = "storeWrite"
             \/ from = "storeNext" /\ to = "storeWrite" /\ call[k].sent > call[k].got
             \/ from = "storeNext" /\ to = "storeRelease"
             \/ from = "storeRelease" /\ to = "storeClose"
             \/ from = "deleteTest" /\ to = "deleteCheck",
             writeMap' \in [Files -> Clients \union {Nobody}], DOMAIN disk' = Files
      PROVE  Types' /\ Linked'
  <2>1. Stream(k)'
    BY <1>4, <1>a DEF Goto, Types, Stream, StorePC, BeforeWrite, CallPC, CallType
  <2> QED
    BY <1>4, <2>1, GotoLinked DEF Types, CallPC
<1>5. CASE ReadFirst(k) \/ Differs(k) \/ Open(k) \/ ReadNext(k) \/ ReadEnd(k) \/ Release(k) \/ DeleteFound(k)
  <2>1. kpc[k] # "free"
    BY <1>5 DEF ReadFirst, Differs, Open, ReadNext, ReadEnd, Release, DeleteFound, Goto
  <2>2. writeMap' \in [Files -> Clients \union {Nobody}] /\ DOMAIN disk' = Files
    BY <1>5, <1>c, <2>1 DEF ReadFirst, Differs, Open, ReadNext, ReadEnd, Release, DeleteFound, ReleaseLock, Types
  <2> QED
    BY <1>4, <1>5, <2>2 DEF ReadFirst, Differs, Open, ReadNext, ReadEnd, Release, DeleteFound
<1>6. CASE AlreadyExists(k) \/ OpenFails(k) \/ DeleteRelease(k) \/ ReadFirstFails(k) \/ DeleteMissing(k) \/ Close(k)
  <2>1. kpc[k] \notin {"free", "returned"}
    BY <1>6 DEF AlreadyExists, OpenFails, DeleteRelease, ReadFirstFails, DeleteMissing, Close
  <2>2. writeMap' \in [Files -> Clients \union {Nobody}]
    BY <1>6, <1>c, <2>1 DEF AlreadyExists, OpenFails, DeleteRelease, ReadFirstFails, DeleteMissing, Close, ReleaseLock, Types
  <2>3. DOMAIN disk' = Files
    BY <1>6 DEF AlreadyExists, OpenFails, DeleteRelease, ReadFirstFails, DeleteMissing, Close, Put, Types
  <2>4. \E st \in Status : Return(k, st)
    BY <1>6 DEF AlreadyExists, OpenFails, DeleteRelease, ReadFirstFails, DeleteMissing, Close, Status
  <2> QED
    BY <2>1, <2>2, <2>3, <2>4, ReturnLinked
<1>7. CASE Write(k)
  <2> DEFINE keep == SmallTail /\ call[k].got + 1 = NChunks[call[k].ver]
  <2>1. Goto(k, "storeWrite", "storeNext") /\ writeMap' = writeMap /\ DOMAIN disk' = Files
    BY <1>7 DEF Write, Put, Types
  <2>2. call' = [call EXCEPT ![k].got = call[k].got + 1, ![k].buffered = keep]
    BY <1>7 DEF Write
  <2>3. keep \in BOOLEAN
    BY DfsAssumption
  <2> HIDE DEF keep
  <2>4. call' = [call EXCEPT ![k] = [call[k] EXCEPT !.got = call[k].got + 1, !.buffered = keep]]
    BY <2>2 DEF Types, CallType
  <2>5. /\ call'[k].got = call[k].got + 1
        /\ \A l \in Calls : /\ call'[l].client = call[l].client /\ call'[l].file = call[l].file
                            /\ call'[l].ver = call[l].ver /\ call'[l].sent = call[l].sent
                            /\ call'[l].cancelled = call[l].cancelled
        /\ \A l \in Calls : l # k => call'[l].got = call[l].got /\ call'[l].linked = call[l].linked
    BY <2>4 DEF Types, CallType
  <2>6. call' \in [Calls -> CallType]
    <3>1. call[k] \in CallType /\ call[k].got + 1 \in Nat
      BY DEF Types, CallType
    <3>2. [call[k] EXCEPT !.got = call[k].got + 1, !.buffered = keep] \in CallType
      BY <2>3, <3>1, CallFields
    <3> QED
      BY <2>4, <3>2 DEF Types
  <2>7. Stream(k)'
    <3>1. kpc[k] = "storeWrite" /\ kpc'[k] = "storeNext"
      BY <2>1 DEF Goto, Types
    <3>2. call[k].got < call[k].sent /\ call[k].got \in Nat /\ call[k].sent \in Nat /\ call[k].ver \in Versions
      BY <1>a, <3>1 DEF Stream, Types, CallType, StorePC
    <3> QED
      BY <1>a, <2>5, <3>1, <3>2 DEF Stream, StorePC, BeforeWrite, CallPC
  <2> QED
    BY <2>1, <2>5, <2>6, <2>7, GotoLinked DEF Types, CallPC
<1>8. CASE Remove(k)
  <2>1. Goto(k, "deleteRemove", "deleteRelease") /\ writeMap' = writeMap /\ DOMAIN disk' = Files
    BY <1>8 DEF Remove, Types
  <2>2. \A l \in Calls : call'[l] = call[l] \/ call'[l] = [call[l] EXCEPT !.linked = FALSE]
    BY <1>8 DEF Remove
  <2>3. call' \in [Calls -> CallType]
    <3>1. \A l \in Calls : call'[l] \in CallType
      <4> TAKE l \in Calls
      <4>1. call[l] \in CallType /\ 0 \in Nat /\ FALSE \in BOOLEAN
        BY DEF Types
      <4>2. [call[l] EXCEPT !.linked = FALSE] \in CallType
        BY <4>1, CallFields
      <4> QED
        BY <2>2, <4>1, <4>2
    <3>2. call' = [l \in Calls |-> call'[l]]
      BY <1>8 DEF Remove
    <3> QED
      BY <3>1, <3>2
  <2>4. \A l \in Calls : /\ call'[l].client = call[l].client /\ call'[l].file = call[l].file
                         /\ call'[l].ver = call[l].ver /\ call'[l].sent = call[l].sent
                         /\ call'[l].cancelled = call[l].cancelled /\ call'[l].got = call[l].got
                         /\ (kpc[l] \notin Writing => call'[l].linked = call[l].linked)
    <3> SUFFICES ASSUME NEW l \in Calls, call'[l] = [call[l] EXCEPT !.linked = FALSE]
                 PROVE  /\ call'[l].client = call[l].client /\ call'[l].file = call[l].file
                        /\ call'[l].ver = call[l].ver /\ call'[l].sent = call[l].sent
                        /\ call'[l].cancelled = call[l].cancelled /\ call'[l].got = call[l].got
      <4>1. \A l \in Calls : kpc[l] \notin Writing => call'[l] = call[l]
        BY <1>8 DEF Remove, Writing
      <4> QED
        BY <2>2, <4>1
    <3>1. call[l] \in CallType
      BY DEF Types
    <3> QED
      BY <3>1 DEF CallType
  <2>5. Stream(k)'
    BY <1>a, <2>1, <2>4 DEF Goto, Types, Stream, StorePC, BeforeWrite, CallPC, Writing
  <2> QED
    BY <2>1, <2>3, <2>4, <2>5, GotoLinked DEF Types, CallPC
<1> QED
  BY <1>1, <1>2, <1>3, <1>5, <1>6, <1>7, <1>8 DEF Handler

\* The operation of a client ends, and its call with it.
LEMMA EndLinked ==
  ASSUME Types, Linked, NEW c \in Clients, NEW st, cpc[c] # "idle",
         Outcome(c, st), FreeCall(op[c].call),
         UNCHANGED <<writeMap, disk>>, late' \in BOOLEAN, late => late'
  PROVE  Types' /\ Linked'
<1> DEFINE k == op[c].call
<1>1. k \in Calls /\ kpc[k] # "free" /\ call[k].client = c /\ ~call[k].cancelled
  BY DEF Linked, Waits
<1>2. /\ kpc' = [kpc EXCEPT ![k] = "free"]
      /\ call' = [call EXCEPT ![k] = NoArgs]
      /\ reply' = [reply EXCEPT ![k] = "none"]
      /\ cpc' = [cpc EXCEPT ![c] = "idle"]
      /\ op' = [op EXCEPT ![c] = [rpc |-> "none", call |-> NoCall]]
  BY DEF Outcome, FreeCall
<1>3. missed' \in [Clients -> SUBSET Files]
  <2>1. call[k].file \in Files
    BY <1>1 DEF Linked, Owned
  <2> QED
    BY <2>1 DEF Outcome, Types
<1> HIDE DEF k
<1>4. NoArgs \in CallType
  BY DEF NoArgs, CallType
<1>5. Types'
  BY <1>1, <1>2, <1>3, <1>4 DEF Types, CallPC, Status
<1>6. \A l \in Calls : Stream(l)'
  BY <1>1, <1>2 DEF Types, Linked, Stream, NoArgs, StorePC
<1>7. \A l \in Calls \ {k} : kpc[l] # "free" /\ ~call[l].cancelled => call[l].client # c
  BY <1>1 DEF Linked, Owned, k
<1>8. \A l \in Calls : Owned(l)'
  BY <1>1, <1>2, <1>7 DEF Types, Linked, Owned, NoArgs
<1>9. \A d \in Clients \ {c} : cpc[d] # "idle" => op[d].call # k
  BY <1>1 DEF Linked, Waits
<1>10. \A d \in Clients : Waits(d)'
  BY <1>1, <1>2, <1>9 DEF Types, Linked, Waits
<1> QED
  BY <1>5, <1>6, <1>8, <1>10 DEF Linked

\* Every step of a client keeps the types and the links.
LEMMA ClientLinked ==
  ASSUME Types, Linked, NEW c \in Clients, UNCHANGED late,
         Begin(c, "store") \/ Begin(c, "delete") \/ Client(c)
  PROVE  Types' /\ Linked'
<1> USE DEF serverVars, clientVars
<1>1. ASSUME NEW rpc \in {"store", "delete"}, Begin(c, rpc)
      PROVE  Types' /\ Linked'
  <2>1. PICK k \in Calls, f \in Files, v \in IF rpc = "store" THEN Versions ELSE {Absent} :
          /\ kpc[k] = "free"
          /\ kpc' = [kpc EXCEPT ![k] = "lock"]
          /\ call' = [call EXCEPT ![k] = [NoArgs EXCEPT !.client = c, !.file = f, !.ver = v]]
          /\ op' = [op EXCEPT ![c] = [rpc |-> rpc, call |-> k]]
          /\ missed' = [missed EXCEPT ![c] = @ \ {f}]
    BY <1>1 DEF Begin
  <2>2. cpc[c] = "idle" /\ cpc' = [cpc EXCEPT ![c] = "access"] /\ UNCHANGED <<writeMap, disk, reply>>
    BY <1>1 DEF Begin
  <2> DEFINE r == [NoArgs EXCEPT !.client = c, !.file = f, !.ver = v]
  <2>3. r \in CallType /\ r.client = c /\ r.file = f /\ r.ver = v /\ ~r.cancelled /\ r.sent = 0 /\ r.got = 0 /\ r.linked
    BY DEF NoArgs, CallType
  <2>4. call' = [call EXCEPT ![k] = r]
    BY <2>1
  <2> HIDE DEF r
  <2>5. Types'
    BY <1>1, <2>1, <2>2, <2>3, <2>4 DEF Types, CallPC
  <2>6. v \in Versions => Messages(v) \in Nat
    BY DfsAssumption DEF Messages
  <2>7. /\ v \in Versions \/ v = Absent
        /\ rpc = "store" => v \in Versions
    BY DfsAssumption
  <2>8. call'[k] = r /\ kpc'[k] = "lock" /\ \A l \in Calls \ {k} : call'[l] = call[l] /\ kpc'[l] = kpc[l]
    BY <2>1, <2>4 DEF Types
  <2>9. \A l \in Calls : Stream(l)'
    <3>1. Stream(k)'
      BY <2>3, <2>6, <2>7, <2>8 DEF Stream, StorePC
    <3> QED
      BY <2>8, <3>1 DEF Linked, Stream
  <2>10. /\ op'[c].call = k /\ op'[c].rpc = rpc /\ cpc'[c] = "access"
         /\ \A d \in Clients \ {c} : op'[d] = op[d] /\ cpc'[d] = cpc[d]
    BY <2>1, <2>2 DEF Types
  <2>11. \A l \in Calls : Owned(l)'
    <3>1. Owned(k)'
      BY <2>3, <2>8, <2>10 DEF Owned
    <3>2. \A l \in Calls \ {k} : Owned(l)'
      BY <2>2, <2>8, <2>10 DEF Linked, Owned
    <3> QED
      BY <3>1, <3>2
  <2>12. \A d \in Clients : Waits(d)'
    <3>1. Waits(c)'
      BY <2>3, <2>7, <2>8, <2>10 DEF Waits
    <3>2. \A d \in Clients \ {c} : cpc[d] # "idle" => op[d].call \in Calls \ {k}
      BY <2>1 DEF Linked, Waits
    <3>3. \A d \in Clients \ {c} : Waits(d)'
      BY <2>8, <2>10, <3>2 DEF Linked, Waits
    <3> QED
      BY <3>1, <3>3
  <2> QED
    BY <2>5, <2>9, <2>11, <2>12 DEF Linked
<1>2. CASE Granted(c)
  <2> DEFINE k == op[c].call
  <2>1. k \in Calls /\ kpc[k] = "returned" /\ call[k].client = c /\ ~call[k].cancelled
        /\ cpc[c] = "access" /\ op[c].rpc \in {"store", "delete"} /\ call[k].got = 0 /\ call[k].linked
        /\ (op[c].rpc = "store" => call[k].ver \in Versions)
    BY <1>2 DEF Granted, Linked, Waits
  <2>2. /\ kpc' = [kpc EXCEPT ![k] = op[c].rpc]
        /\ cpc' = [cpc EXCEPT ![c] = "finish"]
        /\ reply' = [reply EXCEPT ![k] = "none"]
        /\ UNCHANGED <<writeMap, disk, call, op, missed>>
    BY <1>2 DEF Granted
  <2> HIDE DEF k
  <2>3. Types'
    BY <2>1, <2>2 DEF Types, CallPC, Status
  <2>4. \A l \in Calls : Stream(l)'
    BY <2>1, <2>2 DEF Types, Linked, Stream, StorePC, BeforeWrite, CallPC
  <2>5. \A l \in Calls : Owned(l)'
    BY <2>1, <2>2 DEF Types, Linked, Owned, k
  <2>6. \A d \in Clients : Waits(d)'
    BY <2>1, <2>2 DEF Types, Linked, Waits, k
  <2> QED
    BY <2>3, <2>4, <2>5, <2>6 DEF Linked
<1>3. CASE Refused(c) \/ Finished(c)
  <2>1. cpc[c] # "idle" /\ FreeCall(op[c].call) /\ UNCHANGED <<writeMap, disk>>
        /\ \E st : Outcome(c, st)
    BY <1>3 DEF Refused, Finished
  <2> QED
    BY <2>1, EndLinked DEF Types
<1>4. CASE SendChunk(c)
  <2> DEFINE k == op[c].call
  <2>1. k \in Calls /\ cpc[c] = "finish" /\ call[k].ver \in Versions /\ call[k].sent < Messages(call[k].ver)
    BY <1>4 DEF SendChunk, Linked, Waits
  <2>2. call' = [call EXCEPT ![k].sent = @ + 1] /\ UNCHANGED <<writeMap, disk, kpc, reply, cpc, op, missed>>
    BY <1>4 DEF SendChunk
  <2> HIDE DEF k
  <2>3. call[k] \in CallType /\ call[k].sent + 1 \in Nat
    BY <2>1 DEF Types, CallType
  <2>4. [call[k] EXCEPT !.sent = call[k].sent + 1] \in CallType
    BY <2>3, CallFields, FALSE \in BOOLEAN
  <2>5. call' = [call EXCEPT ![k] = [call[k] EXCEPT !.sent = call[k].sent + 1]]
    BY <2>1, <2>2 DEF Types
  <2>6. Types'
    BY <2>2, <2>4, <2>5 DEF Types
  <2>7. \A l \in Calls : /\ call'[l].client = call[l].client /\ call'[l].file = call[l].file
                         /\ call'[l].ver = call[l].ver /\ call'[l].got = call[l].got
                         /\ call'[l].cancelled = call[l].cancelled /\ call'[l].linked = call[l].linked
                         /\ call'[l].sent = IF l = k THEN call[k].sent + 1 ELSE call[l].sent
    BY <2>1, <2>3, <2>5 DEF Types, CallType
  <2>8. Messages(call[k].ver) \in Nat /\ call[k].got \in Nat /\ call[k].sent \in Nat
    BY <2>1, <2>3, DfsAssumption DEF Messages, CallType
  <2>9. \A l \in Calls : Stream(l)'
    BY <2>1, <2>2, <2>7, <2>8 DEF Linked, Stream
  <2>10. \A l \in Calls : Owned(l)'
    BY <2>2, <2>7 DEF Linked, Owned
  <2>11. \A d \in Clients : Waits(d)'
    BY <2>2, <2>7 DEF Linked, Waits
  <2> QED
    BY <2>6, <2>9, <2>10, <2>11 DEF Linked
<1> QED
  BY <1>1, <1>2, <1>3, <1>4 DEF Client

\* A deadline keeps them too: the call is freed, or goes on as a cancelled one.
LEMMA DeadlineLinked ==
  ASSUME Types, Linked, NEW c \in Clients, Deadline(c), late' = TRUE
  PROVE  Types' /\ Linked'
<1> USE DEF serverVars
<1> DEFINE k == op[c].call
<1>1. k \in Calls /\ kpc[k] # "free" /\ call[k].client = c /\ ~call[k].cancelled
  BY DEF Deadline, Linked, Waits
<1>2. CASE kpc[k] = "returned"
  BY <1>2, EndLinked DEF Deadline
<1>3. CASE kpc[k] # "returned"
  <2>1. /\ cpc' = [cpc EXCEPT ![c] = "idle"]
        /\ op' = [op EXCEPT ![c] = [rpc |-> "none", call |-> NoCall]]
        /\ missed' = [missed EXCEPT ![c] = @]
        /\ call' = [call EXCEPT ![k].cancelled = TRUE]
        /\ UNCHANGED <<writeMap, disk, kpc, reply>>
    BY <1>3 DEF Deadline, Outcome
  <2> HIDE DEF k
  <2>2. call[k] \in CallType
    BY <1>1 DEF Types
  <2>3. [call[k] EXCEPT !.cancelled = TRUE] \in CallType
    BY <2>2, CallFields, TRUE \in BOOLEAN, 0 \in Nat
  <2>4. call' = [call EXCEPT ![k] = [call[k] EXCEPT !.cancelled = TRUE]]
    BY <1>1, <2>1 DEF Types
  <2>5. Types'
    BY <2>1, <2>3, <2>4 DEF Types
  <2>6. \A l \in Calls : /\ call'[l].client = call[l].client /\ call'[l].file = call[l].file
                         /\ call'[l].ver = call[l].ver /\ call'[l].got = call[l].got
                         /\ call'[l].sent = call[l].sent /\ call'[l].linked = call[l].linked
                         /\ (l # k => call'[l].cancelled = call[l].cancelled)
    BY <1>1, <2>2, <2>4 DEF Types, CallType
  <2>7. call'[k].cancelled
    BY <1>1, <2>2, <2>4 DEF Types, CallType
  <2>8. \A l \in Calls : Stream(l)'
    BY <2>1, <2>6 DEF Linked, Stream
  <2>9. \A l \in Calls \ {k} : kpc[l] # "free" /\ ~call[l].cancelled => call[l].client # c
    BY <1>1 DEF Linked, Owned, k
  <2>10. \A l \in Calls : Owned(l)'
    BY <1>3, <2>1, <2>6, <2>7, <2>9 DEF Linked, Owned, Types
  <2>11. \A d \in Clients \ {c} : cpc[d] # "idle" => op[d].call # k
    BY <1>1 DEF Linked, Waits
  <2>12. \A d \in Clients : Waits(d)'
    BY <2>1, <2>6, <2>11 DEF Linked, Waits, Types
  <2> QED
    BY <2>5, <2>8, <2>10, <2>12 DEF Linked
<1> QED
  BY <1>2, <1>3
-----------------------------------------------------------------------------
(* The lock *)

\* As long as no deadline has passed, a client has one call at a time.
LEMMA OneCall ==
  ASSUME Linked, ~late
  PROVE  \A k, l \in Calls :
           kpc[k] # "free" /\ kpc[l] # "free" /\ call[k].client = call[l].client => k = l
  BY DEF Linked, Owned

\* A handler that has not been cancelled does one thing with the lock of its own
\* file: it leaves it alone, or, when the lock is free or its client's, takes or
\* releases it.
LEMMA LockStep ==
  ASSUME Types, Linked, Holds, Released, NoStrayLock, ~late, UNCHANGED late,
         NEW k \in Calls, kpc[k] # "free", kpc'[k] # "free",
         \A l \in Calls \ {k} : kpc'[l] = kpc[l] /\ reply'[l] = reply[l],
         \A l \in Calls : call'[l].client = call[l].client /\ call'[l].file = call[l].file,
         UNCHANGED <<cpc, missed>>,
         NEW w, writeMap' = [writeMap EXCEPT ![call[k].file] = w],
         \/ w = writeMap[call[k].file]
         \/ Available(k) /\ w \in {Nobody, call[k].client},
         kpc'[k] \in Locked => w = call[k].client,
         Over(k)' => w # call[k].client
  PROVE  Holds' /\ Released' /\ NoStrayLock'
<1>1. call[k].file \in Files /\ call[k].client \in Clients
  BY DEF Linked, Owned
<1>2. writeMap'[call[k].file] = w /\ \A f \in Files \ {call[k].file} : writeMap'[f] = writeMap[f]
  BY <1>1 DEF Types
<1>3. \A l \in Calls \ {k} : kpc[l] # "free" =>
        call[l].client # call[k].client /\ call[l].client \in Clients /\ call[l].file \in Files
  BY OneCall DEF Linked, Owned
<1>4. Holds'
  <2> SUFFICES ASSUME NEW l \in Calls, kpc'[l] \in Locked
               PROVE  writeMap'[call[l].file] = call[l].client
    BY DEF Holds
  <2>1. CASE l = k
    BY <1>2, <2>1
  <2>2. CASE l # k
    <3>1. kpc[l] # "free" /\ writeMap[call[l].file] = call[l].client
      BY <2>2 DEF Holds, Locked
    <3>2. call[l].client \notin {Nobody, call[k].client}
      BY <1>3, <2>2, <3>1, DfsAssumption
    <3> QED
      BY <1>2, <1>3, <2>2, <3>1, <3>2 DEF Available
  <2> QED
    BY <2>1, <2>2
<1>5. Released'
  <2> SUFFICES ASSUME NEW l \in Calls, Over(l)'
               PROVE  writeMap'[call[l].file] # call[l].client
    BY DEF Released
  <2>1. CASE l = k
    BY <1>2, <2>1
  <2>2. CASE l # k
    <3>1. Over(l) /\ kpc[l] # "free"
      BY <2>2 DEF Over
    <3>2. call[l].client \notin {Nobody, call[k].client} /\ writeMap[call[l].file] # call[l].client
      BY <1>3, <2>2, <3>1, DfsAssumption DEF Released
    <3> QED
      BY <1>2, <1>3, <2>2, <3>1, <3>2
  <2> QED
    BY <2>1, <2>2
<1>6. NoStrayLock'
  <2> SUFFICES ASSUME NEW f \in Files, NEW c \in Clients, writeMap'[f] = c,
                      \A l \in Calls : kpc'[l] # "free" /\ call[l].client = c => call[l].file # f
               PROVE  f \in missed[c]
    BY DEF NoStrayLock
  <2>1. \A l \in Calls : kpc[l] # "free" /\ call[l].client = c => call[l].file # f
    OBVIOUS
  <2>2. writeMap[f] = c
    BY <1>1, <1>2, <2>1, DfsAssumption
  <2> QED
    BY <2>1, <2>2 DEF NoStrayLock
<1> QED
  BY <1>4, <1>5, <1>6

\* Every step of a handler keeps the lock where it belongs.
LEMMA HandlerLock ==
  ASSUME Types, Linked, Holds, Released, NoStrayLock, NEW k \in Calls, Handler(k), UNCHANGED late
  PROVE  Holds' /\ Released' /\ NoStrayLock'
<1> USE DEF serverVars, clientVars
<1>0. CASE late
  BY <1>0 DEF Holds, Released, NoStrayLock
<1>a. CASE ~late
  <2>a. ~call[k].cancelled /\ Owned(k)
    BY <1>a DEF Linked, Owned
  <2>b. kpc[k] # "free" => call[k].file \in Files /\ call[k].client \in Clients
    BY <2>a DEF Owned
  <2>c. kpc[k] # "free" => writeMap = [writeMap EXCEPT ![call[k].file] = writeMap[call[k].file]]
    BY <2>b DEF Types
  \* it goes on
  <2>1. ASSUME NEW from, NEW to, Goto(k, from, to), from # "free", to \notin {"free", "returned"},
               \A l \in Calls : call'[l].client = call[l].client /\ call'[l].file = call[l].file,
               \/ UNCHANGED writeMap /\ (to \in Locked => from \in Locked) /\ to # "storeClose"
               \/ Available(k) /\ TakeLock(k) /\ to # "storeClose"
               \/ from \in Locked /\ ReleaseLock(k) /\ to \notin Locked
        PROVE  Holds' /\ Released' /\ NoStrayLock'
    <3>1. kpc[k] = from /\ kpc' = [kpc EXCEPT ![k] = to] /\ UNCHANGED <<reply, cpc, missed>>
      BY <2>1 DEF Goto
    <3>2. kpc'[k] = to /\ \A l \in Calls \ {k} : kpc'[l] = kpc[l] /\ reply'[l] = reply[l]
      BY <3>1 DEF Types
    <3>3. from \in Locked => writeMap[call[k].file] = call[k].client
      BY <1>a, <3>1 DEF Holds
    <3>4. CASE UNCHANGED writeMap /\ (to \in Locked => from \in Locked) /\ to # "storeClose"
      <4> DEFINE w == writeMap[call[k].file]
      <4>1. writeMap' = [writeMap EXCEPT ![call[k].file] = w]
        BY <2>1, <2>c, <3>1, <3>4
      <4>2. (kpc'[k] \in Locked => w = call[k].client) /\ ~Over(k)'
        BY <2>1, <3>2, <3>3, <3>4 DEF Over
      <4> HIDE DEF w
      <4> QED
        BY <1>a, <2>1, <3>1, <3>2, <4>1, <4>2, LockStep DEF w
    <3>5. CASE Available(k) /\ TakeLock(k) /\ to # "storeClose"
      <4>1. ~Over(k)'
        BY <2>1, <3>2, <3>5 DEF Over
      <4> QED
        BY <1>a, <2>1, <3>1, <3>2, <3>5, <4>1, LockStep DEF TakeLock
    <3>6. CASE from \in Locked /\ ReleaseLock(k) /\ to \notin Locked
      <4>1. Available(k) /\ Nobody # call[k].client
        BY <2>1, <2>b, <3>1, <3>3, <3>6, DfsAssumption DEF Available
      <4> QED
        BY <1>a, <2>1, <3>1, <3>2, <3>6, <4>1, LockStep DEF ReleaseLock
    <3> QED
      BY <2>1, <3>4, <3>5, <3>6
  \* it returns
  <2>2. ASSUME NEW st, Return(k, st), kpc[k] \notin {"free", "returned"},
               \/ UNCHANGED writeMap /\ kpc[k] = "storeClose"
               \/ UNCHANGED writeMap /\ ~Available(k)
               \/ UNCHANGED writeMap /\ st = "NOT_FOUND" /\ kpc[k] \notin {"lock", "lockCheck"}
               \/ Available(k) /\ TakeLock(k) /\ st = "OK" /\ kpc[k] = "lockCheck"
               \/ kpc[k] \in Locked /\ ReleaseLock(k)
        PROVE  Holds' /\ Released' /\ NoStrayLock'
    <3>1. kpc' = [kpc EXCEPT ![k] = "returned"] /\ reply' = [reply EXCEPT ![k] = st] /\ UNCHANGED <<call, cpc, missed>>
      BY <2>2, <2>a DEF Return
    <3>2. /\ kpc'[k] = "returned" /\ reply'[k] = st /\ kpc'[k] \notin Locked
          /\ \A l \in Calls \ {k} : kpc'[l] = kpc[l] /\ reply'[l] = reply[l]
      BY <3>1 DEF Types, Locked
    <3>3. /\ cpc[call[k].client] = "access" => kpc[k] \in {"lock", "lockCheck"}
          /\ cpc[call[k].client] = "finish" => kpc[k] \notin {"lock", "lockCheck"}
      BY <2>2, <2>a, <2>b DEF Owned, Linked, Waits
    <3>4. cpc[call[k].client] \in {"access", "finish"}
      BY <2>2, <2>a, <2>b DEF Owned, Types
    <3>5. CASE UNCHANGED writeMap /\ (kpc[k] = "storeClose" \/ ~Available(k))
      <4> DEFINE w == writeMap[call[k].file]
      <4>1. writeMap' = [writeMap EXCEPT ![call[k].file] = w]
        BY <2>2, <2>c, <3>5
      <4>2. w # call[k].client
        BY <1>a, <3>5 DEF Available, Released, Over
      <4> HIDE DEF w
      <4> QED
        BY <1>a, <2>2, <3>1, <3>2, <4>1, <4>2, LockStep DEF w
    <3>6. CASE UNCHANGED writeMap /\ st = "NOT_FOUND" /\ kpc[k] \notin {"lock", "lockCheck"}
      <4> DEFINE w == writeMap[call[k].file]
      <4>1. writeMap' = [writeMap EXCEPT ![call[k].file] = w]
        BY <2>2, <2>c, <3>6
      <4>2. ~Over(k)'
        BY <3>1, <3>2, <3>3, <3>4, <3>6 DEF Over
      <4> HIDE DEF w
      <4> QED
        BY <1>a, <2>2, <3>1, <3>2, <4>1, <4>2, LockStep DEF w
    <3>7. CASE Available(k) /\ TakeLock(k) /\ st = "OK" /\ kpc[k] = "lockCheck"
      <4>1. ~Over(k)'
        BY <3>1, <3>2, <3>3, <3>4, <3>7 DEF Over
      <4> QED
        BY <1>a, <2>2, <3>1, <3>2, <3>7, <4>1, LockStep DEF TakeLock
    <3>8. CASE kpc[k] \in Locked /\ ReleaseLock(k)
      <4>1. Available(k) /\ Nobody # call[k].client
        BY <1>a, <2>2, <2>b, <3>8, DfsAssumption DEF Available, Holds
      <4> QED
        BY <1>a, <2>2, <3>1, <3>2, <3>8, <4>1, LockStep DEF ReleaseLock
    <3> QED
      BY <2>2, <3>5, <3>6, <3>7, <3>8
  <2>3. ASSUME NEW from, NEW to, Start(k, from, to),
               from \in {"lock", "store", "delete"}, to \in {"lockCheck", "storeRead", "deleteTest"}
        PROVE  Holds' /\ Released' /\ NoStrayLock'
    BY <2>1, <2>3, <2>a DEF Start, Locked
  <2>4. CASE WriteLock(k)
    BY <2>2, <2>4 DEF WriteLock
  <2>5. ASSUME NEW from, NEW to, CheckLock(k, from, to),
               from \in {"storeCheck", "deleteCheck"}, to \in {"storeCompare", "deleteRemove"}
        PROVE  Holds' /\ Released' /\ NoStrayLock'
    <3>1. CASE Available(k) /\ TakeLock(k) /\ Goto(k, from, to) /\ UNCHANGED call
      BY <2>1, <2>5, <3>1
    <3>2. CASE ~Available(k) /\ Return(k, "RESOURCE_EXHAUSTED") /\ UNCHANGED writeMap
      BY <2>2, <2>5, <3>2 DEF CheckLock
    <3> QED
      BY <2>5, <3>1, <3>2 DEF CheckLock
  <2>6. CASE ReadFirst(k) \/ Differs(k) \/ Open(k) \/ ReadNext(k) \/ ReadEnd(k) \/ DeleteFound(k)
    BY <2>1, <2>6 DEF ReadFirst, Differs, Open, ReadNext, ReadEnd, DeleteFound, Locked
  <2>7. CASE Release(k)
    BY <2>1, <2>7 DEF Release, Locked
  <2>8. CASE AlreadyExists(k) \/ OpenFails(k) \/ DeleteRelease(k)
    BY <2>2, <2>8 DEF AlreadyExists, OpenFails, DeleteRelease, Locked
  <2>9. CASE ReadFirstFails(k)
    BY <2>9, <2>a DEF ReadFirstFails
  <2>10. CASE DeleteMissing(k) \/ Close(k)
    BY <2>2, <2>10 DEF DeleteMissing, Close
  <2>11. CASE Write(k)
    <3>1. \A l \in Calls : call'[l].client = call[l].client /\ call'[l].file = call[l].file
      BY <2>11 DEF Write, Types, CallType
    <3> QED
      BY <2>1, <2>11, <3>1 DEF Write, Locked
  <2>12. CASE Remove(k)
    <3>1. \A l \in Calls : call'[l].client = call[l].client /\ call'[l].file = call[l].file
      BY <2>12 DEF Remove, Types, CallType
    <3> QED
      BY <2>1, <2>12, <3>1 DEF Remove, Locked
  <2> QED
    BY <2>3, <2>4, <2>5, <2>6, <2>7, <2>8, <2>9, <2>10, <2>11, <2>12 DEF Handler
<1> QED
  BY <1>0, <1>a

\* Every step of a client keeps the lock where it belongs: the client is told
\* NOT_FOUND when an operation leaves the lock behind.
LEMMA ClientLock ==
  ASSUME Types, Linked, Holds, Released, NoStrayLock, NEW c \in Clients, UNCHANGED late,
         Begin(c, "store") \/ Begin(c, "delete") \/ Client(c)
  PROVE  Holds' /\ Released' /\ NoStrayLock'
<1> USE DEF serverVars, clientVars
<1>0. CASE late
  BY <1>0 DEF Holds, Released, NoStrayLock
<1>a. CASE ~late
  <2>1. ASSUME NEW rpc \in {"store", "delete"}, Begin(c, rpc)
        PROVE  Holds' /\ Released' /\ NoStrayLock'
    <3>1. PICK k \in Calls, f \in Files, v \in IF rpc = "store" THEN Versions ELSE {Absent} :
            /\ kpc[k] = "free"
            /\ kpc' = [kpc EXCEPT ![k] = "lock"]
            /\ call' = [call EXCEPT ![k] = [NoArgs EXCEPT !.client = c, !.file = f, !.ver = v]]
            /\ missed' = [missed EXCEPT ![c] = @ \ {f}]
      BY <2>1 DEF Begin
    <3>2. cpc[c] = "idle" /\ cpc' = [cpc EXCEPT ![c] = "access"] /\ UNCHANGED <<writeMap, disk, reply>>
      BY <2>1 DEF Begin
    <3>3. /\ call'[k].client = c /\ call'[k].file = f /\ kpc'[k] = "lock"
          /\ \A l \in Calls \ {k} : call'[l] = call[l] /\ kpc'[l] = kpc[l]
          /\ \A d \in Clients \ {c} : cpc'[d] = cpc[d] /\ missed'[d] = missed[d]
          /\ missed'[c] = missed[c] \ {f}
      BY <3>1, <3>2 DEF Types, NoArgs
    <3>4. \A l \in Calls \ {k} : kpc[l] # "free" => call[l].client \in Clients \ {c}
      BY <1>a, <3>2 DEF Linked, Owned
    <3>5. Holds'
      BY <3>2, <3>3 DEF Holds, Locked
    <3>6. Released'
      BY <3>2, <3>3, <3>4 DEF Released, Over
    <3>7. NoStrayLock'
      BY <3>1, <3>2, <3>3 DEF NoStrayLock
    <3> QED
      BY <3>5, <3>6, <3>7
  <2>2. CASE Granted(c)
    <3> DEFINE k == op[c].call
    <3>1. k \in Calls /\ kpc[k] = "returned" /\ call[k].client = c /\ cpc[c] = "access" /\ op[c].rpc \in {"store", "delete"}
      BY <2>2 DEF Granted, Linked, Waits
    <3>2. /\ kpc' = [kpc EXCEPT ![k] = op[c].rpc]
          /\ cpc' = [cpc EXCEPT ![c] = "finish"]
          /\ reply' = [reply EXCEPT ![k] = "none"]
          /\ UNCHANGED <<writeMap, disk, call, op, missed>>
      BY <2>2 DEF Granted
    <3> HIDE DEF k
    <3>3. /\ kpc'[k] \in {"store", "delete"}
          /\ \A l \in Calls \ {k} : kpc'[l] = kpc[l] /\ reply'[l] = reply[l]
          /\ \A d \in Clients \ {c} : cpc'[d] = cpc[d]
      BY <3>1, <3>2 DEF Types
    <3>4. \A l \in Calls \ {k} : kpc[l] # "free" => call[l].client \in Clients \ {c}
      BY <1>a, <3>1, OneCall DEF Linked, Owned
    <3>5. Holds'
      BY <3>2, <3>3 DEF Holds, Locked
    <3>6. Released'
      BY <3>2, <3>3, <3>4 DEF Released, Over
    <3>7. NoStrayLock'
      BY <3>1, <3>2, <3>3 DEF NoStrayLock
    <3> QED
      BY <3>5, <3>6, <3>7
  <2>3. CASE Refused(c) \/ Finished(c)
    <3> DEFINE k == op[c].call
    <3>1. k \in Calls /\ kpc[k] = "returned" /\ call[k].client = c /\ cpc[c] \in {"access", "finish"}
      BY <2>3 DEF Refused, Finished, Linked, Waits
    <3>2. /\ kpc' = [kpc EXCEPT ![k] = "free"]
          /\ call' = [call EXCEPT ![k] = NoArgs]
          /\ reply' = [reply EXCEPT ![k] = "none"]
          /\ cpc' = [cpc EXCEPT ![c] = "idle"]
          /\ UNCHANGED <<writeMap, disk>>
      BY <2>3 DEF Refused, Finished, Outcome, FreeCall
    <3>3. \/ writeMap[call[k].file] # c
          \/ missed' = [missed EXCEPT ![c] = @ \union {call[k].file}]
      <4>1. CASE Refused(c)
        BY <1>a, <3>1, <4>1 DEF Refused, Released, Over
      <4>2. CASE Finished(c)
        BY <1>a, <3>1, <4>2 DEF Finished, Outcome, Released, Over
      <4> QED
        BY <2>3, <4>1, <4>2
    <3>4. \A d \in Clients : missed[d] \subseteq missed'[d]
      <4>1. missed' = missed \/ missed' = [missed EXCEPT ![c] = @ \union {call[k].file}]
        BY <2>3 DEF Refused, Finished, Outcome, Types
      <4> QED
        BY <4>1 DEF Types
    <3>5. missed' = [missed EXCEPT ![c] = @ \union {call[k].file}] => call[k].file \in missed'[c]
      BY DEF Types
    <3> HIDE DEF k
    <3>6. /\ kpc'[k] = "free"
          /\ \A l \in Calls \ {k} : kpc'[l] = kpc[l] /\ reply'[l] = reply[l] /\ call'[l] = call[l]
          /\ \A d \in Clients \ {c} : cpc'[d] = cpc[d]
      BY <3>1, <3>2 DEF Types
    <3>7. \A l \in Calls \ {k} : kpc[l] # "free" => call[l].client \in Clients \ {c}
      BY <1>a, <3>1, OneCall DEF Linked, Owned
    <3>8. Holds'
      BY <3>2, <3>6 DEF Holds, Locked
    <3>9. Released'
      BY <3>2, <3>6, <3>7 DEF Released, Over
    <3>10. NoStrayLock'
      <4> SUFFICES ASSUME NEW f \in Files, NEW d \in Clients, writeMap[f] = d,
                          \A l \in Calls : kpc'[l] # "free" /\ call'[l].client = d => call'[l].file # f
                   PROVE  f \in missed'[d]
        BY <3>2 DEF NoStrayLock
      <4>1. CASE d = c /\ f = call[k].file
        BY <3>3, <3>5, <4>1
      <4>2. CASE ~(d = c /\ f = call[k].file)
        <5>1. \A l \in Calls : kpc[l] # "free" /\ call[l].client = d => call[l].file # f
          BY <3>1, <3>6, <4>2
        <5> QED
          BY <1>a, <3>4, <5>1 DEF NoStrayLock
      <4> QED
        BY <4>1, <4>2
    <3> QED
      BY <3>8, <3>9, <3>10
  <2>4. CASE SendChunk(c)
    <3>1. \A l \in Calls : call'[l].client = call[l].client /\ call'[l].file = call[l].file
      BY <2>4 DEF SendChunk, Types, CallType
    <3> QED
      BY <2>4, <3>1 DEF SendChunk, Holds, Released, Over, NoStrayLock
  <2> QED
    BY <2>1, <2>2, <2>3, <2>4 DEF Client
<1> QED
  BY <1>0, <1>a
-----------------------------------------------------------------------------
(* What is stored *)

\* What the file holds right after it was opened, after one more message and
\* after the last one.
LEMMA ReceivedSteps ==
  ASSUME NEW v \in Versions, NEW n \in Nat
  PROVE  /\ Received(v, 0) = << >>
         /\ n + 1 <= NChunks[v] => WriteAt(Received(v, n), n + 1, <<v, n + 1>>) = Received(v, n + 1)
         /\ n + 1 > NChunks[v] => Received(v, n) = Received(v, n + 1)
         /\ n = Messages(v) => Received(v, n) = Content(v)
<1>0. NChunks[v] \in Nat
  BY DfsAssumption
<1>1. Received(v, 0) = << >>
  BY <1>0 DEF Received
<1>2. ASSUME n + 1 <= NChunks[v]
      PROVE  WriteAt(Received(v, n), n + 1, <<v, n + 1>>) = Received(v, n + 1)
  <2>1. Received(v, n) = [i \in 1..n |-> <<v, i>>]
    BY <1>0, <1>2 DEF Received
  <2>2. Len(Received(v, n)) = n
    BY <2>1
  <2>3. \A j \in 1..n : Received(v, n)[j] = <<v, j>>
    BY <2>1
  <2>4. WriteAt(Received(v, n), n + 1, <<v, n + 1>>) = [j \in 1..(n + 1) |-> <<v, j>>]
    BY <2>2, <2>3 DEF WriteAt
  <2> QED
    BY <1>0, <1>2, <2>4 DEF Received
<1>3. n + 1 > NChunks[v] => Received(v, n) = Received(v, n + 1)
  BY <1>0 DEF Received
<1>4. n = Messages(v) => Received(v, n) = Content(v)
  BY <1>0 DEF Received, Content, Messages
<1> QED
  BY <1>1, <1>2, <1>3, <1>4

\* No two handlers are between CheckLock and ReleaseLock for the same file.
LEMMA LockedAlone ==
  ASSUME Linked, Holds, ~late
  PROVE  \A k, l \in Calls :
           kpc[k] \in Locked /\ kpc[l] \in Locked /\ call[k].file = call[l].file => k = l
  BY OneCall DEF Holds, Locked

\* A step that leaves the files alone, of a client or of a handler that has
\* nothing to write.
LEMMA WholeSame ==
  ASSUME Whole, UNCHANGED <<disk, late, overtaken>>,
         NEW k \in Calls, ~Pending(k), ~Pending(k)', Writes(k)',
         \A l \in Calls \ {k} : kpc'[l] = kpc[l] /\ call'[l] = call[l]
  PROVE  Whole'
<1> SUFFICES ASSUME ~late PROVE Whole'
  BY DEF Whole
<1>1. ASSUME NEW l \in Calls, l # k
      PROVE  (Pending(l)' <=> Pending(l)) /\ (Writes(l) => Writes(l)')
  BY <1>1 DEF Pending, Writes
<1>2. \A l \in Calls : Writes(l)'
  BY <1>1 DEF Whole
<1>3. ASSUME NEW l \in Calls, NEW m \in Calls, Pending(l)', Pending(m)',
             call'[l].file = call'[m].file, call'[l].file \notin overtaken'
      PROVE  l = m
  <2>1. l # k /\ m # k
    BY <1>3
  <2> QED
    BY <1>1, <1>3, <2>1 DEF Whole
<1>4. ASSUME NEW f \in Files \ overtaken'
      PROVE  \/ disk'[f] = Absent
             \/ \E v \in Versions : disk'[f] = Content(v)
             \/ \E l \in Calls : call'[l].file = f /\ Pending(l)'
  <2>1. CASE \E l \in Calls : call[l].file = f /\ Pending(l)
    <3>1. PICK l \in Calls : call[l].file = f /\ Pending(l)
      BY <2>1
    <3>2. l # k
      BY <3>1
    <3> QED
      BY <1>1, <3>1, <3>2
  <2>2. CASE disk[f] = Absent \/ \E v \in Versions : disk[f] = Content(v)
    BY <2>2 DEF Content
  <2> QED
    BY <1>4, <2>1, <2>2 DEF Whole
<1>5. overtaken' \subseteq Files
  BY DEF Whole
<1> QED
  BY <1>2, <1>3, <1>4, <1>5 DEF Whole

\* A step of a handler on its file g, which no other handler has open with
\* something left to write, unless g was opened before such a flush.
LEMMA WholeStep ==
  ASSUME Types, Linked, Whole, ~late, UNCHANGED late, NEW k \in Calls, NEW g \in Files,
         call[k].file = g, call'[k].file = g, Writes(k)', overtaken' \subseteq Files,
         \A f \in Files \ {g} : disk'[f] = disk[f] /\ (f \in overtaken' <=> f \in overtaken),
         \A l \in Calls \ {k} :
           /\ kpc'[l] = kpc[l]
           /\ call'[l].file = call[l].file /\ call'[l].ver = call[l].ver /\ call'[l].got = call[l].got
           /\ call'[l].buffered = call[l].buffered
           /\ call[l].file # g => call'[l].linked = call[l].linked
           /\ call[l].file = g /\ kpc[l] \in Streaming => call'[l].linked
           /\ call[l].file = g /\ g \notin overtaken' => ~Pending(l)',
         \/ g \in overtaken'
         \/ disk'[g] = Absent
         \/ \E v \in Versions : disk'[g] = Content(v)
         \/ Pending(k)'
  PROVE  Whole'
<1>0. \A l \in Calls : Pending(l) \/ Pending(l)' => l = k \/ call[l].file \in Files
  BY DEF Linked, Owned, Pending, Streaming
<1>1. ASSUME NEW l \in Calls, l # k, call[l].file # g
      PROVE  Pending(l)' <=> Pending(l)
  BY <1>1 DEF Pending
<1>2. ASSUME NEW l \in Calls PROVE Writes(l)'
  <2>1. CASE l # k /\ call[l].file = g
    BY <2>1 DEF Whole, Writes
  <2>2. CASE l # k /\ call[l].file # g
    <3>1. Writes(l)
      BY DEF Whole
    <3>2. Pending(l)' => disk'[call[l].file] = disk[call[l].file]
                         /\ (call[l].file \in overtaken' <=> call[l].file \in overtaken)
      BY <1>0, <2>2
    <3> QED
      BY <1>1, <2>2, <3>1, <3>2 DEF Writes
  <2> QED
    BY <2>1, <2>2
<1>3. ASSUME NEW l \in Calls, NEW m \in Calls, Pending(l)', Pending(m)',
             call'[l].file = call'[m].file, call'[l].file \notin overtaken'
      PROVE  l = m
  <2>1. CASE call'[l].file = g
    BY <1>3, <2>1
  <2>2. CASE call'[l].file # g
    <3>1. l # k /\ m # k /\ call[l].file = call[m].file /\ call[l].file # g /\ call[l].file = call'[l].file
      BY <1>3, <2>2
    <3>2. Pending(l) /\ Pending(m) /\ call[l].file \in Files
      BY <1>0, <1>1, <1>3, <3>1
    <3> QED
      BY <1>3, <3>1, <3>2 DEF Whole
  <2> QED
    BY <2>1, <2>2
<1>4. ASSUME NEW f \in Files \ overtaken'
      PROVE  \/ disk'[f] = Absent
             \/ \E v \in Versions : disk'[f] = Content(v)
             \/ \E l \in Calls : call'[l].file = f /\ Pending(l)'
  <2>1. CASE f = g
    BY <1>4, <2>1 DEF Content
  <2>2. CASE f # g
    <3>1. disk'[f] = disk[f] /\ f \notin overtaken
      BY <1>4, <2>2
    <3>2. CASE \E l \in Calls : call[l].file = f /\ Pending(l)
      <4>1. PICK l \in Calls : call[l].file = f /\ Pending(l)
        BY <3>2
      <4>2. l # k /\ call'[l].file = f
        BY <2>2, <4>1
      <4> QED
        BY <1>1, <2>2, <4>1, <4>2
    <3>3. CASE disk[f] = Absent \/ \E v \in Versions : disk[f] = Content(v)
      BY <3>1, <3>3 DEF Content
    <3> QED
      BY <3>1, <3>2, <3>3 DEF Whole
  <2> QED
    BY <2>1, <2>2
<1> QED
  BY <1>2, <1>3, <1>4 DEF Whole

\* A handler that has something to write is the only one, unless its file was
\* opened before a flush.
LEMMA WholeWriter ==
  ASSUME Types, Linked, Whole, ~late, UNCHANGED <<late, overtaken>>, NEW k \in Calls, Pending(k),
         call'[k].file = call[k].file, Writes(k)',
         \A f \in Files \ {call[k].file} : disk'[f] = disk[f],
         \A l \in Calls \ {k} : kpc'[l] = kpc[l] /\ call'[l] = call[l],
         \/ call[k].file \in overtaken
         \/ \E v \in Versions : disk'[call[k].file] = Content(v)
         \/ Pending(k)'
  PROVE  Whole'
<1>1. call[k].file \in Files
  BY DEF Linked, Owned, Pending, Streaming
<1>2. ASSUME NEW l \in Calls \ {k}
      PROVE  /\ call[l].file = call[k].file /\ kpc[l] \in Streaming => call'[l].linked
             /\ call[l].file = call[k].file /\ call[k].file \notin overtaken' => ~Pending(l)'
  <2>1. Pending(l)' => Pending(l)
    BY DEF Pending
  <2> QED
    BY <2>1 DEF Whole, Writes
<1>3. overtaken' \subseteq Files
  BY DEF Whole
<1> QED
  BY <1>1, <1>2, <1>3, WholeStep

\* Every step of a handler keeps the files whole.
LEMMA HandlerWhole ==
  ASSUME Types, Linked, Holds, Whole, NEW k \in Calls, Handler(k), UNCHANGED late
  PROVE  Whole'
<1> USE DEF serverVars, clientVars
<1>0. overtaken' \subseteq Files
  <2>1. kpc[k] # "free" => call[k].file \in Files
    BY DEF Linked, Owned
  <2>2. Open(k) => overtaken' \subseteq overtaken \union {call[k].file} /\ kpc[k] # "free"
    BY DEF Open, Goto
  <2>3. Open(k) \/ UNCHANGED overtaken
    BY DEF Handler
  <2> QED
    BY <2>1, <2>2, <2>3 DEF Whole
<1> SUFFICES ASSUME ~late PROVE Whole'
  BY <1>0 DEF Whole
<1>a. ~call[k].cancelled /\ Stream(k) /\ Owned(k) /\ Writes(k)
  BY DEF Linked, Owned, Whole
<1>b. call[k] \in CallType /\ call[k].got \in Nat /\ call[k].sent \in Nat
  BY DEF Types, CallType
<1>c. kpc[k] # "free" => call[k].file \in Files
  BY <1>a DEF Owned
<1>d. kpc[k] \in Writing => call[k].ver \in Versions /\ NChunks[call[k].ver] \in Nat
  BY <1>a, DfsAssumption DEF Writing, Stream, StorePC
<1>1. ASSUME NEW from, NEW to, Goto(k, from, to), UNCHANGED <<disk, call, overtaken>>,
             from \notin Writing, to \notin Writing
      PROVE  Whole'
  <2>1. kpc[k] = from /\ kpc'[k] = to /\ \A l \in Calls \ {k} : kpc'[l] = kpc[l]
    BY <1>1 DEF Goto, Types
  <2>2. ~Pending(k) /\ ~Pending(k)'
    BY <1>1, <2>1 DEF Pending, Streaming, Writing
  <2>3. Writes(k)'
    BY <1>1, <1>a, <2>1, <2>2 DEF Writes, Streaming, Writing
  <2> QED
    BY <1>1, <2>1, <2>2, <2>3, WholeSame
<1>2. ASSUME NEW st, Return(k, st), UNCHANGED <<disk, overtaken>>, ~Pending(k)
      PROVE  Whole'
  <2>1. kpc' = [kpc EXCEPT ![k] = "returned"] /\ call' = call
    BY <1>2, <1>a DEF Return
  <2>2. kpc'[k] = "returned" /\ \A l \in Calls \ {k} : kpc'[l] = kpc[l]
    BY <2>1 DEF Types
  <2>3. ~Pending(k)'
    BY <2>2 DEF Pending, Streaming
  <2>4. Writes(k)'
    BY <1>a, <2>1, <2>2, <2>3 DEF Writes, Streaming
  <2> QED
    BY <1>2, <2>1, <2>2, <2>3, <2>4, WholeSame
<1>3. CASE /\ \/ Start(k, "lock", "lockCheck") \/ Start(k, "store", "storeRead") \/ Start(k, "delete", "deleteTest")
           /\ UNCHANGED overtaken
  BY <1>1, <1>3, <1>a DEF Start, Writing
<1>4. CASE /\ \/ CheckLock(k, "storeCheck", "storeCompare") \/ CheckLock(k, "deleteCheck", "deleteRemove")
              \/ WriteLock(k)
           /\ UNCHANGED overtaken
  <2>1. ~Pending(k)
    BY <1>4 DEF CheckLock, WriteLock, Pending, Streaming
  <2> QED
    BY <1>1, <1>2, <1>4, <2>1 DEF CheckLock, WriteLock, Writing
<1>5. CASE (ReadFirst(k) \/ Differs(k) \/ DeleteFound(k)) /\ UNCHANGED overtaken
  BY <1>1, <1>5 DEF ReadFirst, Differs, DeleteFound, Writing
<1>6. CASE /\ ReadFirstFails(k) \/ AlreadyExists(k) \/ OpenFails(k) \/ DeleteMissing(k) \/ DeleteRelease(k)
           /\ UNCHANGED overtaken
  <2>1. ~Pending(k)
    BY <1>6 DEF ReadFirstFails, AlreadyExists, OpenFails, DeleteMissing, DeleteRelease, Pending, Streaming
  <2> QED
    BY <1>2, <1>6, <2>1 DEF ReadFirstFails, AlreadyExists, OpenFails, DeleteMissing, DeleteRelease
<1>7. CASE Close(k) /\ UNCHANGED overtaken
  <2>1. kpc[k] = "storeClose" /\ Return(k, "OK")
    BY <1>7 DEF Close
  <2>2. kpc' = [kpc EXCEPT ![k] = "returned"] /\ call' = call
    BY <1>a, <2>1 DEF Return
  <2>3. kpc'[k] = "returned" /\ \A l \in Calls \ {k} : kpc'[l] = kpc[l]
    BY <2>2 DEF Types
  <2>4. CASE Pending(k)
    <3>1. call[k].buffered /\ call[k].linked /\ Put(k, call[k].got)
      BY <1>7, <2>1, <2>4 DEF Pending, Streaming, Close
    <3>2. /\ call[k].ver \in Versions /\ call[k].got > 0 /\ call[k].got = NChunks[call[k].ver]
          /\ call[k].file \notin overtaken => disk[call[k].file] = Received(call[k].ver, call[k].got - 1)
      BY <1>a, <2>4, <3>1 DEF Writes
    <3>3. disk' = [disk EXCEPT ![call[k].file] = WriteAt(@, call[k].got, <<call[k].ver, call[k].got>>)]
      BY <1>b, <3>1, <3>2 DEF Put
    <3>4. call[k].got - 1 \in Nat /\ (call[k].got - 1) + 1 = call[k].got /\ call[k].got = Messages(call[k].ver)
      BY <1>b, <3>2 DEF Messages
    <3>5. WriteAt(Received(call[k].ver, call[k].got - 1), call[k].got, <<call[k].ver, call[k].got>>)
            = Received(call[k].ver, call[k].got)
      <4>1. (call[k].got - 1) + 1 <= NChunks[call[k].ver]
        BY <1>b, <3>2, <3>4
      <4> QED
        BY <3>2, <3>4, <4>1, ReceivedSteps
    <3>6. Received(call[k].ver, call[k].got) = Content(call[k].ver)
      BY <1>b, <3>2, <3>4, ReceivedSteps
    <3>7. call[k].file \in overtaken \/ disk'[call[k].file] = Content(call[k].ver)
      BY <1>c, <2>1, <3>2, <3>3, <3>5, <3>6 DEF Types
    <3>8. \A f \in Files \ {call[k].file} : disk'[f] = disk[f]
      BY <3>3 DEF Types
    <3>9. ~Pending(k)'
      BY <2>3 DEF Pending, Streaming
    <3>10. Writes(k)'
      BY <1>a, <2>2, <2>3, <3>9 DEF Writes, Streaming
    <3> QED
      BY <1>7, <2>2, <2>3, <2>4, <3>2, <3>7, <3>8, <3>10, WholeWriter
  <2>5. CASE ~Pending(k)
    <3>1. disk' = disk
      BY <1>7, <2>1, <2>5 DEF Close, Put, Pending
    <3> QED
      BY <1>2, <1>7, <2>1, <2>5, <3>1
  <2> QED
    BY <2>4, <2>5
<1>8. CASE Open(k)
  <2> DEFINE g == call[k].file
  <2>1. kpc[k] = "storeOpen" /\ kpc' = [kpc EXCEPT ![k] = "storeWrite"] /\ call' = call
        /\ disk' = [disk EXCEPT ![g] = << >>]
        /\ overtaken' = IF Flushing(g) /\ ~late THEN overtaken \union {g} ELSE overtaken \ {g}
    BY <1>8 DEF Open, Goto
  <2>2. call[k].got = 0 /\ call[k].ver \in Versions /\ call[k].linked
    BY <1>a, <2>1 DEF Stream, StorePC, BeforeWrite, CallPC
  <2>3. ~call[k].buffered
    BY <1>a, <2>2 DEF Writes
  <2>4. g \in Files
    BY <1>c, <2>1
  <2>5. disk'[g] = Received(call[k].ver, 0) /\ \A f \in Files \ {g} : disk'[f] = disk[f]
    BY <1>b, <2>1, <2>2, <2>4, ReceivedSteps DEF Types
  <2>6. kpc'[k] = "storeWrite" /\ \A l \in Calls \ {k} : kpc'[l] = kpc[l]
    BY <2>1 DEF Types
  <2>7. Writes(k)' /\ Pending(k)'
    BY <2>1, <2>2, <2>3, <2>5, <2>6 DEF Writes, Pending, Streaming
  <2>8. ASSUME NEW l \in Calls \ {k}, call[l].file = g
        PROVE  kpc[l] \notin Streaming /\ (g \notin overtaken' => ~Pending(l)')
    <3>1. kpc[l] \notin Streaming
      BY <2>1, <2>8, LockedAlone DEF Locked, Streaming
    <3>2. g \notin overtaken' => ~Flushing(g)
      BY <2>1
    <3> QED
      BY <2>1, <2>6, <2>8, <3>1, <3>2 DEF Flushing, Pending
  <2>9. \A f \in Files \ {g} : f \in overtaken' <=> f \in overtaken
    BY <2>1
  <2> HIDE DEF g
  <2>10. call[k].file = g
    BY DEF g
  <2> QED
    BY <1>0, <2>1, <2>4, <2>5, <2>6, <2>7, <2>8, <2>9, <2>10, WholeStep
<1>9. CASE Write(k) /\ UNCHANGED overtaken
  <2> DEFINE i == call[k].got + 1
             keep == SmallTail /\ i = NChunks[call[k].ver]
  <2>1. kpc[k] = "storeWrite" /\ kpc' = [kpc EXCEPT ![k] = "storeNext"]
        /\ (IF keep THEN UNCHANGED disk ELSE Put(k, i))
        /\ call' = [call EXCEPT ![k].got = i, ![k].buffered = keep]
    BY <1>9 DEF Write, Goto
  <2>2. call[k].linked /\ call[k].ver \in Versions /\ call[k].file \in Files /\ NChunks[call[k].ver] \in Nat
    BY <1>a, <1>c, <1>d, <2>1 DEF Writes, Streaming, Writing
  <2>3. ~call[k].buffered
    <3>1. call[k].got < Messages(call[k].ver)
      <4>1. call[k].got < call[k].sent /\ call[k].sent <= Messages(call[k].ver)
        BY <1>a, <1>b, <2>1, <2>2 DEF Stream
      <4>2. Messages(call[k].ver) \in Nat
        BY <2>2 DEF Messages
      <4> QED
        BY <1>b, <4>1, <4>2
    <3> QED
      BY <1>a, <1>b, <2>2, <3>1 DEF Writes, Messages
  <2>4. call[k].file \notin overtaken => disk[call[k].file] = Received(call[k].ver, call[k].got)
    BY <1>a, <2>1, <2>3 DEF Writes, Pending, Streaming
  <2>5. /\ \A f \in Files \ {call[k].file} : disk'[f] = disk[f]
        /\ call[k].file \notin overtaken =>
             disk'[call[k].file] = Received(call[k].ver, IF keep THEN call[k].got ELSE i)
    <3>1. CASE keep
      BY <2>1, <2>4, <3>1
    <3>2. CASE ~keep /\ i <= NChunks[call[k].ver]
      <4>1. disk' = [disk EXCEPT ![call[k].file] = WriteAt(@, i, <<call[k].ver, i>>)]
        BY <2>1, <2>2, <3>2 DEF Put
      <4>2. WriteAt(Received(call[k].ver, call[k].got), i, <<call[k].ver, i>>) = Received(call[k].ver, i)
        BY <1>b, <2>2, <3>2, ReceivedSteps
      <4> QED
        BY <2>2, <2>4, <3>2, <4>1, <4>2 DEF Types
    <3>3. CASE ~keep /\ i > NChunks[call[k].ver]
      <4>1. disk' = disk
        BY <1>b, <2>1, <2>2, <3>3 DEF Put
      <4>2. Received(call[k].ver, call[k].got) = Received(call[k].ver, i)
        BY <1>b, <2>2, <3>3, ReceivedSteps
      <4> QED
        BY <2>2, <2>4, <3>3, <4>1, <4>2
    <3> QED
      BY <1>b, <2>2, <3>1, <3>2, <3>3
  <2>6. keep => i = NChunks[call[k].ver] /\ i > 0
    BY <1>b
  <2>7. keep \in BOOLEAN /\ i \in Nat /\ i - 1 = call[k].got
    BY <1>b, DfsAssumption
  <2> HIDE DEF i, keep
  <2>8. /\ call'[k].got = i /\ call'[k].buffered = keep /\ call'[k].linked = call[k].linked
        /\ call'[k].file = call[k].file /\ call'[k].ver = call[k].ver
        /\ \A l \in Calls \ {k} : call'[l] = call[l]
    BY <1>b, <2>1 DEF Types, CallType
  <2>9. kpc'[k] = "storeNext" /\ \A l \in Calls \ {k} : kpc'[l] = kpc[l]
    BY <2>1 DEF Types
  <2>10. Writes(k)'
    <3>1. call'[k].buffered => call'[k].ver \in Versions /\ call'[k].got > 0 /\ call'[k].got = NChunks[call'[k].ver]
      BY <2>2, <2>6, <2>8
    <3>2. call'[k].file \notin overtaken' =>
            disk'[call'[k].file] =
              Received(call'[k].ver, IF call'[k].buffered THEN call'[k].got - 1 ELSE call'[k].got)
      BY <1>9, <2>5, <2>7, <2>8
    <3> QED
      BY <2>2, <2>8, <2>9, <3>1, <3>2 DEF Writes
  <2>11. Pending(k) /\ Pending(k)'
    BY <2>1, <2>9 DEF Pending, Streaming
  <2> QED
    BY <1>9, <2>5, <2>8, <2>9, <2>10, <2>11, WholeWriter
<1>10. CASE (ReadNext(k) \/ ReadEnd(k) \/ Release(k)) /\ UNCHANGED overtaken
  <2>1. /\ kpc[k] \in {"storeNext", "storeRelease"}
        /\ kpc'[k] \in {"storeWrite", "storeRelease", "storeClose"}
        /\ kpc'[k] = "storeClose" => kpc[k] = "storeRelease"
        /\ kpc'[k] = "storeRelease" => call[k].got = Messages(call[k].ver)
        /\ call' = call /\ disk' = disk /\ \A l \in Calls \ {k} : kpc'[l] = kpc[l]
    BY <1>10, <1>a DEF ReadNext, ReadEnd, Release, Goto, Types
  <2>2. Pending(k) /\ call[k].linked /\ call[k].ver \in Versions
    BY <1>a, <1>d, <2>1 DEF Pending, Streaming, Writes, Writing
  <2>3. Writes(k)'
    BY <1>10, <1>a, <2>1, <2>2 DEF Writes, Streaming
  <2>4. call[k].file \in overtaken \/ Pending(k)' \/ disk'[call[k].file] = Content(call[k].ver)
    <3>1. CASE kpc'[k] # "storeClose" \/ call[k].buffered
      BY <2>1, <2>2, <3>1 DEF Pending, Streaming
    <3>2. CASE kpc'[k] = "storeClose" /\ ~call[k].buffered
      <4>1. call[k].got = Messages(call[k].ver)
            /\ (call[k].file \notin overtaken => disk[call[k].file] = Received(call[k].ver, call[k].got))
        BY <1>a, <2>1, <2>2, <3>2 DEF Writes
      <4> QED
        BY <1>b, <2>1, <2>2, <4>1, ReceivedSteps
    <3> QED
      BY <3>1, <3>2
  <2> QED
    BY <1>10, <2>1, <2>2, <2>3, <2>4, WholeWriter
<1>11. CASE Remove(k) /\ UNCHANGED overtaken
  <2> DEFINE g == call[k].file
  <2>1. kpc[k] = "deleteRemove" /\ kpc' = [kpc EXCEPT ![k] = "deleteRelease"]
        /\ disk' = [disk EXCEPT ![g] = Absent]
    BY <1>11 DEF Remove, Goto
  <2>2. g \in Files /\ disk'[g] = Absent /\ \A f \in Files \ {g} : disk'[f] = disk[f]
    BY <1>c, <2>1 DEF Types
  <2>3. kpc'[k] = "deleteRelease" /\ \A l \in Calls \ {k} : kpc'[l] = kpc[l]
    BY <2>1 DEF Types
  <2>4. \A l \in Calls :
           /\ call'[l].file = call[l].file /\ call'[l].ver = call[l].ver /\ call'[l].got = call[l].got
           /\ call'[l].buffered = call[l].buffered
           /\ call[l].file # g => call'[l].linked = call[l].linked
           /\ call[l].file = g /\ kpc[l] \in Writing => ~call'[l].linked
    <3> TAKE l \in Calls
    <3>1. call[l] \in CallType
      BY DEF Types
    <3>2. CASE call[l].file = g /\ kpc[l] \in Writing
      <4>1. call'[l] = [call[l] EXCEPT !.linked = FALSE]
        BY <1>11, <3>2 DEF Remove, Writing
      <4> QED
        BY <3>1, <3>2, <4>1 DEF CallType
    <3>3. CASE ~(call[l].file = g /\ kpc[l] \in Writing)
      <4>1. call'[l] = call[l]
        BY <1>11, <3>3 DEF Remove, Writing
      <4> QED
        BY <3>3, <4>1
    <3> QED
      BY <3>2, <3>3
  <2>5. ASSUME NEW l \in Calls \ {k}, call[l].file = g
        PROVE  kpc[l] \notin Streaming /\ ~Pending(l)'
    <3>1. kpc[l] \notin Streaming
      BY <2>1, <2>5, LockedAlone DEF Locked, Streaming
    <3> QED
      BY <2>3, <2>4, <2>5, <3>1 DEF Pending, Writing
  <2>6. Writes(k)'
    <3>1. ~Pending(k)'
      BY <2>3 DEF Pending, Streaming
    <3> QED
      BY <1>a, <2>3, <2>4, <3>1 DEF Writes, Streaming
  <2> HIDE DEF g
  <2>7. call[k].file = g
    BY DEF g
  <2> QED
    BY <1>0, <1>11, <2>2, <2>3, <2>4, <2>5, <2>6, <2>7, WholeStep
<1> QED
  BY <1>3, <1>4, <1>5, <1>6, <1>7, <1>8, <1>9, <1>10, <1>11 DEF Handler

\* Nor does a step of a client touch a file.
LEMMA ClientWhole ==
  ASSUME Types, Linked, Whole, NEW c \in Clients, UNCHANGED <<late, overtaken>>,
         Begin(c, "store") \/ Begin(c, "delete") \/ Client(c)
  PROVE  Whole'
<1> USE DEF serverVars, clientVars
<1>0. overtaken' \subseteq Files
  BY DEF Whole
<1> SUFFICES ASSUME ~late PROVE Whole'
  BY <1>0 DEF Whole
<1>1. ASSUME NEW rpc \in {"store", "delete"}, Begin(c, rpc) PROVE Whole'
  <2>1. PICK k \in Calls, f \in Files, v \in IF rpc = "store" THEN Versions ELSE {Absent} :
          /\ kpc[k] = "free"
          /\ kpc' = [kpc EXCEPT ![k] = "lock"]
          /\ call' = [call EXCEPT ![k] = [NoArgs EXCEPT !.client = c, !.file = f, !.ver = v]]
          /\ op' = [op EXCEPT ![c] = [rpc |-> rpc, call |-> k]]
          /\ missed' = [missed EXCEPT ![c] = @ \ {f}]
    BY <1>1 DEF Begin
  <2>2. ~call'[k].buffered /\ kpc'[k] = "lock" /\ \A l \in Calls \ {k} : kpc'[l] = kpc[l] /\ call'[l] = call[l]
    BY <2>1 DEF Types, NoArgs
  <2>3. ~Pending(k) /\ ~Pending(k)' /\ Writes(k)'
    BY <2>1, <2>2 DEF Pending, Writes, Streaming
  <2> QED
    BY <1>1, <2>2, <2>3, WholeSame DEF Begin
<1>2. CASE Granted(c) \/ Refused(c) \/ Finished(c)
  <2>0. op[c].call \in Calls /\ kpc[op[c].call] = "returned" /\ op[c].rpc \in {"store", "delete"}
    BY <1>2 DEF Granted, Refused, Finished, Linked, Waits
  <2>1. PICK k \in Calls : k = op[c].call /\ kpc[k] = "returned"
    BY <2>0
  <2>2. /\ kpc'[k] \in {"store", "delete", "free"}
        /\ call'[k] \in {call[k], NoArgs}
        /\ \A l \in Calls \ {k} : kpc'[l] = kpc[l] /\ call'[l] = call[l]
    BY <1>2, <2>0, <2>1 DEF Granted, Refused, Finished, FreeCall, Types
  <2>3. ~Pending(k) /\ ~Pending(k)'
    BY <2>1, <2>2 DEF Pending, Streaming
  <2>4. Writes(k)'
    <3>1. Writes(k)
      BY <2>1 DEF Whole
    <3> QED
      BY <2>2, <2>3, <3>1 DEF Writes, NoArgs, Streaming
  <2>5. disk' = disk
    BY <1>2 DEF Granted, Refused, Finished
  <2> QED
    BY <2>1, <2>2, <2>3, <2>4, <2>5, WholeSame
<1>3. CASE SendChunk(c)
  <2>1. \A l \in Calls :
           /\ call'[l].file = call[l].file /\ call'[l].ver = call[l].ver /\ call'[l].got = call[l].got
           /\ call'[l].buffered = call[l].buffered /\ call'[l].linked = call[l].linked
    BY <1>3 DEF SendChunk, Types, CallType
  <2>2. disk' = disk /\ kpc' = kpc
    BY <1>3 DEF SendChunk
  <2>3. \A l \in Calls : (Pending(l)' <=> Pending(l)) /\ (Writes(l) => Writes(l)')
    BY <2>1, <2>2 DEF Pending, Writes
  <2>4. \A f \in Files \ overtaken' :
           \/ disk'[f] = Absent
           \/ \E v \in Versions : disk'[f] = Content(v)
           \/ \E l \in Calls : call'[l].file = f /\ Pending(l)'
    BY <2>1, <2>2, <2>3 DEF Whole
  <2> QED
    BY <1>0, <2>1, <2>3, <2>4 DEF Whole
<1> QED
  BY <1>1, <1>2, <1>3 DEF Client
-----------------------------------------------------------------------------
(* The theorems *)

\* The invariant holds in the initial state ...
LEMMA InitInv == Init => IInv
<1> SUFFICES ASSUME Init PROVE IInv
  OBVIOUS
<1> USE DEF Init
<1>1. NoArgs \in CallType
  BY DEF NoArgs, CallType
<1>2. Types
  BY <1>1 DEF Types, CallPC, Status
<1>3. Linked
  BY DEF Linked, Stream, Owned, Waits, NoArgs, StorePC
<1>4. Holds /\ Released /\ NoStrayLock
  BY DfsAssumption DEF Holds, Released, NoStrayLock, Over, Locked
<1>5. Whole
  <2>1. \A k \in Calls : ~Pending(k) /\ Writes(k)
    BY DEF Pending, Writes, Streaming, NoArgs
  <2> QED
    BY <2>1 DEF Whole
<1> QED
  BY <1>2, <1>3, <1>4, <1>5 DEF IInv

\* ... and every step keeps it.
LEMMA NextInv == IInv /\ [Next]_vars => IInv'
<1> SUFFICES ASSUME IInv, [Next]_vars PROVE IInv'
  OBVIOUS
<1>0. Types /\ Linked /\ Holds /\ Released /\ NoStrayLock /\ Whole
  BY DEF IInv
<1>1. ASSUME NEW c \in Clients, UNCHANGED <<late, overtaken>>, Begin(c, "store") \/ Begin(c, "delete") \/ Client(c)
      PROVE  IInv'
  BY <1>0, <1>1, ClientLinked, ClientLock, ClientWhole DEF IInv
<1>2. ASSUME NEW k \in Calls, Handler(k), UNCHANGED late
      PROVE  IInv'
  BY <1>0, <1>2, HandlerLinked, HandlerLock, HandlerWhole DEF IInv
<1>3. ASSUME NEW c \in Clients, Deadline(c), late' = TRUE, overtaken' = {}
      PROVE  IInv'
  <2>1. Types' /\ Linked'
    BY <1>0, <1>3, DeadlineLinked
  <2>2. Holds' /\ Released' /\ NoStrayLock' /\ Whole'
    BY <1>0, <1>3 DEF Holds, Released, NoStrayLock, Whole
  <2> QED
    BY <2>1, <2>2 DEF IInv
<1>4. CASE UNCHANGED vars
  BY <1>0, <1>4 DEF vars, IInv, Types, Linked, Stream, Owned, Waits, Holds, Released, Over, NoStrayLock, Whole,
              Writes, Pending
<1> QED
  BY <1>1, <1>2, <1>3, <1>4 DEF Next, InTime

\* Clients and calls stay linked, the lock is where it belongs and the files are
\* what the handlers have received.
THEOREM Invariance == Spec => []IInv
  BY InitInv, NextInv, PTL DEF Spec

\* Every variable has its type, and no handler reads more messages than its
\* client has sent, whatever the number of calls and whether deadlines pass.
THEOREM TypeCorrect == Spec => []TypeOK
<1>1. IInv => TypeOK
  BY DEF IInv, Types, Linked, Stream, Owned, Whole, TypeOK
<1> QED
  BY <1>1, Invariance, PTL

\* WriteLock, CheckLock and ReleaseLock keep two clients from writing one file
\* at the same time as long as no deadline has passed.
THEOREM WritersExclusive == Spec => []OneWriterInTime
<1>1. IInv => OneWriterInTime
  BY DEF IInv, Holds, OneWriterInTime, OneWriter
<1> QED
  BY <1>1, Invariance, PTL

\* Store and Delete leave a lock behind only where DeleteFile answered NOT_FOUND,
\* as long as no deadline has passed.
THEOREM LocksReleased == Spec => []NoStrayLock
<1>1. IInv => NoStrayLock
  BY DEF IInv
<1> QED
  BY <1>1, Invariance, PTL

\* StoreFile leaves the whole of one version in the mount directory, also when its
\* last bytes reach the file only after ReleaseLock, as long as no deadline has
\* passed and no other handler opened the file between that release and the flush.
THEOREM FilesWhole == Spec => []StoredWhole
<1>1. ASSUME IInv PROVE StoredWhole
  <2> SUFFICES ASSUME NEW f \in Files, ~late, f \notin overtaken,
                      \A k \in Calls : kpc[k] \in Writing => call[k].file # f, disk[f] # Absent
               PROVE  \E v \in Versions : disk[f] = Content(v)
    BY DEF StoredWhole
  <2>1. \A k \in Calls : Pending(k) => kpc[k] \in Writing
    BY DEF Pending, Streaming, Writing
  <2> QED
    BY <1>1, <2>1 DEF IInv, Whole
<1> QED
  BY <1>1, Invariance, PTL
=============================================================================
