--------------------------- MODULE StreamPrograms ---------------------------
(***************************************************************************)
(* The single-threaded TCP programs of multithreading: echo, transfer and  *)
(* the getfile library gflib.  Their servers accept one connection after   *)
(* the other with the same socket code; TCP keeps the order of bytes and   *)
(* nothing else, so a recv returns any non-empty part of what has arrived. *)
(* A content byte is "a", "nl" (a newline) or "nul"; a header is cut where *)
(* a cut makes a difference.  A behaviour runs one of the programs.        *)
(***************************************************************************)
EXTENDS Integers, Sequences, FiniteSets, SequencesExt

CONSTANTS
  N,           \* number of clients (getfile: of requests of one client)
  Programs,    \* a subset of {"echo", "transfer", "getfile"}
  FileSet,     \* contents of the file that is served
  Messages,    \* messages of the echo client
  BufSize,     \* BUFSIZE of transfer, 16 of echo
  Radix,       \* base of the numbers in a header
  MaxKills     \* bound on programs that are killed

Bytes == {"a", "nl", "nul"}

ASSUME StreamAssumption ==
  /\ N \in Nat /\ BufSize \in Nat \ {0} /\ MaxKills \in Nat
  /\ Programs \subseteq {"echo", "transfer", "getfile"}
  /\ FileSet \subseteq Seq(Bytes) /\ Messages \subseteq Seq(Bytes)
  /\ Radix \in Nat /\ Radix > 1 /\ \A f \in FileSet : Len(f) < Radix * Radix

VARIABLES
  program, file,
  input,           \* what a client sends
  up, down,        \* bytes under way to the server, to the client
  closed,          \* connections the server has closed
  left,            \* connections the client has closed
  cpc,             \* a client
  copy,            \* its output file, or what it prints
  rc, status,      \* getfile: result and status of gfc_perform
  remain,          \* getfile: data_remained
  split,           \* history: the first recv did not return the whole header
  spc, conn,       \* the server: where, and newsockfd ({} or one client)
  backlog,         \* connections that wait for accept
  fp,              \* transfer: position in the file
  request, stale,  \* getfile: header, and whether strtok has cut it
  out,             \* the sends that remain to be done for conn
  behind,          \* history: clients accepted when fp had been moved
  kills

inputs == <<program, file, input>>
streams == <<up, down, closed, left>>
clientVars == <<cpc, copy, rc, status, remain, split>>
serverVars == <<spc, conn, backlog, fp, request, stale, out, behind>>
streamVars == <<inputs, streams, clientVars, serverVars, kills>>

Clients == 1..N
GetRequests == {<<"get", "known", "end">>, <<"get", "unknown", "end">>, <<"get", "nolead", "end">>}
Inputs(p) == CASE p = "echo" -> Messages [] p = "transfer" -> {<< >>} [] p = "getfile" -> GetRequests

StreamInit ==
  /\ program \in Programs /\ file \in FileSet
  /\ input \in [Clients -> Inputs(program)]
  /\ up = [c \in Clients |-> << >>] /\ down = [c \in Clients |-> << >>]
  /\ closed = {} /\ left = {}
  /\ cpc = [c \in Clients |-> "idle"]
  /\ copy = [c \in Clients |-> << >>]
  /\ rc = [c \in Clients |-> 0]
  /\ status = [c \in Clients |-> "INVALID"]
  /\ remain = [c \in Clients |-> 0]
  /\ split = [c \in Clients |-> FALSE]
  /\ spc = "start" /\ conn = {} /\ backlog = << >>
  /\ fp = 0 /\ request = << >> /\ stale = FALSE /\ out = << >> /\ behind = {}
  /\ kills = 0
-----------------------------------------------------------------------------
(* Strings and streams *)

Smaller(x, y) == IF x < y THEN x ELSE y

\* How many bytes a recv with a buffer of size cap may return
RecvSizes(stream, cap) == 1..Smaller(cap, Len(stream))

\* The first position of an element of S in s, or Len(s) + 1
FirstIn(s, S) ==
  LET at == {i \in 1..Len(s) : s[i] \in S} IN
  IF at = {} THEN Len(s) + 1 ELSE CHOOSE i \in at : \A j \in at : i <= j

\* The bytes of a string in a zeroed buffer: strlen
UpToNul(s) == SubSeq(s, 1, FirstIn(s, {"nul"}) - 1)

Gone == closed \union (IF spc = "dead" THEN Clients ELSE {})

Digits == IF Len(file) < Radix THEN <<"d1">> ELSE <<"d1", "d2">>

\* gfs_sendheader: scheme, status, length (OK only) and the end of the header
Header(st) == <<"g1", "g2", st, "s2">> \o (IF st = "OK" THEN Digits ELSE << >>) \o <<"e1", "e2">>
-----------------------------------------------------------------------------
(* The servers *)

\* getaddrinfo, socket, bind, listen
Listen ==
  /\ spc = "start"
  /\ spc' = "accept"
  /\ UNCHANGED <<inputs, streams, clientVars, conn, backlog, fp, request, stale, out, behind, kills>>

\* accept; transfer sends at once, the others wait for the client
Accept ==
  /\ spc = "accept" /\ backlog # << >>
  /\ conn' = {Head(backlog)}
  /\ backlog' = Tail(backlog)
  /\ spc' = IF program = "transfer" THEN "reply" ELSE "recv"
  /\ behind' = IF fp > 0 THEN behind \union conn' ELSE behind
  /\ UNCHANGED <<inputs, streams, clientVars, fp, request, stale, out, kills>>

\* echo: one recv, and strlen of a buffer that is not terminated when it is full
RecvMessage ==
  /\ program = "echo" /\ spc = "recv"
  /\ \E c \in conn :
       \/ /\ up[c] = << >> /\ c \in left
          /\ up' = up
          /\ out' = << << >> >>
       \/ \E n \in RecvSizes(up[c], BufSize) : \E more \in {<< >>, <<"garbage">>} :
            /\ n < BufSize => more = << >>
            /\ up' = [up EXCEPT ![c] = SubSeq(@, n + 1, Len(@))]
            /\ out' = <<SubSeq(up[c], 1, n) \o more>>
  /\ spc' = "reply"
  /\ UNCHANGED <<inputs, down, closed, left, clientVars, conn, backlog, fp, request, stale, behind, kills>>

\* The path of a good request is given to the handler, which is external (handler.o):
\* the header, and the file if the path is known.
Answer(req) ==
  CASE req[2] = "nolead" -> <<Header("INVALID")>>
    [] req[2] = "unknown" -> <<Header("FILE_NOT_FOUND")>>
    [] OTHER -> <<Header("OK"), file>>

\* getfile: receive until the end of the header, parse.  strtok leaves the scheme as
\* all that strstr sees in header, and nothing clears it: later requests never end.
RecvRequest ==
  /\ program = "getfile" /\ spc = "recv"
  /\ \E c \in conn : \E n \in RecvSizes(up[c], Len(up[c])) :
       LET got == request \o SubSeq(up[c], 1, n)
           complete == ~stale /\ got[Len(got)] = "end"
       IN
       /\ up' = [up EXCEPT ![c] = SubSeq(@, n + 1, Len(@))]
       /\ request' = got
       /\ stale' = (stale \/ complete)
       /\ spc' = IF complete THEN "reply" ELSE "recv"
       /\ out' = IF complete THEN Answer(got) ELSE out
  /\ UNCHANGED <<inputs, down, closed, left, clientVars, conn, backlog, fp, behind, kills>>

\* send to client c: into the stream or, if the client has left, into the void or, once
\* the peer has reset the connection, SIGPIPE, which no server handles
Send(c, bytes) ==
  \/ /\ c \notin left
     /\ down' = [down EXCEPT ![c] = @ \o bytes]
     /\ spc' = spc
  \/ /\ c \in left
     /\ down' = down
     /\ spc' \in {spc, "dead"}

\* echo and getfile
SendReply ==
  /\ spc = "reply" /\ out # << >>
  /\ \E c \in conn : Send(c, Head(out))
  /\ out' = Tail(out)
  /\ UNCHANGED <<inputs, up, closed, left, clientVars, conn, backlog, fp, request, stale, behind, kills>>

\* Mutant of SendFile: each chunk starts one byte early
SendFileOverlaps ==
  /\ program = "transfer" /\ spc = "reply" /\ fp < Len(file)
  /\ LET end == Smaller(fp + BufSize, Len(file)) IN
     /\ \E c \in conn : Send(c, UpToNul(SubSeq(file, IF fp = 0 THEN 1 ELSE fp, end)))
     /\ fp' = end
  /\ UNCHANGED <<inputs, up, closed, left, clientVars, conn, backlog, request, stale, out, behind, kills>>

\* transfer: fread and send.  fp is opened once and stays at the end of the file.
SendFile ==
  /\ program = "transfer" /\ spc = "reply" /\ fp < Len(file)
  /\ LET end == Smaller(fp + BufSize, Len(file)) IN
     /\ \E c \in conn : Send(c, UpToNul(SubSeq(file, fp + 1, end)))
     /\ fp' = end
  /\ UNCHANGED <<inputs, up, closed, left, clientVars, conn, backlog, request, stale, out, behind, kills>>

\* Mutant of EndReply: the connection is not closed
EndReplyOpen ==
  /\ spc = "reply" /\ out = << >>
  /\ program = "transfer" => fp = Len(file)
  /\ spc' = "accept"
  /\ conn' = {}
  /\ UNCHANGED <<inputs, streams, clientVars, backlog, fp, request, stale, out, behind, kills>>

\* echo and transfer close the connection, gfserver_serve does not
EndReply ==
  /\ spc = "reply" /\ out = << >>
  /\ program = "transfer" => fp = Len(file)
  /\ spc' = "accept"
  /\ conn' = {}
  /\ closed' = IF program = "getfile" THEN closed ELSE closed \union conn
  /\ UNCHANGED <<inputs, up, down, left, clientVars, backlog, fp, request, stale, out, behind, kills>>

Server == Listen \/ Accept \/ RecvMessage \/ RecvRequest \/ SendReply \/ SendFile \/ EndReply
-----------------------------------------------------------------------------
(* The clients *)

\* gfclient_download performs one request after the other
MayStart(c) == program = "getfile" => \A d \in 1..(c - 1) : cpc[d] \in {"done", "failed"}

\* getaddrinfo, socket, connect: the server's kernel accepts it
Connect(c) ==
  /\ cpc[c] = "idle" /\ MayStart(c)
  /\ spc \notin {"start", "dead"}
  /\ cpc' = [cpc EXCEPT ![c] = "connected"]
  /\ backlog' = Append(backlog, c)
  /\ UNCHANGED <<inputs, streams, copy, rc, status, remain, split, spc, conn, fp, request, stale, out, behind, kills>>

\* Nobody listens: return 2.  gfclient_download unlinks the file then.
ConnectFails(c) ==
  /\ cpc[c] = "idle" /\ MayStart(c)
  /\ spc \in {"start", "dead"}
  /\ cpc' = [cpc EXCEPT ![c] = "failed"]
  /\ rc' = [rc EXCEPT ![c] = 2]
  /\ status' = [status EXCEPT ![c] = "ERROR"]
  /\ UNCHANGED <<inputs, streams, copy, remain, split, serverVars, kills>>

SendInput(c) ==
  /\ cpc[c] = "connected"
  /\ up' = [up EXCEPT ![c] = input[c]]
  /\ cpc' = [cpc EXCEPT ![c] = IF program = "getfile" THEN "first" ELSE "recv"]
  /\ UNCHANGED <<inputs, down, closed, left, copy, rc, status, remain, split, serverVars, kills>>

\* recv returns n bytes
Take(c, n) == down' = [down EXCEPT ![c] = SubSeq(@, n + 1, Len(@))]

\* The end of a client or a request; the connection is closed if the flag says so
Ends(c, how, close) ==
  /\ cpc' = [cpc EXCEPT ![c] = how]
  /\ left' = IF close THEN left \union {c} ELSE left

\* echo: one recv, printed.  transfer: recv and fwrite until the server closes.
RecvCopy(c) ==
  /\ cpc[c] = "recv" /\ program \in {"echo", "transfer"}
  /\ \E n \in RecvSizes(down[c], BufSize) :
       /\ copy' = [copy EXCEPT ![c] = @ \o UpToNul(SubSeq(down[c], 1, n))]
       /\ Take(c, n)
  /\ IF program = "echo" THEN Ends(c, "done", TRUE) ELSE UNCHANGED <<cpc, left>>
  /\ UNCHANGED <<inputs, up, closed, rc, status, remain, split, serverVars, kills>>

\* recv returns 0.  (transferclient does the same if recv returns -1.)
RecvEnd(c) ==
  /\ cpc[c] = "recv" /\ program \in {"echo", "transfer"}
  /\ down[c] = << >> /\ c \in Gone
  /\ Ends(c, "done", TRUE)
  /\ UNCHANGED <<inputs, up, down, closed, copy, rc, status, remain, split, serverVars, kills>>

\* What strtok("\n\r\n") makes of content that arrives with the header: leading newlines
\* are skipped, the newline that ends the token becomes a NUL, and as many bytes as were
\* skipped are read beyond the content.  << >> stands for a null pointer.
Token(s) ==
  LET k == FirstIn(s, {"a", "nul"}) - 1
      t == SubSeq(s, k + 1, Len(s))
      e == FirstIn(t, {"nl", "nul"})
  IN IF t = << >> \/ t[1] = "nul" THEN << >>
     ELSE [i \in 1..Len(s) |-> IF i > Len(t) \/ i = e THEN "nul" ELSE t[i]]

\* The first recv, which is parsed as a header whatever it holds
RecvHeader(c) ==
  /\ program = "getfile" /\ cpc[c] = "first"
  /\ \E n \in RecvSizes(down[c], Len(down[c])) :
       LET st == down[c][3]
           header == Header(st)
           digits == Smaller(n - 4, Len(Digits))
           length == IF digits = Len(Digits) THEN Len(file) ELSE Len(file) \div Radix
           response == n - 6 - digits       \* response_size
           body == SubSeq(down[c], Len(header) + 1, n)
           Fails(how, code) == /\ cpc' = [cpc EXCEPT ![c] = how]
                               /\ rc' = [rc EXCEPT ![c] = code]
                               /\ UNCHANGED <<copy, remain, left>>
       IN
       /\ Take(c, n)
       /\ split' = [split EXCEPT ![c] = n < Len(header)]
       /\ status' = [status EXCEPT ![c] = IF n >= 4 THEN st ELSE "INVALID"]
       /\ \/ /\ n \in {1, 3}                \* wrong scheme, unknown status
             /\ Fails("done", -1)
          \/ /\ n = 2 \/ (n = 4 /\ st = "OK")   \* strcmp or sscanf of a null pointer
             /\ Fails("crashed", 0)
          \/ /\ n >= 4 /\ st # "OK"
             /\ Fails("done", IF st = "INVALID" THEN -1 ELSE 0)
          \/ /\ n > 4 /\ st = "OK" /\ response > 0 /\ Token(body) = << >>
             /\ Fails("crashed", 0)
          \/ /\ n > 4 /\ st = "OK" /\ (response > 0 => Token(body) # << >>)
             /\ remain' = [remain EXCEPT ![c] = length - response]
             /\ copy' = [copy EXCEPT ![c] = IF response > 0 THEN Token(body) ELSE << >>]
             /\ rc' = rc
             /\ IF length = response THEN Ends(c, "done", TRUE) ELSE Ends(c, "recv", FALSE)
  /\ UNCHANGED <<inputs, up, closed, serverVars, kills>>

\* The later ones, until exactly data_remained bytes have arrived
RecvContent(c) ==
  /\ program = "getfile" /\ cpc[c] = "recv"
  /\ \E n \in RecvSizes(down[c], Len(down[c])) :
       /\ copy' = [copy EXCEPT ![c] = @ \o SubSeq(down[c], 1, n)]
       /\ remain' = [remain EXCEPT ![c] = @ - n]
       /\ Take(c, n)
       /\ IF remain[c] = n THEN Ends(c, "done", TRUE) ELSE UNCHANGED <<cpc, left>>
  /\ UNCHANGED <<inputs, up, closed, rc, status, split, serverVars, kills>>

\* Mutant of RecvLost: the result does not tell
RecvLostOk(c) ==
  /\ program = "getfile" /\ cpc[c] \in {"first", "recv"}
  /\ down[c] = << >> /\ c \in Gone
  /\ Ends(c, "done", FALSE)
  /\ UNCHANGED <<inputs, up, down, closed, copy, rc, status, remain, split, serverVars, kills>>

\* recv returns 0: return -1
RecvLost(c) ==
  /\ program = "getfile" /\ cpc[c] \in {"first", "recv"}
  /\ down[c] = << >> /\ c \in Gone
  /\ rc' = [rc EXCEPT ![c] = -1]
  /\ Ends(c, "done", FALSE)
  /\ UNCHANGED <<inputs, up, down, closed, copy, status, remain, split, serverVars, kills>>

\* recv returns -1: the server closed or died with bytes of the client unread, which resets
\* the connection and drops what was under way.  echo prints its empty buffer; gfc_perform
\* tests for 0 only and gives strcmp the null pointer strtok makes of an empty buffer.
RecvReset(c) ==
  /\ program \in {"echo", "getfile"} /\ cpc[c] \in {"first", "recv"}
  /\ up[c] # << >> /\ c \in Gone
  /\ IF program = "echo" THEN Ends(c, "done", TRUE) ELSE Ends(c, "crashed", FALSE)
  /\ UNCHANGED <<inputs, up, down, closed, copy, rc, status, remain, split, serverVars, kills>>

Client(c) ==
  \/ Connect(c) \/ ConnectFails(c) \/ SendInput(c) \/ RecvCopy(c) \/ RecvEnd(c)
  \/ RecvHeader(c) \/ RecvContent(c) \/ RecvLost(c) \/ RecvReset(c)

\* A client is killed.  (The client of getfile makes all its requests itself.)
Kill(c) ==
  /\ kills < MaxKills /\ program # "getfile"
  /\ kills' = kills + 1
  /\ cpc[c] \in {"connected", "recv"}
  /\ cpc' = [cpc EXCEPT ![c] = "killed"]
  /\ left' = left \union {c}
  /\ UNCHANGED <<inputs, up, down, closed, copy, rc, status, remain, split, serverVars>>

\* The server is killed; its kernel closes all its connections.
KillServer ==
  /\ kills < MaxKills
  /\ kills' = kills + 1
  /\ spc' = "dead"
  /\ UNCHANGED <<inputs, streams, clientVars, conn, backlog, fp, request, stale, out, behind>>

StreamNext == Server \/ KillServer \/ \E c \in Clients : Client(c) \/ Kill(c)

StreamSpec == StreamInit /\ [][StreamNext]_streamVars

\* The programs are running, and TCP delivers what was sent.
FairStreamSpec == StreamSpec /\ WF_streamVars(Server) /\ \A c \in Clients : WF_streamVars(Client(c))
-----------------------------------------------------------------------------
(* Properties *)

HasOnly(s, S) == \A i \in 1..Len(s) : s[i] \in S

\* Text (no NUL) comes through in order, without gaps and without anything added: an echo
\* is a prefix of its message if that fits the buffer with its terminator, and so is what a
\* transfer client has of the file; it has all of it once the server has closed the
\* connection and the client has read to the end.  Every client should get the file; the
\* server never rewinds it, so those it accepts behind the start of the file do not, and
\* are left out of the last part.
InOrder ==
  /\ program = "echo" =>
       \A c \in Clients : Len(input[c]) < BufSize => IsPrefix(copy[c], input[c])
  /\ (program = "transfer" /\ HasOnly(file, {"a", "nl"})) =>
       \A c \in Clients :
         /\ IsPrefix(copy[c], file)
         /\ (cpc[c] = "done" /\ c \in closed /\ c \notin behind) => copy[c] = file

\* gfclient_download keeps the local file
Kept(c) == cpc[c] = "done" /\ rc[c] >= 0 /\ status[c] = "OK"

\* A download that is kept is the file, if the first recv returned the whole header and
\* the file has neither newlines nor NULs: the header may arrive in pieces and strtok
\* changes newlines, and then the client keeps something else or crashes.  It also
\* crashes if the server goes with its request unread, and for no other reason.
KeptIsWhole ==
  program = "getfile" =>
    \A c \in Clients :
      /\ cpc[c] = "crashed" =>
           split[c] \/ ~HasOnly(file, {"a"}) \/ (spc = "dead" /\ up[c] # << >>)
      /\ (Kept(c) /\ ~split[c] /\ HasOnly(file, {"a"})) => copy[c] = file

\* Does this program serve client c at all?  echo: nobody sends the empty message, which
\* makes client and server wait for each other; getfile: it is the first request.
Servable(c) ==
  CASE program = "echo" -> \A d \in Clients : input[d] # << >>
    [] program = "transfer" -> TRUE
    [] program = "getfile" -> c = 1 /\ ~split[c]

\* A client that can be served ends, whatever the others do.  Of getfile it is the
\* first request only: the second one never gets an answer.
Ended ==
  \A c \in Clients :
    (cpc[c] = "connected") ~>
      (~Servable(c) \/ cpc[c] \in {"done", "failed", "crashed", "killed"})
=============================================================================
