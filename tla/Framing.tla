------------------------------ MODULE Framing -------------------------------
(***************************************************************************)
(* TcpSocket at both ends of a connection that carries one exchange: the   *)
(* client connects, sends a frame, waits for one and closes; a server      *)
(* thread reads a frame, sends one and closes.  A frame is the payload's   *)
(* length and the payload.                                                 *)
(*                                                                         *)
(* A unit is as much as is looked at in one piece: the length comes in two *)
(* of them, each a digit to the base Base (two of the four bytes each, in  *)
(* the code), and is put together from what was received.  send and recv   *)
(* move any number of units that the kernel's buffer or the call allows.   *)
(*                                                                         *)
(* An end may close early, the server may be killed, and the network may   *)
(* go silent.  The kernel then answers by the rules of TCP: end of file    *)
(* after an orderly close, a reset after a close with something unread or  *)
(* when data meets a closed end, and nothing at all from a silent network. *)
(***************************************************************************)
EXTENDS Integers, Sequences

CONSTANTS
  Conns,       \* connections
  Units,       \* what payloads are made of
  NoPayload,   \* no payload
  Base,        \* a digit of the length is below this
  Room,        \* units the kernel holds per direction
  Chunk,       \* units recv is asked for at most
  MaxFaults    \* bound: ends killed, networks gone silent

Payload == {p \in Seq(Units) : Len(p) < Base * Base}

ASSUME PayloadAssumption == NoPayload \notin Seq(Units)
ASSUME SizeAssumption ==
  /\ Base \in Nat \ {0, 1} /\ Room \in Nat \ {0} /\ Chunk \in Nat \ {0}
  /\ MaxFaults \in Nat

VARIABLES
  pc,       \* where each end of a connection is
  out,      \* the payload an end was given to send
  left,     \* what it has still to write of its frame
  flow,     \* what is under way to an end
  got,      \* what the end has read
  took,     \* the payload recvMsg returned to it
  broken,   \* connections that were reset
  cut,      \* connections whose network is silent
  faults

framingVars == <<pc, out, left, flow, got, took, broken, cut, faults>>

End == {"client", "server"}

Peer(e) == IF e = "client" THEN "server" ELSE "client"

\* A server end is "open" as soon as the kernel has accepted the connection; a
\* client that has "sent" its frame waits for the first byte of another.
Point == {"idle", "connect", "open", "write", "sent", "read", "have", "closed"}

Per(x) == [c \in Conns |-> [e \in End |-> x]]

FramingInit ==
  /\ pc = Per("idle")
  /\ out = Per(NoPayload) /\ took = Per(NoPayload)
  /\ left = Per(<<>>) /\ flow = Per(<<>>) /\ got = Per(<<>>)
  /\ broken = {} /\ cut = {}
  /\ faults = 0

FramingTypeOK ==
  /\ pc \in [Conns -> [End -> Point]]
  /\ broken \subseteq Conns /\ cut \subseteq Conns
  /\ faults \in 0 .. MaxFaults
-----------------------------------------------------------------------------
(* Frames.                                                                 *)

HeadLen == 2

Digits(n) == <<n \div Base, n % Base>>

Length(h) == h[1] * Base + h[2]

Frame(p) == Digits(Len(p)) \o p

\* The units readn is still to get, given what it has: of the length, then of as
\* many units as the length says.
Missing(g) == IF Len(g) < HeadLen THEN HeadLen - Len(g)
              ELSE HeadLen + Length(g) - Len(g)

Complete(g) == Len(g) >= HeadLen /\ Missing(g) = 0

Body(g) == SubSeq(g, HeadLen + 1, Len(g))
-----------------------------------------------------------------------------
(* The kernel.                                                             *)

Goto(c, e, p) == pc' = [pc EXCEPT ![c][e] = p]

Closed(c, e) == pc[c][e] = "closed"

\* recv returns 0.
AtEof(c, e) == flow[c][e] = <<>> /\ Closed(c, Peer(e)) /\ c \notin cut \cup broken

\* select finds the end readable, or epoll reports EPOLLIN for it.
Readable(c, e) == c \in broken \/ AtEof(c, e) \/ (flow[c][e] # <<>> /\ c \notin cut)

\* close: what the end has read is gone, and what it has not; with something unread,
\* the peer, unless it has closed before, is sent a reset.
Close(c, e) ==
  /\ Goto(c, e, "closed")
  /\ got' = [got EXCEPT ![c][e] = <<>>]
  /\ flow' = [flow EXCEPT ![c][e] = <<>>]
  /\ broken' = IF Closed(c, Peer(e)) THEN broken \ {c}
               ELSE IF flow[c][e] = <<>> THEN broken ELSE broken \cup {c}
  /\ UNCHANGED <<out, left, took, cut>>

Fault == faults < MaxFaults /\ faults' = faults + 1
-----------------------------------------------------------------------------
(* Sending.                                                                *)

\* The client has a request to send, and connects: connectTimeout starts a
\* connect that does not block.
Ask(c, p) ==
  /\ pc[c]["client"] = "idle"
  /\ out' = [out EXCEPT ![c]["client"] = p]
  /\ left' = [left EXCEPT ![c]["client"] = Frame(p)]
  /\ Goto(c, "client", "connect")
  /\ UNCHANGED <<flow, got, took, broken, cut, faults>>

\* The connection is made, at once or while select waits.  sendMsg follows: the
\* buffer is empty, so writeWithTimeout finds it writable.
Connected(c) ==
  /\ pc[c]["client"] = "connect"
  /\ pc' = [pc EXCEPT ![c]["client"] = "write", ![c]["server"] = "open"]
  /\ UNCHANGED <<out, left, flow, got, took, broken, cut, faults>>

\* Refused, or not made in ten seconds; by then the server may have it.
ConnectFails(c) ==
  /\ pc[c]["client"] = "connect"
  /\ \/ Goto(c, "client", "closed")
     \/ pc' = [pc EXCEPT ![c]["client"] = "closed", ![c]["server"] = "open"]
  /\ UNCHANGED <<out, left, flow, got, took, broken, cut, faults>>

\* The server has a reply, and may have met a fault: sendMsg, with an empty buffer
\* again.
Reply(c, p) ==
  /\ pc[c]["server"] = "have"
  /\ out' = [out EXCEPT ![c]["server"] = p]
  /\ left' = [left EXCEPT ![c]["server"] = Frame(p)]
  /\ Goto(c, "server", "write")
  /\ UNCHANGED <<flow, got, took, broken, cut>>

\* Mutant: after a partial send the pointer stays where it is.
writenAgain(c, e) ==
  LET n == Len(left[c][e])
      d == Peer(e)
  IN  /\ pc[c][e] = "write"
      /\ \E k \in 1 .. n :
           /\ left' = [left EXCEPT ![c][e] = SubSeq(@, 1, n - k)]
           /\ IF k = n THEN Goto(c, e, "sent") ELSE UNCHANGED pc
           /\ \/ /\ c \notin broken /\ ~Closed(c, d)
                 /\ k <= Room - Len(flow[c][d])
                 /\ flow' = [flow EXCEPT ![c][d] = @ \o SubSeq(left[c][e], 1, k)]
                 /\ UNCHANGED broken
              \/ /\ c \notin broken /\ Closed(c, d)
                 /\ broken' = IF c \in cut THEN broken ELSE broken \cup {c}
                 /\ UNCHANGED flow
      /\ UNCHANGED <<out, got, took, cut, faults>>

\* writen: one send, of as much as there is room for.  Data for an end that is
\* closed is lost and brings back a reset.
writen(c, e) ==
  LET n == Len(left[c][e])
      d == Peer(e)
  IN  /\ pc[c][e] = "write"
      /\ \E k \in 1 .. n :
           /\ left' = [left EXCEPT ![c][e] = SubSeq(@, k + 1, n)]
           /\ IF k = n THEN Goto(c, e, "sent") ELSE UNCHANGED pc
           /\ \/ /\ c \notin broken /\ ~Closed(c, d)
                 /\ k <= Room - Len(flow[c][d])
                 /\ flow' = [flow EXCEPT ![c][d] = @ \o SubSeq(left[c][e], 1, k)]
                 /\ UNCHANGED broken
              \/ /\ c \notin broken /\ Closed(c, d)
                 /\ broken' = IF c \in cut THEN broken ELSE broken \cup {c}
                 /\ UNCHANGED flow
      /\ UNCHANGED <<out, got, took, cut, faults>>

\* send fails: the connection is reset, or the kernel has retried long enough.
\* A client is also killed by SIGPIPE here, which is the same for the connection.
writenFails(c, e) ==
  /\ pc[c][e] = "write"
  /\ c \in broken \cup cut
  /\ Close(c, e)
  /\ UNCHANGED faults
-----------------------------------------------------------------------------
(* Receiving.                                                              *)

\* recvMsg of the client: readWithTimeout sees the first byte, or an end.
Await(c) ==
  /\ pc[c]["client"] = "sent"
  /\ Readable(c, "client")
  /\ Goto(c, "client", "read")
  /\ UNCHANGED <<out, left, flow, got, took, broken, cut, faults>>

\* Ten seconds without a byte.
Timeout(c) ==
  /\ pc[c]["client"] = "sent"
  /\ ~Readable(c, "client")
  /\ Close(c, "client")
  /\ UNCHANGED faults

\* A thread of the server gets the connection when epoll reports it, so that its
\* readWithTimeout returns at once.
Begin(c) ==
  /\ pc[c]["server"] = "open"
  /\ Readable(c, "server")
  /\ Goto(c, "server", "read")
  /\ UNCHANGED <<out, left, flow, got, took, broken, cut, faults>>

\* readn: one recv, of the length first and then of what the length says.  No
\* timeout applies to it.
readn(c, e) ==
  /\ pc[c][e] = "read"
  /\ flow[c][e] # <<>> /\ c \notin cut
  /\ \E k \in 1 .. Len(flow[c][e]) :
       LET g == got[c][e] \o SubSeq(flow[c][e], 1, k)
       IN  /\ k <= Chunk /\ k <= Missing(got[c][e])
           /\ flow' = [flow EXCEPT ![c][e] = SubSeq(@, k + 1, Len(@))]
           /\ got' = [got EXCEPT ![c][e] = g]
           /\ IF Complete(g)
              THEN /\ took' = [took EXCEPT ![c][e] = Body(g)]
                   /\ Goto(c, e, "have")
              ELSE UNCHANGED <<pc, took>>
  /\ UNCHANGED <<out, left, broken, cut, faults>>

\* Mutant: what there is at the end of file is taken for the message.
readnFailsShort(c, e) ==
  /\ pc[c][e] = "read"
  /\ \/ /\ AtEof(c, e) /\ Len(got[c][e]) > HeadLen
        /\ took' = [took EXCEPT ![c][e] = Body(got[c][e])]
        /\ Goto(c, e, "have")
        /\ UNCHANGED <<out, left, flow, got, broken, cut, faults>>
     \/ /\ c \in broken \/ (AtEof(c, e) /\ Len(got[c][e]) <= HeadLen)
        /\ Close(c, e)
        /\ UNCHANGED faults

\* Mutant: recv returning 0 is not taken for the end.
readnFailsReset(c, e) ==
  /\ pc[c][e] = "read"
  /\ c \in broken
  /\ Close(c, e)
  /\ UNCHANGED faults

\* The end of file, or an error after a reset: what was read is thrown away.
readnFails(c, e) ==
  /\ pc[c][e] = "read"
  /\ c \in broken \/ AtEof(c, e)
  /\ Close(c, e)
  /\ UNCHANGED faults

\* The exchange is over for this end: disconnect.
Disconnect(c, e) ==
  /\ pc[c][e] = IF e = "client" THEN "have" ELSE "sent"
  /\ Close(c, e)
  /\ UNCHANGED faults
-----------------------------------------------------------------------------
(* Failures.                                                               *)

\* The client is stopped, or its user stops it.
ClientDies(c) ==
  /\ pc[c]["client"] \notin {"idle", "closed"}
  /\ Close(c, "client")
  /\ Fault

\* The kernel closes every connection the server has.
ServerGone ==
  /\ pc' = [c \in Conns |->
              [pc[c] EXCEPT !["server"] = IF @ = "idle" THEN @ ELSE "closed"]]
  /\ got' = [c \in Conns |-> [got[c] EXCEPT !["server"] = <<>>]]
  /\ flow' = [c \in Conns |-> [flow[c] EXCEPT !["server"] = <<>>]]
  /\ broken' = {c \in Conns : ~Closed(c, "client")
                              /\ (c \in broken \/ flow[c]["server"] # <<>>)}
  /\ UNCHANGED <<out, left, took, cut>>

ServerDies == ServerGone /\ Fault

\* Nothing ignores SIGPIPE: a send on a connection that was reset kills the server,
\* with whatever its other threads are doing.
BrokenPipe(c) ==
  /\ pc[c]["server"] = "write"
  /\ c \in broken
  /\ ServerGone
  /\ UNCHANGED faults

\* What the thread does with what it read kills the server.
HandlerCrashes(c) ==
  /\ pc[c]["server"] = "have"
  /\ ServerGone
  /\ UNCHANGED faults

\* Nothing arrives at either end any more, and neither is told.
GoSilent(c) ==
  /\ c \notin cut
  /\ pc[c]["client"] \notin {"idle", "connect"}
  /\ cut' = cut \cup {c}
  /\ Fault
  /\ UNCHANGED <<pc, out, left, flow, got, took, broken>>
-----------------------------------------------------------------------------
(* The exchange with payloads of any content.                              *)

\* What one end does by itself once it has something to send.
Transfer(c, e) == writen(c, e) \/ writenFails(c, e) \/ readn(c, e) \/ readnFails(c, e)

Failure ==
  \/ ServerDies
  \/ \E c \in Conns : ClientDies(c) \/ BrokenPipe(c) \/ HandlerCrashes(c) \/ GoSilent(c)

FramingNext ==
  \/ \E c \in Conns :
       \/ \E p \in Payload : Ask(c, p) \/ (Reply(c, p) /\ (UNCHANGED faults \/ Fault))
       \/ Connected(c) \/ ConnectFails(c) \/ Await(c) \/ Timeout(c) \/ Begin(c)
       \/ \E e \in End : Transfer(c, e) \/ Disconnect(c, e)
  \/ Failure

FramingSpec == FramingInit /\ [][FramingNext]_framingVars
-----------------------------------------------------------------------------
(* Properties.                                                             *)

\* TcpSocket.cpp, sendMsg and recvMsg: what recvMsg returns is the payload its peer
\* was given to send, whole and unchanged, however send and recv cut it up and
\* whatever breaks; otherwise it returns nothing.
FrameIntact ==
  \A c \in Conns, e \in End : took[c][e] \in {NoPayload, out[c][Peer(e)]}

\* The exchange the users of TcpSocket see.
Abstract == INSTANCE RequestReply WITH
  asked    <- [c \in Conns |-> out[c]["client"]],
  seen     <- [c \in Conns |-> took[c]["server"]],
  answered <- [c \in Conns |-> out[c]["server"]],
  told     <- [c \in Conns |-> took[c]["client"]]

\* ServerOP.cpp, handleClientFd: one request and one response to a connection; the
\* server sees a request once and as it was asked, and the client is told the
\* response to its own.
ImplementsRequestReply == Abstract!Spec
=============================================================================
