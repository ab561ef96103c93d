----------------------------- MODULE FdDispatch -----------------------------
(***************************************************************************)
(* How connections reach the request handlers: the epoll loop of           *)
(* ServerOP::startServer accepts them and hands each readable descriptor   *)
(* to the thread pool; a worker runs handleClientFd on it (one request,    *)
(* one response, close) and then takes the descriptor out of               *)
(* m_processingFds.                                                        *)
(*                                                                         *)
(* A descriptor is a number: once closed, the kernel gives the lowest free *)
(* one to the next connection.  Clients are registered edge-triggered: an  *)
(* event comes when something arrives, not while something is unread.      *)
(* What epoll_wait has returned stays in the loop's array whatever becomes *)
(* of the descriptors meanwhile.                                           *)
(***************************************************************************)
EXTENDS Naturals, Sequences, FiniteSets

CONSTANTS
  Conns,      \* the connections clients make
  NoConn,     \* no connection
  MaxFd,      \* bound: descriptors for clients
  Workers,    \* threads of the pool
  MaxErr      \* bound: failures of a connection

ASSUME NoConnAssumption == NoConn \notin Conns
ASSUME FdAssumption     == MaxFd \in Nat /\ MaxErr \in Nat

Fds == 1 .. MaxFd

NoFd == 0

\* A request comes in this many pieces.
Pieces == 2

\* An event as epoll_wait returns it, with or without EPOLLIN; the listening
\* socket has events of its own.
Event  == [fd : Fds, in : BOOLEAN]
Listen == [fd |-> NoFd, in |-> TRUE]

VARIABLES
  backlog,      \* connections to be accepted
  came,         \* connections made so far
  arrived,      \* pieces of its request a client has sent
  taken,        \* pieces the server has read
  eof,          \* clients that have hung up
  file,         \* the descriptor table
  watched,      \* descriptors in the epoll set
  edge,         \* descriptors with an event to report, ...
  bad,          \* ... and those with an error to report
  loop,         \* the epoll loop's program point
  batch,        \* the events it has still to handle
  processing,   \* m_processingFds
  queue,        \* tasks in the pool
  pc, fd, conn, \* the workers: program point, descriptor, connection read from
  answers,      \* history: <<c, r>> the response to r's request was sent to c
  errs

netVars  == <<backlog, came, arrived, eof, errs>>
loopVars == <<loop, batch>>
taskVars == <<pc, fd, conn, answers>>
vars == <<netVars, taken, file, watched, edge, bad, loopVars, processing, queue, taskVars>>

\* recvMsg waits for the first byte ("wait", with a timeout) and then reads the
\* whole frame ("read", without one).
Point == {"idle", "wait", "read", "send", "del", "close", "unmark"}

Init ==
  /\ backlog = {} /\ came = {} /\ eof = {} /\ errs = 0
  /\ arrived = [c \in Conns |-> 0]
  /\ taken = [c \in Conns |-> 0]
  /\ file = [f \in Fds |-> NoConn]
  /\ watched = {} /\ edge = {} /\ bad = {}
  /\ loop = "wait" /\ batch = {}
  /\ processing = {} /\ queue = <<>>
  /\ pc = [w \in Workers |-> "idle"]
  /\ fd = [w \in Workers |-> NoFd]
  /\ conn = [w \in Workers |-> NoConn]
  /\ answers = {}

TypeOK ==
  /\ backlog \subseteq Conns /\ came \subseteq Conns /\ eof \subseteq Conns
  /\ errs \in 0 .. MaxErr
  /\ arrived \in [Conns -> 0 .. Pieces]
  /\ taken \in [Conns -> 0 .. Pieces]
  /\ file \in [Fds -> Conns \cup {NoConn}]
  /\ watched \subseteq Fds /\ edge \subseteq watched /\ bad \subseteq watched
  /\ loop \in {"wait", "batch", "accept"}
  /\ batch \subseteq Event \cup {Listen}
  /\ processing \subseteq Fds
  /\ queue \in Seq(Fds)
  /\ pc \in [Workers -> Point]
  /\ fd \in [Workers -> Fds \cup {NoFd}]
  /\ conn \in [Workers -> Conns \cup {NoConn}]
  /\ answers \subseteq Conns \X Conns

Open(c) == \E f \in Fds : file[f] = c

\* The descriptors in the epoll set through which c would be reported.
Watching(c) == {f \in watched : file[f] = c}

\* Something can be read from c without waiting.
Readable(c) == c \in eof \/ taken[c] < arrived[c]
-----------------------------------------------------------------------------
(* Clients and the network.                                                *)

Connect(c) ==
  /\ c \notin came
  /\ came' = came \cup {c}
  /\ backlog' = backlog \cup {c}
  /\ UNCHANGED <<arrived, eof, errs, taken, file, watched, edge, bad, loopVars, processing,
                 queue, taskVars>>

\* A piece of the request arrives.
Arrive(c) ==
  /\ c \in came \ eof
  /\ c \in backlog \/ Open(c)
  /\ arrived[c] < Pieces
  /\ arrived' = [arrived EXCEPT ![c] = @ + 1]
  /\ edge' = edge \cup Watching(c)
  /\ UNCHANGED <<backlog, came, eof, errs, taken, file, watched, bad, loopVars, processing,
                 queue, taskVars>>

\* The client closes its end, with its answer or tired of waiting.
HangUp(c) ==
  /\ c \in came \ eof
  /\ eof' = eof \cup {c}
  /\ edge' = edge \cup Watching(c)
  /\ UNCHANGED <<backlog, came, arrived, errs, taken, file, watched, bad, loopVars, processing,
                 queue, taskVars>>

\* An error is reported for the descriptor, and nothing to read.
Fault(f) ==
  /\ f \in watched
  /\ errs < MaxErr
  /\ errs' = errs + 1
  /\ bad' = bad \cup {f}
  /\ UNCHANGED <<backlog, came, arrived, eof, taken, file, watched, edge, loopVars, processing,
                 queue, taskVars>>

Network ==
  \/ \E c \in Conns : Connect(c) \/ Arrive(c) \/ HangUp(c)
  \/ \E f \in Fds : Fault(f)
-----------------------------------------------------------------------------
(* startServer: the epoll loop.                                            *)

\* close(f): the number is free, and the epoll set forgets it.
CloseFd(f) ==
  /\ file' = [file EXCEPT ![f] = NoConn]
  /\ watched' = watched \ {f}
  /\ edge' = edge \ {f}
  /\ bad' = bad \ {f}

\* epoll_wait returns every event there is; an edge with nothing left to read
\* is not reported.
EpollWait ==
  LET readable == {f \in edge : Readable(file[f])}
      events   == {[fd |-> f, in |-> TRUE] : f \in readable}
                  \cup {[fd |-> f, in |-> FALSE] : f \in bad \ readable}
                  \cup (IF backlog = {} THEN {} ELSE {Listen})
  IN  /\ loop = "wait"
      /\ events # {}
      /\ batch' = events
      /\ edge' = {} /\ bad' = {}
      /\ loop' = "batch"
      /\ UNCHANGED <<netVars, taken, file, watched, processing, queue, taskVars>>

\* The listening socket is ready: accept until there is no connection left.
BeginAccept ==
  /\ loop = "batch"
  /\ Listen \in batch
  /\ batch' = batch \ {Listen}
  /\ loop' = "accept"
  /\ UNCHANGED <<netVars, taken, file, watched, edge, bad, processing, queue, taskVars>>

FreeFds == {f \in Fds : file[f] = NoConn}

\* addFd: f is watched from now on; what has arrived before is reported.
addFd(f, c) ==
  /\ watched' = watched \cup {f}
  /\ edge' = IF Readable(c) THEN edge \cup {f} ELSE edge

\* A connection gets the lowest free descriptor.
Accept(c) ==
  /\ loop = "accept"
  /\ c \in backlog
  /\ backlog' = backlog \ {c}
  /\ \E f \in FreeFds :
       /\ \A g \in FreeFds : f <= g
       /\ file' = [file EXCEPT ![f] = c]
       /\ addFd(f, c)
  /\ UNCHANGED <<came, arrived, eof, errs, taken, bad, loopVars, processing, queue, taskVars>>

\* addFd fails, and the new connection is closed at once.
Refuse(c) ==
  /\ loop = "accept"
  /\ c \in backlog
  /\ FreeFds # {}
  /\ errs < MaxErr
  /\ errs' = errs + 1
  /\ backlog' = backlog \ {c}
  /\ UNCHANGED <<came, arrived, eof, taken, file, watched, edge, bad, loopVars, processing,
                 queue, taskVars>>

\* accept fails: no connection, or no descriptor.
EndAccept ==
  /\ loop = "accept"
  /\ backlog = {} \/ FreeFds = {}
  /\ loop' = "batch"
  /\ UNCHANGED <<netVars, taken, file, watched, edge, bad, batch, processing, queue, taskVars>>

\* Mutant: every event makes a task.
DispatchAgain(e) ==
  /\ loop = "batch"
  /\ e \in batch /\ e # Listen /\ e.in
  /\ batch' = batch \ {e}
  /\ processing' = processing \cup {e.fd}
  /\ queue' = Append(queue, e.fd)
  /\ UNCHANGED <<netVars, taken, file, watched, edge, bad, loop, taskVars>>

\* Mutant: the listening socket is taken for a client's.
DispatchListening(e) ==
  /\ loop = "batch"
  /\ e \in batch /\ e.in
  /\ batch' = batch \ {e}
  /\ processing' = processing \cup {e.fd}
  /\ queue' = Append(queue, e.fd)
  /\ UNCHANGED <<netVars, taken, file, watched, edge, bad, loop, taskVars>>

\* EPOLLIN: a task for the descriptor, unless there is one already
\* (markFdProcessing); then the event is dropped.
Dispatch(e) ==
  /\ loop = "batch"
  /\ e \in batch /\ e # Listen /\ e.in
  /\ batch' = batch \ {e}
  /\ IF e.fd \in processing
     THEN UNCHANGED <<processing, queue>>
     ELSE /\ processing' = processing \cup {e.fd}
          /\ queue' = Append(queue, e.fd)
  /\ UNCHANGED <<netVars, taken, file, watched, edge, bad, loop, taskVars>>

\* Any other event: the descriptor is closed here.
Drop(e) ==
  /\ loop = "batch"
  /\ e \in batch /\ ~e.in
  /\ batch' = batch \ {e}
  /\ CloseFd(e.fd)
  /\ UNCHANGED <<netVars, taken, loop, processing, queue, taskVars>>

EndBatch ==
  /\ loop = "batch"
  /\ batch = {}
  /\ loop' = "wait"
  /\ UNCHANGED <<netVars, taken, file, watched, edge, bad, batch, processing, queue, taskVars>>

EpollLoop ==
  \/ EpollWait \/ BeginAccept \/ EndAccept \/ EndBatch
  \/ \E c \in Conns : Accept(c) \/ Refuse(c)
  \/ \E e \in batch : Dispatch(e) \/ Drop(e)
-----------------------------------------------------------------------------
(* The tasks: handleClientFd, then unmarkFdProcessing.                     *)

Goto(w, p) == pc' = [pc EXCEPT ![w] = p]

Begin(w) ==
  /\ pc[w] = "idle"
  /\ queue # <<>>
  /\ fd' = [fd EXCEPT ![w] = Head(queue)]
  /\ queue' = Tail(queue)
  /\ Goto(w, "wait")
  /\ UNCHANGED <<netVars, taken, file, watched, edge, bad, loopVars, processing, conn, answers>>

\* readWithTimeout: bytes are there, or ten seconds are over without any, or it
\* is no socket any more.
Wait(w) ==
  LET c == file[fd[w]]
  IN  /\ pc[w] = "wait"
      /\ \/ /\ c # NoConn /\ Readable(c)
            /\ conn' = [conn EXCEPT ![w] = c]
            /\ Goto(w, "read")
         \/ /\ c # NoConn => ~Readable(c)
            /\ Goto(w, "del")
            /\ UNCHANGED conn
      /\ UNCHANGED <<netVars, taken, file, watched, edge, bad, loopVars, processing, queue, fd,
                     answers>>

\* readn: the thread is in recv on conn[w], which the kernel keeps for it even if
\* the descriptor is closed; the sockets block, so it waits for what has not
\* come.  What has arrived is read; then the frame is complete, or the peer has
\* closed, or the next recv is called on whatever the descriptor is by then.
Read(w) ==
  LET c    == conn[w]
      next == file[fd[w]]
  IN  /\ pc[w] = "read"
      /\ Readable(c)
      /\ taken' = [taken EXCEPT ![c] = arrived[c]]
      /\ \/ /\ taken[c] < Pieces /\ arrived[c] = Pieces
            /\ Goto(w, "send")
            /\ UNCHANGED conn
         \/ /\ c \in eof /\ (taken[c] = Pieces \/ arrived[c] < Pieces)
            /\ Goto(w, "del")
            /\ UNCHANGED conn
         \/ /\ c \notin eof /\ arrived[c] < Pieces
            /\ IF next = NoConn
               THEN Goto(w, "del") /\ UNCHANGED conn
               ELSE UNCHANGED pc /\ conn' = [conn EXCEPT ![w] = next]
      /\ UNCHANGED <<netVars, file, watched, edge, bad, loopVars, processing, queue, fd,
                     answers>>

\* The request is handled and the response sent on the descriptor, unless there
\* is none to send or it does not get through.
Send(w) ==
  /\ pc[w] = "send"
  /\ \/ file[fd[w]] # NoConn /\ answers' = answers \cup {<<file[fd[w]], conn[w]>>}
     \/ UNCHANGED answers
  /\ Goto(w, "del")
  /\ UNCHANGED <<netVars, taken, file, watched, edge, bad, loopVars, processing, queue, fd, conn>>

\* delFd
Del(w) ==
  /\ pc[w] = "del"
  /\ watched' = watched \ {fd[w]}
  /\ edge' = edge \ {fd[w]}
  /\ bad' = bad \ {fd[w]}
  /\ Goto(w, "close")
  /\ UNCHANGED <<netVars, taken, file, loopVars, processing, queue, fd, conn, answers>>

\* disconnect
Close(w) ==
  /\ pc[w] = "close"
  /\ CloseFd(fd[w])
  /\ Goto(w, "unmark")
  /\ UNCHANGED <<netVars, taken, loopVars, processing, queue, fd, conn, answers>>

Finish(w) ==
  /\ pc' = [pc EXCEPT ![w] = "idle"]
  /\ fd' = [fd EXCEPT ![w] = NoFd]
  /\ conn' = [conn EXCEPT ![w] = NoConn]

\* Mutant: only a request that was read in full is unmarked.
UnmarkServed(w) ==
  /\ pc[w] = "unmark"
  /\ processing' = IF conn[w] # NoConn /\ taken[conn[w]] = Pieces
                   THEN processing \ {fd[w]} ELSE processing
  /\ Finish(w)
  /\ UNCHANGED <<netVars, taken, file, watched, edge, bad, loopVars, queue, answers>>

\* The mark goes, and the thread is back in the pool.
Unmark(w) ==
  /\ pc[w] = "unmark"
  /\ processing' = processing \ {fd[w]}
  /\ Finish(w)
  /\ UNCHANGED <<netVars, taken, file, watched, edge, bad, loopVars, queue, answers>>

HandleFd(w) ==
  \/ Begin(w) \/ Wait(w) \/ Read(w) \/ Send(w) \/ Del(w) \/ Close(w) \/ Unmark(w)

\* Every client has come and nothing is left to do, or they keep it waiting.
Rest ==
  /\ came = Conns
  /\ loop = "wait" /\ backlog = {} /\ edge = {} /\ bad = {} /\ queue = <<>>
  /\ \A w \in Workers : pc[w] = "idle" \/ (pc[w] = "read" /\ ~Readable(conn[w]))
  /\ UNCHANGED vars

Next ==
  \/ Network
  \/ EpollLoop
  \/ \E w \in Workers : HandleFd(w)
  \/ Rest

\* The loop and the threads run on; clients need not.
Fairness == WF_vars(EpollLoop) /\ \A w \in Workers : WF_vars(HandleFd(w))

Spec == Init /\ [][Next]_vars /\ Fairness
-----------------------------------------------------------------------------
(* Properties.                                                             *)

\* ServerOP.h, markFdProcessing: a descriptor is marked exactly as long as there
\* is a task for it, and there is never a second one.
OneTaskPerFd ==
  \A f \in Fds :
    Cardinality({i \in 1 .. Len(queue) : queue[i] = f})
    + Cardinality({w \in Workers : fd[w] = f}) = IF f \in processing THEN 1 ELSE 0

\* While no error is reported on its own, a response goes to the connection its
\* request came from, however descriptors are reused.
ResponseToAsker == errs = 0 => \A a \in answers : a[1] = a[2]

\* A thread that sits in the middle of a half-sent request, which no timeout ends.
Stalled(w) == pc[w] = "read" /\ ~Readable(conn[w])

\* A marked descriptor is unmarked again on every path of its task, unless the
\* threads wait for clients that have stopped in the middle of a request.
MarkIsTemporary ==
  \A f \in Fds : f \in processing ~> f \notin processing \/ \E w \in Workers : Stalled(w)

\* ServerOP.cpp, handleClientFd: a connection brings one request and is then
\* closed; it is never left open and unread, unless its client hangs up or the
\* threads wait for others.
EveryConnectionRead ==
  \A c \in Conns :
    arrived[c] = Pieces /\ Open(c)
      ~> taken[c] = Pieces \/ ~Open(c) \/ c \in eof \/ \E w \in Workers : Stalled(w)
=============================================================================
