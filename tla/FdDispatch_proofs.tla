-------------------------- MODULE FdDispatch_proofs --------------------------
(***************************************************************************)
(* Safety of the dispatch of connections, for any number of connections,   *)
(* descriptors, threads and errors: a descriptor has one task at most, and *)
(* a response goes to the connection that asked.                           *)
(***************************************************************************)
EXTENDS FdDispatch, FiniteSetTheorems, TLAPS

\* Who has a task for which descriptor.  Queue and threads share none, and
\* m_processingFds holds exactly the descriptors of both.
TasksApart ==
  /\ \A i, j \in 1 .. Len(queue) : queue[i] = queue[j] => i = j
  /\ \A v, w \in Workers : fd[v] = fd[w] /\ fd[v] # NoFd => v = w
  /\ \A i \in 1 .. Len(queue), w \in Workers : queue[i] # fd[w]

Marked ==
  /\ \A i \in 1 .. Len(queue) : queue[i] \in processing
  /\ \A w \in Workers : fd[w] # NoFd => fd[w] \in processing
  /\ \A f \in processing :
       \/ \E i \in 1 .. Len(queue) : queue[i] = f
       \/ \E w \in Workers : fd[w] = f

IdleHasNoFd == \A w \in Workers : pc[w] = "idle" <=> fd[w] = NoFd

Asking == \A w \in Workers : pc[w] \in {"read", "send"} => conn[w] # NoConn

IInv == TypeOK /\ TasksApart /\ Marked /\ IdleHasNoFd /\ Asking

taskOwners == <<queue, processing, pc, fd, conn>>

LEMMA NoFdIsNone == NoFd \notin Fds
  BY DEF Fds, NoFd

LEMMA InitIInv == Init => IInv
<1> SUFFICES ASSUME Init PROVE IInv
  OBVIOUS
<1>1. queue = <<>> /\ queue \in Seq(Fds) /\ Len(queue) = 0
  BY DEF Init
<1>2. TypeOK
  BY <1>1, FdAssumption, NoConnAssumption DEF Init, TypeOK, Pieces, Point
<1> QED  BY <1>1, <1>2 DEF Init, IInv, TasksApart, Marked, IdleHasNoFd, Asking, NoFd

\* A step that leaves queue, marks and threads alone.
LEMMA Unmoved ==
  ASSUME IInv, TypeOK', UNCHANGED taskOwners
  PROVE  IInv'
  BY DEF IInv, TasksApart, Marked, IdleHasNoFd, Asking, taskOwners

LEMMA NetworkIInv == ASSUME IInv, Network PROVE IInv'
<1>1. UNCHANGED taskOwners
  BY DEF Network, Connect, Arrive, HangUp, Fault, taskOwners, taskVars
<1>2. TypeOK'
  <2>1. ASSUME NEW c \in Conns, Connect(c) PROVE TypeOK'
    BY <2>1 DEF Connect, IInv, TypeOK, loopVars, taskVars
  <2>2. ASSUME NEW c \in Conns, Arrive(c) PROVE TypeOK'
    <3>1. arrived[c] + 1 \in 0 .. Pieces
      BY <2>2 DEF Arrive, IInv, TypeOK, Pieces
    <3> QED  BY <2>2, <3>1 DEF Arrive, IInv, TypeOK, Watching, loopVars, taskVars
  <2>3. ASSUME NEW c \in Conns, HangUp(c) PROVE TypeOK'
    BY <2>3 DEF HangUp, IInv, TypeOK, Watching, loopVars, taskVars
  <2>4. ASSUME NEW f \in Fds, Fault(f) PROVE TypeOK'
    BY <2>4, FdAssumption DEF Fault, IInv, TypeOK, loopVars, taskVars
  <2> QED  BY <2>1, <2>2, <2>3, <2>4 DEF Network
<1> QED  BY <1>1, <1>2, Unmoved

LEMMA AcceptType == ASSUME IInv, NEW c \in Conns, Accept(c) PROVE TypeOK'
<1>1. PICK f \in Fds : file' = [file EXCEPT ![f] = c] /\ addFd(f, c)
  BY DEF Accept, FreeFds
<1>2. watched' \subseteq Fds /\ edge' \subseteq watched' /\ bad' \subseteq watched'
  BY <1>1 DEF Accept, addFd, IInv, TypeOK
<1>3. file' \in [Fds -> Conns \cup {NoConn}]
  BY <1>1 DEF IInv, TypeOK
<1>4. /\ UNCHANGED <<came, arrived, eof, errs, taken, loop, batch, processing, queue, pc, fd, conn, answers>>
      /\ backlog' \subseteq backlog
  BY DEF Accept, loopVars, taskVars
<1> QED  BY <1>2, <1>3, <1>4 DEF IInv, TypeOK

\* The descriptors of an event: everything but the listening socket's is a client's.
LEMMA EventFd ==
  ASSUME TypeOK, NEW e \in batch, e # Listen
  PROVE  e.fd \in Fds /\ e.in \in BOOLEAN
  BY DEF TypeOK, Event

LEMMA DispatchIInv == ASSUME IInv, NEW e \in batch, Dispatch(e) PROVE IInv'
<1>1. e.fd \in Fds /\ e.fd # NoFd
  BY EventFd DEF Dispatch, IInv, Fds, NoFd
<1>2. /\ batch' \subseteq batch
      /\ UNCHANGED <<backlog, came, arrived, eof, errs, taken, file, watched, edge, bad, loop, pc, fd, conn, answers>>
  BY DEF Dispatch, netVars, taskVars
<1>3. CASE e.fd \in processing
  <2>1. UNCHANGED taskOwners
    BY <1>2, <1>3 DEF Dispatch, taskOwners
  <2>2. TypeOK'
    BY <1>2, <2>1 DEF taskOwners, IInv, TypeOK
  <2> QED  BY <2>1, <2>2, Unmoved
<1>4. CASE e.fd \notin processing
  <2>1. queue \in Seq(Fds) /\ queue' = Append(queue, e.fd) /\ processing' = processing \cup {e.fd}
    BY <1>4 DEF Dispatch, IInv, TypeOK
  <2>2. /\ Len(queue') = Len(queue) + 1 /\ Len(queue) \in Nat /\ queue' \in Seq(Fds)
        /\ \A i \in 1 .. Len(queue) : queue'[i] = queue[i]
        /\ queue'[Len(queue) + 1] = e.fd
    BY <1>1, <2>1
  <2>3. /\ \A i \in 1 .. Len(queue) : queue[i] # e.fd
        /\ \A w \in Workers : fd[w] # e.fd
    BY <1>1, <1>4 DEF IInv, Marked
  <2>4. \A i \in 1 .. Len(queue') : i \in 1 .. Len(queue) \/ i = Len(queue) + 1
    BY <2>2
  <2>5. TypeOK'
    BY <1>1, <1>2, <2>1, <2>2 DEF IInv, TypeOK
  <2>6. TasksApart'
    <3>1. ASSUME NEW i \in 1 .. Len(queue'), NEW j \in 1 .. Len(queue'), queue'[i] = queue'[j]
          PROVE  i = j
      BY <2>2, <2>3, <2>4, <3>1 DEF IInv, TasksApart
    <3>2. ASSUME NEW i \in 1 .. Len(queue'), NEW w \in Workers
          PROVE  queue'[i] # fd[w]
      BY <2>2, <2>3, <2>4 DEF IInv, TasksApart
    <3> QED  BY <1>2, <3>1, <3>2 DEF IInv, TasksApart
  <2>7. Marked'
    <3>1. \A i \in 1 .. Len(queue') : queue'[i] \in processing'
      BY <2>1, <2>2, <2>4 DEF IInv, Marked
    <3>2. \A w \in Workers : fd'[w] # NoFd => fd'[w] \in processing'
      BY <1>2, <2>1 DEF IInv, Marked
    <3>3. ASSUME NEW f \in processing'
          PROVE  \/ \E i \in 1 .. Len(queue') : queue'[i] = f
                 \/ \E w \in Workers : fd'[w] = f
      <4>1. CASE f = e.fd
        <5>1. Len(queue) + 1 \in 1 .. Len(queue')
          BY <2>2
        <5> QED  BY <4>1, <5>1, <2>2
      <4>2. CASE f \in processing
        <5>1. CASE \E i \in 1 .. Len(queue) : queue[i] = f
          <6>1. \A i \in 1 .. Len(queue) : i \in 1 .. Len(queue')
            BY <2>2
          <6> QED  BY <5>1, <6>1, <2>2
        <5>2. CASE \E w \in Workers : fd[w] = f
          BY <1>2, <5>2
        <5> QED  BY <4>2, <5>1, <5>2 DEF IInv, Marked
      <4> QED  BY <2>1, <4>1, <4>2
    <3> QED  BY <3>1, <3>2, <3>3 DEF Marked
  <2> QED  BY <1>2, <2>5, <2>6, <2>7 DEF IInv, IdleHasNoFd, Asking
<1> QED  BY <1>3, <1>4

LEMMA LoopIInv == ASSUME IInv, EpollLoop PROVE IInv'
<1>1. CASE EpollWait
  <2>1. UNCHANGED taskOwners
    BY <1>1 DEF EpollWait, taskOwners, taskVars
  <2>2. batch' \subseteq Event \cup {Listen}
    <3>1. edge \subseteq Fds /\ bad \subseteq Fds
      BY DEF IInv, TypeOK
    <3>2. \A f \in Fds : [fd |-> f, in |-> TRUE] \in Event /\ [fd |-> f, in |-> FALSE] \in Event
      BY DEF Event
    <3> QED  BY <1>1, <3>1, <3>2 DEF EpollWait
  <2> QED  BY <1>1, <2>1, <2>2, Unmoved DEF EpollWait, IInv, TypeOK, netVars, taskVars
<1>2. CASE BeginAccept \/ EndAccept \/ EndBatch
  <2>1. UNCHANGED taskOwners
    BY <1>2 DEF BeginAccept, EndAccept, EndBatch, taskOwners, taskVars
  <2>2. TypeOK'
    BY <1>2 DEF BeginAccept, EndAccept, EndBatch, IInv, TypeOK, netVars, taskVars
  <2> QED  BY <2>1, <2>2, Unmoved
<1>3. ASSUME NEW c \in Conns, Accept(c) PROVE IInv'
  <2>1. UNCHANGED taskOwners
    BY <1>3 DEF Accept, taskOwners, taskVars
  <2> QED  BY <1>3, <2>1, AcceptType, Unmoved
<1>4. ASSUME NEW c \in Conns, Refuse(c) PROVE IInv'
  <2>1. UNCHANGED taskOwners
    BY <1>4 DEF Refuse, taskOwners, taskVars
  <2>2. errs' \in 0 .. MaxErr
    BY <1>4, FdAssumption DEF Refuse, IInv, TypeOK
  <2>3. TypeOK'
    BY <1>4, <2>2 DEF Refuse, IInv, TypeOK, loopVars, taskVars
  <2> QED  BY <2>1, <2>3, Unmoved
<1>5. ASSUME NEW e \in batch, Dispatch(e) PROVE IInv'
  BY <1>5, DispatchIInv
<1>6. ASSUME NEW e \in batch, Drop(e) PROVE IInv'
  <2>1. UNCHANGED taskOwners
    BY <1>6 DEF Drop, taskOwners, taskVars
  <2>2. TypeOK'
    BY <1>6 DEF Drop, CloseFd, IInv, TypeOK, netVars, taskVars
  <2> QED  BY <2>1, <2>2, Unmoved
<1> QED  BY <1>1, <1>2, <1>3, <1>4, <1>5, <1>6 DEF EpollLoop

\* A worker with a task has a descriptor.
LEMMA TaskFd ==
  ASSUME IInv, NEW w \in Workers, pc[w] # "idle"
  PROVE  fd[w] \in Fds /\ fd[w] # NoFd /\ fd[w] \in processing
  BY DEF IInv, TypeOK, IdleHasNoFd, Marked

\* A step of a worker inside its task.
LEMMA Inside ==
  ASSUME IInv, TypeOK', NEW w \in Workers, NEW p \in Point \ {"idle"}, pc[w] # "idle",
         pc' = [pc EXCEPT ![w] = p], UNCHANGED <<queue, processing, fd>>,
         \A v \in Workers \ {w} : conn'[v] = conn[v],
         p \in {"read", "send"} => conn'[w] # NoConn
  PROVE  IInv'
<1>1. IdleHasNoFd'
  BY DEF IInv, TypeOK, IdleHasNoFd
<1>2. Asking'
  BY DEF IInv, TypeOK, Asking
<1> QED  BY <1>1, <1>2 DEF IInv, TasksApart, Marked

LEMMA BeginIInv == ASSUME IInv, NEW w \in Workers, Begin(w) PROVE IInv'
<1>1. /\ queue \in Seq(Fds) /\ queue # <<>> /\ queue' = Tail(queue)
      /\ pc[w] = "idle" /\ fd[w] = NoFd
      /\ fd' = [fd EXCEPT ![w] = queue[1]]
      /\ pc' = [pc EXCEPT ![w] = "wait"]
      /\ fd \in [Workers -> Fds \cup {NoFd}]
      /\ processing' = processing
  BY DEF Begin, Goto, IInv, TypeOK, IdleHasNoFd
<1>2. /\ Len(queue) \in Nat \ {0} /\ queue' \in Seq(Fds) /\ Len(queue') = Len(queue) - 1
      /\ \A i \in 1 .. Len(queue') : queue'[i] = queue[i + 1]
      /\ queue[1] \in Fds
  BY <1>1
<1>3. \A i \in 1 .. Len(queue') : i + 1 \in 1 .. Len(queue) /\ i + 1 # 1
  BY <1>2
<1>4. 1 \in 1 .. Len(queue) /\ queue[1] # NoFd
  BY <1>2 DEF Fds, NoFd
<1>5. TypeOK'
  BY <1>1, <1>2 DEF Begin, IInv, TypeOK, Point, netVars, loopVars
<1>6. TasksApart'
  <2>1. ASSUME NEW i \in 1 .. Len(queue'), NEW j \in 1 .. Len(queue'), queue'[i] = queue'[j]
        PROVE  i = j
    <3>1. i + 1 = j + 1
      BY <1>2, <1>3, <2>1 DEF IInv, TasksApart
    <3> QED  BY <3>1
  <2>2. ASSUME NEW u \in Workers, NEW v \in Workers, fd'[u] = fd'[v], fd'[u] # NoFd
        PROVE  u = v
    BY <1>1, <1>4, <2>2 DEF IInv, TasksApart
  <2>3. ASSUME NEW i \in 1 .. Len(queue'), NEW v \in Workers
        PROVE  queue'[i] # fd'[v]
    <3>1. CASE v = w
      BY <1>1, <1>2, <1>3, <1>4, <3>1 DEF IInv, TasksApart
    <3>2. CASE v # w
      BY <1>1, <1>2, <1>3, <3>2 DEF IInv, TasksApart
    <3> QED  BY <3>1, <3>2
  <2> QED  BY <2>1, <2>2, <2>3 DEF TasksApart
<1>7. Marked'
  <2>1. \A i \in 1 .. Len(queue') : queue'[i] \in processing'
    BY <1>1, <1>2, <1>3 DEF IInv, Marked
  <2>2. \A v \in Workers : fd'[v] # NoFd => fd'[v] \in processing'
    BY <1>1, <1>4 DEF IInv, Marked
  <2>3. ASSUME NEW f \in processing'
        PROVE  \/ \E i \in 1 .. Len(queue') : queue'[i] = f
               \/ \E v \in Workers : fd'[v] = f
    <3>1. CASE f = queue[1]
      BY <1>1, <3>1
    <3>2. ASSUME NEW i \in 1 .. Len(queue), queue[i] = f, i # 1
          PROVE  \E j \in 1 .. Len(queue') : queue'[j] = f
      <4>1. i - 1 \in 1 .. Len(queue') /\ (i - 1) + 1 = i
        BY <1>2, <3>2
      <4> QED  BY <1>2, <3>2, <4>1
    <3>3. ASSUME NEW v \in Workers, fd[v] = f
          PROVE  \E u \in Workers : fd'[u] = f
      <4>1. f # NoFd
        BY <1>1 DEF IInv, TypeOK, Fds, NoFd
      <4> QED  BY <1>1, <3>3, <4>1
    <3> QED  BY <1>1, <3>1, <3>2, <3>3 DEF IInv, Marked
  <2> QED  BY <2>1, <2>2, <2>3 DEF Marked
<1>8. IdleHasNoFd'
  BY <1>1, <1>4 DEF IInv, TypeOK, IdleHasNoFd
<1>9. Asking'
  BY <1>1 DEF Begin, IInv, TypeOK, Asking
<1> QED  BY <1>5, <1>6, <1>7, <1>8, <1>9 DEF IInv

LEMMA UnmarkIInv == ASSUME IInv, NEW w \in Workers, Unmark(w) PROVE IInv'
<1>1. /\ pc[w] = "unmark" /\ queue' = queue
      /\ fd' = [fd EXCEPT ![w] = NoFd]
      /\ pc' = [pc EXCEPT ![w] = "idle"]
      /\ conn' = [conn EXCEPT ![w] = NoConn]
      /\ processing' = processing \ {fd[w]}
      /\ fd \in [Workers -> Fds \cup {NoFd}]
      /\ queue \in Seq(Fds) /\ Len(queue) \in Nat
  BY DEF Unmark, Finish, IInv, TypeOK
<1>2. fd[w] \in Fds /\ fd[w] # NoFd
  BY <1>1, TaskFd
<1>3. TypeOK'
  BY <1>1 DEF Unmark, IInv, TypeOK, Point, netVars, loopVars
<1>4. \A i \in 1 .. Len(queue) : queue[i] \in Fds /\ queue[i] # NoFd
  BY <1>1, NoFdIsNone
<1>5. TasksApart'
  <2>1. \A u, v \in Workers : fd'[u] = fd'[v] /\ fd'[u] # NoFd => u = v
    BY <1>1 DEF IInv, TasksApart
  <2>2. \A i \in 1 .. Len(queue'), v \in Workers : queue'[i] # fd'[v]
    BY <1>1, <1>4 DEF IInv, TasksApart
  <2> QED  BY <1>1, <2>1, <2>2 DEF IInv, TasksApart
<1>6. Marked'
  <2>1. \A i \in 1 .. Len(queue') : queue'[i] \in processing'
    BY <1>1 DEF IInv, TasksApart, Marked
  <2>2. \A v \in Workers : fd'[v] # NoFd => fd'[v] \in processing'
    BY <1>1, <1>2 DEF IInv, TasksApart, Marked
  <2>3. \A f \in processing' :
          \/ \E i \in 1 .. Len(queue') : queue'[i] = f
          \/ \E v \in Workers : fd'[v] = f
    BY <1>1, <1>2 DEF IInv, Marked
  <2> QED  BY <2>1, <2>2, <2>3 DEF Marked
<1>7. IdleHasNoFd'
  BY <1>1, <1>2 DEF IInv, TypeOK, IdleHasNoFd
<1>8. Asking'
  BY <1>1 DEF IInv, TypeOK, Asking
<1> QED  BY <1>3, <1>5, <1>6, <1>7, <1>8 DEF IInv

LEMMA TaskIInv == ASSUME IInv, NEW w \in Workers, HandleFd(w) PROVE IInv'
<1>1. CASE Wait(w)
  <2>1. fd[w] \in Fds /\ file[fd[w]] \in Conns \cup {NoConn}
    BY <1>1, TaskFd DEF Wait, IInv, TypeOK
  <2>2. conn' \in [Workers -> Conns \cup {NoConn}]
    BY <1>1, <2>1 DEF Wait, IInv, TypeOK
  <2>3. PICK p \in {"read", "del"} :
          pc' = [pc EXCEPT ![w] = p] /\ (p = "read" => conn'[w] # NoConn)
    BY <1>1, <2>1 DEF Wait, Goto, IInv, TypeOK
  <2>4. TypeOK'
    BY <1>1, <2>2, <2>3 DEF Wait, IInv, TypeOK, Point, netVars, loopVars
  <2>5. \A v \in Workers \ {w} : conn'[v] = conn[v]
    BY <1>1 DEF Wait, IInv, TypeOK
  <2> QED  BY <1>1, <2>3, <2>4, <2>5, Inside DEF Wait, Point
<1>2. CASE Read(w)
  <2>1. /\ fd[w] \in Fds /\ file[fd[w]] \in Conns \cup {NoConn}
        /\ conn[w] # NoConn
    BY <1>2, TaskFd DEF Read, IInv, TypeOK, Asking
  <2>2. taken' \in [Conns -> 0 .. Pieces]
    BY <1>2, <2>1 DEF Read, IInv, TypeOK
  <2>3. conn' \in [Workers -> Conns \cup {NoConn}] /\ conn'[w] # NoConn
    BY <1>2, <2>1 DEF Read, IInv, TypeOK
  <2>4. PICK p \in {"send", "del", "read"} : pc' = [pc EXCEPT ![w] = p]
    BY <1>2 DEF Read, Goto, IInv, TypeOK
  <2>5. TypeOK'
    BY <1>2, <2>2, <2>3, <2>4 DEF Read, IInv, TypeOK, Point, netVars, loopVars
  <2>6. \A v \in Workers \ {w} : conn'[v] = conn[v]
    BY <1>2 DEF Read, IInv, TypeOK
  <2> QED  BY <1>2, <2>3, <2>4, <2>5, <2>6, Inside DEF Read, Point
<1>3. CASE Send(w)
  <2>1. /\ fd[w] \in Fds /\ file[fd[w]] \in Conns \cup {NoConn}
        /\ conn[w] \in Conns
    BY <1>3, TaskFd DEF Send, IInv, TypeOK, Asking
  <2>2. answers' \subseteq Conns \X Conns
    BY <1>3, <2>1 DEF Send, IInv, TypeOK
  <2>3. TypeOK'
    BY <1>3, <2>2 DEF Send, Goto, IInv, TypeOK, Point, netVars, loopVars
  <2> QED  BY <1>3, <2>3, Inside DEF Send, Goto, Point
<1>4. CASE Del(w)
  <2>1. TypeOK'
    BY <1>4 DEF Del, Goto, IInv, TypeOK, Point, netVars, loopVars
  <2> QED  BY <1>4, <2>1, Inside DEF Del, Goto, Point
<1>5. CASE Close(w)
  <2>1. TypeOK'
    BY <1>5 DEF Close, CloseFd, Goto, IInv, TypeOK, Point, netVars, loopVars
  <2> QED  BY <1>5, <2>1, Inside DEF Close, Goto, Point
<1> QED  BY <1>1, <1>2, <1>3, <1>4, <1>5, BeginIInv, UnmarkIInv DEF HandleFd

LEMMA StepIInv == IInv /\ [Next]_vars => IInv'
<1> SUFFICES ASSUME IInv, [Next]_vars PROVE IInv'
  OBVIOUS
<1>1. CASE UNCHANGED vars \/ Rest
  <2>1. UNCHANGED vars
    BY <1>1 DEF Rest
  <2>2. TypeOK'
    BY <2>1 DEF IInv, TypeOK, vars, netVars, loopVars, taskVars
  <2> QED  BY <2>1, <2>2, Unmoved DEF vars, taskVars, taskOwners
<1> QED  BY <1>1, NetworkIInv, LoopIInv, TaskIInv DEF Next

\* The inductive invariant holds in every state.
THEOREM DispatchInvariant == Spec => []IInv
<1> QED  BY InitIInv, StepIInv, PTL DEF Spec

\* The variables of the epoll loop and of the threads keep their types.
THEOREM DispatchTypes == Spec => []TypeOK
<1>1. IInv => TypeOK
  BY DEF IInv
<1> QED  BY <1>1, DispatchInvariant, PTL

\* markFdProcessing and unmarkFdProcessing, for any number of threads and
\* connections: a descriptor is marked exactly as long as it has a task, and it
\* never has two.
THEOREM DispatchOneTaskPerFd == Spec => []OneTaskPerFd
<1>1. ASSUME IInv PROVE OneTaskPerFd
  <2> SUFFICES ASSUME NEW f \in Fds
               PROVE  Cardinality({i \in 1 .. Len(queue) : queue[i] = f})
                      + Cardinality({w \in Workers : fd[w] = f})
                      = IF f \in processing THEN 1 ELSE 0
    BY DEF OneTaskPerFd
  <2> DEFINE queued == {i \in 1 .. Len(queue) : queue[i] = f}
             held   == {w \in Workers : fd[w] = f}
  <2>1. f # NoFd
    BY NoFdIsNone
  <2>2. CASE f \notin processing
    <3>1. queued = {} /\ held = {}
      BY <1>1, <2>1, <2>2 DEF IInv, Marked
    <3>2. Cardinality(queued) = 0 /\ Cardinality(held) = 0
      BY <3>1, FS_EmptySet
    <3> QED  BY <2>2, <3>2
  <2>3. ASSUME f \in processing, NEW i \in 1 .. Len(queue), queue[i] = f
        PROVE  Cardinality(queued) = 1 /\ Cardinality(held) = 0
    <3>1. queued = {i} /\ held = {}
      BY <1>1, <2>3 DEF IInv, TasksApart
    <3> QED  BY <3>1, FS_EmptySet, FS_Singleton
  <2>4. ASSUME f \in processing, NEW w \in Workers, fd[w] = f
        PROVE  Cardinality(queued) = 0 /\ Cardinality(held) = 1
    <3>1. queued = {}
      BY <1>1, <2>4 DEF IInv, TasksApart
    <3>2. held = {w}
      BY <1>1, <2>1, <2>4 DEF IInv, TasksApart
    <3> QED  BY <3>1, <3>2, FS_EmptySet, FS_Singleton
  <2>5. CASE f \in processing
    <3>1. \/ \E i \in 1 .. Len(queue) : queue[i] = f
          \/ \E w \in Workers : fd[w] = f
      BY <1>1, <2>5 DEF IInv, Marked
    <3>2. \/ Cardinality(queued) = 1 /\ Cardinality(held) = 0
          \/ Cardinality(queued) = 0 /\ Cardinality(held) = 1
      BY <2>3, <2>4, <2>5, <3>1
    <3> QED  BY <2>5, <3>2
  <2> QED  BY <2>2, <2>5
<1> QED  BY <1>1, DispatchInvariant, PTL
-----------------------------------------------------------------------------
(* Until an error is reported on its own, only a descriptor's own thread   *)
(* closes it: what that thread reads from stays behind the descriptor.     *)

Attached ==
  /\ bad = {} /\ \A e \in batch : e.in
  /\ \A w \in Workers : pc[w] \in {"read", "send"} => file[fd[w]] = conn[w]
  /\ \A a \in answers : a[1] = a[2]

RInv == errs = 0 => Attached

\* A step that touches neither answers nor threads, nor a descriptor in use.
LEMMA StaysAttached ==
  ASSUME IInv, Attached, bad' = {}, \A e \in batch' : e.in,
         UNCHANGED <<pc, fd, conn, answers>>,
         \A f \in Fds : file[f] # NoConn => file'[f] = file[f]
  PROVE  Attached'
<1>1. ASSUME NEW w \in Workers, pc[w] \in {"read", "send"}
      PROVE  file'[fd[w]] = conn[w]
  <2>1. fd[w] \in Fds /\ conn[w] # NoConn
    BY <1>1, TaskFd DEF IInv, Asking
  <2> QED  BY <1>1, <2>1 DEF Attached
<1> QED  BY <1>1 DEF Attached

LEMMA NetworkRInv == ASSUME IInv, RInv, Network PROVE RInv'
<1>1. ASSUME NEW c \in Conns, Connect(c) \/ Arrive(c) \/ HangUp(c) PROVE RInv'
  BY <1>1 DEF RInv, Attached, Connect, Arrive, HangUp, loopVars, taskVars
<1>2. ASSUME NEW f \in Fds, Fault(f) PROVE errs' # 0
  BY <1>2, FdAssumption DEF Fault, IInv, TypeOK
<1> QED  BY <1>1, <1>2 DEF Network, RInv

LEMMA LoopRInv == ASSUME IInv, RInv, EpollLoop PROVE RInv'
<1> SUFFICES ASSUME errs' = 0 PROVE Attached'
  BY DEF RInv
<1>1. errs = 0 /\ UNCHANGED <<pc, fd, conn, answers>>
  <2>1. ASSUME NEW c \in Conns, Refuse(c) PROVE errs' # 0
    BY <2>1, FdAssumption DEF Refuse, IInv, TypeOK
  <2> QED  BY <2>1 DEF EpollLoop, EpollWait, BeginAccept, EndAccept, EndBatch, Accept, Dispatch,
                       Drop, netVars, loopVars, taskVars
<1>2. Attached
  BY <1>1 DEF RInv
<1>3. CASE EpollWait
  <2>1. \A e \in batch' : e.in
    BY <1>2, <1>3 DEF EpollWait, Attached, Listen
  <2>2. bad' = {} /\ file' = file
    BY <1>3 DEF EpollWait
  <2> QED  BY <1>1, <1>2, <2>1, <2>2, StaysAttached
<1>4. ASSUME NEW c \in Conns, Accept(c) PROVE Attached'
  <2>1. PICK f \in FreeFds : file' = [file EXCEPT ![f] = c]
    BY <1>4 DEF Accept
  <2>2. \A g \in Fds : file[g] # NoConn => file'[g] = file[g]
    BY <2>1 DEF FreeFds, IInv, TypeOK
  <2>3. bad' = bad /\ batch' = batch
    BY <1>4 DEF Accept, loopVars
  <2> QED  BY <1>1, <1>2, <2>2, <2>3, StaysAttached DEF Attached
<1>5. ASSUME NEW e \in batch, Drop(e) PROVE FALSE
  BY <1>2, <1>5 DEF Drop, Attached
<1>6. CASE \/ BeginAccept \/ EndAccept \/ EndBatch
           \/ \E c \in Conns : Refuse(c)
           \/ \E e \in batch : Dispatch(e)
  <2>1. file' = file /\ bad' = bad /\ batch' \subseteq batch
    BY <1>6 DEF BeginAccept, EndAccept, EndBatch, Refuse, Dispatch, loopVars
  <2> QED  BY <1>1, <1>2, <2>1, StaysAttached DEF Attached
<1> QED  BY <1>3, <1>4, <1>5, <1>6 DEF EpollLoop

LEMMA TaskRInv == ASSUME IInv, RInv, NEW w \in Workers, HandleFd(w) PROVE RInv'
<1> SUFFICES ASSUME errs' = 0 PROVE Attached'
  BY DEF RInv
<1>1. errs = 0 /\ batch' = batch
  BY DEF HandleFd, Begin, Wait, Read, Send, Del, Close, Unmark, netVars, loopVars
<1>2. Attached
  BY <1>1 DEF RInv
<1>3. ASSUME pc' = [pc EXCEPT ![w] = pc'[w]], bad' \subseteq bad,
             \A a \in answers' : a[1] = a[2],
             \A v \in Workers \ {w} : pc[v] \in {"read", "send"} =>
                fd'[v] = fd[v] /\ conn'[v] = conn[v] /\ file'[fd[v]] = file[fd[v]],
             pc'[w] \in {"read", "send"} => file'[fd'[w]] = conn'[w]
      PROVE  Attached'
  <2>1. \A v \in Workers \ {w} : pc'[v] = pc[v]
    BY <1>3 DEF IInv, TypeOK
  <2>2. \A v \in Workers : pc'[v] \in {"read", "send"} => file'[fd'[v]] = conn'[v]
    BY <1>2, <1>3, <2>1 DEF Attached
  <2> QED  BY <1>1, <1>2, <1>3, <2>2 DEF Attached
<1>4. CASE Begin(w)
  BY <1>2, <1>3, <1>4 DEF Begin, Goto, IInv, TypeOK, Attached
<1>5. CASE Wait(w)
  BY <1>2, <1>3, <1>5 DEF Wait, Goto, IInv, TypeOK, Attached
<1>6. CASE Read(w)
  <2>1. file[fd[w]] = conn[w]
    BY <1>2, <1>6 DEF Read, Attached
  <2>2. file' = file /\ bad' = bad /\ fd' = fd /\ answers' = answers
    BY <1>6 DEF Read
  <2>3. conn' = conn
    BY <1>6, <2>1 DEF Read, IInv, TypeOK
  <2>4. pc' = [pc EXCEPT ![w] = pc'[w]]
    BY <1>6 DEF Read, Goto, IInv, TypeOK
  <2> QED  BY <1>2, <1>3, <2>1, <2>2, <2>3, <2>4 DEF Attached
<1>7. CASE Send(w)
  <2>1. file[fd[w]] = conn[w]
    BY <1>2, <1>7 DEF Send, Attached
  <2>2. \A a \in answers' : a[1] = a[2]
    BY <1>2, <1>7, <2>1 DEF Send, Attached
  <2> QED  BY <1>3, <1>7, <2>2 DEF Send, Goto, IInv, TypeOK
<1>8. CASE Del(w)
  BY <1>2, <1>3, <1>8 DEF Del, Goto, IInv, TypeOK, Attached
<1>9. CASE Close(w)
  <2>1. \A v \in Workers \ {w} : pc[v] \in {"read", "send"} => fd[v] # fd[w]
    BY <1>9, TaskFd DEF Close, IInv, TasksApart
  <2>2. \A v \in Workers : pc[v] \in {"read", "send"} => fd[v] \in Fds
    BY TaskFd
  <2>3. \A v \in Workers \ {w} : pc[v] \in {"read", "send"} => file'[fd[v]] = file[fd[v]]
    BY <1>9, <2>1, <2>2 DEF Close, CloseFd, IInv, TypeOK
  <2> QED  BY <1>2, <1>3, <1>9, <2>3 DEF Close, CloseFd, Goto, IInv, TypeOK, Attached
<1>10. CASE Unmark(w)
  BY <1>2, <1>3, <1>10 DEF Unmark, Finish, IInv, TypeOK, Attached
<1> QED  BY <1>4, <1>5, <1>6, <1>7, <1>8, <1>9, <1>10 DEF HandleFd

LEMMA StepRInv == IInv /\ RInv /\ [Next]_vars => RInv'
<1> SUFFICES ASSUME IInv, RInv, [Next]_vars PROVE RInv'
  OBVIOUS
<1>1. CASE UNCHANGED vars \/ Rest
  BY <1>1 DEF Rest, RInv, Attached, vars, netVars, loopVars, taskVars
<1> QED  BY <1>1, NetworkRInv, LoopRInv, TaskRInv DEF Next

\* handleClientFd, for any number of connections, descriptors and threads: as
\* long as the loop drops no descriptor by itself, a response goes to the
\* connection its request came from, although numbers are used again.
THEOREM DispatchResponseToAsker == Spec => []ResponseToAsker
<1>1. Init => RInv
  BY DEF Init, RInv, Attached
<1>2. RInv => ResponseToAsker
  BY DEF RInv, Attached, ResponseToAsker
<1> QED  BY <1>1, <1>2, StepRInv, DispatchInvariant, PTL DEF Spec
=============================================================================
