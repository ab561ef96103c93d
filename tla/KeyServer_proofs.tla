-------------------------- MODULE KeyServer_proofs --------------------------
(***************************************************************************)
(* The handlers for any number of threads, clients and slots, whatever     *)
(* statements fail and however the threads interleave: the types, that the *)
(* committed key states only move forward, that a result set waiting in    *)
(* the shared connection always has exactly one thread to fetch it, and    *)
(* that a message is recorded with the number of the key it is under.      *)
(* The second half, from ONE THREAD on, is about a pool of one thread.     *)
(***************************************************************************)
EXTENDS KeyServer, SecKeyShm_proofs, FiniteSetTheorems
-----------------------------------------------------------------------------
(* The session's tables only move forward.  The invariant says that what   *)
(* the session sees is an advance over what is committed, so whatever      *)
(* commits (a statement, a COMMIT, the implicit commit of a second START   *)
(* TRANSACTION) is one too, and what a rollback drops was never committed. *)

SessionInv == SessionTypeOK /\ Advances(durable.keys, work.keys)

\* The effect of a statement that may only move the tables forward.
Forward(e) ==
  /\ e.durable \in Tables
  /\ e.work \in Tables
  /\ e.inTxn \in BOOLEAN
  /\ e.result \in Result
  /\ e.affected \in BOOLEAN
  /\ Advances(durable.keys, e.durable.keys)
  /\ Advances(e.durable.keys, e.work.keys)

LEMMA TablesAdvance == \A t \in Tables : t.keys \in SUBSET KeyRow /\ Advances(t.keys, t.keys)
  BY AdvancesReflexive DEF Tables

LEMMA NoResultType == NoResult \in Result
  BY DEF NoResult, Result

LEMMA SessionInitInv == SessionInit => SessionInv
<1> SUFFICES ASSUME SessionInit PROVE SessionInv
  OBVIOUS
<1>1. EmptyTables \in Tables
  BY DEF EmptyTables, Tables
<1>2. inTxn \in BOOLEAN /\ affected \in BOOLEAN /\ up \in BOOLEAN
  BY Zenon DEF SessionInit
<1>3. result \in Result
  BY NoResultType DEF SessionInit
<1>4. durable \in Tables /\ work = durable /\ faults \in 0 .. MaxFaults
  BY <1>1, MaxFaultsAssumption DEF SessionInit
<1> QED  BY <1>2, <1>3, <1>4, TablesAdvance DEF SessionTypeOK, SessionInv

\* Each kind of statement moves the tables forward.
LEMMA TransactionForward ==
  ASSUME SessionInv
  PROVE  Forward(StartTransaction) /\ Forward(Commit) /\ Forward(Rollback)
<1>1. NoResult \in Result
  BY DEF NoResult, Result
<1> QED
  BY <1>1, TablesAdvance
  DEF SessionInv, SessionTypeOK, Forward, StartTransaction, Commit, Rollback

LEMMA SelectForward ==
  ASSUME SessionInv, NEW rows \in (SUBSET SnRow) \cup (SUBSET KeyRow) \cup (SUBSET MsgRow)
  PROVE  Forward(Select(rows))
  BY TablesAdvance DEF SessionInv, SessionTypeOK, Forward, Select, Result

LEMMA WriteForward ==
  ASSUME SessionInv, NEW t \in Tables, NEW changed \in BOOLEAN, Advances(work.keys, t.keys)
  PROVE  Forward(Write(t, changed))
<1>1. NoResult \in Result
  BY DEF NoResult, Result
<1>2. Advances(durable.keys, t.keys)
  BY AdvancesTransitive DEF SessionInv, SessionTypeOK, Tables
<1> QED
  BY <1>1, <1>2, TablesAdvance DEF SessionInv, SessionTypeOK, Forward, Write

\* Whatever comes of a statement, the invariant is kept and the committed
\* tables have advanced.
LEMMA StatementSafe ==
  ASSUME SessionInv, NEW e, Forward(e), Executed(e) \/ Failed(e)
  PROVE  SessionInv' /\ Advances(durable.keys, durable'.keys)
<1> USE TablesAdvance DEF SessionInv, SessionTypeOK, Forward
<1>1. CASE Executed(e)
  BY <1>1 DEF Executed
<1>2. CASE Unsendable
  BY <1>2 DEF Unsendable, sessionVars
<1>3. CASE Rejected
  BY <1>3, MaxFaultsAssumption DEF Rejected, Denied
<1>4. CASE LinkLost(e)
  <2>1. inTxn' \in BOOLEAN /\ up' \in BOOLEAN /\ affected' \in BOOLEAN
    BY <1>4, Zenon DEF LinkLost
  <2>2. durable' \in Tables /\ work' = durable' /\ Advances(durable.keys, durable'.keys)
        /\ faults' \in 0 .. MaxFaults /\ result' \in Result
    BY <1>4, MaxFaultsAssumption DEF LinkLost
  <2> QED  BY <2>1, <2>2
<1> QED  BY <1>1, <1>2, <1>3, <1>4 DEF Failed

LEMMA RolledBackSafe ==
  ASSUME SessionInv, RolledBack
  PROVE  SessionInv' /\ Advances(durable.keys, durable'.keys)
  BY StatementSafe, TransactionForward DEF RolledBack, Failed

LEMMA DeniedSafe ==
  ASSUME SessionInv, Denied, UNCHANGED faults
  PROVE  SessionInv' /\ Advances(durable.keys, durable'.keys)
  BY TablesAdvance DEF SessionInv, SessionTypeOK, Denied

LEMMA FetchSafe ==
  ASSUME SessionInv, Fetched \/ FetchFailed
  PROVE  SessionInv' /\ Advances(durable.keys, durable'.keys)
<1> USE TablesAdvance, NoResultType DEF SessionInv, SessionTypeOK
<1>1. CASE Fetched
  <2>1. affected' \in BOOLEAN
    BY <1>1, Zenon DEF Fetched
  <2> QED  BY <1>1, <2>1 DEF Fetched
<1>2. CASE ~result.waiting /\ UNCHANGED sessionVars
  BY <1>2 DEF sessionVars
<1>3. CASE result.waiting /\ FetchFailed
  <2>1. inTxn' \in BOOLEAN /\ up' \in BOOLEAN /\ affected' \in BOOLEAN
    BY <1>3, Zenon DEF FetchFailed
  <2>2. durable' = durable /\ work' = durable /\ result' \in Result
        /\ faults' \in 0 .. MaxFaults
    BY <1>3, MaxFaultsAssumption DEF FetchFailed
  <2> QED  BY <2>1, <2>2
<1> QED  BY <1>1, <1>2, <1>3 DEF FetchFailed

LEMMA ReconnectedSafe ==
  ASSUME SessionInv, Reconnected
  PROVE  SessionInv' /\ Advances(durable.keys, durable'.keys)
<1> USE TablesAdvance, NoResultType DEF SessionInv, SessionTypeOK
<1>1. inTxn' \in BOOLEAN /\ up' \in BOOLEAN /\ affected' \in BOOLEAN
  BY Zenon DEF Reconnected
<1>2. durable' = durable /\ work' = durable /\ result' \in Result /\ faults' \in 0 .. MaxFaults
  BY MaxFaultsAssumption DEF Reconnected
<1> QED  BY <1>1, <1>2

\* A step that leaves the session alone.
LEMMA UntouchedSafe ==
  ASSUME SessionInv, UNCHANGED sessionVars
  PROVE  SessionInv' /\ Advances(durable.keys, durable'.keys)
  BY TablesAdvance DEF SessionInv, SessionTypeOK, sessionVars
-----------------------------------------------------------------------------
(* The invariant of the handlers.                                          *)

\* The cache, and what the environment counts.
CacheInv ==
  /\ shm \in Shm
  /\ lapsed \subseteq Clients \X Nat
  /\ seq \in 0 .. MaxReq

\* The threads: one that is not idle works on a request.
Control ==
  /\ pc \in [Workers -> Point]
  /\ job \in [Workers -> Job]
  /\ acks \subseteq Answer
  /\ \A w \in Workers : pc[w] # "idle" => job[w].req \in Request

\* A handler that is about to fetch has a result waiting, it is the only one and,
\* for the key number, a row is there.  Nothing is said of the result when no handler
\* waits, so that other threads of the pool may use the session too.
Owner ==
  /\ \A w \in Workers : pc[w] \in FetchPoint => result.waiting
  /\ \A v, w \in Workers : pc[v] \in FetchPoint /\ pc[w] \in FetchPoint => v = w
  /\ \A w \in Workers : pc[w] = "fetchSn" => result.rows # {} /\ result.rows \subseteq SnRow

IInv == SessionInv /\ CacheInv /\ Control /\ Owner

\* A step of w that neither ends nor begins a wait for a result.
Quiet ==
  /\ result'.waiting <=> result.waiting
  /\ result.waiting => result' = result

\* w goes on to a point where it does not expect a result.
Leaves(w) ==
  /\ Control'
  /\ \E p \in Point \ FetchPoint : pc' = [pc EXCEPT ![w] = p]

\* What every step does.
Safe == IInv' /\ Advances(durable.keys, durable'.keys)
-----------------------------------------------------------------------------
(* Control.                                                                *)

\* Each way of going on keeps the threads' part of the invariant.
LEMMA GotoControl ==
  ASSUME Control, NEW w \in Workers, pc[w] # "idle",
         NEW p \in Point, Goto(w, p)
  PROVE  Control' /\ (p \notin FetchPoint => Leaves(w))
<1>1. Control'
  BY DEF Control, Goto
<1> QED  BY <1>1 DEF Goto, Leaves

LEMMA KeepControl ==
  ASSUME Control, NEW w \in Workers,
         NEW p \in Point \ FetchPoint, NEW j \in Job, j.req \in Request, Keep(w, p, j)
  PROVE  Leaves(w)
<1>1. Control'
  BY DEF Control, Keep
<1> QED  BY <1>1 DEF Keep, Leaves

LEMMA JobUpdates ==
  ASSUME NEW j \in Job
  PROVE  /\ \A k \in Nat : [j EXCEPT !.key = k] \in Job
         /\ \A n \in Node : [j EXCEPT !.node = n] \in Job
         /\ \A c \in Code : [j EXCEPT !.code = c] \in Job
         /\ \A s \in Stage, k \in Nat : [j EXCEPT !.stage = s, !.key = k] \in Job
  BY DEF Job

LEMMA NoJobType == NoJob \in Job
<1>1. EmptyNode \in Node
  BY DEF EmptyNode, Node
<1> QED  BY <1>1 DEF NoJob, Job, Stage, Code

LEMMA PointFacts ==
  /\ "idle" \in Point \ FetchPoint /\ "audit" \in Point \ FetchPoint
  /\ AgreePoint \cup KeyPoint \cup SendPoint \subseteq Point
  /\ "idle" \notin AgreePoint \cup KeyPoint \cup SendPoint
  BY DEF Point, FetchPoint, AgreePoint, KeyPoint, SendPoint

LEMMA ReplyControl ==
  ASSUME Control, NEW w \in Workers, pc[w] # "idle", NEW code, Reply(w, code)
  PROVE  Leaves(w)
<1>1. acks' \subseteq Answer
  <2>1. [req |-> job[w].req, key |-> job[w].key, tok |-> job[w].tok] \in Answer
    BY DEF Control, Job, Answer
  <2> QED  BY <2>1 DEF Reply, Control
<1>2. pc' = [pc EXCEPT ![w] = "idle"] /\ job' = [job EXCEPT ![w] = NoJob]
  BY DEF Reply
<1>3. Control'
  BY <1>1, <1>2, NoJobType, PointFacts DEF Control
<1> QED  BY <1>2, <1>3, PointFacts DEF Leaves

LEMMA AuditControl ==
  ASSUME Control, NEW w \in Workers, pc[w] # "idle", NEW code \in Code,
         AuditThenReply(w, code)
  PROVE  Leaves(w)
<1>1. job[w] \in Job /\ job[w].req \in Request
  BY DEF Control
<1>2. [job[w] EXCEPT !.code = code] \in Job /\ [job[w] EXCEPT !.code = code].req \in Request
  BY <1>1, JobUpdates DEF Job
<1> QED  BY <1>2, KeepControl, PointFacts DEF AuditThenReply
-----------------------------------------------------------------------------
(* The waiting result.                                                     *)

\* Nothing waited for, nothing changed.
LEMMA QuietOwner ==
  ASSUME Control, Owner, NEW w \in Workers, pc[w] \notin FetchPoint, Leaves(w), Quiet
  PROVE  Owner'
<1>1. PICK p \in Point \ FetchPoint : pc' = [pc EXCEPT ![w] = p]
  BY DEF Leaves
<1>2. \A v \in Workers : pc'[v] \in FetchPoint <=> pc[v] \in FetchPoint
  BY <1>1 DEF Control
<1>3. \A v \in Workers : pc[v] \in FetchPoint => pc'[v] = pc[v]
  BY <1>1 DEF Control
<1>4. /\ \A v \in Workers : pc'[v] \in FetchPoint => result'.waiting
      /\ \A u, v \in Workers : pc'[u] \in FetchPoint /\ pc'[v] \in FetchPoint => u = v
  BY <1>2 DEF Owner, Quiet
<1>5. ASSUME NEW v \in Workers, pc'[v] = "fetchSn"
      PROVE  result'.rows # {} /\ result'.rows \subseteq SnRow
  <2>1. pc[v] \in FetchPoint /\ pc[v] = "fetchSn"
    BY <1>2, <1>3, <1>5 DEF FetchPoint
  <2>2. result' = result
    BY <2>1 DEF Owner, Quiet
  <2> QED  BY <2>1, <2>2 DEF Owner
<1> QED  BY <1>4, <1>5 DEF Owner

\* The owner has fetched, or has been told there is nothing.
LEMMA FetchedOwner ==
  ASSUME Control, Owner, NEW w \in Workers, pc[w] \in FetchPoint, Leaves(w), ~result'.waiting
  PROVE  Owner'
<1>1. PICK p \in Point \ FetchPoint : pc' = [pc EXCEPT ![w] = p]
  BY DEF Leaves
<1>2. \A v \in Workers : pc'[v] \notin FetchPoint
  BY <1>1 DEF Control, Owner
<1> QED  BY <1>2 DEF Owner, FetchPoint

\* A SELECT executes only when nobody waits; its thread is the owner then.
LEMMA SelectOwner ==
  ASSUME Control, Owner, NEW w \in Workers, NEW p \in FetchPoint, NEW rows,
         Executed(Select(rows)), Goto(w, p),
         p = "fetchSn" => rows # {} /\ rows \subseteq SnRow
  PROVE  Owner'
<1>1. ~result.waiting /\ result' = [waiting |-> TRUE, rows |-> rows]
  BY DEF Executed, Ready, Select
<1>2. pc' = [pc EXCEPT ![w] = p]
  BY DEF Goto
<1>3. \A v \in Workers : pc[v] \notin FetchPoint
  BY <1>1 DEF Owner
<1>4. \A v \in Workers : pc'[v] \in FetchPoint <=> v = w
  BY <1>2, <1>3 DEF Control
<1>6. \A v \in Workers : pc'[v] = "fetchSn" => v = w /\ p = "fetchSn"
  BY <1>2, <1>4 DEF FetchPoint, Control
<1> QED  BY <1>1, <1>4, <1>6 DEF Owner

\* A statement that is no SELECT, and every failure, leaves the wait as it is.
LEMMA StatementQuiet ==
  ASSUME NEW e, e.result = NoResult, Executed(e) \/ Failed(e)
  PROVE  Quiet
<1>1. CASE Executed(e)
  BY <1>1 DEF Executed, Ready, NoResult, Quiet
<1>2. CASE Failed(e)
  BY <1>2 DEF Failed, Unsendable, Rejected, Denied, LinkLost, sessionVars, Quiet
<1> QED  BY <1>1, <1>2

LEMMA FailedQuiet ==
  ASSUME NEW e, Failed(e)
  PROVE  Quiet
  BY DEF Failed, Unsendable, Rejected, Denied, LinkLost, sessionVars, Quiet

LEMMA UntouchedQuiet ==
  ASSUME UNCHANGED sessionVars
  PROVE  Quiet
  BY DEF sessionVars, Quiet

\* Whichever way, fetching ends the wait.
LEMMA FetchEnds ==
  ASSUME Fetched \/ FetchFailed
  PROVE  ~result'.waiting
  BY DEF Fetched, FetchFailed, NoResult, sessionVars
-----------------------------------------------------------------------------
(* The kinds of step the handlers are made of.                             *)

LEMMA FrameCache ==
  ASSUME CacheInv, Frame, shm' \in Shm
  PROVE  CacheInv'
  BY DEF CacheInv, Frame

\* A statement that is no SELECT, and where to go on.
LEMMA SqlSafe ==
  ASSUME IInv, NEW w \in Workers, pc[w] \in Point \ (FetchPoint \cup {"idle"}),
         NEW e, Forward(e), e.result = NoResult,
         NEW good \in Point \ FetchPoint, NEW bad \in Point \ FetchPoint,
         Sql(w, e, good, bad)
  PROVE  Safe
<1>1. SessionInv' /\ Advances(durable.keys, durable'.keys)
  BY StatementSafe DEF IInv, Sql
<1>2. Leaves(w)
  BY GotoControl DEF IInv, Sql
<1>3. Quiet
  BY StatementQuiet DEF Sql
<1>4. Owner'
  BY <1>2, <1>3, QuietOwner DEF IInv
<1>5. CacheInv'
  BY FrameCache DEF IInv, Sql, CacheInv
<1> QED  BY <1>1, <1>2, <1>4, <1>5 DEF Safe, IInv, Leaves

\* A step outside the session.
LEMMA LocalSafe ==
  ASSUME IInv, NEW w \in Workers, pc[w] \in Point \ FetchPoint,
         UNCHANGED sessionVars, Leaves(w), CacheInv'
  PROVE  Safe
  BY UntouchedSafe, UntouchedQuiet, QuietOwner DEF IInv, Safe, Leaves
-----------------------------------------------------------------------------
(* The statements of the handlers.                                         *)

\* A handler at work knows whose key it is about.
LEMMA BusyFacts ==
  ASSUME Control, NEW w \in Workers, pc[w] # "idle"
  PROVE  /\ job[w] \in Job /\ job[w].req \in Request
         /\ Subject(w) \in Clients /\ job[w].req.to \in Clients
  BY DEF Control, Subject, Request

\* An UPDATE of Active rows.
LEMMA UpdateForward ==
  ASSUME SessionInv, NEW rows \in SUBSET work.keys, NEW s \in State,
         \A r \in rows : r.state = "Active"
  PROVE  Forward(Update(rows, s)) /\ Update(rows, s).result = NoResult
<1> DEFINE t == [work EXCEPT !.keys = SetState(@, rows, s)]
<1>1. work \in Tables /\ work.keys \in SUBSET KeyRow
  BY DEF SessionInv, SessionTypeOK, Tables
<1>2. SetState(work.keys, rows, s) \in SUBSET KeyRow
  BY <1>1, SetStateType
<1>3. t \in Tables /\ t.keys = SetState(work.keys, rows, s)
  BY <1>1, <1>2 DEF Tables
<1>4. Advances(work.keys, t.keys)
  BY <1>1, <1>3, SetStateAdvances
<1>5. (rows # {}) \in BOOLEAN
  BY Zenon
<1> HIDE DEF t
<1>6. Forward(Write(t, rows # {}))
  BY <1>3, <1>4, <1>5, WriteForward
<1> QED  BY <1>6 DEF Update, Write, t

\* A write that leaves the keys alone.
LEMMA OtherWriteForward ==
  ASSUME SessionInv, NEW t \in Tables, t.keys = work.keys
  PROVE  Forward(Write(t, TRUE)) /\ Write(t, TRUE).result = NoResult
<1>1. Advances(work.keys, t.keys)
  BY TablesAdvance DEF SessionInv, SessionTypeOK
<1>2. Forward(Write(t, TRUE))
  BY <1>1, WriteForward
<1> QED  BY <1>2 DEF Write

LEMMA ActiveRows ==
  ASSUME NEW keys, NEW c, NEW k, NEW s
  PROVE  /\ ActiveOf(keys, c) \in SUBSET keys
         /\ \A r \in ActiveOf(keys, c) : r.state = "Active"
         /\ KeysWhere(keys, c, k, s) \in SUBSET keys
         /\ \A r \in KeysWhere(keys, c, k, s) : r.state = s
  BY DEF ActiveOf, KeysWhere
-----------------------------------------------------------------------------
(* Key agreement.                                                          *)

LEMMA TakeSafe ==
  ASSUME IInv, NEW w \in Workers, NEW r \in Requests, Take(w, r)
  PROVE  Safe
<1> DEFINE s == IF r.op = "send" THEN "sender" ELSE "own"
           j == [NoJob EXCEPT !.req = r, !.tok = seq + 1, !.key = r.key, !.stage = s]
<1>1. r \in Request /\ seq \in Nat /\ seq < MaxReq /\ MaxReq \in Nat
  BY RequestsAssumption, BoundsAssumption DEF IInv, CacheInv, Take
<1>2. j \in Job /\ j.req = r
  <2>1. s \in Stage /\ r.key \in Nat /\ seq + 1 \in Nat
    BY <1>1 DEF Stage, Request
  <2> QED  BY <1>1, <2>1, NoJobType DEF Job, NoJob
<1>3. Entry(r.op) \in Point \ FetchPoint
  BY <1>1 DEF Request, Op, Entry, Point, AgreePoint, KeyPoint, SendPoint, FetchPoint
<1>4. Keep(w, Entry(r.op), j)
  BY DEF Take
<1> HIDE DEF s, j
<1>5. Leaves(w)
  BY <1>1, <1>2, <1>3, <1>4, KeepControl DEF IInv
<1>6. CacheInv'
  BY <1>1 DEF CacheInv, IInv, Take
<1>7. pc[w] \in Point \ FetchPoint /\ UNCHANGED sessionVars
  BY PointFacts DEF Take, At
<1> QED  BY <1>5, <1>6, <1>7, LocalSafe

LEMMA VerifySafe ==
  ASSUME IInv, NEW w \in Workers, Verify(w)
  PROVE  Safe
<1>1. pc[w] \in Point \ FetchPoint /\ pc[w] # "idle" /\ "begin" \in Point \ FetchPoint
  BY DEF Verify, At, Point, AgreePoint, FetchPoint
<1>2. Leaves(w)
  BY <1>1, GotoControl, ReplyControl DEF Verify, IInv
<1>3. CacheInv' /\ UNCHANGED sessionVars
  BY FrameCache DEF IInv, CacheInv, Verify
<1> QED  BY <1>1, <1>2, <1>3, LocalSafe

LEMMA BeginSafe ==
  ASSUME IInv, NEW w \in Workers, Begin(w)
  PROVE  Safe
<1>1. pc[w] \in Point \ FetchPoint /\ pc[w] # "idle" /\ "lockSn" \in Point \ FetchPoint
  BY DEF Begin, At, Point, AgreePoint, FetchPoint
<1>2. Leaves(w)
  BY <1>1, GotoControl, ReplyControl DEF Begin, IInv
<1>3. SessionInv' /\ Advances(durable.keys, durable'.keys)
  BY StatementSafe, TransactionForward DEF IInv, Begin
<1>4. Quiet
  BY StatementQuiet DEF Begin, StartTransaction
<1>5. Owner'
  BY <1>1, <1>2, <1>4, QuietOwner DEF IInv
<1>6. CacheInv'
  BY FrameCache DEF IInv, CacheInv, Begin
<1> QED  BY <1>2, <1>3, <1>5, <1>6 DEF Safe, IInv, Leaves

\* A SELECT, with what its handler does when it fails.
LEMMA SelectSafe ==
  ASSUME IInv, NEW w \in Workers, pc[w] \in Point \ FetchPoint, pc[w] # "idle",
         NEW rows \in (SUBSET SnRow) \cup (SUBSET KeyRow), NEW p \in FetchPoint,
         p = "fetchSn" => rows # {} /\ rows \subseteq SnRow,
         \/ Executed(Select(rows)) /\ Goto(w, p)
         \/ Failed(Select(rows)) /\ Leaves(w),
         Frame, UNCHANGED shm
  PROVE  Safe
<1>1. SessionInv' /\ Advances(durable.keys, durable'.keys)
  BY StatementSafe, SelectForward DEF IInv
<1>2. CASE Executed(Select(rows)) /\ Goto(w, p)
  <2>1. p \in Point
    BY DEF FetchPoint, Point, AgreePoint, KeyPoint
  <2>2. Control'
    BY <1>2, <2>1, GotoControl DEF IInv
  <2>3. Owner'
    BY <1>2, SelectOwner DEF IInv
  <2> QED  BY <1>1, <2>2, <2>3, FrameCache DEF Safe, IInv, CacheInv
<1>3. CASE Failed(Select(rows)) /\ Leaves(w)
  <2>1. Owner'
    BY <1>3, FailedQuiet, QuietOwner DEF IInv
  <2> QED  BY <1>1, <1>3, <2>1, FrameCache DEF Safe, IInv, CacheInv, Leaves
<1> QED  BY <1>2, <1>3

LEMMA LockSnSafe ==
  ASSUME IInv, NEW w \in Workers, LockSn(w)
  PROVE  Safe
<1> DEFINE rows == {[ikeysn |-> work.sn]}
<1>1. pc[w] \in Point \ FetchPoint /\ pc[w] # "idle" /\ "rollback" \in Point \ FetchPoint
      /\ "fetchSn" \in FetchPoint
  BY DEF LockSn, At, Point, AgreePoint, FetchPoint
<1>2. rows \in SUBSET SnRow /\ rows # {}
  BY DEF IInv, SessionInv, SessionTypeOK, Tables, SnRow
<1> HIDE DEF rows
<1>3. Sql(w, Select(rows), "fetchSn", "rollback")
  BY DEF LockSn, rows
<1>4. Failed(Select(rows)) /\ Goto(w, "rollback") => Leaves(w)
  BY <1>1, GotoControl DEF IInv
<1> QED  BY <1>1, <1>2, <1>3, <1>4, SelectSafe DEF Sql
\* A fetch: w was the owner, and goes on.
LEMMA FetchStepSafe ==
  ASSUME IInv, NEW w \in Workers, pc[w] \in FetchPoint, Leaves(w),
         Fetched \/ FetchFailed, Frame, UNCHANGED shm
  PROVE  Safe
<1>1. SessionInv' /\ Advances(durable.keys, durable'.keys)
  BY FetchSafe DEF IInv
<1>2. Owner'
  BY FetchEnds, FetchedOwner DEF IInv
<1>3. CacheInv'
  BY FrameCache DEF IInv, CacheInv
<1> QED  BY <1>1, <1>2, <1>3 DEF Safe, IInv, Leaves

LEMMA FetchSnSafe ==
  ASSUME IInv, NEW w \in Workers, FetchSn(w)
  PROVE  Safe
<1> DEFINE sn == (CHOOSE r \in result.rows : TRUE).ikeysn
<1>1. pc[w] \in FetchPoint /\ pc[w] # "idle"
      /\ "lockKeys" \in Point \ FetchPoint /\ "rollback" \in Point \ FetchPoint
  BY DEF FetchSn, At, Point, AgreePoint, FetchPoint
<1>2. result.rows # {} /\ result.rows \subseteq SnRow
  BY DEF FetchSn, At, IInv, Owner
<1>3. (CHOOSE r \in result.rows : TRUE) \in result.rows
  BY <1>2
<1>4. sn \in Nat
  BY <1>2, <1>3 DEF SnRow
<1> HIDE DEF sn
<1>5. job[w] \in Job /\ job[w].req \in Request
  BY <1>1, BusyFacts DEF IInv
<1>6. [job[w] EXCEPT !.key = sn] \in Job /\ [job[w] EXCEPT !.key = sn].req = job[w].req
  BY <1>4, <1>5, JobUpdates DEF Job
<1>7. Keep(w, "lockKeys", [job[w] EXCEPT !.key = sn]) \/ Goto(w, "rollback")
  BY DEF FetchSn, sn
<1>8. Leaves(w)
  BY <1>1, <1>5, <1>6, <1>7, KeepControl, GotoControl DEF IInv
<1> QED  BY <1>1, <1>8, FetchStepSafe DEF FetchSn

LEMMA LockKeysSafe ==
  ASSUME IInv, NEW w \in Workers, LockKeys(w)
  PROVE  Safe
<1> DEFINE rows == ActiveOf(work.keys, Subject(w))
<1>1. pc[w] \in Point \ FetchPoint /\ pc[w] # "idle" /\ "rollback" \in Point \ FetchPoint
      /\ "fetchKeys" \in FetchPoint
  BY DEF LockKeys, At, Point, AgreePoint, FetchPoint
<1>2. rows \in SUBSET KeyRow
  BY DEF IInv, SessionInv, SessionTypeOK, Tables, ActiveOf
<1> HIDE DEF rows
<1>3. Sql(w, Select(rows), "fetchKeys", "rollback")
  BY DEF LockKeys, rows
<1>4. Failed(Select(rows)) /\ Goto(w, "rollback") => Leaves(w)
  BY <1>1, GotoControl DEF IInv
<1> QED  BY <1>1, <1>2, <1>3, <1>4, SelectSafe DEF Sql

LEMMA FetchKeysSafe ==
  ASSUME IInv, NEW w \in Workers, FetchKeys(w)
  PROVE  Safe
<1>1. pc[w] \in FetchPoint /\ pc[w] # "idle"
      /\ "rotate" \in Point \ FetchPoint /\ "rollback" \in Point \ FetchPoint
  BY DEF FetchKeys, At, Point, AgreePoint, FetchPoint
<1>2. Leaves(w)
  BY <1>1, GotoControl DEF FetchKeys, IInv
<1> QED  BY <1>1, <1>2, FetchStepSafe DEF FetchKeys

LEMMA RotateSafe ==
  ASSUME IInv, NEW w \in Workers, Rotate(w)
  PROVE  Safe
<1> DEFINE e == Update(ActiveOf(work.keys, Subject(w)), "Rotated")
<1>1. pc[w] \in Point \ (FetchPoint \cup {"idle"})
      /\ "insert" \in Point \ FetchPoint /\ "rollback" \in Point \ FetchPoint
  BY DEF Rotate, At, Point, AgreePoint, FetchPoint
<1>2. Forward(e) /\ e.result = NoResult
  BY ActiveRows, UpdateForward DEF IInv, State
<1> HIDE DEF e
<1>3. Sql(w, e, "insert", "rollback")
  BY DEF Rotate, e
<1> QED  BY <1>1, <1>2, <1>3, SqlSafe

LEMMA InsertSafe ==
  ASSUME IInv, NEW w \in Workers, Insert(w)
  PROVE  Safe
<1> DEFINE t == [work EXCEPT !.keys = @ \cup {NewRow(w)}]
<1>1. pc[w] \in Point \ (FetchPoint \cup {"idle"})
      /\ "bumpSn" \in Point \ FetchPoint /\ "rollback" \in Point \ FetchPoint
  BY DEF Insert, At, Point, AgreePoint, FetchPoint
<1>2. NewRow(w) \in KeyRow
  BY <1>1, BusyFacts DEF IInv, NewRow, KeyRow, Job, State
<1>3. work \in Tables /\ work.keys \in SUBSET KeyRow
  BY DEF IInv, SessionInv, SessionTypeOK, Tables
<1>4. t \in Tables /\ t.keys = work.keys \cup {NewRow(w)}
  BY <1>2, <1>3 DEF Tables
<1>5. Advances(work.keys, t.keys)
  BY <1>3, <1>4, InsertAdvances
<1> HIDE DEF t
<1>6. CASE Ready /\ Taken(w)
  <2>1. Denied /\ Goto(w, "rollback") /\ Frame /\ UNCHANGED <<shm, faults>>
    BY <1>6 DEF Insert
  <2>2. Leaves(w)
    BY <1>1, <2>1, GotoControl DEF IInv
  <2>3. Quiet
    BY <2>1 DEF Denied, Quiet
  <2>4. Owner'
    BY <1>1, <2>2, <2>3, QuietOwner DEF IInv
  <2>5. SessionInv' /\ Advances(durable.keys, durable'.keys)
    BY <2>1, DeniedSafe DEF IInv
  <2> QED  BY <2>1, <2>2, <2>4, <2>5, FrameCache DEF Safe, IInv, CacheInv, Leaves
<1>7. CASE ~(Ready /\ Taken(w))
  <2>1. Sql(w, Write(t, TRUE), "bumpSn", "rollback")
    BY <1>7 DEF Insert, t
  <2>2. Forward(Write(t, TRUE))
    BY <1>4, <1>5, WriteForward DEF IInv
  <2>3. Write(t, TRUE).result = NoResult
    BY DEF Write
  <2> QED  BY <1>1, <2>1, <2>2, <2>3, SqlSafe
<1> QED  BY <1>6, <1>7

LEMMA BumpSnSafe ==
  ASSUME IInv, NEW w \in Workers, BumpSn(w)
  PROVE  Safe
<1> DEFINE t == [work EXCEPT !.sn = @ + 1]
<1>1. pc[w] \in Point \ (FetchPoint \cup {"idle"})
      /\ "commit" \in Point \ FetchPoint /\ "rollback" \in Point \ FetchPoint
  BY DEF BumpSn, At, Point, AgreePoint, FetchPoint
<1>2. t \in Tables /\ t.keys = work.keys
  BY DEF IInv, SessionInv, SessionTypeOK, Tables
<1> HIDE DEF t
<1>3. Sql(w, Write(t, TRUE), "commit", "rollback")
  BY DEF BumpSn, t
<1> QED  BY <1>1, <1>2, <1>3, OtherWriteForward, SqlSafe DEF IInv

LEMMA CommitTxnSafe ==
  ASSUME IInv, NEW w \in Workers, CommitTxn(w)
  PROVE  Safe
<1>1. pc[w] \in Point \ (FetchPoint \cup {"idle"})
      /\ "publish" \in Point \ FetchPoint /\ "rollback" \in Point \ FetchPoint
  BY DEF CommitTxn, At, Point, AgreePoint, FetchPoint
<1>2. Forward(Commit) /\ Commit.result = NoResult
  BY TransactionForward DEF IInv, Commit
<1>3. Sql(w, Commit, "publish", "rollback")
  BY DEF CommitTxn
<1> QED  BY <1>1, <1>2, <1>3, SqlSafe

LEMMA RollBackSafe ==
  ASSUME IInv, NEW w \in Workers, RollBack(w)
  PROVE  Safe
<1>1. pc[w] \in Point \ FetchPoint /\ pc[w] # "idle"
  BY DEF RollBack, At, Point, AgreePoint, FetchPoint
<1>2. Leaves(w)
  BY <1>1, ReplyControl DEF RollBack, IInv
<1>3. Rollback.result = NoResult /\ (Executed(Rollback) \/ Failed(Rollback))
  BY DEF RollBack, RolledBack, Failed, Rollback
<1>4. Owner'
  BY <1>1, <1>2, <1>3, StatementQuiet, QuietOwner DEF IInv
<1>5. SessionInv' /\ Advances(durable.keys, durable'.keys)
  BY RolledBackSafe DEF RollBack, IInv
<1> QED  BY <1>2, <1>4, <1>5, FrameCache DEF Safe, IInv, CacheInv, RollBack, Leaves

LEMMA PublishSafe ==
  ASSUME IInv, NEW w \in Workers, Publish(w)
  PROVE  Safe
<1> DEFINE node == [client |-> Subject(w), key |-> job[w].key, mat |-> job[w].tok, status |-> 1]
<1>1. pc[w] \in Point \ FetchPoint /\ pc[w] # "idle"
  BY DEF Publish, At, Point, AgreePoint, FetchPoint
<1>2. Leaves(w)
  BY <1>1, ReplyControl DEF Publish, IInv
<1>3. node \in Node
  BY <1>1, BusyFacts DEF IInv, Node, Job
<1> HIDE DEF node
<1>4. shm' = shmWrite(shm, node) /\ Frame /\ UNCHANGED sessionVars
  BY DEF Publish, node
<1>5. shm' \in Shm
  BY <1>3, <1>4, WriteType DEF IInv, CacheInv
<1> QED  BY <1>1, <1>2, <1>4, <1>5, FrameCache, LocalSafe DEF IInv

LEMMA AgreeSafe ==
  ASSUME IInv, NEW w \in Workers, Agree(w)
  PROVE  Safe
  BY VerifySafe, BeginSafe, LockSnSafe, FetchSnSafe, LockKeysSafe, FetchKeysSafe,
     RotateSafe, InsertSafe, BumpSnSafe, CommitTxnSafe, RollBackSafe, PublishSafe
  DEF Agree
-----------------------------------------------------------------------------
(* The lifecycle check, key check and logout.                              *)

\* Where a verdict on the key leads, nobody waits for a result.
LEMMA PassedControl ==
  ASSUME Control, NEW w \in Workers, pc[w] # "idle", Passed(w)
  PROVE  Leaves(w)
<1>1. job[w].stage \in Stage
  BY DEF Control, Job
<1>2. "peer" \in Point \ FetchPoint /\ "store" \in Point \ FetchPoint
      /\ "KEY_INVALID" \in Code
  BY DEF Point, SendPoint, FetchPoint, Code
<1>3. Reply(w, "SUCCESS") \/ Goto(w, "peer") \/ Goto(w, "store")
      \/ AuditThenReply(w, "KEY_INVALID")
  BY <1>1 DEF Passed, Stage
<1> QED  BY <1>2, <1>3, GotoControl, ReplyControl, AuditControl

LEMMA RefusedControl ==
  ASSUME Control, NEW w \in Workers, pc[w] # "idle", Refused(w)
  PROVE  Leaves(w)
<1>1. "cacheOff" \in Point \ FetchPoint /\ "KEY_NOT_FOUND" \in Code
  BY DEF Point, KeyPoint, FetchPoint, Code
<1>2. Goto(w, "cacheOff") \/ Reply(w, "KEY_INVALID") \/ AuditThenReply(w, "KEY_NOT_FOUND")
  BY DEF Refused
<1> QED  BY <1>1, <1>2, GotoControl, ReplyControl, AuditControl

\* A statement that is no SELECT, with any way of going on.
LEMMA StatementStepSafe ==
  ASSUME IInv, NEW w \in Workers, pc[w] \in Point \ FetchPoint,
         NEW e, Forward(e), e.result = NoResult, Executed(e) \/ Failed(e),
         Leaves(w), Frame, UNCHANGED shm
  PROVE  Safe
<1>1. SessionInv' /\ Advances(durable.keys, durable'.keys)
  BY StatementSafe DEF IInv
<1>2. Owner'
  BY StatementQuiet, QuietOwner DEF IInv
<1> QED  BY <1>1, <1>2, FrameCache DEF Safe, IInv, CacheInv, Leaves

LEMMA ExpireSafe ==
  ASSUME IInv, NEW w \in Workers, Expire(w)
  PROVE  Safe
<1> DEFINE over == {r \in KeysWhere(work.keys, Subject(w), job[w].key, "Active") :
                      <<r.client, r.key>> \in lapsed}
           e == Update(over, "Expired")
<1>1. pc[w] \in Point \ FetchPoint /\ pc[w] # "idle" /\ "find" \in Point \ FetchPoint
  BY DEF Expire, At, Point, KeyPoint, FetchPoint
<1>2. over \in SUBSET work.keys /\ \A r \in over : r.state = "Active"
  BY ActiveRows
<1> HIDE DEF over
<1>3. Forward(e) /\ e.result = NoResult
  BY <1>2, UpdateForward DEF IInv, State
<1> HIDE DEF e
<1>4. \/ Executed(e) /\ Goto(w, "find")
      \/ Failed(e) /\ Refused(w)
  BY DEF Expire, over, e
<1>5. Leaves(w)
  BY <1>1, <1>4, GotoControl, RefusedControl DEF IInv
<1>6. Frame /\ UNCHANGED shm
  BY DEF Expire
<1> QED  BY <1>1, <1>3, <1>4, <1>5, <1>6, StatementStepSafe

LEMMA FindSafe ==
  ASSUME IInv, NEW w \in Workers, Find(w)
  PROVE  Safe
<1> DEFINE rows == {r \in work.keys : r.client = Subject(w) /\ r.key = job[w].key}
<1>1. pc[w] \in Point \ FetchPoint /\ pc[w] # "idle" /\ "fetch" \in FetchPoint
  BY DEF Find, At, Point, KeyPoint, FetchPoint
<1>2. rows \in SUBSET KeyRow
  BY DEF IInv, SessionInv, SessionTypeOK, Tables
<1> HIDE DEF rows
<1>3. /\ \/ Executed(Select(rows)) /\ Goto(w, "fetch")
         \/ Failed(Select(rows)) /\ Refused(w)
      /\ Frame /\ UNCHANGED shm
  BY DEF Find, rows
<1>4. Refused(w) => Leaves(w)
  BY <1>1, RefusedControl DEF IInv
<1> QED  BY <1>1, <1>2, <1>3, <1>4, SelectSafe

LEMMA FetchStateSafe ==
  ASSUME IInv, NEW w \in Workers, Fetch(w)
  PROVE  Safe
<1>1. pc[w] \in FetchPoint /\ pc[w] # "idle"
  BY DEF Fetch, At, FetchPoint
<1>2. (Passed(w) \/ Refused(w)) /\ (Fetched \/ FetchFailed) /\ Frame /\ UNCHANGED shm
  BY DEF Fetch
<1>3. Leaves(w)
  BY <1>1, <1>2, PassedControl, RefusedControl DEF IInv
<1> QED  BY <1>1, <1>2, <1>3, FetchStepSafe

LEMMA CacheOffSafe ==
  ASSUME IInv, NEW w \in Workers, CacheOff(w)
  PROVE  Safe
<1>1. pc[w] \in Point \ FetchPoint /\ pc[w] # "idle" /\ "KEY_INVALID" \in Code
  BY DEF CacheOff, At, Point, KeyPoint, FetchPoint, Code
<1>2. Reply(w, "SUCCESS") \/ Reply(w, "KEY_INVALID") \/ AuditThenReply(w, "KEY_INVALID")
  BY <1>1, BusyFacts DEF IInv, CacheOff
<1>3. Leaves(w)
  BY <1>1, <1>2, ReplyControl, AuditControl DEF IInv
<1>4. shm' \in Shm
  BY UpdateStatusType DEF CacheOff, IInv, CacheInv
<1>5. Frame /\ UNCHANGED sessionVars
  BY DEF CacheOff
<1> QED  BY <1>1, <1>3, <1>4, <1>5, FrameCache, LocalSafe DEF IInv

LEMMA SnapshotSafe ==
  ASSUME IInv, NEW w \in Workers, Snapshot(w)
  PROVE  Safe
<1> DEFINE j == [job[w] EXCEPT !.node = shmRead(shm, Subject(w))]
<1>1. pc[w] \in Point \ FetchPoint /\ pc[w] # "idle" /\ "expire" \in Point \ FetchPoint
  BY DEF Snapshot, At, Point, KeyPoint, FetchPoint
<1>2. shmRead(shm, Subject(w)) \in Node
  BY ReadType DEF IInv, CacheInv
<1>3. j \in Job /\ j.req \in Request
  BY <1>1, <1>2, BusyFacts, JobUpdates DEF IInv, Job
<1> HIDE DEF j
<1>4. Keep(w, "expire", j) /\ Frame /\ UNCHANGED <<sessionVars, shm>>
  BY DEF Snapshot, j
<1>5. Leaves(w)
  BY <1>1, <1>3, <1>4, KeepControl DEF IInv
<1> QED  BY <1>1, <1>4, <1>5, FrameCache, LocalSafe DEF IInv, CacheInv

LEMMA RevokeSafe ==
  ASSUME IInv, NEW w \in Workers, Revoke(w)
  PROVE  Safe
<1> DEFINE e == Update(KeysWhere(work.keys, Subject(w), job[w].key, "Active"), "Revoked")
<1>1. pc[w] \in Point \ FetchPoint /\ pc[w] # "idle" /\ "affected" \in Point \ FetchPoint
  BY DEF Revoke, At, Point, KeyPoint, FetchPoint
<1>2. Forward(e) /\ e.result = NoResult
  BY ActiveRows, UpdateForward DEF IInv, State
<1> HIDE DEF e
<1>3. /\ \/ Executed(e) /\ Goto(w, "affected")
         \/ Failed(e) /\ Reply(w, "KEY_LOGOUT_FAILED")
      /\ Frame /\ UNCHANGED shm
  BY DEF Revoke, e
<1>4. Leaves(w)
  BY <1>1, <1>3, GotoControl, ReplyControl DEF IInv
<1> QED  BY <1>1, <1>2, <1>3, <1>4, StatementStepSafe

LEMMA AffectedSafe ==
  ASSUME IInv, NEW w \in Workers, Affected(w)
  PROVE  Safe
<1>1. pc[w] \in Point \ FetchPoint /\ pc[w] # "idle" /\ "cacheOff" \in Point \ FetchPoint
  BY DEF Affected, At, Point, KeyPoint, FetchPoint
<1>2. Leaves(w)
  BY <1>1, GotoControl, ReplyControl DEF Affected, IInv
<1> QED  BY <1>1, <1>2, FrameCache, LocalSafe DEF IInv, CacheInv, Affected

LEMMA CheckOrLogoutSafe ==
  ASSUME IInv, NEW w \in Workers, CheckOrLogout(w)
  PROVE  Safe
  BY ExpireSafe, FindSafe, FetchStateSafe, CacheOffSafe, SnapshotSafe, RevokeSafe, AffectedSafe
  DEF CheckOrLogout
-----------------------------------------------------------------------------
(* Sending a message.                                                      *)

LEMMA ValidateSafe ==
  ASSUME IInv, NEW w \in Workers, Validate(w)
  PROVE  Safe
<1>1. pc[w] \in Point \ FetchPoint /\ pc[w] # "idle" /\ "lookup" \in Point \ FetchPoint
      /\ "INVALID_REQUEST" \in Code
  BY DEF Validate, At, Point, SendPoint, FetchPoint, Code
<1>2. Leaves(w)
  BY <1>1, GotoControl, AuditControl DEF Validate, IInv
<1> QED  BY <1>1, <1>2, FrameCache, LocalSafe DEF IInv, CacheInv, Validate

LEMMA LookupSafe ==
  ASSUME IInv, NEW w \in Workers, Lookup(w)
  PROVE  Safe
<1> DEFINE node == shmRead(shm, Subject(w))
           j == [job[w] EXCEPT !.node = node]
<1>1. pc[w] \in Point \ FetchPoint /\ pc[w] # "idle" /\ "expire" \in Point \ FetchPoint
      /\ "KEY_INVALID" \in Code
  BY DEF Lookup, At, Point, SendPoint, KeyPoint, FetchPoint, Code
<1>2. node \in Node
  BY ReadType DEF IInv, CacheInv
<1>3. j \in Job /\ j.req \in Request
  BY <1>1, <1>2, BusyFacts, JobUpdates DEF IInv, Job
<1>4. AuditThenReply(w, "KEY_INVALID") \/ Keep(w, "expire", j)
  BY DEF Lookup
<1> HIDE DEF node, j
<1>5. Leaves(w)
  BY <1>1, <1>3, <1>4, KeepControl, AuditControl DEF IInv
<1> QED  BY <1>1, <1>5, FrameCache, LocalSafe DEF IInv, CacheInv, Lookup

LEMMA PeerSafe ==
  ASSUME IInv, NEW w \in Workers, Peer(w)
  PROVE  Safe
<1> DEFINE node == shmRead(shm, job[w].req.to)
           j == [job[w] EXCEPT !.stage = "receiver", !.key = node.key]
<1>1. pc[w] \in Point \ FetchPoint /\ pc[w] # "idle" /\ "lookup" \in Point \ FetchPoint
      /\ "DECRYPT_FAILED" \in Code /\ "KEY_NOT_FOUND" \in Code
  BY DEF Peer, At, Point, SendPoint, FetchPoint, Code
<1>2. node.key \in Nat /\ "receiver" \in Stage
  BY ReadType DEF IInv, CacheInv, Node, Stage
<1>3. j \in Job /\ j.req \in Request
  BY <1>1, <1>2, BusyFacts, JobUpdates DEF IInv, Job
<1>4. AuditThenReply(w, "DECRYPT_FAILED") \/ AuditThenReply(w, "KEY_NOT_FOUND")
      \/ Keep(w, "lookup", j)
  BY DEF Peer
<1> HIDE DEF node, j
<1>5. Leaves(w)
  BY <1>1, <1>3, <1>4, KeepControl, AuditControl DEF IInv
<1> QED  BY <1>1, <1>5, FrameCache, LocalSafe DEF IInv, CacheInv, Peer

LEMMA StoreSafe ==
  ASSUME IInv, NEW w \in Workers, Store(w)
  PROVE  Safe
<1> DEFINE t == [work EXCEPT !.msgs = @ \cup {Message(w)}]
<1>1. pc[w] \in Point \ FetchPoint /\ pc[w] # "idle"
      /\ "SUCCESS" \in Code /\ "FAILED" \in Code
  BY DEF Store, insertMessageLog, At, Point, SendPoint, FetchPoint, Code
<1>2. Message(w) \in MsgRow
  BY <1>1, BusyFacts DEF IInv, Message, MsgRow, Job, Node, Request
<1>3. t \in Tables /\ t.keys = work.keys
  BY <1>2 DEF IInv, SessionInv, SessionTypeOK, Tables
<1> HIDE DEF t
<1>4. /\ \/ Executed(Write(t, TRUE)) \/ Failed(Write(t, TRUE)) \/ UNCHANGED sessionVars
      /\ AuditThenReply(w, "SUCCESS") \/ AuditThenReply(w, "FAILED")
      /\ Frame /\ UNCHANGED shm
  BY DEF Store, insertMessageLog, t
<1>5. Leaves(w)
  BY <1>1, <1>4, AuditControl DEF IInv
<1>6. Forward(Write(t, TRUE)) /\ Write(t, TRUE).result = NoResult
  BY <1>3, OtherWriteForward DEF IInv
<1>7. CASE UNCHANGED sessionVars
  BY <1>1, <1>4, <1>5, <1>7, FrameCache, LocalSafe DEF IInv, CacheInv
<1> QED  BY <1>1, <1>4, <1>5, <1>6, <1>7, StatementStepSafe

LEMMA AuditSafe ==
  ASSUME IInv, NEW w \in Workers, Audit(w)
  PROVE  Safe
<1> DEFINE row == [id |-> job[w].tok, ok |-> job[w].code = "SUCCESS"]
           t == [work EXCEPT !.audit = @ \cup {row}]
<1>1. pc[w] \in Point \ FetchPoint /\ pc[w] # "idle"
  BY DEF Audit, At, Point, SendPoint, FetchPoint
<1>2. row \in AuditRow
  <2>1. job[w].tok \in Nat
    BY <1>1, BusyFacts DEF IInv, Job
  <2>2. (job[w].code = "SUCCESS") \in BOOLEAN
    BY Zenon
  <2> QED  BY <2>1, <2>2, Zenon DEF AuditRow
<1> HIDE DEF row
<1>3. t \in Tables /\ t.keys = work.keys
  BY <1>2 DEF IInv, SessionInv, SessionTypeOK, Tables
<1> HIDE DEF t
<1>4. /\ Executed(Write(t, TRUE)) \/ Failed(Write(t, TRUE))
      /\ Reply(w, job[w].code) /\ Frame /\ UNCHANGED shm
  BY DEF Audit, row, t
<1>5. Leaves(w)
  BY <1>1, <1>4, ReplyControl DEF IInv
<1> QED  BY <1>1, <1>3, <1>4, <1>5, OtherWriteForward, StatementStepSafe DEF IInv

LEMMA SendSafe ==
  ASSUME IInv, NEW w \in Workers, Send(w)
  PROVE  Safe
  BY ValidateSafe, LookupSafe, PeerSafe, StoreSafe, AuditSafe DEF Send
-----------------------------------------------------------------------------
(* The environment, and the theorems.                                      *)

LEMMA LapseSafe ==
  ASSUME IInv, Lapse
  PROVE  Safe
<1>1. lapsed' \subseteq Clients \X Nat
  BY DEF Lapse, IInv, CacheInv, SessionInv, SessionTypeOK, Tables, KeyRow
<1>2. SessionInv' /\ Advances(durable.keys, durable'.keys)
  BY UntouchedSafe DEF IInv, Lapse
<1>3. UNCHANGED <<sessionVars, shm, seq, pc, job, acks>>
  BY DEF Lapse
<1>4. Control' /\ CacheInv'
  BY <1>1, <1>3 DEF IInv, Control, CacheInv
<1>5. Owner'
  BY <1>3 DEF IInv, Owner, sessionVars
<1> QED  BY <1>2, <1>4, <1>5 DEF Safe, IInv

LEMMA RestartSafe ==
  ASSUME IInv, Restart
  PROVE  Safe
<1>1. SessionInv' /\ Advances(durable.keys, durable'.keys)
  BY ReconnectedSafe DEF IInv, Restart
<1>2. \A w \in Workers : pc'[w] = "idle"
  BY DEF Restart
<1>3. Control'
  BY <1>2, NoJobType, PointFacts DEF IInv, Control, Restart
<1>4. Owner'
  BY <1>2 DEF Owner, FetchPoint, Restart, Reconnected, NoResult
<1> QED  BY <1>1, <1>3, <1>4 DEF Safe, IInv, CacheInv, Restart

LEMMA StutterSafe ==
  ASSUME IInv, UNCHANGED vars
  PROVE  Safe
<1>1. SessionInv' /\ Advances(durable.keys, durable'.keys)
  BY UntouchedSafe DEF IInv, vars, sessionVars
<1>2. Control' /\ CacheInv' /\ Owner'
  BY DEF IInv, vars, Control, CacheInv, Owner
<1> QED  BY <1>1, <1>2 DEF Safe, IInv

LEMMA InitIInv == Init => IInv
<1> SUFFICES ASSUME Init PROVE IInv
  OBVIOUS
<1>1. SessionInv
  BY SessionInitInv DEF Init
<1>2. CacheInv
  BY EmptyShmType, BoundsAssumption DEF Init, CacheInv
<1>3. Control
  BY NoJobType, PointFacts DEF Init, Control
<1>4. Owner
  BY DEF Init, SessionInit, NoResult, Owner, FetchPoint
<1> QED  BY <1>1, <1>2, <1>3, <1>4 DEF IInv

LEMMA NextSafe ==
  ASSUME IInv, [Next]_vars
  PROVE  Safe
<1>1. ASSUME NEW w \in Workers, Handle(w) PROVE Safe
  BY <1>1, AgreeSafe, CheckOrLogoutSafe, SendSafe DEF Handle
<1>2. CASE Done
  BY <1>2, StutterSafe DEF Done
<1> QED  BY <1>1, <1>2, TakeSafe, LapseSafe, RestartSafe, StutterSafe DEF Next

LEMMA Inductive == Spec => []IInv
<1>1. IInv /\ [Next]_vars => IInv'
  BY NextSafe DEF Safe
<1> QED  BY <1>1, InitIInv, PTL DEF Spec

\* Types, for any number of threads, clients, slots, requests and failures.
THEOREM KeyServerTypes == Spec => []TypeOK
<1>1. IInv => TypeOK
  BY DEF IInv, SessionInv, CacheInv, Control, TypeOK, Shm
<1> QED  BY <1>1, Inductive, PTL

\* KeyLifecycle.h: whatever the threads interleave and whatever fails, no commit,
\* rollback or implicit commit of the shared session takes a committed key out of
\* a final state, changes its owner or bytes, or loses it.
THEOREM KeyServerStatesFinal == Spec => CommittedStatesFinal
<1>1. IInv /\ [Next]_vars => [Advances(durable.keys, durable'.keys)]_vars
  BY NextSafe DEF Safe
<1> QED  BY <1>1, Inductive, PTL DEF Spec, CommittedStatesFinal
-----------------------------------------------------------------------------
(* Whose the waiting result is.                                            *)

\* A step of w in which nothing is waited for, its wait begins, or it ends.
Waits(w) ==
  \E p : /\ pc' = [pc EXCEPT ![w] = p]
         /\ \/ pc[w] \notin FetchPoint /\ p \notin FetchPoint /\ Quiet
            \/ p \in FetchPoint /\ ~result.waiting
            \/ pc[w] \in FetchPoint /\ p \notin FetchPoint /\ ~result'.waiting

LEMMA HandleWaits ==
  ASSUME IInv, NEW w \in Workers, Handle(w)
  PROVE  Waits(w)
<1>1. ASSUME NEW code, Reply(w, code) \/ AuditThenReply(w, code)
      PROVE  \E p : pc' = [pc EXCEPT ![w] = p] /\ p \notin FetchPoint
  BY <1>1, PointFacts DEF Reply, AuditThenReply, Keep
<1>2. ASSUME pc[w] # "idle", Passed(w) \/ Refused(w)
      PROVE  \E p : pc' = [pc EXCEPT ![w] = p] /\ p \notin FetchPoint
  BY <1>2, PassedControl, RefusedControl DEF Leaves, IInv
<1>3. CASE FetchSn(w) \/ FetchKeys(w) \/ Fetch(w)
  <2>1. pc[w] \in FetchPoint /\ pc[w] # "idle" /\ (Fetched \/ FetchFailed)
    BY <1>3 DEF FetchSn, FetchKeys, Fetch, At, FetchPoint
  <2>2. "lockKeys" \notin FetchPoint /\ "rollback" \notin FetchPoint /\ "rotate" \notin FetchPoint
    BY DEF FetchPoint
  <2>3. \E p : pc' = [pc EXCEPT ![w] = p] /\ p \notin FetchPoint
    BY <1>2, <1>3, <2>1, <2>2 DEF FetchSn, FetchKeys, Fetch, Goto, Keep
  <2> QED  BY <2>1, <2>3, FetchEnds DEF Waits
<1>4. CASE LockSn(w) \/ LockKeys(w) \/ Find(w)
  <2>1. pc[w] \notin FetchPoint /\ pc[w] # "idle" /\ "rollback" \notin FetchPoint
        /\ "fetchSn" \in FetchPoint /\ "fetchKeys" \in FetchPoint /\ "fetch" \in FetchPoint
    BY <1>4 DEF LockSn, LockKeys, Find, At, FetchPoint
  <2>2. PICK rows : \/ Executed(Select(rows)) /\ \E p \in FetchPoint : Goto(w, p)
                    \/ Failed(Select(rows)) /\ (Goto(w, "rollback") \/ Refused(w))
    BY <1>4, <2>1 DEF LockSn, LockKeys, Find, Sql
  <2>3. CASE Executed(Select(rows)) /\ \E p \in FetchPoint : Goto(w, p)
    BY <2>3 DEF Executed, Ready, Goto, Waits
  <2>4. CASE Failed(Select(rows)) /\ (Goto(w, "rollback") \/ Refused(w))
    <3>1. \E p : pc' = [pc EXCEPT ![w] = p] /\ p \notin FetchPoint
      BY <1>2, <2>1, <2>4 DEF Goto
    <3> QED  BY <2>1, <2>4, <3>1, FailedQuiet DEF Waits
  <2> QED  BY <2>2, <2>3, <2>4
<1>5. CASE ~(FetchSn(w) \/ FetchKeys(w) \/ Fetch(w) \/ LockSn(w) \/ LockKeys(w) \/ Find(w))
  <2>1. pc[w] \notin FetchPoint /\ pc[w] # "idle"
    BY <1>5 DEF Handle, Agree, Verify, Begin, Rotate, Insert, BumpSn, CommitTxn, RollBack, Publish,
                CheckOrLogout, Snapshot, Expire, CacheOff, Revoke, Affected, Send, Validate,
                Lookup, Peer, Store, Audit, At, FetchPoint
  <2>2. \/ \E p \in Point \ FetchPoint : Goto(w, p) \/ \E j : Keep(w, p, j)
        \/ \E code : Reply(w, code) \/ AuditThenReply(w, code)
        \/ Refused(w)
    BY <1>5 DEF Handle, Agree, Verify, Begin, Rotate, Insert, BumpSn, CommitTxn, RollBack, Publish,
                CheckOrLogout, Snapshot, Expire, CacheOff, Revoke, Affected, Send, Validate,
                Lookup, Peer, Store, Audit, Sql, Point, AgreePoint, KeyPoint, SendPoint, FetchPoint
  <2>3. \E p : pc' = [pc EXCEPT ![w] = p] /\ p \notin FetchPoint
    BY <1>1, <1>2, <2>1, <2>2 DEF Goto, Keep
  <2>4. \/ UNCHANGED sessionVars \/ Denied
        \/ \E e : e.result = NoResult /\ (Executed(e) \/ Failed(e))
    <3>1. /\ StartTransaction.result = NoResult /\ Commit.result = NoResult
          /\ Rollback.result = NoResult /\ \A t, c : Write(t, c).result = NoResult
          /\ \A rows, s : Update(rows, s).result = NoResult
      BY DEF StartTransaction, Commit, Rollback, Write, Update
    <3>2. CASE Agree(w)
      BY <1>5, <3>1, <3>2 DEF Agree, Verify, Begin, Rotate, Insert, BumpSn, CommitTxn, RollBack,
                              RolledBack, Publish, Sql, Failed
    <3>3. CASE CheckOrLogout(w)
      BY <1>5, <3>1, <3>3 DEF CheckOrLogout, Snapshot, Expire, CacheOff, Revoke, Affected
    <3>4. CASE Validate(w) \/ Lookup(w) \/ Peer(w)
      <4>1. UNCHANGED sessionVars
        BY <3>4 DEF Validate, Lookup, Peer
      <4> QED  BY <4>1
    <3>5. CASE Store(w) \/ Audit(w)
      <4>1. UNCHANGED sessionVars \/ \E t : Executed(Write(t, TRUE)) \/ Failed(Write(t, TRUE))
        BY <3>5 DEF Store, insertMessageLog, Audit
      <4> QED  BY <3>1, <4>1
    <3> QED  BY <3>2, <3>3, <3>4, <3>5 DEF Handle, Send
  <2>5. Quiet
    BY <2>4, StatementQuiet, UntouchedQuiet DEF Denied, Quiet
  <2> QED  BY <2>1, <2>3, <2>5 DEF Waits
<1> QED  BY <1>3, <1>4, <1>5

LEMMA InitOwned == Init => ResultHasOwner
  BY DEF Init, SessionInit, NoResult, ResultHasOwner, FetchPoint

\* When handlers alone use the session, a result that waits is one of theirs.
LEMMA NextOwned ==
  ASSUME IInv, ResultHasOwner, [Next]_vars
  PROVE  ResultHasOwner'
<1>0. Owner'
  BY NextSafe DEF Safe, IInv
<1> SUFFICES ASSUME result'.waiting PROVE \E v \in Workers : pc'[v] \in FetchPoint
  BY <1>0 DEF ResultHasOwner, Owner
<1>1. ASSUME NEW w \in Workers, Handle(w)  PROVE \E v \in Workers : pc'[v] \in FetchPoint
  <2>1. PICK p : /\ pc' = [pc EXCEPT ![w] = p]
                 /\ \/ pc[w] \notin FetchPoint /\ p \notin FetchPoint /\ Quiet
                    \/ p \in FetchPoint
    BY <1>1, HandleWaits DEF Waits
  <2>2. CASE p \in FetchPoint
    BY <2>1, <2>2 DEF IInv, Control
  <2>3. CASE pc[w] \notin FetchPoint /\ Quiet
    <3>1. PICK v \in Workers : pc[v] \in FetchPoint
      BY <2>3 DEF Quiet, ResultHasOwner
    <3> QED  BY <2>1, <2>3, <3>1 DEF IInv, Control
  <2> QED  BY <2>1, <2>2, <2>3
<1>2. ASSUME NEW w \in Workers, NEW r \in Requests, Take(w, r)
      PROVE  \E v \in Workers : pc'[v] \in FetchPoint
  <2>1. PICK v \in Workers : pc[v] \in FetchPoint
    BY <1>2 DEF Take, sessionVars, ResultHasOwner
  <2>2. pc' = [pc EXCEPT ![w] = Entry(r.op)] /\ pc[w] \notin FetchPoint
    BY <1>2 DEF Take, At, Keep, FetchPoint
  <2> QED  BY <2>1, <2>2 DEF IInv, Control
<1>3. CASE Restart
  BY <1>3 DEF Restart, Reconnected, NoResult
<1>4. CASE UNCHANGED <<sessionVars, pc>>
  BY <1>4 DEF sessionVars, ResultHasOwner
<1> QED  BY <1>1, <1>2, <1>3, <1>4 DEF Next, Lapse, Done, vars, sessionVars

\* mysqlOP.cpp: on every path of every handler, a result set left waiting in the
\* shared connection has exactly one thread, and that thread is about to fetch it.
THEOREM KeyServerResultOwned == Spec => []ResultHasOwner
<1> QED  BY InitOwned, Inductive, NextOwned, PTL DEF Spec
-----------------------------------------------------------------------------
(* A thread at a point of a handler works on a request of that handler.    *)
(* This holds for any number of threads.                                   *)

\* The points at which it is decided whether a key is Active, and what follows.
CheckPoint == {"expire", "find", "fetch"}

CourseAt(p, j) ==
  /\ j.tok \in 0 .. MaxReq
  /\ p \in AgreePoint => j.req.op = "agree" /\ j.stage = "own"
  /\ p \in {"revoke", "affected"} => j.req.op = "logout" /\ j.stage = "own"
  /\ p = "snapshot" => j.req.op = "check" /\ j.stage = "own"
  /\ p \in SendPoint => j.req.op = "send" /\ j.stage # "own"
  /\ p \in CheckPoint => j.req.op # "logout"
  /\ p \in CheckPoint \cup {"cacheOff"} =>
       j.req.op # "agree" /\ (j.stage = "own" <=> j.req.op # "send")

Course == \A w \in Workers : CourseAt(pc[w], job[w])

\* A step of w changes the place of w alone.
LEMMA CourseOf ==
  ASSUME Control, Course, NEW w \in Workers, NEW p, NEW j,
         pc' = [pc EXCEPT ![w] = p], job' = [job EXCEPT ![w] = j], CourseAt(p, j)
  PROVE  Course'
<1> SUFFICES ASSUME NEW v \in Workers PROVE CourseAt(pc'[v], job'[v])
  BY DEF Course
<1>1. CASE v = w
  BY <1>1 DEF Control
<1>2. CASE v # w
  BY <1>2 DEF Control, Course
<1> QED  BY <1>1, <1>2

LEMMA GotoCourse ==
  ASSUME Control, Course, NEW w \in Workers, NEW p, Goto(w, p), CourseAt(p, job[w])
  PROVE  Course'
<1>1. pc' = [pc EXCEPT ![w] = p] /\ job' = [job EXCEPT ![w] = job[w]]
  BY DEF Goto, Control
<1> QED  BY <1>1, CourseOf

LEMMA ReplyCourse ==
  ASSUME Control, Course, NEW w \in Workers, NEW code, Reply(w, code)
  PROVE  Course'
<1>1. CourseAt("idle", NoJob)
  BY BoundsAssumption DEF CourseAt, NoJob, AgreePoint, SendPoint, CheckPoint
<1> QED  BY <1>1, CourseOf DEF Reply

LEMMA AuditCourse ==
  ASSUME Control, Course, NEW w \in Workers, NEW code, AuditThenReply(w, code),
         job[w].req.op = "send", job[w].stage # "own"
  PROVE  Course'
<1> DEFINE j == [job[w] EXCEPT !.code = code]
<1>1. j.tok = job[w].tok /\ j.req = job[w].req /\ j.stage = job[w].stage
  BY DEF Control, Job
<1>2. CourseAt("audit", j)
  BY <1>1 DEF Course, CourseAt, AgreePoint, SendPoint, CheckPoint
<1> QED  BY <1>2, CourseOf DEF AuditThenReply, Keep

LEMMA AgreeCourse ==
  ASSUME Control, Course, NEW w \in Workers, Agree(w)
  PROVE  Course'
<1>1. CourseAt(pc[w], job[w])
  BY DEF Course
<1>2. ASSUME NEW p \in AgreePoint, pc[w] \in AgreePoint, Goto(w, p)  PROVE Course'
  <2>1. CourseAt(p, job[w])
    BY <1>1, <1>2 DEF CourseAt, AgreePoint, SendPoint, CheckPoint
  <2> QED  BY <1>2, <2>1, GotoCourse
<1>3. ASSUME FetchSn(w)  PROVE Course'
  <2>1. PICK n : Keep(w, "lockKeys", [job[w] EXCEPT !.key = n]) \/ Goto(w, "rollback")
    BY <1>3 DEF FetchSn
  <2>2. CourseAt("lockKeys", [job[w] EXCEPT !.key = n])
    BY <1>1, <1>3 DEF FetchSn, At, Control, Job, CourseAt, AgreePoint, SendPoint, CheckPoint
  <2>3. pc[w] \in AgreePoint
    BY <1>3 DEF FetchSn, At, AgreePoint
  <2> QED  BY <1>2, <2>1, <2>2, <2>3, CourseOf DEF Keep, AgreePoint
<1>4. pc[w] \in AgreePoint
      /\ (FetchSn(w) \/ (\E p \in AgreePoint : Goto(w, p)) \/ (\E c : Reply(w, c)))
  BY DEF Agree, Verify, Begin, LockSn, FetchSn, LockKeys, FetchKeys, Rotate, Insert, BumpSn,
         CommitTxn, RollBack, Publish, Sql, At, AgreePoint
<1> QED  BY <1>2, <1>3, <1>4, ReplyCourse

LEMMA PassedCourse ==
  ASSUME Control, Course, NEW w \in Workers, pc[w] \in CheckPoint, Passed(w)
  PROVE  Course'
<1>1. CourseAt(pc[w], job[w]) /\ job[w].stage \in Stage
  BY DEF Course, Control, Job
<1>2. CASE Reply(w, "SUCCESS")
  BY <1>2, ReplyCourse
<1>3. CASE job[w].stage # "own"
  <2>1. job[w].req.op = "send"
    BY <1>1, <1>3 DEF CourseAt
  <2>2. CourseAt("peer", job[w]) /\ CourseAt("store", job[w])
    BY <1>1, <1>3, <2>1 DEF CourseAt, AgreePoint, SendPoint, CheckPoint
  <2> QED  BY <1>1, <1>3, <2>1, <2>2, GotoCourse, AuditCourse DEF Passed, Stage
<1> QED  BY <1>1, <1>2, <1>3 DEF Passed, Stage

LEMMA RefusedCourse ==
  ASSUME Control, Course, NEW w \in Workers, pc[w] \in CheckPoint, Refused(w)
  PROVE  Course'
<1>1. CourseAt(pc[w], job[w])
  BY DEF Course
<1>2. CourseAt("cacheOff", job[w])
  BY <1>1 DEF CourseAt, AgreePoint, SendPoint, CheckPoint
<1>3. job[w].stage # "own" => job[w].req.op = "send"
  BY <1>1 DEF CourseAt
<1> QED  BY <1>2, <1>3, GotoCourse, ReplyCourse, AuditCourse DEF Refused

LEMMA CheckOrLogoutCourse ==
  ASSUME Control, Course, NEW w \in Workers, CheckOrLogout(w)
  PROVE  Course'
<1>0. CourseAt(pc[w], job[w])
  BY DEF Course
<1> USE DEF CourseAt, AgreePoint, SendPoint, CheckPoint
<1>1. CASE Snapshot(w)
  <2> DEFINE j == [job[w] EXCEPT !.node = shmRead(shm, Subject(w))]
  <2>1. j.tok = job[w].tok /\ j.req = job[w].req /\ j.stage = job[w].stage
    BY DEF Control, Job
  <2>2. CourseAt("expire", j)
    BY <1>0, <1>1, <2>1 DEF Snapshot, At
  <2> QED  BY <1>1, <2>2, CourseOf DEF Snapshot, Keep
<1>2. CASE Expire(w)
  <2>1. CourseAt("find", job[w])
    BY <1>0, <1>2 DEF Expire, At
  <2> QED  BY <1>2, <2>1, GotoCourse, RefusedCourse DEF Expire, At
<1>3. CASE Find(w)
  <2>1. CourseAt("fetch", job[w])
    BY <1>0, <1>3 DEF Find, At
  <2> QED  BY <1>3, <2>1, GotoCourse, RefusedCourse DEF Find, At
<1>4. CASE Fetch(w)
  BY <1>4, PassedCourse, RefusedCourse DEF Fetch, At
<1>5. CASE CacheOff(w)
  <2>1. /\ job[w].req.op \in {"logout", "check", "send"}
        /\ job[w].stage = "own" <=> job[w].req.op # "send"
    BY <1>0, <1>5 DEF CacheOff, At, Control, Request, Op
  <2> QED  BY <1>5, <2>1, ReplyCourse, AuditCourse DEF CacheOff
<1>6. CASE Revoke(w)
  <2>1. CourseAt("affected", job[w])
    BY <1>0, <1>6 DEF Revoke, At
  <2> QED  BY <1>6, <2>1, GotoCourse, ReplyCourse DEF Revoke
<1>7. CASE Affected(w)
  <2>1. CourseAt("cacheOff", job[w])
    BY <1>0, <1>7 DEF Affected, At
  <2> QED  BY <1>7, <2>1, GotoCourse, ReplyCourse DEF Affected
<1> QED  BY <1>1, <1>2, <1>3, <1>4, <1>5, <1>6, <1>7 DEF CheckOrLogout

LEMMA SendCourse ==
  ASSUME Control, Course, NEW w \in Workers, Send(w)
  PROVE  Course'
<1>0. CourseAt(pc[w], job[w])
  BY DEF Course
<1>1. job[w].req.op = "send" /\ job[w].stage # "own"
  BY <1>0 DEF Send, Validate, Lookup, Peer, Store, insertMessageLog, Audit, At, CourseAt, SendPoint
<1>2. ASSUME NEW j, NEW p \in {"expire", "lookup"}, Keep(w, p, j),
             j.tok = job[w].tok, j.req = job[w].req, j.stage # "own"
      PROVE  Course'
  <2>1. CourseAt(p, j)
    BY <1>0, <1>1, <1>2 DEF CourseAt, AgreePoint, SendPoint, CheckPoint
  <2> QED  BY <1>2, <2>1, CourseOf DEF Keep
<1>3. CASE Validate(w)
  <2>1. CourseAt("lookup", job[w])
    BY <1>0, <1>1 DEF CourseAt, AgreePoint, SendPoint, CheckPoint
  <2> QED  BY <1>1, <1>3, <2>1, GotoCourse, AuditCourse DEF Validate
<1>4. CASE Lookup(w)
  <2> DEFINE j == [job[w] EXCEPT !.node = shmRead(shm, Subject(w))]
  <2>1. j.tok = job[w].tok /\ j.req = job[w].req /\ j.stage = job[w].stage
    BY DEF Control, Job
  <2>2. AuditThenReply(w, "KEY_INVALID") \/ Keep(w, "expire", j)
    BY <1>4 DEF Lookup
  <2> HIDE DEF j
  <2> QED  BY <1>1, <1>2, <2>1, <2>2, AuditCourse
<1>5. CASE Peer(w)
  <2> DEFINE j == [job[w] EXCEPT !.stage = "receiver",
                                 !.key = shmRead(shm, job[w].req.to).key]
  <2>1. j.tok = job[w].tok /\ j.req = job[w].req /\ j.stage = "receiver"
    BY DEF Control, Job
  <2>2. (\E c : AuditThenReply(w, c)) \/ Keep(w, "lookup", j)
    BY <1>5 DEF Peer
  <2> HIDE DEF j
  <2> QED  BY <1>1, <1>2, <2>1, <2>2, AuditCourse
<1>6. CASE Store(w)
  BY <1>1, <1>6, AuditCourse DEF Store, insertMessageLog
<1>7. CASE Audit(w)
  BY <1>7, ReplyCourse DEF Audit
<1> QED  BY <1>3, <1>4, <1>5, <1>6, <1>7 DEF Send

LEMMA TakeCourse ==
  ASSUME IInv, Course, NEW w \in Workers, NEW r \in Requests, Take(w, r)
  PROVE  Course'
<1> DEFINE s == IF r.op = "send" THEN "sender" ELSE "own"
           j == [NoJob EXCEPT !.req = r, !.tok = seq + 1, !.key = r.key, !.stage = s]
<1>1. r \in Request /\ seq + 1 \in 0 .. MaxReq
  BY RequestsAssumption, BoundsAssumption DEF IInv, CacheInv, Take
<1>2. j.req = r /\ j.tok = seq + 1 /\ j.stage = s
  BY DEF NoJob
<1>3. Keep(w, Entry(r.op), j)
  BY DEF Take
<1> HIDE DEF j
<1>4. CourseAt(Entry(r.op), j)
  BY <1>1, <1>2 DEF Request, Op, Entry, CourseAt, AgreePoint, SendPoint, CheckPoint
<1> QED  BY <1>3, <1>4, CourseOf DEF IInv, Keep

LEMMA NextCourse ==
  ASSUME IInv, Course, [Next]_vars
  PROVE  Course'
<1>1. ASSUME NEW w \in Workers, Handle(w) PROVE Course'
  BY <1>1, AgreeCourse, CheckOrLogoutCourse, SendCourse DEF Handle, IInv
<1>2. CASE UNCHANGED <<pc, job>>
  BY <1>2 DEF Course
<1>3. CASE Restart
  <2>1. CourseAt("idle", NoJob)
    BY BoundsAssumption DEF CourseAt, NoJob, AgreePoint, SendPoint, CheckPoint
  <2> QED  BY <1>3, <2>1 DEF Restart, Course
<1> QED  BY <1>1, <1>2, <1>3, TakeCourse DEF Next, Lapse, Done, vars

LEMMA CourseHolds == Spec => []Course
<1>1. Init => Course
  BY BoundsAssumption DEF Init, Course, CourseAt, NoJob, AgreePoint, SendPoint, CheckPoint
<1> QED  BY <1>1, Inductive, NextCourse, PTL DEF Spec
-----------------------------------------------------------------------------
(* Key numbers and key bytes, for any number of threads: what is cached    *)
(* was answered to its client with that number, so a message encrypted     *)
(* with a cached key is recorded under the key's own number.               *)

Vouched(A, c, k, m) ==
  \E a \in A : a.req.op = "agree" /\ a.req.from = c /\ a.key = k /\ a.tok = m

\* The node a handler carries is a copy of a slot and, from the check of the
\* receiver's key on, the receiver's.
NodeAt(A, p, j) ==
  /\ j.node.client # NoClient => Vouched(A, j.node.client, j.node.key, j.node.mat)
  /\ p \in CheckPoint /\ j.stage = "receiver" => j.node.client \in {j.req.to, NoClient}
  /\ p = "store" => j.node.client = j.req.to /\ j.node.key = j.key

MatchInv ==
  /\ durable.msgs \subseteq work.msgs
  /\ \A m \in work.msgs : Vouched(acks, m.to, m.receiverKey, m.mat)
  /\ \A i \in Slots : shm[i] # EmptyNode => Vouched(acks, shm[i].client, shm[i].key, shm[i].mat)
  /\ \A w \in Workers : NodeAt(acks, pc[w], job[w])

\* A step of w changes its own place only, to one that fits.
Moved(w) ==
  \E p, j : /\ pc' = [pc EXCEPT ![w] = p] /\ job' = [job EXCEPT ![w] = j]
            /\ NodeAt(acks, p, j)

\* What is vouched for stays so: no answer is taken back.
LEMMA VouchedStays ==
  ASSUME acks \subseteq acks'
  PROVE  \A c, k, m : Vouched(acks, c, k, m) => Vouched(acks', c, k, m)
  BY DEF Vouched

LEMMA MatchOf ==
  ASSUME Control, MatchInv, NEW w \in Workers, Moved(w), acks \subseteq acks',
         durable'.msgs \subseteq work'.msgs,
         \A m \in work'.msgs : m \in work.msgs \/ Vouched(acks, m.to, m.receiverKey, m.mat),
         \A i \in Slots : shm'[i] # EmptyNode =>
           \/ Vouched(acks, shm'[i].client, shm'[i].key, shm'[i].mat)
           \/ Vouched(acks', shm'[i].client, shm'[i].key, shm'[i].mat)
  PROVE  MatchInv'
<1>1. \A m \in work'.msgs : Vouched(acks', m.to, m.receiverKey, m.mat)
  BY VouchedStays DEF MatchInv
<1>2. \A i \in Slots : shm'[i] # EmptyNode =>
        Vouched(acks', shm'[i].client, shm'[i].key, shm'[i].mat)
  BY VouchedStays
<1>3. ASSUME NEW v \in Workers  PROVE NodeAt(acks', pc'[v], job'[v])
  <2>1. PICK p, j : /\ pc' = [pc EXCEPT ![w] = p] /\ job' = [job EXCEPT ![w] = j]
                    /\ NodeAt(acks, p, j)
    BY DEF Moved
  <2>2. CASE v = w
    <3>1. pc'[v] = p /\ job'[v] = j
      BY <2>1, <2>2 DEF Control
    <3> QED  BY <2>1, <3>1, VouchedStays DEF NodeAt
  <2>3. CASE v # w
    <3>1. pc'[v] = pc[v] /\ job'[v] = job[v] /\ NodeAt(acks, pc[v], job[v])
      BY <2>1, <2>3 DEF Control, MatchInv
    <3> QED  BY <3>1, VouchedStays DEF NodeAt
  <2> QED  BY <2>2, <2>3
<1> QED  BY <1>1, <1>2, <1>3 DEF MatchInv

\* The ways of going on that need nothing of the node.
LEMMA GoingOn ==
  ASSUME Control, MatchInv, NEW w \in Workers
  PROVE  /\ \A p : p \notin CheckPoint \cup {"store"} /\ Goto(w, p) => Moved(w) /\ acks' = acks
         /\ \A p : pc[w] \in CheckPoint /\ p # "store" /\ Goto(w, p) => Moved(w) /\ acks' = acks
<1>1. NodeAt(acks, pc[w], job[w]) /\ job = [job EXCEPT ![w] = job[w]]
  BY DEF MatchInv, Control
<1>2. ASSUME NEW p, p \notin CheckPoint \cup {"store"}, Goto(w, p)  PROVE Moved(w) /\ acks' = acks
  <2>1. NodeAt(acks, p, job[w])
    BY <1>1, <1>2 DEF NodeAt
  <2> QED  BY <1>1, <1>2, <2>1 DEF Goto, Moved
<1>3. ASSUME NEW p, pc[w] \in CheckPoint, p # "store", Goto(w, p)
      PROVE  Moved(w) /\ acks' = acks
  <2>1. NodeAt(acks, p, job[w])
    BY <1>1, <1>3 DEF NodeAt
  <2> QED  BY <1>1, <1>3, <2>1 DEF Goto, Moved
<1> QED  BY <1>2, <1>3

LEMMA Returning ==
  ASSUME Control, MatchInv, NEW w \in Workers, NEW code, Reply(w, code)
  PROVE  Moved(w) /\ acks \subseteq acks'
<1>1. NodeAt(acks, "idle", NoJob)
  BY DEF NodeAt, NoJob, EmptyNode, CheckPoint
<1> QED  BY <1>1 DEF Reply, Moved

LEMMA Auditing ==
  ASSUME Control, MatchInv, NEW w \in Workers, NEW code, AuditThenReply(w, code)
  PROVE  Moved(w) /\ acks' = acks
<1> DEFINE j == [job[w] EXCEPT !.code = code]
<1>1. j.node = job[w].node
  BY DEF Control, Job
<1>2. NodeAt(acks, "audit", j)
  BY <1>1 DEF MatchInv, NodeAt, CheckPoint
<1>3. Keep(w, "audit", j)
  BY DEF AuditThenReply
<1> HIDE DEF j
<1> QED  BY <1>2, <1>3 DEF Keep, Moved

LEMMA VerdictMoved ==
  ASSUME Control, MatchInv, NEW w \in Workers, pc[w] \in CheckPoint, Passed(w) \/ Refused(w)
  PROVE  Moved(w) /\ acks \subseteq acks'
<1>0. job[w].stage \in Stage
  BY DEF Control, Job
<1>1. CASE job[w].stage = "receiver" /\ Hit(w) /\ Goto(w, "store")
  <2>1. NodeAt(acks, "store", job[w]) /\ job = [job EXCEPT ![w] = job[w]]
    BY <1>1 DEF MatchInv, NodeAt, Hit, CheckPoint, Control
  <2> QED  BY <1>1, <2>1 DEF Goto, Moved
<1>2. \/ (job[w].stage = "receiver" /\ Hit(w) /\ Goto(w, "store"))
      \/ Goto(w, "peer") \/ Goto(w, "cacheOff")
      \/ \E code : Reply(w, code) \/ AuditThenReply(w, code)
  BY <1>0 DEF Passed, Refused, Stage
<1> QED  BY <1>1, <1>2, GoingOn, Returning, Auditing DEF CheckPoint

\* A node read is a copy of one of the client's slots, or zero.
LEMMA ReadVouched ==
  ASSUME shm \in Shm, MatchInv, NEW c \in Clients
  PROVE  LET node == shmRead(shm, c)
         IN  /\ node.client \in {c, NoClient}
             /\ node.client # NoClient => Vouched(acks, node.client, node.key, node.mat)
<1>1. CASE SlotsOf(shm, c) = {}
  BY <1>1 DEF shmRead, EmptyNode
<1>2. CASE SlotsOf(shm, c) # {}
  <2>1. PICK i \in Slots : shmRead(shm, c) = shm[i] /\ shm[i].client = c
    BY <1>2, FirstSlot, SlotsOfSubset DEF shmRead, SlotsOf
  <2>2. shm[i] # EmptyNode
    BY <2>1, NoClientAssumption DEF EmptyNode
  <2> QED  BY <2>1, <2>2 DEF MatchInv
<1> QED  BY <1>1, <1>2

\* Taking the node into the local variables before a check.
LEMMA NodeTaken ==
  ASSUME Control, shm \in Shm, MatchInv, NEW w \in Workers, pc[w] # "idle",
         Keep(w, "expire", [job[w] EXCEPT !.node = shmRead(shm, Subject(w))])
  PROVE  Moved(w) /\ acks' = acks
<1> DEFINE node == shmRead(shm, Subject(w))
           j == [job[w] EXCEPT !.node = node]
<1>1. /\ node.client \in {Subject(w), NoClient}
      /\ node.client # NoClient => Vouched(acks, node.client, node.key, node.mat)
  BY BusyFacts, ReadVouched
<1> HIDE DEF node
<1>2. j.node = node /\ j.stage = job[w].stage /\ j.req = job[w].req
  BY DEF Control, Job
<1>3. NodeAt(acks, "expire", j)
  BY <1>1, <1>2 DEF NodeAt, Subject
<1>4. Keep(w, "expire", j)
  BY DEF node
<1> HIDE DEF j
<1> QED  BY <1>3, <1>4 DEF Keep, Moved

\* Each step of a handler moves its thread.
LEMMA HandleMoved ==
  ASSUME IInv, Course, MatchInv, NEW w \in Workers, Handle(w)
  PROVE  Moved(w) /\ acks \subseteq acks'
<1>0. Control /\ shm \in Shm
  BY DEF IInv, CacheInv
<1>1. CASE FetchSn(w)
  <2>1. PICK n : Keep(w, "lockKeys", [job[w] EXCEPT !.key = n]) \/ Goto(w, "rollback")
    BY <1>1 DEF FetchSn
  <2> DEFINE j == [job[w] EXCEPT !.key = n]
  <2>2. j.node = job[w].node
    BY <1>0 DEF Control, Job
  <2>3. NodeAt(acks, "lockKeys", j)
    BY <2>2 DEF MatchInv, NodeAt, CheckPoint
  <2>4. Keep(w, "lockKeys", j) \/ Goto(w, "rollback")
    BY <2>1
  <2> HIDE DEF j
  <2> QED  BY <1>0, <2>3, <2>4, GoingOn DEF Keep, Moved, CheckPoint
<1>2. CASE Agree(w) /\ ~FetchSn(w)
  <2>1. (\E p \in AgreePoint : Goto(w, p)) \/ (\E code : Reply(w, code))
    BY <1>2 DEF Agree, Verify, Begin, LockSn, LockKeys, FetchKeys, Rotate, Insert, BumpSn,
                CommitTxn, RollBack, Publish, Sql, AgreePoint
  <2> QED  BY <1>0, <2>1, GoingOn, Returning DEF AgreePoint, CheckPoint
<1>3. CASE CheckOrLogout(w)
  <2>1. \/ Keep(w, "expire", [job[w] EXCEPT !.node = shmRead(shm, Subject(w))]) /\ pc[w] # "idle"
        \/ pc[w] \in CheckPoint /\ (Passed(w) \/ Refused(w) \/ Goto(w, "find") \/ Goto(w, "fetch"))
        \/ Goto(w, "affected") \/ Goto(w, "cacheOff")
        \/ (\E code : Reply(w, code) \/ AuditThenReply(w, code))
    BY <1>3 DEF CheckOrLogout, Snapshot, Expire, Find, Fetch, CacheOff, Revoke, Affected, At,
                CheckPoint
  <2> QED  BY <1>0, <2>1, GoingOn, Returning, Auditing, VerdictMoved, NodeTaken DEF CheckPoint
<1>4. CASE Send(w)
  <2> DEFINE j == [job[w] EXCEPT !.stage = "receiver", !.key = shmRead(shm, job[w].req.to).key]
  <2>1. CASE Keep(w, "lookup", j)
    <3>1. j.node = job[w].node
      BY <1>0 DEF Control, Job
    <3>2. NodeAt(acks, "lookup", j)
      BY <3>1 DEF MatchInv, NodeAt, CheckPoint
    <3> HIDE DEF j
    <3> QED  BY <2>1, <3>2 DEF Keep, Moved
  <2>2. \/ Keep(w, "lookup", j) \/ Goto(w, "lookup")
        \/ Keep(w, "expire", [job[w] EXCEPT !.node = shmRead(shm, Subject(w))]) /\ pc[w] # "idle"
        \/ (\E code : Reply(w, code) \/ AuditThenReply(w, code))
    BY <1>4 DEF Send, Validate, Lookup, Peer, Store, insertMessageLog, Audit, At
  <2> HIDE DEF j
  <2> QED  BY <1>0, <2>1, <2>2, GoingOn, Returning, Auditing, NodeTaken DEF CheckPoint
<1> QED  BY <1>1, <1>2, <1>3, <1>4 DEF Handle

\* The statements keep every committed message in sight, and none but the INSERT
\* of a message brings one in.
LEMMA StatementMsgs ==
  ASSUME durable.msgs \subseteq work.msgs, NEW more, NEW e, Executed(e) \/ Failed(e),
         e.durable.msgs \subseteq e.work.msgs, e.work.msgs \subseteq work.msgs \cup more
  PROVE  durable'.msgs \subseteq work'.msgs /\ work'.msgs \subseteq work.msgs \cup more
  BY DEF Executed, Failed, Unsendable, Rejected, Denied, LinkLost, sessionVars

NoMsgs(e) == e.durable.msgs \subseteq e.work.msgs /\ e.work.msgs \subseteq work.msgs

LEMMA EffectMsgs ==
  ASSUME work \in Tables, durable.msgs \subseteq work.msgs
  PROVE  /\ \A e \in {StartTransaction, Commit, Rollback} : NoMsgs(e)
         /\ \A rows : NoMsgs(Select(rows))
         /\ \A t, changed : t.msgs = work.msgs => NoMsgs(Write(t, changed))
         /\ \A rows, s : NoMsgs(Update(rows, s))
  BY DEF NoMsgs, StartTransaction, Commit, Rollback, Select, Write, Update, Tables

LEMMA HandleMsgs ==
  ASSUME IInv, durable.msgs \subseteq work.msgs, NEW w \in Workers, Handle(w)
  PROVE  /\ durable'.msgs \subseteq work'.msgs
         /\ work'.msgs \subseteq work.msgs \cup (IF Store(w) THEN {Message(w)} ELSE {})
<1>0. work \in Tables
  BY DEF IInv, SessionInv, SessionTypeOK
<1>1. CASE UNCHANGED sessionVars \/ Fetched \/ FetchFailed \/ Denied
  BY <1>1 DEF sessionVars, Fetched, FetchFailed, Denied
<1>2. ASSUME NEW e, Executed(e) \/ Failed(e), NoMsgs(e)
      PROVE  durable'.msgs \subseteq work'.msgs /\ work'.msgs \subseteq work.msgs
  BY <1>2 DEF NoMsgs, Executed, Failed, Unsendable, Rejected, Denied, LinkLost, sessionVars
<1>3. CASE RollBack(w) \/ Begin(w) \/ CommitTxn(w)
  <2>1. \E e \in {StartTransaction, Commit, Rollback} : Executed(e) \/ Failed(e)
    BY <1>3 DEF RollBack, RolledBack, Begin, CommitTxn, Sql, Failed
  <2> QED  BY <1>0, <1>2, <2>1, EffectMsgs
<1>4. CASE LockSn(w) \/ LockKeys(w) \/ Find(w)
  <2>1. \E rows : Executed(Select(rows)) \/ Failed(Select(rows))
    BY <1>4 DEF LockSn, LockKeys, Find, Sql
  <2> QED  BY <1>0, <1>2, <2>1, EffectMsgs
<1>5. CASE Rotate(w) \/ Expire(w) \/ Revoke(w)
  <2>1. \E rows, s : Executed(Update(rows, s)) \/ Failed(Update(rows, s))
    BY <1>5 DEF Rotate, Expire, Revoke, Sql
  <2> QED  BY <1>0, <1>2, <2>1, EffectMsgs
<1>6. CASE Insert(w) \/ BumpSn(w) \/ Audit(w)
  <2>1. Denied \/ \E t : t.msgs = work.msgs /\ (Executed(Write(t, TRUE)) \/ Failed(Write(t, TRUE)))
    <3>1. /\ [work EXCEPT !.keys = @ \cup {NewRow(w)}].msgs = work.msgs
          /\ [work EXCEPT !.sn = @ + 1].msgs = work.msgs
          /\ \A rows : [work EXCEPT !.audit = @ \cup rows].msgs = work.msgs
      BY <1>0 DEF Tables
    <3> QED  BY <1>6, <3>1 DEF Insert, BumpSn, Audit, Sql
  <2> QED  BY <1>0, <1>1, <1>2, <2>1, EffectMsgs
<1>7. CASE Store(w)
  <2> DEFINE t == [work EXCEPT !.msgs = @ \cup {Message(w)}]
  <2>1. t.msgs = work.msgs \cup {Message(w)}
    BY <1>0 DEF Tables
  <2>2. UNCHANGED sessionVars \/ Executed(Write(t, TRUE)) \/ Failed(Write(t, TRUE))
    BY <1>7 DEF Store, insertMessageLog
  <2> HIDE DEF t
  <2>3. /\ Write(t, TRUE).durable.msgs \subseteq Write(t, TRUE).work.msgs
        /\ Write(t, TRUE).work.msgs \subseteq work.msgs \cup {Message(w)}
    BY <2>1 DEF Write
  <2> QED  BY <1>1, <1>7, <2>2, <2>3, StatementMsgs
<1> QED  BY <1>1, <1>3, <1>4, <1>5, <1>6, <1>7
         DEF Handle, Agree, CheckOrLogout, Send, Verify, FetchSn, FetchKeys, Publish, Snapshot,
             Fetch, CacheOff, Affected, Validate, Lookup, Peer

\* The slots: an agreement publishes what it answers; a check switches a status.
LEMMA HandleSlots ==
  ASSUME IInv, Course, MatchInv, NEW w \in Workers, Handle(w)
  PROVE  \A i \in Slots : shm'[i] # EmptyNode =>
           \/ Vouched(acks, shm'[i].client, shm'[i].key, shm'[i].mat)
           \/ Vouched(acks', shm'[i].client, shm'[i].key, shm'[i].mat)
<1>0. shm \in Shm
  BY DEF IInv, CacheInv
<1>1. CASE shm' = shm
  BY <1>1 DEF MatchInv
<1>2. CASE Publish(w)
  <2> DEFINE node == [client |-> Subject(w), key |-> job[w].key, mat |-> job[w].tok, status |-> 1]
             a    == [req |-> job[w].req, key |-> job[w].key, tok |-> job[w].tok]
  <2>1. pc[w] = "publish" /\ shm' = shmWrite(shm, node) /\ Reply(w, "SUCCESS")
    BY <1>2 DEF Publish, At
  <2>2. job[w].req.op = "agree" /\ Subject(w) = job[w].req.from
    BY <2>1 DEF Subject, Course, CourseAt, AgreePoint
  <2>3. a \in acks' /\ a.req = job[w].req /\ a.key = job[w].key /\ a.tok = job[w].tok
    BY <2>1 DEF Reply
  <2>4. Vouched(acks', node.client, node.key, node.mat)
    BY <2>2, <2>3 DEF Vouched
  <2>5. \A i \in Slots : shm'[i] \in {shm[i], node}
    BY <1>0, <2>1, WriteSlots
  <2> QED  BY <2>4, <2>5 DEF MatchInv
<1>3. CASE CacheOff(w)
  <2>1. pc[w] # "idle" /\ shm' = shmUpdateStatus(shm, Subject(w), 0)
    BY <1>3 DEF CacheOff, At
  <2>2. Subject(w) \in Clients
    BY <2>1, BusyFacts DEF IInv
  <2>3. ASSUME NEW i \in Slots
        PROVE  \/ shm'[i] = shm[i]
               \/ /\ shm[i] # EmptyNode
                  /\ shm'[i] = [shm[i] EXCEPT !.status = 0]
    BY <1>0, <2>1, <2>2, UpdateStatusSlots
  <2>4. ASSUME NEW i \in Slots
        PROVE  /\ shm'[i].client = shm[i].client /\ shm'[i].key = shm[i].key
               /\ shm'[i].mat = shm[i].mat /\ (shm'[i] # EmptyNode => shm[i] # EmptyNode)
    BY <1>0, <2>3 DEF Shm, Node
  <2> QED  BY <2>4 DEF MatchInv
<1>4. shm' = shm \/ Publish(w) \/ CacheOff(w)
  BY DEF Handle, Agree, Verify, Begin, LockSn, FetchSn, LockKeys, FetchKeys, Rotate, Insert, BumpSn,
         CommitTxn, RollBack, CheckOrLogout, Snapshot, Expire, Find, Fetch, Revoke, Affected, Send,
         Validate, Lookup, Peer, Store, insertMessageLog, Audit, Sql
<1> QED  BY <1>1, <1>2, <1>3, <1>4

LEMMA NextMatch ==
  ASSUME IInv, Course, MatchInv, [Next]_vars
  PROVE  MatchInv'
<1>0. Control
  BY DEF IInv
<1>1. ASSUME NEW w \in Workers, Handle(w)  PROVE MatchInv'
  <2>1. Store(w) => Vouched(acks, Message(w).to, Message(w).receiverKey, Message(w).mat)
    <3>1. ASSUME Store(w)
          PROVE  Vouched(acks, Message(w).to, Message(w).receiverKey, Message(w).mat)
      <4>1. pc[w] = "store" /\ job[w].req.to \in Clients
        BY <1>0, <3>1, BusyFacts DEF Store, insertMessageLog, At
      <4> QED  BY <4>1, NoClientAssumption DEF MatchInv, NodeAt, Message
    <3> QED  BY <3>1
  <2>2. /\ durable'.msgs \subseteq work'.msgs
        /\ \A m \in work'.msgs : m \in work.msgs \/ Vouched(acks, m.to, m.receiverKey, m.mat)
    BY <1>1, <2>1, HandleMsgs DEF MatchInv
  <2> QED  BY <1>0, <1>1, <2>2, HandleMoved, HandleSlots, MatchOf
<1>2. ASSUME NEW w \in Workers, NEW r \in Requests, Take(w, r)  PROVE MatchInv'
  <2> DEFINE s == IF r.op = "send" THEN "sender" ELSE "own"
             j == [NoJob EXCEPT !.req = r, !.tok = seq + 1, !.key = r.key, !.stage = s]
  <2>1. Keep(w, Entry(r.op), j) /\ work' = work /\ durable' = durable /\ shm' = shm
    BY <1>2 DEF Take, sessionVars
  <2>2. j.node.client = NoClient
    BY DEF NoJob, EmptyNode
  <2>3. Entry(r.op) \notin CheckPoint \cup {"store"}
    BY RequestsAssumption DEF Entry, Request, Op, CheckPoint
  <2> HIDE DEF j
  <2>4. Moved(w) /\ acks' = acks
    BY <2>1, <2>2, <2>3 DEF Keep, Moved, NodeAt
  <2>5. \A i \in Slots : shm'[i] # EmptyNode =>
          Vouched(acks, shm'[i].client, shm'[i].key, shm'[i].mat)
    BY <2>1 DEF MatchInv
  <2> QED  BY <1>0, <2>1, <2>4, <2>5, MatchOf DEF MatchInv
<1>3. CASE Restart
  <2>1. /\ work' = durable /\ durable' = durable /\ shm' = shm /\ acks' = acks
        /\ \A w \in Workers : pc'[w] = "idle" /\ job'[w] = NoJob
    BY <1>3 DEF Restart, Reconnected
  <2>2. NodeAt(acks', "idle", NoJob)
    BY DEF NodeAt, NoJob, EmptyNode, CheckPoint
  <2> QED  BY <2>1, <2>2, VouchedStays DEF MatchInv, NodeAt, NoJob, EmptyNode, CheckPoint
<1>4. CASE UNCHANGED <<sessionVars, shm, pc, job, acks>>
  <2>1. work' = work /\ durable' = durable /\ shm' = shm /\ pc' = pc /\ job' = job /\ acks' = acks
    BY <1>4 DEF sessionVars
  <2> QED  BY <2>1 DEF MatchInv, NodeAt, Vouched
<1> QED  BY <1>1, <1>2, <1>3, <1>4 DEF Next, Lapse, Done, vars, sessionVars

LEMMA MatchHolds == Spec => []MatchInv
<1>1. Init => MatchInv
  BY DEF Init, SessionInit, EmptyTables, MatchInv, NodeAt, NoJob, EmptyNode, EmptyShm, CheckPoint
<1>2. IInv /\ Course /\ MatchInv /\ [Next]_vars => MatchInv'
  BY NextMatch
<1> QED  BY <1>1, <1>2, Inductive, CourseHolds, PTL DEF Spec

\* A message is never encrypted under one key of its receiver and recorded with the
\* number of another, however handlers, rotations and failures interleave
\* (handleSendMessage encrypts with the node whose number it stores).
THEOREM KeyServerMessageMatches == Spec => []MessageKeyMatchesNumber
<1>1. MatchInv => MessageKeyMatchesNumber
  BY DEF MatchInv, Vouched, MessageKeyMatchesNumber
<1> QED  BY <1>1, MatchHolds, PTL
-----------------------------------------------------------------------------
(* ONE THREAD.  The handlers on a pool of one thread, for any number of    *)
(* clients, slots, requests and failures: what is committed follows        *)
(* KeyLifecycle step by step, no transaction outlives its handler, the     *)
(* cache holds committed keys only, what is answered SUCCESS stays         *)
(* committed, audit_log tells the truth, a message is stored under Active  *)
(* keys, and the cache serves the Active keys it has room for.             *)

\* The abstract specification's own theorems, about the committed tables.
Facts == INSTANCE KeyLifecycle_proofs
           WITH keys <- durable.keys, sn <- durable.sn, KeyBytes <- 0 .. MaxReq

\* The pool has one thread (or none): the hypothesis of every theorem below.
OneThread == \A v, w \in Workers : v = w
-----------------------------------------------------------------------------
(* One thread: what the session sees at each point of an agreement, and    *)
(* that only an agreement under way has a transaction open.                *)

\* Between START TRANSACTION and COMMIT, and once the new key's number is read.
TxnPoint == {"lockSn", "fetchSn", "lockKeys", "fetchKeys", "rotate", "insert", "bumpSn", "commit"}

NumberedPoint == {"lockKeys", "fetchKeys", "rotate", "insert", "bumpSn", "commit"}

\* The tables as the session sees them at each point of the transaction.
Rotated(w) == SetState(durable.keys, ActiveOf(durable.keys, Subject(w)), "Rotated")

Reached(w) ==
  CASE pc[w] = "insert" -> [durable EXCEPT !.keys = Rotated(w)]
    [] pc[w] = "bumpSn" -> [durable EXCEPT !.keys = Rotated(w) \cup {NewRow(w)}]
    [] pc[w] = "commit" -> [durable EXCEPT !.keys = Rotated(w) \cup {NewRow(w)}, !.sn = @ + 1]
    [] OTHER            -> durable

Settled == ~inTxn /\ work = durable

Transaction ==
  /\ ~inTxn => work = durable
  /\ ~up => ~inTxn
  /\ inTxn => \E w \in Workers : pc[w] \in TxnPoint \cup {"rollback"}
  /\ \A w \in Workers : pc[w] \in TxnPoint =>
       /\ inTxn
       /\ work = Reached(w)
       /\ pc[w] = "fetchSn" => result.rows = {[ikeysn |-> durable.sn]}
       /\ pc[w] \in NumberedPoint => job[w].key = durable.sn

\* A step of the abstract specification, or none; no message is lost; and what
\* each handler changes in the tables.
Follows ==
  /\ Facts!Next \/ UNCHANGED <<durable.sn, durable.keys>>
  /\ durable.msgs \subseteq durable'.msgs
  /\ \/ durable'.keys = durable.keys
     \/ \E w \in Workers : pc[w] \in {"commit", "expire", "revoke"}
  /\ \/ durable'.msgs = durable.msgs /\ durable'.audit = durable.audit
     \/ \E w \in Workers : pc[w] \in {"store", "audit"}

SerialInv == IInv /\ ResultHasOwner /\ Course /\ Transaction /\ Facts!IInv

LEMMA StayFollows ==
  ASSUME durable' = durable
  PROVE  Follows
  BY DEF Follows

\* Outside an agreement's transaction what the session sees is committed.
LEMMA OutsideSettled ==
  ASSUME OneThread, Transaction, NEW w \in Workers, pc[w] \notin TxnPoint \cup {"rollback"}
  PROVE  Settled
  BY DEF OneThread, Transaction, Settled

LEMMA SettledTransaction ==
  ASSUME OneThread, NEW w \in Workers, pc'[w] \notin TxnPoint, Settled'
  PROVE  Transaction'
<1>1. \A v \in Workers : pc'[v] \notin TxnPoint
  BY DEF OneThread
<1> QED  BY <1>1 DEF Settled, Transaction

\* The handler goes on at p.
LEMMA GoesTo ==
  ASSUME Control, NEW w \in Workers
  PROVE  /\ \A p : Goto(w, p) => pc'[w] = p /\ job' = job
         /\ \A p, j : Keep(w, p, j) => pc'[w] = p /\ job'[w] = j
         /\ \A c : Reply(w, c) => pc'[w] = "idle" /\ job'[w] = NoJob
         /\ \A c : AuditThenReply(w, c) => pc'[w] = "audit" /\ job'[w] = [job[w] EXCEPT !.code = c]
  BY DEF Control, Goto, Keep, Reply, AuditThenReply

LEMMA PlainStatement ==
  ASSUME Settled, NEW e, e.inTxn = inTxn, e.work = e.durable, Executed(e) \/ Failed(e)
  PROVE  Settled' /\ durable' \in {durable, e.durable}
  BY DEF Settled, Executed, Failed, Unsendable, Rejected, Denied, LinkLost, sessionVars

LEMMA PlainFetch ==
  ASSUME Settled, Fetched \/ FetchFailed
  PROVE  Settled' /\ durable' = durable
  BY DEF Settled, Fetched, FetchFailed, sessionVars

\* A statement of the agreement fails: the transaction is still open, or gone
\* with the link.
LEMMA ToRollback ==
  ASSUME OneThread, Transaction, Control, NEW w \in Workers, Goto(w, "rollback"),
         NEW e, Failed(e) \/ (Denied /\ UNCHANGED faults)
  PROVE  Transaction' /\ durable' \in {durable, e.durable}
<1>1. \A v \in Workers : pc'[v] = "rollback"
  BY GoesTo DEF OneThread
<1>2. durable' \in {durable, e.durable} /\ (~inTxn' => work' = durable') /\ (~up' => ~inTxn')
  BY DEF Transaction, Failed, Unsendable, Rejected, Denied, LinkLost, sessionVars
<1> QED  BY <1>1, <1>2 DEF Transaction, TxnPoint
-----------------------------------------------------------------------------
(* The steps of an agreement.                                              *)

LEMMA BeginFollows ==
  ASSUME OneThread, SerialInv, NEW w \in Workers, Begin(w)
  PROVE  Transaction' /\ Follows
<1>1. Settled /\ Control
  BY OutsideSettled DEF SerialInv, IInv, Begin, At, TxnPoint
<1>2. CASE Executed(StartTransaction) /\ Goto(w, "lockSn")
  <2>1. inTxn' /\ work' = durable' /\ durable' = durable /\ up'
    BY <1>1, <1>2 DEF Executed, Ready, StartTransaction, Settled
  <2>2. \A v \in Workers : pc'[v] = "lockSn"
    BY <1>1, <1>2, GoesTo DEF OneThread
  <2>3. Transaction'
    BY <2>1, <2>2 DEF Transaction, TxnPoint, NumberedPoint, Reached
  <2> QED  BY <2>1, <2>3, StayFollows
<1>3. CASE Failed(StartTransaction) /\ Reply(w, "KEY_AGREE_FAILED")
  <2>1. Settled' /\ durable' = durable
    BY <1>1, <1>3 DEF Failed, Unsendable, Rejected, Denied, LinkLost, sessionVars, Settled,
                      StartTransaction
  <2>2. pc'[w] \notin TxnPoint
    BY <1>1, <1>3, GoesTo DEF TxnPoint
  <2> QED  BY <2>1, <2>2, SettledTransaction, StayFollows
<1> QED  BY <1>2, <1>3 DEF Begin

\* A statement of the transaction, and what the next point needs.
LEMMA TxnStatement ==
  ASSUME OneThread, SerialInv, NEW w \in Workers, pc[w] \in TxnPoint,
         NEW e, e.durable = durable, e.inTxn = inTxn,
         NEW p \in TxnPoint, Sql(w, e, p, "rollback"),
         Executed(e) /\ Goto(w, p) =>
           /\ work' = Reached(w)'
           /\ p = "fetchSn" => result'.rows = {[ikeysn |-> durable.sn]}
           /\ p \in NumberedPoint => pc[w] \in NumberedPoint
  PROVE  Transaction' /\ Follows
<1>1. Transaction /\ Control /\ inTxn
  BY DEF SerialInv, IInv, Transaction
<1>2. CASE Executed(e) /\ Goto(w, p)
  <2>1. inTxn' /\ durable' = durable /\ up'
    BY <1>1, <1>2 DEF Executed, Ready
  <2>2. \A v \in Workers : pc'[v] = p /\ v = w
    BY <1>1, <1>2, GoesTo DEF OneThread
  <2>3. p \in NumberedPoint => job'[w].key = durable'.sn
    BY <1>1, <1>2, <2>1 DEF Goto, Transaction
  <2>4. work' = Reached(w)' /\ (p = "fetchSn" => result'.rows = {[ikeysn |-> durable'.sn]})
    BY <1>2, <2>1
  <2>5. Transaction'
    BY <2>1, <2>2, <2>3, <2>4 DEF Transaction
  <2> QED  BY <2>1, <2>5, StayFollows
<1>3. CASE Failed(e) /\ Goto(w, "rollback")
  BY <1>1, <1>3, ToRollback, StayFollows
<1> QED  BY <1>2, <1>3 DEF Sql

LEMMA LockSnFollows ==
  ASSUME OneThread, SerialInv, NEW w \in Workers, LockSn(w)
  PROVE  Transaction' /\ Follows
<1> DEFINE e == Select({[ikeysn |-> work.sn]})
<1>1. pc[w] = "lockSn" /\ Sql(w, e, "fetchSn", "rollback")
  BY DEF LockSn, At
<1>2. inTxn /\ work = durable /\ Control
  BY <1>1 DEF SerialInv, IInv, Transaction, TxnPoint, Reached
<1>3. e.durable = durable /\ e.inTxn = inTxn
  BY <1>2 DEF Select
<1>4. Executed(e) /\ Goto(w, "fetchSn") =>
        work' = Reached(w)' /\ result'.rows = {[ikeysn |-> durable.sn]}
  BY <1>2, GoesTo DEF Executed, Select, Reached
<1> QED  BY <1>1, <1>3, <1>4, TxnStatement DEF TxnPoint, NumberedPoint

LEMMA LockKeysFollows ==
  ASSUME OneThread, SerialInv, NEW w \in Workers, LockKeys(w)
  PROVE  Transaction' /\ Follows
<1> DEFINE e == Select(ActiveOf(work.keys, Subject(w)))
<1>1. pc[w] = "lockKeys" /\ Sql(w, e, "fetchKeys", "rollback")
  BY DEF LockKeys, At
<1>2. inTxn /\ work = durable /\ Control
  BY <1>1 DEF SerialInv, IInv, Transaction, TxnPoint, Reached
<1>3. e.durable = durable /\ e.inTxn = inTxn
  BY <1>2 DEF Select
<1>4. Executed(e) /\ Goto(w, "fetchKeys") => work' = Reached(w)'
  BY <1>2, GoesTo DEF Executed, Select, Reached
<1> QED  BY <1>1, <1>3, <1>4, TxnStatement DEF TxnPoint, NumberedPoint

\* Fetching in the transaction: on, or back when the link is lost on the way.
LEMMA TxnFetch ==
  ASSUME OneThread, SerialInv, NEW w \in Workers, pc[w] \in {"fetchSn", "fetchKeys"},
         \/ /\ Fetched
            /\ \/ /\ pc'[w] \in {"lockKeys", "rotate"}
                  /\ job'[w].key = durable.sn
               \/ pc'[w] = "rollback"
         \/ FetchFailed /\ pc'[w] = "rollback"
  PROVE  Transaction' /\ Follows
<1>1. inTxn /\ work = durable /\ (~up => ~inTxn)
  BY DEF SerialInv, Transaction, TxnPoint, Reached
<1>2. durable' = durable /\ work' = durable' /\ (~up' => ~inTxn')
  BY <1>1 DEF Fetched, FetchFailed, sessionVars
<1>3. pc'[w] # "rollback" => inTxn' /\ job'[w].key = durable'.sn
  BY <1>1, <1>2 DEF Fetched
<1>4. \A v \in Workers : v = w
  BY DEF OneThread
<1>5. Transaction'
  BY <1>2, <1>3, <1>4 DEF Transaction, TxnPoint, NumberedPoint, Reached
<1> QED  BY <1>2, <1>5, StayFollows

LEMMA FetchSnFollows ==
  ASSUME OneThread, SerialInv, NEW w \in Workers, FetchSn(w)
  PROVE  Transaction' /\ Follows
<1>1. pc[w] = "fetchSn" /\ Control /\ job[w] \in Job
  BY DEF FetchSn, At, SerialInv, IInv, Control
<1>2. result.rows = {[ikeysn |-> durable.sn]}
  BY <1>1 DEF SerialInv, Transaction, TxnPoint
<1>3. (CHOOSE r \in result.rows : TRUE).ikeysn = durable.sn
  <2>1. (CHOOSE r \in result.rows : TRUE) \in result.rows
    BY <1>2, Zenon
  <2> QED  BY <1>2, <2>1
<1>4. \/ /\ Fetched
         /\ Keep(w, "lockKeys", [job[w] EXCEPT !.key = durable.sn]) \/ Goto(w, "rollback")
      \/ FetchFailed /\ Goto(w, "rollback")
  BY <1>3 DEF FetchSn
<1>5. [job[w] EXCEPT !.key = durable.sn].key = durable.sn
  BY <1>1 DEF Job
<1> QED  BY <1>1, <1>4, <1>5, GoesTo, TxnFetch

LEMMA FetchKeysFollows ==
  ASSUME OneThread, SerialInv, NEW w \in Workers, FetchKeys(w)
  PROVE  Transaction' /\ Follows
<1>1. pc[w] = "fetchKeys" /\ Control /\ job[w].key = durable.sn
  BY DEF FetchKeys, At, SerialInv, IInv, Transaction, TxnPoint, NumberedPoint
<1>2. (Fetched /\ Goto(w, "rotate")) \/ (FetchFailed /\ Goto(w, "rollback"))
  BY DEF FetchKeys
<1> QED  BY <1>1, <1>2, GoesTo, TxnFetch

LEMMA RotateFollows ==
  ASSUME OneThread, SerialInv, NEW w \in Workers, Rotate(w)
  PROVE  Transaction' /\ Follows
<1> DEFINE e == Update(ActiveOf(work.keys, Subject(w)), "Rotated")
<1>1. pc[w] = "rotate" /\ Sql(w, e, "insert", "rollback")
  BY DEF Rotate, At
<1>2. inTxn /\ work = durable /\ Control
  BY <1>1 DEF SerialInv, IInv, Transaction, TxnPoint, Reached
<1>3. e.durable = durable /\ e.inTxn = inTxn
  BY <1>2 DEF Update, Write
<1>4. ASSUME Executed(e), Goto(w, "insert")
      PROVE  work' = Reached(w)'
  <2>1. work' = [durable EXCEPT !.keys = Rotated(w)] /\ durable' = durable
    BY <1>2, <1>3, <1>4 DEF Executed, Update, Write, Rotated
  <2>2. pc'[w] = "insert" /\ Rotated(w)' = Rotated(w)
    BY <1>2, <1>4, <2>1, GoesTo DEF Rotated, Subject
  <2> QED  BY <2>1, <2>2 DEF Reached
<1> QED  BY <1>1, <1>3, <1>4, TxnStatement DEF TxnPoint, NumberedPoint

LEMMA InsertFollows ==
  ASSUME OneThread, SerialInv, NEW w \in Workers, Insert(w)
  PROVE  Transaction' /\ Follows
<1> DEFINE e == Write([work EXCEPT !.keys = @ \cup {NewRow(w)}], TRUE)
<1>1. pc[w] = "insert" /\ Transaction /\ Control
  BY DEF Insert, At, SerialInv, IInv
<1>2. inTxn /\ work = [durable EXCEPT !.keys = Rotated(w)] /\ durable \in Tables
  BY <1>1 DEF SerialInv, IInv, SessionInv, SessionTypeOK, Transaction, TxnPoint, Reached
<1>3. e.durable = durable /\ e.inTxn = inTxn
  BY <1>2 DEF Write
<1>4. ASSUME Executed(e), Goto(w, "bumpSn")
      PROVE  work' = Reached(w)'
  <2>1. work' = [durable EXCEPT !.keys = Rotated(w) \cup {NewRow(w)}] /\ durable' = durable
    BY <1>2, <1>3, <1>4 DEF Executed, Write, Tables
  <2>2. pc'[w] = "bumpSn" /\ Rotated(w)' = Rotated(w) /\ NewRow(w)' = NewRow(w)
    BY <1>1, <1>4, <2>1, GoesTo DEF Rotated, Subject, NewRow
  <2> QED  BY <2>1, <2>2 DEF Reached
<1>5. CASE Ready /\ Taken(w)
  <2>1. Denied /\ UNCHANGED faults /\ Goto(w, "rollback")
    BY <1>5 DEF Insert
  <2> QED  BY <1>1, <1>3, <2>1, ToRollback, StayFollows
<1>6. CASE ~(Ready /\ Taken(w))
  <2>1. Sql(w, e, "bumpSn", "rollback")
    BY <1>6 DEF Insert
  <2> QED  BY <1>1, <1>3, <1>4, <2>1, TxnStatement DEF TxnPoint, NumberedPoint
<1> QED  BY <1>5, <1>6

LEMMA BumpSnFollows ==
  ASSUME OneThread, SerialInv, NEW w \in Workers, BumpSn(w)
  PROVE  Transaction' /\ Follows
<1> DEFINE e == Write([work EXCEPT !.sn = @ + 1], TRUE)
<1>1. pc[w] = "bumpSn" /\ Control /\ Sql(w, e, "commit", "rollback")
  BY DEF BumpSn, At, SerialInv, IInv
<1>2. /\ inTxn /\ durable \in Tables
      /\ work = [durable EXCEPT !.keys = Rotated(w) \cup {NewRow(w)}]
  BY <1>1 DEF SerialInv, IInv, SessionInv, SessionTypeOK, Transaction, TxnPoint, Reached
<1>3. e.durable = durable /\ e.inTxn = inTxn
  BY <1>2 DEF Write
<1>4. ASSUME Executed(e), Goto(w, "commit")
      PROVE  work' = Reached(w)'
  <2>1. /\ work' = [durable EXCEPT !.keys = Rotated(w) \cup {NewRow(w)}, !.sn = @ + 1]
        /\ durable' = durable
    BY <1>2, <1>3, <1>4 DEF Executed, Write, Tables
  <2>2. pc'[w] = "commit" /\ Rotated(w)' = Rotated(w) /\ NewRow(w)' = NewRow(w)
    BY <1>1, <1>4, <2>1, GoesTo DEF Rotated, Subject, NewRow
  <2> QED  BY <2>1, <2>2 DEF Reached
<1> QED  BY <1>1, <1>3, <1>4, TxnStatement DEF TxnPoint, NumberedPoint

\* What an agreement commits is one abstract step.
LEMMA CommitAgrees ==
  ASSUME SerialInv, NEW w \in Workers, pc[w] = "commit", durable' = work
  PROVE  Follows
<1>1. /\ durable \in Tables /\ job[w].key = durable.sn
      /\ work = [durable EXCEPT !.keys = Rotated(w) \cup {NewRow(w)}, !.sn = @ + 1]
  BY DEF SerialInv, IInv, SessionInv, SessionTypeOK, Transaction, TxnPoint, NumberedPoint, Reached
<1>2. /\ durable'.keys = Rotated(w) \cup {NewRow(w)}
      /\ durable'.sn = durable.sn + 1 /\ durable'.msgs = durable.msgs
      /\ durable'.audit = durable.audit
  BY <1>1 DEF Tables
<1>3. Subject(w) \in Clients /\ job[w].tok \in 0 .. MaxReq
  BY BusyFacts DEF SerialInv, IInv, Course, CourseAt
<1>4. Facts!Agree(Subject(w), job[w].tok)
  BY <1>1, <1>2 DEF Facts!Agree, Facts!SetState, Facts!ActiveOf, Rotated, NewRow, SetState, ActiveOf
<1> QED  BY <1>2, <1>3, <1>4 DEF Follows, Facts!Next

LEMMA CommitFollows ==
  ASSUME OneThread, SerialInv, NEW w \in Workers, CommitTxn(w)
  PROVE  Transaction' /\ Follows
<1>1. pc[w] = "commit" /\ Control /\ Transaction
  BY DEF CommitTxn, At, SerialInv, IInv
<1>2. CASE Executed(Commit) /\ Goto(w, "publish")
  <2>1. Settled' /\ durable' = work
    BY <1>2 DEF Executed, Commit, Settled
  <2>2. pc'[w] \notin TxnPoint
    BY <1>1, <1>2, GoesTo DEF TxnPoint
  <2> QED  BY <1>1, <2>1, <2>2, SettledTransaction, CommitAgrees
<1>3. CASE Failed(Commit) /\ Goto(w, "rollback")
  <2>1. Transaction' /\ durable' \in {durable, work}
    BY <1>1, <1>3, ToRollback DEF Commit
  <2> QED  BY <1>1, <2>1, CommitAgrees, StayFollows
<1> QED  BY <1>2, <1>3 DEF CommitTxn, Sql

LEMMA RollBackFollows ==
  ASSUME OneThread, SerialInv, NEW w \in Workers, RollBack(w)
  PROVE  Transaction' /\ Follows
<1>1. pc[w] = "rollback" /\ Control /\ Reply(w, "KEY_AGREE_FAILED")
  BY DEF RollBack, At, SerialInv, IInv
<1>2. ~result.waiting
  BY <1>1 DEF SerialInv, ResultHasOwner, OneThread, FetchPoint
<1>3. Settled' /\ durable' = durable
  <2>1. CASE Executed(Rollback)
    BY <2>1 DEF Executed, Rollback, Settled
  <2>2. CASE Unsendable
    BY <1>2, <2>2 DEF Unsendable, Ready, sessionVars, SerialInv, Transaction, Settled
  <2>3. CASE LinkLost(Rollback)
    BY <2>3 DEF LinkLost, Rollback, Settled
  <2> QED  BY <2>1, <2>2, <2>3 DEF RollBack, RolledBack
<1>4. pc'[w] \notin TxnPoint
  BY <1>1, GoesTo DEF TxnPoint
<1> QED  BY <1>3, <1>4, SettledTransaction, StayFollows
-----------------------------------------------------------------------------
(* The other steps.                                                        *)

\* Where a handler goes on after the check of a key.
LEMMA VerdictGoes ==
  ASSUME Control, NEW w \in Workers, Passed(w) \/ Refused(w)
  PROVE  pc'[w] \in {"idle", "audit", "peer", "store", "cacheOff"}
<1>1. job[w].stage \in Stage
  BY DEF Control, Job
<1>2. CASE Passed(w)
  BY <1>1, <1>2, GoesTo DEF Passed, Stage
<1>3. CASE Refused(w)
  BY <1>3, GoesTo DEF Refused
<1> QED  BY <1>2, <1>3

\* A step that leaves the session alone, outside a transaction.
LEMMA UntouchedFollows ==
  ASSUME OneThread, SerialInv, NEW w \in Workers, pc[w] \notin TxnPoint \cup {"rollback"},
         UNCHANGED sessionVars, pc'[w] \notin TxnPoint
  PROVE  Transaction' /\ Follows
<1>1. Settled
  BY OutsideSettled DEF SerialInv
<1>2. Settled' /\ durable' = durable
  BY <1>1 DEF Settled, sessionVars
<1> QED  BY <1>2, SettledTransaction, StayFollows

\* A statement outside a transaction, whose own commit is an abstract step.
LEMMA PlainFollows ==
  ASSUME OneThread, SerialInv, NEW w \in Workers, pc[w] \notin TxnPoint \cup {"rollback"},
         pc'[w] \notin TxnPoint,
         NEW e, e.inTxn = inTxn, e.work = e.durable, Executed(e) \/ Failed(e),
         durable' = e.durable => Follows
  PROVE  Transaction' /\ Follows
<1>1. Settled
  BY OutsideSettled DEF SerialInv
<1>2. Settled' /\ durable' \in {durable, e.durable}
  BY <1>1, PlainStatement
<1> QED  BY <1>2, SettledTransaction, StayFollows

\* One Active row, or none, comes to its end: numbers are unique.
LEMMA EndFollows ==
  ASSUME SerialInv, NEW w \in Workers, pc[w] \in {"expire", "revoke"}, NEW c, NEW k,
         NEW rows \in SUBSET KeysWhere(durable.keys, c, k, "Active"),
         NEW s \in {"Revoked", "Expired"},
         durable' = [durable EXCEPT !.keys = SetState(@, rows, s)]
  PROVE  Follows
<1>1. /\ durable'.keys = SetState(durable.keys, rows, s)
      /\ durable'.sn = durable.sn /\ durable'.msgs = durable.msgs
      /\ durable'.audit = durable.audit
  BY DEF SerialInv, IInv, SessionInv, SessionTypeOK, Tables
<1>2. CASE rows = {}
  BY <1>1, <1>2 DEF Follows, SetState
<1>3. ASSUME NEW r \in rows  PROVE Follows
  <2>1. r \in durable.keys /\ r.state = "Active" /\ \A q \in rows : q = r
    BY DEF KeysWhere, SerialInv, Facts!IInv, Facts!NumbersUnique
  <2>2. rows = {r}
    BY <2>1
  <2>3. Facts!End(r, s)
    BY <1>1, <2>1, <2>2 DEF Facts!End, Facts!SetState, SetState
  <2> QED  BY <1>1, <2>1, <2>3 DEF Follows, Facts!Next, Facts!Revoke, Facts!Expire
<1> QED  BY <1>2, <1>3

\* What the two UPDATEs that end a key leave behind.
LEMMA UpdateFollows ==
  ASSUME SerialInv, Settled, NEW w \in Workers, pc[w] \in {"expire", "revoke"},
         NEW c, NEW k, NEW s \in {"Revoked", "Expired"},
         NEW rows \in SUBSET KeysWhere(durable.keys, c, k, "Active"),
         NEW e, e = Update(rows, s)
  PROVE  e.inTxn = inTxn /\ e.work = e.durable /\ (durable' = e.durable => Follows)
<1>1. /\ e.inTxn = inTxn /\ e.work = e.durable
      /\ e.durable = [durable EXCEPT !.keys = SetState(@, rows, s)]
  BY DEF Settled, Update, Write
<1>2. ASSUME durable' = e.durable  PROVE Follows
  BY <1>1, <1>2, EndFollows
<1> QED  BY <1>1, <1>2

LEMMA ExpireFollows ==
  ASSUME OneThread, SerialInv, NEW w \in Workers, Expire(w)
  PROVE  Transaction' /\ Follows
<1> DEFINE over == {r \in KeysWhere(work.keys, Subject(w), job[w].key, "Active") :
                      <<r.client, r.key>> \in lapsed}
           e == Update(over, "Expired")
<1>1. pc[w] = "expire" /\ pc[w] \notin TxnPoint \cup {"rollback"} /\ Control
  BY DEF Expire, At, TxnPoint, SerialInv, IInv
<1>2. Settled
  BY <1>1, OutsideSettled DEF SerialInv
<1>3. over \in SUBSET KeysWhere(durable.keys, Subject(w), job[w].key, "Active")
  BY <1>2 DEF Settled
<1>4. (Executed(e) /\ Goto(w, "find")) \/ (Failed(e) /\ Refused(w))
  BY DEF Expire
<1> HIDE DEF over
<1>5. e.inTxn = inTxn /\ e.work = e.durable /\ (durable' = e.durable => Follows)
  BY <1>1, <1>2, <1>3, UpdateFollows
<1> HIDE DEF e
<1>6. pc'[w] \notin TxnPoint
  BY <1>1, <1>4, GoesTo, VerdictGoes DEF TxnPoint
<1> QED  BY <1>1, <1>4, <1>5, <1>6, PlainFollows

LEMMA RevokeFollows ==
  ASSUME OneThread, SerialInv, NEW w \in Workers, Revoke(w)
  PROVE  Transaction' /\ Follows
<1> DEFINE rows == KeysWhere(work.keys, Subject(w), job[w].key, "Active")
           e == Update(rows, "Revoked")
<1>1. pc[w] = "revoke" /\ pc[w] \notin TxnPoint \cup {"rollback"} /\ Control
  BY DEF Revoke, At, TxnPoint, SerialInv, IInv
<1>2. Settled
  BY <1>1, OutsideSettled DEF SerialInv
<1>3. rows \in SUBSET KeysWhere(durable.keys, Subject(w), job[w].key, "Active")
  BY <1>2 DEF Settled
<1>4. (Executed(e) /\ Goto(w, "affected")) \/ (Failed(e) /\ Reply(w, "KEY_LOGOUT_FAILED"))
  BY DEF Revoke
<1> HIDE DEF rows
<1>5. e.inTxn = inTxn /\ e.work = e.durable /\ (durable' = e.durable => Follows)
  BY <1>1, <1>2, <1>3, UpdateFollows
<1> HIDE DEF e
<1>6. pc'[w] \notin TxnPoint
  BY <1>1, <1>4, GoesTo DEF TxnPoint
<1> QED  BY <1>1, <1>4, <1>5, <1>6, PlainFollows

LEMMA FindFollows ==
  ASSUME OneThread, SerialInv, NEW w \in Workers, Find(w)
  PROVE  Transaction' /\ Follows
<1> DEFINE rows == {r \in work.keys : r.client = Subject(w) /\ r.key = job[w].key}
           e == Select(rows)
<1>1. pc[w] \notin TxnPoint \cup {"rollback"} /\ Control
  BY DEF Find, At, TxnPoint, SerialInv, IInv
<1>2. Settled
  BY <1>1, OutsideSettled DEF SerialInv
<1>3. e.inTxn = inTxn /\ e.work = e.durable /\ (durable' = e.durable => Follows)
  BY <1>2, StayFollows DEF Settled, Select
<1>4. (Executed(e) /\ Goto(w, "fetch")) \/ (Failed(e) /\ Refused(w))
  BY DEF Find
<1> HIDE DEF e
<1>5. pc'[w] \notin TxnPoint
  BY <1>1, <1>4, GoesTo, VerdictGoes DEF TxnPoint
<1> QED  BY <1>1, <1>3, <1>4, <1>5, PlainFollows

LEMMA FetchFollows ==
  ASSUME OneThread, SerialInv, NEW w \in Workers, Fetch(w)
  PROVE  Transaction' /\ Follows
<1>1. pc[w] \notin TxnPoint \cup {"rollback"} /\ Control
  BY DEF Fetch, At, TxnPoint, SerialInv, IInv
<1>2. Settled' /\ durable' = durable
  BY <1>1, OutsideSettled, PlainFetch DEF Fetch, SerialInv
<1>3. pc'[w] \notin TxnPoint
  BY <1>1, VerdictGoes DEF Fetch, TxnPoint
<1> QED  BY <1>2, <1>3, SettledTransaction, StayFollows

\* A row more in messages or audit_log.
LEMMA AppendFollows ==
  ASSUME OneThread, SerialInv, NEW w \in Workers, pc[w] \in {"store", "audit"},
         pc'[w] \notin TxnPoint, NEW t \in Tables,
         t.keys = work.keys, t.sn = work.sn, work.msgs \subseteq t.msgs,
         Executed(Write(t, TRUE)) \/ Failed(Write(t, TRUE))
  PROVE  Transaction' /\ Follows
<1> DEFINE e == Write(t, TRUE)
<1>0. pc[w] \notin TxnPoint \cup {"rollback"}
  BY DEF TxnPoint
<1>1. Settled
  BY <1>0, OutsideSettled DEF SerialInv
<1>2. e.inTxn = inTxn /\ e.work = e.durable /\ e.durable = t
  BY <1>1 DEF Settled, Write
<1>3. durable' = e.durable => Follows
  BY <1>1, <1>2 DEF Settled, Follows
<1> HIDE DEF e
<1>4. Executed(e) \/ Failed(e)
  BY DEF e
<1> QED  BY <1>0, <1>2, <1>3, <1>4, PlainFollows

LEMMA StoreFollows ==
  ASSUME OneThread, SerialInv, NEW w \in Workers, Store(w)
  PROVE  Transaction' /\ Follows
<1> DEFINE t == [work EXCEPT !.msgs = @ \cup {Message(w)}]
<1>1. /\ pc[w] = "store" /\ pc[w] \notin TxnPoint \cup {"rollback"} /\ pc[w] # "idle"
      /\ Control
  BY DEF Store, insertMessageLog, At, TxnPoint, SerialInv, IInv
<1>2. pc'[w] \notin TxnPoint
  BY <1>1, GoesTo DEF Store, insertMessageLog, TxnPoint
<1>3. CASE UNCHANGED sessionVars
  BY <1>1, <1>2, <1>3, UntouchedFollows
<1>4. CASE Executed(Write(t, TRUE)) \/ Failed(Write(t, TRUE))
  <2>1. Message(w) \in MsgRow
    BY <1>1, BusyFacts DEF Message, MsgRow, Job, Request, Node
  <2>2. t \in Tables /\ t.keys = work.keys /\ t.sn = work.sn /\ work.msgs \subseteq t.msgs
    BY <2>1 DEF SerialInv, IInv, SessionInv, SessionTypeOK, Tables
  <2> HIDE DEF t
  <2> QED  BY <1>1, <1>2, <1>4, <2>2, AppendFollows
<1> QED  BY <1>3, <1>4 DEF Store, insertMessageLog

LEMMA AuditFollows ==
  ASSUME OneThread, SerialInv, NEW w \in Workers, Audit(w)
  PROVE  Transaction' /\ Follows
<1> DEFINE ok  == job[w].code = "SUCCESS"
           row == [id |-> job[w].tok, ok |-> ok]
           t   == [work EXCEPT !.audit = @ \cup {row}]
<1>1. pc[w] = "audit" /\ pc[w] # "idle" /\ Control
  BY DEF Audit, At, TxnPoint, SerialInv, IInv
<1>2. pc'[w] \notin TxnPoint
  BY <1>1, GoesTo DEF Audit, TxnPoint
<1>3. ok \in BOOLEAN
  BY Zenon
<1>4. Executed(Write(t, TRUE)) \/ Failed(Write(t, TRUE))
  BY DEF Audit
<1> HIDE DEF ok
<1>5. row \in AuditRow
  BY <1>1, <1>3, BusyFacts DEF AuditRow, Job
<1> HIDE DEF row
<1>6. t \in Tables /\ t.keys = work.keys /\ t.sn = work.sn /\ work.msgs \subseteq t.msgs
  BY <1>5 DEF SerialInv, IInv, SessionInv, SessionTypeOK, Tables
<1> HIDE DEF t
<1> QED  BY <1>1, <1>2, <1>4, <1>6, AppendFollows

\* The steps of a handler that issue no statement.
LEMMA LocalFollows ==
  ASSUME OneThread, SerialInv, NEW w \in Workers,
         \/ Verify(w) \/ Publish(w) \/ Snapshot(w) \/ Affected(w) \/ CacheOff(w)
         \/ Validate(w) \/ Lookup(w) \/ Peer(w)
  PROVE  Transaction' /\ Follows
<1>1. Control
  BY DEF SerialInv, IInv
<1>2. pc[w] \notin TxnPoint \cup {"rollback"} /\ UNCHANGED sessionVars
  BY DEF Verify, Publish, Snapshot, Affected, CacheOff, Validate, Lookup, Peer, At, TxnPoint
<1>3. \/ \E p \in {"begin", "cacheOff", "lookup"} : Goto(w, p)
      \/ \E p \in {"expire", "lookup"} : \E j : Keep(w, p, j)
      \/ \E c : Reply(w, c) \/ AuditThenReply(w, c)
  BY Zenon DEF Verify, Publish, Snapshot, Affected, CacheOff, Validate, Lookup, Peer
<1>4. pc'[w] \notin TxnPoint
  BY <1>1, <1>3, GoesTo DEF TxnPoint
<1> QED  BY <1>2, <1>4, UntouchedFollows

LEMMA HandleFollows ==
  ASSUME OneThread, SerialInv, NEW w \in Workers, Handle(w)
  PROVE  Transaction' /\ Follows
  BY BeginFollows, LockSnFollows, FetchSnFollows, LockKeysFollows, FetchKeysFollows,
     RotateFollows, InsertFollows, BumpSnFollows, CommitFollows, RollBackFollows,
     ExpireFollows, RevokeFollows, FindFollows, FetchFollows, StoreFollows, AuditFollows,
     LocalFollows
  DEF Handle, Agree, CheckOrLogout, Send

LEMMA TakeFollows ==
  ASSUME OneThread, SerialInv, NEW w \in Workers, NEW r \in Requests, Take(w, r)
  PROVE  Transaction' /\ Follows
<1>1. pc[w] \notin TxnPoint \cup {"rollback"} /\ UNCHANGED sessionVars
  BY DEF Take, At, TxnPoint
<1>2. Entry(r.op) \notin TxnPoint
  BY RequestsAssumption DEF Entry, Request, Op, TxnPoint
<1>3. pc'[w] = Entry(r.op)
  BY DEF Take, Keep, SerialInv, IInv, Control
<1> QED  BY <1>1, <1>2, <1>3, UntouchedFollows

LEMMA StillFollows ==
  ASSUME SerialInv, UNCHANGED <<sessionVars, pc, job>>
  PROVE  Transaction' /\ Follows
<1>1. durable' = durable /\ work' = work /\ inTxn' = inTxn /\ result' = result /\ up' = up
      /\ pc' = pc /\ job' = job
  BY DEF sessionVars
<1>2. \A w \in Workers : Reached(w)' = Reached(w)
  BY <1>1 DEF Reached, Rotated, NewRow, Subject
<1>3. Transaction'
  BY <1>1, <1>2 DEF SerialInv, Transaction
<1> QED  BY <1>1, <1>3, StayFollows

LEMMA RestartFollows ==
  ASSUME SerialInv, Restart
  PROVE  Transaction' /\ Follows
<1>1. ~inTxn' /\ work' = durable' /\ durable' = durable /\ \A w \in Workers : pc'[w] = "idle"
  BY DEF Restart, Reconnected
<1> QED  BY <1>1, StayFollows DEF Transaction, TxnPoint

LEMMA NextSerial ==
  ASSUME OneThread, SerialInv, [Next]_vars
  PROVE  SerialInv' /\ Follows
<1>1. Transaction' /\ Follows
  <2>1. CASE \E w \in Workers : Handle(w) \/ \E r \in Requests : Take(w, r)
    BY <2>1, HandleFollows, TakeFollows
  <2>2. CASE UNCHANGED <<sessionVars, pc, job>>
    BY <2>2, StillFollows
  <2>3. CASE Restart
    BY <2>3, RestartFollows
  <2> QED  BY <2>1, <2>2, <2>3 DEF Next, Lapse, Done, vars, sessionVars
<1>2. IInv' /\ ResultHasOwner' /\ Course'
  BY NextSafe, NextOwned, NextCourse DEF SerialInv, Safe
<1>3. 0 .. MaxReq \subseteq Nat
  BY BoundsAssumption
<1>4. Facts!IInv'
  BY <1>1, <1>3, Facts!NextIInv DEF Follows, SerialInv, Facts!lifecycleVars
<1> QED  BY <1>1, <1>2, <1>4 DEF SerialInv

LEMMA InitSerial == Init => SerialInv
<1> SUFFICES ASSUME Init PROVE SerialInv
  OBVIOUS
<1>1. IInv /\ ResultHasOwner
  BY InitIInv, InitOwned
<1>2. Course
  BY BoundsAssumption DEF Init, Course, CourseAt, NoJob, AgreePoint, SendPoint, CheckPoint
<1>3. Transaction
  BY DEF Init, SessionInit, Transaction, TxnPoint
<1>4. Facts!IInv
  BY Facts!InitIInv DEF Init, SessionInit, EmptyTables, Facts!Init
<1> QED  BY <1>1, <1>2, <1>3, <1>4 DEF SerialInv

LEMMA Serial == ASSUME OneThread PROVE Spec => []SerialInv
<1>1. SerialInv /\ [Next]_vars => SerialInv'
  BY NextSerial
<1> QED  BY <1>1, InitSerial, PTL DEF Spec

\* With one thread the committed tables behave as KeyLifecycle says, whatever
\* statement fails, however often the link drops and the server is restarted: an
\* agreement, a logout and an expiry each take effect in one commit.
THEOREM SerialLifecycle == ASSUME OneThread PROVE Spec => ImplementsLifecycle
<1>1. Init => Lifecycle!Init
  BY DEF Init, SessionInit, EmptyTables, Lifecycle!Init
<1>2. Facts!Next => Lifecycle!Next
  BY DEF Facts!Next, Facts!Agree, Facts!Revoke, Facts!Expire, Facts!End, Facts!SetState,
         Facts!ActiveOf, Lifecycle!Next, Lifecycle!Agree, Lifecycle!Revoke, Lifecycle!Expire,
         Lifecycle!End, Lifecycle!SetState, Lifecycle!ActiveOf
<1>3. SerialInv /\ [Next]_vars => [Lifecycle!Next]_(Lifecycle!lifecycleVars)
  BY <1>2, NextSerial DEF Follows, Lifecycle!lifecycleVars
<1> QED  BY <1>1, <1>3, Serial, PTL DEF Spec, ImplementsLifecycle, Lifecycle!Spec

\* With one thread no handler leaves its transaction open, on any error path of
\* writeSecKeyWithTrans: the next handler's statements commit when they say so.
THEOREM SerialNoTransaction == ASSUME OneThread PROVE Spec => []NoTransactionAtRest
<1>1. SerialInv => NoTransactionAtRest
  BY DEF SerialInv, Transaction, TxnPoint, NoTransactionAtRest, AllIdle
<1> QED  BY <1>1, Serial, PTL
-----------------------------------------------------------------------------
(* One thread: the cache holds committed keys only, and what is answered   *)
(* SUCCESS is committed and stays so.                                      *)

HasKey(d, c, k, m) == \E r \in d.keys : r.client = c /\ r.key = k /\ r.mat = m
Out(d, c, k)       == \E r \in d.keys : r.client = c /\ r.key = k /\ r.state # "Active"
Sent(d, t)         == \E m \in d.msgs : m.id = t

Backs(d, a) ==
  CASE a.req.op = "agree"  -> HasKey(d, a.req.from, a.key, a.tok)
    [] a.req.op = "logout" -> Out(d, a.req.from, a.key)
    [] a.req.op = "send"   -> Sent(d, a.tok)
    [] OTHER               -> TRUE

\* The points after which the answer will or may be SUCCESS, and what must be
\* committed by then.
PromisePoint == {"publish", "affected", "cacheOff", "audit"}

Promise(p, j, touched, d) ==
  /\ p = "publish" => HasKey(d, j.req.from, j.key, j.tok)
  /\ p = "affected" /\ touched => Out(d, j.req.from, j.key)
  /\ p = "cacheOff" /\ j.req.op = "logout" => Out(d, j.req.from, j.key)
  /\ p = "audit" /\ j.code = "SUCCESS" => Sent(d, j.tok)

Backing ==
  /\ CacheBackedByTable
  /\ \A a \in acks : Backs(durable, a)
  /\ \A w \in Workers : Promise(pc[w], job[w], affected, durable)

\* What every step leaves in the tables.
Kept ==
  /\ \A r \in durable.keys : \E s \in durable'.keys :
       /\ s.client = r.client /\ s.key = r.key /\ s.mat = r.mat
       /\ r.state # "Active" => s.state # "Active"
  /\ durable.msgs \subseteq durable'.msgs

LEMMA NextKept ==
  ASSUME OneThread, SerialInv, [Next]_vars
  PROVE  Kept
<1>1. Advances(durable.keys, durable'.keys) /\ durable.msgs \subseteq durable'.msgs
  BY NextSafe, NextSerial DEF SerialInv, Safe, Follows
<1>2. ASSUME NEW r \in durable.keys
      PROVE  \E s \in durable'.keys :
               /\ s.client = r.client /\ s.key = r.key /\ s.mat = r.mat
               /\ r.state # "Active" => s.state # "Active"
  <2>1. r \in KeyRow
    BY DEF SerialInv, IInv, SessionInv, SessionTypeOK, Tables
  <2>2. PICK s \in durable'.keys : /\ s = [r EXCEPT !.state = s.state]
                                   /\ r.state # "Active" => s.state = r.state
    BY <1>1 DEF Advances
  <2>3. s.client = r.client /\ s.key = r.key /\ s.mat = r.mat
    BY <2>1, <2>2 DEF KeyRow
  <2> QED  BY <2>2, <2>3
<1> QED  BY <1>1, <1>2 DEF Kept

LEMMA StaysTrue ==
  ASSUME Kept
  PROVE  /\ \A c, k, m : HasKey(durable, c, k, m) => HasKey(durable', c, k, m)
         /\ \A c, k : Out(durable, c, k) => Out(durable', c, k)
         /\ \A t : Sent(durable, t) => Sent(durable', t)
         /\ \A a : Backs(durable, a) => Backs(durable', a)
<1>1. /\ \A c, k, m : HasKey(durable, c, k, m) => HasKey(durable', c, k, m)
      /\ \A c, k : Out(durable, c, k) => Out(durable', c, k)
      /\ \A t : Sent(durable, t) => Sent(durable', t)
  BY DEF Kept, HasKey, Out, Sent
<1> QED  BY <1>1 DEF Backs

LEMMA CacheStays ==
  ASSUME Kept, CacheBackedByTable, shm' = shm
  PROVE  CacheBackedByTable'
  BY DEF Kept, CacheBackedByTable

\* w goes on at p with j in its local variables.
LEMMA BackingOf ==
  ASSUME OneThread, Kept, Backing, CacheBackedByTable', NEW w \in Workers,
         \A a \in acks' : a \in acks \/ Backs(durable', a),
         Promise(pc'[w], job'[w], affected', durable')
  PROVE  Backing'
<1>1. \A a \in acks' : Backs(durable', a)
  BY StaysTrue DEF Backing
<1>2. \A v \in Workers : v = w
  BY DEF OneThread
<1> QED  BY <1>1, <1>2 DEF Backing

\* A step that promises nothing.
Plain(w) ==
  \/ \E p \in Point \ PromisePoint : Goto(w, p) \/ \E j : Keep(w, p, j)
  \/ \E code \in Code \ {"SUCCESS"} : Reply(w, code) \/ AuditThenReply(w, code)

LEMMA AuditCode ==
  ASSUME Control, NEW w \in Workers, NEW code, AuditThenReply(w, code)
  PROVE  job'[w].code = code
<1>1. job' = [job EXCEPT ![w] = [job[w] EXCEPT !.code = code]] /\ job \in [Workers -> Job]
  BY DEF AuditThenReply, Keep, Control
<1>2. job'[w] = [job[w] EXCEPT !.code = code] /\ job[w] \in Job
  BY <1>1
<1> QED  BY <1>2 DEF Job

LEMMA PlainBacking ==
  ASSUME OneThread, Kept, Control, Backing, NEW w \in Workers, Plain(w), shm' = shm
  PROVE  Backing'
<1>1. CacheBackedByTable'
  BY CacheStays DEF Backing
<1>2. acks' = acks
  BY DEF Plain, Goto, Keep, Reply, AuditThenReply
<1>3. Promise(pc'[w], job'[w], affected', durable')
  <2>1. CASE pc'[w] \notin PromisePoint
    BY <2>1 DEF Promise, PromisePoint
  <2>2. ASSUME NEW code \in Code \ {"SUCCESS"}, AuditThenReply(w, code)
        PROVE  Promise(pc'[w], job'[w], affected', durable')
    <3>1. job'[w].code = code
      BY <2>2, AuditCode
    <3> QED  BY <2>2, <3>1, GoesTo DEF Promise
  <2> QED  BY <2>1, <2>2, GoesTo DEF Plain, PromisePoint
<1> QED  BY <1>1, <1>2, <1>3, BackingOf

\* The answer SUCCESS.
LEMMA ReplyBacking ==
  ASSUME OneThread, Kept, Control, Backing, CacheBackedByTable', NEW w \in Workers,
         Reply(w, "SUCCESS"),
         Backs(durable', [req |-> job[w].req, key |-> job[w].key, tok |-> job[w].tok])
  PROVE  Backing'
<1>1. \A a \in acks' : a \in acks \/ Backs(durable', a)
  BY DEF Reply
<1>2. Promise(pc'[w], job'[w], affected', durable')
  BY GoesTo DEF Promise
<1> QED  BY <1>1, <1>2, BackingOf

\* Going on to a promise with what is committed to keep it.
LEMMA GotoBacking ==
  ASSUME OneThread, Kept, Control, Backing, NEW w \in Workers, NEW p, Goto(w, p),
         Promise(p, job[w], affected', durable'), shm' = shm
  PROVE  Backing'
<1>1. CacheBackedByTable'
  BY CacheStays DEF Backing
<1>2. acks' = acks /\ pc'[w] = p /\ job'[w] = job[w]
  BY GoesTo DEF Goto
<1> QED  BY <1>1, <1>2, BackingOf

LEMMA AgreeBacking ==
  ASSUME OneThread, Kept, SerialInv, Backing, NEW w \in Workers, Agree(w)
  PROVE  Backing'
<1>0. Control
  BY DEF SerialInv, IInv
<1>1. CASE CommitTxn(w)
  <2>1. /\ pc[w] = "commit" /\ shm' = shm
        /\ (Executed(Commit) /\ Goto(w, "publish")) \/ Goto(w, "rollback")
    BY <1>1 DEF CommitTxn, Sql, At
  <2>2. CASE Goto(w, "rollback")
    <3>1. Plain(w)
      BY <2>2 DEF Plain, Point, AgreePoint, PromisePoint
    <3> QED  BY <1>0, <2>1, <3>1, PlainBacking
  <2>3. CASE Executed(Commit) /\ Goto(w, "publish")
    <3>1. durable' = work /\ durable \in Tables
          /\ work = [durable EXCEPT !.keys = Rotated(w) \cup {NewRow(w)}, !.sn = @ + 1]
      BY <2>1, <2>3 DEF Executed, Commit, SerialInv, IInv, SessionInv, SessionTypeOK, Transaction,
                        TxnPoint, Reached
    <3>2. NewRow(w) \in durable'.keys
      BY <3>1 DEF Tables
    <3>3. Subject(w) = job[w].req.from
      BY <2>1 DEF Subject, SerialInv, Course, CourseAt, AgreePoint
    <3>4. Promise("publish", job[w], affected', durable')
      BY <3>2, <3>3 DEF Promise, HasKey, NewRow
    <3> QED  BY <1>0, <2>1, <2>3, <3>4, GotoBacking
  <2> QED  BY <2>1, <2>2, <2>3
<1>2. CASE Publish(w)
  <2> DEFINE node == [client |-> Subject(w), key |-> job[w].key, mat |-> job[w].tok, status |-> 1]
  <2>1. /\ pc[w] = "publish" /\ shm' = shmWrite(shm, node) /\ Reply(w, "SUCCESS")
        /\ durable' = durable
    BY <1>2 DEF Publish, At, sessionVars
  <2>2. job[w].req.op = "agree" /\ Subject(w) = job[w].req.from
    BY <2>1 DEF Subject, SerialInv, Course, CourseAt, AgreePoint
  <2>3. HasKey(durable, job[w].req.from, job[w].key, job[w].tok)
    BY <2>1 DEF Backing, Promise
  <2>4. \A i \in Slots : shm'[i] \in {shm[i], node}
    BY <2>1, WriteSlots DEF SerialInv, IInv, CacheInv
  <2>5. CacheBackedByTable'
    BY <2>1, <2>2, <2>3, <2>4 DEF Backing, CacheBackedByTable, HasKey
  <2> QED  BY <1>0, <2>1, <2>2, <2>3, <2>5, ReplyBacking DEF Backs
<1>3. CASE ~CommitTxn(w) /\ ~Publish(w)
  <2>1. shm' = shm
    BY <1>3 DEF Agree, Verify, Begin, LockSn, FetchSn, LockKeys, FetchKeys, Rotate, Insert, BumpSn,
                RollBack, Sql
  <2>2. \/ \E p \in AgreePoint \ {"publish"} : Goto(w, p) \/ \E j : Keep(w, p, j)
        \/ Reply(w, "KEY_AGREE_FAILED")
    BY <1>3, Zenon DEF Agree, Verify, Begin, LockSn, FetchSn, LockKeys, FetchKeys, Rotate, Insert,
                BumpSn, RollBack, Sql, AgreePoint
  <2>3. Plain(w)
    BY <2>2 DEF Plain, Point, AgreePoint, PromisePoint, Code
  <2> QED  BY <1>0, <2>1, <2>3, PlainBacking
<1> QED  BY <1>1, <1>2, <1>3

\* What the check of a key leads to.  Only a check or a message comes here.
LEMMA VerdictBacking ==
  ASSUME OneThread, Kept, SerialInv, Backing, NEW w \in Workers, pc[w] \in CheckPoint,
         Passed(w) \/ Refused(w), shm' = shm
  PROVE  Backing'
<1>0. Control /\ job[w].stage \in Stage
  BY DEF SerialInv, IInv, Control, Job
<1>1. job[w].req.op \in {"check", "send"} /\ (job[w].stage = "own" <=> job[w].req.op # "send")
  <2>1. job[w].req.op \in Op
    BY <1>0 DEF Control, Request, CheckPoint
  <2> QED  BY <2>1 DEF SerialInv, Course, CourseAt, Op
<1>2. CASE Reply(w, "SUCCESS") /\ job[w].req.op = "check"
  <2>1. CacheBackedByTable'
    BY CacheStays DEF Backing
  <2> QED  BY <1>0, <1>2, <2>1, ReplyBacking DEF Backs
<1>3. CASE Goto(w, "cacheOff")
  <2>1. Promise("cacheOff", job[w], affected', durable')
    BY <1>1 DEF Promise
  <2> QED  BY <1>0, <1>3, <2>1, GotoBacking
<1>4. CASE Plain(w)
  BY <1>0, <1>4, PlainBacking DEF SerialInv
<1>5. \/ Reply(w, "SUCCESS") /\ job[w].stage = "own"
      \/ Goto(w, "cacheOff")
      \/ \E p \in {"peer", "store"} : Goto(w, p)
      \/ \E code \in {"KEY_INVALID", "KEY_NOT_FOUND"} : Reply(w, code) \/ AuditThenReply(w, code)
  BY <1>0 DEF Passed, Refused, Stage
<1>6. Plain(w) \/ Goto(w, "cacheOff") \/ (Reply(w, "SUCCESS") /\ job[w].req.op = "check")
  BY <1>1, <1>5 DEF Plain, Point, SendPoint, PromisePoint, Code
<1> QED  BY <1>2, <1>3, <1>4, <1>6

LEMMA RevokeBacking ==
  ASSUME OneThread, Kept, SerialInv, Backing, NEW w \in Workers, Revoke(w)
  PROVE  Backing'
<1> DEFINE rows == KeysWhere(work.keys, Subject(w), job[w].key, "Active")
           e == Update(rows, "Revoked")
<1>1. pc[w] = "revoke" /\ Control /\ shm' = shm
  BY DEF Revoke, At, SerialInv, IInv
<1>2. CASE Reply(w, "KEY_LOGOUT_FAILED")
  <2>1. Plain(w)
    BY <1>2 DEF Plain, Code
  <2> QED  BY <1>1, <2>1, PlainBacking
<1>3. CASE Executed(e) /\ Goto(w, "affected")
  <2>1. Settled /\ durable \in Tables /\ Subject(w) = job[w].req.from
    BY <1>1, OutsideSettled DEF SerialInv, IInv, SessionInv, SessionTypeOK, Course, CourseAt,
                                Subject, TxnPoint
  <2>2. durable'.keys = SetState(durable.keys, rows, "Revoked") /\ affected' = (rows # {})
    BY <1>3, <2>1 DEF Executed, Update, Write, Settled, Tables
  <2>3. ASSUME affected'  PROVE Out(durable', job[w].req.from, job[w].key)
    <3>1. PICK r \in rows : r \in KeyRow /\ r.client = Subject(w) /\ r.key = job[w].key
      BY <2>1, <2>2, <2>3 DEF KeysWhere, Settled, Tables
    <3>2. [r EXCEPT !.state = "Revoked"] \in durable'.keys
      BY <2>2 DEF SetState
    <3> QED  BY <2>1, <3>1, <3>2 DEF Out, KeyRow
  <2>4. Promise("affected", job[w], affected', durable')
    BY <2>3 DEF Promise
  <2> QED  BY <1>1, <1>3, <2>4, GotoBacking
<1> QED  BY <1>2, <1>3 DEF Revoke

LEMMA AffectedBacking ==
  ASSUME OneThread, Kept, SerialInv, Backing, NEW w \in Workers, Affected(w)
  PROVE  Backing'
<1>1. /\ pc[w] = "affected" /\ Control /\ shm' = shm /\ durable' = durable
      /\ (affected /\ Goto(w, "cacheOff")) \/ Reply(w, "KEY_LOGOUT_FAILED")
  BY DEF Affected, At, SerialInv, IInv, sessionVars
<1>2. CASE Reply(w, "KEY_LOGOUT_FAILED")
  <2>1. Plain(w)
    BY <1>2 DEF Plain, Code
  <2> QED  BY <1>1, <2>1, PlainBacking
<1>3. CASE affected /\ Goto(w, "cacheOff")
  <2>1. Promise("cacheOff", job[w], affected', durable')
    BY <1>1, <1>3 DEF Backing, Promise
  <2> QED  BY <1>1, <1>3, <2>1, GotoBacking
<1> QED  BY <1>1, <1>2, <1>3

\* Switching a node off leaves its client, number and bytes.
LEMMA CacheOffBacking ==
  ASSUME OneThread, Kept, SerialInv, Backing, NEW w \in Workers, CacheOff(w)
  PROVE  Backing'
<1>1. /\ pc[w] = "cacheOff" /\ pc[w] # "idle" /\ Control /\ shm \in Shm
      /\ shm' = shmUpdateStatus(shm, Subject(w), 0) /\ durable' = durable
  BY DEF CacheOff, At, SerialInv, IInv, CacheInv, sessionVars
<1>2. Subject(w) \in Clients /\ job[w].req.op \in Op
  BY <1>1, BusyFacts DEF Request
<1>3. \A i \in Slots : \/ shm'[i] = shm[i]
                       \/ shm[i] # EmptyNode /\ shm'[i] = [shm[i] EXCEPT !.status = 0]
  BY <1>1, <1>2, UpdateStatusSlots
<1>4. CacheBackedByTable'
  <2>1. \A i \in Slots : shm'[i].client = shm[i].client /\ shm'[i].key = shm[i].key
                        /\ shm'[i].mat = shm[i].mat /\ (shm'[i] # EmptyNode => shm[i] # EmptyNode)
    BY <1>1, <1>3 DEF Shm, Node
  <2> QED  BY <1>1, <2>1 DEF Backing, CacheBackedByTable
<1>5. CASE job[w].req.op = "logout" /\ Reply(w, "SUCCESS")
  <2>1. Out(durable', job[w].req.from, job[w].key)
    BY <1>1, <1>5 DEF Backing, Promise
  <2> QED  BY <1>1, <1>4, <1>5, <2>1, ReplyBacking DEF Backs
<1>6. CASE Reply(w, "KEY_INVALID") \/ AuditThenReply(w, "KEY_INVALID")
  <2>1. acks' = acks
    BY <1>6 DEF Reply, AuditThenReply, Keep
  <2>2. Promise(pc'[w], job'[w], affected', durable')
    <3>1. AuditThenReply(w, "KEY_INVALID") => job'[w].code = "KEY_INVALID"
      BY <1>1, AuditCode
    <3> QED  BY <1>1, <1>6, <3>1, GoesTo DEF Promise
  <2> QED  BY <1>4, <2>1, <2>2, BackingOf
<1> QED  BY <1>5, <1>6 DEF CacheOff

LEMMA CheckOrLogoutBacking ==
  ASSUME OneThread, Kept, SerialInv, Backing, NEW w \in Workers, CheckOrLogout(w)
  PROVE  Backing'
<1>1. ASSUME shm' = shm, \E p \in {"expire", "find", "fetch"} : Goto(w, p) \/ \E j : Keep(w, p, j)
      PROVE  Backing'
  <2>1. Plain(w)
    BY <1>1 DEF Plain, Point, KeyPoint, PromisePoint
  <2> QED  BY <1>1, <2>1, PlainBacking DEF SerialInv, IInv
<1>2. CASE Snapshot(w)
  BY <1>1, <1>2 DEF Snapshot
<1>3. CASE Expire(w) \/ Find(w)
  BY <1>1, <1>3, VerdictBacking DEF Expire, Find, At, CheckPoint
<1>4. CASE Fetch(w)
  BY <1>4, VerdictBacking DEF Fetch, At, CheckPoint
<1> QED  BY <1>2, <1>3, <1>4, RevokeBacking, AffectedBacking, CacheOffBacking DEF CheckOrLogout

LEMMA SendBacking ==
  ASSUME OneThread, Kept, SerialInv, Backing, NEW w \in Workers, Send(w)
  PROVE  Backing'
<1>0. Control /\ CacheBackedByTable' /\ shm' = shm
  <2>1. shm' = shm
    BY DEF Send, Validate, Lookup, Peer, Store, insertMessageLog, Audit
  <2> QED  BY <2>1, CacheStays DEF SerialInv, IInv, Backing
<1>1. CASE Plain(w)
  BY <1>0, <1>1, PlainBacking
<1>2. CASE Validate(w) \/ Lookup(w) \/ Peer(w)
  <2>1. \/ \E p \in {"lookup", "expire"} : Goto(w, p) \/ \E j : Keep(w, p, j)
        \/ \E code \in {"INVALID_REQUEST", "KEY_INVALID", "DECRYPT_FAILED", "KEY_NOT_FOUND"} :
              AuditThenReply(w, code)
    BY <1>2, Zenon DEF Validate, Lookup, Peer
  <2>2. Plain(w)
    BY <2>1 DEF Plain, Point, KeyPoint, SendPoint, PromisePoint, Code
  <2> QED  BY <1>1, <2>2
<1>3. CASE Store(w)
  <2> DEFINE t == [work EXCEPT !.msgs = @ \cup {Message(w)}]
  <2>1. pc[w] = "store" /\ ((Executed(Write(t, TRUE)) /\ AuditThenReply(w, "SUCCESS"))
                            \/ AuditThenReply(w, "FAILED"))
    BY <1>3 DEF Store, insertMessageLog, At
  <2>2. AuditThenReply(w, "FAILED") => Plain(w)
    BY DEF Plain, Code
  <2>3. CASE Executed(Write(t, TRUE)) /\ AuditThenReply(w, "SUCCESS")
    <3>1. Settled /\ work \in Tables
      BY <2>1, OutsideSettled DEF SerialInv, IInv, SessionInv, SessionTypeOK, TxnPoint
    <3>2. Message(w) \in durable'.msgs
      BY <2>3, <3>1 DEF Executed, Write, Settled, Tables
    <3>3. job'[w].tok = job[w].tok /\ pc'[w] = "audit" /\ acks' = acks
      BY <1>0, <2>3, GoesTo DEF Control, Job, AuditThenReply, Keep
    <3>4. Promise(pc'[w], job'[w], affected', durable')
      BY <3>2, <3>3 DEF Promise, Sent, Message
    <3> QED  BY <1>0, <3>3, <3>4, BackingOf
  <2> QED  BY <1>1, <2>1, <2>2, <2>3
<1>4. CASE Audit(w)
  <2>1. pc[w] = "audit" /\ Reply(w, job[w].code) /\ job[w].code \in Code
    BY <1>0, <1>4 DEF Audit, At, Control, Job
  <2>2. CASE job[w].code # "SUCCESS"
    BY <1>1, <2>1, <2>2 DEF Plain
  <2>3. CASE job[w].code = "SUCCESS"
    <3>1. job[w].req.op = "send"
      BY <2>1 DEF SerialInv, Course, CourseAt, SendPoint
    <3>2. Sent(durable', job[w].tok)
      BY <2>1, <2>3, StaysTrue DEF Backing, Promise
    <3> QED  BY <1>0, <2>1, <2>3, <3>1, <3>2, ReplyBacking DEF Backs
  <2> QED  BY <2>2, <2>3
<1> QED  BY <1>2, <1>3, <1>4 DEF Send

LEMMA NextBacking ==
  ASSUME OneThread, SerialInv, Backing, [Next]_vars
  PROVE  Backing'
<1>1. Kept /\ Control
  BY NextKept DEF SerialInv, IInv
<1>2. ASSUME NEW w \in Workers, Handle(w)  PROVE Backing'
  BY <1>1, <1>2, AgreeBacking, CheckOrLogoutBacking, SendBacking DEF Handle
<1>3. ASSUME NEW w \in Workers, NEW r \in Requests, Take(w, r)  PROVE Backing'
  <2>1. Plain(w) /\ shm' = shm
    BY <1>3, RequestsAssumption
    DEF Take, Plain, Entry, Request, Op, Point, AgreePoint, KeyPoint, SendPoint, PromisePoint
  <2> QED  BY <1>1, <2>1, PlainBacking
<1>4. CASE Restart
  <2>1. acks' = acks /\ shm' = shm /\ \A w \in Workers : pc'[w] = "idle"
    BY <1>4 DEF Restart
  <2> QED  BY <1>1, <2>1, CacheStays, StaysTrue DEF Backing, Promise
<1>5. CASE UNCHANGED <<sessionVars, shm, pc, job, acks>>
  <2>1. affected' = affected
    BY <1>5 DEF sessionVars
  <2>2. acks' = acks /\ shm' = shm /\ pc' = pc /\ job' = job /\ durable' = durable
    BY <1>5 DEF sessionVars
  <2> QED  BY <1>1, <2>1, <2>2, CacheStays DEF Backing
<1> QED  BY <1>2, <1>3, <1>4, <1>5 DEF Next, Lapse, Done, vars, sessionVars

LEMMA SerialBacking == ASSUME OneThread PROVE Spec => []Backing
<1>1. Init => Backing
  BY DEF Init, Backing, Promise, CacheBackedByTable, EmptyShm
<1>2. SerialInv /\ Backing /\ [Next]_vars => Backing'
  BY NextBacking
<1> QED  BY <1>1, <1>2, Serial, PTL DEF Spec

\* With one thread the cache never holds a key the database does not know: an
\* agreement publishes only what it has committed, and a slot is switched, never
\* rewritten, by the checks.
THEOREM SerialCacheBacked == ASSUME OneThread PROVE Spec => []CacheBackedByTable
<1>1. Backing => CacheBackedByTable
  BY DEF Backing
<1> QED  BY <1>1, SerialBacking, PTL

\* With one thread an answer SUCCESS stays true of the committed tables, through
\* every later failure and restart: the agreed key, the logout, the message.
THEOREM SerialSuccessDurable == ASSUME OneThread PROVE Spec => []SuccessIsDurable
<1>1. Backing => SuccessIsDurable
  BY DEF Backing, Backs, HasKey, Out, Sent, SuccessIsDurable
<1> QED  BY <1>1, SerialBacking, PTL
-----------------------------------------------------------------------------
(* One thread: what audit_log says of a message is so.                     *)

\* The message a handler is sending has the newest id; it is in the tables when
\* the handler goes to write SUCCESS, and in no other case but a lost link.
TruthAt(w) ==
  pc[w] # "idle" =>
    /\ job[w].tok = seq
    /\ \A row \in durable.audit : row.id # seq
    /\ pc[w] # "audit" => ~Sent(durable, seq)
    /\ pc[w] = "audit" /\ up => (job[w].code = "SUCCESS" <=> Sent(durable, seq))

TruthInv ==
  /\ AuditTellsTruth
  /\ \A m \in durable.msgs : m.id <= seq
  /\ \A row \in durable.audit : row.id <= seq
  /\ \A w \in Workers : TruthAt(w)

\* A step of a handler that does not come to write SUCCESS.
Onward(w) ==
  \/ pc'[w] = "idle"
  \/ job'[w].tok = job[w].tok /\ (pc'[w] = "audit" => job'[w].code # "SUCCESS")

LEMMA AuditOnward ==
  ASSUME Control, NEW w \in Workers, NEW code, AuditThenReply(w, code)
  PROVE  job'[w].tok = job[w].tok /\ job'[w].code = code
<1>1. job'[w] = [job[w] EXCEPT !.code = code] /\ job[w] \in Job
  BY DEF AuditThenReply, Keep, Control
<1> QED  BY <1>1 DEF Job

LEMMA WaysOnward ==
  ASSUME Control, NEW w \in Workers
  PROVE  /\ \A p : p # "audit" /\ Goto(w, p) => Onward(w)
         /\ \A code : Reply(w, code) => Onward(w)
         /\ \A code : code # "SUCCESS" /\ AuditThenReply(w, code) => Onward(w)
         /\ \A p, j : p # "audit" /\ j.tok = job[w].tok /\ Keep(w, p, j) => Onward(w)
<1>1. ASSUME NEW code, code # "SUCCESS", AuditThenReply(w, code)  PROVE Onward(w)
  BY <1>1, AuditOnward DEF Onward
<1>2. ASSUME NEW p, NEW j, p # "audit", j.tok = job[w].tok, Keep(w, p, j)  PROVE Onward(w)
  <2>1. pc'[w] = p /\ job'[w] = j
    BY <1>2 DEF Keep, Control
  <2> QED  BY <1>2, <2>1 DEF Onward
<1>3. ASSUME NEW p, p # "audit", Goto(w, p)  PROVE Onward(w)
  <2>1. pc'[w] = p /\ job' = job
    BY <1>3 DEF Goto, Control
  <2> QED  BY <1>3, <2>1 DEF Onward
<1>4. ASSUME NEW code, Reply(w, code)  PROVE Onward(w)
  BY <1>4 DEF Reply, Onward, Control
<1> QED  BY <1>1, <1>2, <1>3, <1>4

LEMMA HandleOnward ==
  ASSUME Control, NEW w \in Workers, Handle(w), ~Store(w)
  PROVE  Onward(w)
<1>0. job[w].stage \in Stage
  BY DEF Control, Job
<1>1. CASE FetchSn(w)
  <2>1. PICK n : Keep(w, "lockKeys", [job[w] EXCEPT !.key = n]) \/ Goto(w, "rollback")
    BY <1>1 DEF FetchSn
  <2>2. [job[w] EXCEPT !.key = n].tok = job[w].tok
    BY DEF Control, Job
  <2> QED  BY <2>1, <2>2, WaysOnward
<1>2. CASE Agree(w) /\ ~FetchSn(w)
  <2>1. (\E p \in AgreePoint : Goto(w, p)) \/ (\E code : Reply(w, code))
    BY <1>2 DEF Agree, Verify, Begin, LockSn, LockKeys, FetchKeys, Rotate, Insert, BumpSn,
                CommitTxn, RollBack, Publish, Sql, AgreePoint
  <2> QED  BY <2>1, WaysOnward DEF AgreePoint
<1>3. ASSUME Passed(w) \/ Refused(w)  PROVE Onward(w)
  <2>1. \/ \E p \in {"peer", "store", "cacheOff"} : Goto(w, p)
        \/ \E code : Reply(w, code)
        \/ \E code \in {"KEY_INVALID", "KEY_NOT_FOUND"} : AuditThenReply(w, code)
    BY <1>0, <1>3 DEF Passed, Refused, Stage
  <2> QED  BY <2>1, WaysOnward
<1>4. [job[w] EXCEPT !.node = shmRead(shm, Subject(w))].tok = job[w].tok
  BY DEF Control, Job
<1>5. CASE CheckOrLogout(w)
  <2>1. \/ Keep(w, "expire", [job[w] EXCEPT !.node = shmRead(shm, Subject(w))])
        \/ Passed(w) \/ Refused(w)
        \/ \E p \in {"find", "fetch", "affected", "cacheOff"} : Goto(w, p)
        \/ (\E code : Reply(w, code)) \/ AuditThenReply(w, "KEY_INVALID")
    BY <1>5 DEF CheckOrLogout, Snapshot, Expire, Find, Fetch, CacheOff, Revoke, Affected
  <2> QED  BY <1>3, <1>4, <2>1, WaysOnward
<1>6. CASE Send(w)
  <2> DEFINE j == [job[w] EXCEPT !.stage = "receiver", !.key = shmRead(shm, job[w].req.to).key]
  <2>1. j.tok = job[w].tok
    BY DEF Control, Job
  <2>2. \/ Keep(w, "lookup", j) \/ Goto(w, "lookup")
        \/ Keep(w, "expire", [job[w] EXCEPT !.node = shmRead(shm, Subject(w))])
        \/ \E code : Reply(w, code)
        \/ \E code \in {"INVALID_REQUEST", "KEY_INVALID", "DECRYPT_FAILED", "KEY_NOT_FOUND"} :
             AuditThenReply(w, code)
    BY <1>6 DEF Send, Validate, Lookup, Peer, Audit
  <2> HIDE DEF j
  <2> QED  BY <1>4, <2>1, <2>2, WaysOnward
<1> QED  BY <1>1, <1>2, <1>5, <1>6 DEF Handle

\* The INSERT of a message: with SUCCESS it is stored; without, it is stored only
\* if the link was lost under the INSERT.
LEMMA StoreTruth ==
  ASSUME OneThread, SerialInv, TruthInv, NEW w \in Workers, Store(w)
  PROVE  TruthInv'
<1> DEFINE t == [work EXCEPT !.msgs = @ \cup {Message(w)}]
           e == Write(t, TRUE)
<1>1. /\ pc[w] = "store" /\ Control /\ seq' = seq /\ seq \in Nat
      /\ job[w].tok = seq /\ ~Sent(durable, seq) /\ \A row \in durable.audit : row.id # seq
  BY BoundsAssumption DEF Store, insertMessageLog, At, Frame, SerialInv, IInv, CacheInv, TruthInv, TruthAt
<1>2. Settled /\ durable \in Tables
  BY <1>1, OutsideSettled DEF SerialInv, IInv, SessionInv, SessionTypeOK, TxnPoint
<1>3. /\ e.durable.msgs = durable.msgs \cup {Message(w)} /\ e.durable.audit = durable.audit
      /\ Message(w).id = seq
  BY <1>1, <1>2 DEF Write, Settled, Tables, Message
<1>4. \/ Executed(e) /\ AuditThenReply(w, "SUCCESS")
      \/ Failed(e) /\ AuditThenReply(w, "FAILED")
      \/ UNCHANGED sessionVars /\ AuditThenReply(w, "FAILED")
  BY DEF Store, insertMessageLog
<1> HIDE DEF e
<1>5. /\ durable' \in {durable, e.durable}
      /\ durable' = e.durable \/ ~up' \/ durable' = durable
      /\ pc'[w] = "audit" /\ job'[w].tok = seq
      /\ up' => (job'[w].code = "SUCCESS" <=> durable' = e.durable)
  <2>1. e.durable # durable
    BY <1>1, <1>3 DEF Sent
  <2>2. ASSUME NEW code, AuditThenReply(w, code)
        PROVE  pc'[w] = "audit" /\ job'[w].tok = seq /\ job'[w].code = code
    BY <1>1, <2>2, AuditOnward, GoesTo
  <2>3. CASE Executed(e) /\ AuditThenReply(w, "SUCCESS")
    BY <2>2, <2>3 DEF Executed
  <2>4. CASE (Failed(e) \/ UNCHANGED sessionVars) /\ AuditThenReply(w, "FAILED")
    <3>1. durable' \in {durable, e.durable} /\ (up' => durable' = durable)
      BY <2>4 DEF Failed, Unsendable, Rejected, Denied, LinkLost, sessionVars
    <3> QED  BY <2>1, <2>2, <2>4, <3>1
  <2> QED  BY <1>4, <2>3, <2>4
<1>6. AuditTellsTruth' /\ (\A m \in durable'.msgs : m.id <= seq)
      /\ (\A row \in durable'.audit : row.id <= seq /\ row.id # seq)
  BY <1>1, <1>3, <1>5 DEF TruthInv, AuditTellsTruth
<1>7. up' => (job'[w].code = "SUCCESS" <=> Sent(durable', seq))
  BY <1>1, <1>3, <1>5 DEF Sent
<1>8. \A v \in Workers : v = w
  BY DEF OneThread
<1> QED  BY <1>1, <1>5, <1>6, <1>7, <1>8 DEF TruthInv, TruthAt

LEMMA AuditTruth ==
  ASSUME OneThread, SerialInv, TruthInv, NEW w \in Workers, Audit(w)
  PROVE  TruthInv'
<1> DEFINE ok  == job[w].code = "SUCCESS"
           row == [id |-> job[w].tok, ok |-> ok]
           t   == [work EXCEPT !.audit = @ \cup {row}]
           e   == Write(t, TRUE)
<1>1. /\ pc[w] = "audit" /\ Control /\ seq' = seq /\ seq \in Nat /\ job[w].tok = seq
      /\ up => (ok <=> Sent(durable, seq))
  BY BoundsAssumption DEF Audit, At, Frame, SerialInv, IInv, CacheInv, TruthInv, TruthAt
<1>2. Settled /\ durable \in Tables
  BY <1>1, OutsideSettled DEF SerialInv, IInv, SessionInv, SessionTypeOK, TxnPoint
<1>3. /\ e.durable.msgs = durable.msgs /\ e.durable.audit = durable.audit \cup {row}
      /\ row.id = seq /\ (row.ok <=> ok)
  BY <1>1, <1>2 DEF Write, Settled, Tables
<1>4. (Executed(e) \/ Failed(e)) /\ pc'[w] = "idle"
  BY <1>1, GoesTo DEF Audit
<1> HIDE DEF e, row, ok
<1>5. durable' = durable \/ (up /\ durable' = e.durable)
  BY <1>4 DEF Executed, Failed, Ready, Unsendable, Rejected, Denied, LinkLost, sessionVars
<1>6. AuditTellsTruth' /\ (\A m \in durable'.msgs : m.id <= seq)
      /\ (\A r \in durable'.audit : r.id <= seq)
  BY <1>1, <1>3, <1>5 DEF TruthInv, AuditTellsTruth, Sent
<1>7. \A v \in Workers : v = w
  BY DEF OneThread
<1> QED  BY <1>1, <1>4, <1>6, <1>7 DEF TruthInv, TruthAt

LEMMA NextTruth ==
  ASSUME OneThread, SerialInv, TruthInv, [Next]_vars
  PROVE  TruthInv'
<1>0. Control /\ seq \in Nat
  BY BoundsAssumption DEF SerialInv, IInv, CacheInv
<1>1. ASSUME durable'.msgs = durable.msgs, durable'.audit = durable.audit,
             seq' \in Nat, seq' >= seq,
             \A w \in Workers : TruthAt(w)'
      PROVE  TruthInv'
  <2>1. durable \in Tables
    BY DEF SerialInv, IInv, SessionInv, SessionTypeOK
  <2>2. (\A m \in durable.msgs : m.id \in Nat) /\ (\A row \in durable.audit : row.id \in Nat)
    BY <2>1 DEF Tables, MsgRow, AuditRow
  <2> QED  BY <1>0, <1>1, <2>2 DEF TruthInv, AuditTellsTruth
<1>2. ASSUME NEW w \in Workers, Handle(w), ~Store(w), ~Audit(w)  PROVE TruthInv'
  <2>1. pc[w] \notin {"idle", "audit"} /\ seq' = seq
    BY <1>2 DEF Handle, Agree, Verify, Begin, LockSn, FetchSn, LockKeys, FetchKeys, Rotate, Insert,
                BumpSn, CommitTxn, RollBack, Publish, CheckOrLogout, Snapshot, Expire, Find, Fetch,
                CacheOff, Revoke, Affected, Send, Validate, Lookup, Peer, Sql, At, Frame
  <2>2. pc[w] # "store"
    BY <1>2 DEF Handle, Agree, Verify, Begin, LockSn, FetchSn, LockKeys, FetchKeys, Rotate, Insert,
                BumpSn, CommitTxn, RollBack, Publish, CheckOrLogout, Snapshot, Expire, Find, Fetch,
                CacheOff, Revoke, Affected, Send, Validate, Lookup, Peer, At
  <2>3. durable'.msgs = durable.msgs /\ durable'.audit = durable.audit
    BY <2>1, <2>2, NextSerial DEF Follows, OneThread
  <2>4. Onward(w)
    BY <1>0, <1>2, HandleOnward
  <2>5. TruthAt(w)'
    BY <2>1, <2>3, <2>4 DEF TruthInv, TruthAt, Onward, Sent
  <2>6. \A v \in Workers : v = w
    BY DEF OneThread
  <2> QED  BY <1>0, <1>1, <2>1, <2>3, <2>5, <2>6
<1>3. ASSUME NEW w \in Workers, NEW r \in Requests, Take(w, r)  PROVE TruthInv'
  <2> DEFINE s == IF r.op = "send" THEN "sender" ELSE "own"
             j == [NoJob EXCEPT !.req = r, !.tok = seq + 1, !.key = r.key, !.stage = s]
  <2>1. Keep(w, Entry(r.op), j) /\ seq' = seq + 1 /\ durable' = durable
    BY <1>3 DEF Take, sessionVars
  <2>2. j.tok = seq + 1 /\ Entry(r.op) # "audit"
    BY RequestsAssumption DEF NoJob, Entry, Request, Op
  <2> HIDE DEF j
  <2>3. pc'[w] = Entry(r.op) /\ job'[w] = j
    BY <1>0, <2>1 DEF Keep, Control
  <2>4. durable \in Tables
    BY DEF SerialInv, IInv, SessionInv, SessionTypeOK
  <2>5. ~Sent(durable, seq + 1) /\ \A row \in durable.audit : row.id # seq + 1
    BY <1>0, <2>4 DEF TruthInv, Sent, Tables, MsgRow, AuditRow
  <2>6. TruthAt(w)'
    BY <2>1, <2>2, <2>3, <2>5 DEF TruthAt, Sent
  <2>7. \A v \in Workers : v = w
    BY DEF OneThread
  <2> QED  BY <1>0, <1>1, <2>1, <2>6, <2>7
<1>4. CASE Restart
  <2>1. durable' = durable /\ seq' = seq /\ \A w \in Workers : pc'[w] = "idle"
    BY <1>4 DEF Restart, Reconnected
  <2> QED  BY <1>0, <1>1, <2>1 DEF TruthAt
<1>5. CASE UNCHANGED <<sessionVars, seq, pc, job>>
  <2>1. durable' = durable /\ up' = up /\ seq' = seq /\ pc' = pc /\ job' = job
    BY <1>5 DEF sessionVars
  <2> QED  BY <1>0, <1>1, <2>1 DEF TruthInv, TruthAt
<1> QED  BY <1>2, <1>3, <1>4, <1>5, StoreTruth, AuditTruth DEF Next, Lapse, Done, vars, sessionVars

\* With one thread audit_log never says SUCCESS of a message that is not stored, nor
\* a failure of one that is: where a lost link hides the outcome, the log row cannot
\* be written either.
THEOREM SerialAuditTellsTruth == ASSUME OneThread PROVE Spec => []AuditTellsTruth
<1>1. Init => TruthInv
  BY DEF Init, SessionInit, EmptyTables, TruthInv, TruthAt, AuditTellsTruth
<1>2. SerialInv /\ TruthInv /\ [Next]_vars => TruthInv'
  BY NextTruth
<1>3. TruthInv => AuditTellsTruth
  BY DEF TruthInv
<1> QED  BY <1>1, <1>2, <1>3, Serial, PTL DEF Spec
-----------------------------------------------------------------------------
(* One thread: while a message is handled its keys' states are those that  *)
(* were checked, so it is stored under keys that are Active.               *)

ActiveKey(d, c, k) == \E r \in d.keys : r.client = c /\ r.key = k /\ r.state = "Active"

AskedPoint == {"validate", "peer", "lookup", "expire", "find", "fetch", "store"}

\* What a handler knows of the tables d, with rows in the connection.  The expiry
\* of the receiver's key can end the sender's only if they are one key.
KnownAt(p, j, d, rows) ==
  /\ j.stage = "sender" => j.key = j.req.key
  /\ p = "validate" => j.stage = "sender"
  /\ p = "peer" => ActiveKey(d, j.req.from, j.req.key)
  /\ p \in {"lookup", "expire"} /\ j.stage = "receiver" => ActiveKey(d, j.req.from, j.req.key)
  /\ p \in {"find", "fetch"} /\ j.stage = "receiver" =>
       \/ ActiveKey(d, j.req.from, j.req.key)
       \/ j.req.to = j.req.from /\ j.key = j.req.key
  /\ p = "fetch" =>
       \A r \in rows : /\ r \in d.keys /\ r.key = j.key
                       /\ r.client = IF j.stage = "receiver" THEN j.req.to ELSE j.req.from
  /\ p = "store" => ActiveKey(d, j.req.from, j.req.key) /\ ActiveKey(d, j.req.to, j.key)

Known == \A w \in Workers : KnownAt(pc[w], job[w], durable, result.rows)

\* Going on to a point where nothing is asked of the tables.
LEMMA QuietKnown ==
  ASSUME Control, Known, NEW w \in Workers, NEW d, NEW rows,
         \/ \E p \in Point \ AskedPoint : Goto(w, p)
         \/ \E code : Reply(w, code) \/ AuditThenReply(w, code)
  PROVE  KnownAt(pc'[w], job'[w], d, rows)
<1>1. job[w].stage = "sender" => job[w].key = job[w].req.key
  BY DEF Known, KnownAt
<1>2. ASSUME NEW p \in Point \ AskedPoint, Goto(w, p)  PROVE KnownAt(pc'[w], job'[w], d, rows)
  <2>1. pc'[w] = p /\ job'[w] = job[w]
    BY <1>2 DEF Goto, Control
  <2> QED  BY <1>1, <2>1 DEF KnownAt, AskedPoint
<1>3. ASSUME NEW code, Reply(w, code)  PROVE KnownAt(pc'[w], job'[w], d, rows)
  <2>1. pc'[w] = "idle" /\ job'[w] = NoJob
    BY <1>3 DEF Reply, Control
  <2> QED  BY <2>1 DEF KnownAt, NoJob
<1>4. ASSUME NEW code, AuditThenReply(w, code)  PROVE KnownAt(pc'[w], job'[w], d, rows)
  <2>1. pc'[w] = "audit" /\ job'[w] = [job[w] EXCEPT !.code = code] /\ job[w] \in Job
    BY <1>4 DEF AuditThenReply, Keep, Control
  <2>2. /\ job'[w].stage = job[w].stage /\ job'[w].key = job[w].key
        /\ job'[w].req = job[w].req
    BY <2>1 DEF Job
  <2> QED  BY <1>1, <2>1, <2>2 DEF KnownAt
<1> QED  BY <1>2, <1>3, <1>4

LEMMA RefusedKnown ==
  ASSUME Control, Known, NEW w \in Workers, NEW d, NEW rows, Refused(w)
  PROVE  KnownAt(pc'[w], job'[w], d, rows)
<1>1. "cacheOff" \in Point \ AskedPoint
  BY DEF Point, KeyPoint, AskedPoint
<1> QED  BY <1>1, QuietKnown DEF Refused

LEMMA AgreeKnown ==
  ASSUME Control, Course, Known, NEW w \in Workers, Agree(w), NEW d, NEW rows
  PROVE  KnownAt(pc'[w], job'[w], d, rows)
<1>1. CASE FetchSn(w)
  <2>1. PICK n : Keep(w, "lockKeys", [job[w] EXCEPT !.key = n]) \/ Goto(w, "rollback")
    BY <1>1 DEF FetchSn
  <2>2. CASE Goto(w, "rollback")
    BY <2>2, QuietKnown DEF Point, AgreePoint, AskedPoint
  <2>3. CASE Keep(w, "lockKeys", [job[w] EXCEPT !.key = n])
    <3>1. pc'[w] = "lockKeys" /\ job'[w] = [job[w] EXCEPT !.key = n] /\ job[w] \in Job
      BY <2>3 DEF Keep, Control
    <3>2. job'[w].stage = "own"
      BY <1>1, <3>1 DEF Job, Course, CourseAt, FetchSn, At, AgreePoint
    <3> QED  BY <3>1, <3>2 DEF KnownAt
  <2> QED  BY <2>1, <2>2, <2>3
<1>2. CASE Agree(w) /\ ~FetchSn(w)
  <2>1. (\E p \in AgreePoint : Goto(w, p)) \/ (\E code : Reply(w, code))
    BY <1>2 DEF Agree, Verify, Begin, LockSn, LockKeys, FetchKeys, Rotate, Insert, BumpSn,
                CommitTxn, RollBack, Publish, Sql, AgreePoint
  <2>2. AgreePoint \subseteq Point \ AskedPoint
    BY DEF Point, AgreePoint, AskedPoint
  <2> QED  BY <2>1, <2>2, QuietKnown
<1> QED  BY <1>1, <1>2

\* The expiry of the key asked about.
LEMMA ExpireKnown ==
  ASSUME OneThread, SerialInv, Known, NEW w \in Workers, Expire(w)
  PROVE  KnownAt(pc'[w], job'[w], durable', result'.rows)
<1> DEFINE over == {r \in KeysWhere(work.keys, Subject(w), job[w].key, "Active") :
                      <<r.client, r.key>> \in lapsed}
           e == Update(over, "Expired")
<1>1. pc[w] = "expire" /\ Control /\ KnownAt(pc[w], job[w], durable, result.rows)
  BY DEF Expire, At, SerialInv, IInv, Known
<1>2. Settled /\ durable \in Tables
  BY <1>1, OutsideSettled DEF SerialInv, IInv, SessionInv, SessionTypeOK, TxnPoint
<1>3. CASE Refused(w)
  BY <1>1, <1>3, RefusedKnown
<1>4. CASE Executed(e) /\ Goto(w, "find")
  <2>1. /\ durable'.keys = SetState(durable.keys, over, "Expired")
        /\ pc'[w] = "find" /\ job'[w] = job[w]
    BY <1>1, <1>2, <1>4, GoesTo DEF Executed, Update, Write, Settled, Tables
  <2>2. ASSUME job[w].stage = "receiver"
        PROVE  \/ ActiveKey(durable', job[w].req.from, job[w].req.key)
               \/ job[w].req.to = job[w].req.from /\ job[w].key = job[w].req.key
    <3>1. PICK r \in durable.keys :
            r.client = job[w].req.from /\ r.key = job[w].req.key /\ r.state = "Active"
      BY <1>1, <2>2 DEF KnownAt, ActiveKey
    <3>2. CASE r \in over
      BY <2>2, <3>1, <3>2 DEF KeysWhere, Subject
    <3>3. CASE r \notin over
      BY <2>1, <3>1, <3>3 DEF SetState, ActiveKey
    <3> QED  BY <3>2, <3>3
  <2> QED  BY <1>1, <2>1, <2>2 DEF KnownAt
<1> QED  BY <1>3, <1>4 DEF Expire

LEMMA FindKnown ==
  ASSUME OneThread, SerialInv, Known, NEW w \in Workers, Find(w)
  PROVE  KnownAt(pc'[w], job'[w], durable', result'.rows)
<1> DEFINE rows == {r \in work.keys : r.client = Subject(w) /\ r.key = job[w].key}
<1>1. pc[w] = "find" /\ Control /\ KnownAt(pc[w], job[w], durable, result.rows)
  BY DEF Find, At, SerialInv, IInv, Known
<1>2. Settled
  BY <1>1, OutsideSettled DEF SerialInv, TxnPoint
<1>3. CASE Refused(w)
  BY <1>1, <1>3, RefusedKnown
<1>4. CASE Executed(Select(rows)) /\ Goto(w, "fetch")
  <2>1. durable' = durable /\ result'.rows = rows /\ pc'[w] = "fetch" /\ job'[w] = job[w]
    BY <1>1, <1>4, GoesTo DEF Executed, Select
  <2>2. \A r \in rows : /\ r \in durable.keys /\ r.key = job[w].key
                        /\ r.client = IF job[w].stage = "receiver" THEN job[w].req.to
                                      ELSE job[w].req.from
    BY <1>2 DEF Settled, Subject
  <2> HIDE DEF rows
  <2> QED  BY <1>1, <2>1, <2>2 DEF KnownAt
<1> QED  BY <1>3, <1>4 DEF Find

\* An Active row was fetched: that key is Active, and by now so is the sender's.
LEMMA FetchKnown ==
  ASSUME OneThread, SerialInv, Known, NEW w \in Workers, Fetch(w)
  PROVE  KnownAt(pc'[w], job'[w], durable', result'.rows)
<1>1. pc[w] = "fetch" /\ Control /\ KnownAt(pc[w], job[w], durable, result.rows)
      /\ job[w].stage \in Stage
  BY DEF Fetch, At, SerialInv, IInv, Known, Control, Job
<1>2. CASE Refused(w)
  BY <1>1, <1>2, RefusedKnown
<1>3. CASE Fetched /\ (\E r \in result.rows : r.state = "Active") /\ Passed(w)
  <2>1. durable' = durable
    BY <1>3 DEF Fetched
  <2>2. CASE \E code : Reply(w, code) \/ AuditThenReply(w, code)
    BY <1>1, <2>2, QuietKnown
  <2>3. CASE job[w].stage = "sender" /\ Goto(w, "peer")
    <3>1. ActiveKey(durable', job[w].req.from, job[w].req.key)
      BY <1>1, <1>3, <2>1, <2>3 DEF KnownAt, ActiveKey
    <3> QED  BY <1>1, <2>3, <3>1, GoesTo DEF KnownAt
  <2>4. CASE job[w].stage = "receiver" /\ Goto(w, "store")
    <3>1. ActiveKey(durable', job[w].req.to, job[w].key)
      BY <1>1, <1>3, <2>1, <2>4 DEF KnownAt, ActiveKey
    <3>2. ActiveKey(durable', job[w].req.from, job[w].req.key)
      BY <1>1, <2>1, <2>4, <3>1 DEF KnownAt
    <3> QED  BY <1>1, <2>4, <3>1, <3>2, GoesTo DEF KnownAt
  <2> QED  BY <1>1, <1>3, <2>2, <2>3, <2>4 DEF Passed, Stage
<1> QED  BY <1>2, <1>3 DEF Fetch

LEMMA CheckOrLogoutKnown ==
  ASSUME OneThread, SerialInv, Known, NEW w \in Workers, CheckOrLogout(w)
  PROVE  KnownAt(pc'[w], job'[w], durable', result'.rows)
<1>0. Control
  BY DEF SerialInv, IInv
<1>1. CASE Snapshot(w)
  <2> DEFINE j == [job[w] EXCEPT !.node = shmRead(shm, Subject(w))]
  <2>1. j.stage = "own"
    BY <1>0, <1>1 DEF Control, Job, Snapshot, At, SerialInv, Course, CourseAt
  <2>2. pc'[w] = "expire" /\ job'[w] = j
    BY <1>0, <1>1, GoesTo DEF Snapshot
  <2> HIDE DEF j
  <2> QED  BY <2>1, <2>2 DEF KnownAt
<1>2. CASE CacheOff(w) \/ Revoke(w) \/ Affected(w)
  <2>1. \/ \E p \in {"affected", "cacheOff"} : Goto(w, p)
        \/ \E code : Reply(w, code) \/ AuditThenReply(w, code)
    BY <1>2 DEF CacheOff, Revoke, Affected
  <2> QED  BY <1>0, <2>1, QuietKnown DEF Point, KeyPoint, AskedPoint, SerialInv
<1> QED  BY <1>1, <1>2, ExpireKnown, FindKnown, FetchKnown DEF CheckOrLogout

LEMMA SendKnown ==
  ASSUME OneThread, SerialInv, Known, NEW w \in Workers, Send(w)
  PROVE  KnownAt(pc'[w], job'[w], durable', result'.rows)
<1>0. Control /\ KnownAt(pc[w], job[w], durable, result.rows)
  BY DEF SerialInv, IInv, Known
<1>1. CASE \E code : Reply(w, code) \/ AuditThenReply(w, code)
  BY <1>0, <1>1, QuietKnown
<1>2. CASE Validate(w) /\ Goto(w, "lookup")
  <2>1. pc'[w] = "lookup" /\ job'[w] = job[w] /\ job[w].stage = "sender"
    BY <1>0, <1>2, GoesTo DEF Validate, At, KnownAt
  <2> QED  BY <1>0, <2>1 DEF KnownAt
<1>3. ASSUME Lookup(w), Keep(w, "expire", [job[w] EXCEPT !.node = shmRead(shm, Subject(w))])
      PROVE  KnownAt(pc'[w], job'[w], durable', result'.rows)
  <2> DEFINE j == [job[w] EXCEPT !.node = shmRead(shm, Subject(w))]
  <2>1. j.stage = job[w].stage /\ j.req = job[w].req /\ j.key = job[w].key
    BY <1>0 DEF Control, Job
  <2>2. pc[w] = "lookup" /\ durable' = durable
    BY <1>3 DEF Lookup, At, sessionVars
  <2>3. pc'[w] = "expire" /\ job'[w] = j
    BY <1>0, <1>3 DEF Keep, Control
  <2> HIDE DEF j
  <2> QED  BY <1>0, <2>1, <2>2, <2>3 DEF KnownAt
<1>4. ASSUME Peer(w),
             Keep(w, "lookup", [job[w] EXCEPT !.stage = "receiver",
                                              !.key = shmRead(shm, job[w].req.to).key])
      PROVE  KnownAt(pc'[w], job'[w], durable', result'.rows)
  <2> DEFINE j == [job[w] EXCEPT !.stage = "receiver", !.key = shmRead(shm, job[w].req.to).key]
  <2>1. j.stage = "receiver" /\ j.req = job[w].req
    BY <1>0 DEF Control, Job
  <2>2. pc[w] = "peer" /\ durable' = durable
    BY <1>4 DEF Peer, At, sessionVars
  <2>3. pc'[w] = "lookup" /\ job'[w] = j
    BY <1>0, <1>4 DEF Keep, Control
  <2> HIDE DEF j
  <2> QED  BY <1>0, <2>1, <2>2, <2>3 DEF KnownAt
<1>5. \/ \E code : Reply(w, code) \/ AuditThenReply(w, code)
      \/ Validate(w) /\ Goto(w, "lookup")
      \/ Lookup(w) /\ Keep(w, "expire", [job[w] EXCEPT !.node = shmRead(shm, Subject(w))])
      \/ Peer(w) /\ Keep(w, "lookup", [job[w] EXCEPT !.stage = "receiver",
                                                      !.key = shmRead(shm, job[w].req.to).key])
  <2>1. CASE Peer(w)
    BY <2>1 DEF Peer
  <2>2. CASE Lookup(w)
    BY <2>2 DEF Lookup
  <2>3. CASE Validate(w) \/ Store(w) \/ Audit(w)
    BY <2>3 DEF Validate, Store, insertMessageLog, Audit
  <2> QED  BY <2>1, <2>2, <2>3 DEF Send
<1> QED  BY <1>1, <1>2, <1>3, <1>4, <1>5

LEMMA NextKnown ==
  ASSUME OneThread, SerialInv, Known, [Next]_vars
  PROVE  Known'
<1>0. Control
  BY DEF SerialInv, IInv
<1>1. ASSUME NEW w \in Workers, KnownAt(pc'[w], job'[w], durable', result'.rows)  PROVE Known'
  <2>1. \A v \in Workers : v = w
    BY DEF OneThread
  <2> QED  BY <1>1, <2>1 DEF Known
<1>2. ASSUME NEW w \in Workers, Handle(w)  PROVE Known'
  <2>1. KnownAt(pc'[w], job'[w], durable', result'.rows)
    BY <1>0, <1>2, AgreeKnown, CheckOrLogoutKnown, SendKnown DEF Handle, SerialInv
  <2> QED  BY <1>1, <2>1
<1>3. ASSUME NEW w \in Workers, NEW r \in Requests, Take(w, r)  PROVE Known'
  <2> DEFINE s == IF r.op = "send" THEN "sender" ELSE "own"
             j == [NoJob EXCEPT !.req = r, !.tok = seq + 1, !.key = r.key, !.stage = s]
  <2>1. pc'[w] = Entry(r.op) /\ job'[w] = j
    BY <1>0, <1>3, GoesTo DEF Take
  <2>2. j.key = r.key /\ j.req = r /\ j.stage = s
    BY DEF NoJob
  <2> HIDE DEF j
  <2>3. Entry(r.op) \in {"verify", "snapshot", "revoke", "validate"}
        /\ (Entry(r.op) = "validate" => s = "sender")
    BY RequestsAssumption DEF Entry, Request, Op
  <2>4. KnownAt(pc'[w], job'[w], durable', result'.rows)
    BY <2>1, <2>2, <2>3 DEF KnownAt
  <2> QED  BY <1>1, <2>4
<1>4. CASE Restart
  <2>1. \A w \in Workers : pc'[w] = "idle" /\ job'[w] = NoJob
    BY <1>4 DEF Restart
  <2> QED  BY <2>1 DEF Known, KnownAt, NoJob
<1>5. CASE UNCHANGED <<sessionVars, pc, job>>
  <2>1. durable' = durable /\ result' = result /\ pc' = pc /\ job' = job
    BY <1>5 DEF sessionVars
  <2> QED  BY <2>1 DEF Known
<1> QED  BY <1>2, <1>3, <1>4, <1>5 DEF Next, Lapse, Done, vars, sessionVars

\* The message that the step stores, if it stores one.
LEMMA StoredActive ==
  ASSUME OneThread, SerialInv, Backing, MatchInv, Known, [Next]_vars,
         NEW m \in work'.msgs, m \notin work.msgs
  PROVE  /\ \E r \in work.keys : r.client = m.from /\ r.key = m.senderKey /\ r.state = "Active"
         /\ \E r \in work.keys : /\ r.client = m.to /\ r.key = m.receiverKey
                                 /\ r.state = "Active" /\ r.mat = m.mat
<1>1. PICK w \in Workers : Store(w) /\ m = Message(w)
  <2>1. CASE UNCHANGED sessionVars \/ Restart
    BY <2>1 DEF sessionVars, Restart, Reconnected, MatchInv
  <2>2. CASE \E w \in Workers : Handle(w)
    BY <2>2, HandleMsgs DEF SerialInv, MatchInv
  <2> QED  BY <2>1, <2>2 DEF Next, Take, Lapse, Done, vars, sessionVars
<1>2. /\ pc[w] = "store" /\ KnownAt("store", job[w], durable, result.rows)
      /\ NodeAt(acks, "store", job[w]) /\ Control
  BY <1>1 DEF Store, insertMessageLog, At, Known, MatchInv, SerialInv, IInv
<1>3. Settled /\ durable \in Tables
  BY <1>2, OutsideSettled DEF SerialInv, IInv, SessionInv, SessionTypeOK, TxnPoint
<1>4. /\ m.from = job[w].req.from /\ m.senderKey = job[w].req.key
      /\ m.to = job[w].req.to /\ m.receiverKey = job[w].key /\ m.mat = job[w].node.mat
  BY <1>1 DEF Message
<1>5. PICK r \in durable.keys : r.client = m.to /\ r.key = m.receiverKey /\ r.state = "Active"
  BY <1>2, <1>4 DEF KnownAt, ActiveKey
<1>6. PICK q \in durable.keys : q.client = m.to /\ q.key = m.receiverKey /\ q.mat = m.mat
  <2>1. job[w].req.to \in Clients
    BY <1>2, BusyFacts
  <2>2. Vouched(acks, m.to, m.receiverKey, m.mat)
    BY <1>2, <1>4, <2>1, NoClientAssumption DEF NodeAt
  <2> QED  BY <2>2 DEF Vouched, Backing, Backs, HasKey
<1>7. q = r
  BY <1>5, <1>6 DEF SerialInv, Facts!IInv, Facts!NumbersUnique
<1> QED  BY <1>2, <1>3, <1>4, <1>5, <1>6, <1>7 DEF KnownAt, ActiveKey, Settled

\* With one thread a message is stored only while both keys it names are Active, and
\* under the receiver key's own bytes: nothing ends a key between its check and the
\* INSERT, not even the expiry of the receiver's key when a client writes to itself.
THEOREM SerialStoredUnderActiveKeys == ASSUME OneThread PROVE Spec => StoredUnderActiveKeys
<1>1. Init => Known
  BY DEF Init, Known, KnownAt, NoJob
<1>2. SerialInv /\ Known /\ [Next]_vars => Known'
  BY NextKnown
<1>3. SerialInv /\ Backing /\ MatchInv /\ Known /\ [Next]_vars =>
        [\A m \in work'.msgs \ work.msgs :
           /\ \E r \in work.keys : r.client = m.from /\ r.key = m.senderKey /\ r.state = "Active"
           /\ \E r \in work.keys : /\ r.client = m.to /\ r.key = m.receiverKey
                                   /\ r.state = "Active" /\ r.mat = m.mat]_vars
  BY StoredActive
<1> QED  BY <1>1, <1>2, <1>3, Serial, SerialBacking, MatchHolds, PTL DEF Spec, StoredUnderActiveKeys
-----------------------------------------------------------------------------
(* One thread: as long as nothing fails, the cache serves the Active keys  *)
(* of the clients that came first.                                         *)

\* What an answer says is at most as new as the last request, and older than the
\* request under way.
Tokens ==
  /\ IsFiniteSet(acks)
  /\ \A a \in acks : a.tok <= seq
  /\ \A w \in Workers : pc[w] # "idle" =>
       job[w].tok = seq /\ \A a \in acks : a.tok < seq

\* What the handler answers with SUCCESS.
Given(w) == [req |-> job[w].req, key |-> job[w].key, tok |-> job[w].tok]

\* A handler goes on, or answers.
LEMMA HandleAnswers ==
  ASSUME Control, NEW w \in Workers, Handle(w)
  PROVE  \/ acks' = acks /\ (pc'[w] = "idle" \/ job'[w].tok = job[w].tok)
         \/ pc'[w] = "idle" /\ acks' = acks \cup {Given(w)}
<1>1. pc'[w] = "idle" \/ job'[w].tok = job[w].tok
  <2>1. CASE Store(w)
    BY <2>1, AuditOnward DEF Store, insertMessageLog
  <2>2. CASE ~Store(w)
    BY <2>2, HandleOnward DEF Onward
  <2> QED  BY <2>1, <2>2
<1>2. acks' = acks \/ \E code : Reply(w, code)
  <2>1. CASE Agree(w)
    BY <2>1 DEF Agree, Verify, Begin, LockSn, FetchSn, LockKeys, FetchKeys, Rotate, Insert,
                BumpSn, CommitTxn, RollBack, Publish, Sql, Goto, Keep
  <2>2. CASE CheckOrLogout(w)
    <3>1. Passed(w) \/ Refused(w) => acks' = acks \/ \E code : Reply(w, code)
      BY DEF Passed, Refused, Goto, AuditThenReply, Keep, Control, Job, Stage
    <3> QED  BY <2>2, <3>1 DEF CheckOrLogout, Snapshot, Expire, Find, Fetch, CacheOff, Revoke,
                               Affected, Goto, AuditThenReply, Keep
  <2>3. CASE Send(w)
    BY <2>3 DEF Send, Validate, Lookup, Peer, Store, insertMessageLog, Audit, Goto,
                AuditThenReply, Keep
  <2> QED  BY <2>1, <2>2, <2>3 DEF Handle
<1>3. ASSUME NEW code, Reply(w, code)
      PROVE  pc'[w] = "idle" /\ acks' \in {acks, acks \cup {Given(w)}}
  BY <1>3 DEF Reply, Given, Control
<1> QED  BY <1>1, <1>2, <1>3

LEMMA NextTokens ==
  ASSUME OneThread, IInv, Tokens, [Next]_vars
  PROVE  Tokens'
<1>0. Control /\ seq \in Nat /\ (\A a \in acks : a.tok \in Nat) /\ \A w \in Workers : job[w].tok \in Nat
  BY DEF IInv, Control, CacheInv, Answer, Job
<1>1. ASSUME NEW w \in Workers, Handle(w)  PROVE Tokens'
  <2>1. seq' = seq /\ pc[w] # "idle"
    BY <1>1 DEF Handle, Agree, Verify, Begin, LockSn, FetchSn, LockKeys, FetchKeys, Rotate, Insert,
         BumpSn, CommitTxn, RollBack, Publish, CheckOrLogout, Snapshot, Expire, Find, Fetch,
         CacheOff, Revoke, Affected, Send, Validate, Lookup, Peer, Store, insertMessageLog,
         Audit, Sql, Frame, At
  <2>2. job[w].tok = seq /\ \A a \in acks : a.tok < seq
    BY <2>1 DEF Tokens
  <2>3. CASE acks' = acks /\ (pc'[w] = "idle" \/ job'[w].tok = job[w].tok)
    BY <2>1, <2>2, <2>3 DEF Tokens, OneThread
  <2>4. CASE pc'[w] = "idle" /\ acks' = acks \cup {Given(w)}
    <3>1. IsFiniteSet(acks')
      BY <2>4, FS_AddElement DEF Tokens
    <3>2. \A a \in acks' : a.tok <= seq'
      BY <1>0, <2>1, <2>2, <2>4 DEF Tokens, Given
    <3> QED  BY <2>4, <3>1, <3>2 DEF Tokens, OneThread
  <2> QED  BY <1>0, <1>1, <2>3, <2>4, HandleAnswers
<1>2. ASSUME NEW w \in Workers, NEW r \in Requests, Take(w, r)  PROVE Tokens'
  <2> DEFINE s == IF r.op = "send" THEN "sender" ELSE "own"
             j == [NoJob EXCEPT !.req = r, !.tok = seq + 1, !.key = r.key, !.stage = s]
  <2>1. Keep(w, Entry(r.op), j) /\ seq' = seq + 1 /\ acks' = acks
    BY <1>2 DEF Take, Keep
  <2>2. j.tok = seq + 1
    BY DEF NoJob
  <2> HIDE DEF j
  <2>3. job'[w].tok = seq + 1
    BY <1>0, <2>1, <2>2, GoesTo
  <2> QED  BY <1>0, <2>1, <2>3 DEF Tokens, OneThread
<1>3. CASE Restart
  BY <1>3 DEF Restart, Tokens
<1>4. CASE UNCHANGED <<seq, pc, job, acks>>
  BY <1>4 DEF Tokens
<1> QED  BY <1>1, <1>2, <1>3, <1>4 DEF Next, Lapse, Done, vars
-----------------------------------------------------------------------------
(* Who has a slot.                                                         *)

HasSlot(c) == SlotsOf(shm, c) # {}

\* KeyServer's Agreements(c), of any set of answers.
AgreedBy(A, c) == {a.tok : a \in {b \in A : b.req.op = "agree" /\ b.req.from = c}}

\* Slots are given to clients that agreed on a key, one each, in the order of their
\* first agreements: whoever has none came after all that have one.
Placed ==
  /\ \A i \in Slots :
       shm[i] = EmptyNode \/ (shm[i].client \in Clients /\ AgreedBy(acks, shm[i].client) # {})
  /\ \A i, j \in Slots : shm[i] # EmptyNode /\ shm[i].client = shm[j].client => i = j
  /\ \A c \in Clients : AgreedBy(acks, c) # {} /\ ~HasSlot(c) =>
       \A i \in Slots :
         /\ shm[i] # EmptyNode
         /\ \E a \in AgreedBy(acks, shm[i].client) : \A b \in AgreedBy(acks, c) : a < b

\* Only an agreement adds to the agreements.
LEMMA AgreementsStay ==
  ASSUME Control, Course, NEW w \in Workers, Handle(w), ~Publish(w), NEW c
  PROVE  AgreedBy(acks', c) = AgreedBy(acks, c)
<1>1. acks' = acks \/ (acks' = acks \cup {Given(w)} /\ job[w].req.op # "agree")
  <2>1. CASE Agree(w)
    BY <2>1, Zenon DEF Agree, Verify, Begin, LockSn, FetchSn, LockKeys, FetchKeys, Rotate, Insert,
                BumpSn, CommitTxn, RollBack, Sql, Goto, Keep, Reply
  <2>2. CASE ~Agree(w)
    <3>1. pc[w] \in KeyPoint \cup SendPoint
      BY <2>2 DEF Handle, CheckOrLogout, Snapshot, Expire, Find, Fetch, CacheOff, Revoke, Affected,
                  Send, Validate, Lookup, Peer, Store, insertMessageLog, Audit, At, KeyPoint, SendPoint
    <3>2. job[w].req.op # "agree"
      BY <3>1 DEF Course, CourseAt, KeyPoint, CheckPoint
    <3> QED  BY <3>2, HandleAnswers
  <2> QED  BY <2>1, <2>2
<1>2. {b \in acks' : b.req.op = "agree" /\ b.req.from = c}
        = {b \in acks : b.req.op = "agree" /\ b.req.from = c}
  BY <1>1 DEF Given
<1> QED  BY <1>2 DEF AgreedBy

LEMMA PlacedStays ==
  ASSUME Placed, \A c \in Clients : AgreedBy(acks', c) = AgreedBy(acks, c),
         \A i \in Slots : /\ shm'[i].client = shm[i].client
                          /\ shm'[i] = EmptyNode <=> shm[i] = EmptyNode
  PROVE  Placed'
<1>1. \A c \in Clients : HasSlot(c)' = HasSlot(c)
  BY DEF HasSlot, SlotsOf
<1>2. \A i \in Slots : shm[i] # EmptyNode =>
        shm[i].client \in Clients /\ AgreedBy(acks', shm'[i].client) = AgreedBy(acks, shm[i].client)
  BY DEF Placed
<1> QED  BY <1>1, <1>2 DEF Placed

\* What an agreement publishes.
NewNode(w) == [client |-> Subject(w), key |-> job[w].key, mat |-> job[w].tok, status |-> 1]

LEMMA PublishFacts ==
  ASSUME IInv, Course, NEW w \in Workers, Publish(w)
  PROVE  /\ pc[w] = "publish" /\ Subject(w) \in Clients /\ NewNode(w) \in Node
         /\ shm \in Shm /\ shm' = shmWrite(shm, NewNode(w)) /\ UNCHANGED sessionVars
         /\ pc'[w] = "idle"
         /\ AgreedBy(acks', Subject(w)) = AgreedBy(acks, Subject(w)) \cup {job[w].tok}
         /\ \A c : c # Subject(w) => AgreedBy(acks', c) = AgreedBy(acks, c)
<1>1. /\ pc[w] = "publish" /\ Control /\ shm \in Shm /\ Reply(w, "SUCCESS")
      /\ shm' = shmWrite(shm, NewNode(w)) /\ UNCHANGED sessionVars
  BY DEF Publish, At, NewNode, IInv, CacheInv
<1>2. Subject(w) \in Clients /\ NewNode(w) \in Node
  BY <1>1, BusyFacts DEF NewNode, Node, Job
<1>3. job[w].req.op = "agree" /\ job[w].req.from = Subject(w)
  BY <1>1 DEF Course, CourseAt, AgreePoint, Subject
<1>4. acks' = acks \cup {Given(w)} /\ pc'[w] = "idle"
  BY <1>1 DEF Reply, Given, Control
<1>5. ASSUME NEW c
      PROVE  {b \in acks' : b.req.op = "agree" /\ b.req.from = c}
               = {b \in acks : b.req.op = "agree" /\ b.req.from = c}
                 \cup (IF c = Subject(w) THEN {Given(w)} ELSE {})
  BY <1>3, <1>4 DEF Given
<1>6. Given(w).tok = job[w].tok
  BY DEF Given
<1>7. AgreedBy(acks', Subject(w)) = AgreedBy(acks, Subject(w)) \cup {job[w].tok}
  BY <1>5, <1>6 DEF AgreedBy
<1>8. \A c : c # Subject(w) => AgreedBy(acks', c) = AgreedBy(acks, c)
  BY <1>5 DEF AgreedBy
<1> QED  BY <1>1, <1>2, <1>4, <1>7, <1>8

LEMMA AgreementTokens ==
  ASSUME Tokens, NEW w \in Workers, pc[w] # "idle", NEW c
  PROVE  \A a \in AgreedBy(acks, c) : a < job[w].tok
  BY DEF Tokens, AgreedBy

\* The client has a slot, or there is none: the write moves nobody.
LEMMA PublishPlaced ==
  ASSUME IInv, Course, Tokens, Placed, NEW w \in Workers, Publish(w)
  PROVE  Placed'
<1> DEFINE s == Subject(w)
           node == NewNode(w)
           mine == SlotsOf(shm, s)
           free == FreeSlots(shm)
<1>0. /\ pc[w] = "publish" /\ s \in Clients /\ node \in Node /\ node.client = s
      /\ shm \in Shm /\ shm' = shmWrite(shm, node)
      /\ AgreedBy(acks', s) = AgreedBy(acks, s) \cup {job[w].tok}
      /\ \A c : c # s => AgreedBy(acks', c) = AgreedBy(acks, c)
  BY PublishFacts DEF NewNode
<1>1. \A c : \A a \in AgreedBy(acks, c) : a < job[w].tok
  BY <1>0, AgreementTokens
<1>2. \A c : AgreedBy(acks, c) \subseteq AgreedBy(acks', c)
  BY <1>0
<1>3. node # EmptyNode /\ s # NoClient
  BY <1>0, NoClientAssumption DEF EmptyNode
<1>4. ASSUME shm' = shm, mine = {}, free = {}  PROVE Placed'
  <2>1. \A c \in Clients : HasSlot(c)' = HasSlot(c)
    BY <1>4 DEF HasSlot
  <2>2. \A i \in Slots : shm[i] # EmptyNode /\ shm[i].client # s
    BY <1>4 DEF FreeSlots, SlotsOf
  <2>3. ASSUME NEW i \in Slots
        PROVE  \E a \in AgreedBy(acks', shm'[i].client) : \A b \in AgreedBy(acks', s) : a < b
    <3>1. AgreedBy(acks', shm'[i].client) = AgreedBy(acks, shm[i].client) /\ AgreedBy(acks, shm[i].client) # {}
      BY <1>0, <1>4, <2>2 DEF Placed
    <3>2. CASE AgreedBy(acks, s) # {}
      <4>1. ~HasSlot(s)
        BY <1>4 DEF HasSlot
      <4>2. PICK a \in AgreedBy(acks, shm[i].client) : \A b \in AgreedBy(acks, s) : a < b
        BY <1>0, <3>2, <4>1 DEF Placed
      <4> QED  BY <1>0, <1>1, <3>1, <4>2
    <3>3. CASE AgreedBy(acks, s) = {}
      BY <1>0, <1>1, <3>1, <3>3
    <3> QED  BY <3>2, <3>3
  <2>4. ASSUME NEW c \in Clients, c # s, AgreedBy(acks', c) # {}, ~HasSlot(c)', NEW i \in Slots
        PROVE  \E a \in AgreedBy(acks', shm'[i].client) : \A b \in AgreedBy(acks', c) : a < b
    BY <1>0, <1>2, <1>4, <2>1, <2>4 DEF Placed
  <2> QED  BY <1>2, <1>4, <2>2, <2>3, <2>4 DEF Placed
<1>5. ASSUME NEW i \in Slots, shm' = [shm EXCEPT ![i] = node],
             shm[i].client = s \/ (shm[i] = EmptyNode /\ mine = {})
      PROVE  Placed'
  <2>1. shm'[i] = node /\ \A j \in Slots : j # i => shm'[j] = shm[j]
    BY <1>0, <1>5 DEF Shm
  <2>2. \A j \in Slots : j # i => shm[j].client # s
    BY <1>3, <1>5 DEF Placed, SlotsOf, EmptyNode
  <2>3. \A j, k \in Slots : shm'[j] # EmptyNode /\ shm'[j].client = shm'[k].client => j = k
    BY <1>0, <2>1, <2>2 DEF Placed
  <2>4. \A j \in Slots :
          shm'[j] = EmptyNode \/ (shm'[j].client \in Clients /\ AgreedBy(acks', shm'[j].client) # {})
    BY <1>0, <1>2, <2>1 DEF Placed
  <2>5. ASSUME NEW c \in Clients, AgreedBy(acks', c) # {}, ~HasSlot(c)', NEW j \in Slots
        PROVE  /\ shm'[j] # EmptyNode
               /\ \E a \in AgreedBy(acks', shm'[j].client) : \A b \in AgreedBy(acks', c) : a < b
    <3>1. c # s
      BY <1>0, <2>1, <2>5 DEF HasSlot, SlotsOf
    <3>2. ~HasSlot(c)
      <4>1. \A k \in Slots : shm[k].client # c
        BY <1>3, <1>5, <2>1, <2>5, <3>1, NoClientAssumption DEF HasSlot, SlotsOf, EmptyNode
      <4> QED  BY <4>1 DEF HasSlot, SlotsOf
    <3>3. /\ AgreedBy(acks', c) = AgreedBy(acks, c)
          /\ shm[i] # EmptyNode
          /\ shm[j] # EmptyNode
          /\ \E a \in AgreedBy(acks, shm[j].client) : \A b \in AgreedBy(acks, c) : a < b
      BY <1>0, <2>5, <3>1, <3>2 DEF Placed
    <3>4. shm'[j].client = shm[j].client /\ shm'[j] # EmptyNode
      BY <1>0, <1>3, <1>5, <2>1, <3>3
    <3> QED  BY <1>2, <3>3, <3>4
  <2> QED  BY <2>3, <2>4, <2>5 DEF Placed
<1>6. CASE mine # {}
  <2>1. Min(mine) \in mine /\ Min(mine) \in Slots
    BY <1>6, FirstSlot, SlotsOfSubset
  <2> QED  BY <1>0, <1>5, <1>6, <2>1 DEF shmWrite, SlotsOf
<1>7. CASE mine = {} /\ free # {}
  <2>1. Min(free) \in free /\ Min(free) \in Slots
    BY <1>7, FirstSlot, SlotsOfSubset
  <2> QED  BY <1>0, <1>5, <1>7, <2>1 DEF shmWrite, FreeSlots
<1>8. CASE mine = {} /\ free = {}
  BY <1>0, <1>4, <1>8 DEF shmWrite
<1> QED  BY <1>6, <1>7, <1>8

LEMMA CacheOffPlaced ==
  ASSUME IInv, Course, Placed, NEW w \in Workers, CacheOff(w)
  PROVE  Placed'
<1>1. /\ pc[w] = "cacheOff" /\ Control /\ shm \in Shm
      /\ shm' = shmUpdateStatus(shm, Subject(w), 0)
  BY DEF CacheOff, At, IInv, CacheInv
<1>2. Subject(w) \in Clients
  BY <1>1, BusyFacts
<1>3. \A i \in Slots : \/ shm'[i] = shm[i]
                       \/ shm[i] # EmptyNode /\ shm'[i] = [shm[i] EXCEPT !.status = 0]
  BY <1>1, <1>2, UpdateStatusSlots
<1>4. \A i \in Slots : shm'[i].client = shm[i].client /\ (shm'[i] = EmptyNode <=> shm[i] = EmptyNode)
  <2> SUFFICES ASSUME NEW i \in Slots, shm[i] # EmptyNode,
                      shm'[i] = [shm[i] EXCEPT !.status = 0]
               PROVE  shm'[i].client = shm[i].client /\ shm'[i] # EmptyNode
    BY <1>3
  <2>1. shm[i] \in Node /\ shm[i].client \in Clients
    BY <1>1 DEF Shm, Placed
  <2>2. shm'[i].client = shm[i].client
    BY <2>1 DEF Node
  <2> QED  BY <2>1, <2>2, NoClientAssumption DEF EmptyNode
<1>5. Handle(w) /\ ~Publish(w)
  BY <1>1 DEF Handle, CheckOrLogout, Publish, At
<1>6. \A c \in Clients : AgreedBy(acks', c) = AgreedBy(acks, c)
  BY <1>1, <1>5, AgreementsStay
<1> QED  BY <1>4, <1>6, PlacedStays

LEMMA CacheKept ==
  ASSUME NEW w \in Workers, Handle(w), ~Publish(w), ~CacheOff(w)
  PROVE  shm' = shm
  BY DEF Handle, Agree, Verify, Begin, LockSn, FetchSn, LockKeys, FetchKeys, Rotate, Insert,
         BumpSn, CommitTxn, RollBack, CheckOrLogout, Snapshot, Expire, Find, Fetch,
         Revoke, Affected, Send, Validate, Lookup, Peer, Store, insertMessageLog,
         Audit, Sql

LEMMA NextPlaced ==
  ASSUME IInv, Course, Tokens, Placed, [Next]_vars
  PROVE  Placed'
<1>1. ASSUME NEW w \in Workers, Handle(w)  PROVE Placed'
  <2>1. CASE ~Publish(w) /\ ~CacheOff(w)
    <3>1. shm' = shm /\ \A c \in Clients : AgreedBy(acks', c) = AgreedBy(acks, c)
      BY <1>1, <2>1, CacheKept, AgreementsStay DEF IInv
    <3> QED  BY <3>1, PlacedStays
  <2> QED  BY <2>1, PublishPlaced, CacheOffPlaced
<1>2. CASE UNCHANGED <<shm, acks>>
  <2>1. \A c \in Clients : AgreedBy(acks', c) = AgreedBy(acks, c)
    BY <1>2 DEF AgreedBy
  <2> QED  BY <1>2, <2>1, PlacedStays
<1> QED  BY <1>1, <1>2 DEF Next, Take, Keep, Lapse, Restart, Done, vars
-----------------------------------------------------------------------------
(* What the cache serves.                                                  *)

\* The node that serves row r, and r in the cache, if its client has a slot.
NodeOf(r) == [client |-> r.client, key |-> r.key, mat |-> r.mat, status |-> 1]
Cached(r) ==
  /\ AgreedBy(acks, r.client) # {}
  /\ HasSlot(r.client) => shmRead(shm, r.client) = NodeOf(r)

NoneActive(c) == \A r \in durable.keys : r.client = c => r.state # "Active"

\* Every Active key is in the cache, or about to be published.
Served ==
  \A r \in durable.keys : r.state = "Active" =>
    Cached(r) \/ \E w \in Workers : pc[w] = "publish" /\ r.client = Subject(w)

\* The node a check carries is still the client's; what is going to be switched off
\* serves no Active key; what is going to be published is the client's one Active key.
ServesAt(w) ==
  /\ pc[w] \in CheckPoint => job[w].node = shmRead(shm, Subject(w))
  /\ pc[w] = "fetch" =>
       \A r \in durable.keys : r.client = Subject(w) /\ r.key = job[w].key => r \in result.rows
  /\ pc[w] = "affected" /\ affected => NoneActive(Subject(w))
  /\ pc[w] = "cacheOff" => NoneActive(Subject(w)) \/ ~HasSlot(Subject(w))
  /\ pc[w] = "publish" =>
       \A r \in durable.keys : r.client = Subject(w) /\ r.state = "Active" =>
         r.key = job[w].key /\ r.mat = job[w].tok

Serving == up /\ Served /\ \A w \in Workers : ServesAt(w)

ServeInv == Tokens /\ Placed /\ (faults = 0 => Serving)

ServedPoint == CheckPoint \cup {"affected", "cacheOff", "publish"}

\* As long as nothing fails, no statement does.
LEMMA FaultsNat == IInv => faults \in Nat
  BY MaxFaultsAssumption DEF IInv, SessionInv, SessionTypeOK

LEMMA NoFailure ==
  ASSUME OneThread, SerialInv, up, faults' = 0, NEW w \in Workers
  PROVE  /\ pc[w] \notin FetchPoint => \A e : ~Failed(e)
         /\ pc[w] \in FetchPoint => ~FetchFailed
<1>1. faults \in Nat
  BY FaultsNat DEF SerialInv
<1>2. result.waiting <=> pc[w] \in FetchPoint
  BY DEF SerialInv, ResultHasOwner, OneThread
<1> QED  BY <1>1, <1>2 DEF Failed, Unsendable, Ready, Rejected, LinkLost, FetchFailed

\* A step that leaves the cache and the agreements alone, and brings no Active row.
LEMMA ServedStays ==
  ASSUME OneThread, Served, NEW w \in Workers, pc[w] # "publish", shm' = shm,
         \A c : AgreedBy(acks', c) = AgreedBy(acks, c),
         \A r \in durable'.keys : r.state = "Active" => r \in durable.keys
  PROVE  Served'
<1>1. SUFFICES ASSUME NEW r \in durable'.keys, r.state = "Active"
               PROVE  Cached(r)'
  BY DEF Served
<1>2. Cached(r)
  BY <1>1 DEF Served, OneThread
<1> QED  BY <1>2 DEF Cached, HasSlot

\* What does the same but for w's place, where nothing is asked.
LEMMA QuietServes ==
  ASSUME NEW w \in Workers, pc'[w] \notin ServedPoint
  PROVE  ServesAt(w)'
  BY DEF ServesAt, ServedPoint, CheckPoint

\* The Active rows that a step of a handler leaves.
LEMMA ActiveRowsLeft ==
  ASSUME OneThread, SerialInv, NEW w \in Workers, Handle(w), pc[w] # "commit"
  PROVE  \A r \in durable'.keys : r.state = "Active" => r \in durable.keys
<1>1. CASE durable'.keys = durable.keys
  BY <1>1
<1>2. CASE Expire(w) \/ Revoke(w)
  <2>1. PICK rows \in SUBSET work.keys, s \in {"Expired", "Revoked"} :
          Executed(Update(rows, s)) \/ Failed(Update(rows, s))
    <3>1. CASE Expire(w)
      BY <3>1 DEF Expire, KeysWhere
    <3>2. CASE Revoke(w)
      BY <3>2 DEF Revoke, KeysWhere
    <3> QED  BY <1>2, <3>1, <3>2
  <2>2. Settled /\ durable \in Tables
    BY <1>2, OutsideSettled DEF Expire, Revoke, At, TxnPoint, SerialInv, IInv, SessionInv, SessionTypeOK
  <2>3. durable'.keys \in {durable.keys, SetState(durable.keys, rows, s)}
    BY <2>1, <2>2 DEF Executed, Failed, Unsendable, Rejected, Denied, LinkLost, sessionVars,
                      Update, Write, Settled, Tables
  <2>4. \A r \in rows : [r EXCEPT !.state = s].state # "Active"
    BY <2>1, <2>2 DEF Settled, Tables, KeyRow
  <2>5. ASSUME NEW r \in SetState(durable.keys, rows, s), r.state = "Active"
        PROVE  r \in durable.keys
    <3>1. r \in durable.keys \/ \E q \in rows : r = [q EXCEPT !.state = s]
      BY <2>5, SetStateRows
    <3> QED  BY <2>4, <2>5, <3>1
  <2> QED  BY <2>3, <2>5
<1>3. \/ durable'.keys = durable.keys
      \/ \E v \in Workers : pc[v] \in {"commit", "expire", "revoke"}
  BY HandleFollows DEF Follows
<1>4. pc[w] \in {"expire", "revoke"} => Expire(w) \/ Revoke(w)
  BY DEF Handle, Agree, Verify, Begin, LockSn, FetchSn, LockKeys, FetchKeys, Rotate, Insert,
         BumpSn, CommitTxn, RollBack, Publish, CheckOrLogout, Snapshot, Find, Fetch,
         CacheOff, Affected, Send, Validate, Lookup, Peer, Store, insertMessageLog,
         Audit, Sql, At
<1> QED  BY <1>1, <1>2, <1>3, <1>4 DEF OneThread

\* The commit makes the new key the client's one Active key; nobody sees it yet.
LEMMA CommitServes ==
  ASSUME OneThread, SerialInv, Serving, faults' = 0, NEW w \in Workers, CommitTxn(w)
  PROVE  Served' /\ ServesAt(w)'
<1>1. /\ pc[w] = "commit" /\ Control /\ durable \in Tables /\ shm' = shm
      /\ work = [durable EXCEPT !.keys = Rotated(w) \cup {NewRow(w)}, !.sn = @ + 1]
  BY DEF CommitTxn, Sql, At, SerialInv, IInv, SessionInv, SessionTypeOK, Transaction, TxnPoint, Reached
<1>2. durable' = work /\ Goto(w, "publish")
  BY <1>1, NoFailure DEF CommitTxn, Sql, Executed, Commit, Serving, FetchPoint
<1>3. /\ pc'[w] = "publish" /\ job' = job /\ acks' = acks
      /\ durable'.keys = Rotated(w) \cup {NewRow(w)}
  BY <1>1, <1>2, GoesTo DEF Goto, Tables
<1>4. Subject(w)' = Subject(w)
  BY <1>3 DEF Subject
<1>5. ASSUME NEW r \in durable'.keys, r.state = "Active"
      PROVE  r = NewRow(w) \/ (r \in durable.keys /\ r.client # Subject(w))
  <2>1. CASE r \in Rotated(w)
    <3>1. \/ r \in durable.keys /\ r \notin ActiveOf(durable.keys, Subject(w))
          \/ \E q \in ActiveOf(durable.keys, Subject(w)) : r = [q EXCEPT !.state = "Rotated"]
      BY <2>1, SetStateRows DEF Rotated
    <3>2. \A q \in ActiveOf(durable.keys, Subject(w)) : [q EXCEPT !.state = "Rotated"].state # "Active"
      BY <1>1 DEF ActiveOf, Tables, KeyRow
    <3> QED  BY <1>5, <3>1, <3>2 DEF ActiveOf
  <2> QED  BY <1>3, <1>5, <2>1
<1>6. NewRow(w).client = Subject(w) /\ NewRow(w).key = job[w].key /\ NewRow(w).mat = job[w].tok
  BY DEF NewRow
<1>7. ServesAt(w)'
  BY <1>3, <1>4, <1>5, <1>6 DEF ServesAt, CheckPoint
<1>8. ASSUME NEW r \in durable'.keys, r.state = "Active", r.client # Subject(w)
      PROVE  Cached(r)'
  <2>1. Cached(r)
    BY <1>1, <1>5, <1>6, <1>8 DEF Serving, Served, OneThread
  <2> QED  BY <1>1, <1>3, <2>1 DEF Cached, HasSlot
<1> QED  BY <1>3, <1>4, <1>7, <1>8 DEF Served

LEMMA PublishServes ==
  ASSUME OneThread, SerialInv, Serving, NEW w \in Workers, Publish(w)
  PROVE  Served' /\ ServesAt(w)'
<1>1. /\ pc[w] = "publish" /\ Subject(w) \in Clients /\ NewNode(w) \in Node
      /\ shm \in Shm /\ shm' = shmWrite(shm, NewNode(w)) /\ durable' = durable
      /\ pc'[w] = "idle"
      /\ AgreedBy(acks', Subject(w)) = AgreedBy(acks, Subject(w)) \cup {job[w].tok}
      /\ \A c : c # Subject(w) => AgreedBy(acks', c) = AgreedBy(acks, c)
  BY PublishFacts DEF SerialInv, sessionVars
<1>2. NewNode(w).client = Subject(w)
  BY DEF NewNode
<1>3. ASSUME NEW r \in durable.keys, r.state = "Active"  PROVE Cached(r)'
  <2>1. CASE r.client = Subject(w)
    <3>1. NodeOf(r) = NewNode(w)
      BY <1>1, <1>3, <2>1 DEF NodeOf, NewNode, Serving, ServesAt
    <3>2. HasSlot(r.client)' => shmRead(shm', r.client) = NodeOf(r)
      BY <1>1, <1>2, <2>1, <3>1, WriteServes DEF HasSlot
    <3> QED  BY <1>1, <2>1, <3>2 DEF Cached
  <2>2. CASE r.client # Subject(w)
    <3>1. Cached(r) /\ r.client \in Clients
      BY <1>3, <2>2 DEF Serving, Served, OneThread, SerialInv, IInv, SessionInv, SessionTypeOK,
                        Tables, KeyRow
    <3>2. SlotsOf(shm', r.client) = SlotsOf(shm, r.client)
          /\ shmRead(shm', r.client) = shmRead(shm, r.client)
      BY <1>1, <1>2, <2>2, <3>1, WriteOthers
    <3> QED  BY <1>1, <2>2, <3>1, <3>2 DEF Cached, HasSlot
  <2> QED  BY <2>1, <2>2
<1> QED  BY <1>1, <1>3, QuietServes DEF Served, ServedPoint, CheckPoint

\* A step that goes on to a point where nothing is asked.
LEMMA PlainServes ==
  ASSUME OneThread, SerialInv, Serving, NEW w \in Workers, Handle(w),
         ~CommitTxn(w), ~Publish(w), ~CacheOff(w)
  PROVE  /\ Served' /\ shm' = shm
         /\ pc'[w] \notin ServedPoint => ServesAt(w)'
<1>1. pc[w] \notin {"commit", "publish"}
  BY DEF Handle, Agree, Verify, Begin, LockSn, FetchSn, LockKeys, FetchKeys, Rotate, Insert,
         BumpSn, RollBack, CheckOrLogout, Snapshot, Expire, Find, Fetch,
         Revoke, Affected, Send, Validate, Lookup, Peer, Store, insertMessageLog,
         Audit, Sql, At
<1>2. /\ shm' = shm /\ \A c : AgreedBy(acks', c) = AgreedBy(acks, c)
      /\ \A r \in durable'.keys : r.state = "Active" => r \in durable.keys
  BY <1>1, CacheKept, AgreementsStay, ActiveRowsLeft DEF SerialInv, IInv
<1>3. Served'
  BY <1>1, <1>2, ServedStays DEF Serving
<1> QED  BY <1>2, <1>3, QuietServes

LEMMA AgreeServes ==
  ASSUME OneThread, SerialInv, Serving, faults' = 0, NEW w \in Workers, Agree(w)
  PROVE  Served' /\ ServesAt(w)'
<1>1. CASE ~CommitTxn(w) /\ ~Publish(w)
  <2>1. (\E p \in AgreePoint \ {"publish"} : Goto(w, p) \/ \E j : Keep(w, p, j))
        \/ Reply(w, "KEY_AGREE_FAILED")
    BY <1>1, Zenon DEF Agree, Verify, Begin, LockSn, FetchSn, LockKeys, FetchKeys, Rotate, Insert,
                BumpSn, RollBack, Sql, AgreePoint
  <2>2. pc'[w] \notin ServedPoint
    BY <2>1, GoesTo DEF SerialInv, IInv, AgreePoint, ServedPoint, CheckPoint
  <2>3. ~CacheOff(w)
    BY DEF CacheOff, Agree, Verify, Begin, LockSn, FetchSn, LockKeys, FetchKeys, Rotate, Insert,
           BumpSn, CommitTxn, RollBack, Publish, Sql, At
  <2> QED  BY <1>1, <2>2, <2>3, PlainServes DEF Handle
<1> QED  BY <1>1, CommitServes, PublishServes

\* The node is taken from the cache.
LEMMA TakingNode ==
  ASSUME Control, NEW w \in Workers, shm' = shm,
         Keep(w, "expire", [job[w] EXCEPT !.node = shmRead(shm, Subject(w))])
  PROVE  ServesAt(w)'
<1> DEFINE j == [job[w] EXCEPT !.node = shmRead(shm, Subject(w))]
<1>1. /\ j.node = shmRead(shm, Subject(w)) /\ j.stage = job[w].stage /\ j.req = job[w].req
  BY DEF Control, Job
<1>2. pc'[w] = "expire" /\ job'[w] = j
  BY GoesTo
<1> HIDE DEF j
<1>3. Subject(w)' = Subject(w)
  BY <1>1, <1>2 DEF Subject
<1> QED  BY <1>1, <1>2, <1>3 DEF ServesAt

\* From check to check the node stays.
LEMMA ExpireServes ==
  ASSUME OneThread, SerialInv, Serving, faults' = 0, NEW w \in Workers, Expire(w)
  PROVE  Served' /\ ServesAt(w)'
<1>1. pc[w] = "expire" /\ Control /\ Handle(w) /\ ~CommitTxn(w) /\ ~Publish(w) /\ ~CacheOff(w)
  BY DEF Expire, At, SerialInv, IInv, Handle, CheckOrLogout, CommitTxn, Publish, CacheOff
<1>2. Goto(w, "find")
  BY <1>1, NoFailure DEF Expire, Serving, FetchPoint
<1>3. Served' /\ shm' = shm
  BY <1>1, PlainServes
<1>4. pc'[w] = "find" /\ job' = job
  BY <1>1, <1>2, GoesTo
<1>5. job'[w].node = shmRead(shm', Subject(w)')
  BY <1>1, <1>3, <1>4 DEF Serving, ServesAt, CheckPoint, Subject
<1> QED  BY <1>3, <1>4, <1>5 DEF ServesAt

LEMMA FindServes ==
  ASSUME OneThread, SerialInv, Serving, faults' = 0, NEW w \in Workers, Find(w)
  PROVE  Served' /\ ServesAt(w)'
<1> DEFINE rows == {r \in work.keys : r.client = Subject(w) /\ r.key = job[w].key}
<1>1. pc[w] = "find" /\ Control /\ Handle(w) /\ ~CommitTxn(w) /\ ~Publish(w) /\ ~CacheOff(w)
  BY DEF Find, At, SerialInv, IInv, Handle, CheckOrLogout, CommitTxn, Publish, CacheOff
<1>2. Executed(Select(rows)) /\ Goto(w, "fetch")
  BY <1>1, NoFailure DEF Find, Serving, FetchPoint
<1>3. Served' /\ shm' = shm
  BY <1>1, PlainServes
<1>4. pc'[w] = "fetch" /\ job' = job
  BY <1>1, <1>2, GoesTo
<1>5. job'[w].node = shmRead(shm', Subject(w)') /\ Subject(w)' = Subject(w)
  BY <1>1, <1>3, <1>4 DEF Serving, ServesAt, CheckPoint, Subject
<1>6. Settled
  BY <1>1, OutsideSettled DEF SerialInv, TxnPoint
<1>7. durable' = durable /\ result'.rows = {r \in durable.keys : r.client = Subject(w) /\ r.key = job[w].key}
  BY <1>2, <1>6 DEF Executed, Select, Settled
<1> QED  BY <1>3, <1>4, <1>5, <1>7 DEF ServesAt

\* What is switched off after a check is not the node of an Active key: that key's row
\* would have been fetched.
LEMMA FetchServes ==
  ASSUME OneThread, SerialInv, Serving, faults' = 0, NEW w \in Workers, Fetch(w)
  PROVE  Served' /\ ServesAt(w)'
<1>1. pc[w] = "fetch" /\ Control /\ Handle(w) /\ ~CommitTxn(w) /\ ~Publish(w) /\ ~CacheOff(w)
  BY DEF Fetch, At, SerialInv, IInv, Handle, CheckOrLogout, CommitTxn, Publish, CacheOff
<1>2. Served' /\ shm' = shm /\ (pc'[w] \notin ServedPoint => ServesAt(w)')
  BY <1>1, PlainServes
<1>3. /\ Fetched
      /\ IF \E r \in result.rows : r.state = "Active" THEN Passed(w) ELSE Refused(w)
  BY <1>1, NoFailure DEF Fetch, Serving, FetchPoint
<1>4. pc'[w] # "cacheOff" => pc'[w] \notin ServedPoint
  BY <1>1, <1>3, VerdictGoes DEF ServedPoint, CheckPoint
<1>5. ASSUME pc'[w] = "cacheOff"
      PROVE  NoneActive(Subject(w))' \/ ~HasSlot(Subject(w))'
  <2>1. ~Passed(w)
    <3>1. ASSUME Passed(w)  PROVE pc'[w] \in {"idle", "audit", "peer", "store"}
      BY <1>1, <3>1, GoesTo DEF Passed, Control, Job, Stage
    <3> QED  BY <1>5, <3>1
  <2>2. Refused(w) /\ \A r \in result.rows : r.state # "Active"
    BY <1>3, <2>1
  <2>3. job[w].node.key = job[w].key /\ Goto(w, "cacheOff")
    BY <1>1, <1>5, <2>2, GoesTo DEF Refused, Hit, SameNumber
  <2>4. job' = job /\ durable' = durable
    BY <1>1, <1>3, <2>3, GoesTo DEF Fetched
  <2>5. ASSUME HasSlot(Subject(w)), NEW r \in durable.keys, r.client = Subject(w), r.state = "Active"
        PROVE  FALSE
    <3>1. shmRead(shm, Subject(w)) = NodeOf(r)
      BY <1>1, <2>5 DEF Serving, Served, Cached, OneThread
    <3>2. r.key = job[w].key
      BY <1>1, <2>3, <3>1 DEF Serving, ServesAt, CheckPoint, NodeOf
    <3>3. r \in result.rows
      BY <1>1, <2>5, <3>2 DEF Serving, ServesAt
    <3> QED  BY <2>2, <2>5, <3>3
  <2>6. Subject(w)' = Subject(w)
    BY <2>4 DEF Subject
  <2> QED  BY <1>2, <2>4, <2>5, <2>6 DEF NoneActive, HasSlot
<1>6. pc'[w] = "cacheOff" => ServesAt(w)'
  BY <1>5 DEF ServesAt, CheckPoint
<1> QED  BY <1>2, <1>4, <1>6

\* A logout that changed a row ended the client's one Active key.
LEMMA RevokeServes ==
  ASSUME OneThread, SerialInv, Serving, faults' = 0, NEW w \in Workers, Revoke(w)
  PROVE  Served' /\ ServesAt(w)'
<1> DEFINE rows == KeysWhere(durable.keys, Subject(w), job[w].key, "Active")
<1>1. pc[w] = "revoke" /\ Control /\ Handle(w) /\ ~CommitTxn(w) /\ ~Publish(w) /\ ~CacheOff(w)
  BY DEF Revoke, At, SerialInv, IInv, Handle, CheckOrLogout, CommitTxn, Publish, CacheOff
<1>2. Served' /\ shm' = shm
  BY <1>1, PlainServes
<1>3. Settled /\ durable \in Tables
  BY <1>1, OutsideSettled DEF SerialInv, IInv, SessionInv, SessionTypeOK, TxnPoint
<1>4. Executed(Update(rows, "Revoked")) /\ Goto(w, "affected")
  BY <1>1, <1>3, NoFailure DEF Revoke, Serving, FetchPoint, Settled
<1>5. /\ durable'.keys = SetState(durable.keys, rows, "Revoked") /\ affected' = (rows # {})
      /\ pc'[w] = "affected" /\ job' = job
  BY <1>1, <1>3, <1>4, GoesTo DEF Executed, Update, Write, Settled, Tables
<1>6. ASSUME affected', NEW r \in durable'.keys, r.client = Subject(w), r.state = "Active"
      PROVE  FALSE
  <2>1. PICK q \in rows : TRUE
    BY <1>5, <1>6
  <2>2. r \in durable.keys /\ r \notin rows
    <3>1. \/ r \in durable.keys /\ r \notin rows
          \/ \E p \in rows : r = [p EXCEPT !.state = "Revoked"]
      BY <1>5, SetStateRows
    <3>2. \A p \in rows : [p EXCEPT !.state = "Revoked"].state # "Active"
      BY <1>3 DEF KeysWhere, Tables, KeyRow
    <3> QED  BY <1>6, <3>1, <3>2
  <2>3. q = r
    BY <1>6, <2>1, <2>2 DEF KeysWhere, SerialInv, Facts!IInv, Facts!OneActiveKey
  <2> QED  BY <2>1, <2>2, <2>3
<1>7. Subject(w)' = Subject(w)
  BY <1>5 DEF Subject
<1> QED  BY <1>2, <1>5, <1>6, <1>7 DEF ServesAt, NoneActive, CheckPoint

LEMMA AffectedServes ==
  ASSUME OneThread, SerialInv, Serving, NEW w \in Workers, Affected(w)
  PROVE  Served' /\ ServesAt(w)'
<1>1. pc[w] = "affected" /\ Control /\ Handle(w) /\ ~CommitTxn(w) /\ ~Publish(w) /\ ~CacheOff(w)
      /\ durable' = durable
  BY DEF Affected, At, SerialInv, IInv, Handle, CheckOrLogout, CommitTxn, Publish, CacheOff, sessionVars
<1>2. Served' /\ (pc'[w] \notin ServedPoint => ServesAt(w)')
  BY <1>1, PlainServes
<1>3. CASE affected /\ Goto(w, "cacheOff")
  <2>1. pc'[w] = "cacheOff" /\ job' = job
    BY <1>1, <1>3, GoesTo
  <2>2. NoneActive(Subject(w))'
    BY <1>1, <1>3, <2>1 DEF Serving, ServesAt, NoneActive, Subject
  <2> QED  BY <1>2, <2>1, <2>2 DEF ServesAt, CheckPoint
<1>4. CASE Reply(w, "KEY_LOGOUT_FAILED")
  BY <1>1, <1>2, <1>4, GoesTo DEF ServedPoint, CheckPoint
<1> QED  BY <1>3, <1>4 DEF Affected

LEMMA CacheOffServes ==
  ASSUME OneThread, SerialInv, Serving, NEW w \in Workers, CacheOff(w)
  PROVE  Served' /\ ServesAt(w)'
<1>1. /\ pc[w] = "cacheOff" /\ Control /\ shm \in Shm /\ Handle(w) /\ ~Publish(w)
      /\ shm' = shmUpdateStatus(shm, Subject(w), 0) /\ durable' = durable
  BY DEF CacheOff, At, SerialInv, IInv, CacheInv, Handle, CheckOrLogout, Publish, sessionVars
<1>2. \A c : AgreedBy(acks', c) = AgreedBy(acks, c)
  BY <1>1, AgreementsStay DEF SerialInv
<1>3. pc'[w] \in {"idle", "audit"}
  BY <1>1, GoesTo DEF CacheOff
<1>4. \A c : /\ SlotsOf(shm', c) = SlotsOf(shm, c)
             /\ c # Subject(w) => shmRead(shm', c) = shmRead(shm, c)
  BY <1>1, UpdateStatusOthers
<1>5. ASSUME NEW r \in durable.keys, r.state = "Active"  PROVE Cached(r)'
  <2>1. Cached(r)
    BY <1>1, <1>5 DEF Serving, Served, OneThread
  <2>2. r.client = Subject(w) => ~HasSlot(r.client)
    BY <1>1, <1>5 DEF Serving, ServesAt, NoneActive
  <2> QED  BY <1>2, <1>4, <2>1, <2>2 DEF Cached, HasSlot
<1> QED  BY <1>1, <1>3, <1>5, QuietServes DEF Served, ServedPoint, CheckPoint

LEMMA CheckOrLogoutServes ==
  ASSUME OneThread, SerialInv, Serving, faults' = 0, NEW w \in Workers, CheckOrLogout(w)
  PROVE  Served' /\ ServesAt(w)'
<1>1. CASE Snapshot(w)
  <2>1. Control /\ Handle(w) /\ ~CommitTxn(w) /\ ~Publish(w) /\ ~CacheOff(w)
    BY <1>1 DEF Snapshot, At, SerialInv, IInv, Handle, CheckOrLogout, CommitTxn, Publish, CacheOff
  <2>2. Served' /\ shm' = shm
    BY <2>1, PlainServes
  <2> QED  BY <1>1, <2>1, <2>2, TakingNode DEF Snapshot
<1> QED  BY <1>1, ExpireServes, FindServes, FetchServes, RevokeServes, AffectedServes,
            CacheOffServes DEF CheckOrLogout

LEMMA SendServes ==
  ASSUME OneThread, SerialInv, Serving, NEW w \in Workers, Send(w)
  PROVE  Served' /\ ServesAt(w)'
<1>1. Control /\ Handle(w) /\ ~CommitTxn(w) /\ ~Publish(w) /\ ~CacheOff(w)
  BY DEF Send, Validate, Lookup, Peer, Store, insertMessageLog, Audit, At, SerialInv, IInv, Handle,
         CommitTxn, Publish, CacheOff
<1>2. Served' /\ shm' = shm /\ (pc'[w] \notin ServedPoint => ServesAt(w)')
  BY <1>1, PlainServes
<1>3. \/ pc'[w] \notin ServedPoint
      \/ Keep(w, "expire", [job[w] EXCEPT !.node = shmRead(shm, Subject(w))])
  <2>1. \/ Goto(w, "lookup") \/ (\E j : Keep(w, "lookup", j))
        \/ Keep(w, "expire", [job[w] EXCEPT !.node = shmRead(shm, Subject(w))])
        \/ \E code : Reply(w, code) \/ AuditThenReply(w, code)
    BY DEF Send, Validate, Lookup, Peer, Store, insertMessageLog, Audit
  <2>2. /\ Goto(w, "lookup") \/ (\E j : Keep(w, "lookup", j)) => pc'[w] = "lookup"
        /\ (\E code : Reply(w, code) \/ AuditThenReply(w, code)) => pc'[w] \in {"idle", "audit"}
    BY <1>1, GoesTo
  <2> QED  BY <2>1, <2>2 DEF ServedPoint, CheckPoint
<1> QED  BY <1>1, <1>2, <1>3, TakingNode

LEMMA HandleServes ==
  ASSUME OneThread, SerialInv, Serving, faults' = 0, NEW w \in Workers, Handle(w)
  PROVE  Served' /\ ServesAt(w)'
  BY AgreeServes, CheckOrLogoutServes, SendServes DEF Handle

\* The link is lost, and the count of failures grows, in one step.
LEMMA FaultsCounted ==
  ASSUME NEW w \in Workers, Handle(w)
  PROVE  faults' = faults + 1 \/ (faults' = faults /\ up' = up)
<1>1. \A e : Executed(e) \/ Failed(e) => faults' = faults + 1 \/ (faults' = faults /\ up' = up)
  BY DEF Executed, Failed, Unsendable, Rejected, Denied, LinkLost, sessionVars
<1>2. Fetched \/ FetchFailed \/ UNCHANGED sessionVars
        => faults' = faults + 1 \/ (faults' = faults /\ up' = up)
  BY DEF Fetched, FetchFailed, sessionVars
<1>3. CASE Agree(w)
  <2>1. Denied /\ UNCHANGED faults => faults' = faults /\ up' = up
    BY DEF Denied
  <2> QED  BY <1>1, <1>2, <1>3, <2>1 DEF Agree, Verify, Begin, LockSn, FetchSn, LockKeys, FetchKeys,
                  Rotate, Insert, BumpSn, CommitTxn, RollBack, RolledBack, Failed, Publish, Sql
<1>4. CASE CheckOrLogout(w)
  BY <1>1, <1>2, <1>4 DEF CheckOrLogout, Snapshot, Expire, Find, Fetch, CacheOff, Revoke, Affected
<1>5. CASE Send(w)
  BY <1>1, <1>2, <1>5 DEF Send, Validate, Lookup, Peer, Store, Audit
<1> QED  BY <1>3, <1>4, <1>5 DEF Handle

LEMMA NextServe ==
  ASSUME OneThread, SerialInv, ServeInv, [Next]_vars
  PROVE  ServeInv'
<1>0. Tokens' /\ Placed' /\ faults \in Nat
  BY NextTokens, NextPlaced, FaultsNat DEF SerialInv, ServeInv
<1>1. ASSUME NEW w \in Workers, Handle(w), faults' = 0  PROVE Serving'
  <2>1. faults = 0 /\ up' = up
    BY <1>0, <1>1, FaultsCounted
  <2> QED  BY <1>1, <2>1, HandleServes DEF ServeInv, Serving, OneThread
<1>2. ASSUME NEW w \in Workers, NEW r \in Requests, Take(w, r), faults' = 0  PROVE Serving'
  <2>1. /\ durable' = durable /\ up' = up /\ faults' = faults /\ shm' = shm /\ acks' = acks
        /\ pc[w] = "idle" /\ pc'[w] = Entry(r.op)
    BY <1>2, GoesTo DEF Take, Keep, At, sessionVars, SerialInv, IInv
  <2>2. Entry(r.op) \notin ServedPoint
    BY RequestsAssumption DEF Entry, Request, Op, ServedPoint, CheckPoint
  <2>3. Served'
    BY <1>2, <2>1, ServedStays DEF ServeInv, Serving
  <2> QED  BY <1>2, <2>1, <2>2, <2>3, QuietServes DEF ServeInv, Serving, OneThread
<1>3. CASE Restart
  BY <1>0, <1>3 DEF Restart, Reconnected, ServeInv
<1>4. ASSUME UNCHANGED <<sessionVars, shm, pc, job, acks>>, faults' = 0  PROVE Serving'
  <2>1. /\ durable' = durable /\ up' = up /\ faults' = faults /\ shm' = shm /\ acks' = acks
        /\ pc' = pc /\ job' = job /\ result' = result /\ affected' = affected
    BY <1>4 DEF sessionVars
  <2>2. Served'
    BY <1>4, <2>1 DEF ServeInv, Serving, Served, Cached, HasSlot, Subject
  <2>3. \A w \in Workers : ServesAt(w)'
    BY <1>4, <2>1 DEF ServeInv, Serving, ServesAt, HasSlot, NoneActive, Subject
  <2> QED  BY <1>4, <2>1, <2>2, <2>3 DEF ServeInv, Serving
<1> QED  BY <1>0, <1>1, <1>2, <1>3, <1>4 DEF ServeInv, Next, Lapse, Done, vars, sessionVars

LEMMA InitServe == Init => ServeInv
<1> SUFFICES ASSUME Init PROVE ServeInv
  OBVIOUS
<1>1. Tokens
  BY FS_EmptySet DEF Init, Tokens
<1>2. Placed
  BY NoClientAssumption DEF Init, Placed, EmptyShm, EmptyNode, AgreedBy
<1>3. Serving
  BY DEF Init, SessionInit, EmptyTables, Serving, Served, ServesAt, CheckPoint
<1> QED  BY <1>1, <1>2, <1>3 DEF ServeInv

\* The clients before c are as many as have answers, at most.
LEMMA BeforeFinite ==
  ASSUME Tokens, NEW c
  PROVE  IsFiniteSet(Before(c))
<1> DEFINE all == {a.req.from : a \in acks}
           f == [a \in acks |-> a.req.from]
<1>1. f \in Surjection(acks, all)
  BY DEF Surjection
<1>2. IsFiniteSet(all)
  BY <1>1, FS_Surjection DEF Tokens
<1>3. Before(c) \in SUBSET all
  BY DEF Before, Agreements
<1> QED  BY <1>2, <1>3, FS_Subset

LEMMA FirstAgreement ==
  ASSUME Control, NEW c, Agreements(c) # {}
  PROVE  /\ Agreements(c) \in SUBSET Nat /\ Agreements(c) = AgreedBy(acks, c)
         /\ Min(Agreements(c)) \in Agreements(c)
         /\ \A a \in Agreements(c) : Min(Agreements(c)) <= a
<1>1. Agreements(c) \in SUBSET Nat
  BY DEF Control, Answer, Agreements
<1> QED  BY <1>1, LeastNumber DEF Agreements, AgreedBy

LEMMA SlotsCount == IsFiniteSet(Slots) /\ Cardinality(Slots) = MaxNode
  BY FS_Interval, MaxNodeAssumption DEF Slots

\* A client without a slot has as many before it as there are slots.
LEMMA NoRoom ==
  ASSUME Control, Tokens, Placed, NEW c \in Clients, Agreements(c) # {}, ~HasSlot(c)
  PROVE  MaxNode <= Cardinality(Before(c))
<1> DEFINE f == [i \in Slots |-> shm[i].client]
<1>1. ASSUME NEW i \in Slots  PROVE shm[i] # EmptyNode /\ shm[i].client \in Before(c)
  <2> DEFINE d == shm[i].client
  <2>1. /\ shm[i] # EmptyNode /\ d \in Clients /\ AgreedBy(acks, d) # {}
        /\ \E a \in AgreedBy(acks, d) : \A b \in AgreedBy(acks, c) : a < b
    BY FirstAgreement DEF Placed
  <2>2. Agreements(d) # {} /\ Agreements(d) = AgreedBy(acks, d)
    BY <2>1 DEF Agreements, AgreedBy
  <2>3. PICK a \in Agreements(d) : a < Min(Agreements(c))
    BY <2>1, <2>2, FirstAgreement
  <2>4. Min(Agreements(d)) < Min(Agreements(c))
    <3>1. Min(Agreements(d)) <= a /\ Min(Agreements(d)) \in Nat /\ a \in Nat
      BY <2>2, <2>3, FirstAgreement
    <3>2. Min(Agreements(c)) \in Nat
      BY FirstAgreement
    <3> QED  BY <2>3, <3>1, <3>2
  <2> QED  BY <2>1, <2>2, <2>4 DEF Before
<1>2. f \in Injection(Slots, Before(c))
  BY <1>1 DEF Injection, IsInjective, Placed
<1>3. Cardinality(Slots) <= Cardinality(Before(c))
  BY <1>2, BeforeFinite, FS_Injection
<1> QED  BY <1>3, SlotsCount

\* A client with a slot has fewer before it: they all have other slots.
LEMMA Room ==
  ASSUME Control, Tokens, Placed, NEW c \in Clients, Agreements(c) # {}, HasSlot(c)
  PROVE  Cardinality(Before(c)) < MaxNode
<1>1. PICK k \in Slots : shm[k].client = c
  BY DEF HasSlot, SlotsOf
<1> DEFINE others == Slots \ {k}
           f == [i \in others |-> shm[i].client]
           served == {shm[i].client : i \in others}
<1>2. IsFiniteSet(others) /\ Cardinality(others) = MaxNode - 1
  BY SlotsCount, FS_RemoveElement
<1>3. f \in Surjection(others, served)
  BY DEF Surjection
<1>4. IsFiniteSet(served) /\ Cardinality(served) <= MaxNode - 1
  BY <1>2, <1>3, FS_Surjection
<1>5. ASSUME NEW d \in Before(c)  PROVE d \in served
  <2>1. d \in Clients /\ Agreements(d) # {} /\ Min(Agreements(d)) < Min(Agreements(c))
    BY DEF Before
  <2>2. HasSlot(d)
    <3> SUFFICES ASSUME ~HasSlot(d)  PROVE FALSE
      OBVIOUS
    <3>1. \E a \in AgreedBy(acks, c) : \A b \in AgreedBy(acks, d) : a < b
      BY <1>1, <2>1, FirstAgreement DEF Placed
    <3>2. PICK a \in Agreements(c) : a < Min(Agreements(d))
      BY <2>1, <3>1, FirstAgreement
    <3>3. Min(Agreements(c)) <= a /\ Min(Agreements(c)) \in Nat /\ a \in Nat
          /\ Min(Agreements(d)) \in Nat
      BY <2>1, <3>2, FirstAgreement
    <3> QED  BY <2>1, <3>2, <3>3
  <2>3. PICK i \in Slots : shm[i].client = d
    BY <2>2 DEF HasSlot, SlotsOf
  <2>4. d # c
    <3>1. Min(Agreements(c)) \in Nat
      BY FirstAgreement
    <3> QED  BY <2>1, <3>1
  <2> QED  BY <1>1, <2>3, <2>4
<1>6. Cardinality(Before(c)) <= Cardinality(served)
  <2>1. Before(c) \in SUBSET served
    BY <1>5
  <2> QED  BY <1>4, <2>1, FS_Subset
<1>7. Cardinality(Before(c)) \in Nat /\ Cardinality(served) \in Nat
  BY <1>4, BeforeFinite, FS_CardinalityType
<1> QED  BY <1>4, <1>6, <1>7, MaxNodeAssumption

\* With one thread and no failure the cache serves, at rest, the Active keys of the
\* first MaxNode clients that agreed on one and of no other: no rotation, logout, expiry
\* or failed check of any client takes the key of another, or a new key, out of service.
THEOREM SerialActiveKeyUsable == ASSUME OneThread PROVE Spec => []ActiveKeyUsable
<1>1. ASSUME SerialInv, ServeInv, AllIdle, faults = 0,
             NEW r \in durable.keys, r.state = "Active"
      PROVE  shmRead(shm, r.client)
               = IF Cardinality(Before(r.client)) < MaxNode THEN NodeOf(r) ELSE EmptyNode
  <2>1. Cached(r)
    BY <1>1 DEF ServeInv, Serving, Served, AllIdle
  <2>2. r.client \in Clients /\ Control
    BY <1>1 DEF SerialInv, IInv, SessionInv, SessionTypeOK, Tables, KeyRow
  <2>3. Agreements(r.client) # {}
    BY <2>1 DEF Cached, Agreements, AgreedBy
  <2>4. CASE HasSlot(r.client)
    BY <1>1, <2>1, <2>2, <2>3, <2>4, Room DEF Cached, ServeInv
  <2>5. CASE ~HasSlot(r.client)
    <3>1. MaxNode <= Cardinality(Before(r.client))
      BY <1>1, <2>2, <2>3, <2>5, NoRoom DEF ServeInv
    <3>2. Cardinality(Before(r.client)) \in Nat
      BY <1>1, BeforeFinite, FS_CardinalityType DEF ServeInv
    <3>3. shmRead(shm, r.client) = EmptyNode
      BY <2>5 DEF HasSlot, shmRead
    <3> QED  BY <3>1, <3>2, <3>3, MaxNodeAssumption
  <2> QED  BY <2>4, <2>5
<1>2. SerialInv /\ ServeInv => ActiveKeyUsable
  BY <1>1 DEF ActiveKeyUsable, NodeOf
<1>3. SerialInv /\ ServeInv /\ [Next]_vars => ServeInv'
  BY NextServe
<1> QED  BY <1>2, <1>3, InitServe, Serial, PTL DEF Spec
=============================================================================
