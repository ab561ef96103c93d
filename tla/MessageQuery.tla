---------------------------- MODULE MessageQuery ----------------------------
(***************************************************************************)
(* The two message queries (MessageQueryService over MessageRepository),   *)
(* run by further threads of the pool next to the handlers of KeyServer    *)
(* and on the same MySQL session.                                          *)
(*                                                                         *)
(* A query is checked, reads message_log, is recorded in audit_log and     *)
(* answered.  A step is one call of libmysqlclient, as in KeyServer; an    *)
(* idle reader's qjob is the last answer it has given.                     *)
(***************************************************************************)
EXTENDS KeyServer, Integers

CONSTANTS
  Readers,     \* threads that run queries
  Queries,     \* what clients may ask for
  MaxQuery,    \* bound: queries in a behaviour
  Burst        \* messages within one second, the resolution of send_time

\* "one" names a message by its id, "list" wants the last messages a client
\* has sent.  An empty name is NoClient, an empty id 0.
Query == [op : {"one", "list"}, asker : Clients \cup {NoClient}, id : Nat,
          of : Clients \cup {NoClient}, limit : Int]

ASSUME QueriesAssumption == Queries \subseteq Query
ASSUME QueryBounds       == MaxQuery \in Nat /\ Burst \in Nat \ {0}

QueryCode  == {"SUCCESS", "FAILED", "INVALID_REQUEST", "MSG_NOT_FOUND"}
QueryPoint == {"idle", "select", "fetch", "audit"}

\* known and alone are history: the sendings answered SUCCESS when the query came,
\* and that no other thread has been busy since.
QueryJob == [req : Query, tok : Nat, rows : SUBSET MsgRow, code : QueryCode,
             known : SUBSET Answer, alone : BOOLEAN]

NoQuery == [op |-> "list", asker |-> NoClient, id |-> 0, of |-> NoClient, limit |-> 0]

NoQueryJob == [req |-> NoQuery, tok |-> 0, rows |-> {}, code |-> "FAILED",
               known |-> {}, alone |-> FALSE]

VARIABLES
  qpc,
  qjob,
  asked     \* queries taken so far

queryVars == <<qpc, qjob, asked>>
allVars == <<vars, queryVars>>

QueryInit ==
  /\ Init
  /\ qpc = [q \in Readers |-> "idle"]
  /\ qjob = [q \in Readers |-> NoQueryJob]
  /\ asked = 0

KeyServerFrame == UNCHANGED <<shm, lapsed, seq, pc, job, acks>>

BusyReaders == {q \in Readers : qpc[q] # "idle"}

\* Other threads take steps while the readers in busy have a query at hand.
Crossed(busy) == [q \in Readers |-> IF q \in busy THEN [qjob[q] EXCEPT !.alone = FALSE] ELSE qjob[q]]

\* The reader q goes on at p with j in its local variables.
Turn(q, p, j) ==
  /\ qpc' = [qpc EXCEPT ![q] = p]
  /\ qjob' = [Crossed(BusyReaders \ {q}) EXCEPT ![q] = j]
  /\ UNCHANGED asked /\ KeyServerFrame

\* Every answer is recorded in audit_log before it is given.
Conclude(q, code, rows) == Turn(q, "audit", [qjob[q] EXCEPT !.code = code, !.rows = rows])
-----------------------------------------------------------------------------
(* handleQueryMessage and handleQueryMessageList.                          *)

MaxLimit == 100

\* Mutant: the list is as long as the client wishes.
AcceptableAnyLimit(r) ==
  /\ r.asker # NoClient
  /\ CASE r.op = "one"  -> r.id # 0
       [] r.op = "list" -> r.of # NoClient

\* validateQueryRequest, validateQueryListRequest
Acceptable(r) ==
  /\ r.asker # NoClient
  /\ CASE r.op = "one"  -> r.id # 0
       [] r.op = "list" -> r.of # NoClient /\ r.limit > 0 /\ r.limit <= MaxLimit

\* A list is of the asker's own messages; what a single query may show depends
\* on the message found.
Permitted(r) == Acceptable(r) /\ (r.op = "list" => r.of = r.asker)

\* A reader takes a query; one that is refused does not get to the database.
AskQuery(q, r) ==
  /\ qpc[q] = "idle"
  /\ asked < MaxQuery
  /\ asked' = asked + 1
  /\ qpc' = [qpc EXCEPT ![q] = IF Permitted(r) THEN "select" ELSE "audit"]
  /\ qjob' = [Crossed(BusyReaders) EXCEPT ![q] =
       [req |-> r, tok |-> MaxReq + asked + 1, rows |-> {}, code |-> "INVALID_REQUEST",
        known |-> {a \in acks : a.req.op = "send"},
        alone |-> BusyReaders = {} /\ \A w \in Workers : At(w, "idle")]]
  /\ KeyServerFrame /\ UNCHANGED sessionVars

\* What a reader answers when the database refuses.
NoRows(q) == IF qjob[q].req.op = "one" THEN "MSG_NOT_FOUND" ELSE "FAILED"

SelectMessages(q, rows) ==
  \/ Executed(Select(rows)) /\ Turn(q, "fetch", qjob[q])
  \/ Failed(Select(rows)) /\ Conclude(q, NoRows(q), {})

\* Mutant: only the receiver's messages are looked through.
queryReceivedById(q) ==
  /\ qpc[q] = "select" /\ qjob[q].req.op = "one"
  /\ SelectMessages(q, {m \in work.msgs : m.id = qjob[q].req.id /\ m.to = qjob[q].req.asker})

queryMessageLogById(q) ==
  /\ qpc[q] = "select" /\ qjob[q].req.op = "one"
  /\ SelectMessages(q, {m \in work.msgs : m.id = qjob[q].req.id})

\* send_time of a message; ids are given in the order messages arrive.
Second(id) == id \div Burst

\* Mutant: order by send_time, the oldest first.
Oldest(c, n) ==
  LET sent == {m \in work.msgs : m.from = c}
  IN  {rows \in SUBSET sent :
         /\ Cardinality(rows) = Min({n, Cardinality(sent)})
         /\ \A m \in rows, k \in sent \ rows : Second(m.id) <= Second(k.id)}

\* order by send_time desc limit n: which of several messages of one second make
\* it into the list is open.
Latest(c, n) ==
  LET sent == {m \in work.msgs : m.from = c}
  IN  {rows \in SUBSET sent :
         /\ Cardinality(rows) = Min({n, Cardinality(sent)})
         /\ \A m \in rows, k \in sent \ rows : Second(m.id) >= Second(k.id)}

queryRecentMessagesBySender(q) ==
  /\ qpc[q] = "select" /\ qjob[q].req.op = "list"
  /\ \E rows \in Latest(qjob[q].req.of, qjob[q].req.limit) : SelectMessages(q, rows)

\* Mutant: whoever knows the id is shown the message.
VerdictForAll(q, rows) ==
  IF qjob[q].req.op = "one" /\ rows = {} THEN "MSG_NOT_FOUND" ELSE "SUCCESS"

\* A single message is shown to its sender and its receiver.
Verdict(q, rows) ==
  CASE qjob[q].req.op = "list" -> "SUCCESS"
    [] qjob[q].req.op = "one" /\ rows = {} -> "MSG_NOT_FOUND"
    [] qjob[q].req.op = "one" /\ rows # {} ->
         IF \A m \in rows : qjob[q].req.asker \in {m.from, m.to}
         THEN "SUCCESS" ELSE "INVALID_REQUEST"

FetchMessages(q) ==
  /\ qpc[q] = "fetch"
  /\ \/ /\ Fetched
        /\ LET code == Verdict(q, result.rows)
           IN  Conclude(q, code, IF code = "SUCCESS" THEN result.rows ELSE {})
     \/ FetchFailed /\ Conclude(q, NoRows(q), {})

\* Mutant: the answer waits until its record is in audit_log.
LogActionFirst(q) ==
  LET row == [id |-> qjob[q].tok, ok |-> qjob[q].code = "SUCCESS"]
      e   == Write([work EXCEPT !.audit = @ \cup {row}], TRUE)
  IN  /\ qpc[q] = "audit"
      /\ \/ Executed(e) /\ Turn(q, "idle", qjob[q])
         \/ Failed(e) /\ Turn(q, "audit", qjob[q])

\* A failure to write the record is not looked at.
LogAction(q) ==
  LET row == [id |-> qjob[q].tok, ok |-> qjob[q].code = "SUCCESS"]
      e   == Write([work EXCEPT !.audit = @ \cup {row}], TRUE)
  IN  /\ qpc[q] = "audit"
      /\ Executed(e) \/ Failed(e)
      /\ Turn(q, "idle", qjob[q])

HandleQuery(q) ==
  \/ queryMessageLogById(q) \/ queryRecentMessagesBySender(q)
  \/ FetchMessages(q) \/ LogAction(q)
-----------------------------------------------------------------------------
(* The whole server.                                                       *)

HandlerStep ==
  /\ \E w \in Workers : Handle(w) \/ \E r \in Requests : Take(w, r)
  /\ qjob' = Crossed(BusyReaders)
  /\ UNCHANGED <<qpc, asked>>

KeyLapse == Lapse /\ UNCHANGED queryVars

\* The process dies with all its threads.
ProcessRestart ==
  /\ Restart
  /\ qpc' = [q \in Readers |-> "idle"]
  /\ qjob' = [q \in Readers |-> NoQueryJob]
  /\ UNCHANGED asked

AllDone ==
  /\ seq = MaxReq /\ asked = MaxQuery
  /\ AllIdle /\ BusyReaders = {}
  /\ UNCHANGED allVars

QueryNext ==
  \/ \E q \in Readers : HandleQuery(q) \/ \E r \in Queries : AskQuery(q, r)
  \/ HandlerStep
  \/ KeyLapse
  \/ ProcessRestart
  \/ AllDone

\* A thread of the pool that has a query keeps running it.
QuerySpec ==
  QueryInit /\ [][QueryNext]_allVars /\ \A q \in Readers : WF_allVars(HandleQuery(q))
-----------------------------------------------------------------------------
(* Properties.                                                             *)

\* Every query that gets to the database has passed the checks
\* (docs/current-architecture.md: refused before the repository is accessed).
QueryTypeOK ==
  /\ TypeOK
  /\ qpc \in [Readers -> QueryPoint]
  /\ qjob \in [Readers -> QueryJob]
  /\ asked \in 0 .. MaxQuery
  /\ \A q \in Readers : qpc[q] \in {"select", "fetch"} /\ qjob[q].req.op = "list"
       => qjob[q].req.limit \in 1 .. 100

\* MessageQueryService: an answer SUCCESS shows messages to one of the two clients
\* each is between: the message asked for, or the asker's own; whatever other
\* threads do on the session between the SELECT and the fetch, and whatever fails.
ShownToItsParties ==
  \A q \in Readers : qpc[q] = "idle" /\ qjob[q].code = "SUCCESS" =>
    LET r == qjob[q].req
    IN  /\ r.op = "one" => \E m \in qjob[q].rows : m.id = r.id
        /\ \A m \in qjob[q].rows :
             IF r.op = "one" THEN r.asker \in {m.from, m.to} ELSE r.asker = m.from

\* handleQueryMessageList: as long as nothing fails, a list holds every message
\* whose sending had been answered SUCCESS before the query, unless as many others
\* of its sender that are no older fill it.
ListShowsSent ==
  \A q \in Readers :
    /\ qpc[q] = "idle" /\ qjob[q].code = "SUCCESS" /\ qjob[q].req.op = "list"
    /\ faults = 0
    => \A a \in qjob[q].known : a.req.from = qjob[q].req.asker =>
         \/ \E m \in qjob[q].rows : m.id = a.tok
         \/ /\ Cardinality(qjob[q].rows) = qjob[q].req.limit
            /\ \A m \in qjob[q].rows : Second(m.id) >= Second(a.tok)

\* docs/demo-guide.md, querying: a message whose sending has been answered is
\* found under its id, as long as nothing fails and no other thread uses the
\* session meanwhile.
NotFoundMeansAbsent ==
  \A q \in Readers :
    /\ qpc[q] = "idle" /\ qjob[q].code = "MSG_NOT_FOUND"
    /\ qjob[q].alone /\ faults = 0
    => ~\E a \in qjob[q].known : a.tok = qjob[q].req.id

\* Every query taken is answered, on every error path, unless the process dies.
EveryQueryAnswered ==
  \A q \in Readers : qpc[q] # "idle" ~> qpc[q] = "idle"
=============================================================================
