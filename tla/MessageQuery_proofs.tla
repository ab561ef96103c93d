------------------------ MODULE MessageQuery_proofs ------------------------
(***************************************************************************)
(* Queries next to the handlers, for any number of clients, threads of     *)
(* either kind, messages and failures: the types, and that an answer shows *)
(* what was asked for to a party of it.  Then, with one thread for the     *)
(* handlers and any number for the queries, that what has been answered as *)
(* sent is listed and found.                                               *)
(***************************************************************************)
EXTENDS MessageQuery, KeyServer_proofs
-----------------------------------------------------------------------------
(* The invariant.                                                          *)

QueryTypes ==
  /\ qpc \in [Readers -> QueryPoint]
  /\ qjob \in [Readers -> QueryJob]
  /\ asked \in 0 .. MaxQuery

\* What reads the database has passed the checks.
Checked == \A q \in Readers : qpc[q] \in {"select", "fetch"} => Permitted(qjob[q].req)

\* Rows that answer what r asks for, whether or not r may see them.
Fits(r, rows) ==
  /\ rows \subseteq MsgRow
  /\ \A m \in rows : IF r.op = "one" THEN m.id = r.id ELSE m.from = r.of

\* A query about to fetch finds its own rows, and nobody else is about to fetch.
ReaderOwns ==
  \A q \in Readers : qpc[q] = "fetch" =>
    /\ result.waiting /\ Fits(qjob[q].req, result.rows)
    /\ \A w \in Workers : pc[w] \notin FetchPoint
    /\ \A p \in Readers : qpc[p] = "fetch" => p = q

\* An answer SUCCESS shows the message asked for, or the asker's own, to a party.
Shown(j) ==
  j.code = "SUCCESS" =>
    /\ j.req.op = "one" => \E m \in j.rows : m.id = j.req.id
    /\ \A m \in j.rows :
         IF j.req.op = "one" THEN j.req.asker \in {m.from, m.to} ELSE j.req.asker = m.from

AnswersShown == \A q \in Readers : qpc[q] \in {"audit", "idle"} => Shown(qjob[q])

QueryInv == IInv /\ QueryTypes /\ Checked /\ ReaderOwns /\ AnswersShown
-----------------------------------------------------------------------------
(* Steps as the readers see them.                                          *)

\* The same query at the same place, but for the history of who else is busy.
SameQuery(j, k) == j.req = k.req /\ j.rows = k.rows /\ j.code = k.code /\ j.known = k.known

Untouched(q) == qpc'[q] = qpc[q] /\ SameQuery(qjob'[q], qjob[q])

LEMMA CrossedFacts ==
  ASSUME QueryTypes, NEW busy, NEW q \in Readers
  PROVE  /\ Crossed(busy)[q] \in QueryJob
         /\ SameQuery(Crossed(busy)[q], qjob[q])
         /\ q \in busy => ~Crossed(busy)[q].alone
         /\ q \notin busy => Crossed(busy)[q] = qjob[q]
<1>1. qjob[q] \in QueryJob
  BY DEF QueryTypes
<1>2. Crossed(busy)[q] = IF q \in busy THEN [qjob[q] EXCEPT !.alone = FALSE] ELSE qjob[q]
  BY DEF Crossed
<1>3. CASE q \in busy
  <2> DEFINE k == [qjob[q] EXCEPT !.alone = FALSE]
  <2>1. k \in QueryJob /\ SameQuery(k, qjob[q]) /\ ~k.alone
    BY <1>1 DEF QueryJob, SameQuery
  <2>2. Crossed(busy)[q] = k
    BY <1>2, <1>3
  <2> QED  BY <1>3, <2>1, <2>2
<1>4. CASE q \notin busy
  BY <1>1, <1>2, <1>4 DEF SameQuery
<1> QED  BY <1>3, <1>4

LEMMA CrossedType ==
  ASSUME QueryTypes, NEW busy
  PROVE  Crossed(busy) \in [Readers -> QueryJob]
<1>1. \A q \in Readers : Crossed(busy)[q] \in QueryJob
  BY CrossedFacts
<1>2. DOMAIN Crossed(busy) = Readers /\ Crossed(busy) = [q \in Readers |-> Crossed(busy)[q]]
  BY DEF Crossed
<1> QED  BY <1>1, <1>2

\* A turn of q is q's alone.
LEMMA TurnFacts ==
  ASSUME QueryTypes, NEW q \in Readers, NEW p \in QueryPoint, NEW j \in QueryJob, Turn(q, p, j)
  PROVE  /\ QueryTypes'
         /\ qpc'[q] = p /\ qjob'[q] = j
         /\ \A r \in Readers \ {q} : Untouched(r)
<1>1. qpc' = [qpc EXCEPT ![q] = p] /\ qjob' = [Crossed(BusyReaders \ {q}) EXCEPT ![q] = j]
      /\ asked' = asked
  BY DEF Turn
<1>2. Crossed(BusyReaders \ {q}) \in [Readers -> QueryJob]
  BY CrossedType
<1>3. \A r \in Readers \ {q} : SameQuery(Crossed(BusyReaders \ {q})[r], qjob[r])
  BY CrossedFacts
<1>4. \A r \in Readers \ {q} : qpc'[r] = qpc[r] /\ qjob'[r] = Crossed(BusyReaders \ {q})[r]
  BY <1>1, <1>2 DEF QueryTypes
<1>5. qpc'[q] = p /\ qjob'[q] = j
  BY <1>1, <1>2 DEF QueryTypes
<1>6. QueryTypes'
  BY <1>1, <1>2 DEF QueryTypes
<1> QED  BY <1>3, <1>4, <1>5, <1>6 DEF Untouched

\* Where q comes to answer, nothing is left to be checked or fetched.
LEMMA UntouchedQueries ==
  ASSUME QueryInv, NEW q \in Readers, \A r \in Readers \ {q} : Untouched(r)
  PROVE  /\ \A r \in Readers \ {q} : qpc'[r] \in {"select", "fetch"} => Permitted(qjob'[r].req)
         /\ \A r \in Readers \ {q} : qpc'[r] \in {"audit", "idle"} => Shown(qjob'[r])
<1>1. \A r \in Readers \ {q} : qpc'[r] = qpc[r] /\ SameQuery(qjob'[r], qjob[r])
  BY DEF Untouched
<1>2. \A r \in Readers \ {q} : qpc'[r] \in {"select", "fetch"} => Permitted(qjob'[r].req)
  BY <1>1 DEF QueryInv, Checked, SameQuery
<1>3. \A j, k : SameQuery(j, k) /\ Shown(k) => Shown(j)
  BY DEF SameQuery, Shown
<1>4. \A r \in Readers \ {q} : qpc'[r] \in {"audit", "idle"} => Shown(qjob'[r])
  BY <1>1, <1>3 DEF QueryInv, AnswersShown
<1> QED  BY <1>2, <1>4

\* A query leaves the handlers' variables alone.
LEMMA ReaderFrame ==
  ASSUME IInv, KeyServerFrame, SessionInv', Owner'
  PROVE  IInv'
  BY DEF IInv, KeyServerFrame, CacheInv, Control

LEMMA ReaderQuiet ==
  ASSUME IInv, KeyServerFrame, Quiet
  PROVE  Owner'
<1>1. pc' = pc
  BY DEF KeyServerFrame
<1> QED  BY <1>1 DEF IInv, Owner, Quiet, FetchPoint

\* No handler waits: the result is not theirs.
LEMMA ReaderFree ==
  ASSUME KeyServerFrame, \A w \in Workers : pc[w] \notin FetchPoint
  PROVE  Owner'
  BY DEF KeyServerFrame, Owner, FetchPoint
-----------------------------------------------------------------------------
(* The steps of a query.                                                   *)

\* The rows each SELECT asks for.
Wanted(q, rows) ==
  IF qjob[q].req.op = "one" THEN rows = {m \in work.msgs : m.id = qjob[q].req.id}
  ELSE rows \in Latest(qjob[q].req.of, qjob[q].req.limit)

LEMMA ConcludeFacts ==
  ASSUME QueryTypes, NEW q \in Readers, NEW code \in QueryCode, NEW rows \in SUBSET MsgRow,
         Conclude(q, code, rows)
  PROVE  /\ QueryTypes' /\ KeyServerFrame
         /\ qpc'[q] = "audit"
         /\ qjob'[q].req = qjob[q].req /\ qjob'[q].code = code /\ qjob'[q].rows = rows
         /\ qjob'[q].known = qjob[q].known /\ qjob'[q].alone = qjob[q].alone
         /\ \A r \in Readers \ {q} : Untouched(r)
<1> DEFINE j == [qjob[q] EXCEPT !.code = code, !.rows = rows]
<1>1. qjob[q] \in QueryJob
  BY DEF QueryTypes
<1>2. /\ j \in QueryJob /\ j.req = qjob[q].req /\ j.code = code /\ j.rows = rows
      /\ j.known = qjob[q].known /\ j.alone = qjob[q].alone
  BY <1>1 DEF QueryJob
<1>3. Turn(q, "audit", j)
  BY DEF Conclude
<1> HIDE DEF j
<1>4. "audit" \in QueryPoint
  BY DEF QueryPoint
<1> QED  BY <1>2, <1>3, <1>4, TurnFacts DEF Turn

\* Concluding keeps the invariant when what is concluded may be shown.
LEMMA ConcludeSafe ==
  ASSUME QueryInv, NEW q \in Readers, NEW code \in QueryCode, NEW rows \in SUBSET MsgRow,
         Conclude(q, code, rows), IInv',
         Shown([qjob[q] EXCEPT !.code = code, !.rows = rows]),
         \A r \in Readers \ {q} : qpc[r] = "fetch" => result' = result
  PROVE  QueryInv'
<1>1. /\ QueryTypes' /\ KeyServerFrame
      /\ qpc'[q] = "audit"
      /\ qjob'[q].req = qjob[q].req /\ qjob'[q].code = code /\ qjob'[q].rows = rows
      /\ \A r \in Readers \ {q} : Untouched(r)
  BY ConcludeFacts DEF QueryInv
<1>2. Shown(qjob'[q])
  <2>1. qjob[q] \in QueryJob
    BY DEF QueryInv, QueryTypes
  <2> QED  BY <1>1, <2>1 DEF Shown, QueryJob
<1>3. Checked' /\ AnswersShown'
  BY <1>1, <1>2, UntouchedQueries DEF Checked, AnswersShown
<1>4. ReaderOwns'
  <2> SUFFICES ASSUME NEW r \in Readers \ {q}, qpc'[r] = "fetch"
               PROVE  /\ result'.waiting /\ Fits(qjob'[r].req, result'.rows)
                      /\ \A w \in Workers : pc'[w] \notin FetchPoint
                      /\ \A p \in Readers : qpc'[p] = "fetch" => p = r
    BY <1>1 DEF ReaderOwns
  <2>1. qpc[r] = "fetch" /\ qjob'[r].req = qjob[r].req /\ pc' = pc /\ result' = result
    BY <1>1 DEF Untouched, SameQuery, KeyServerFrame
  <2>2. \A p \in Readers : qpc'[p] = "fetch" => qpc[p] = "fetch"
    BY <1>1 DEF Untouched
  <2> QED  BY <2>1, <2>2 DEF QueryInv, ReaderOwns
<1> QED  BY <1>1, <1>3, <1>4 DEF QueryInv

\* A refused statement, or one that is no SELECT, is nobody's wait.
LEMMA QuietOthers ==
  ASSUME QueryInv, Quiet
  PROVE  \A r \in Readers : qpc[r] = "fetch" => result' = result
  BY DEF QueryInv, ReaderOwns, Quiet

LEMMA WantedFits ==
  ASSUME QueryInv, NEW q \in Readers, NEW rows, Wanted(q, rows)
  PROVE  Fits(qjob[q].req, rows) /\ rows \subseteq work.msgs
<1>1. work.msgs \subseteq MsgRow
  BY DEF QueryInv, IInv, SessionInv, SessionTypeOK, Tables
<1> QED  BY <1>1 DEF Wanted, Fits, Latest

LEMMA SelectIsWanted ==
  ASSUME QueryInv, NEW q \in Readers, queryMessageLogById(q) \/ queryRecentMessagesBySender(q)
  PROVE  qpc[q] = "select" /\ \E rows : Wanted(q, rows) /\ SelectMessages(q, rows)
<1>1. CASE queryMessageLogById(q)
  BY <1>1 DEF queryMessageLogById, Wanted
<1>2. CASE queryRecentMessagesBySender(q)
  BY <1>2 DEF queryRecentMessagesBySender, Wanted
<1> QED  BY <1>1, <1>2

LEMMA SelectMessagesSafe ==
  ASSUME QueryInv, NEW q \in Readers, qpc[q] = "select", NEW rows, Wanted(q, rows),
         SelectMessages(q, rows)
  PROVE  QueryInv'
<1>1. Fits(qjob[q].req, rows) /\ rows \in SUBSET MsgRow
  BY WantedFits DEF Fits
<1>2. Forward(Select(rows))
  BY <1>1, SelectForward DEF QueryInv, IInv
<1>3. SessionInv'
  BY <1>2, StatementSafe DEF QueryInv, IInv, SelectMessages
<1>4. CASE Executed(Select(rows)) /\ Turn(q, "fetch", qjob[q])
  <2>1. ~result.waiting /\ result' = [waiting |-> TRUE, rows |-> rows]
    BY <1>4 DEF Executed, Ready, Select
  <2>2. KeyServerFrame /\ pc' = pc
    BY <1>4 DEF Turn, KeyServerFrame
  <2>3. (\A w \in Workers : pc[w] \notin FetchPoint) /\ (\A r \in Readers : qpc[r] # "fetch")
    BY <2>1 DEF QueryInv, IInv, Owner, ReaderOwns
  <2>4. IInv'
    BY <1>3, <2>2, <2>3, ReaderFree, ReaderFrame DEF QueryInv
  <2>5. /\ QueryTypes'
        /\ qpc'[q] = "fetch" /\ qjob'[q] = qjob[q]
        /\ \A r \in Readers \ {q} : Untouched(r)
    BY <1>4, TurnFacts DEF QueryInv, QueryTypes, QueryPoint
  <2>6. ReaderOwns'
    BY <1>1, <2>1, <2>2, <2>3, <2>5 DEF ReaderOwns, Untouched
  <2>7. Permitted(qjob'[q].req)
    BY <2>5 DEF QueryInv, Checked
  <2>8. Checked' /\ AnswersShown'
    BY <2>5, <2>7, UntouchedQueries DEF Checked, AnswersShown
  <2> QED  BY <2>4, <2>5, <2>6, <2>8 DEF QueryInv
<1>5. CASE Failed(Select(rows)) /\ Conclude(q, NoRows(q), {})
  <2>1. Quiet
    BY <1>5, FailedQuiet
  <2>2. KeyServerFrame
    BY <1>5 DEF Conclude, Turn
  <2>3. IInv'
    BY <1>3, <2>1, <2>2, ReaderQuiet, ReaderFrame DEF QueryInv
  <2>4. NoRows(q) \in QueryCode /\ NoRows(q) # "SUCCESS" /\ {} \in SUBSET MsgRow
    BY DEF NoRows, QueryCode
  <2>5. Shown([qjob[q] EXCEPT !.code = NoRows(q), !.rows = {}])
    BY <2>4 DEF QueryInv, QueryTypes, QueryJob, Shown
  <2> QED  BY <1>5, <2>1, <2>3, <2>4, <2>5, QuietOthers, ConcludeSafe
<1> QED  BY <1>4, <1>5 DEF SelectMessages

LEMMA VerdictShown ==
  ASSUME QueryInv, NEW q \in Readers, qpc[q] = "fetch"
  PROVE  LET code == Verdict(q, result.rows)
             rows == IF code = "SUCCESS" THEN result.rows ELSE {}
         IN  /\ code \in QueryCode /\ rows \in SUBSET MsgRow
             /\ Shown([qjob[q] EXCEPT !.code = code, !.rows = rows])
<1> DEFINE code == Verdict(q, result.rows)
           rows == IF code = "SUCCESS" THEN result.rows ELSE {}
           j    == [qjob[q] EXCEPT !.code = code, !.rows = rows]
<1>1. qjob[q] \in QueryJob /\ qjob[q].req.op \in {"one", "list"}
  BY DEF QueryInv, QueryTypes, QueryJob, Query
<1>2. Fits(qjob[q].req, result.rows) /\ Permitted(qjob[q].req)
  BY DEF QueryInv, ReaderOwns, Checked
<1>3. code \in QueryCode
  BY <1>1 DEF Verdict, QueryCode
<1>4. rows \in SUBSET MsgRow
  BY <1>2 DEF Fits
<1>5. j.req = qjob[q].req /\ j.code = code /\ j.rows = rows
  BY <1>1 DEF QueryJob
<1>6. code = "SUCCESS" => rows = result.rows
  OBVIOUS
<1>7. qjob[q].req.op = "one" /\ code = "SUCCESS" =>
        result.rows # {} /\ \A m \in result.rows : qjob[q].req.asker \in {m.from, m.to}
  BY DEF Verdict
<1>8. qjob[q].req.op = "list" => qjob[q].req.of = qjob[q].req.asker
  BY <1>2 DEF Permitted
<1>9. Shown(j)
  <2> HIDE DEF code, rows, j
  <2>1. CASE qjob[q].req.op = "one"
    BY <1>2, <1>5, <1>6, <1>7, <2>1 DEF Shown, Fits
  <2>2. CASE qjob[q].req.op = "list"
    BY <1>2, <1>5, <1>6, <1>8, <2>2 DEF Shown, Fits
  <2> QED  BY <1>1, <2>1, <2>2
<1> QED  BY <1>3, <1>4, <1>9

LEMMA FetchMessagesSafe ==
  ASSUME QueryInv, NEW q \in Readers, FetchMessages(q)
  PROVE  QueryInv'
<1>1. qpc[q] = "fetch" /\ (Fetched \/ FetchFailed)
  BY DEF FetchMessages
<1>2. /\ \A w \in Workers : pc[w] \notin FetchPoint
      /\ \A r \in Readers \ {q} : qpc[r] # "fetch"
  BY <1>1 DEF QueryInv, ReaderOwns
<1>3. PICK code \in QueryCode, rows \in SUBSET MsgRow :
        Conclude(q, code, rows) /\ Shown([qjob[q] EXCEPT !.code = code, !.rows = rows])
  <2>1. CASE FetchFailed /\ Conclude(q, NoRows(q), {})
    <3>1. NoRows(q) \in QueryCode /\ NoRows(q) # "SUCCESS" /\ {} \in SUBSET MsgRow
      BY DEF NoRows, QueryCode
    <3>2. Shown([qjob[q] EXCEPT !.code = NoRows(q), !.rows = {}])
      BY <3>1 DEF QueryInv, QueryTypes, QueryJob, Shown
    <3> QED  BY <2>1, <3>1, <3>2
  <2> QED  BY <1>1, <2>1, VerdictShown DEF FetchMessages
<1>4. KeyServerFrame
  BY <1>3 DEF Conclude, Turn
<1>5. IInv'
  BY <1>1, <1>2, <1>4, FetchSafe, ReaderFree, ReaderFrame DEF QueryInv, IInv
<1> QED  BY <1>2, <1>3, <1>5, ConcludeSafe

\* Only the way a query is recorded; like a handler's own record.
LEMMA RecordForward ==
  ASSUME IInv, NEW row \in AuditRow
  PROVE  LET e == Write([work EXCEPT !.audit = @ \cup {row}], TRUE)
         IN  Forward(e) /\ e.result = NoResult
<1> DEFINE t == [work EXCEPT !.audit = @ \cup {row}]
<1>1. t \in Tables /\ t.keys = work.keys
  BY DEF IInv, SessionInv, SessionTypeOK, Tables
<1> HIDE DEF t
<1>2. Forward(Write(t, TRUE)) /\ Write(t, TRUE).result = NoResult
  BY <1>1, OtherWriteForward DEF IInv
<1> QED  BY <1>2 DEF t

LEMMA LogActionSafe ==
  ASSUME QueryInv, NEW q \in Readers, LogAction(q)
  PROVE  QueryInv'
<1> DEFINE row == [id |-> qjob[q].tok, ok |-> qjob[q].code = "SUCCESS"]
           e == Write([work EXCEPT !.audit = @ \cup {row}], TRUE)
<1>1. row \in AuditRow
  <2>1. qjob[q].tok \in Nat
    BY DEF QueryInv, QueryTypes, QueryJob
  <2>2. (qjob[q].code = "SUCCESS") \in BOOLEAN
    BY Zenon
  <2> QED  BY <2>1, <2>2, Zenon DEF AuditRow
<1>2. qpc[q] = "audit" /\ (Executed(e) \/ Failed(e)) /\ Turn(q, "idle", qjob[q])
  BY DEF LogAction
<1>3. Forward(e) /\ e.result = NoResult
  BY <1>1, RecordForward DEF QueryInv
<1> HIDE DEF row, e
<1>4. SessionInv' /\ Quiet
  BY <1>2, <1>3, StatementSafe, StatementQuiet DEF QueryInv, IInv
<1>5. KeyServerFrame /\ pc' = pc
  BY <1>2 DEF Turn, KeyServerFrame
<1>6. IInv'
  BY <1>4, <1>5, ReaderQuiet, ReaderFrame DEF QueryInv
<1>7. /\ QueryTypes'
      /\ qpc'[q] = "idle" /\ qjob'[q] = qjob[q]
      /\ \A r \in Readers \ {q} : Untouched(r)
  BY <1>2, TurnFacts DEF QueryInv, QueryTypes, QueryPoint
<1>8. Shown(qjob'[q])
  BY <1>2, <1>7 DEF QueryInv, AnswersShown
<1>9. Checked' /\ AnswersShown'
  BY <1>7, <1>8, UntouchedQueries DEF Checked, AnswersShown
<1>10. ReaderOwns'
  BY <1>4, <1>5, <1>7, QuietOthers DEF QueryInv, ReaderOwns, Untouched, SameQuery
<1> QED  BY <1>6, <1>7, <1>9, <1>10 DEF QueryInv

LEMMA HandleQuerySafe ==
  ASSUME QueryInv, NEW q \in Readers, HandleQuery(q)
  PROVE  QueryInv'
  BY SelectIsWanted, SelectMessagesSafe, FetchMessagesSafe, LogActionSafe DEF HandleQuery
-----------------------------------------------------------------------------
(* The other steps.                                                        *)

LEMMA AskQuerySafe ==
  ASSUME QueryInv, NEW q \in Readers, NEW r \in Queries, AskQuery(q, r)
  PROVE  QueryInv'
<1> DEFINE known == {a \in acks : a.req.op = "send"}
           alone == BusyReaders = {} /\ \A w \in Workers : At(w, "idle")
           j == [req |-> r, tok |-> MaxReq + asked + 1, rows |-> {},
                 code |-> "INVALID_REQUEST", known |-> known, alone |-> alone]
           p == IF Permitted(r) THEN "select" ELSE "audit"
<1>1. /\ qpc[q] = "idle" /\ asked < MaxQuery /\ asked' = asked + 1
      /\ qpc' = [qpc EXCEPT ![q] = p]
      /\ qjob' = [Crossed(BusyReaders) EXCEPT ![q] = j]
      /\ KeyServerFrame /\ UNCHANGED sessionVars
  BY DEF AskQuery
<1>2. asked \in Nat /\ asked' \in 0 .. MaxQuery /\ MaxReq + asked + 1 \in Nat
  BY <1>1, QueryBounds, BoundsAssumption DEF QueryInv, QueryTypes
<1>3. known \in SUBSET Answer
  BY DEF QueryInv, IInv, Control
<1>4. alone \in BOOLEAN
  BY Zenon
<1>5. r \in Query
  BY QueriesAssumption
<1> HIDE DEF known, alone
<1>6. j \in QueryJob /\ j.code = "INVALID_REQUEST" /\ j.req = r
  BY <1>2, <1>3, <1>4, <1>5 DEF QueryJob, QueryCode
<1>7. p \in {"select", "audit"} /\ (p = "select" => Permitted(r))
  OBVIOUS
<1> HIDE DEF j, p
<1>8. Crossed(BusyReaders) \in [Readers -> QueryJob]
  BY CrossedType DEF QueryInv
<1>9. QueryTypes'
  BY <1>1, <1>2, <1>6, <1>7, <1>8 DEF QueryInv, QueryTypes, QueryPoint
<1>10. qpc'[q] = p /\ qjob'[q] = j
  BY <1>1, <1>8 DEF QueryInv, QueryTypes
<1>11. \A s \in Readers \ {q} : Untouched(s)
  <2>1. \A s \in Readers \ {q} : qpc'[s] = qpc[s] /\ qjob'[s] = Crossed(BusyReaders)[s]
    BY <1>1, <1>8 DEF QueryInv, QueryTypes
  <2> QED  BY <2>1, CrossedFacts DEF QueryInv, Untouched
<1>12. Checked' /\ AnswersShown'
  <2>1. Shown(j)
    BY <1>6 DEF Shown
  <2> QED  BY <1>6, <1>7, <1>10, <1>11, <2>1, UntouchedQueries DEF Checked, AnswersShown
<1>13. pc' = pc /\ result' = result
  BY <1>1 DEF KeyServerFrame, sessionVars
<1>14. ReaderOwns'
  BY <1>7, <1>10, <1>11, <1>13 DEF QueryInv, ReaderOwns, Untouched, SameQuery
<1>15. IInv'
  BY <1>1, UntouchedSafe, UntouchedQuiet, ReaderQuiet, ReaderFrame DEF QueryInv, IInv
<1> QED  BY <1>9, <1>12, <1>14, <1>15 DEF QueryInv

\* A handler's step, as the readers see it: their results stay as they are.
LEMMA HandlerStepFacts ==
  ASSUME QueryInv, HandlerStep
  PROVE  /\ IInv' /\ QueryTypes' /\ \A q \in Readers : Untouched(q)
         /\ \A q \in Readers : qpc[q] = "fetch" =>
              result' = result /\ \A w \in Workers : pc'[w] \notin FetchPoint
<1>1. PICK w \in Workers : Handle(w) \/ \E r \in Requests : Take(w, r)
  BY DEF HandlerStep
<1>2. IInv'
  BY <1>1, NextSafe DEF Next, Safe, QueryInv
<1>3. qpc' = qpc /\ asked' = asked /\ qjob' = Crossed(BusyReaders)
  BY DEF HandlerStep
<1>4. QueryTypes'
  BY <1>3, CrossedType DEF QueryInv, QueryTypes
<1>5. \A q \in Readers : Untouched(q)
  BY <1>3, CrossedFacts DEF QueryInv, Untouched
<1>6. ASSUME NEW q \in Readers, qpc[q] = "fetch"
      PROVE  result' = result /\ \A v \in Workers : pc'[v] \notin FetchPoint
  <2>1. result.waiting /\ \A v \in Workers : pc[v] \notin FetchPoint
    BY <1>6 DEF QueryInv, ReaderOwns
  <2>2. CASE Handle(w)
    <3>1. PICK p : pc' = [pc EXCEPT ![w] = p] /\ p \notin FetchPoint /\ Quiet
      BY <2>1, <2>2, HandleWaits DEF Waits, QueryInv
    <3> QED  BY <2>1, <3>1 DEF Quiet, QueryInv, IInv, Control
  <2>3. CASE \E r \in Requests : Take(w, r)
    <3>1. PICK r \in Requests : Take(w, r)
      BY <2>3
    <3>2. r \in Request
      BY RequestsAssumption
    <3>3. pc' = [pc EXCEPT ![w] = Entry(r.op)] /\ Entry(r.op) \notin FetchPoint /\ result' = result
      BY <3>1, <3>2 DEF Take, Keep, Request, Op, Entry, FetchPoint, sessionVars
    <3> QED  BY <2>1, <3>3 DEF QueryInv, IInv, Control
  <2> QED  BY <1>1, <2>2, <2>3
<1> QED  BY <1>2, <1>4, <1>5, <1>6

LEMMA HandlerStepSafe ==
  ASSUME QueryInv, HandlerStep
  PROVE  QueryInv'
<1>1. \A q \in Readers : Untouched(q)
  BY HandlerStepFacts
<1>2. \A j, k : SameQuery(j, k) /\ Shown(k) => Shown(j)
  BY DEF SameQuery, Shown
<1>3. Checked' /\ AnswersShown'
  BY <1>1, <1>2 DEF QueryInv, Checked, AnswersShown, Untouched, SameQuery
<1>4. ReaderOwns'
  BY <1>1, HandlerStepFacts DEF QueryInv, ReaderOwns, Untouched, SameQuery
<1> QED  BY <1>3, <1>4, HandlerStepFacts DEF QueryInv

LEMMA KeyLapseSafe ==
  ASSUME QueryInv, KeyLapse
  PROVE  QueryInv'
<1>1. IInv'
  BY LapseSafe DEF QueryInv, KeyLapse, Safe
<1>2. qpc' = qpc /\ qjob' = qjob /\ asked' = asked /\ result' = result /\ pc' = pc
  BY DEF KeyLapse, Lapse, queryVars, sessionVars
<1> QED  BY <1>1, <1>2 DEF QueryInv, QueryTypes, Checked, ReaderOwns, AnswersShown

LEMMA NoQueryJobFacts == NoQueryJob \in QueryJob /\ Shown(NoQueryJob)
<1>1. NoQuery \in Query
  BY DEF NoQuery, Query
<1> QED  BY <1>1 DEF NoQueryJob, QueryJob, QueryCode, Shown

LEMMA ProcessRestartSafe ==
  ASSUME QueryInv, ProcessRestart
  PROVE  QueryInv'
<1>1. IInv'
  BY RestartSafe DEF QueryInv, ProcessRestart, Safe
<1>2. qpc' = [q \in Readers |-> "idle"] /\ qjob' = [q \in Readers |-> NoQueryJob] /\ asked' = asked
  BY DEF ProcessRestart
<1> QED
  BY <1>1, <1>2, NoQueryJobFacts
  DEF QueryInv, QueryTypes, QueryPoint, Checked, ReaderOwns, AnswersShown

LEMMA QueryStutterSafe ==
  ASSUME QueryInv, UNCHANGED allVars
  PROVE  QueryInv'
<1>1. IInv' /\ qpc' = qpc /\ qjob' = qjob /\ asked' = asked /\ result' = result /\ pc' = pc
  BY StutterSafe DEF QueryInv, allVars, queryVars, vars, Safe
<1> QED  BY <1>1 DEF QueryInv, QueryTypes, Checked, ReaderOwns, AnswersShown

LEMMA QueryInitInv == QueryInit => QueryInv
<1> SUFFICES ASSUME QueryInit PROVE QueryInv
  OBVIOUS
<1>1. IInv
  BY InitIInv DEF QueryInit
<1> QED
  BY <1>1, NoQueryJobFacts, QueryBounds
  DEF QueryInit, QueryInv, QueryTypes, QueryPoint, Checked, ReaderOwns, AnswersShown

LEMMA QueryNextInv ==
  ASSUME QueryInv, [QueryNext]_allVars
  PROVE  QueryInv'
  BY HandleQuerySafe, AskQuerySafe, HandlerStepSafe, KeyLapseSafe, ProcessRestartSafe,
     QueryStutterSafe
  DEF QueryNext, AllDone

LEMMA QueryInductive == QuerySpec => []QueryInv
<1>1. QueryInv /\ [QueryNext]_allVars => QueryInv'
  BY QueryNextInv
<1> QED  BY <1>1, QueryInitInv, PTL DEF QuerySpec

\* Types, for any number of threads of either kind and whatever fails; a list that
\* reads the database asks for 1 to 100 messages.
THEOREM QueryTypesHold == QuerySpec => []QueryTypeOK
<1>1. IInv => TypeOK
  BY DEF IInv, SessionInv, CacheInv, Control, TypeOK, Shm
<1>2. QueryInv => QueryTypeOK
  <2> SUFFICES ASSUME QueryInv PROVE QueryTypeOK
    OBVIOUS
  <2>1. ASSUME NEW q \in Readers, qpc[q] \in {"select", "fetch"}, qjob[q].req.op = "list"
        PROVE  qjob[q].req.limit \in 1 .. 100
    <3>1. qjob[q].req.limit \in Int
      BY DEF QueryInv, QueryTypes, QueryJob, Query
    <3>2. qjob[q].req.limit > 0 /\ qjob[q].req.limit <= MaxLimit
      BY <2>1 DEF QueryInv, Checked, Permitted, Acceptable
    <3> QED  BY <3>1, <3>2 DEF MaxLimit
  <2> QED  BY <1>1, <2>1 DEF QueryInv, QueryTypes, QueryTypeOK
<1> QED  BY <1>2, QueryInductive, PTL

\* MessageQueryService: however queries and handlers interleave on the one session
\* and whatever fails, an answer SUCCESS is about the message asked for or the
\* asker's own, and the asker is a party of it.
THEOREM QueryShownToParties == QuerySpec => []ShownToItsParties
<1>1. QueryInv => ShownToItsParties
  BY DEF QueryInv, AnswersShown, Shown, ShownToItsParties
<1> QED  BY <1>1, QueryInductive, PTL
-----------------------------------------------------------------------------
(* ONE THREAD for the handlers, any number for the queries: what has been  *)
(* answered as sent is seen by the session as long as nothing fails.  The  *)
(* session keeps what it sees because no transaction that a message was    *)
(* stored in is ever rolled back.  One may be left open: while a reader's  *)
(* result waits an agreement cannot send its ROLLBACK, and ends all the    *)
(* same.  The next START TRANSACTION commits it.                           *)

\* The messages, committed and seen; an agreement's transaction brings none.
MsgSync ==
  /\ durable.msgs \subseteq work.msgs
  /\ IsFiniteSet(work.msgs)
  /\ \A w \in Workers : pc[w] \in TxnPoint \cup {"rollback"} => work.msgs = durable.msgs

InSight(t, c) == \E m \in work.msgs : m.id = t /\ m.from = c

\* What is answered, or will be, is in sight.
Sendings ==
  /\ up
  /\ \A a \in acks : a.req.op = "send" => InSight(a.tok, a.req.from)
  /\ \A w \in Workers : pc[w] = "audit" /\ job[w].code = "SUCCESS" =>
       InSight(job[w].tok, job[w].req.from)

\* No failure in this step or before it.
Calm == faults = 0 /\ faults' = 0

\* A statement keeps the messages in sight.
Sees(e) == work.msgs \subseteq e.work.msgs

LEMMA StatementSees ==
  ASSUME Calm, NEW e, Sees(e), Executed(e) \/ Failed(e)
  PROVE  work.msgs \subseteq work'.msgs /\ up' = up
<1>1. faults' # faults + 1
  BY DEF Calm
<1>2. ~Rejected /\ ~LinkLost(e)
  BY <1>1 DEF Rejected, LinkLost
<1> QED  BY <1>2 DEF Sees, Executed, Failed, Unsendable, sessionVars

\* Every statement of a handler does, where the session is at its committed
\* messages when it may be rolled back.
LEMMA HandleSees ==
  ASSUME IInv, MsgSync, Calm, NEW w \in Workers, Handle(w)
  PROVE  work.msgs \subseteq work'.msgs /\ up' = up
<1>0. work \in Tables
  BY DEF IInv, SessionInv, SessionTypeOK
<1>1. CASE UNCHANGED sessionVars \/ Fetched \/ FetchFailed \/ Denied
  BY <1>1 DEF sessionVars, Fetched, FetchFailed, Denied, Calm
<1>2. CASE RollBack(w)
  <2>1. Sees(Rollback) /\ (Executed(Rollback) \/ Failed(Rollback))
    BY <1>2 DEF RollBack, At, MsgSync, RolledBack, Failed, Sees, Rollback
  <2> QED  BY <2>1, StatementSees
<1>3. CASE Begin(w) \/ CommitTxn(w)
  <2>1. Sees(StartTransaction) /\ Sees(Commit)
    BY DEF Sees, StartTransaction, Commit
  <2>2. \E e \in {StartTransaction, Commit} : Executed(e) \/ Failed(e)
    BY <1>3 DEF Begin, CommitTxn, Sql
  <2> QED  BY <2>1, <2>2, StatementSees
<1>4. CASE LockSn(w) \/ LockKeys(w) \/ Find(w)
  <2>1. \E rows : Executed(Select(rows)) \/ Failed(Select(rows))
    BY <1>4 DEF LockSn, LockKeys, Find, Sql
  <2>2. \A rows : Sees(Select(rows))
    BY DEF Sees, Select
  <2> QED  BY <2>1, <2>2, StatementSees
<1>5. \A t, changed : t.msgs = work.msgs => Sees(Write(t, changed))
  BY DEF Sees, Write
<1>6. CASE Rotate(w) \/ Expire(w) \/ Revoke(w)
  <2>1. \E rows, s : Executed(Update(rows, s)) \/ Failed(Update(rows, s))
    BY <1>6 DEF Rotate, Expire, Revoke, Sql
  <2>2. \A rows, s : [work EXCEPT !.keys = SetState(@, rows, s)].msgs = work.msgs
    BY <1>0 DEF Tables
  <2>3. \A rows, s : Sees(Update(rows, s))
    BY <2>2 DEF Sees, Update, Write
  <2> QED  BY <2>1, <2>3, StatementSees
<1>7. CASE Insert(w) \/ BumpSn(w) \/ Audit(w)
  <2>1. Denied \/ \E t : t.msgs = work.msgs /\ (Executed(Write(t, TRUE)) \/ Failed(Write(t, TRUE)))
    <3>1. /\ [work EXCEPT !.keys = @ \cup {NewRow(w)}].msgs = work.msgs
          /\ [work EXCEPT !.sn = @ + 1].msgs = work.msgs
          /\ \A rows : [work EXCEPT !.audit = @ \cup rows].msgs = work.msgs
      BY <1>0 DEF Tables
    <3> QED  BY <1>7, <3>1 DEF Insert, BumpSn, Audit, Sql
  <2> QED  BY <1>1, <1>5, <2>1, StatementSees
<1>8. CASE Store(w)
  <2> DEFINE t == [work EXCEPT !.msgs = @ \cup {Message(w)}]
  <2>1. t.msgs = work.msgs \cup {Message(w)}
    BY <1>0 DEF Tables
  <2>2. UNCHANGED sessionVars \/ Executed(Write(t, TRUE)) \/ Failed(Write(t, TRUE))
    BY <1>8 DEF Store, insertMessageLog
  <2> HIDE DEF t
  <2>3. Sees(Write(t, TRUE))
    BY <2>1 DEF Sees, Write
  <2> QED  BY <1>1, <2>2, <2>3, StatementSees
<1> QED  BY <1>1, <1>2, <1>3, <1>4, <1>6, <1>7, <1>8
         DEF Handle, Agree, CheckOrLogout, Send, Verify, FetchSn, FetchKeys, Publish, Snapshot,
             Fetch, CacheOff, Affected, Validate, Lookup, Peer

\* Inside an agreement's transaction no statement touches a message.
LEMMA TxnMsgs ==
  ASSUME IInv, MsgSync, NEW w \in Workers, Handle(w), pc[w] \in TxnPoint \cup {"rollback"}
  PROVE  durable'.msgs = durable.msgs /\ work'.msgs = durable.msgs
<1>0. work \in Tables /\ work.msgs = durable.msgs
  BY DEF IInv, SessionInv, SessionTypeOK, MsgSync
<1>1. ASSUME NEW e, Executed(e) \/ Failed(e), e.durable.msgs = work.msgs, e.work.msgs = work.msgs
      PROVE  durable'.msgs = durable.msgs /\ work'.msgs = durable.msgs
  BY <1>0, <1>1 DEF Executed, Failed, Unsendable, Rejected, Denied, LinkLost, sessionVars
<1>2. CASE UNCHANGED sessionVars \/ Fetched \/ FetchFailed \/ Denied
  BY <1>0, <1>2 DEF sessionVars, Fetched, FetchFailed, Denied
<1>3. \A e \in {Commit, Rollback} : e.durable.msgs = work.msgs /\ e.work.msgs = work.msgs
  BY <1>0 DEF Commit, Rollback
<1>4. \A rows : Select(rows).durable.msgs = work.msgs /\ Select(rows).work.msgs = work.msgs
  BY <1>0 DEF Select
<1>5. \A t, c : t.msgs = work.msgs =>
        Write(t, c).durable.msgs = work.msgs /\ Write(t, c).work.msgs = work.msgs
  BY <1>0 DEF Write
<1>6. Agree(w) /\ ~Verify(w) /\ ~Begin(w) /\ ~Publish(w)
  BY DEF Handle, Agree, CheckOrLogout, Send, Snapshot, Expire, Find, Fetch, CacheOff, Revoke,
         Affected, Validate, Lookup, Peer, Store, insertMessageLog, Audit, Verify, Begin, Publish,
         At, TxnPoint
<1>7. CASE RollBack(w) \/ CommitTxn(w)
  <2>1. \E e \in {Commit, Rollback} : Executed(e) \/ Failed(e)
    BY <1>7 DEF RollBack, RolledBack, CommitTxn, Sql, Failed
  <2> QED  BY <1>1, <1>3, <2>1
<1>8. CASE LockSn(w) \/ LockKeys(w)
  <2>1. \E rows : Executed(Select(rows)) \/ Failed(Select(rows))
    BY <1>8 DEF LockSn, LockKeys, Sql
  <2> QED  BY <1>1, <1>4, <2>1
<1>9. CASE Rotate(w) \/ Insert(w) \/ BumpSn(w)
  <2>1. /\ [work EXCEPT !.keys = @ \cup {NewRow(w)}].msgs = work.msgs
        /\ [work EXCEPT !.sn = @ + 1].msgs = work.msgs
        /\ \A rows, s : [work EXCEPT !.keys = SetState(@, rows, s)].msgs = work.msgs
    BY <1>0 DEF Tables
  <2>2. Denied \/ \E t, c : t.msgs = work.msgs /\ (Executed(Write(t, c)) \/ Failed(Write(t, c)))
    BY <1>9, <2>1 DEF Rotate, Update, Insert, BumpSn, Sql
  <2> QED  BY <1>1, <1>2, <1>5, <2>2
<1> QED  BY <1>2, <1>6, <1>7, <1>8, <1>9 DEF Agree, FetchSn, FetchKeys

\* How a handler comes to a point of a transaction.
LEMMA TxnEntered ==
  ASSUME IInv, NEW w \in Workers, Handle(w), pc'[w] \in TxnPoint \cup {"rollback"}
  PROVE  pc[w] \in TxnPoint \cup {"rollback"} \/ Executed(StartTransaction)
<1>0. Control
  BY DEF IInv
<1>1. CASE Begin(w)
  BY <1>0, <1>1, GoesTo DEF Begin, TxnPoint
<1>2. CASE Verify(w)
  BY <1>0, <1>2, GoesTo DEF Verify, TxnPoint
<1>3. CASE Publish(w)
  BY <1>0, <1>3, GoesTo DEF Publish, TxnPoint
<1>4. CASE Agree(w) /\ ~Begin(w) /\ ~Verify(w) /\ ~Publish(w)
  BY <1>4 DEF Agree, LockSn, FetchSn, LockKeys, FetchKeys, Rotate, Insert, BumpSn, CommitTxn,
              RollBack, At, TxnPoint
<1>5. CASE CheckOrLogout(w)
  <2>1. \/ \E j : Keep(w, "expire", j)
        \/ Passed(w) \/ Refused(w)
        \/ \E p \in {"find", "fetch", "affected", "cacheOff"} : Goto(w, p)
        \/ \E c : Reply(w, c) \/ AuditThenReply(w, c)
    BY <1>5 DEF CheckOrLogout, Snapshot, Expire, Find, Fetch, CacheOff, Revoke, Affected
  <2>2. pc'[w] \in {"idle", "audit", "peer", "store", "cacheOff", "expire", "find", "fetch", "affected"}
    BY <1>0, <2>1, GoesTo, VerdictGoes
  <2> QED  BY <2>2 DEF TxnPoint
<1>6. CASE Send(w)
  <2>1. \/ \E p \in {"lookup", "expire"} : Goto(w, p) \/ \E j : Keep(w, p, j)
        \/ \E c : Reply(w, c) \/ AuditThenReply(w, c)
    BY <1>6, Zenon DEF Send, Validate, Lookup, Peer, Store, insertMessageLog, Audit
  <2> QED  BY <1>0, <2>1, GoesTo DEF TxnPoint
<1> QED  BY <1>1, <1>2, <1>3, <1>4, <1>5, <1>6 DEF Handle

LEMMA HandleSync ==
  ASSUME OneThread, IInv, MsgSync, NEW w \in Workers, Handle(w)
  PROVE  MsgSync'
<1>1. /\ durable'.msgs \subseteq work'.msgs
      /\ work'.msgs \subseteq work.msgs \cup {Message(w)}
  BY HandleMsgs DEF MsgSync
<1>2. IsFiniteSet(work.msgs \cup {Message(w)})
  BY FS_AddElement DEF MsgSync
<1>3. IsFiniteSet(work'.msgs)
  BY <1>1, <1>2, FS_Subset
<1>4. ASSUME pc'[w] \in TxnPoint \cup {"rollback"}  PROVE work'.msgs = durable'.msgs
  <2>1. CASE Executed(StartTransaction)
    BY <2>1 DEF Executed, StartTransaction
  <2> QED  BY <1>4, <2>1, TxnEntered, TxnMsgs
<1> QED  BY <1>1, <1>3, <1>4 DEF MsgSync, OneThread

\* A message is answered SUCCESS by the last step of its handler alone.
LEMMA SendAnswer ==
  ASSUME Control, Course, NEW w \in Workers, Handle(w), NEW a \in acks', a \notin acks,
         a.req.op = "send"
  PROVE  /\ pc[w] = "audit" /\ job[w].code = "SUCCESS"
         /\ a.req = job[w].req /\ a.tok = job[w].tok
<1>1. CourseAt(pc[w], job[w]) /\ job[w].stage \in Stage
  BY DEF Course, Control, Job
<1>2. \E code : Reply(w, code) /\ code = "SUCCESS"
  <2>1. ASSUME Passed(w) \/ Refused(w)
        PROVE  acks' = acks \/ \E code : Reply(w, code) /\ code = "SUCCESS"
    BY <1>1, <2>1 DEF Passed, Refused, Stage, Goto, Reply, AuditThenReply, Keep
  <2>2. acks' = acks \/ Passed(w) \/ Refused(w) \/ \E code : Reply(w, code)
    BY DEF Handle, Agree, Verify, Begin, LockSn, FetchSn, LockKeys, FetchKeys, Rotate, Insert,
           BumpSn, CommitTxn, RollBack, Publish, CheckOrLogout, Snapshot, Expire, Find, Fetch,
           CacheOff, Revoke, Affected, Send, Validate, Lookup, Peer, Store, insertMessageLog,
           Audit, Sql, Goto, Keep, AuditThenReply
  <2>3. \A code : Reply(w, code) => code = "SUCCESS" \/ acks' = acks
    BY DEF Reply
  <2> QED  BY <2>1, <2>2, <2>3
<1>3. a.req = job[w].req /\ a.tok = job[w].tok
  BY <1>2 DEF Reply
<1>4. job[w].req.op = "send"
  BY <1>3
<1>5. CASE Audit(w)
  <2>1. Reply(w, job[w].code)
    BY <1>5 DEF Audit
  <2>2. job[w].code = "SUCCESS"
    BY <2>1 DEF Reply
  <2> QED  BY <1>3, <1>5, <2>2 DEF Audit, At
<1>6. CASE Agree(w)
  BY <1>1, <1>4, <1>6
  DEF CourseAt, Agree, Verify, Begin, LockSn, FetchSn, LockKeys, FetchKeys, Rotate, Insert, BumpSn,
      CommitTxn, RollBack, Publish, At, AgreePoint
<1>7. CASE Send(w) /\ ~Audit(w)
  BY <1>7 DEF Send, Validate, Lookup, Peer, Store, insertMessageLog, Goto, Keep, AuditThenReply
<1>8. CASE CheckOrLogout(w)
  <2>1. job[w].stage # "own" \/ pc[w] \notin CheckPoint
    BY <1>1, <1>4 DEF CourseAt
  <2>2. ASSUME pc[w] \in CheckPoint, Passed(w) \/ Refused(w)  PROVE acks' = acks
    BY <1>1, <2>1, <2>2 DEF Passed, Refused, Stage, Goto, AuditThenReply, Keep
  <2>3. pc[w] \notin {"revoke", "affected"}
    BY <1>1, <1>4 DEF CourseAt
  <2>4. CASE CacheOff(w)
    BY <1>4, <2>4 DEF CacheOff, AuditThenReply, Keep
  <2> QED
    BY <1>8, <2>2, <2>3, <2>4
    DEF CheckOrLogout, Snapshot, Expire, Find, Fetch, Revoke, Affected, At, Goto, Keep, CheckPoint
<1> QED  BY <1>5, <1>6, <1>7, <1>8 DEF Handle

LEMMA HandleSendings ==
  ASSUME OneThread, IInv, Course, MsgSync, Sendings, Calm, NEW w \in Workers, Handle(w)
  PROVE  Sendings'
<1>0. Control /\ work.msgs \subseteq work'.msgs /\ up'
  BY HandleSees DEF IInv, Sendings
<1>1. \A t, c : InSight(t, c) => InSight(t, c)'
  BY <1>0 DEF InSight
<1>2. ASSUME NEW a \in acks', a.req.op = "send"  PROVE InSight(a.tok, a.req.from)'
  BY <1>0, <1>1, <1>2, SendAnswer DEF Sendings
<1>3. ASSUME pc'[w] = "audit", job'[w].code = "SUCCESS"
      PROVE  InSight(job[w].tok, job[w].req.from)'
  <2> DEFINE t == [work EXCEPT !.msgs = @ \cup {Message(w)}]
  <2>1. Store(w)
    BY <1>0, <1>3, HandleOnward DEF Onward
  <2>2. \A c : AuditThenReply(w, c) =>
          job'[w].tok = job[w].tok /\ job'[w].code = c /\ job'[w].req = job[w].req
    <3>1. \A c : AuditThenReply(w, c) => job'[w] = [job[w] EXCEPT !.code = c]
      BY <1>0, GoesTo
    <3> QED  BY <1>0, <3>1 DEF Control, Job
  <2>3. Executed(Write(t, TRUE)) /\ AuditThenReply(w, "SUCCESS")
    <3>1. \/ Executed(Write(t, TRUE)) /\ AuditThenReply(w, "SUCCESS")
          \/ AuditThenReply(w, "FAILED")
      BY <2>1 DEF Store, insertMessageLog
    <3> HIDE DEF t
    <3>2. AuditThenReply(w, "FAILED") => job'[w].code = "FAILED"
      BY <2>2
    <3> QED  BY <1>3, <3>1, <3>2
  <2>4. Message(w) \in work'.msgs
    BY <2>3 DEF Executed, Write, IInv, SessionInv, SessionTypeOK, Tables
  <2>5. Message(w).id = job[w].tok /\ Message(w).from = job[w].req.from
    BY DEF Message
  <2> QED  BY <2>2, <2>3, <2>4, <2>5 DEF InSight
<1> QED  BY <1>0, <1>2, <1>3 DEF Sendings, OneThread

\* A step that is no handler's.
LEMMA OthersSendings ==
  ASSUME Sendings, work.msgs \subseteq work'.msgs, up' = up, acks' = acks,
         \A w \in Workers : pc'[w] = "audit" => pc[w] = "audit" /\ job'[w] = job[w]
  PROVE  Sendings'
<1>1. \A t, c : InSight(t, c) => InSight(t, c)'
  BY DEF InSight
<1> QED  BY <1>1 DEF Sendings
-----------------------------------------------------------------------------
(* What a query owes to the messages known when it came.                   *)

\* Each of the asker's is listed, or as many that are no older fill the list.
Complete(j, rows) ==
  \A a \in j.known : a.req.from = j.req.asker =>
    \/ \E m \in rows : m.id = a.tok
    \/ /\ Cardinality(rows) = j.req.limit
       /\ \A m \in rows : Second(m.id) >= Second(a.tok)

Absent(j) == \A a \in j.known : a.tok # j.req.id

Due(p, j, rows) ==
  /\ p = "fetch" => IF j.req.op = "one" THEN rows = {} => Absent(j) ELSE Complete(j, rows)
  /\ p \in {"audit", "idle"} =>
       /\ j.code = "SUCCESS" /\ j.req.op = "list" => Complete(j, j.rows)
       /\ j.code = "MSG_NOT_FOUND" /\ j.alone => Absent(j)

\* A waiting result has a thread about to fetch it, a handler's or a reader's.
WaitOwned ==
  result.waiting => \/ \E w \in Workers : pc[w] \in FetchPoint
                    \/ \E q \in Readers : qpc[q] = "fetch"

AloneIdle ==
  \A q \in Readers : qpc[q] # "idle" /\ qjob[q].alone =>
    /\ \A w \in Workers : pc[w] = "idle"
    /\ \A p \in Readers \ {q} : qpc[p] = "idle"

KnownSent == \A q \in Readers : \A a \in qjob[q].known : a \in acks /\ a.req.op = "send"

FoundInv ==
  /\ QueryInv /\ Course /\ MsgSync
  /\ WaitOwned /\ AloneIdle /\ KnownSent
  /\ faults = 0 => Sendings /\ \A q \in Readers : Due(qpc[q], qjob[q], result.rows)

\* A step that brings no message and, unless it fails, drops none from sight.
Steady ==
  /\ durable'.msgs \in {durable.msgs, work.msgs}
  /\ work'.msgs \in {work.msgs, durable'.msgs}
  /\ faults' = 0 => faults = 0 /\ work'.msgs = work.msgs /\ up' = up

LEMMA SteadySteps ==
  ASSUME IInv
  PROVE  /\ \A e : e.durable.msgs \in {durable.msgs, work.msgs} /\ e.work.msgs = work.msgs
                   /\ (Executed(e) \/ Failed(e)) => Steady
         /\ Fetched \/ FetchFailed => Steady
         /\ UNCHANGED sessionVars => Steady
<1>1. faults + 1 # 0
  BY FaultsNat
<1>2. ASSUME NEW e, e.durable.msgs \in {durable.msgs, work.msgs}, e.work.msgs = work.msgs,
             Executed(e) \/ Failed(e)
      PROVE  Steady
  BY <1>1, <1>2 DEF Executed, Failed, Unsendable, Rejected, Denied, LinkLost, sessionVars, Steady
<1>3. Fetched \/ FetchFailed => Steady
  BY <1>1 DEF Fetched, FetchFailed, sessionVars, Steady
<1>4. UNCHANGED sessionVars => Steady
  BY DEF sessionVars, Steady
<1> QED  BY <1>2, <1>3, <1>4

LEMMA SteadySync ==
  ASSUME MsgSync, Steady, pc' = pc
  PROVE  MsgSync'
<1>1. durable'.msgs \subseteq work.msgs
  BY DEF MsgSync, Steady
<1>2. durable'.msgs \subseteq work'.msgs /\ work'.msgs \subseteq work.msgs
  BY <1>1 DEF Steady
<1>3. IsFiniteSet(work'.msgs)
  BY <1>2, FS_Subset DEF MsgSync
<1> QED  BY <1>2, <1>3 DEF MsgSync, Steady

\* What a query owes does not grow by the steps of others.
LEMMA DueStays ==
  ASSUME NEW r \in Readers, Untouched(r), qjob'[r].alone => qjob[r].alone,
         qpc[r] = "fetch" => result' = result, Due(qpc[r], qjob[r], result.rows)
  PROVE  Due(qpc'[r], qjob'[r], result'.rows)
<1>1. /\ qjob'[r].known = qjob[r].known /\ qjob'[r].req = qjob[r].req
      /\ qjob'[r].code = qjob[r].code /\ qjob'[r].rows = qjob[r].rows /\ qpc'[r] = qpc[r]
  BY DEF Untouched, SameQuery
<1>2. /\ \A rows : Complete(qjob[r], rows) => Complete(qjob'[r], rows)
      /\ Absent(qjob[r]) => Absent(qjob'[r])
  BY <1>1 DEF Complete, Absent
<1> QED  BY <1>1, <1>2 DEF Due

\* What a turn of q leaves of the history of the others.
LEMMA TurnAlone ==
  ASSUME QueryTypes, NEW q \in Readers, NEW p, NEW j, Turn(q, p, j), NEW r \in Readers \ {q}
  PROVE  /\ qjob'[r].alone => qjob[r].alone
         /\ qpc[r] # "idle" => ~qjob'[r].alone
<1>1. Crossed(BusyReaders \ {q}) \in [Readers -> QueryJob]
  BY CrossedType
<1>2. qjob'[r] = Crossed(BusyReaders \ {q})[r]
  BY <1>1 DEF Turn
<1>3. r \in BusyReaders \ {q} <=> qpc[r] # "idle"
  BY DEF BusyReaders
<1> QED  BY <1>2, <1>3, CrossedFacts

\* A turn of q, whatever it does on the session.
LEMMA TurnFound ==
  ASSUME FoundInv, QueryInv', NEW q \in Readers, qpc[q] # "idle",
         NEW p \in QueryPoint, NEW j \in QueryJob, Turn(q, p, j),
         j.known = qjob[q].known, j.alone = qjob[q].alone,
         Steady, WaitOwned',
         \A r \in Readers \ {q} : qpc[r] = "fetch" => result' = result,
         faults' = 0 => Due(p, j, result'.rows)
  PROVE  FoundInv'
<1>1. /\ qpc'[q] = p /\ qjob'[q] = j
      /\ \A r \in Readers \ {q} : Untouched(r)
  BY TurnFacts DEF FoundInv, QueryInv
<1>2. pc' = pc /\ job' = job /\ acks' = acks
  BY DEF Turn, KeyServerFrame
<1>3. Course' /\ MsgSync'
  BY <1>2, SteadySync DEF FoundInv, Course
<1>4. KnownSent'
  BY <1>1, <1>2 DEF FoundInv, KnownSent, Untouched, SameQuery
<1>5. \A r \in Readers \ {q} : /\ qjob'[r].alone => qjob[r].alone
                               /\ qpc[r] # "idle" => ~qjob'[r].alone
  BY TurnAlone DEF FoundInv, QueryInv
<1>6. AloneIdle'
  <2>1. \A r \in Readers \ {q} : qpc'[r] = qpc[r]
    BY <1>1 DEF Untouched
  <2> QED  BY <1>1, <1>2, <1>5, <2>1 DEF FoundInv, AloneIdle
<1>7. ASSUME faults' = 0  PROVE Sendings' /\ \A r \in Readers : Due(qpc'[r], qjob'[r], result'.rows)
  <2>1. Sendings /\ work'.msgs = work.msgs /\ up' = up
        /\ \A r \in Readers : Due(qpc[r], qjob[r], result.rows)
    BY <1>7 DEF FoundInv, Steady
  <2>2. Sendings'
    BY <1>2, <2>1, OthersSendings
  <2>3. \A r \in Readers \ {q} : Due(qpc'[r], qjob'[r], result'.rows)
    BY <1>1, <1>5, <2>1, DueStays
  <2> QED  BY <1>1, <1>7, <2>2, <2>3
<1> QED  BY <1>3, <1>4, <1>6, <1>7 DEF FoundInv

\* No wait begins by a turn of q, and none of the others' ends.
LEMMA QuietWait ==
  ASSUME FoundInv, NEW q \in Readers, qpc[q] # "fetch", Quiet, pc' = pc,
         \A r \in Readers \ {q} : Untouched(r)
  PROVE  WaitOwned'
  BY DEF FoundInv, WaitOwned, Quiet, Untouched
-----------------------------------------------------------------------------
(* The steps of a query, as to what it owes.                               *)

LEMMA LesserOfTwo ==
  ASSUME NEW a \in Int, NEW b \in Int
  PROVE  Min({a, b}) \in {a, b} /\ Min({a, b}) <= a /\ Min({a, b}) <= b
<1>1. \E x \in {a, b} : \A y \in {a, b} : x <= y
  <2>1. CASE a <= b
    BY <2>1
  <2>2. CASE ~(a <= b)
    BY <2>2
  <2> QED  BY <2>1, <2>2
<1> QED  BY <1>1 DEF Min

\* Of the messages in sight a list leaves out only what does not fit it.
LEMMA LatestComplete ==
  ASSUME MsgSync, Sendings, work.msgs \subseteq MsgRow, NEW j, j.req.limit \in Nat,
         \A a \in j.known : a \in acks /\ a.req.op = "send",
         NEW rows, rows \in Latest(j.req.asker, j.req.limit)
  PROVE  Complete(j, rows)
<1> DEFINE c    == j.req.asker
           n    == j.req.limit
           sent == {m \in work.msgs : m.from = c}
<1>1. /\ rows \subseteq sent
      /\ Cardinality(rows) = Min({n, Cardinality(sent)})
      /\ \A m \in rows, k \in sent \ rows : Second(m.id) >= Second(k.id)
  BY DEF Latest
<1>2. IsFiniteSet(sent) /\ IsFiniteSet(rows)
  BY <1>1, FS_Subset DEF MsgSync
<1>3. Cardinality(sent) \in Nat /\ Cardinality(rows) \in Nat
  BY <1>2, FS_CardinalityType
<1>4. Cardinality(rows) = Cardinality(sent) => rows = sent
  BY <1>1, <1>2, FS_Subset
<1>5. Cardinality(rows) \in {n, Cardinality(sent)}
  <2>1. n \in Int /\ Cardinality(sent) \in Int
    BY <1>3
  <2> HIDE DEF n, sent
  <2> QED  BY <1>1, <2>1, LesserOfTwo
<1>6. ASSUME NEW a \in j.known, a.req.from = c, ~\E m \in rows : m.id = a.tok
      PROVE  Cardinality(rows) = n /\ \A m \in rows : Second(m.id) >= Second(a.tok)
  <2>1. PICK k \in work.msgs : k.id = a.tok /\ k.from = a.req.from
    BY DEF Sendings, InSight
  <2>2. k \in sent \ rows
    BY <1>6, <2>1
  <2> QED  BY <1>1, <1>4, <1>5, <2>1, <2>2
<1> QED  BY <1>6 DEF Complete

\* The rows a query is after hold what it owes.
LEMMA WantedDue ==
  ASSUME FoundInv, faults = 0, NEW q \in Readers, qpc[q] = "select", NEW rows, Wanted(q, rows)
  PROVE  Due("fetch", qjob[q], rows)
<1> DEFINE j == qjob[q]
<1>1. j \in QueryJob /\ j.req \in Query /\ work.msgs \subseteq MsgRow
  BY DEF FoundInv, QueryInv, QueryTypes, QueryJob, IInv, SessionInv, SessionTypeOK, Tables
<1>2. Permitted(j.req)
  BY DEF FoundInv, QueryInv, Checked
<1>3. \A a \in j.known : a \in acks /\ a.req.op = "send"
  BY DEF FoundInv, KnownSent
<1>4. MsgSync /\ Sendings
  BY DEF FoundInv
<1>5. CASE j.req.op = "one"
  <2>1. ASSUME rows = {}, NEW a \in j.known, a.tok = j.req.id  PROVE FALSE
    <3>1. PICK m \in work.msgs : m.id = a.tok
      BY <1>3, <1>4 DEF Sendings, InSight
    <3>2. m \in rows
      BY <1>5, <2>1, <3>1 DEF Wanted
    <3> QED  BY <2>1, <3>2
  <2> QED  BY <1>5, <2>1 DEF Due, Absent
<1>6. CASE j.req.op = "list"
  <2>1. j.req.limit \in Nat /\ j.req.of = j.req.asker
    BY <1>1, <1>2, <1>6 DEF Permitted, Acceptable, Query
  <2>2. rows \in Latest(j.req.asker, j.req.limit)
    BY <1>6, <2>1 DEF Wanted
  <2>3. Complete(j, rows)
    BY <1>1, <1>3, <1>4, <2>1, <2>2, LatestComplete
  <2> QED  BY <1>6, <2>3 DEF Due
<1> QED  BY <1>1, <1>5, <1>6 DEF Query

\* A reader that is refused while nothing fails has another thread to thank for it.
LEMMA RefusedInCompany ==
  ASSUME FoundInv, faults = 0, NEW q \in Readers, qpc[q] = "select", ~Ready
  PROVE  ~qjob[q].alone
<1>1. result.waiting
  BY DEF FoundInv, Sendings, Ready
<1> QED  BY <1>1 DEF FoundInv, WaitOwned, AloneIdle, FetchPoint

\* What is concluded without rows.
LEMMA EmptyHanded ==
  ASSUME NEW j \in QueryJob, NEW code \in QueryCode, code # "SUCCESS",
         code = "MSG_NOT_FOUND" /\ j.alone => Absent(j)
  PROVE  \A rows, seen : Due("audit", [j EXCEPT !.code = code, !.rows = rows], seen)
<1> SUFFICES ASSUME NEW rows, NEW seen
             PROVE  Due("audit", [j EXCEPT !.code = code, !.rows = rows], seen)
  OBVIOUS
<1> DEFINE k == [j EXCEPT !.code = code, !.rows = rows]
<1>1. k.code = code /\ k.alone = j.alone /\ k.known = j.known /\ k.req = j.req
  BY DEF QueryJob
<1> HIDE DEF k
<1>2. Due("audit", k, seen)
  BY <1>1 DEF Due, Absent
<1> QED  BY <1>2 DEF k

\* Concluding keeps the invariant when what is concluded is what is owed.
LEMMA ConcludeFound ==
  ASSUME FoundInv, QueryInv', NEW q \in Readers, qpc[q] # "idle",
         NEW code \in QueryCode, NEW rows \in SUBSET MsgRow, Conclude(q, code, rows),
         Steady, WaitOwned',
         \A r \in Readers \ {q} : qpc[r] = "fetch" => result' = result,
         faults' = 0 => \A seen : Due("audit", [qjob[q] EXCEPT !.code = code, !.rows = rows], seen)
  PROVE  FoundInv'
<1> DEFINE j == [qjob[q] EXCEPT !.code = code, !.rows = rows]
<1>1. qjob[q] \in QueryJob
  BY DEF FoundInv, QueryInv, QueryTypes
<1>2. j \in QueryJob /\ j.known = qjob[q].known /\ j.alone = qjob[q].alone
  BY <1>1 DEF QueryJob
<1>3. Turn(q, "audit", j)
  BY DEF Conclude
<1>4. faults' = 0 => Due("audit", j, result'.rows)
  OBVIOUS
<1> HIDE DEF j
<1> QED  BY <1>2, <1>3, <1>4, TurnFound DEF QueryPoint

LEMMA SelectMessagesFound ==
  ASSUME FoundInv, NEW q \in Readers, qpc[q] = "select", NEW rows, Wanted(q, rows),
         SelectMessages(q, rows)
  PROVE  FoundInv'
<1>1. QueryInv /\ QueryInv' /\ IInv
  BY SelectMessagesSafe DEF FoundInv, QueryInv
<1>2. Steady
  BY <1>1, SteadySteps DEF SelectMessages, Select
<1>3. qjob[q] \in QueryJob
  BY <1>1 DEF QueryInv, QueryTypes
<1>4. CASE Executed(Select(rows)) /\ Turn(q, "fetch", qjob[q])
  <2>1. ~result.waiting /\ result'.rows = rows /\ faults' = faults
    BY <1>4 DEF Executed, Ready, Select
  <2>2. \A r \in Readers : qpc[r] # "fetch"
    BY <1>1, <2>1 DEF QueryInv, ReaderOwns
  <2>3. qpc'[q] = "fetch"
    BY <1>1, <1>3, <1>4, TurnFacts DEF QueryInv, QueryPoint
  <2>4. WaitOwned'
    BY <2>3 DEF WaitOwned
  <2>5. faults' = 0 => Due("fetch", qjob[q], result'.rows)
    BY <2>1, WantedDue
  <2> QED  BY <1>1, <1>2, <1>3, <1>4, <2>2, <2>4, <2>5, TurnFound DEF QueryPoint
<1>5. CASE Failed(Select(rows)) /\ Conclude(q, NoRows(q), {})
  <2>1. NoRows(q) \in QueryCode /\ NoRows(q) # "SUCCESS" /\ {} \in SUBSET MsgRow
    BY DEF NoRows, QueryCode
  <2>2. Quiet
    BY <1>5, FailedQuiet
  <2>3. pc' = pc /\ \A r \in Readers \ {q} : Untouched(r)
    BY <1>1, <1>5, <2>1, ConcludeFacts DEF QueryInv, KeyServerFrame
  <2>4. WaitOwned'
    BY <2>2, <2>3, QuietWait
  <2>5. \A r \in Readers \ {q} : qpc[r] = "fetch" => result' = result
    BY <1>1, <2>2, QuietOthers
  <2>6. ASSUME faults' = 0
        PROVE  \A seen : Due("audit", [qjob[q] EXCEPT !.code = NoRows(q), !.rows = {}], seen)
    <3>1. faults = 0 /\ ~Ready
      BY <1>2, <1>5, <2>6 DEF Steady, Failed, Unsendable, Rejected, LinkLost
    <3>2. ~qjob[q].alone
      BY <3>1, RefusedInCompany
    <3> QED  BY <1>3, <2>1, <3>2, EmptyHanded
  <2> QED  BY <1>1, <1>2, <1>5, <2>1, <2>4, <2>5, <2>6, ConcludeFound
<1> QED  BY <1>4, <1>5 DEF SelectMessages

\* The verdict on the rows fetched.
LEMMA VerdictDue ==
  ASSUME FoundInv, faults = 0, NEW q \in Readers, qpc[q] = "fetch"
  PROVE  LET code == Verdict(q, result.rows)
             rows == IF code = "SUCCESS" THEN result.rows ELSE {}
         IN  \A seen : Due("audit", [qjob[q] EXCEPT !.code = code, !.rows = rows], seen)
<1> DEFINE code == Verdict(q, result.rows)
           rows == IF code = "SUCCESS" THEN result.rows ELSE {}
           j    == [qjob[q] EXCEPT !.code = code, !.rows = rows]
<1>1. qjob[q] \in QueryJob /\ qjob[q].req.op \in {"one", "list"}
  BY DEF FoundInv, QueryInv, QueryTypes, QueryJob, Query
<1>2. j.req = qjob[q].req /\ j.code = code /\ j.rows = rows /\ j.known = qjob[q].known
  BY <1>1 DEF QueryJob
<1>3. Due("fetch", qjob[q], result.rows)
  BY DEF FoundInv
<1>4. CASE qjob[q].req.op = "list"
  <2>1. code = "SUCCESS" /\ rows = result.rows
    BY <1>4 DEF Verdict
  <2>2. Complete(qjob[q], result.rows)
    BY <1>3, <1>4 DEF Due
  <2> HIDE DEF code, rows, j
  <2>3. Complete(j, rows)
    BY <1>2, <2>1, <2>2 DEF Complete
  <2>4. \A seen : Due("audit", j, seen)
    BY <1>2, <2>1, <2>3 DEF Due
  <2> QED  BY <2>4 DEF code, rows, j
<1>5. CASE qjob[q].req.op = "one"
  <2>1. code = "MSG_NOT_FOUND" => result.rows = {}
    BY <1>5 DEF Verdict
  <2>2. result.rows = {} => Absent(qjob[q])
    BY <1>3, <1>5 DEF Due
  <2> HIDE DEF code, rows, j
  <2>3. \A seen : Due("audit", j, seen)
    BY <1>2, <1>5, <2>1, <2>2 DEF Due, Absent
  <2> QED  BY <2>3 DEF code, rows, j
<1> QED  BY <1>1, <1>4, <1>5

LEMMA FetchMessagesFound ==
  ASSUME FoundInv, NEW q \in Readers, FetchMessages(q)
  PROVE  FoundInv'
<1>1. QueryInv /\ QueryInv' /\ IInv
  BY FetchMessagesSafe DEF FoundInv, QueryInv
<1>2. qpc[q] = "fetch" /\ (Fetched \/ FetchFailed)
  BY DEF FetchMessages
<1>3. Steady
  BY <1>1, <1>2, SteadySteps
<1>4. WaitOwned'
  BY <1>2, FetchEnds DEF WaitOwned
<1>5. result.waiting /\ \A r \in Readers \ {q} : qpc[r] # "fetch"
  BY <1>1, <1>2 DEF QueryInv, ReaderOwns
<1>6. CASE FetchFailed /\ Conclude(q, NoRows(q), {})
  <2>1. faults' # 0
    BY <1>1, <1>5, <1>6, FaultsNat DEF FetchFailed
  <2>2. NoRows(q) \in QueryCode /\ {} \in SUBSET MsgRow
    BY DEF NoRows, QueryCode
  <2> QED  BY <1>1, <1>2, <1>3, <1>4, <1>5, <1>6, <2>1, <2>2, ConcludeFound
<1>7. CASE ~(FetchFailed /\ Conclude(q, NoRows(q), {}))
  <2> DEFINE code == Verdict(q, result.rows)
             rows == IF code = "SUCCESS" THEN result.rows ELSE {}
  <2>1. Conclude(q, code, rows)
    BY <1>7 DEF FetchMessages
  <2>2. code \in QueryCode /\ rows \in SUBSET MsgRow
    BY <1>1, <1>2, VerdictShown
  <2>3. faults' = 0 => \A seen : Due("audit", [qjob[q] EXCEPT !.code = code, !.rows = rows], seen)
    BY <1>2, <1>3, VerdictDue DEF Steady
  <2> HIDE DEF code, rows
  <2> QED  BY <1>1, <1>2, <1>3, <1>4, <1>5, <2>1, <2>2, <2>3, ConcludeFound
<1> QED  BY <1>6, <1>7

LEMMA LogActionFound ==
  ASSUME FoundInv, NEW q \in Readers, LogAction(q)
  PROVE  FoundInv'
<1> DEFINE row == [id |-> qjob[q].tok, ok |-> qjob[q].code = "SUCCESS"]
           t == [work EXCEPT !.audit = @ \cup {row}]
           e == Write(t, TRUE)
<1>1. QueryInv /\ QueryInv' /\ IInv
  BY LogActionSafe DEF FoundInv, QueryInv
<1>2. qpc[q] = "audit" /\ (Executed(e) \/ Failed(e)) /\ Turn(q, "idle", qjob[q])
  BY DEF LogAction
<1>3. t.msgs = work.msgs
  BY <1>1 DEF IInv, SessionInv, SessionTypeOK, Tables
<1> HIDE DEF t
<1>4. e.result = NoResult /\ e.work.msgs = work.msgs /\ e.durable.msgs \in {durable.msgs, work.msgs}
  BY <1>3 DEF Write
<1> HIDE DEF e
<1>5. Steady /\ Quiet
  BY <1>1, <1>2, <1>4, SteadySteps, StatementQuiet
<1>6. qjob[q] \in QueryJob
  BY <1>1 DEF QueryInv, QueryTypes
<1>7. pc' = pc /\ \A r \in Readers \ {q} : Untouched(r)
  BY <1>1, <1>2, <1>6, TurnFacts DEF QueryInv, QueryPoint, Turn, KeyServerFrame
<1>8. WaitOwned'
  BY <1>2, <1>5, <1>7, QuietWait
<1>9. \A r \in Readers \ {q} : qpc[r] = "fetch" => result' = result
  BY <1>1, <1>5, QuietOthers
<1>10. ASSUME faults' = 0  PROVE Due("idle", qjob[q], result'.rows)
  <2>1. Due("audit", qjob[q], result.rows)
    BY <1>2, <1>5, <1>10 DEF Steady, FoundInv
  <2> QED  BY <2>1 DEF Due
<1> QED  BY <1>1, <1>2, <1>5, <1>6, <1>8, <1>9, <1>10, TurnFound DEF QueryPoint

LEMMA HandleQueryFound ==
  ASSUME FoundInv, NEW q \in Readers, HandleQuery(q)
  PROVE  FoundInv'
<1>1. CASE queryMessageLogById(q) \/ queryRecentMessagesBySender(q)
  BY <1>1, SelectIsWanted, SelectMessagesFound DEF FoundInv
<1> QED  BY <1>1, FetchMessagesFound, LogActionFound DEF HandleQuery
-----------------------------------------------------------------------------
(* The other steps, as to what is owed.                                    *)

LEMMA AskQueryFound ==
  ASSUME FoundInv, NEW q \in Readers, NEW r \in Queries, AskQuery(q, r)
  PROVE  FoundInv'
<1> DEFINE known == {a \in acks : a.req.op = "send"}
           alone == BusyReaders = {} /\ \A w \in Workers : At(w, "idle")
           j == [req |-> r, tok |-> MaxReq + asked + 1, rows |-> {},
                 code |-> "INVALID_REQUEST", known |-> known, alone |-> alone]
           p == IF Permitted(r) THEN "select" ELSE "audit"
<1>1. QueryInv /\ QueryInv' /\ QueryTypes
  BY AskQuerySafe DEF FoundInv, QueryInv
<1>2. /\ qpc[q] = "idle" /\ qpc' = [qpc EXCEPT ![q] = p]
      /\ qjob' = [Crossed(BusyReaders) EXCEPT ![q] = j]
      /\ KeyServerFrame /\ UNCHANGED sessionVars
  BY DEF AskQuery
<1>3. /\ j.known = known /\ j.alone = alone /\ j.code = "INVALID_REQUEST"
      /\ p \in {"select", "audit"}
  OBVIOUS
<1> HIDE DEF j, p
<1>4. Crossed(BusyReaders) \in [Readers -> QueryJob]
  BY <1>1, CrossedType
<1>5. qpc'[q] = p /\ qjob'[q] = j
  BY <1>1, <1>2, <1>4 DEF QueryTypes
<1>6. \A s \in Readers \ {q} : qpc'[s] = qpc[s] /\ qjob'[s] = Crossed(BusyReaders)[s]
  BY <1>1, <1>2, <1>4 DEF QueryTypes
<1>7. \A s \in Readers \ {q} : /\ Untouched(s)
                               /\ qjob'[s].alone => qjob[s].alone
                               /\ qpc[s] # "idle" => ~qjob'[s].alone
  BY <1>1, <1>6, CrossedFacts DEF Untouched, BusyReaders
<1>8. pc' = pc /\ job' = job /\ acks' = acks /\ result' = result /\ work' = work
      /\ durable' = durable /\ up' = up /\ faults' = faults
  BY <1>2 DEF KeyServerFrame, sessionVars
<1>9. Course' /\ MsgSync'
  BY <1>8 DEF FoundInv, Course, MsgSync
<1>10. WaitOwned'
  BY <1>2, <1>6, <1>8 DEF FoundInv, WaitOwned
<1>11. KnownSent'
  BY <1>3, <1>5, <1>7, <1>8 DEF FoundInv, KnownSent, Untouched, SameQuery
<1>12. AloneIdle'
  <2>1. alone => (\A w \in Workers : pc'[w] = "idle") /\ \A s \in Readers \ {q} : qpc'[s] = "idle"
    BY <1>6, <1>8 DEF BusyReaders, At
  <2>2. \A s \in Readers \ {q} : qpc'[s] # "idle" => ~qjob'[s].alone
    BY <1>6, <1>7
  <2> QED  BY <1>3, <1>5, <2>1, <2>2 DEF AloneIdle
<1>13. ASSUME faults' = 0
       PROVE  Sendings' /\ \A s \in Readers : Due(qpc'[s], qjob'[s], result'.rows)
  <2>1. Sendings'
    BY <1>8, <1>13, OthersSendings DEF FoundInv
  <2>2. Due(p, j, result'.rows)
    BY <1>3 DEF Due
  <2>3. \A s \in Readers \ {q} : Due(qpc'[s], qjob'[s], result'.rows)
    BY <1>7, <1>8, <1>13, DueStays DEF FoundInv
  <2> QED  BY <1>5, <2>1, <2>2, <2>3
<1> QED  BY <1>1, <1>9, <1>10, <1>11, <1>12, <1>13 DEF FoundInv

\* What a handler's step does to the session.
LEMMA HandleCalls ==
  ASSUME NEW w \in Workers, Handle(w)
  PROVE  \/ UNCHANGED faults
         \/ FetchFailed \/ \E e : Failed(e)
<1>1. CASE Agree(w)
  BY <1>1 DEF Agree, Verify, Begin, LockSn, FetchSn, LockKeys, FetchKeys, Rotate, Insert, BumpSn,
              CommitTxn, RollBack, RolledBack, Publish, Sql, Executed, Fetched, Failed, sessionVars
<1>2. CASE CheckOrLogout(w)
  BY <1>2 DEF CheckOrLogout, Snapshot, Expire, Find, Fetch, CacheOff, Revoke, Affected, Executed,
              Fetched, sessionVars
<1>3. CASE Send(w)
  BY <1>3 DEF Send, Validate, Lookup, Peer, Store, Audit, Executed, sessionVars
<1> QED  BY <1>1, <1>2, <1>3 DEF Handle

LEMMA HandleFaults ==
  ASSUME IInv, NEW w \in Workers, Handle(w), faults' = 0
  PROVE  Calm
<1>1. faults + 1 # 0
  BY FaultsNat
<1>2. faults' \in {faults, faults + 1}
  BY HandleCalls DEF FetchFailed, Failed, Unsendable, Rejected, LinkLost, sessionVars
<1> QED  BY <1>1, <1>2 DEF Calm

\* No answer is taken back.
LEMMA HandleAcks ==
  ASSUME Control, NEW w \in Workers, Handle(w)
  PROVE  acks \subseteq acks'
<1>1. /\ \A p : Goto(w, p) => acks' = acks
      /\ \A p, j : Keep(w, p, j) => acks' = acks
      /\ \A code : AuditThenReply(w, code) => acks' = acks
      /\ \A code : Reply(w, code) => acks \subseteq acks'
  BY DEF Goto, Keep, AuditThenReply, Reply
<1>2. job[w].stage \in Stage
  BY DEF Control, Job
<1>3. Passed(w) \/ Refused(w) => acks \subseteq acks'
  BY <1>1, <1>2 DEF Passed, Refused, Stage
<1>4. CASE Agree(w)
  BY <1>1, <1>4 DEF Agree, Verify, Begin, LockSn, FetchSn, LockKeys, FetchKeys, Rotate, Insert,
                    BumpSn, CommitTxn, RollBack, Publish, Sql
<1>5. CASE CheckOrLogout(w)
  BY <1>1, <1>3, <1>5 DEF CheckOrLogout, Snapshot, Expire, Find, Fetch, CacheOff, Revoke, Affected
<1>6. CASE Send(w)
  BY <1>1, <1>6 DEF Send, Validate, Lookup, Peer, Store, insertMessageLog, Audit
<1> QED  BY <1>4, <1>5, <1>6 DEF Handle

LEMMA HandlerStepFound ==
  ASSUME OneThread, FoundInv, HandlerStep
  PROVE  FoundInv'
<1>1. /\ QueryInv /\ QueryInv' /\ IInv /\ Control /\ Course /\ MsgSync
      /\ \A q \in Readers : Untouched(q)
      /\ \A q \in Readers : qpc[q] = "fetch" =>
           result' = result /\ \A w \in Workers : pc'[w] \notin FetchPoint
  BY HandlerStepSafe, HandlerStepFacts DEF FoundInv, QueryInv, IInv
<1>2. PICK w \in Workers : Handle(w) \/ \E r \in Requests : Take(w, r)
  BY DEF HandlerStep
<1>3. \A q \in Readers : /\ qjob'[q].alone => qjob[q].alone
                         /\ qpc'[q] # "idle" => ~qjob'[q].alone
  <2>1. qpc' = qpc /\ qjob' = Crossed(BusyReaders)
    BY DEF HandlerStep
  <2> QED  BY <1>1, <2>1, CrossedFacts DEF QueryInv, BusyReaders
<1>4. AloneIdle'
  BY <1>3 DEF AloneIdle
<1>5. Course'
  BY <1>1, <1>2, NextCourse DEF Next
<1>6. CASE Handle(w)
  <2>1. MsgSync'
    BY <1>1, <1>6, HandleSync
  <2>2. acks \subseteq acks'
    BY <1>1, <1>6, HandleAcks
  <2>3. WaitOwned'
    <3>1. PICK p : /\ pc' = [pc EXCEPT ![w] = p]
                   /\ \/ pc[w] \notin FetchPoint /\ p \notin FetchPoint /\ Quiet
                      \/ p \in FetchPoint /\ ~result.waiting
                      \/ pc[w] \in FetchPoint /\ p \notin FetchPoint /\ ~result'.waiting
      BY <1>1, <1>6, HandleWaits DEF Waits
    <3>2. pc'[w] = p /\ \A v \in Workers : v # w => pc'[v] = pc[v]
      BY <1>1, <3>1 DEF Control
    <3>3. \A q \in Readers : qpc'[q] = qpc[q]
      BY <1>1 DEF Untouched
    <3> QED  BY <3>1, <3>2, <3>3 DEF FoundInv, WaitOwned, Quiet
  <2>4. faults' = 0 => Sendings' /\ faults = 0
    BY <1>1, <1>6, HandleFaults, HandleSendings DEF FoundInv, Calm
  <2> QED  BY <1>1, <2>1, <2>2, <2>3, <2>4, <1>3, <1>4, <1>5, DueStays
           DEF FoundInv, KnownSent, Untouched, SameQuery
<1>7. CASE \E r \in Requests : Take(w, r)
  <2>1. PICK r \in Requests : Take(w, r)
    BY <1>7
  <2>2. r \in Request
    BY RequestsAssumption
  <2>3. /\ pc' = [pc EXCEPT ![w] = Entry(r.op)] /\ acks' = acks /\ UNCHANGED sessionVars
        /\ pc[w] = "idle" /\ \E j : job' = [job EXCEPT ![w] = j]
    BY <2>1 DEF Take, Keep, At
  <2>4. Entry(r.op) \notin TxnPoint \cup {"rollback", "audit"}
    BY <2>2 DEF Request, Op, Entry, TxnPoint
  <2>5. /\ pc'[w] = Entry(r.op)
        /\ \A v \in Workers : v # w => pc'[v] = pc[v] /\ job'[v] = job[v]
    BY <1>1, <2>3 DEF Control
  <2>6. result' = result /\ work' = work /\ durable' = durable /\ up' = up /\ faults' = faults
    BY <2>3 DEF sessionVars
  <2>7. MsgSync'
    BY <1>1, <2>4, <2>5, <2>6 DEF MsgSync
  <2>8. WaitOwned'
    <3>1. \A q \in Readers : qpc'[q] = qpc[q]
      BY <1>1 DEF Untouched
    <3>2. \A v \in Workers : pc[v] \in FetchPoint => v # w
      BY <2>3 DEF FetchPoint
    <3> QED  BY <2>5, <2>6, <3>1, <3>2 DEF FoundInv, WaitOwned
  <2>9. faults' = 0 => Sendings' /\ faults = 0
    BY <2>3, <2>4, <2>5, <2>6, OthersSendings DEF FoundInv
  <2> QED  BY <1>1, <2>3, <2>7, <2>8, <2>9, <1>3, <1>4, <1>5, DueStays
           DEF FoundInv, KnownSent, Untouched, SameQuery
<1> QED  BY <1>2, <1>6, <1>7

LEMMA ProcessRestartFound ==
  ASSUME FoundInv, ProcessRestart
  PROVE  FoundInv'
<1>1. QueryInv' /\ Course'
  BY ProcessRestartSafe, NextCourse DEF FoundInv, QueryInv, ProcessRestart, Next
<1>2. /\ faults' = faults + 1 /\ work' = durable /\ durable' = durable /\ ~result'.waiting
      /\ \A w \in Workers : pc'[w] = "idle"
      /\ \A q \in Readers : qpc'[q] = "idle" /\ qjob'[q] = NoQueryJob
  BY DEF ProcessRestart, Restart, Reconnected, NoResult
<1>3. faults' # 0
  BY <1>2, FaultsNat DEF FoundInv, QueryInv
<1>4. MsgSync'
  BY <1>2, FS_Subset DEF FoundInv, MsgSync, TxnPoint
<1>5. WaitOwned' /\ AloneIdle' /\ KnownSent'
  BY <1>2 DEF WaitOwned, AloneIdle, KnownSent, NoQueryJob
<1> QED  BY <1>1, <1>3, <1>4, <1>5 DEF FoundInv

\* Time passes, or nothing happens.
LEMMA IdleStepFound ==
  ASSUME FoundInv, KeyLapse \/ UNCHANGED allVars
  PROVE  FoundInv'
<1>1. QueryInv'
  BY KeyLapseSafe, QueryStutterSafe DEF FoundInv
<1>2. /\ durable' = durable /\ work' = work /\ result' = result /\ up' = up /\ faults' = faults
      /\ pc' = pc /\ job' = job /\ acks' = acks /\ qpc' = qpc /\ qjob' = qjob
  BY DEF KeyLapse, Lapse, queryVars, sessionVars, allVars, vars
<1>3. Sendings => Sendings'
  BY <1>2 DEF Sendings, InSight
<1> QED  BY <1>1, <1>2, <1>3 DEF FoundInv, Course, MsgSync, WaitOwned, AloneIdle, KnownSent

LEMMA QueryInitFound == QueryInit => FoundInv
<1> SUFFICES ASSUME QueryInit PROVE FoundInv
  OBVIOUS
<1>1. QueryInv /\ Init
  BY QueryInitInv DEF QueryInit
<1>2. Course
  BY <1>1, BoundsAssumption DEF Init, Course, CourseAt, NoJob, AgreePoint, SendPoint, CheckPoint
<1>3. /\ durable = EmptyTables /\ work = EmptyTables /\ result = NoResult /\ up /\ acks = {}
      /\ \A w \in Workers : pc[w] = "idle"
      /\ \A q \in Readers : qpc[q] = "idle" /\ qjob[q] = NoQueryJob
  BY <1>1 DEF Init, SessionInit, QueryInit
<1>4. MsgSync
  BY <1>3, FS_EmptySet DEF MsgSync, EmptyTables, TxnPoint
<1>5. WaitOwned /\ AloneIdle /\ KnownSent /\ Sendings
  BY <1>3 DEF WaitOwned, AloneIdle, KnownSent, Sendings, NoResult, NoQueryJob
<1>6. \A q \in Readers : Due(qpc[q], qjob[q], result.rows)
  BY <1>3 DEF Due, NoQueryJob
<1> QED  BY <1>1, <1>2, <1>4, <1>5, <1>6 DEF FoundInv

LEMMA QueryNextFound ==
  ASSUME OneThread, FoundInv, [QueryNext]_allVars
  PROVE  FoundInv'
  BY HandleQueryFound, AskQueryFound, HandlerStepFound, IdleStepFound, ProcessRestartFound
  DEF QueryNext, AllDone

LEMMA FoundHolds == ASSUME OneThread PROVE QuerySpec => []FoundInv
<1>1. FoundInv /\ [QueryNext]_allVars => FoundInv'
  BY QueryNextFound
<1> QED  BY <1>1, QueryInitFound, PTL DEF QuerySpec

\* handleQueryMessageList with one thread for the handlers and any number for the
\* queries: while nothing fails, no message whose sending was answered SUCCESS before
\* the query is missing from the list, but for as many others that are no older; even
\* where a transaction has been left open.
THEOREM SerialListShowsSent == ASSUME OneThread PROVE QuerySpec => []ListShowsSent
<1>1. FoundInv => ListShowsSent
  BY DEF FoundInv, Due, Complete, ListShowsSent
<1> QED  BY <1>1, FoundHolds, PTL

\* handleQueryMessage with one thread for the handlers and any number for the queries:
\* while nothing fails, a query that had the session to itself and is told that there
\* is no such message asked for none that had been answered as sent.
THEOREM SerialNotFoundMeansAbsent == ASSUME OneThread PROVE QuerySpec => []NotFoundMeansAbsent
<1>1. FoundInv => NotFoundMeansAbsent
  BY DEF FoundInv, Due, Absent, NotFoundMeansAbsent
<1> QED  BY <1>1, FoundHolds, PTL
=============================================================================
