------------------------------ MODULE KeyServer ------------------------------
(***************************************************************************)
(* The request handlers of the server: ServerOP's key agreement, check and *)
(* logout and MessageService's sending of a message, run by the threads of *)
(* the pool over the two things they share without a lock, the MySQL       *)
(* session and the key cache.                                              *)
(*                                                                         *)
(* A thread takes a request and runs its handler to the answer.  A step is *)
(* one call of libmysqlclient or one operation on the cache, with the      *)
(* thread-local code up to the next one; the program point is pc[w], what  *)
(* the handler keeps in local variables is job[w].                         *)
(***************************************************************************)
EXTENDS SecKeyShm, MySqlSession

CONSTANTS
  Workers,    \* threads of the pool
  Requests,   \* what clients may ask for
  MaxReq,     \* bound: requests in a behaviour
  MaxLapse    \* bound: keys whose 24 hours run out in a behaviour

Op == {"agree", "check", "logout", "send"}

\* key is the key number the client names; "agree" names none.
Request == [op : Op, from : Clients, to : Clients, key : Nat]

ASSUME RequestsAssumption == Requests \subseteq Request
ASSUME BoundsAssumption   == MaxReq \in Nat /\ MaxLapse \in Nat

Code == {"SUCCESS", "FAILED", "INVALID_REQUEST", "KEY_NOT_FOUND", "KEY_INVALID",
         "DECRYPT_FAILED", "KEY_AGREE_FAILED", "KEY_LOGOUT_FAILED"}

AgreePoint == {"verify", "begin", "lockSn", "fetchSn", "lockKeys", "fetchKeys",
               "rotate", "insert", "bumpSn", "commit", "rollback", "publish"}
KeyPoint   == {"snapshot", "expire", "find", "fetch", "revoke", "affected", "cacheOff"}
SendPoint  == {"validate", "lookup", "peer", "store", "audit"}
FetchPoint == {"fetchSn", "fetchKeys", "fetch"}
Point      == {"idle"} \cup AgreePoint \cup KeyPoint \cup SendPoint

\* Whose key a handler is looking at.
Stage == {"own", "sender", "receiver"}

\* tok stands for whatever the handler makes fresh: the AES key of an
\* agreement, the server's id of a message.
NoRequest == [op |-> "check", from |-> NoClient, to |-> NoClient, key |-> 0]

Job == [req : Request \cup {NoRequest}, tok : Nat, stage : Stage, key : Nat,
        node : Node, code : Code]

NoJob == [req |-> NoRequest, tok |-> 0, stage |-> "own", key |-> 0, node |-> EmptyNode, code |-> "FAILED"]

\* An answer SUCCESS as encoded for the client, with the token behind it.
Answer == [req : Request, key : Nat, tok : Nat]

VARIABLES
  shm,        \* the key cache
  lapsed,     \* <<client, key>> of committed keys past their expiretime
  seq,        \* requests taken so far
  pc,
  job,
  acks        \* history: the answers SUCCESS, whether or not they arrive

vars == <<durable, work, inTxn, result, affected, up, faults,
          shm, lapsed, seq, pc, job, acks>>

Init ==
  /\ SessionInit
  /\ shm = EmptyShm
  /\ lapsed = {}
  /\ seq = 0
  /\ pc = [w \in Workers |-> "idle"]
  /\ job = [w \in Workers |-> NoJob]
  /\ acks = {}

TypeOK ==
  /\ SessionTypeOK
  /\ shm \in [Slots -> Node]
  /\ lapsed \subseteq Clients \X Nat
  /\ seq \in 0 .. MaxReq
  /\ pc \in [Workers -> Point]
  /\ job \in [Workers -> Job]
  /\ acks \subseteq Answer
-----------------------------------------------------------------------------
(* Control.                                                                *)

At(w, p) == pc[w] = p

Goto(w, p) == pc' = [pc EXCEPT ![w] = p] /\ UNCHANGED <<job, acks>>

\* Go on at p with j in the local variables.
Keep(w, p, j) ==
  /\ pc' = [pc EXCEPT ![w] = p]
  /\ job' = [job EXCEPT ![w] = j]
  /\ UNCHANGED acks

\* The handler returns: its answer goes to the client and the thread is free.
Reply(w, code) ==
  /\ acks' = acks \cup
       IF code = "SUCCESS"
       THEN {[req |-> job[w].req, key |-> job[w].key, tok |-> job[w].tok]} ELSE {}
  /\ pc' = [pc EXCEPT ![w] = "idle"]
  /\ job' = [job EXCEPT ![w] = NoJob]

\* MessageService answers after it has written the outcome to audit_log.
AuditThenReply(w, code) == Keep(w, "audit", [job[w] EXCEPT !.code = code])

Frame == UNCHANGED <<lapsed, seq>>

\* Whose key the lifecycle check of getActiveKey and secKeyCheck is about.
Subject(w) == IF job[w].stage = "receiver" THEN job[w].req.to ELSE job[w].req.from

\* A statement, and where the handler goes on when it executes and when not.
Sql(w, e, good, bad) ==
  /\ \/ Executed(e) /\ Goto(w, good)
     \/ Failed(e) /\ Goto(w, bad)
  /\ Frame /\ UNCHANGED shm

\* UPDATE seckeyinfo SET state = s on the given rows.
Update(rows, s) ==
  Write([work EXCEPT !.keys = SetState(@, rows, s)], rows # {})
-----------------------------------------------------------------------------
(* A thread takes a request (processV2Request has decoded and routed it).  *)

Entry(op) ==
  CASE op = "agree"  -> "verify"
    [] op = "check"  -> "snapshot"
    [] op = "logout" -> "revoke"
    [] op = "send"   -> "validate"

Take(w, r) ==
  /\ At(w, "idle")
  /\ seq < MaxReq
  /\ seq' = seq + 1
  /\ Keep(w, Entry(r.op),
          [NoJob EXCEPT !.req = r, !.tok = seq + 1, !.key = r.key,
                        !.stage = IF r.op = "send" THEN "sender" ELSE "own"])
  /\ UNCHANGED <<sessionVars, shm, lapsed>>
-----------------------------------------------------------------------------
(* seckeyAgree and mysqlOP::writeSecKeyWithTrans.                          *)

\* The signature over the public key holds or does not.
Verify(w) ==
  /\ At(w, "verify")
  /\ Goto(w, "begin") \/ Reply(w, "KEY_AGREE_FAILED")
  /\ Frame /\ UNCHANGED <<sessionVars, shm>>

Begin(w) ==
  /\ At(w, "begin")
  /\ \/ Executed(StartTransaction) /\ Goto(w, "lockSn")
     \/ Failed(StartTransaction) /\ Reply(w, "KEY_AGREE_FAILED")
  /\ Frame /\ UNCHANGED shm

\* select ikeysn from keysn for update
LockSn(w) ==
  At(w, "lockSn") /\ Sql(w, Select({[ikeysn |-> work.sn]}), "fetchSn", "rollback")

\* The number read becomes the new key's number; it must be positive.
FetchSn(w) ==
  /\ At(w, "fetchSn")
  /\ \/ /\ Fetched
        /\ LET sn == (CHOOSE r \in result.rows : TRUE).ikeysn
           IN  IF sn > 0 THEN Keep(w, "lockKeys", [job[w] EXCEPT !.key = sn])
               ELSE Goto(w, "rollback")
     \/ FetchFailed /\ Goto(w, "rollback")
  /\ Frame /\ UNCHANGED shm

\* Mutant: the old keys' result is never fetched.
LockKeysUnfetched(w) ==
  At(w, "lockKeys") /\ Sql(w, Select(ActiveOf(work.keys, Subject(w))), "rotate", "rollback")

\* select keyid ... state = Active order by keyid desc for update
LockKeys(w) ==
  At(w, "lockKeys") /\ Sql(w, Select(ActiveOf(work.keys, Subject(w))), "fetchKeys", "rollback")

\* The latest number only goes into rotated_from_keyid, which nothing reads.
FetchKeys(w) ==
  /\ At(w, "fetchKeys")
  /\ \/ Fetched /\ Goto(w, "rotate")
     \/ FetchFailed /\ Goto(w, "rollback")
  /\ Frame /\ UNCHANGED shm

\* Mutant: the WHERE has lost its client.
RotateEverybody(w) ==
  At(w, "rotate")
  /\ Sql(w, Update({r \in work.keys : r.state = "Active"}, "Rotated"), "insert", "rollback")

\* Every Active row of the client becomes Rotated.
Rotate(w) ==
  At(w, "rotate") /\ Sql(w, Update(ActiveOf(work.keys, Subject(w)), "Rotated"), "insert", "rollback")

NewRow(w) == [client |-> Subject(w), key |-> job[w].key, state |-> "Active", mat |-> job[w].tok]

\* UNIQUE KEY uk_client_server_key
Taken(w) == \E r \in work.keys : r.client = Subject(w) /\ r.key = job[w].key

Insert(w) ==
  /\ At(w, "insert")
  /\ IF Ready /\ Taken(w)
     THEN Denied /\ Goto(w, "rollback") /\ Frame /\ UNCHANGED <<shm, faults>>
     ELSE Sql(w, Write([work EXCEPT !.keys = @ \cup {NewRow(w)}], TRUE), "bumpSn", "rollback")

BumpSn(w) ==
  At(w, "bumpSn") /\ Sql(w, Write([work EXCEPT !.sn = @ + 1], TRUE), "commit", "rollback")

\* Mutant: a failed COMMIT is not rolled back.
CommitWithoutRollback(w) ==
  /\ At(w, "commit")
  /\ \/ Executed(Commit) /\ Goto(w, "publish")
     \/ Failed(Commit) /\ Reply(w, "KEY_AGREE_FAILED")
  /\ Frame /\ UNCHANGED shm

\* Mutant: the key is published whatever COMMIT returned.
PublishUncommitted(w) == At(w, "commit") /\ Sql(w, Commit, "publish", "publish")

CommitTxn(w) == At(w, "commit") /\ Sql(w, Commit, "publish", "rollback")

\* Mutant: ROLLBACK is repeated until it gets through.
RollBackRetried(w) ==
  /\ At(w, "rollback")
  /\ \/ (Executed(Rollback) \/ LinkLost(Rollback)) /\ Reply(w, "KEY_AGREE_FAILED")
     \/ Unsendable /\ Goto(w, "rollback")
  /\ Frame /\ UNCHANGED shm

\* Whether or not the rollback gets through, the agreement has failed.
RollBack(w) ==
  /\ At(w, "rollback")
  /\ RolledBack /\ Reply(w, "KEY_AGREE_FAILED")
  /\ Frame /\ UNCHANGED shm

\* The new key replaces the client's in the cache.  What shmWrite returns is
\* not looked at: with all slots taken the answer is SUCCESS all the same.
Publish(w) ==
  /\ At(w, "publish")
  /\ shm' = shmWrite(shm, [client |-> Subject(w), key |-> job[w].key,
                           mat |-> job[w].tok, status |-> 1])
  /\ Reply(w, "SUCCESS")
  /\ Frame /\ UNCHANGED sessionVars

Agree(w) ==
  \/ Verify(w) \/ Begin(w) \/ LockSn(w) \/ FetchSn(w) \/ LockKeys(w) \/ FetchKeys(w)
  \/ Rotate(w) \/ Insert(w) \/ BumpSn(w) \/ CommitTxn(w) \/ RollBack(w) \/ Publish(w)
-----------------------------------------------------------------------------
(* mysqlOP::checkSecKey, and what its callers do with the verdict.         *)

\* The cached copy taken before the check is of the key asked about.
Hit(w) == job[w].node.client # NoClient /\ job[w].node.key = job[w].key

\* secKeyCheck compares the number alone: a zero node has number 0.
SameNumber(w) == job[w].node.key = job[w].key

Passed(w) ==
  CASE job[w].stage = "own"      -> Reply(w, "SUCCESS")
    [] job[w].stage = "sender"   -> IF Hit(w) THEN Goto(w, "peer")
                                    ELSE AuditThenReply(w, "KEY_INVALID")
    [] job[w].stage = "receiver" -> IF Hit(w) THEN Goto(w, "store")
                                    ELSE AuditThenReply(w, "KEY_INVALID")

Refused(w) ==
  IF job[w].stage = "own"
  THEN IF SameNumber(w) THEN Goto(w, "cacheOff") ELSE Reply(w, "KEY_INVALID")
  ELSE IF Hit(w) THEN Goto(w, "cacheOff") ELSE AuditThenReply(w, "KEY_NOT_FOUND")

\* Active -> Expired when the 24 hours are over.
Expire(w) ==
  LET over == {r \in KeysWhere(work.keys, Subject(w), job[w].key, "Active") :
                 <<r.client, r.key>> \in lapsed}
  IN  /\ At(w, "expire")
      /\ \/ Executed(Update(over, "Expired")) /\ Goto(w, "find")
         \/ Failed(Update(over, "Expired")) /\ Refused(w)
      /\ Frame /\ UNCHANGED shm

\* select keyid, state
Find(w) ==
  LET rows == {r \in work.keys : r.client = Subject(w) /\ r.key = job[w].key}
  IN  /\ At(w, "find")
      /\ \/ Executed(Select(rows)) /\ Goto(w, "fetch")
         \/ Failed(Select(rows)) /\ Refused(w)
      /\ Frame /\ UNCHANGED shm

Fetch(w) ==
  /\ At(w, "fetch")
  /\ \/ /\ Fetched
        /\ IF \E r \in result.rows : r.state = "Active" THEN Passed(w) ELSE Refused(w)
     \/ FetchFailed /\ Refused(w)
  /\ Frame /\ UNCHANGED shm

\* Mutant: the lifecycle's number for Revoked is written as the cache's status.
CacheOffWithState(w) ==
  /\ At(w, "cacheOff")
  /\ shm' = shmUpdateStatus(shm, Subject(w), 2)
  /\ CASE job[w].req.op = "logout" -> Reply(w, "SUCCESS")
       [] job[w].req.op = "check"  -> Reply(w, "KEY_INVALID")
       [] OTHER                    -> AuditThenReply(w, "KEY_INVALID")
  /\ Frame /\ UNCHANGED sessionVars

\* The cached node of the client is switched off, whatever key it holds by now.
CacheOff(w) ==
  /\ At(w, "cacheOff")
  /\ shm' = shmUpdateStatus(shm, Subject(w), 0)
  /\ CASE job[w].req.op = "logout" -> Reply(w, "SUCCESS")
       [] job[w].req.op = "check"  -> Reply(w, "KEY_INVALID")
       [] OTHER                    -> AuditThenReply(w, "KEY_INVALID")
  /\ Frame /\ UNCHANGED sessionVars
-----------------------------------------------------------------------------
(* secKeyCheck and SeckeyLogout.                                           *)

Snapshot(w) ==
  /\ At(w, "snapshot")
  /\ Keep(w, "expire", [job[w] EXCEPT !.node = shmRead(shm, Subject(w))])
  /\ Frame /\ UNCHANGED <<sessionVars, shm>>

\* Mutant: a key in any state is revoked.
RevokeAnyState(w) ==
  LET rows == {r \in work.keys : r.client = Subject(w) /\ r.key = job[w].key}
  IN  /\ At(w, "revoke")
      /\ \/ Executed(Update(rows, "Revoked")) /\ Goto(w, "affected")
         \/ Failed(Update(rows, "Revoked")) /\ Reply(w, "KEY_LOGOUT_FAILED")
      /\ Frame /\ UNCHANGED shm

\* Active -> Revoked
Revoke(w) ==
  LET rows == KeysWhere(work.keys, Subject(w), job[w].key, "Active")
  IN  /\ At(w, "revoke")
      /\ \/ Executed(Update(rows, "Revoked")) /\ Goto(w, "affected")
         \/ Failed(Update(rows, "Revoked")) /\ Reply(w, "KEY_LOGOUT_FAILED")
      /\ Frame /\ UNCHANGED shm

\* Mutant: whether a row was updated is not looked at.
AffectedIgnored(w) ==
  /\ At(w, "affected")
  /\ Goto(w, "cacheOff")
  /\ Frame /\ UNCHANGED <<sessionVars, shm>>

\* mysql_affected_rows, read in a second call.
Affected(w) ==
  /\ At(w, "affected")
  /\ IF affected THEN Goto(w, "cacheOff") ELSE Reply(w, "KEY_LOGOUT_FAILED")
  /\ Frame /\ UNCHANGED <<sessionVars, shm>>

CheckOrLogout(w) ==
  \/ Snapshot(w) \/ Expire(w) \/ Find(w) \/ Fetch(w) \/ CacheOff(w)
  \/ Revoke(w) \/ Affected(w)
-----------------------------------------------------------------------------
(* MessageService::handleSendMessage.                                      *)

\* validateRequest; of the fields it looks at, only key_id is in the model.
Validate(w) ==
  /\ At(w, "validate")
  /\ IF job[w].key > 0 THEN Goto(w, "lookup") ELSE AuditThenReply(w, "INVALID_REQUEST")
  /\ Frame /\ UNCHANGED <<sessionVars, shm>>

\* Mutant: a cached node that is switched on is trusted without the database.
LookupTrustsCache(w) ==
  LET node == shmRead(shm, Subject(w))
  IN  /\ At(w, "lookup")
      /\ IF node.client # NoClient /\ node.key = job[w].key
         THEN IF node.status = 1
              THEN Keep(w, IF job[w].stage = "sender" THEN "peer" ELSE "store",
                        [job[w] EXCEPT !.node = node])
              ELSE AuditThenReply(w, "KEY_INVALID")
         ELSE Keep(w, "expire", [job[w] EXCEPT !.node = node])
      /\ Frame /\ UNCHANGED <<sessionVars, shm>>

\* getActiveKey: a cached node that is switched off is refused at once, every
\* other case goes to the database.
Lookup(w) ==
  LET node == shmRead(shm, Subject(w))
  IN  /\ At(w, "lookup")
      /\ IF node.client # NoClient /\ node.key = job[w].key /\ node.status # 1
         THEN AuditThenReply(w, "KEY_INVALID")
         ELSE Keep(w, "expire", [job[w] EXCEPT !.node = node])
      /\ Frame /\ UNCHANGED <<sessionVars, shm>>

\* Decrypt with the sender's key, then see in the cache which key number the
\* receiver has.
Peer(w) ==
  LET node == shmRead(shm, job[w].req.to)
  IN  /\ At(w, "peer")
      /\ \/ AuditThenReply(w, "DECRYPT_FAILED")
         \/ node.client = NoClient /\ AuditThenReply(w, "KEY_NOT_FOUND")
         \/ /\ node.client # NoClient
            /\ Keep(w, "lookup", [job[w] EXCEPT !.stage = "receiver", !.key = node.key])
      /\ Frame /\ UNCHANGED <<sessionVars, shm>>

\* Mutant: re-encrypted with the key that is in the cache by now.
MessageFromCache(w) ==
  [id |-> job[w].tok, from |-> job[w].req.from, to |-> job[w].req.to,
   senderKey |-> job[w].req.key, receiverKey |-> job[w].key,
   mat |-> shmRead(shm, job[w].req.to).mat]

\* The message as stored: re-encrypted with the key bytes of the node that
\* getActiveKey has checked.
Message(w) ==
  [id |-> job[w].tok, from |-> job[w].req.from, to |-> job[w].req.to,
   senderKey |-> job[w].req.key, receiverKey |-> job[w].key, mat |-> job[w].node.mat]

\* insert into message_log
insertMessageLog(m) == Write([work EXCEPT !.msgs = @ \cup {m}], TRUE)

\* Mutant: a message that could not be stored is audited as sent.
StoreAuditsFirst(w) ==
  LET e == insertMessageLog(Message(w))
  IN  /\ At(w, "store")
      /\ Executed(e) \/ Failed(e)
      /\ AuditThenReply(w, "SUCCESS")
      /\ Frame /\ UNCHANGED shm

Store(w) ==
  LET e == insertMessageLog(Message(w))
  IN  /\ At(w, "store")
      /\ \/ Executed(e) /\ AuditThenReply(w, "SUCCESS")
         \/ Failed(e) /\ AuditThenReply(w, "FAILED")
         \/ UNCHANGED sessionVars /\ AuditThenReply(w, "FAILED")  \* encryption fails
      /\ Frame /\ UNCHANGED shm

\* The outcome goes to audit_log; a failure to write it is not looked at.
Audit(w) ==
  LET row == [id |-> job[w].tok, ok |-> job[w].code = "SUCCESS"]
      e   == Write([work EXCEPT !.audit = @ \cup {row}], TRUE)
  IN  /\ At(w, "audit")
      /\ Executed(e) \/ Failed(e)
      /\ Reply(w, job[w].code)
      /\ Frame /\ UNCHANGED shm

Send(w) == Validate(w) \/ Lookup(w) \/ Peer(w) \/ Store(w) \/ Audit(w)
-----------------------------------------------------------------------------
(* The environment.                                                        *)

\* A committed key's 24 hours run out.
Lapse ==
  /\ Cardinality(lapsed) < MaxLapse
  /\ \E r \in durable.keys :
       /\ r.state = "Active"
       /\ <<r.client, r.key>> \notin lapsed
       /\ lapsed' = lapsed \cup {<<r.client, r.key>>}
  /\ UNCHANGED <<sessionVars, shm, seq, pc, job, acks>>

\* The server process dies and is started again: threads and session are lost,
\* the tables and the System V segment stay as they are.
Restart ==
  /\ Reconnected
  /\ pc' = [w \in Workers |-> "idle"]
  /\ job' = [w \in Workers |-> NoJob]
  /\ UNCHANGED <<shm, lapsed, seq, acks>>

\* All requests of the bounded behaviour are answered.
Done ==
  /\ seq = MaxReq
  /\ \A w \in Workers : At(w, "idle")
  /\ UNCHANGED vars

Handle(w) == Agree(w) \/ CheckOrLogout(w) \/ Send(w)

Next ==
  \/ \E w \in Workers : Handle(w) \/ \E r \in Requests : Take(w, r)
  \/ Lapse
  \/ Restart
  \/ Done

\* A thread of the pool that has a request keeps running it.
Fairness == \A w \in Workers : WF_vars(Handle(w))

Spec == Init /\ [][Next]_vars /\ Fairness
-----------------------------------------------------------------------------
(* What holds whatever the threads do.                                     *)

\* KeyLifecycle.h: a key leaves Active for one of the final states and never
\* comes back, and its row is never lost, through every commit, rollback and
\* implicit commit of the shared session.
CommittedStatesFinal == [][Advances(durable.keys, durable'.keys)]_vars

\* An unfetched result belongs to exactly one handler, which is about to fetch
\* it, and no handler comes to fetch a result that is gone: no error path leaves
\* the shared session refusing every further statement.
ResultHasOwner ==
  /\ result.waiting <=> \E w \in Workers : pc[w] \in FetchPoint
  /\ \A v, w \in Workers : pc[v] \in FetchPoint /\ pc[w] \in FetchPoint => v = w

\* A stored message is encrypted under key bytes that an agreement of its
\* receiver has answered together with the key number recorded in the message.
MessageKeyMatchesNumber ==
  \A m \in work.msgs : \E a \in acks :
    /\ a.req.op = "agree"
    /\ a.req.from = m.to /\ a.key = m.receiverKey /\ a.tok = m.mat

\* Every request taken is answered, on every error path, unless the process dies.
EveryRequestAnswered ==
  \A w \in Workers : pc[w] # "idle" ~> pc[w] = "idle"
-----------------------------------------------------------------------------
(* What holds when requests run one at a time.                             *)

AllIdle == \A w \in Workers : pc[w] = "idle"

\* The committed tables behave as KeyLifecycle says.
Lifecycle ==
  INSTANCE KeyLifecycle WITH keys <- durable.keys, sn <- durable.sn, KeyBytes <- 0 .. MaxReq

ImplementsLifecycle == Lifecycle!Spec

\* At rest no transaction is left open, whichever statement failed: what the
\* next handler writes is committed when it says so.
NoTransactionAtRest == AllIdle => ~inTxn

\* The cache never holds a key the database does not know: a slot's client,
\* number and bytes are those of one committed row.
CacheBackedByTable ==
  \A i \in Slots : shm[i] # EmptyNode =>
    \E r \in durable.keys :
      r.client = shm[i].client /\ r.key = shm[i].key /\ r.mat = shm[i].mat

\* The agreements answered SUCCESS to a client, by their tokens, and the clients
\* whose first was before c's.
Agreements(c) == {a.tok : a \in {b \in acks : b.req.op = "agree" /\ b.req.from = c}}
Before(c) ==
  {d \in Clients : Agreements(d) # {} /\ Min(Agreements(d)) < Min(Agreements(c))}

\* At rest, as long as nothing failed, the cache serves the Active keys of the first
\* MaxNode clients that agreed on one, whatever the others do: the key a client was
\* given works for its messages.  A client that came when all slots were taken was
\* answered SUCCESS like the others, but no key of it is ever cached.
ActiveKeyUsable ==
  AllIdle /\ faults = 0 =>
    \A r \in durable.keys : r.state = "Active" =>
      shmRead(shm, r.client)
        = IF Cardinality(Before(r.client)) < MaxNode
          THEN [client |-> r.client, key |-> r.key, mat |-> r.mat, status |-> 1]
          ELSE EmptyNode

\* A message is stored only while both keys it names are Active, and under the
\* receiver key's own bytes (MessageService.cpp: keys whose lifecycle has been
\* checked, not merely a cached status).
StoredUnderActiveKeys ==
  [][\A m \in work'.msgs \ work.msgs :
       /\ \E r \in work.keys : r.client = m.from /\ r.key = m.senderKey /\ r.state = "Active"
       /\ \E r \in work.keys : /\ r.client = m.to /\ r.key = m.receiverKey
                               /\ r.state = "Active" /\ r.mat = m.mat]_vars

\* An answer SUCCESS is backed by the committed tables from then on: the agreed
\* key exists, the key logged out is not Active, the message is stored.
SuccessIsDurable ==
  \A a \in acks :
    CASE a.req.op = "agree"  -> \E r \in durable.keys :
                                  r.client = a.req.from /\ r.key = a.key /\ r.mat = a.tok
      [] a.req.op = "logout" -> \E r \in durable.keys :
                                  r.client = a.req.from /\ r.key = a.key /\ r.state # "Active"
      [] a.req.op = "send"   -> \E m \in durable.msgs : m.id = a.tok
      [] OTHER               -> TRUE

\* audit_log never records the sending of a message that is not stored.
AuditTellsTruth ==
  \A row \in durable.audit : row.ok <=> \E m \in durable.msgs : m.id = row.id
-----------------------------------------------------------------------------
(* What comments of the source say of the handlers, and threads break.     *)

\* ServerOP.cpp, secKeyCheck: a failed look at an old key must not switch off
\* the cached node of the new key it was rotated to.
NewKeyStaysOn ==
  faults = 0 =>
    \A i \in Slots, r \in durable.keys :
      shm[i].client = r.client /\ shm[i].key = r.key /\ r.state = "Active"
        => shm[i].status = 1

\* mysqlOP.cpp, writeSecKeyWithTrans: numbers are allocated serially.
NumbersAllocatedOnce ==
  \A r, s \in durable.keys : r.key = s.key => r = s

\* KeyLifecycle.h: a key in a final state is never used again.  A client that
\* was told its key is logged out relies on it: no later statement of any
\* handler makes the key Active again.
LoggedOutKeyStaysOut ==
  [][\A a \in acks, r \in work.keys, s \in work'.keys :
       /\ a.req.op = "logout"
       /\ r.client = a.req.from /\ r.key = a.key /\ r.state # "Active"
       /\ s.client = r.client /\ s.key = r.key
       => s.state # "Active"]_vars
=============================================================================
