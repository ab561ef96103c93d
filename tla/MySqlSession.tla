---------------------------- MODULE MySqlSession ----------------------------
(***************************************************************************)
(* The one MySQL session every thread of the server shares (mysqlOP::m_conn*)
(* has no lock), with what libmysqlclient and InnoDB promise about it:     *)
(*                                                                         *)
(*  - outside a transaction each statement commits on its own; START       *)
(*    TRANSACTION first commits a transaction that is still open;          *)
(*  - row locks (FOR UPDATE) belong to the session, so they never make     *)
(*    one thread of the server wait for another;                           *)
(*  - after a SELECT the client library refuses every further statement    *)
(*    ("Commands out of sync") until mysql_store_result has fetched it;    *)
(*  - mysql_affected_rows tells about the session's last statement;        *)
(*  - when the link drops, the server rolls the open transaction back and, *)
(*    as auto-reconnect is off, every later statement fails.               *)
(*                                                                         *)
(* A call of the library is one atomic step.  The tables are those of      *)
(* scripts/init_db.sql, with the columns the lifecycle depends on.         *)
(***************************************************************************)
EXTENDS KeyStates

CONSTANT MaxFaults   \* bound: failures and restarts in a behaviour

ASSUME MaxFaultsAssumption == MaxFaults \in Nat

MsgRow   == [id : Nat, from : Clients, to : Clients,
             senderKey : Nat, receiverKey : Nat, mat : Nat]
AuditRow == [id : Nat, ok : BOOLEAN]
SnRow    == [ikeysn : Nat]

\* The rows of a SELECT wait in the connection until they are fetched.
Result   == [waiting : BOOLEAN, rows : (SUBSET SnRow) \cup (SUBSET KeyRow) \cup (SUBSET MsgRow)]
NoResult == [waiting |-> FALSE, rows |-> {}]

Tables == [sn : Nat, keys : SUBSET KeyRow, msgs : SUBSET MsgRow, audit : SUBSET AuditRow]

VARIABLES
  durable,    \* the committed tables
  work,       \* the tables as this session sees them
  inTxn,      \* a transaction is open
  result,     \* the result set to be fetched next, if any
  affected,   \* mysql_affected_rows is not 0 (after an error it is -1)
  up,         \* the link to the server works
  faults      \* failures so far (bounds the model)

sessionVars == <<durable, work, inTxn, result, affected, up, faults>>

\* The tables scripts/init_db.sql creates: key numbering starts at 1.
EmptyTables == [sn |-> 1, keys |-> {}, msgs |-> {}, audit |-> {}]

SessionInit ==
  /\ durable = EmptyTables
  /\ work = EmptyTables
  /\ inTxn = FALSE
  /\ result = NoResult
  /\ affected = FALSE
  /\ up = TRUE
  /\ faults = 0

SessionTypeOK ==
  /\ durable \in Tables
  /\ work \in Tables
  /\ inTxn \in BOOLEAN
  /\ result \in Result
  /\ affected \in BOOLEAN
  /\ up \in BOOLEAN
  /\ faults \in 0 .. MaxFaults
-----------------------------------------------------------------------------
(* What each kind of statement leaves behind when it executes.             *)

StartTransaction ==
  [durable |-> work, work |-> work, inTxn |-> TRUE, result |-> NoResult, affected |-> FALSE]

Commit ==
  [durable |-> work, work |-> work, inTxn |-> FALSE, result |-> NoResult, affected |-> FALSE]

Rollback ==
  [durable |-> durable, work |-> durable, inTxn |-> FALSE, result |-> NoResult, affected |-> FALSE]

\* An INSERT or UPDATE after which the session sees tables t; changed says
\* whether any row did.
Write(t, changed) ==
  [durable |-> IF inTxn THEN durable ELSE t, work |-> t,
   inTxn |-> inTxn, result |-> NoResult, affected |-> changed]

Select(rows) ==
  [durable |-> durable, work |-> work,
   inTxn |-> inTxn, result |-> [waiting |-> TRUE, rows |-> rows], affected |-> TRUE]
-----------------------------------------------------------------------------
(* mysql_query.                                                            *)

Ready == up /\ ~result.waiting

\* mysql_query returned 0: the statement had the effect e.
Executed(e) ==
  /\ Ready
  /\ durable' = e.durable
  /\ work' = e.work
  /\ inTxn' = e.inTxn
  /\ result' = e.result
  /\ affected' = e.affected
  /\ UNCHANGED <<up, faults>>

\* The library refuses: a result is still to be fetched, or the link is gone.
Unsendable == ~Ready /\ UNCHANGED sessionVars

\* The server refuses the statement and undoes it alone.
Denied ==
  /\ Ready
  /\ affected' = TRUE
  /\ UNCHANGED <<durable, work, inTxn, result, up>>

Rejected ==
  /\ Denied
  /\ faults < MaxFaults
  /\ faults' = faults + 1

\* The link drops while the statement is under way; what it would have made
\* durable may or may not be, and the caller cannot tell.
LinkLost(e) ==
  /\ Ready
  /\ faults < MaxFaults
  /\ faults' = faults + 1
  /\ durable' \in {durable, e.durable}
  /\ work' = durable'
  /\ inTxn' = FALSE
  /\ up' = FALSE
  /\ affected' = TRUE
  /\ UNCHANGED result

\* mysql_query returned non-zero for a statement with effect e.
Failed(e) == Unsendable \/ Rejected \/ LinkLost(e)

\* A ROLLBACK never changes what is durable and the server never refuses it.
RolledBack == Executed(Rollback) \/ Unsendable \/ LinkLost(Rollback)

\* mysql_store_result returns the waiting rows, or NULL when there are none or
\* the link drops on the way.
Fetched ==
  /\ result.waiting
  /\ result' = NoResult
  /\ affected' = (result.rows # {})
  /\ UNCHANGED <<durable, work, inTxn, up, faults>>

FetchFailed ==
  \/ ~result.waiting /\ UNCHANGED sessionVars
  \/ /\ result.waiting
     /\ faults < MaxFaults
     /\ faults' = faults + 1
     /\ result' = NoResult
     /\ work' = durable
     /\ inTxn' = FALSE
     /\ up' = FALSE
     /\ affected' = TRUE
     /\ UNCHANGED durable

\* The process that held the session is gone and a new one has connected.
Reconnected ==
  /\ faults < MaxFaults
  /\ faults' = faults + 1
  /\ work' = durable
  /\ inTxn' = FALSE
  /\ result' = NoResult
  /\ affected' = FALSE
  /\ up' = TRUE
  /\ UNCHANGED durable
=============================================================================
