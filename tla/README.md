# Verification of the encrypted-transmission demo

TLA+ models of the client/server demo in `src/`: key agreement, check and logout, sending and querying
encrypted messages, the MySQL session and the shared-memory key cache behind them, the epoll loop and
thread pool in front, and the exchange between client and server down to the bytes on the socket. TLC checks the models on small instances; TLAPS proves the most important properties
for every instance. Paths below are relative to `src/ServerSeckey/ServerSeckey/` unless they say otherwise.

## 1. Inventory

| Component | State it keeps | Operations | Hard because |
| --- | --- | --- | --- |
| Key lifecycle (`KeyLifecycle.h`, `seckeyinfo`, `keysn`) | one row per key ever issued: owner, number, state, bytes; the next number | agree (rotates the old key), revoke, expire | rows change through transactions that fail half-way; a final state must be final |
| MySQL session (`mysqlOP.cpp`) | committed tables, open transaction, pending result set, affected-row count, link | each `mysql_query`, `mysql_store_result`, `mysql_affected_rows` | one session for all threads, without a lock |
| Key cache (`SecKeyShm.cpp`, `BaseShm.cpp`) | slots of a System V segment; outlives the process | `shmWrite`, `shmRead`, `shmUpdateStatus` | a second copy of the table that may be stale; a full segment |
| Key operations (`ServerOP.cpp`) | nothing of its own | `seckeyAgree`, `secKeyCheck`, `SeckeyLogout` | many calls on session and cache, interleaved with other threads; crash in between |
| Message sending (`MessageService.cpp`) | nothing of its own | `handleSendMessage`, `getActiveKey` | two keys checked, then used; message and audit record are two statements |
| Message queries (`MessageQueryService.cpp`) | nothing of its own | `handleQueryMessage`, `handleQueryMessageList` | permission, listing and audit on the shared session |
| Thread pool (`ThreadPool.cpp`) | queue, mutex, condition variable, stop flag | `enqueue`, `worker`, destructor | lost and spurious wake-ups, shutdown |
| Connection dispatch (`ServerOP::startServer`, `EpollServer.cpp`) | epoll set, `m_processingFds` | accept, dispatch, `handleClientFd` | descriptor numbers are reused while events and tasks still name them; edge-triggered events |
| Framing (`TcpSocket.cpp`, both ends) | a socket; the kernel's buffers | `connectToHost`, `sendMsg`, `recvMsg`, `disconnect` | partial sends and reads, resets, SIGPIPE, reads without a timeout |
| Codecs (`V2RequestCodec`, `V2RespondCodec`, `MessageV2.pb.*`, both ends) | none | `initMessage`, `encodeMsg`, `decodeMsg`; serialising and parsing of 14 message types | default values vanish on the way; parsing stops half-way and nobody looks |
| Client (`ClientOP.cpp`, `MessageClient.cpp` in `src/ClientSecKey/ClientSecKey/`) | its own key cache with one node; the id of the last message sent | agree, check, logout, send, two queries | lost and late answers: client and server disagree about the key |
| Cryptography (`RsaCrypto.cpp`, `AesGcmCrypto.cpp`, ...) | `<id>_pub.pem`, one file to a client | sign, verify, encrypt, decrypt | agreements of one client share the file; results are empty on failure |
| Configuration, logging, `main`, `TcpServer` | none | input and output | nothing concurrent |

How they interact: a client opens one connection per operation, sends one frame and waits up to ten seconds
for one. The epoll loop accepts the connection and puts a task for its descriptor into the pool. A worker
reads the request, routes it (`processV2Request`) to a handler, sends the response and closes. Handlers of
all four workers share one `MYSQL*` and one segment, neither of them locked. The documentation
(`src/docs/current-architecture.md`) names the shared connection and says that in operation key agreement
and sending are done one after another; the models ask both what holds then, and what is left when two
threads are at work.

What makes it correct: a key leaves Active once and for good, a client has one Active key, and no number is
issued twice; table and cache agree; an answer SUCCESS is backed by committed rows; a message is stored only
under keys that are Active, and under the bytes that belong to the number it records; queries show stored
messages to their parties and miss none; every request is answered and every task is run once; a response
reaches the connection that asked; a frame arrives whole or not at all, and an exchange ends; the server
carries out what was asked and the client believes what was done; a client's cached key is one that was
issued to it, and what a client has switched off is over. The list of hazards, each at its line with the properties aimed at it, is in
`PROJECT.json`.

## 2. Modules

| Module | Stands for | Builds on |
| --- | --- | --- |
| `KeyStates` | key states, rows of `seckeyinfo`, updates over them | |
| `KeyLifecycle` | abstract specification: one atomic step per key operation | `KeyStates` |
| `SecKeyShm` | the cache operations as operators on slot arrays | `KeyStates` |
| `MySqlSession` | the session: variables, and what each call does when it works, is refused, or loses the link | `KeyStates` |
| `KeyServer` | the handlers of `ServerOP` and `MessageService`, interleaved | `SecKeyShm`, `MySqlSession`; implements `KeyLifecycle` |
| `MessageQuery` | the two queries on further threads, next to `KeyServer`'s | `KeyServer` |
| `ClientNode` | the clients, against the server as `KeyLifecycle` | `SecKeyShm`, `KeyLifecycle` |
| `ThreadPool` | the pool | |
| `FdDispatch` | epoll loop, descriptors, the pool's tasks as seen from a connection | |
| `RequestReply` | abstract specification: what the users of a connection see of an exchange | |
| `Framing` | `TcpSocket` at both ends, and the kernel between them | implements `RequestReply` |
| `MessageV2` | the protocol's messages as protoc's classes write and read them | |
| `V2Codec` | the two codecs, between business structures and bytes | `MessageV2` |
| `Exchange` | one client's operations end to end: `ClientOP`, `MessageClient`, the server's handlers | `Framing`, `V2Codec`; `KeyLifecycle` is its key table |
| `MCKeyServer`, `MCMessageQuery`, `MCExchange` | instances for TLC | |
| `*_proofs` | theorems and lemmas about the module of that name; `Exchange_proofs` also has those about `Framing`, `MessageV2` and `V2Codec` | TLAPS |

### From code to model

*Steps.* In `KeyServer` and `MessageQuery` a step is one call of libmysqlclient or one cache operation,
with the thread-local code up to the next: `pc[w]` is the program point, `job[w]` the handler's local
variables. So `writeSecKeyWithTrans` is `Begin, LockSn, FetchSn, LockKeys, FetchKeys, Rotate, Insert,
BumpSn, CommitTxn` with `RollBack` as its error path, and `Publish` is the `shmWrite` that follows. An error
path taken in the code by a return is the `Failed` disjunct of the same action. `Goto`, `Keep`, `Reply` and
`AuditThenReply` say where the handler goes on.

*The session.* `durable` is what is committed, `work` what the session sees; they differ only while
`inTxn`. As every thread uses the same session, row locks keep none of them out, `START TRANSACTION`
commits what is open, a SELECT whose result is not fetched makes the library refuse every other statement
(`Unsendable`), and `affected` tells about the last statement of any thread. A statement may be refused
(`Rejected`) or take the link down (`LinkLost`) with its effect applied or not; there is no reconnect
before `Restart`, which loses threads and session and keeps the tables and the segment.
libmysqlclient's calls are atomic here: two threads inside one call on the same handle are a data race, of
which the model has the outcomes in which the calls come one after the other.

*The cache.* `shmWrite` overwrites the client's slot or takes the first empty one; with none left it does
nothing, and the handler does not look. The server id is the same everywhere and left out.

*Keys and messages.* An AES key is the token `tok` of the agreement that made it. A message keeps its
sender and receiver, both key numbers, and the bytes it was encrypted under; that is all the properties
tell apart. Signature, encryption and decryption succeed or fail. Time is a set `lapsed` of keys whose 24
hours are over; what is written `expiretime > now` in SQL is membership in it. For queries the id of a
message stands for its `send_time`, `Burst` ids to the second; the order of messages of one second is open.

*Clients.* `ClientNode` takes one step to handle a request, which is `KeyLifecycle`'s step: `KeyServer` is
shown to implement it when requests are handled one at a time, and only then. A request stays on `wire`
until it is handled or lost, however long its client has given up; an answer is delivered only onto the
connection of its own request.

*Pool.* A worker is at `lock`, `test`, `block`, `asleep`, `woken`, `take`, `run` or `exit`; testing the
predicate and blocking are two steps, because `m_stop` is set without the mutex.

*Dispatch.* `file` is the descriptor table, `edge` and `bad` what epoll has to report, `batch` what
`epoll_wait` has returned. A request comes in two pieces, enough to stop in the middle of one.

*Framing.* `pc[c][e]` is where end `e` of connection `c` is, `left` what it has still to `send`, `flow`
what the kernel holds for it, `got` what `readn` has put together. The frame's four length bytes are two digits
to the base `Base`, so that the length can be cut in the middle and a wrong piece gives a wrong length; `writen`
and `readn` move any number of units that the buffer (`Room`) and the call (`Chunk`) allow. The kernel keeps
TCP's rules: end of file after an orderly close, a reset after a close with something unread or when data meets
a closed end, and nothing from a network gone silent. Either process may be killed; a send on a reset
connection kills the server, as nothing ignores SIGPIPE. `readWithTimeout` is the step from `sent` or `open` to
`read`; after it no timeout applies, though the comment at `ServerOP.cpp:156` has the socket non-blocking.

*Messages.* A written message is the sequence of its fields by name, with nothing in the place of one that has its
default value; tags and varints are the name and the value. Reading starts from the defaults, takes the last of a field written twice,
keeps presence for submessages only, drops a body when another arm of the oneof comes, and stops after a text
that is not UTF-8, which the writer has written nevertheless. `decodeRequest` and `decodeResponse` go on with
whatever was read, as `decodeMsg` does.

*Exchange.* The client runs its menu one operation at a time, operation `n` on connection `n`; the server may
still be busy with one the client has given up. Requests and responses are packets, written by `V2Codec` and
carried by `Framing`; each handler answers what it decoded. Keys and signatures are opaque texts related by
number. The public key's way through `<id>_pub.pem` has its four steps (opened and emptied, written, loaded,
used), as another agreement of the client may be at the same file. Tables are `KeyLifecycle`'s; that the server
may store something and still answer failure is a fault. The peer of a message is not a client of the model: its
key may be Active or not.

Definitions whose comment begins with "Mutant:" are not part of any specification: each is a defective
variant of the definition below it, kept to show that a property can fail.

## 3. Runs

| Run | Instance | Question | Result |
| --- | --- | --- | --- |
| `KeyServerSeq` | 3 clients, one of which only agrees, 2 slots, 1 worker, 4 requests, 2 faults or restarts, 1 expiry | is the server correct with requests one after another? | holds |
| `KeyServerPool` | 2 clients, 2 workers, 3 requests, 1 fault or restart, 1 expiry; clients and workers symmetric | what is left with two threads? | holds |
| `StaleCheck` | 1 client, 2 workers, 3 requests | does a check of an old key leave a new one alone? | violated |
| `SharedTxnNumbers` | 2 clients, 2 workers, 2 agreements | are numbers allocated serially? | violated |
| `SharedTxnLogout` | 2 clients, 2 workers, 3 requests, 1 fault | is a key once logged out never Active again? | violated |
| `Queries` | 3 clients, 1 worker, 1 reader, 4 requests, 1 query, 1 fault or restart, 1 expiry; the sender and the stranger ask | do queries show what they should, next to a handler? | holds |
| `Clients` | 2 clients, 4 requests, 1 database fault, any losses and expiries | can a client be misled about its key? | holds |
| `Pool` | 3 workers, 3 tasks, 1 spurious wake-up | is every task run, once? | holds |
| `PoolShutdown` | 2 workers, 1 task | does the destructor return? | violated |
| `Dispatch` | 2 connections, 2 descriptors, 2 workers, 1 error | one task per descriptor, response to the asker, no mark for ever? | holds |
| `LostEdge` | 2 connections, 1 descriptor, 1 worker | is every connection read? | violated |
| `Exchange` | 1 client, 2 operations, buffers of 1 unit, 1 fault | does an operation end, with both sides believing what happened? | holds |

### What the passing runs check

`KeyServerSeq`: `ImplementsLifecycle` (the committed tables follow `KeyLifecycle`), `CacheBackedByTable`,
`ActiveKeyUsable`, `SuccessIsDurable`, `AuditTellsTruth`, `StoredUnderActiveKeys`, `NoTransactionAtRest`,
`ResultHasOwner`, `EveryRequestAnswered`. With more clients than slots, `ActiveKeyUsable` says that a key is
unusable only for want of a slot, and that whoever has a slot keeps it. It is about behaviours without a failure, because a failed database check really does switch off the cached node of a
good key (`checkSecKey` returns the same for "not Active" and "could not look"), and a restart between
commit and publication really does leave a key the cache does not know.

`KeyServerPool`: `CommittedStatesFinal` (committed states only advance), `ResultHasOwner`,
`MessageKeyMatchesNumber`. What is in the first run and not in this one does not hold with two threads;
the violated runs show three reasons.

`Queries`: `ShownToItsParties` (what is shown was asked for, and the asker is a party of it), `ListShowsSent`
(a list misses no acknowledged message except for as many that are no older), `NotFoundMeansAbsent` (only for a
query during which no other thread uses the session: with another thread's result pending the SELECT is refused
and the answer is MSG_NOT_FOUND), `EveryQueryAnswered`; its type invariant includes that only checked queries
reach the database. `ListShowsSent` and `NotFoundMeansAbsent` are about behaviours in which no statement fails
by itself; one refused for the sake of another thread's result is not a failure, and happens. In this instance
messages fall into different seconds. What none of them says is that a message shown is committed, nor does
`SuccessIsDurable` hold next to a reader: while a query's result waits to be fetched, an agreement's next
statement is refused, and its ROLLBACK with it, which is only logged (`mysqlOP.cpp:171`). The transaction stays
open after the agreement is answered; a message sent next is stored inside it and its id returned, and only a
later agreement's `START TRANSACTION` commits it.

`Clients`: `LocalKeyIssued`, `OffMeansFinal`, `OnMeansUsable`, `OffStaysOff`. `OffMeansFinal` needs a working
database for the reason above; `OnMeansUsable` also needs every answer in time, since after a lost answer
the client may hold a key that has been rotated or revoked and learns it at its next check.

`Pool`: `PopFindsTask`, `HandedOutOnce`, `NoTaskSleptOn`, `EveryTaskRuns`. `Dispatch`: `OneTaskPerFd`,
`ResponseToAsker` (while epoll reports no error without EPOLLIN: such an event closes a descriptor a task
may still be using), `MarkIsTemporary`.

`Exchange`: `FrameIntact` (what `recvMsg` returns is the peer's payload, whole), `ImplementsRequestReply`,
`CarriedOutAsAsked` (SUCCESS only for exactly the packet that was asked, though a parse that stopped half-way is
dispatched by what there is), `SuccessMeansDone` (the client reports success only for what was done for this
request, and the id it offers to look up is of a stored message), `CachedKeyIssued` (number and bytes
in the client's cache are of one issued key, or the bytes are empty after a failure of the server's encryption),
`ExchangeEnds` (both ends finish, unless the network falls silent on a blocking read); its type invariant includes
that what is decoded is a packet of the protocol, whatever part of it was read.

### What the violated runs show

Each checks one sentence of a comment in the source; `PROJECT.json` quotes it under "findings".

- `StaleCheck`: `secKeyCheck` compares the node it copied before the database check, then switches off
  whatever the client's slot holds by then. An agreement in between loses its cache entry.
- `SharedTxnNumbers`: `FOR UPDATE` belongs to the session. A second agreement's `START TRANSACTION` commits the
  first's, both read one number, and two clients get it.
- `SharedTxnLogout`: a logout's UPDATE runs inside another thread's open transaction, is answered SUCCESS, and
  is undone by that transaction's rollback.
- `PoolShutdown`: between a worker's test of the predicate and its wait, the destructor sets the flag and
  notifies; the worker sleeps for ever and `join` does not return.
- `LostEdge`: `handleClientFd` closes the descriptor before `unmarkFdProcessing`. A connection accepted on the
  same number in between has its only event dropped.

### Bounds

`MaxReq`, `MaxQuery`, `MaxFaults`, `MaxLapse`, `MaxTasks`, `MaxSpurious`, `MaxErr` and `MaxFd` bound
counters; nothing in the actions' effect depends on them. Four requests are enough for agree, use, rotate or
revoke, use again, or for both clients to agree and two messages to be sent; the three of
`KeyServerPool` are an agreement, a message to oneself and another agreement that overtakes it, and what it checks is proved for
any number; two faults for a failed
statement whose rollback fails too, or a failure and a restart. Two threads suffice for every
interleaving found, as each hazard involves a reader and one writer of the shared session or cache.
`KeyServerSeq` has a client more than slots; the others have a slot for every client that agrees, as the example
configuration has (100). One query follows any history of the others: readers share
nothing but the session, which the worker of the run already disturbs; and the safety properties of `Queries` are
proved for any number of readers and queries. Three workers and three tasks let one
thread take a task for which another has been woken, with a third asleep. Two connections and two
descriptors let a number be reused or not. Two operations let one be given up and overlap with the next, and
use what the first has left; buffers and reads of one unit cut a frame at every place, its length included, and the
theorems about `Framing` and `Exchange` are for all sizes and any number of operations.

Deadlock is checked in all runs but `Pool` and `PoolShutdown`, where the pool may stop before all tasks that
the bound allows have been enqueued. A bounded behaviour that is complete stutters by a named action (`Done`,
`AllDone`, `Rest`) that states completeness, so a state where someone waits for ever is a deadlock.

### Fairness

- `KeyServer`, `MessageQuery`: weak fairness of each thread's handler: a thread of the pool is
  scheduled, and every library call returns. Taking a request, expiry, failures and restarts are not fair.
- `ThreadPool`: weak fairness of each worker's steps and of the owner's notifications and join; not of
  enqueueing, of destroying the pool, or of spurious wake-ups. Nobody is promised the mutex under contention.
- `FdDispatch`: weak fairness of the epoll loop and of each task's steps. Clients need not send, go on, or
  hang up, so a property has to allow for threads that wait for them.
- `Exchange`: weak fairness of each connection's client socket and server socket, and a thread that has a message
  comes to an end with it, since nothing it does then waits on the other end. Nobody has to begin an operation, to
  fail, or to be killed.
- `KeyLifecycle`, `RequestReply` and `ClientNode` have safety properties only and assume none.

## 4. Proofs

All theorems hold for every value of the constants; the only assumptions are those the modules name:
`NoClient` is no client, `MaxNode` is a positive number, the bounds are numbers, requests are requests; for
the lifecycle, key bytes are numbers; for frames, `NoPayload` is no payload, a digit's base is above one, and
buffers and reads have room for a unit; for messages, operations are numbered from 1, a text that is not UTF-8 is no
other, and an absent submessage is none that is present. The `Serial` theorems also assume one thread, the `ExchangeSpec`
theorems that frames can carry packets, both as said below the table.

| Theorem | Says | Argument |
| --- | --- | --- |
| `LifecycleSafe` | one Active key per client, numbers unique | inductive: types, `OneActiveKey`, `NumbersUnique`; an agreement rotates every Active row of the client and uses a number above all |
| `LifecycleStatesAdvance` | final states are final, rows are kept | every step is `SetState` from Active rows, plus a row |
| `KeyServerTypes` | `TypeOK` | with the next two |
| `KeyServerStatesFinal` | `CommittedStatesFinal` | `Advances(durable.keys, work.keys)` is invariant: what is committed can only be advanced by what is pending; a commit then is an advance, a rollback none |
| `KeyServerResultOwned` | `ResultHasOwner` | `result.waiting` exactly while one handler is at a fetch point; every other statement is refused meanwhile |
| `KeyServerMessageMatches` | `MessageKeyMatchesNumber`, for any number of threads | every cached node, and every node a handler carries, is vouched for by an answered agreement with that client, number and bytes; nothing but a handler's INSERT brings a message in |
| `SerialLifecycle` | with one thread, `ImplementsLifecycle` | the invariant `SerialInv`: at each point of an agreement the session sees the committed tables with just the steps done so far; so COMMIT is a step of `KeyLifecycle`, and every other step one of its steps or none |
| `SerialNoTransaction` | with one thread, `NoTransactionAtRest` | `SerialInv`: only an agreement under way, or its rollback, has a transaction open |
| `SerialCacheBacked`, `SerialSuccessDurable` | with one thread, `CacheBackedByTable` and `SuccessIsDurable` | what a handler is about to publish or to answer is in the committed tables already, and committed rows only advance |
| `SerialAuditTellsTruth` | with one thread, `AuditTellsTruth` | a handler that is to write "stored" has its message committed, one that is to write "failed" has none, and no other handler brings it in |
| `SerialStoredUnderActiveKeys` | with one thread, `StoredUnderActiveKeys` | what a handler knows of both keys at each point of a sending: checked Active in the committed tables, where only an expiry or another handler could end them |
| `SerialActiveKeyUsable` | with one thread, `ActiveKeyUsable` | `ServeInv`, see below |
| `PoolTypes`, `PoolPopFindsTask`, `PoolHandsOutOnce`, `PoolNoTaskSleptOn` | the safety properties of `Pool` | who holds the mutex is who is between test and take; asleep threads hold no task; `tasks` is the numbers from the first not handed out to the last enqueued, so that no task is lost or repeated; a queue that is not empty has a thread awake or the owner about to notify |
| `ClientTypes`, `ClientKeyIssued`, `ClientOffMeansFinal`, `ClientOffStaysOff` | `TypeOK`, `LocalKeyIssued`, `OffMeansFinal`, `OffStaysOff` | every answer and request under way, not only every cache, carries a key issued to its client, and a cached node that is off, or an answer that will switch it off, is of a key that is over |
| `ClientOnMeansUsable` | `OnMeansUsable` | as long as nothing is given up, a client has at most the one request under way that it waits on, and a key that is on is the client's latest until the answer is there that replaces it |
| `DispatchTypes`, `DispatchOneTaskPerFd`, `DispatchResponseToAsker` | the safety properties of `Dispatch` | `m_processingFds` is exactly the descriptors of queued and of running tasks, and those are all different; from that, as long as the loop closes no descriptor by itself, the descriptor of a task that is reading or sending stays the one of the connection it read from |
| `QueryTypesHold`, `QueryShownToParties` | `QueryTypeOK`, `ShownToItsParties`, for any number of threads of either kind and any failures | the invariant of `KeyServerResultOwned` extended to readers: the result that waits is the one its owner selected, so it fits its query |
| `SerialListShowsSent`, `SerialNotFoundMeansAbsent` | with one handler thread and any number of readers, `ListShowsSent` and `NotFoundMeansAbsent` | `FoundInv`, see below |
| `FramingSpec_FrameIntact`, `FramingSpec_RequestReply` | a frame arrives whole or not at all; `Framing` implements `RequestReply` | inductive: for each direction of each connection, what was read, what is under way and what is still to write make up the frame, as long as neither end has closed; a complete reading is then the whole frame, since its first two digits are its length |
| `ExchangeSpec_TypeOK`, `ExchangeSpec_CarriedOutAsAsked`, `ExchangeSpec_SuccessMeansDone`, `ExchangeSpec_CachedKeyIssued` | `Exchange`'s own safety properties, for any number of operations, buffers and faults | `EInv`, see below |
| `ExchangeSpec_RequestReply` | `FrameIntact` and `ImplementsRequestReply` for `Exchange` as a whole | each step of `ExchangeNext` is a step of `FramingNext`, with the encoding of a packet as its payload, or leaves the connections alone |

`KeyServer_proofs` has the invariant in four parts (session, cache, control, owner of the result), each with a
lemma per action; its first section says what each call of the session leaves of the session's invariant. Its
second half, from ONE THREAD on, holds the `Serial` theorems. `SecKeyShm_proofs`
holds the lemmas on `Advances` and `SetState`, and on the slots after a write or a status update.

`ServeInv` has three parts. The request under way is newer than all that were answered (`Tokens`). A client has at
most one slot, only clients that agreed on a key have one, and whoever agreed and has none came after all that have
(`Placed`). As long as nothing failed, every Active key is in its client's slot or about to be written there, and what a
handler is about to switch off serves no Active key (`Serving`). From there `ActiveKeyUsable` is a matter of counting: a
client without a slot has `MaxNode` clients before it (`NoRoom`), one with a slot has fewer (`Room`), by the theorems on
finite sets.

The `Serial` theorems have the hypothesis `OneThread == \A v, w \in Workers : v = w`, which is how
`KeyServerSeq` and `Queries` check the same properties. The hypothesis is needed: the code's pool has four threads
(`ServerOP.cpp:96`), any of which may be the only one at work, and `StaleCheck`, `SharedTxnNumbers` and `SharedTxnLogout` show what two of them do to the shared session. What
holds for any number of threads is in the first half of `KeyServer_proofs` and of `MessageQuery_proofs`.

`FoundInv` is about what the session sees (`work`), not about what is committed: next to a reader a message
answered SUCCESS may not be committed when a query lists it, and the `Transaction` part of `SerialInv`, from which
`NoTransactionAtRest` follows, is lost. What remains true while nothing fails by itself is that a transaction a
message was stored in is never rolled back: the agreement that left it open is over, and the next one begins with
a `START TRANSACTION`, which commits it. So the session never loses sight of a message, and a query owes to the
messages acknowledged when it came that its rows, once selected, hold them or as many that are no older.

`EInv` says of each connection what the packet means that an end has given to send, read as its peer would read it,
and the invariant of the frames says that this is what the peer has taken, whole or not at all. What the client has sent reads as its
operation's packet or as a header without a body (`Asking`): the only text of a header the user has typed is the receiver,
and where it is not UTF-8 the reading stops in the header, before any body. A response reads as it was built, except that a
query's answer may stop at a garbled id behind its code. One that reports success is to the operation's own packet; a key number and
data in it are those of a row of the table, encrypted with the operation's own public key, or empty after a fault; a message id
in it is of a stored message (`Answering`, `Delivers`). A thread encrypts only with a key that verified the signature of its request, so whatever
another agreement has put into the file meanwhile, it is the operation's own. Rows and messages stay (`Grows`), and what was said of a
response remains true until the client reads it.

That a packet reads as it was written rests on the lemmas about `Emit` and `Scan` of `MessageV2`: a message whose texts are all UTF-8
is read back as it was (`RoundTrip`), and of any other the fields in front of the first text that is not (`ScanValue`). They are stated
for any list of fields and used for each of the eleven classes with plain fields, and from there for the list of messages and the packets.

The `ExchangeSpec` theorems have the hypothesis `PacketPiece \subseteq Units`: what frames are cut into includes
whatever the codecs can write. `MCExchange` takes exactly that set; the code frames any string of bytes.

Only model-checked: liveness (`EveryRequestAnswered`, `EveryQueryAnswered`, `EveryTaskRuns`, `MarkIsTemporary`,
`ExchangeEnds`), which is out of the prover's reach. Every safety property of the passing runs is also proved, for one handler
thread where the table says so. Recursion is likewise out of the prover's reach; none of the modules uses it.

## 5. Not modelled

- Configuration, logging, `main`: input and output without shared state. `TcpServer`: nothing calls it. `writeSecKey`,
  `getKeyId`, `updateKeyId` of `mysqlOP`, `shmInit`: likewise unused.
- The algorithms of OpenSSL, Base64 and hashes; tags, varints and unknown fields of the wire format, reflection and
  copying in the generated classes; the vendored JSON headers.
- Torn copies of a cache node and the shared `m_shmAddr`; times written with `localtime`; destruction order of
  `ServerOP`'s members; a segment that cannot be mapped.
- Two processes of one client id; the Winsock branches of `TcpSocket`; a failing `epoll_wait`.

## 6. Plan

Done, in this order: the key core (`KeyStates`, `KeyLifecycle`, `SecKeyShm`, `MySqlSession`, `KeyServer`) with its
refinement, then the pool, dispatch, clients, queries, and the proofs about the first, second and fourth; then `Framing` with
`RequestReply` and its proofs, the messages and codecs, `Exchange`, a segment with fewer slots than clients, and
for one thread the refinement of `KeyLifecycle` and what a client may rely on, proved. Then the proofs
about `FdDispatch`, the rest of `ClientNode`, `MessageQuery`, and the codecs and `Exchange`.

What could follow:

1. The cache with copies that are not atomic.
2. `Exchange` with two clients that write to each other, over `KeyServer` instead of `KeyLifecycle`; its key table
   would then follow from `SerialLifecycle` instead of being it.
