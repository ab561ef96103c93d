------------------------------ MODULE Exchange ------------------------------
(***************************************************************************)
(* One client's operations from its menu to the server's tables and back:  *)
(* ClientOP and MessageClient build requests and act on the responses,     *)
(* processV2Request, the key operations and the message services answer    *)
(* them, V2Codec and MessageV2 turn them into bytes, Framing carries them. *)
(*                                                                         *)
(* The client runs one operation after another, each on a connection of    *)
(* its own, and may give one up while the server is still busy with it: so *)
(* the server can have several requests of one client at once.  The        *)
(* server's key table is KeyLifecycle, which KeyServer implements.         *)
(***************************************************************************)
EXTENDS Framing, V2Codec

\* The n-th operation uses connection n.
ASSUME ConnsAssumption == IsFiniteSet(Conns) /\ Conns = 1 .. Cardinality(Conns)

\* What texts are made of here: words, and numbers where there are several of a kind.
Words == {"A", "B", "S", "note", "nonce", "tag", "AES-128-GCM", "text",
          "aes", "gcm", "rsa", "pub", "sig"}
Texts == Seq(Words \cup Nat \cup {NotUtf8})

ASSUME NotUtf8Assumption == NotUtf8 \notin Words \cup Nat
ASSUME NotSetAssumption ==
  NotSet \notin [Names(HeaderFields) -> Texts \cup Nat]
                \cup [Names(EncryptedMessageFields) -> Texts \cup Nat]

\* The pieces a written message can have, without submessages and with, and those of a
\* packet, which are what frames carry: Units has them all.
Name == {"message", "messages"} \cup
  UNION {Names(f) : f \in
    {HeaderFields, EncryptedMessageFields, QueryMessageRequestFields,
     QueryMessageListRequestFields, KeyAgreementRequestFields, KeyCheckRequestFields,
     KeyLogoutRequestFields, SendMessageResponseFields, QueryMessageResponseFields,
     MessageSummaryFields, KeyOperationResponseFields}}
SimplePiece == {<<>>} \cup (Name \X (Texts \cup Nat))
Piece == SimplePiece \cup (Name \X Seq(SimplePiece))
PacketPiece == ({"header"} \cup RequestCases \cup ResponseCases) \X Seq(Piece)

VARIABLES
  call,        \* the request packet of an operation
  succeeded,   \* operations the client has reported as successful
  cache,       \* the client's node of shared memory
  lastId,      \* m_lastServerMessageId
  sn, keys,    \* the server's key tables, as in KeyLifecycle
  pem,         \* what the file <id>_pub.pem holds
  stage,       \* how far a thread is with an agreement's file
  rsa,         \* the public key a thread has loaded from it
  log,         \* the messages stored, in their order
  done         \* history: the packet a thread has handled, and the code it answered

Server == INSTANCE KeyLifecycle WITH Clients <- {"A"}, KeyBytes <- {0} \cup Conns

clientVars == <<call, succeeded, cache, lastId>>
tableVars == <<sn, keys, log>>
fileVars == <<pem, stage, rsa>>
serverVars == <<tableVars, fileVars, done>>
vars == <<framingVars, clientVars, serverVars>>

\* Ids, as texts.
Client == <<"A">>
Friend == <<"B">>
Host == <<"S">>
Garbled == <<NotUtf8>>

Note == <<"note">>
Now == 1

\* A thread has come to no result yet.
Pending == [request |-> NotSet, code |-> 0]

\* The client has a key from an earlier agreement.
ExchangeInit ==
  /\ FramingInit
  /\ call = [c \in Conns |-> NotSet]
  /\ succeeded = {}
  /\ lastId = <<>>
  /\ sn = 2
  /\ keys = {[client |-> "A", key |-> 1, state |-> "Active", mat |-> 0]}
  /\ cache = [key |-> 1, bytes |-> <<"aes", 0>>, status |-> 1]
  /\ pem = <<>>
  /\ stage = [c \in Conns |-> "start"]
  /\ rsa = [c \in Conns |-> <<>>]
  /\ log = <<>>
  /\ done = [c \in Conns |-> Pending]
-----------------------------------------------------------------------------
(* Cryptography, as relations between opaque texts.  The n-th operation's  *)
(* key pair is n, the session key generated for it has bytes n.            *)

PublicKey(n) == <<"pub", n>>

rsaSign(n) == <<"sig", n>>

\* Only the key pair's own public key verifies its signature.
rsaVerify(pub, sign, text) == \E n \in Conns :
  pub = PublicKey(n) /\ text = PublicKey(n) /\ sign = rsaSign(n)

rsaPublicEncrypt(pub, bytes) == <<"rsa", pub[2], bytes[2]>>

\* What does not decrypt gives no text.
rsaPrivateDecrypt(n, data) ==
  IF Len(data) = 3 /\ data[2] = n THEN <<"aes", data[3]>> ELSE <<>>

encryptText(bytes) == <<"gcm", bytes[2]>>

decrypts(bytes, ciphertext) == ciphertext = encryptText(bytes)
-----------------------------------------------------------------------------
(* The client begins an operation.                                         *)

buildHeader(c, command, to) ==
  [messageId |-> <<"A", c>>, command |-> command, senderId |-> Client,
   receiverId |-> to, timestamp |-> Now]

\* Earlier operations are over.
AtMenu(c) == \A d \in 1 .. c - 1 : Closed(d, "client")

\* Connect and send.
Request(c, p) ==
  /\ Ask(c, encodeRequest(p))
  /\ call' = [call EXCEPT ![c] = p]
  /\ UNCHANGED <<succeeded, cache, lastId, serverVars>>

\* A new key pair is generated for every agreement.
keyAgreement(c) ==
  /\ AtMenu(c)
  /\ Request(c, initKeyAgreementRequest(
       [header |-> buildHeader(c, CMD_KEY_AGREE_REQ, Host),
        publicKey |-> PublicKey(c), sign |-> rsaSign(c)]))

keyVerification(c) ==
  /\ AtMenu(c) /\ cache.status # 0
  /\ Request(c, initKeyCheckRequest(
       [header |-> buildHeader(c, CMD_KEY_CHECK_REQ, Host), keyId |-> cache.key]))

keyLogout(c) ==
  /\ AtMenu(c) /\ cache.status = 1
  /\ Request(c, initKeyLogoutRequest(
       [header |-> buildHeader(c, CMD_KEY_LOGOUT_REQ, Host), keyId |-> cache.key]))

\* The receiver is whatever the user typed.  An empty key cannot be decoded.
sendTextMessage(c, to) ==
  /\ AtMenu(c) /\ cache.status = 1 /\ cache.bytes # <<>>
  /\ Request(c, initSendMessageRequest(
       [header |-> buildHeader(c, CMD_SEND_MSG_REQ, to),
        message |-> [keyId |-> cache.key, msgType |-> MSG_TYPE_TEXT,
                     ciphertext |-> encryptText(cache.bytes), nonce |-> <<"nonce">>,
                     tag |-> <<"tag">>, algorithm |-> <<"AES-128-GCM">>]]))

queryMessage(c, id) ==
  /\ AtMenu(c) /\ id # <<>>
  /\ Request(c, initQueryMessageRequest(
       [header |-> buildHeader(c, CMD_QUERY_MSG_REQ, Host), serverMessageId |-> id]))

\* The client itself refuses limits outside 1 .. 100.
queryRecentMessages(c, sender, limit) ==
  /\ AtMenu(c)
  /\ Request(c, initQueryMessageListRequest(
       [header |-> buildHeader(c, CMD_QUERY_MSG_LIST_REQ, Host),
        senderId |-> sender, limit |-> limit]))

\* The user picks an operation; the menu proposes the last message's id and the
\* client's own list.
Menu(c) ==
  \/ keyAgreement(c) \/ keyVerification(c) \/ keyLogout(c)
  \/ \E to \in {Friend, Garbled} : sendTextMessage(c, to)
  \/ queryMessage(c, IF lastId = <<>> THEN Garbled ELSE lastId)
  \/ queryRecentMessages(c, Client, 1)
-----------------------------------------------------------------------------
(* The server answers.                                                     *)

(* p is the packet a thread has decoded on connection c.                   *)

Handled(c) == decodeRequest(took[c]["server"])

\* buildKeyResponseHeader, buildResponseHeader.
responseHeader(p, command) ==
  LET h == p.header
  IN  [messageId |-> IF h = NotSet THEN <<>> ELSE h.message_id, command |-> command,
       senderId |-> Host, receiverId |-> IF h = NotSet THEN <<>> ELSE h.sender_id,
       timestamp |-> Now]

Respond(c, p, r) ==
  /\ Reply(c, encodeResponse(r))
  /\ done' = [done EXCEPT ![c] = [request |-> p, code |-> r.body.code]]
  /\ stage' = [stage EXCEPT ![c] = "start"]
  /\ rsa' = [rsa EXCEPT ![c] = <<>>]
  /\ UNCHANGED <<clientVars, pem>>

makeKeyResponse(p, command, code, keyId, data) ==
  initKeyOperationResponse(
    [header |-> responseHeader(p, command), code |-> code, message |-> Note,
     keyId |-> keyId, data |-> data])

\* What the thread calls works, or it does not.
Works == UNCHANGED faults

RespondKey(c, p, command, code, keyId, data) ==
  Respond(c, p, makeKeyResponse(p, command, code, keyId, data))

\* An agreement's public key goes through a file named after the client: another
\* agreement of the client may be at the same file.
FileStep(c, p, from, to) ==
  /\ p.body_case = "key_agree_req"
  /\ stage[c] = from
  /\ stage' = [stage EXCEPT ![c] = to]
  /\ UNCHANGED <<framingVars, clientVars, tableVars, done>>

openPem(c, p) == FileStep(c, p, "start", "opened") /\ pem' = <<>> /\ UNCHANGED rsa

flushPem(c, p) ==
  /\ FileStep(c, p, "opened", "written")
  /\ pem' = p.body.public_key
  /\ UNCHANGED rsa

loadPem(c, p) ==
  /\ FileStep(c, p, "written", "loaded")
  /\ rsa' = [rsa EXCEPT ![c] = pem]
  /\ UNCHANGED pem

\* The key is not what the signature was made with, or not a key: the signature
\* fails, or the missing key kills the process.
refuseAgreement(c, p) ==
  LET req == p.body
  IN  /\ p.body_case = "key_agree_req" /\ stage[c] = "loaded"
      /\ ~rsaVerify(rsa[c], req.sign, req.public_key)
      /\ \/ /\ RespondKey(c, p, CMD_KEY_AGREE_RESP, RESULT_KEY_AGREE_FAILED, 0, <<>>)
            /\ UNCHANGED <<tableVars, faults>>
         \/ /\ rsa[c] = <<>>
            /\ HandlerCrashes(c)
            /\ UNCHANGED <<clientVars, serverVars>>

\* Mutant: the key is encrypted with what the file holds by now.
grantAgreementReread(c, p) ==
  LET req == p.body
      sealed == rsaPublicEncrypt(IF pem = <<>> THEN rsa[c] ELSE pem, <<"aes", c>>)
  IN  /\ p.body_case = "key_agree_req" /\ stage[c] = "loaded"
      /\ rsaVerify(rsa[c], req.sign, req.public_key)
      /\ UNCHANGED log
      /\ \/ /\ Server!Agree("A", c)
            /\ \/ /\ RespondKey(c, p, CMD_KEY_AGREE_RESP, RESULT_SUCCESS, sn, sealed) /\ Works
               \/ /\ RespondKey(c, p, CMD_KEY_AGREE_RESP, RESULT_SUCCESS, sn, <<>>) /\ Fault
         \/ /\ Server!Agree("A", c) \/ UNCHANGED <<sn, keys>>
            /\ RespondKey(c, p, CMD_KEY_AGREE_RESP, RESULT_KEY_AGREE_FAILED, 0, <<>>) /\ Fault

\* The new key is encrypted for the client, or the encryption fails and leaves an
\* empty text; then it is stored, or the database fails with the key stored or not.
grantAgreement(c, p) ==
  LET req == p.body
      sealed == rsaPublicEncrypt(rsa[c], <<"aes", c>>)
  IN  /\ p.body_case = "key_agree_req" /\ stage[c] = "loaded"
      /\ rsaVerify(rsa[c], req.sign, req.public_key)
      /\ UNCHANGED log
      /\ \/ /\ Server!Agree("A", c)
            /\ \/ /\ RespondKey(c, p, CMD_KEY_AGREE_RESP, RESULT_SUCCESS, sn, sealed) /\ Works
               \/ /\ RespondKey(c, p, CMD_KEY_AGREE_RESP, RESULT_SUCCESS, sn, <<>>) /\ Fault
         \/ /\ Server!Agree("A", c) \/ UNCHANGED <<sn, keys>>
            /\ RespondKey(c, p, CMD_KEY_AGREE_RESP, RESULT_KEY_AGREE_FAILED, 0, <<>>) /\ Fault

\* The client's Active row with this number.
Row(n) == {r \in keys : r.key = n /\ r.state = "Active"}

secKeyCheck(c, p) ==
  LET n == p.body.key_id
  IN  /\ p.body_case = "key_check_req"
      /\ UNCHANGED tableVars
      /\ \/ /\ RespondKey(c, p, CMD_KEY_CHECK_RESP,
                          IF Row(n) # {} THEN RESULT_SUCCESS ELSE RESULT_KEY_INVALID, n, <<>>)
            /\ Works
         \/ RespondKey(c, p, CMD_KEY_CHECK_RESP, RESULT_KEY_INVALID, n, <<>>) /\ Fault

SeckeyLogout(c, p) ==
  LET n == p.body.key_id
  IN  /\ p.body_case = "key_logout_req"
      /\ UNCHANGED log
      /\ \/ /\ \E r \in Row(n) : Server!Revoke(r)
            /\ \/ RespondKey(c, p, CMD_KEY_LOGOUT_RESP, RESULT_SUCCESS, n, <<>>) /\ Works
               \/ RespondKey(c, p, CMD_KEY_LOGOUT_RESP, RESULT_KEY_LOGOUT_FAILED, n, <<>>) /\ Fault
         \/ /\ UNCHANGED <<sn, keys>>
            /\ RespondKey(c, p, CMD_KEY_LOGOUT_RESP, RESULT_KEY_LOGOUT_FAILED, n, <<>>)
            /\ \/ Row(n) = {} /\ Works
               \/ Fault

RespondSend(c, p, code, id, status) ==
  Respond(c, p, initSendMessageResponse(
    [header |-> responseHeader(p, CMD_SEND_MSG_RESP), code |-> code, message |-> Note,
     serverMessageId |-> id, serverTime |-> Now, deliveryStatus |-> status]))

\* validateRequest
ValidSend(p) ==
  LET m == p.body.message
  IN  /\ p.header # NotSet /\ m # NotSet
      /\ p.header.sender_id # <<>> /\ p.header.receiver_id # <<>>
      /\ m.key_id > 0 /\ m.ciphertext # <<>> /\ m.algorithm # <<>>

\* The id of the message a thread stores.
MessageId(c) == <<"S", c>>

\* handleSendMessage.  A message is stored only under the sender's Active key, with
\* which it can be decrypted, and for a receiver that has one too: the friend may
\* or may not, and the server's cache may lack either.
handleSendMessage(c, p) ==
  LET m == p.body.message
      record == [id |-> MessageId(c), receiver |-> p.header.receiver_id, key |-> m.key_id]
  IN  /\ p.body_case = "send_msg_req"
      /\ UNCHANGED <<sn, keys>>
      /\ \/ /\ ValidSend(p)
            /\ \E r \in Row(m.key_id) : decrypts(<<"aes", r.mat>>, m.ciphertext)
            /\ p.header.receiver_id = Friend
            /\ log' = Append(log, record)
            /\ \/ RespondSend(c, p, RESULT_SUCCESS, record.id, DELIVERY_ACCEPTED) /\ Works
               \/ RespondSend(c, p, RESULT_FAILED, <<>>, DELIVERY_REJECTED) /\ Fault
         \/ /\ UNCHANGED log
            /\ RespondSend(c, p, IF ValidSend(p) THEN RESULT_FAILED ELSE RESULT_INVALID_REQUEST,
                           <<>>, DELIVERY_REJECTED)
            /\ Works

\* A packet without a body: reading it stopped before.
refuseUnknown(c, p) ==
  /\ p.body_case = BODY_NOT_SET
  /\ UNCHANGED tableVars
  /\ RespondSend(c, p, RESULT_INVALID_REQUEST, <<>>, DELIVERY_REJECTED)
  /\ Works

RespondQuery(c, p, code, id, receiver, key) ==
  LET found == code = RESULT_SUCCESS
  IN  Respond(c, p, initQueryMessageResponse(
        [header |-> responseHeader(p, CMD_QUERY_MSG_RESP), code |-> code,
         message |-> Note, serverMessageId |-> id,
         senderId |-> IF found THEN Client ELSE <<>>, receiverId |-> receiver, keyId |-> key,
         msgType |-> IF found THEN <<"text">> ELSE <<>>,
         sendTime |-> IF found THEN Now ELSE 0, status |-> IF found THEN 1 ELSE 0]))

\* handleQueryMessage: all messages in the log are the client's own.
handleQueryMessage(c, p) ==
  LET id == p.body.server_message_id
      found == {m \in ToSet(log) : m.id = id}
  IN  /\ p.body_case = "query_msg_req"
      /\ UNCHANGED tableVars
      /\ \/ /\ \E m \in found : RespondQuery(c, p, RESULT_SUCCESS, id, m.receiver, m.key)
            /\ Works
         \/ /\ RespondQuery(c, p, RESULT_MSG_NOT_FOUND, id, <<>>, 0)
            /\ \/ found = {} /\ Works
               \/ Fault

RespondList(c, p, code, messages) ==
  LET item(m) == [serverMessageId |-> m.id, senderId |-> Client, receiverId |-> m.receiver,
                  keyId |-> m.key, msgType |-> <<"text">>, sendTime |-> Now, status |-> 1]
  IN  Respond(c, p, initQueryMessageListResponse(
        [header |-> responseHeader(p, CMD_QUERY_MSG_LIST_RESP), code |-> code,
         message |-> Note, messages |-> [i \in 1 .. Len(messages) |-> item(messages[i])]]))

\* validateQueryListRequest, and whether it is the client's own list.
ValidList(p) ==
  /\ p.header # NotSet /\ p.header.sender_id # <<>>
  /\ p.body.sender_id = p.header.sender_id
  /\ p.body.limit > 0 /\ p.body.limit <= 100

\* handleQueryMessageList: the newest messages first.
handleQueryMessageList(c, p) ==
  LET newest == SubSeq(Reverse(log), 1, Min({Len(log), p.body.limit}))
  IN  /\ p.body_case = "query_msg_list_req"
      /\ UNCHANGED tableVars
      /\ IF ValidList(p)
         THEN \/ RespondList(c, p, RESULT_SUCCESS, newest) /\ Works
              \/ RespondList(c, p, RESULT_FAILED, <<>>) /\ Fault
         ELSE RespondList(c, p, RESULT_INVALID_REQUEST, <<>>) /\ Works

processV2Request(c) ==
  /\ pc[c]["server"] = "have"
  /\ \E p \in {Handled(c)} :
       \/ openPem(c, p) \/ flushPem(c, p) \/ loadPem(c, p)
       \/ refuseAgreement(c, p) \/ grantAgreement(c, p)
       \/ secKeyCheck(c, p) \/ SeckeyLogout(c, p)
       \/ handleSendMessage(c, p) \/ handleQueryMessage(c, p) \/ handleQueryMessageList(c, p)
       \/ refuseUnknown(c, p)
-----------------------------------------------------------------------------
(* The client acts on the response.                                        *)

(* r is the packet the client has decoded on connection c.                 *)

Answered(c) == decodeResponse(took[c]["client"])

\* The response body each operation needs; any other is an error.
Wanted ==
  [key_agree_req |-> "key_op_resp", key_check_req |-> "key_op_resp",
   key_logout_req |-> "key_op_resp", send_msg_req |-> "send_msg_resp",
   query_msg_req |-> "query_msg_resp", query_msg_list_req |-> "query_msg_list_resp"]

Told(c, r) == r.body_case = Wanted[call[c].body_case]

Good(c, r) == Told(c, r) /\ r.body.code = RESULT_SUCCESS

\* An operation of this kind has its response, and is over.
Conclude(c, case, ok) ==
  /\ call[c].body_case = case
  /\ Disconnect(c, "client")
  /\ succeeded' = IF ok THEN succeeded \cup {c} ELSE succeeded
  /\ UNCHANGED <<call, serverVars>>

\* The key goes into the cache as it was decrypted.
agreementAnswered(c, r) ==
  LET a == r.body
  IN  /\ Conclude(c, "key_agree_req", Good(c, r))
      /\ cache' = IF Good(c, r)
                  THEN [key |-> a.key_id, bytes |-> rsaPrivateDecrypt(c, a.data), status |-> 1]
                  ELSE cache
      /\ UNCHANGED lastId

\* Mutant: the server's number for Revoked is written as the status.
verificationAnsweredState(c, r) ==
  /\ Conclude(c, "key_check_req", Good(c, r))
  /\ cache' = IF Told(c, r) /\ ~Good(c, r) THEN [cache EXCEPT !.status = 2] ELSE cache
  /\ UNCHANGED lastId

verificationAnswered(c, r) ==
  /\ Conclude(c, "key_check_req", Good(c, r))
  /\ cache' = IF Told(c, r) /\ ~Good(c, r) THEN [cache EXCEPT !.status = 0] ELSE cache
  /\ UNCHANGED lastId

logoutAnswered(c, r) ==
  /\ Conclude(c, "key_logout_req", Good(c, r))
  /\ cache' = IF Good(c, r) THEN [cache EXCEPT !.status = 0] ELSE cache
  /\ UNCHANGED lastId

sendAnswered(c, r) ==
  /\ Conclude(c, "send_msg_req", Good(c, r))
  /\ lastId' = IF Good(c, r) THEN r.body.server_message_id ELSE lastId
  /\ UNCHANGED cache

\* Mutant: a response of the right kind is shown whatever its code.
queryAnsweredShown(c, r) ==
  /\ \/ Conclude(c, "query_msg_req", Told(c, r))
     \/ Conclude(c, "query_msg_list_req", Told(c, r))
  /\ UNCHANGED <<cache, lastId>>

queryAnswered(c, r) ==
  /\ \/ Conclude(c, "query_msg_req", Good(c, r))
     \/ Conclude(c, "query_msg_list_req", Good(c, r))
  /\ UNCHANGED <<cache, lastId>>

Act(c) ==
  /\ pc[c]["client"] = "have"
  /\ \E r \in {Answered(c)} :
       \/ agreementAnswered(c, r) \/ verificationAnswered(c, r) \/ logoutAnswered(c, r)
       \/ sendAnswered(c, r) \/ queryAnswered(c, r)
-----------------------------------------------------------------------------
(* The whole.                                                              *)

\* The socket's steps leave the rest alone.
Socket(A) == A /\ UNCHANGED <<clientVars, serverVars>>

\* A failed send is reported, or kills the client with SIGPIPE, which then forgets
\* m_lastServerMessageId.
SendFails(c) ==
  /\ writenFails(c, "client")
  /\ lastId' \in {lastId, <<>>}
  /\ UNCHANGED <<call, succeeded, cache, serverVars>>

Killed(c) ==
  /\ ClientDies(c)
  /\ lastId' = <<>>
  /\ UNCHANGED <<call, succeeded, cache, serverVars>>

ClientSocket(c) ==
  \/ Socket(\/ Connected(c) \/ ConnectFails(c) \/ writen(c, "client")
            \/ Await(c) \/ Timeout(c) \/ readn(c, "client") \/ readnFails(c, "client"))
  \/ SendFails(c)

ServerSocket(c) ==
  Socket(Begin(c) \/ Transfer(c, "server") \/ BrokenPipe(c) \/ Disconnect(c, "server"))

\* All operations are over, or stuck in a silent network.
Over(c) ==
  /\ pc[c]["client"] \in {"idle", "closed"} \/ c \in cut
  /\ pc[c]["server"] \in {"idle", "closed"} \/ c \in cut

Done == (\A c \in Conns : Over(c)) /\ UNCHANGED vars

ExchangeNext ==
  \/ \E c \in Conns :
       \/ Menu(c) \/ ClientSocket(c) \/ Act(c)
       \/ ServerSocket(c) \/ processV2Request(c)
       \/ Killed(c)
       \/ Socket(GoSilent(c))
  \/ Socket(ServerDies)
  \/ Done

\* Each end goes on with what it has begun; nobody has to begin, or to fail.  What is
\* done with a message that was read takes no waiting, so it comes to an end.
ExchangeSpec ==
  /\ ExchangeInit /\ [][ExchangeNext]_vars
  /\ \A c \in Conns :
       /\ WF_vars(ClientSocket(c)) /\ WF_vars(ServerSocket(c))
       /\ \A e \in End : []<>(pc[c][e] # "have")
-----------------------------------------------------------------------------
(* Properties.                                                             *)

\* What an operation asks and what a thread or a client works on are packets of the
\* protocol, whatever part of them was read.
ExchangeTypeOK ==
  /\ FramingTypeOK /\ Server!TypeOK
  /\ succeeded \subseteq Conns
  /\ cache.key \in Nat /\ cache.status \in {0, 1}
  /\ stage \in [Conns -> {"start", "opened", "written", "loaded"}]
  /\ \A c \in Conns :
       /\ call[c] = NotSet \/ RequestPacket(call[c])
       /\ pc[c]["server"] = "have" => RequestPacket(Handled(c))
       /\ pc[c]["client"] = "have" => ResponsePacket(Answered(c))

\* processV2Request: whether decodeMsg could read the request to its end is not
\* looked at; still, the server carries out only what was asked, to the last field.
CarriedOutAsAsked ==
  \A c \in Conns : done[c].code = RESULT_SUCCESS => done[c].request = call[c]

\* ClientOP.cpp and MessageClient.cpp: the client reports success only for what the
\* server has done on this request, and the message it offers to look up is stored.
SuccessMeansDone ==
  /\ \A c \in succeeded : done[c] = [request |-> call[c], code |-> RESULT_SUCCESS]
  /\ lastId # <<>> => \E i \in 1 .. Len(log) : log[i].id = lastId

\* ServerOP.cpp, seckeyAgree: though agreements of a client share a file, a key the
\* client keeps is one that was issued, number and bytes; it is empty only if its
\* encryption failed.
CachedKeyIssued ==
  \E r \in keys : /\ r.key = cache.key
                  /\ \/ cache.bytes = <<"aes", r.mat>>
                     \/ cache.bytes = <<>> /\ faults > 0

\* TcpSocket.cpp and handleClientFd: both ends finish an exchange, whatever breaks, as
\* long as the network does not go silent on a read, which has no timeout after the
\* first byte.
ExchangeEnds == \A c \in Conns : pc[c]["client"] = "connect" ~> Over(c)
=============================================================================
