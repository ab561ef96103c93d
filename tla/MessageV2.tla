----------------------------- MODULE MessageV2 ------------------------------
(***************************************************************************)
(* The protocol's messages (MessageV2.proto) as protoc's classes write and *)
(* read them.                                                              *)
(*                                                                         *)
(* A written message is the sequence of its pieces, one per field in the   *)
(* order of the tags: <<name, value>>, or nothing (<<>>) for a field that  *)
(* has its default value; reading starts from the defaults.  A submessage  *)
(* is absent (NotSet) or present, and is written when present, though all  *)
(* its fields have their defaults.                                         *)
(*                                                                         *)
(* A text is a sequence of tokens.  One that is not UTF-8 has the token    *)
(* NotUtf8: it is written all the same, but a reader that has stored it    *)
(* stops there, with what it has read so far.                              *)
(***************************************************************************)
EXTENDS Naturals, SequencesExt

CONSTANTS
  NotSet,      \* an absent submessage
  NotUtf8      \* a token no UTF-8 text has

Text(f)   == [name |-> f, text |-> TRUE]
Number(f) == [name |-> f, text |-> FALSE]

Default(f) == IF f.text THEN <<>> ELSE 0

IsUtf8(t) == \A i \in 1 .. Len(t) : t[i] # NotUtf8

Names(fields) == {fields[i].name : i \in 1 .. Len(fields)}

\* The pieces of message m.
Emit(fields, m) ==
  [i \in 1 .. Len(fields) |->
     LET n == fields[i].name
     IN  IF m[n] = Default(fields[i]) THEN <<>> ELSE <<n, m[n]>>]

\* What reading gives, and whether it got to the end.
Result(m, complete) == [msg |-> m, ok |-> complete]

\* The places of s that are read: the first that is not good is the last.
Reach(s, good(_)) == {i \in 1 .. Len(s) : \A j \in 1 .. i - 1 : good(s[j])}

All(s, good(_)) == \A i \in 1 .. Len(s) : good(s[i])

Scan(fields, s) ==
  LET isText(n) == Text(n) \in ToSet(fields)
      good(f) == f # <<>> /\ isText(f[1]) => IsUtf8(f[2])
      read == Reach(s, good)
      at(n) == {i \in read : s[i] # <<>> /\ s[i][1] = n}
      value(n) == IF at(n) # {} THEN s[Max(at(n))][2]
                  ELSE Default(IF isText(n) THEN Text(n) ELSE Number(n))
  IN  Result([n \in Names(fields) |-> value(n)], All(s, good))

\* A message of the class with these fields.
Has(fields, m) ==
  /\ DOMAIN m = Names(fields)
  /\ \A i \in 1 .. Len(fields) :
       IF fields[i].text THEN Len(m[fields[i].name]) \in Nat ELSE m[fields[i].name] \in Nat

\* A submessage in the message it is a field of.
EmitIn(name, m, written) == IF m = NotSet THEN <<>> ELSE << <<name, written>> >>
-----------------------------------------------------------------------------
(* Messages without submessages.                                           *)

HeaderFields ==
  <<Text("message_id"), Number("command"), Text("sender_id"), Text("receiver_id"),
    Number("timestamp")>>
Header(m) == Has(HeaderFields, m)

Header_Serialize(m) == Emit(HeaderFields, m)

\* Mutant: the tags of the two ids are mixed up.
Header_ParseSwapped(s) ==
  LET r == Scan(HeaderFields, s)
  IN  Result([r.msg EXCEPT !.sender_id = r.msg.receiver_id, !.receiver_id = r.msg.sender_id],
             r.ok)

Header_Parse(s) == Scan(HeaderFields, s)

EncryptedMessageFields ==
  <<Number("key_id"), Number("msg_type"), Text("ciphertext"), Text("nonce"), Text("tag"),
    Text("algorithm")>>
EncryptedMessage(m) == Has(EncryptedMessageFields, m)

EncryptedMessage_Serialize(m) == Emit(EncryptedMessageFields, m)
EncryptedMessage_Parse(s) == Scan(EncryptedMessageFields, s)

QueryMessageRequestFields == <<Text("server_message_id")>>
QueryMessageRequest(m) == Has(QueryMessageRequestFields, m)

QueryMessageRequest_Serialize(m) == Emit(QueryMessageRequestFields, m)
QueryMessageRequest_Parse(s) == Scan(QueryMessageRequestFields, s)

QueryMessageListRequestFields == <<Text("sender_id"), Number("limit")>>
QueryMessageListRequest(m) == Has(QueryMessageListRequestFields, m)

QueryMessageListRequest_Serialize(m) == Emit(QueryMessageListRequestFields, m)
QueryMessageListRequest_Parse(s) == Scan(QueryMessageListRequestFields, s)

KeyAgreementRequestFields == <<Text("public_key"), Text("sign")>>
KeyAgreementRequest(m) == Has(KeyAgreementRequestFields, m)

KeyAgreementRequest_Serialize(m) == Emit(KeyAgreementRequestFields, m)
KeyAgreementRequest_Parse(s) == Scan(KeyAgreementRequestFields, s)

KeyCheckRequestFields == <<Number("key_id")>>
KeyCheckRequest(m) == Has(KeyCheckRequestFields, m)

KeyCheckRequest_Serialize(m) == Emit(KeyCheckRequestFields, m)
KeyCheckRequest_Parse(s) == Scan(KeyCheckRequestFields, s)

KeyLogoutRequestFields == <<Number("key_id")>>
KeyLogoutRequest(m) == Has(KeyLogoutRequestFields, m)

KeyLogoutRequest_Serialize(m) == Emit(KeyLogoutRequestFields, m)
KeyLogoutRequest_Parse(s) == Scan(KeyLogoutRequestFields, s)

SendMessageResponseFields ==
  <<Number("code"), Text("message"), Text("server_message_id"), Number("server_time"),
    Number("delivery_status")>>
SendMessageResponse(m) == Has(SendMessageResponseFields, m)

SendMessageResponse_Serialize(m) == Emit(SendMessageResponseFields, m)
SendMessageResponse_Parse(s) == Scan(SendMessageResponseFields, s)

QueryMessageResponseFields ==
  <<Number("code"), Text("message"), Text("server_message_id"), Text("sender_id"),
    Text("receiver_id"), Number("key_id"), Text("msg_type"), Number("send_time"),
    Number("status")>>
QueryMessageResponse(m) == Has(QueryMessageResponseFields, m)

QueryMessageResponse_Serialize(m) == Emit(QueryMessageResponseFields, m)
QueryMessageResponse_Parse(s) == Scan(QueryMessageResponseFields, s)

MessageSummaryFields ==
  <<Text("server_message_id"), Text("sender_id"), Text("receiver_id"), Number("key_id"),
    Text("msg_type"), Number("send_time"), Number("status")>>
MessageSummary(m) == Has(MessageSummaryFields, m)

MessageSummary_Serialize(m) == Emit(MessageSummaryFields, m)
MessageSummary_Parse(s) == Scan(MessageSummaryFields, s)

KeyOperationResponseFields ==
  <<Number("code"), Text("message"), Number("key_id"), Text("data")>>
KeyOperationResponse(m) == Has(KeyOperationResponseFields, m)

KeyOperationResponse_Serialize(m) == Emit(KeyOperationResponseFields, m)
KeyOperationResponse_Parse(s) == Scan(KeyOperationResponseFields, s)
-----------------------------------------------------------------------------
(* Messages with submessages.                                              *)

SendMessageRequest(m) ==
  DOMAIN m = {"message"} /\ (m.message = NotSet \/ EncryptedMessage(m.message))

SendMessageRequest_Serialize(m) ==
  EmitIn("message", m.message, EncryptedMessage_Serialize(m.message))

SendMessageRequest_Parse(s) ==
  IF s = <<>> THEN Result([message |-> NotSet], TRUE)
  ELSE LET r == EncryptedMessage_Parse(s[1][2])
       IN  Result([message |-> r.msg], r.ok)

\* The fields of a list but its messages.
ListFields == <<Number("code"), Text("message")>>

QueryMessageListResponse(m) ==
  /\ DOMAIN m = {"code", "message", "messages"}
  /\ Has(ListFields, [code |-> m.code, message |-> m.message])
  /\ \A i \in 1 .. Len(m.messages) : MessageSummary(m.messages[i])

\* messages is a repeated field: every element is written, with its tag.
QueryMessageListResponse_Serialize(m) ==
  Emit(ListFields, m)
  \o [i \in 1 .. Len(m.messages) |-> <<"messages", MessageSummary_Serialize(m.messages[i])>>]

\* Its elements come after its two fields.
QueryMessageListResponse_Parse(s) ==
  LET top == Scan(ListFields, s)
      items == SubSeq(s, 3, Len(s))
      good(f) == MessageSummary_Parse(f[2]).ok
      read == IF top.ok THEN Reach(items, good) ELSE {}
  IN  Result([code |-> top.msg.code, message |-> top.msg.message,
              messages |-> [i \in read |-> MessageSummary_Parse(items[i][2]).msg]],
             top.ok /\ All(items, good))
-----------------------------------------------------------------------------
(* Packets: a header, and at most one of several bodies.                   *)

\* body_case() of a packet whose oneof is empty.
BODY_NOT_SET == "none"

RequestCases == {"send_msg_req", "query_msg_req", "query_msg_list_req", "key_agree_req",
                 "key_check_req", "key_logout_req"}
ResponseCases == {"send_msg_resp", "query_msg_resp", "query_msg_list_resp", "key_op_resp"}

\* The oneof holds the body its case names.
RequestBody(case, m) ==
  \/ case = "send_msg_req" /\ SendMessageRequest(m)
  \/ case = "query_msg_req" /\ QueryMessageRequest(m)
  \/ case = "query_msg_list_req" /\ QueryMessageListRequest(m)
  \/ case = "key_agree_req" /\ KeyAgreementRequest(m)
  \/ case = "key_check_req" /\ KeyCheckRequest(m)
  \/ case = "key_logout_req" /\ KeyLogoutRequest(m)
  \/ case = BODY_NOT_SET /\ m = NotSet

ResponseBody(case, m) ==
  \/ case = "send_msg_resp" /\ SendMessageResponse(m)
  \/ case = "query_msg_resp" /\ QueryMessageResponse(m)
  \/ case = "query_msg_list_resp" /\ QueryMessageListResponse(m)
  \/ case = "key_op_resp" /\ KeyOperationResponse(m)
  \/ case = BODY_NOT_SET /\ m = NotSet

RequestBody_Serialize(case, m) ==
  CASE case = "send_msg_req"       -> SendMessageRequest_Serialize(m)
    [] case = "query_msg_req"      -> QueryMessageRequest_Serialize(m)
    [] case = "query_msg_list_req" -> QueryMessageListRequest_Serialize(m)
    [] case = "key_agree_req"      -> KeyAgreementRequest_Serialize(m)
    [] case = "key_check_req"      -> KeyCheckRequest_Serialize(m)
    [] case = "key_logout_req"     -> KeyLogoutRequest_Serialize(m)

RequestBody_Parse(case, s) ==
  CASE case = "send_msg_req"       -> SendMessageRequest_Parse(s)
    [] case = "query_msg_req"      -> QueryMessageRequest_Parse(s)
    [] case = "query_msg_list_req" -> QueryMessageListRequest_Parse(s)
    [] case = "key_agree_req"      -> KeyAgreementRequest_Parse(s)
    [] case = "key_check_req"      -> KeyCheckRequest_Parse(s)
    [] case = "key_logout_req"     -> KeyLogoutRequest_Parse(s)

ResponseBody_Serialize(case, m) ==
  CASE case = "send_msg_resp"       -> SendMessageResponse_Serialize(m)
    [] case = "query_msg_resp"      -> QueryMessageResponse_Serialize(m)
    [] case = "query_msg_list_resp" -> QueryMessageListResponse_Serialize(m)
    [] case = "key_op_resp"         -> KeyOperationResponse_Serialize(m)

ResponseBody_Parse(case, s) ==
  CASE case = "send_msg_resp"       -> SendMessageResponse_Parse(s)
    [] case = "query_msg_resp"      -> QueryMessageResponse_Parse(s)
    [] case = "query_msg_list_resp" -> QueryMessageListResponse_Parse(s)
    [] case = "key_op_resp"         -> KeyOperationResponse_Parse(s)

\* The header is field 1, the body comes after it.
EmitPacket(p, BodySerialize(_, _)) ==
  EmitIn("header", p.header, Header_Serialize(p.header))
  \o (IF p.body_case = BODY_NOT_SET THEN <<>>
      ELSE << <<p.body_case, BodySerialize(p.body_case, p.body)>> >>)

\* A body is in the packet, and replaces another, as soon as its tag is read.
ScanPacket(s, BodyParse(_, _)) ==
  LET sub(f) == IF f[1] = "header" THEN Header_Parse(f[2]) ELSE BodyParse(f[1], f[2])
      good(f) == sub(f).ok
      read == Reach(s, good)
      heads == {i \in read : s[i][1] = "header"}
      bodies == read \ heads
      last(set) == s[Max(set)]
  IN  Result([header |-> IF heads = {} THEN NotSet ELSE sub(last(heads)).msg,
              body_case |-> IF bodies = {} THEN BODY_NOT_SET ELSE last(bodies)[1],
              body |-> IF bodies = {} THEN NotSet ELSE sub(last(bodies)).msg],
             All(s, good))

IsPacket(p, Body(_, _)) ==
  /\ DOMAIN p = {"header", "body_case", "body"}
  /\ p.header = NotSet \/ Header(p.header)
  /\ Body(p.body_case, p.body)

RequestPacket(p) == IsPacket(p, RequestBody)
RequestPacket_Serialize(p) == EmitPacket(p, RequestBody_Serialize)
RequestPacket_Parse(s) == ScanPacket(s, RequestBody_Parse)

ResponsePacket(p) == IsPacket(p, ResponseBody)
ResponsePacket_Serialize(p) == EmitPacket(p, ResponseBody_Serialize)
ResponsePacket_Parse(s) == ScanPacket(s, ResponseBody_Parse)
=============================================================================
