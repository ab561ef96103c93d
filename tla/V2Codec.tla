------------------------------ MODULE V2Codec -------------------------------
(***************************************************************************)
(* V2RequestCodec and V2RespondCodec: between the structures the business  *)
(* code fills (V2...Info) and packets, and between packets and the bytes   *)
(* in a frame.  Nothing is checked here, neither what is encoded nor       *)
(* whether what came could be decoded to its end.                          *)
(***************************************************************************)
EXTENDS MessageV2

\* enum CommandType
CMD_SEND_MSG_REQ == 1
CMD_SEND_MSG_RESP == 2
CMD_QUERY_MSG_REQ == 3
CMD_QUERY_MSG_RESP == 4
CMD_QUERY_MSG_LIST_REQ == 5
CMD_QUERY_MSG_LIST_RESP == 6
CMD_KEY_AGREE_REQ == 7
CMD_KEY_AGREE_RESP == 8
CMD_KEY_CHECK_REQ == 9
CMD_KEY_CHECK_RESP == 10
CMD_KEY_LOGOUT_REQ == 11
CMD_KEY_LOGOUT_RESP == 12

\* enum ResultCode, as far as the models use it.
RESULT_SUCCESS == 1
RESULT_FAILED == 2
RESULT_KEY_NOT_FOUND == 3
RESULT_KEY_INVALID == 4
RESULT_INVALID_REQUEST == 6
RESULT_MSG_NOT_FOUND == 7
RESULT_KEY_AGREE_FAILED == 8
RESULT_KEY_LOGOUT_FAILED == 10

MSG_TYPE_TEXT == 1
DELIVERY_ACCEPTED == 1
DELIVERY_REJECTED == 2

\* The header is filled in the same way by every initMessage.
fillHeader(h) ==
  [message_id |-> h.messageId, command |-> h.command, sender_id |-> h.senderId,
   receiver_id |-> h.receiverId, timestamp |-> h.timestamp]

Packet(h, case, m) == [header |-> fillHeader(h), body_case |-> case, body |-> m]
-----------------------------------------------------------------------------
(* V2RequestCodec.                                                         *)

initSendMessageRequest(info) ==
  Packet(info.header, "send_msg_req",
         [message |-> [key_id |-> info.message.keyId, msg_type |-> info.message.msgType,
                       ciphertext |-> info.message.ciphertext, nonce |-> info.message.nonce,
                       tag |-> info.message.tag, algorithm |-> info.message.algorithm]])

initQueryMessageRequest(info) ==
  Packet(info.header, "query_msg_req", [server_message_id |-> info.serverMessageId])

initQueryMessageListRequest(info) ==
  Packet(info.header, "query_msg_list_req", [sender_id |-> info.senderId, limit |-> info.limit])

initKeyAgreementRequest(info) ==
  Packet(info.header, "key_agree_req", [public_key |-> info.publicKey, sign |-> info.sign])

initKeyCheckRequest(info) ==
  Packet(info.header, "key_check_req", [key_id |-> info.keyId])

initKeyLogoutRequest(info) ==
  Packet(info.header, "key_logout_req", [key_id |-> info.keyId])

encodeRequest(p) == RequestPacket_Serialize(p)

\* Whether all of s could be read is not asked.
decodeRequest(s) == RequestPacket_Parse(s).msg
-----------------------------------------------------------------------------
(* V2RespondCodec.                                                         *)

initSendMessageResponse(info) ==
  Packet(info.header, "send_msg_resp",
         [code |-> info.code, message |-> info.message,
          server_message_id |-> info.serverMessageId, server_time |-> info.serverTime,
          delivery_status |-> info.deliveryStatus])

initQueryMessageResponse(info) ==
  Packet(info.header, "query_msg_resp",
         [code |-> info.code, message |-> info.message,
          server_message_id |-> info.serverMessageId, sender_id |-> info.senderId,
          receiver_id |-> info.receiverId, key_id |-> info.keyId, msg_type |-> info.msgType,
          send_time |-> info.sendTime, status |-> info.status])

initQueryMessageListResponse(info) ==
  LET summary(item) ==
        [server_message_id |-> item.serverMessageId, sender_id |-> item.senderId,
         receiver_id |-> item.receiverId, key_id |-> item.keyId, msg_type |-> item.msgType,
         send_time |-> item.sendTime, status |-> item.status]
  IN  Packet(info.header, "query_msg_list_resp",
             [code |-> info.code, message |-> info.message,
              messages |-> [i \in 1 .. Len(info.messages) |-> summary(info.messages[i])]])

initKeyOperationResponse(info) ==
  Packet(info.header, "key_op_resp",
         [code |-> info.code, message |-> info.message, key_id |-> info.keyId,
          data |-> info.data])

encodeResponse(p) == ResponsePacket_Serialize(p)

\* Whether all of s could be read is not asked.
decodeResponse(s) == ResponsePacket_Parse(s).msg
=============================================================================
