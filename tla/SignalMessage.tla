----------------------------- MODULE SignalMessage -----------------------------
(***************************************************************************)
(* The messages of the signalling protocol and their JSON form             *)
(* (sharertc_signal_message.{h,cc}; webrtc_signal_message.{h,cc} of the    *)
(* client is the same code but for two try blocks). A JSON value keeps its *)
(* type, the text of a scalar and the members of an object. An operation   *)
(* has an outcome: "done" with a value, "refused" (it returned false or    *)
(* null), or "thrown" (jsoncpp threw).                                     *)
(***************************************************************************)
EXTENDS Naturals

CONSTANT IntTexts      \* the texts of the numbers an int holds

Json(type, text, members) == [type |-> type, text |-> text, members |-> members]
Null == Json("null", "", <<>>)
Str(text) == Json("string", text, <<>>)
Number(text) == Json("number", text, <<>>)
Object(members) == Json("object", "", members)

Done(value) == [outcome |-> "done", value |-> value]
Refused == [outcome |-> "refused", value |-> <<>>]
Thrown == [outcome |-> "thrown", value |-> <<>>]

(* jsoncpp: a member that is missing is null; asString converts every      *)
(* scalar, asInt null and every number an int holds                        *)
Indexable(jv) == jv.type \in {"object", "null"}
Member(jv, name) == IF name \in DOMAIN jv.members THEN jv.members[name] ELSE Null
AsString(jv) == jv.type \in {"string", "number", "null"}
AsInt(jv) == jv.type = "null" \/ (jv.type = "number" /\ jv.text \in IntTexts)
Converts(jv, as) == IF as = "asInt" THEN AsInt(jv) ELSE AsString(jv)
ToScalar(text, as) == IF as = "asInt" THEN Number(text) ELSE Str(text)

(* Every content class: its fields and how fromJson reads each             *)
GetAllPeerIDsContent == <<>>
DisconnectContent == <<>>
TextMessageContent == [text |-> "asString"]
OfferContent == [sdp |-> "asString"]
AnswerContent == [sdp |-> "asString"]
ICECandidateContent == [candidate |-> "asString", sdpMLineIndex |-> "asInt"]
IdentifySelfContent == [id |-> "asString"]
DisconnectionNotificationContent == [peerID |-> "asString"]

createContentByKind ==
  [GetAllPeerIDs |-> GetAllPeerIDsContent, TextMessage |-> TextMessageContent,
   Disconnect |-> DisconnectContent, Offer |-> OfferContent, Answer |-> AnswerContent,
   ICECandidate |-> ICECandidateContent, IdentifySelf |-> IdentifySelfContent,
   DisconnectionNotification |-> DisconnectionNotificationContent]

(* The enumerations and their names, the same in both directions           *)
MessageType == DOMAIN createContentByKind
ReachType == {"Self", "OnePeer", "AllPeers", "None"}
messageTypeToString(t) == Str(t)
reachTypeToJsonValue(rt) == Str(rt)
messageTypeFromString(s) == IF s \in MessageType THEN Done(s) ELSE Refused
jsonValueToReachType(jv) ==
  IF jv.type = "string" /\ jv.text \in ReachType THEN Done(jv.text) ELSE Refused

(* What the reader of a message sees when it is not JSON at all            *)
Garbage == Json("garbage", "", <<>>)

(* The messages IdentifySelf sends: their content is a string              *)
IdentifySelfMessage ==
  [kind |-> "IdentifySelf", reach |-> "Self", sender |-> "", peerID |-> "",
   content |-> Str("styled text of an object")]

(* A content object as what its fields hold                                *)
marshalContent(kind, content) ==
  Object([f \in DOMAIN createContentByKind[kind] |-> ToScalar(content[f], createContentByKind[kind][f])])

(* Mutant: a member that is missing throws                                 *)
unmarshalContentStrict(kind, jv) ==
  LET fields == createContentByKind[kind]
      required == DOMAIN fields
  IN  IF required = {} THEN Done(<<>>)
      ELSE IF ~Indexable(jv) \/ ~(required \subseteq DOMAIN jv.members) THEN Thrown
      ELSE IF \E f \in required : ~Converts(jv.members[f], fields[f]) THEN Thrown
      ELSE Done([f \in required |-> jv.members[f].text])

unmarshalContent(kind, jv) ==
  LET fields == createContentByKind[kind]
      required == DOMAIN fields
  IN  IF jv.type = "null" THEN Refused
      ELSE IF required = {} THEN Done(<<>>)
      ELSE IF ~Indexable(jv) THEN Thrown
      ELSE IF ~(required \subseteq DOMAIN jv.members) THEN Refused
      ELSE IF \E f \in required : ~Converts(jv.members[f], fields[f]) THEN Thrown
      ELSE Done([f \in required |-> jv.members[f].text])

messageToJson(msg) ==
  Object([kind |-> messageTypeToString(msg.kind), reach |-> reachTypeToJsonValue(msg.reach),
          sender |-> Str(msg.sender), peerID |-> Str(msg.peerID), content |-> msg.content])

jsonToMessage(root) ==
  IF ~Indexable(root) \/ ~AsString(Member(root, "kind")) THEN Thrown
  ELSE LET kind == messageTypeFromString(Member(root, "kind").text)
           reach == jsonValueToReachType(Member(root, "reach"))
       IN  IF "refused" \in {kind.outcome, reach.outcome} THEN Refused
           ELSE IF \E f \in {"sender", "peerID"} : ~AsString(Member(root, f)) THEN Thrown
           ELSE Done([kind |-> kind.value, reach |-> reach.value,
                      sender |-> Member(root, "sender").text, peerID |-> Member(root, "peerID").text,
                      content |-> Member(root, "content")])

(* The client's copy catches what is thrown                                *)
jsonToMessageCaught(root) == IF jsonToMessage(root).outcome = "thrown" THEN Refused ELSE jsonToMessage(root)

-----------------------------------------------------------------------------
(* ShareRTCSignalConnection and WebRTCSignalConnection                     *)

(* What handlers of messages return; IdentifySelf alone changes id_        *)
HandleMessageIdentifySelf(content) == content.id # ""
Handler(kind, content) ==
  CASE kind = "IdentifySelf" -> HandleMessageIdentifySelf(content)
    [] kind = "DisconnectionNotification" -> TRUE
    [] OTHER -> FALSE

(* HandleMessage: the outcome, and the message when it has a handler; msg  *)
(* is what jsonToMessage makes of root. The member "kind" is read before,  *)
(* to be logged.                                                           *)
HandleMessage(root, msg) ==
  IF root = Garbage THEN Refused
  ELSE IF ~Indexable(root) \/ ~AsString(Member(root, "kind")) THEN Thrown
  ELSE IF msg.outcome # "done" THEN msg
  ELSE LET content == unmarshalContent(msg.value.kind, msg.value.content)
       IN  IF content.outcome # "done" THEN content
           ELSE Done([kind |-> msg.value.kind, content |-> content.value])

HandledByBase(root) == HandleMessage(root, jsonToMessage(root))
HandledByClient(root) == HandleMessage(root, jsonToMessageCaught(root))     \* WebRTCSignalConnection

(* What the two copies return to the caller                                *)
Result(r) ==
  IF r.outcome # "done" THEN r.outcome
  ELSE IF Handler(r.value.kind, r.value.content) THEN "true" ELSE "false"
=============================================================================
