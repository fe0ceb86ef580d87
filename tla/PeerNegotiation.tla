---------------------------- MODULE PeerNegotiation ----------------------------
(***************************************************************************)
(* One WebRTCPeerConnection (client/src/webrtc_peer_connection.cc): the    *)
(* offers, answers and ICE candidates it exchanges with its peer through   *)
(* the signalling server. Two threads: the application's, which calls the  *)
(* methods, and WebRTC's signalling thread, which makes the callbacks and  *)
(* also runs every call into peer_connection_ while its caller waits.      *)
(* The application and WebRTC are external.                                *)
(***************************************************************************)
EXTENDS Naturals, FiniteSets

CONSTANT MaxCandidates      \* bound: candidates WebRTC gathers

ASSUME BoundsAssumption == MaxCandidates \in Nat

VARIABLES
  built,        \* what the constructor made: peer_connection_, then data_channel_
  life,         \* the object is alive, in its destructor, gone; or the process exited
  app,          \* the method the application's thread is in
  ret,          \* what the last call returned (0, -1, false) or that it threw
  signaling,    \* the signalling thread is idle or waits in OnICECandidate
  mux,          \* who holds candidate_mux_
  negotiation,  \* the signalling state of the external connection
  local,        \* a local description was set: WebRTC gathers candidates
  fresh,        \* the one set last was not given to SendSignalMessage yet
  remote,       \* remote_description() is not null
  gathered,     \* how many candidates OnICECandidate was given
  pending,      \* pending_candidates_
  added,        \* candidates given to this side's own peer_connection_
  freed,        \* candidates the destructor deleted
  settled,      \* how many OnICECandidate was done with when the destructor began
  wire,         \* the messages sent through signaling_server_conn_
  lost          \* those it failed to send

candidateVars == <<gathered, pending, added, freed, settled>>
sdpVars == <<negotiation, local, fresh, remote>>
messages == <<wire, lost>>
vars == <<built, life, app, ret, signaling, mux, sdpVars, candidateVars, messages>>

(* The integers on the wire: webrtc::SdpType when a description is sent    *)
(* (static_cast, no code is chosen here), the codes of the Go program      *)
(* when one is received.                                                   *)
SdpType == [offer |-> 0, answer |-> 2]
ReceivedType == [offer |-> 1, answer |-> 3]

(* message::Kind and its integers, in MessageToJson and in JsonToMessage   *)
KindCode == [Offer |-> 0, Answer |-> 1, ICECandidate |-> 2]

Candidates == 1 .. MaxCandidates
Descriptions == [part : {"description"}, type : 0 .. 3]
CandidateContents == [part : {"candidate"}, candidate : Candidates \cup {0}]

(* A content without the members that are read, and one where jsoncpp      *)
(* cannot convert what it reads: a member of the part it is taken for, or  *)
(* the whole, which is no object.                                          *)
Unreadable ==
  [part : {"missing"}] \cup [part : {"mistyped"}, of : {"description", "candidate", "whole"}]
Contents == Descriptions \cup CandidateContents \cup Unreadable
Messages == [Kind : 0 .. 2, Content : Contents]

(* Of any program on the other side: the message may be no object, lack a  *)
(* member, or have members that are no string or no int.                   *)
NoInt == 4
Incoming == [form : {"whole", "missing", "mistyped", "no object"}, Kind : 0 .. NoInt, Content : Contents]

(* What reading gives: "done", "refused" (false is returned) or "thrown"   *)
JsonToContent(part, content) ==
  CASE content.part = part -> "done"
    [] content.part = "mistyped" /\ content.of \in {part, "whole"} -> "thrown"
    [] OTHER -> "refused"

JsonToMessage(json) ==
  CASE json.form = "no object" -> "thrown"
    [] json.form = "missing" -> "refused"
    [] json.Kind = NoInt -> "thrown"
    [] json.Kind \notin {KindCode[k] : k \in DOMAIN KindCode} -> "refused"
    [] json.form = "mistyped" -> "thrown"
    [] OTHER -> "done"

TypeOK ==
  /\ built \in {"nothing", "connection", "channel"}
  /\ life \in {"alive", "closing", "gone", "exited"}
  /\ app \in {"idle", "created offer", "created answer", "offer", "answer", "pending"}
  /\ ret \in {"none", "0", "-1", "false", "thrown"}
  /\ signaling \in {"idle", "callback"}
  /\ mux \in {"free", "app"}
  /\ negotiation \in {"stable", "have-local-offer", "have-remote-offer"}
  /\ local \in BOOLEAN /\ fresh \in BOOLEAN
  /\ remote \in BOOLEAN
  /\ gathered \in 0 .. MaxCandidates
  /\ pending \subseteq Candidates
  /\ added \subseteq Candidates
  /\ freed \subseteq Candidates /\ settled \in 0 .. MaxCandidates
  /\ wire \subseteq Messages /\ lost \subseteq Messages

(* The constructor keeps what it got when WebRTC fails it, without telling *)
Init ==
  /\ built \in {"nothing", "connection", "channel"}
  /\ life = "alive" /\ app = "idle" /\ ret = "none"
  /\ signaling = "idle" /\ mux = "free"
  /\ negotiation = "stable" /\ local = FALSE /\ fresh = FALSE /\ remote = FALSE
  /\ gathered = 0 /\ pending = {} /\ added = {} /\ freed = {} /\ settled = 0
  /\ wire = {} /\ lost = {}

(* A method goes on in its middle, or ends                                 *)
Enter(place) == app' = place /\ ret' = "none"
Return(value) == app' = "idle" /\ ret' = value

(* A method called on the application's thread. What uses peer_connection_ *)
(* needs one, for it is null when the constructor failed, and waits for    *)
(* the signalling thread.                                                  *)
Idle == life = "alive" /\ app = "idle"
Called == Idle /\ built # "nothing"
Proxied == signaling = "idle"

(* A Send that fails is logged, and its message is gone                    *)
SendSignalMessage(kind, content) ==
  LET msg == [Kind |-> KindCode[kind], Content |-> content]
  IN  \/ wire' = wire \cup {msg} /\ UNCHANGED lost
      \/ lost' = lost \cup {msg} /\ UNCHANGED wire

SendMessage(ok) ==
  /\ Idle
  /\ ok => built = "channel"
  /\ Return(IF ok THEN "0" ELSE "-1")
  /\ UNCHANGED <<built, life, signaling, mux, sdpVars, candidateVars, messages>>

(* SendOffer up to CreateOffer, which WebRTC may fail; it makes an offer   *)
(* whatever the state of the negotiation                                   *)
SendOffer(ok) ==
  /\ Called /\ Proxied
  /\ IF ok THEN Enter("created offer") ELSE Return("-1")
  /\ UNCHANGED <<built, life, signaling, mux, sdpVars, candidateVars, messages>>

SendAnswer(ok) ==
  /\ Called /\ Proxied
  /\ IF ok THEN negotiation = "have-remote-offer" /\ Enter("created answer")
           ELSE Return("-1")
  /\ UNCHANGED <<built, life, signaling, mux, sdpVars, candidateVars, messages>>

(* SetLocalDescription of WebRTC, the second call of both, which fails     *)
(* where the description does not fit the negotiation, or otherwise        *)
Fits == IF app = "created offer" THEN {"stable", "have-local-offer"} ELSE {"have-remote-offer"}
SetLocal ==
  /\ negotiation \in Fits
  /\ negotiation' = (IF app = "created offer" THEN "have-local-offer" ELSE "stable")
  /\ local' = TRUE /\ fresh' = TRUE

(* Mutants: the description is not sent; -1 is returned when WebRTC has    *)
(* the description already                                                 *)
ApplyCreatedUnsent(ok) ==
  /\ life = "alive" /\ app \in {"created offer", "created answer"} /\ Proxied
  /\ IF ok THEN SetLocal /\ Return("0") ELSE Return("-1") /\ UNCHANGED <<negotiation, local, fresh>>
  /\ UNCHANGED <<built, life, signaling, mux, remote, candidateVars, messages>>

ApplyCreatedHalf(ok) ==
  /\ life = "alive" /\ app \in {"created offer", "created answer"} /\ Proxied
  /\ SetLocal
  /\ IF ok THEN Enter(IF app = "created offer" THEN "offer" ELSE "answer")
           ELSE Return("-1")
  /\ UNCHANGED <<built, life, signaling, mux, remote, candidateVars, messages>>

(* From here on candidates come while the description is still to be sent  *)
ApplyCreated(ok) ==
  /\ life = "alive" /\ app \in {"created offer", "created answer"} /\ Proxied
  /\ IF ok THEN /\ SetLocal
                /\ Enter(IF app = "created offer" THEN "offer" ELSE "answer")
           ELSE Return("-1") /\ UNCHANGED <<negotiation, local, fresh>>
  /\ UNCHANGED <<built, life, signaling, mux, remote, candidateVars, messages>>

(* The end of both: an answer goes out as Kind Offer, too                  *)
SendDescription ==
  /\ life = "alive" /\ app \in {"offer", "answer"}
  /\ SendSignalMessage("Offer", [part |-> "description", type |-> SdpType[app]])
  /\ fresh' = FALSE
  /\ Return("0")
  /\ UNCHANGED <<built, life, signaling, mux, negotiation, local, remote, candidateVars>>

(* What reading a content failed with is what the method ends with         *)
Unread(outcome) == Return(IF outcome = "refused" THEN "-1" ELSE "thrown")

(* SetRemoteDescription is this method. Whether WebRTC takes the           *)
(* description or not (ok), the method returns 0.                          *)
SetLocalDescription(content, ok) ==
  LET reading == JsonToContent("description", content)
  IN  /\ \/ Idle /\ reading # "done" /\ Unread(reading) /\ UNCHANGED sdpVars
         \/ /\ Idle /\ reading = "done" /\ content.type \notin {ReceivedType.offer, ReceivedType.answer}
            /\ Return("-1") /\ UNCHANGED sdpVars
         \/ /\ Called /\ Proxied /\ reading = "done" /\ content.type \in {ReceivedType.offer, ReceivedType.answer}
            /\ Return("0")
            /\ IF ok
               THEN /\ \/ /\ content.type = ReceivedType.offer
                          /\ negotiation # "have-local-offer"
                          /\ negotiation' = "have-remote-offer"
                       \/ /\ content.type = ReceivedType.answer
                          /\ negotiation = "have-local-offer"
                          /\ negotiation' = "stable"
                    /\ remote' = TRUE
               ELSE UNCHANGED <<negotiation, remote>>
            /\ UNCHANGED <<local, fresh>>
      /\ UNCHANGED <<built, life, signaling, mux, candidateVars, messages>>

(* Only what cannot be read or parsed (0) is refused: whether WebRTC adds  *)
(* it to the peer's candidates, and it does so only after a remote         *)
(* description, is logged.                                                 *)
AddICECandidate(content) ==
  LET reading == JsonToContent("candidate", content)
  IN  /\ \/ Idle /\ reading # "done" /\ Unread(reading)
         \/ Idle /\ reading = "done" /\ content.candidate = 0 /\ Return("-1")
         \/ Called /\ Proxied /\ reading = "done" /\ content.candidate # 0 /\ Return("0")
      /\ UNCHANGED <<built, life, signaling, mux, sdpVars, candidateVars, messages>>

(* The application reads a message and gives its content to the method for *)
(* it; a message that cannot be read ends there                            *)
Receive(json) ==
  \/ /\ JsonToMessage(json) = "done" /\ json.Kind = KindCode.ICECandidate
     /\ AddICECandidate(json.Content)
  \/ /\ JsonToMessage(json) = "done" /\ json.Kind # KindCode.ICECandidate
     /\ \E ok \in BOOLEAN : SetLocalDescription(json.Content, ok)
  \/ /\ JsonToMessage(json) # "done" /\ Idle
     /\ Return(IF JsonToMessage(json) = "refused" THEN "false" ELSE "thrown")
     /\ UNCHANGED <<built, life, signaling, mux, sdpVars, candidateVars, messages>>

(* SendPendingICECandidates: lock; one AddIceCandidate per candidate, each *)
(* a call that waits for the signalling thread; clear and unlock           *)
SendPendingICECandidates ==
  /\ Called /\ mux = "free"
  /\ mux' = "app" /\ Enter("pending")
  /\ UNCHANGED <<built, life, signaling, sdpVars, candidateVars, messages>>

AddOwn(c) ==
  /\ life = "alive" /\ app = "pending" /\ Proxied
  /\ c \in pending /\ \A d \in pending : c <= d
  /\ added' = added \cup {c} /\ pending' = pending \ {c}
  /\ UNCHANGED <<built, life, app, ret, signaling, mux, sdpVars, gathered, freed, settled, messages>>

(* Mutant: clear takes the lock again                                      *)
PendingDoneLocks ==
  /\ life = "alive" /\ app = "pending" /\ pending = {} /\ mux = "free"
  /\ Return("0")
  /\ UNCHANGED <<built, life, signaling, mux, sdpVars, candidateVars, messages>>

PendingDone ==
  /\ life = "alive" /\ app = "pending" /\ pending = {}
  /\ mux' = "free"
  /\ Return("0")
  /\ UNCHANGED <<built, life, signaling, sdpVars, candidateVars, messages>>

(* WebRTC gathered a candidate: its thread enters OnICECandidate, and goes *)
(* on when it gets candidate_mux_                                          *)
Gather ==
  /\ life \in {"alive", "closing"} /\ built # "nothing"
  /\ local /\ signaling = "idle" /\ gathered < MaxCandidates
  /\ signaling' = "callback" /\ gathered' = gathered + 1
  /\ UNCHANGED <<built, life, app, ret, mux, sdpVars, pending, added, freed, settled, messages>>

(* Mutant: no else                                                         *)
OnICECandidateBoth ==
  /\ life \in {"alive", "closing"} /\ signaling = "callback" /\ mux = "free"
  /\ signaling' = "idle"
  /\ pending' = IF remote THEN pending ELSE pending \cup {gathered}
  /\ SendSignalMessage("ICECandidate", [part |-> "candidate", candidate |-> gathered])
  /\ UNCHANGED <<built, life, app, ret, mux, sdpVars, gathered, added, freed, settled>>

OnICECandidate ==
  /\ life \in {"alive", "closing"} /\ signaling = "callback" /\ mux = "free"
  /\ signaling' = "idle"
  /\ IF remote
     THEN /\ SendSignalMessage("ICECandidate", [part |-> "candidate", candidate |-> gathered])
          /\ UNCHANGED pending
     ELSE pending' = pending \cup {gathered} /\ UNCHANGED messages
  /\ UNCHANGED <<built, life, app, ret, mux, sdpVars, gathered, added, freed, settled>>

OnConnectionStateChange ==      \* kFailed or kClosed: std::exit
  /\ life \in {"alive", "closing"} /\ built # "nothing" /\ signaling = "idle"
  /\ life' = "exited"
  /\ UNCHANGED <<built, app, ret, signaling, mux, sdpVars, candidateVars, messages>>

(* Mutant: nothing is freed                                                *)
DestroyUnfreed ==
  /\ Idle /\ mux = "free"
  /\ life' = "closing"
  /\ settled' = gathered - (IF signaling = "callback" THEN 1 ELSE 0)
  /\ UNCHANGED <<built, app, ret, signaling, mux, sdpVars, gathered, pending, added, freed, messages>>

(* The destructor frees the pending candidates under the lock; the         *)
(* callbacks stop only when Close, a call like the others, has returned.   *)
Destroy ==
  /\ Idle /\ mux = "free"
  /\ life' = "closing"
  /\ freed' = freed \cup pending /\ pending' = {}
  /\ settled' = gathered - (IF signaling = "callback" THEN 1 ELSE 0)
  /\ UNCHANGED <<built, app, ret, signaling, mux, sdpVars, gathered, added, messages>>

Close ==
  /\ life = "closing" /\ Proxied
  /\ life' = "gone"
  /\ UNCHANGED <<built, app, ret, signaling, mux, sdpVars, candidateVars, messages>>

Application ==
  \/ \E ok \in BOOLEAN : SendMessage(ok) \/ SendOffer(ok) \/ SendAnswer(ok)
  \/ \E json \in Incoming : Receive(json)
  \/ SendPendingICECandidates
  \/ Destroy

Next ==
  \/ Application
  \/ (\E ok \in BOOLEAN : ApplyCreated(ok)) \/ SendDescription
  \/ (\E c \in Candidates : AddOwn(c)) \/ PendingDone \/ Close
  \/ Gather \/ OnICECandidate \/ OnConnectionStateChange

Spec == Init /\ [][Next]_vars

(* A method that was entered goes on while it can, and a callback as soon  *)
(* as it can have the lock                                                 *)
Fairness ==
  /\ WF_vars(SendDescription) /\ WF_vars(\E c \in Candidates : AddOwn(c))
  /\ WF_vars(PendingDone) /\ WF_vars(OnICECandidate)

FairSpec == Spec /\ Fairness

(* What was given to SendSignalMessage                                     *)
Handed == wire \cup lost
CandidateMessage(c) ==
  [Kind |-> KindCode["ICECandidate"], Content |-> [part |-> "candidate", candidate |-> c]]
Sent == {c \in Candidates : CandidateMessage(c) \in Handed}
Described == \E m \in Handed : m.Content \in Descriptions
Waiting == IF signaling = "callback" THEN {gathered} ELSE {}

(***************************************************************************)
(* Properties                                                              *)
(***************************************************************************)

(* Between the two threads no candidate is lost and none is used twice:    *)
(* each one WebRTC gathered is in the callback, in pending_candidates_,    *)
(* with this side's own connection, given to the server, or freed.         *)
Accounted ==
  /\ 1 .. gathered = pending \cup added \cup freed \cup Sent \cup Waiting
  /\ pending \cap (added \cup freed \cup Sent \cup Waiting) = {}
  /\ added \cap (freed \cup Sent \cup Waiting) = {}
  /\ freed \cap (Sent \cup Waiting) = {}
  /\ Sent \cap Waiting = {}

(* SendPendingICECandidates sends the pending candidates, as its name says *)
(* and its "Error sending ICE candidate" (line 251): one that it has taken *)
(* from pending_candidates_ was given to SendSignalMessage.                *)
PendingSent == added \subseteq Sent

(* A candidate overtakes at most the description that is being sent: the   *)
(* lock does not order OnICECandidate after the last lines of SendAnswer.  *)
DescribedFirst ==
  Sent # {} => Described \/ app \in {"offer", "answer"}

(* The destructor frees everything that was pending when it began; what is *)
(* pending afterwards came in a callback that ran between its lock and its *)
(* Close.                                                                  *)
OnlyLateLeaks == life \in {"closing", "gone"} => \A c \in pending : settled < c

(* SendOffer and SendAnswer fail in the making of a description, in its    *)
(* setting, or in its sending: a description that WebRTC has set is one    *)
(* that was given to the signalling server, or is just about to be. None   *)
(* stays behind when a method returns, with -1 or with 0.                  *)
NothingHalfDone == fresh => app \in {"offer", "answer"}

(* SendPendingICECandidates keeps the lock while it waits for the thread   *)
(* that calls OnICECandidate, which waits for the lock: unless the two     *)
(* meet, the method returns.                                               *)
Deadlocked == app = "pending" /\ pending # {} /\ signaling = "callback"
PendingReturns == app = "pending" ~> (app = "idle" \/ Deadlocked \/ life = "exited")
=============================================================================
