-------------------------- MODULE PeerNegotiation_proofs --------------------------
(***************************************************************************)
(* The safety of PeerNegotiation for any number of candidates.             *)
(***************************************************************************)
EXTENDS PeerNegotiation, TLAPS

(* What the invariants rest on: candidates come only after a local         *)
(* description, and those that come once the destructor has begun are      *)
(* younger than those it found.                                            *)
Order ==
  /\ gathered # 0 => local
  /\ local => Described \/ app \in {"offer", "answer"}
  /\ life \in {"closing", "gone"} =>
       settled <= gathered /\ (signaling = "callback" => settled < gathered)

IInv == TypeOK /\ Accounted /\ OnlyLateLeaks /\ NothingHalfDone /\ Order

-----------------------------------------------------------------------------
(* What SendSignalMessage adds to Sent and Described, sent or lost         *)
LEMMA KindCodes == KindCode["Offer"] = 0 /\ KindCode["ICECandidate"] = 2
  BY DEF KindCode

LEMMA HandedGrows ==
  ASSUME NEW kind, NEW content, SendSignalMessage(kind, content)
  PROVE  Handed' = Handed \cup {[Kind |-> KindCode[kind], Content |-> content]}
  BY DEF SendSignalMessage, Handed

LEMMA CandidateSent ==
  ASSUME gathered \in Candidates,
         SendSignalMessage("ICECandidate", [part |-> "candidate", candidate |-> gathered])
  PROVE  Sent' = Sent \cup {gathered} /\ (Described => Described')
<1>1. Handed' = Handed \cup {CandidateMessage(gathered)}
  BY HandedGrows DEF CandidateMessage
<1>2. ASSUME NEW c, CandidateMessage(c) = CandidateMessage(gathered) PROVE c = gathered
  <2>1. CandidateMessage(c).Content.candidate = c
    BY DEF CandidateMessage
  <2>2. CandidateMessage(gathered).Content.candidate = gathered
    BY DEF CandidateMessage
  <2> QED BY <1>2, <2>1, <2>2
<1>3. ASSUME NEW c \in Candidates PROVE CandidateMessage(c) \in Handed' <=> CandidateMessage(c) \in Handed \/ c = gathered
  BY <1>1, <1>2
<1>4. Sent' = {c \in Candidates : CandidateMessage(c) \in Handed'}
  BY DEF Sent, CandidateMessage, Candidates
<1> QED BY <1>1, <1>3, <1>4 DEF Sent, Described, Descriptions

LEMMA DescriptionSent ==
  ASSUME NEW type \in {"offer", "answer"},
         SendSignalMessage("Offer", [part |-> "description", type |-> SdpType[type]])
  PROVE  Sent' = Sent /\ Described'
<1> DEFINE m == [Kind |-> KindCode["Offer"], Content |-> [part |-> "description", type |-> SdpType[type]]]
<1>1. Handed' = Handed \cup {m}
  BY HandedGrows
<1>2. ASSUME NEW c PROVE CandidateMessage(c) # m
  <2>1. CandidateMessage(c).Kind = 2 /\ m.Kind = 0
    BY KindCodes DEF CandidateMessage
  <2> QED BY <2>1
<1>3. Sent' = {c \in Candidates : CandidateMessage(c) \in Handed'}
  BY DEF Sent, CandidateMessage, Candidates
<1>4. Sent' = Sent
  BY <1>1, <1>2, <1>3 DEF Sent
<1>5. SdpType[type] \in 0 .. 3
  BY DEF SdpType
<1>6. m.Content \in Descriptions
  BY <1>5 DEF Descriptions
<1>7. m \in Handed'
  BY <1>1
<1>8. Described' = \E n \in Handed' : n.Content \in Descriptions
  BY DEF Described, Descriptions
<1> QED BY <1>4, <1>6, <1>7, <1>8

LEMMA NothingSent ==
  ASSUME UNCHANGED messages
  PROVE  Sent' = Sent /\ Described' = Described
  BY DEF messages, Sent, Described, Handed, CandidateMessage, Candidates, Descriptions

(* A message that is sent is one of Messages                               *)
LEMMA MessageTyped ==
  ASSUME wire \subseteq Messages, lost \subseteq Messages,
         NEW kind \in {"Offer", "ICECandidate"}, NEW content \in Contents,
         SendSignalMessage(kind, content)
  PROVE  wire' \subseteq Messages /\ lost' \subseteq Messages
<1>1. KindCode[kind] \in 0 .. 2
  BY KindCodes
<1>2. [Kind |-> KindCode[kind], Content |-> content] \in Messages
  BY <1>1 DEF Messages
<1> QED BY <1>2 DEF SendSignalMessage

(* The numbers among the types                                             *)
LEMMA Numbers ==
  ASSUME IInv
  PROVE  /\ gathered \in Nat /\ gathered <= MaxCandidates /\ settled \in Nat /\ MaxCandidates \in Nat
         /\ signaling \in {"idle", "callback"}
         /\ signaling = "callback" => gathered \in 1 .. gathered /\ gathered >= 1
<1>1. gathered \in 0 .. MaxCandidates /\ settled \in 0 .. MaxCandidates /\ signaling \in {"idle", "callback"}
  BY Zenon DEF IInv, TypeOK
<1>2. signaling = "callback" => gathered \in 1 .. gathered
  BY DEF IInv, Accounted, Waiting
<1> QED BY <1>1, <1>2, BoundsAssumption

-----------------------------------------------------------------------------
LEMMA InitInv == Init => IInv
<1> SUFFICES ASSUME Init PROVE IInv
  OBVIOUS
<1>0. 0 \in 0 .. MaxCandidates
  BY BoundsAssumption
<1>1. TypeOK
  BY <1>0 DEF Init, TypeOK
<1>2. Sent = {} /\ Waiting = {}
  BY DEF Init, Sent, Handed, Waiting
<1>3. 1 .. gathered = {}
  BY DEF Init
<1> QED BY <1>1, <1>2, <1>3 DEF Init, IInv, Accounted, OnlyLateLeaks, NothingHalfDone, Order

(* The steps that change neither a candidate nor what was sent             *)
LEMMA OtherStep ==
  ASSUME IInv, UNCHANGED <<candidateVars, messages, signaling>>, TypeOK',
         life \in {"closing", "gone"} \/ life' \notin {"closing", "gone"},
         local' => local \/ app' \in {"offer", "answer"},
         fresh' => fresh \/ app' \in {"offer", "answer"}, local => local',
         app' = app \/ app \notin {"offer", "answer"}
  PROVE  IInv'
<1>1. Sent' = Sent /\ Described' = Described
  BY NothingSent
<1>2. UNCHANGED <<gathered, pending, added, freed, settled, signaling>> /\ Waiting' = Waiting
  BY DEF candidateVars, Waiting
<1>3. Accounted'
  BY <1>1, <1>2 DEF IInv, Accounted
<1>4. OnlyLateLeaks'
  BY <1>2 DEF IInv, OnlyLateLeaks, TypeOK
<1>5. Order' /\ NothingHalfDone'
  BY <1>1, <1>2 DEF IInv, Order, NothingHalfDone
<1> QED BY <1>3, <1>4, <1>5 DEF IInv

LEMMA CreateStep == ASSUME IInv, NEW ok \in BOOLEAN, SendOffer(ok) \/ SendAnswer(ok) PROVE IInv'
<1>1. TypeOK'
  BY DEF IInv, TypeOK, SendOffer, SendAnswer, Enter, Return, candidateVars, messages, sdpVars
<1>2. /\ UNCHANGED <<candidateVars, messages, signaling, life, local, fresh>>
      /\ app = "idle"
  BY DEF SendOffer, SendAnswer, Idle, Called, sdpVars
<1> QED BY <1>1, <1>2, OtherStep

LEMMA ApplyStep == ASSUME IInv, NEW ok \in BOOLEAN, ApplyCreated(ok) PROVE IInv'
<1>1. TypeOK'
  BY DEF IInv, TypeOK, ApplyCreated, SetLocal, Enter, Return, candidateVars, messages
<1>2. /\ UNCHANGED <<candidateVars, messages, signaling, life>> /\ app \notin {"offer", "answer"}
      /\ \/ local' = local /\ fresh' = fresh
         \/ local' = TRUE /\ app' \in {"offer", "answer"}
  BY DEF ApplyCreated, SetLocal, Enter
<1> QED BY <1>1, <1>2, OtherStep

LEMMA ReceiveStep == ASSUME IInv, NEW json \in Incoming, Receive(json) PROVE IInv'
<1> DEFINE content == json.Content
<1>1. content \in Contents
  BY DEF Incoming
<1>2. CASE AddICECandidate(content)
  <2>0. app = "idle" /\ app' = "idle" /\ ret' \in {"0", "-1", "thrown"}
    BY <1>2 DEF AddICECandidate, Idle, Called, Unread, Return
  <2>1. TypeOK'
    BY <1>2, <2>0 DEF IInv, TypeOK, AddICECandidate, candidateVars, messages, sdpVars
  <2> QED BY <1>2, <2>0, <2>1, OtherStep DEF AddICECandidate, sdpVars
<1>3. ASSUME NEW ok \in BOOLEAN, SetLocalDescription(content, ok) PROVE IInv'
  <2>1. content.part = "description" => content \in Descriptions
    BY <1>1 DEF Contents, CandidateContents, Unreadable
  <2>2. ret' \in {"0", "-1", "thrown"} /\ app' = "idle"
    BY <1>3, <2>1 DEF SetLocalDescription, JsonToContent, Unread, Return
  <2>3. /\ UNCHANGED <<built, life, signaling, mux, candidateVars, messages, local, fresh>>
        /\ app = "idle" /\ remote' \in BOOLEAN
        /\ negotiation' \in {"stable", "have-local-offer", "have-remote-offer"}
    BY <1>3 DEF SetLocalDescription, Idle, Called, sdpVars, IInv, TypeOK
  <2>4. TypeOK'
    BY <2>2, <2>3 DEF IInv, TypeOK, candidateVars, messages
  <2> QED BY <2>2, <2>3, <2>4, OtherStep
<1>4. CASE Idle /\ (\E value \in {"false", "thrown"} : Return(value))
           /\ UNCHANGED <<built, life, signaling, mux, sdpVars, candidateVars, messages>>
  <2>1. TypeOK'
    BY <1>4 DEF IInv, TypeOK, Idle, Return, candidateVars, messages, sdpVars
  <2> QED BY <1>4, <2>1, OtherStep DEF Idle, Return, sdpVars
<1> QED BY <1>2, <1>3, <1>4 DEF Receive

LEMMA CallStep ==
  ASSUME IInv, (\E ok \in BOOLEAN : SendMessage(ok)) \/ SendPendingICECandidates \/ PendingDone
               \/ Close \/ OnConnectionStateChange
  PROVE  IInv'
<1>1. TypeOK'
  BY DEF IInv, TypeOK, SendMessage, SendPendingICECandidates, PendingDone, Close,
         OnConnectionStateChange, Enter, Return, candidateVars, messages, sdpVars
<1> QED BY <1>1, OtherStep DEF SendMessage, SendPendingICECandidates, PendingDone, Close,
         OnConnectionStateChange, Idle, Called, Enter, Return, sdpVars

LEMMA SendDescriptionStep == ASSUME IInv, SendDescription PROVE IInv'
<1>1. app \in {"offer", "answer"} /\ SdpType[app] \in 0 .. 3
  BY DEF SendDescription, SdpType
<1>2. Sent' = Sent /\ Described'
  BY <1>1, DescriptionSent DEF SendDescription
<1>3. [part |-> "description", type |-> SdpType[app]] \in Contents
  BY <1>1 DEF Contents, Descriptions
<1>4. wire' \subseteq Messages /\ lost' \subseteq Messages
  BY <1>3, MessageTyped DEF IInv, TypeOK, SendDescription
<1>5. TypeOK'
  BY <1>4 DEF IInv, TypeOK, SendDescription, Return, candidateVars
<1>6. /\ UNCHANGED <<gathered, pending, added, freed, settled, life, local, signaling>>
      /\ Waiting' = Waiting /\ fresh' = FALSE
  BY DEF SendDescription, candidateVars, Waiting
<1> QED BY <1>2, <1>5, <1>6 DEF IInv, Accounted, OnlyLateLeaks, NothingHalfDone, Order

LEMMA AddOwnStep == ASSUME IInv, NEW c \in Candidates, AddOwn(c) PROVE IInv'
<1>1. TypeOK'
  BY DEF IInv, TypeOK, AddOwn, messages, sdpVars
<1>2. Sent' = Sent /\ Described' = Described
  BY NothingSent DEF AddOwn
<1>3. /\ c \in pending /\ added' = added \cup {c} /\ pending' = pending \ {c}
      /\ UNCHANGED <<gathered, freed, settled, local, fresh, app, life, signaling>> /\ Waiting' = Waiting
  BY DEF AddOwn, sdpVars, Waiting
<1>4. Accounted'
  BY <1>2, <1>3 DEF IInv, Accounted
<1>5. OnlyLateLeaks'
  BY <1>3 DEF IInv, OnlyLateLeaks
<1> QED BY <1>1, <1>2, <1>3, <1>4, <1>5 DEF IInv, Order, NothingHalfDone

LEMMA DestroyStep == ASSUME IInv, Destroy PROVE IInv'
<1>1. Sent' = Sent /\ Described' = Described
  BY NothingSent DEF Destroy
<1>2. /\ freed' = freed \cup pending /\ pending' = {}
      /\ settled' = gathered - (IF signaling = "callback" THEN 1 ELSE 0)
      /\ UNCHANGED <<gathered, added, local, fresh, app, signaling>> /\ Waiting' = Waiting
  BY DEF Destroy, Idle, sdpVars, Waiting
<1>3. gathered \in Nat /\ (signaling = "callback" => gathered >= 1)
  BY Numbers
<1>4. settled' \in 0 .. gathered /\ (signaling = "callback" => settled' < gathered)
  BY <1>2, <1>3
<1>5. settled' \in 0 .. MaxCandidates
  BY <1>4, Numbers
<1>6. TypeOK'
  BY <1>2, <1>5 DEF IInv, TypeOK, Destroy, Idle, messages, sdpVars
<1>7. Accounted'
  BY <1>1, <1>2 DEF IInv, Accounted
<1> QED BY <1>1, <1>2, <1>4, <1>6, <1>7 DEF IInv, Order, OnlyLateLeaks, NothingHalfDone

LEMMA GatherStep == ASSUME IInv, Gather PROVE IInv'
<1>0. gathered' \in 0 .. MaxCandidates
  BY Numbers DEF Gather
<1>1. TypeOK'
  BY <1>0 DEF IInv, TypeOK, Gather, messages, sdpVars
<1>2. Sent' = Sent /\ Described' = Described
  BY NothingSent DEF Gather
<1>3. /\ gathered \in Nat /\ gathered' = gathered + 1 /\ local
      /\ UNCHANGED <<pending, added, freed, settled, local, fresh, app, life>>
      /\ Waiting = {} /\ Waiting' = {gathered + 1}
  BY Numbers DEF Gather, sdpVars, Waiting
<1>4. 1 .. gathered' = (1 .. gathered) \cup {gathered + 1} /\ gathered + 1 \notin 1 .. gathered
  BY <1>3
<1>5. Accounted'
  BY <1>2, <1>3, <1>4 DEF IInv, Accounted
<1>6. life \in {"closing", "gone"} => settled < gathered'
  BY <1>3, Numbers DEF IInv, Order
<1>7. Order'
  BY <1>2, <1>3, <1>6, Numbers DEF IInv, Order
<1> QED BY <1>1, <1>3, <1>5, <1>7 DEF IInv, OnlyLateLeaks, NothingHalfDone

LEMMA OnICECandidateStep == ASSUME IInv, OnICECandidate PROVE IInv'
<1>1. Waiting = {gathered} /\ Waiting' = {}
  BY DEF OnICECandidate, Waiting
<1>2. gathered \in 1 .. gathered /\ gathered \in Candidates
  BY Numbers DEF OnICECandidate, Candidates
<1>3. /\ UNCHANGED <<gathered, added, freed, settled, local, fresh, app, life>>
      /\ signaling = "callback" /\ signaling' = "idle"
  BY DEF OnICECandidate, sdpVars
<1>4. life \in {"closing", "gone"} => settled < gathered
  BY <1>3 DEF IInv, Order
<1>5. CASE remote
  <2>1. Sent' = Sent \cup {gathered} /\ (Described => Described') /\ pending' = pending
    BY <1>2, <1>5, CandidateSent DEF OnICECandidate
  <2>2. [part |-> "candidate", candidate |-> gathered] \in Contents
    BY <1>2 DEF Contents, CandidateContents
  <2>3. wire' \subseteq Messages /\ lost' \subseteq Messages
    BY <1>5, <2>2, MessageTyped DEF IInv, TypeOK, OnICECandidate
  <2>4. TypeOK'
    BY <1>5, <2>3 DEF IInv, TypeOK, OnICECandidate, sdpVars
  <2>5. Accounted'
    BY <1>1, <1>2, <1>3, <2>1 DEF IInv, Accounted
  <2>6. OnlyLateLeaks'
    BY <1>3, <2>1 DEF IInv, OnlyLateLeaks
  <2> QED BY <1>3, <2>1, <2>4, <2>5, <2>6 DEF IInv, Order, NothingHalfDone
<1>6. CASE ~remote
  <2>1. Sent' = Sent /\ Described' = Described /\ pending' = pending \cup {gathered}
    BY <1>6, NothingSent DEF OnICECandidate
  <2>2. TypeOK'
    BY <1>2, <1>6 DEF IInv, TypeOK, OnICECandidate, sdpVars, messages
  <2>3. Accounted'
    BY <1>1, <1>2, <1>3, <2>1 DEF IInv, Accounted
  <2>4. OnlyLateLeaks'
    BY <1>3, <1>4, <2>1 DEF IInv, OnlyLateLeaks
  <2> QED BY <1>3, <2>1, <2>2, <2>3, <2>4 DEF IInv, Order, NothingHalfDone
<1> QED BY <1>5, <1>6

LEMMA NextInv == IInv /\ [Next]_vars => IInv'
<1> SUFFICES ASSUME IInv, [Next]_vars PROVE IInv'
  OBVIOUS
<1>1. CASE Application
  BY <1>1, CreateStep, ReceiveStep, CallStep, DestroyStep DEF Application
<1>2. CASE SendDescription \/ Gather \/ OnICECandidate
  BY <1>2, SendDescriptionStep, GatherStep, OnICECandidateStep
<1>3. ASSUME NEW c \in Candidates, AddOwn(c) PROVE IInv'
  BY <1>3, AddOwnStep
<1>6. ASSUME NEW ok \in BOOLEAN, ApplyCreated(ok) PROVE IInv'
  BY <1>6, ApplyStep
<1>4. CASE PendingDone \/ Close \/ OnConnectionStateChange
  BY <1>4, CallStep
<1>5. CASE UNCHANGED vars
  <2>1. TypeOK'
    <3>1. UNCHANGED <<built, life, app, ret, signaling, mux, negotiation, local, fresh, remote>>
      BY <1>5, Zenon DEF vars, sdpVars
    <3>2. UNCHANGED <<gathered, pending, added, freed, settled, wire, lost>>
      BY <1>5, Zenon DEF vars, candidateVars, messages
    <3>3. TypeOK
      BY DEF IInv
    <3>4. /\ built' \in {"nothing", "connection", "channel"}
          /\ life' \in {"alive", "closing", "gone", "exited"}
          /\ app' \in {"idle", "created offer", "created answer", "offer", "answer", "pending"}
          /\ ret' \in {"none", "0", "-1", "false", "thrown"}
      BY ONLY <3>1, <3>3 DEF TypeOK
    <3> QED BY ONLY <3>1, <3>2, <3>3, <3>4 DEF TypeOK
  <2> QED BY <1>5, <2>1, OtherStep DEF vars, sdpVars
<1> QED BY <1>1, <1>2, <1>3, <1>4, <1>5, <1>6 DEF Next

LEMMA Invariance == Spec => []IInv
  BY InitInv, NextInv, PTL DEF Spec

-----------------------------------------------------------------------------
(* The types, for any number of candidates.                                *)
THEOREM TypeCorrect == Spec => []TypeOK
<1>1. IInv => TypeOK
  BY DEF IInv
<1> QED BY <1>1, Invariance, PTL

(* No candidate is lost between OnICECandidate, SendPendingICECandidates   *)
(* and the destructor, and none is used twice.                             *)
THEOREM CandidatesAccounted == Spec => []Accounted
<1>1. IInv => Accounted
  BY DEF IInv
<1> QED BY <1>1, Invariance, PTL

(* A candidate overtakes at most the description being sent.               *)
THEOREM DescriptionsLead == Spec => []DescribedFirst
<1>1. IInv => DescribedFirst
  <2>1. SUFFICES ASSUME IInv, Sent # {} PROVE Described \/ app \in {"offer", "answer"}
    BY DEF DescribedFirst
  <2>2. gathered # 0
    BY <2>1 DEF IInv, Accounted
  <2> QED BY <2>1, <2>2 DEF IInv, Order
<1> QED BY <1>1, Invariance, PTL

(* What the destructor leaves behind came after it had the lock: all that  *)
(* was pending then is freed.                                              *)
THEOREM LeaksAreLate == Spec => []OnlyLateLeaks
<1>1. IInv => OnlyLateLeaks
  BY DEF IInv
<1> QED BY <1>1, Invariance, PTL

(* A description that was set was given to the server, or is about to be,  *)
(* wherever SendOffer or SendAnswer failed.                                *)
THEOREM FailuresHarmless == Spec => []NothingHalfDone
<1>1. IInv => NothingHalfDone
  BY DEF IInv
<1> QED BY <1>1, Invariance, PTL
=============================================================================
