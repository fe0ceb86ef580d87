-------------------------- MODULE ShareRTCConnection --------------------------
(***************************************************************************)
(* peerconnection/src/sharertc_connection.{h,cc}: the client of the HTTP   *)
(* signalling server. Requests go over control_socket_, one connection     *)
(* each; hanging_get_ keeps a "wait" request open for notifications.       *)
(*                                                                         *)
(* Everything runs on one thread, so a call, a callback of the resolver or *)
(* of a socket, and the delayed DoConnect are one action each. Sockets and *)
(* server are external: a connection is refused, established, answered and *)
(* closed, at any moment. RTC_DCHECK is nothing in a release build, and    *)
(* what it states is never a guard here.                                   *)
(*                                                                         *)
(* Responses are taken when they are complete. What a half of a response,  *)
(* left in control_data_ or notification_data_ by a closed connection,     *)
(* does to the next one is left out.                                       *)
(***************************************************************************)
EXTENDS Naturals

CONSTANTS
  Peers,       (* the other members, their ids                             *)
  MaxSignIns,  (* BOUND: sign-ins the server answers                       *)
  MaxTimers    (* BOUND: delayed DoConnects that wait at the same time     *)

ASSUME BoundsAssumption == MaxSignIns \in Nat /\ MaxTimers \in Nat

VARIABLES
  state,           (* state_                                               *)
  my_id,           (* my_id_, 0 for -1                                     *)
  control,         (* control_socket_, and what the server did on it       *)
  hanging,         (* hanging_get_, likewise                               *)
  onconnect_data,  (* onconnect_data_, the request in it                   *)
  nameless,        (* the answer to the sign-in had no id                  *)
  sent,            (* the request the server got on control_socket_        *)
  peers,           (* the keys of peers_                                   *)
  resolver,        (* resolver_                                            *)
  timers,          (* delayed DoConnects                                   *)
  assigned,        (* the id the server gave out last                      *)
  signedIn,        (* the application counts on a session: OnSignedIn came *)
                   (* and nothing after it said otherwise                  *)
  misled,          (* a Connect it made too early was answered like a      *)
                   (* session that failed                                  *)
  seen,            (* the peers it was told of and not told are gone       *)
  leaving,         (* it called SignOut after its last Connect             *)
  waitFailed,      (* hanging_get_'s last Connect failed at once           *)
  resolved         (* server_address_ is an address, not a mere name       *)

sockets == <<control, hanging, onconnect_data, sent>>
session == <<my_id, nameless>>
observer == <<signedIn, seen, misled>>
outside == <<timers, assigned, leaving, resolved>>
vars == <<state, session, sockets, peers, resolver, observer, waitFailed, outside>>

States == {"NOT_CONNECTED", "RESOLVING", "SIGNING_IN", "CONNECTED",
           "SIGNING_OUT_WAITING", "SIGNING_OUT"}

(* CS_CLOSED is "closed", CS_CONNECTED is "waiting" for the answer or       *)
(* "answered", and the server has not closed the connection yet.           *)
Sockets == {"null", "closed", "connecting", "waiting", "answered"}
Open == {"connecting", "waiting", "answered"}

Requests == {"none", "sign_in", "message", "sign_out"}

Init ==
  /\ state = "NOT_CONNECTED"
  /\ my_id = 0
  /\ control = "null"
  /\ hanging = "null"
  /\ onconnect_data = "none"
  /\ sent = "none"
  /\ peers = {}
  /\ resolver = "none"
  /\ timers = 0
  /\ assigned = 0
  /\ signedIn = FALSE
  /\ nameless = FALSE
  /\ misled = FALSE
  /\ seen = {}
  /\ leaving = FALSE
  /\ waitFailed = FALSE
  /\ resolved = FALSE

-----------------------------------------------------------------------------
(* Mutant of Close: the id is kept.                                        *)
CloseKeepsId ==
  /\ control' = "closed"
  /\ hanging' = "closed"
  /\ onconnect_data' = "none"
  /\ sent' = "none"
  /\ peers' = {}
  /\ resolver' = "none"
  /\ state' = "NOT_CONNECTED"
  /\ UNCHANGED <<session, waitFailed>>

Close ==
  /\ control' = "closed"
  /\ hanging' = "closed"
  /\ onconnect_data' = "none"
  /\ sent' = "none"
  /\ peers' = {}
  /\ resolver' = "none"
  /\ my_id' = 0 /\ nameless' = FALSE
  /\ state' = "NOT_CONNECTED"
  /\ UNCHANGED waitFailed

(* The application learns that the session is over: OnDisconnected,        *)
(* OnServerConnectionFailure, a result of false, or SignOut, its own wish. *)
Told == signedIn' = FALSE /\ misled' = FALSE /\ seen' = {}

(* ConnectControlSocket succeeds; when it fails it calls Close.            *)
ConnectControlSocket(request) ==
  /\ onconnect_data' = request
  /\ control' = "connecting"
  /\ sent' = "none"

(* hanging_get_->Connect, whose result nobody reads.                       *)
Listen ==
  \E ok \in BOOLEAN :
    /\ hanging' = IF ok THEN "connecting" ELSE "closed"
    /\ waitFailed' = ~ok

(* DoConnect makes two new sockets and forgets the old ones.               *)
DoConnect ==
  \/ /\ state' = "SIGNING_IN"
     /\ ConnectControlSocket("sign_in")
     /\ hanging' = "closed"
     /\ UNCHANGED <<session, peers, resolver, observer, waitFailed>>
  \/ Close /\ Told

-----------------------------------------------------------------------------
(* Connect of a client that is not down, or with an empty server or name   *)
(* (given is false): it calls OnServerConnectionFailure, as for a session  *)
(* that failed, and changes nothing.                                       *)
ConnectRefused(given) ==
  /\ state # "NOT_CONNECTED" \/ ~given
  /\ signedIn' = FALSE /\ seen' = {}
  /\ misled' = (state # "NOT_CONNECTED")
  /\ UNCHANGED <<state, session, sockets, peers, resolver, waitFailed, outside>>

(* Connect to an address that needs no resolving.                          *)
Connect ==
  /\ state = "NOT_CONNECTED"
  /\ leaving' = FALSE
  /\ resolved' = TRUE
  /\ DoConnect
  /\ UNCHANGED <<timers, assigned>>

(* Connect to a name.                                                      *)
ConnectByName ==
  /\ state = "NOT_CONNECTED"
  /\ state' = "RESOLVING"
  /\ resolver' = "pending"
  /\ leaving' = FALSE
  /\ resolved' = FALSE
  /\ UNCHANGED <<session, sockets, peers, timers, assigned, observer, waitFailed>>

(* OnResolveResult: an error, or no address.                               *)
ResolveFails ==
  /\ resolver = "pending"
  /\ resolver' = "none"
  /\ state' = "NOT_CONNECTED"
  /\ Told
  /\ UNCHANGED <<session, sockets, peers, waitFailed, outside>>

(* OnResolveResult: an address, whatever has become of the state.          *)
Resolved ==
  /\ resolver = "pending"
  /\ resolved' = TRUE
  /\ \/ /\ state' = "SIGNING_IN"
        /\ ConnectControlSocket("sign_in")
        /\ hanging' = "closed"
        /\ resolver' = "done"
        /\ UNCHANGED <<session, peers, observer, waitFailed>>
     \/ Close /\ Told
  /\ UNCHANGED <<timers, assigned, leaving>>

(* The delay of a DoConnect is over. No socket can be made for a name: the *)
(* model goes on only where there is an address.                           *)
RetryDue ==
  /\ timers > 0
  /\ resolved
  /\ timers' = timers - 1
  /\ DoConnect
  /\ UNCHANGED <<assigned, leaving, resolved>>

(* SendToPeer and SendHangUp, of a caller that asked IsSendingMessage.     *)
SendToPeer ==
  /\ state = "CONNECTED"
  /\ control = "closed"
  /\ my_id # 0
  /\ \/ /\ ConnectControlSocket("message")
        /\ UNCHANGED <<state, session, hanging, peers, resolver, observer, waitFailed>>
     \/ Close /\ Told
  /\ UNCHANGED outside

(* Mutant of DoSignOut: it signs out without an id as well.                *)
DoSignOutAnyone(c) ==
  /\ c = "closed"
  /\ state' = "SIGNING_OUT"
  /\ hanging' = "closed"
  /\ ConnectControlSocket("sign_out")
  /\ UNCHANGED <<session, peers, resolver, waitFailed>>

(* What SignOut does when control_socket_ is c by now: it waits for an     *)
(* answer, has nobody to sign out, or signs out (or fails to, and closes). *)
DoSignOut(c) ==
  \/ /\ c # "closed"
     /\ state' = "SIGNING_OUT_WAITING"
     /\ hanging' = "closed"
     /\ control' = c
     /\ UNCHANGED <<session, onconnect_data, sent, peers, resolver, waitFailed>>
  \/ /\ c = "closed" /\ my_id = 0
     /\ state' = "SIGNING_OUT"
     /\ hanging' = "closed"
     /\ control' = c
     /\ UNCHANGED <<session, onconnect_data, sent, peers, resolver, waitFailed>>
  \/ /\ c = "closed" /\ my_id # 0
     /\ state' = "SIGNING_OUT"
     /\ hanging' = "closed"
     /\ ConnectControlSocket("sign_out")
     /\ UNCHANGED <<session, peers, resolver, waitFailed>>
  \/ /\ c = "closed" /\ my_id # 0
     /\ Close

(* Mutant of SignOut: hanging_get_ is left open.                           *)
SignOutKeepsWaiting ==
  /\ state \notin {"NOT_CONNECTED", "SIGNING_OUT"}
  /\ hanging # "null"
  /\ control # "closed"
  /\ state' = "SIGNING_OUT_WAITING"
  /\ leaving' = TRUE
  /\ Told
  /\ UNCHANGED <<session, sockets, peers, resolver, waitFailed, timers, assigned, resolved>>

(* SignOut, of the application. It uses hanging_get_ whatever it is: the   *)
(* model goes on only where that is a socket.                              *)
SignOut ==
  /\ state \notin {"NOT_CONNECTED", "SIGNING_OUT"}
  /\ hanging # "null"
  /\ DoSignOut(control)
  /\ leaving' = TRUE
  /\ Told
  /\ UNCHANGED <<timers, assigned, resolved>>

-----------------------------------------------------------------------------
(* OnConnect: the request goes out.                                        *)
OnConnect ==
  /\ control = "connecting"
  /\ control' = "waiting"
  /\ sent' = onconnect_data
  /\ onconnect_data' = "none"
  /\ UNCHANGED <<state, session, hanging, peers, resolver, observer, waitFailed, outside>>

(* OnHangingGetConnect.                                                    *)
OnHangingGetConnect ==
  /\ hanging = "connecting"
  /\ hanging' = "waiting"
  /\ UNCHANGED <<state, session, control, onconnect_data, sent, peers, resolver, observer,
                 waitFailed, outside>>

(* Mutant of ControlRefused: a DoConnect for each of the sockets.          *)
ControlRefusedTwice ==
  /\ control = "connecting"
  /\ timers < MaxTimers
  /\ control' = "closed"
  /\ timers' = timers + 2
  /\ UNCHANGED <<state, session, hanging, onconnect_data, sent, peers, resolver, assigned,
                 observer, leaving, waitFailed, resolved>>

(* OnClose of control_socket_, connection refused: DoConnect in 2 seconds. *)
ControlRefused ==
  /\ control = "connecting"
  /\ timers < MaxTimers
  /\ control' = "closed"
  /\ timers' = timers + 1
  /\ UNCHANGED <<state, session, hanging, onconnect_data, sent, peers, resolver, assigned,
                 observer, leaving, waitFailed, resolved>>

(* The same, closed by the server or failed in another way: OnMessageSent. *)
ControlClosed ==
  /\ control \in Open
  /\ control' = "closed"
  /\ UNCHANGED <<state, session, hanging, onconnect_data, sent, peers, resolver, observer,
                 waitFailed, outside>>

(* OnClose of hanging_get_, connection refused.                            *)
HangingRefused ==
  /\ hanging = "connecting"
  /\ Close
  /\ Told
  /\ UNCHANGED outside

(* Mutant of HangingClosed: the client does not wait again.                *)
HangingClosedForGood ==
  /\ hanging \in Open
  /\ hanging' = "closed"
  /\ UNCHANGED <<state, session, control, onconnect_data, sent, peers, resolver, observer,
                 waitFailed, outside>>

(* The same, closed by the server or failed in another way.                *)
HangingClosed ==
  /\ hanging \in Open
  /\ IF state = "CONNECTED" THEN Listen ELSE hanging' = "closed" /\ UNCHANGED waitFailed
  /\ UNCHANGED <<state, session, control, onconnect_data, sent, peers, resolver, observer,
                 outside>>

-----------------------------------------------------------------------------
(* OnRead, a complete response with a status other than 200.               *)
ControlRejected ==
  /\ control = "waiting"
  /\ Close
  /\ Told
  /\ UNCHANGED outside

(* Where a response leaves control_socket_, by its Connection header.      *)
After(close) == IF close THEN "closed" ELSE "answered"

(* The server answers what it was asked: a new id for a sign_in.           *)
Assign ==
  /\ control = "waiting"
  /\ sent = "sign_in" => assigned < MaxSignIns
  /\ assigned' = IF sent = "sign_in" THEN assigned + 1 ELSE assigned

(* The end of OnRead: signed in, the client begins to wait.                *)
EndOfRead ==
  IF state = "SIGNING_IN"
  THEN state' = "CONNECTED" /\ Listen
  ELSE UNCHANGED <<state, hanging, waitFailed>>

(* Mutant of FirstAnswer: OnSignedIn is not called.                        *)
FirstAnswerUntold(list, close, pragma) ==
  /\ Assign
  /\ my_id = 0
  /\ my_id' = IF pragma THEN assigned' ELSE 0
  /\ nameless' = ~pragma
  /\ peers' = peers \cup list
  /\ seen' = seen \cup list
  /\ control' = After(close)
  /\ EndOfRead
  /\ UNCHANGED <<onconnect_data, sent, resolver, timers, signedIn, misled, leaving,
                 resolved>>

(* OnRead without an id yet: the Pragma header has it, the body the peers  *)
(* (its own entry, which the code tells by the id, is left out). An answer *)
(* without a Pragma leaves -1, and all goes on as if it had brought an id. *)
FirstAnswer(list, close, pragma) ==
  /\ Assign
  /\ my_id = 0
  /\ my_id' = IF pragma THEN assigned' ELSE 0
  /\ nameless' = ~pragma
  /\ peers' = peers \cup list
  /\ seen' = seen \cup list
  /\ signedIn' = TRUE /\ misled' = FALSE
  /\ control' = After(close)
  /\ EndOfRead
  /\ UNCHANGED <<onconnect_data, sent, resolver, timers, leaving, resolved>>

(* OnRead in SIGNING_OUT.                                                  *)
SignedOut ==
  /\ Assign
  /\ my_id # 0
  /\ state = "SIGNING_OUT"
  /\ Close
  /\ Told
  /\ UNCHANGED <<timers, leaving, resolved>>

(* OnRead in SIGNING_OUT_WAITING: SignOut, and nobody reads its result.    *)
SignOutAtLast(close) ==
  /\ Assign
  /\ my_id # 0
  /\ state = "SIGNING_OUT_WAITING"
  /\ DoSignOut(After(close))
  /\ UNCHANGED <<timers, observer, leaving, resolved>>

(* OnRead of any later response.                                           *)
LaterAnswer(close) ==
  /\ Assign
  /\ my_id # 0
  /\ state \notin {"SIGNING_OUT", "SIGNING_OUT_WAITING"}
  /\ control' = After(close)
  /\ EndOfRead
  /\ UNCHANGED <<session, onconnect_data, sent, peers, resolver, timers, observer,
                 leaving, resolved>>

-----------------------------------------------------------------------------
(* OnHangingGetRead, a complete response with a status other than 200.     *)
HangingRejected ==
  /\ hanging = "waiting"
  /\ Close
  /\ Told
  /\ UNCHANGED outside

(* What the server has to say to a member that waits: another one joined   *)
(* or left, or sent it something, a BYE or anything else.                  *)
News == {"joined", "left", "bye", "message"}

(* OnHangingGetRead. With a Connection header OnClose waits again before    *)
(* the response is looked at, or the last lines do after it.               *)
Notification(p, news, close) ==
  /\ hanging = "waiting"
  /\ peers' = CASE news = "joined" -> peers \cup {p}
                [] news = "left" -> peers \ {p}
                [] OTHER -> peers
  /\ seen' = CASE news = "joined" -> seen \cup {p}
               [] news \in {"left", "bye"} -> seen \ {p}
               [] OTHER -> seen
  /\ IF close /\ state = "CONNECTED"
     THEN Listen
     ELSE hanging' = After(close) /\ UNCHANGED waitFailed
  /\ UNCHANGED <<state, session, control, onconnect_data, sent, resolver, signedIn,
                 misled, outside>>

-----------------------------------------------------------------------------
CallNext ==
  \/ Connect \/ ConnectByName \/ SendToPeer \/ SignOut
  \/ \E given \in BOOLEAN : ConnectRefused(given)

ResolverNext == ResolveFails \/ Resolved

SocketNext ==
  \/ OnConnect \/ OnHangingGetConnect
  \/ ControlRefused \/ ControlClosed \/ HangingRefused \/ HangingClosed

ReadNext ==
  \/ ControlRejected \/ SignedOut \/ HangingRejected
  \/ \E close \in BOOLEAN :
       \/ SignOutAtLast(close)
       \/ LaterAnswer(close)
       \/ \E list \in SUBSET Peers, pragma \in BOOLEAN : FirstAnswer(list, close, pragma)
       \/ \E p \in Peers, news \in News : Notification(p, news, close)

Next == CallNext \/ ResolverNext \/ RetryDue \/ SocketNext \/ ReadNext

Spec == Init /\ [][Next]_vars

-----------------------------------------------------------------------------
TypeOK ==
  /\ state \in States
  /\ my_id \in Nat /\ assigned \in Nat
  /\ control \in Sockets /\ hanging \in Sockets
  /\ onconnect_data \in Requests /\ sent \in Requests
  /\ peers \subseteq Peers /\ seen \subseteq Peers
  /\ resolver \in {"none", "pending", "done"}
  /\ timers \in 0 .. MaxTimers
  /\ nameless \in BOOLEAN /\ misled \in BOOLEAN
  /\ signedIn \in BOOLEAN /\ leaving \in BOOLEAN
  /\ waitFailed \in BOOLEAN /\ resolved \in BOOLEAN

(* OnConnect finds a request to send (line 237), whichever of DoConnect,   *)
(* SendToPeer and SignOut began the connection, and whatever Close, retry  *)
(* or answer came since; and only a sign-in is answered without an id.     *)
RequestReady ==
  /\ control = "connecting" => onconnect_data # "none"
  /\ my_id = 0 /\ control = "connecting" => onconnect_data = "sign_in"
  /\ my_id = 0 /\ control = "waiting" => sent = "sign_in"

(* The "wait" request is open only while the client is CONNECTED: SignOut, *)
(* Close and a new DoConnect all end it. So it is closed at the end of a   *)
(* sign-in, which line 375 counts on.                                      *)
WaitOnlyConnected == hanging \in Open => state = "CONNECTED"

(* A connected client waits for notifications, through every answer and    *)
(* every loss of the connection it waits on, unless the socket refused to  *)
(* connect, which the code does not look at.                               *)
Listening == state = "CONNECTED" => hanging \in Open \/ waitFailed

(* A client that is not connected has nothing left of its last session: no *)
(* id, no peer, no resolver (line 115), no open socket, and no application *)
(* that counts on it. One that is connected has an id, unless the server   *)
(* answered its sign-in with none.                                         *)
CleanWhenDown ==
  /\ state = "CONNECTED" => my_id # 0 \/ nameless
  /\ state = "NOT_CONNECTED" =>
       /\ my_id = 0 /\ peers = {} /\ resolver = "none"
       /\ control \notin Open /\ hanging \notin Open
       /\ ~signedIn /\ seen = {}

(* The session and what the application knows of it do not drift apart: it *)
(* counts on a session only while there is one, be it without an id; it    *)
(* knows of every session it did not sign out of and was not misled about  *)
(* by a Connect made too early; every peer it knows of is in peers_.       *)
SessionKnown ==
  /\ signedIn => my_id # 0 \/ nameless
  /\ my_id # 0 => signedIn \/ leaving \/ misled
  /\ seen \subseteq peers

(* Line 339: the id comes while the client signs in.                       *)
IdWhileSigningIn ==
  [][my_id = 0 /\ my_id' # 0 => state = "SIGNING_IN"]_vars
=============================================================================
