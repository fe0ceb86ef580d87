------------------------------ MODULE GtkMainWnd -------------------------------
(***************************************************************************)
(* GtkMainWnd (peerconnection/src/linux/main_wnd.{h,cc}) and the loop that *)
(* pumps it (linux/main.cc): which widgets exist, what the idle callbacks  *)
(* do, what the user's keys and clicks ask of the Conductor. GTK is        *)
(* external: a window takes one widget and refuses the next; a destroyed   *)
(* widget stays behind in the callbacks that were given it. Release build: *)
(* an RTC_DCHECK that fails is passed over.                                *)
(***************************************************************************)
EXTENDS Naturals, Sequences, FiniteSets, Conductor

CONSTANT MaxIdle       \* bound: idle callbacks that wait when the user or the network acts

VARIABLES
  window,            \* window_ is not null
  vbox,              \* vbox_, with server_edit_, port_edit_ and the button
  peer_list,         \* peer_list_
  draw_area,         \* draw_area_
  child,             \* the one widget that is in the window, by the pointer that
                     \* names it; "lost": the pointer was given another widget
  left,              \* SwitchToConnectUI has found a widget it left in the window
  sensitive,         \* the Connect buttons that can be clicked, by their boxes
  rows,              \* the peers in the list, below its caption
  idle,              \* GTK's idle callbacks, each with what it was given: a widget
                     \* that a pointer names, one that none does or that is gone
  wait,              \* where Wait is: it pumps GTK's events, has gone on to the
                     \* sockets, or is there in the event loop of a dialog
  said,              \* what this step calls of MainWndCallback, or "none"
  asked,             \* the user interface Conductor switched to last
  autoconnect, autocall,
  life               \* of the process

shapes == <<vbox, peer_list, draw_area, child, left, rows, asked>>
widgets == <<shapes, sensitive>>
gtkVars == <<window, widgets, idle, wait, said, autoconnect, autocall, life>>
vars == <<gtkVars, conductorVars>>

Click == [op |-> "SimulateButtonClick", of |-> "vbox"]
LastRow == [op |-> "SimulateLastRowActivated", of |-> "peer_list"]
Callback == [op |-> "HandleUIThreadCallback", of |-> "data"]
Widgets == {"vbox", "peer_list", "draw_area"}
Lost == {"lost vbox", "lost draw_area"}

TypeOK ==
  /\ window \in BOOLEAN /\ vbox \in BOOLEAN /\ peer_list \in BOOLEAN /\ draw_area \in BOOLEAN
  /\ child \in Widgets \cup Lost \cup {"none"} /\ left \in BOOLEAN
  /\ sensitive \subseteq {"vbox", "lost vbox"} /\ rows \in Seq(PeerIds)
  /\ idle \in Seq([op : {Click.op, LastRow.op, Callback.op},
                   of : {"vbox", "lost vbox", "peer_list", "outside", "gone", "data"}])
  /\ wait \in {"pump", "sockets", "dialog"}
  /\ asked \in UI /\ life \in {"running", "quit", "crashed"}
  /\ ConductorTypeOK

(* The constructor and Create                                              *)
Init ==
  /\ ConductorInit
  /\ autoconnect \in BOOLEAN /\ autocall \in BOOLEAN
  /\ window = TRUE /\ vbox = TRUE /\ peer_list = FALSE /\ draw_area = FALSE
  /\ child = "vbox" /\ left = FALSE
  /\ sensitive = {"vbox"} /\ rows = <<>>
  /\ idle = IF autoconnect THEN <<Click>> ELSE <<>>
  /\ wait = "pump" /\ said = [op |-> "none"] /\ asked = "CONNECT_TO_SERVER"
  /\ life = "running"

IsWindow == window
current_ui ==
  IF vbox THEN "CONNECT_TO_SERVER" ELSE IF peer_list THEN "LIST_PEERS" ELSE "STREAMING"

-----------------------------------------------------------------------------
(* The window holds one widget: gtk_container_add leaves the next outside. *)
(* What happens to a widget happens to the callbacks that were given it.   *)
Added(w, c) == IF window /\ c = "none" THEN w ELSE c
Without(w, c) == IF c = w THEN "none" ELSE c
Renamed(q, w, name) == [i \in DOMAIN q |-> IF q[i].of = w THEN [q[i] EXCEPT !.of = name] ELSE q[i]]
Emptied == rows' = IF peer_list THEN <<>> ELSE rows

(* The switches, when the idle callbacks are q                             *)
SwitchToConnectUI(q) ==
  /\ want' = "CONNECT_TO_SERVER"
  /\ peer_list' = FALSE /\ Emptied
  /\ left' = (left \/ Without("peer_list", child) # "none")
  /\ vbox' = TRUE
  /\ child' = Added("vbox", IF child = "vbox" THEN "lost vbox" ELSE Without("peer_list", child))
  /\ sensitive' = {"vbox"} \cup IF child = "vbox" /\ "vbox" \in sensitive THEN {"lost vbox"}
                               ELSE sensitive
  /\ idle' = Renamed(Renamed(q, "peer_list", "gone"), "vbox",
                     IF child = "vbox" THEN "lost vbox" ELSE "outside")
               \o IF autoconnect THEN <<Click>> ELSE <<>>
  /\ UNCHANGED draw_area

InOrder(ids) == {s \in [1 .. Cardinality(ids) -> ids] : \A i, j \in DOMAIN s : i < j => s[i] < s[j]}
Autocall == IF autocall /\ peers' # {} THEN <<LastRow>> ELSE <<>>

(* Mutant of SwitchToPeerList: the rows of the old list are left.          *)
SwitchToPeerListAppends(q) ==
  /\ want' = "LIST_PEERS" /\ peer_list' = TRUE
  /\ \E r \in InOrder(peers') : rows' = rows \o r
  /\ vbox' = FALSE /\ draw_area' = FALSE
  /\ child' = Added("peer_list", Without("vbox", Without("draw_area", child)))
  /\ idle' = Renamed(q, "vbox", "gone") \o Autocall
  /\ UNCHANGED <<sensitive, left>>

(* Mutant of SwitchToPeerList: vbox_ is not destroyed.                     *)
SwitchToPeerListKeepsBox(q) ==
  /\ want' = "LIST_PEERS" /\ peer_list' = TRUE
  /\ rows' \in InOrder(peers') /\ vbox' = FALSE /\ draw_area' = FALSE
  /\ child' = Added("peer_list", Without("draw_area", child))
  /\ idle' = q \o Autocall /\ UNCHANGED <<sensitive, left>>

(* Mutant of SwitchToPeerList: draw_area_ keeps its pointer.               *)
SwitchToPeerListKeepsArea(q) ==
  /\ want' = "LIST_PEERS" /\ peer_list' = TRUE
  /\ rows' \in InOrder(peers') /\ vbox' = FALSE /\ UNCHANGED draw_area
  /\ child' = Added("peer_list", Without("vbox", Without("draw_area", child)))
  /\ idle' = Renamed(q, "vbox", "gone") \o Autocall /\ UNCHANGED <<sensitive, left>>

SwitchToPeerList(q) ==
  /\ want' = "LIST_PEERS" /\ peer_list' = TRUE
  /\ rows' \in InOrder(peers')
  /\ \/ /\ ~peer_list /\ vbox /\ vbox' = FALSE /\ UNCHANGED draw_area
        /\ child' = Added("peer_list", Without("vbox", child))
        /\ idle' = Renamed(q, "vbox", "gone") \o Autocall
     \/ /\ ~peer_list /\ ~vbox /\ draw_area' = FALSE /\ UNCHANGED vbox
        /\ child' = Added("peer_list", Without("draw_area", child))
        /\ idle' = q \o Autocall
     \/ peer_list /\ idle' = q \o Autocall /\ UNCHANGED <<vbox, draw_area, child>>
  /\ UNCHANGED <<sensitive, left>>

SwitchToStreamingUI(q) ==
  /\ want' = "STREAMING"
  /\ peer_list' = FALSE /\ Emptied /\ draw_area' = TRUE
  /\ child' = Added("draw_area", IF child = "draw_area" THEN "lost draw_area"
                                  ELSE Without("peer_list", child))
  /\ idle' = Renamed(q, "peer_list", "gone")
  /\ UNCHANGED <<vbox, sensitive, left>>

(* What Conductor makes of this step, when the idle callbacks are q        *)
Switch(q) ==
  \/ want' \notin UI /\ idle' = q /\ UNCHANGED widgets
  \/ /\ want' \in UI /\ asked' = want'
     /\ SwitchToConnectUI(q) \/ SwitchToPeerList(q) \/ SwitchToStreamingUI(q)

Say(op) == said' = [op |-> op]
Quiet == Nothing /\ Say("none")

(* The handlers of the window's events; q: the idle callbacks              *)
OnClicked(q) ==      \* reads the text of server_edit_, which may be null
  /\ \/ vbox /\ Say("StartLogin") /\ StartLogin /\ UNCHANGED life
     \/ ~vbox /\ Quiet /\ life' = "crashed"
  /\ idle' = q
  /\ UNCHANGED <<window, shapes, wait, autoconnect, autocall>>

ClickButton(b, q) == sensitive' = sensitive \ {b} /\ OnClicked(q)

OnRowActivated(q, i) ==      \* 0 is the caption, which has no peer
  /\ IF i = 0 THEN Quiet
     ELSE said' = [op |-> "ConnectToPeer", id |-> rows[i]] /\ ConnectToPeer
  /\ Switch(q)
  /\ UNCHANGED <<window, wait, autoconnect, autocall, life>>

OnEscape ==
  /\ \/ draw_area /\ Say("DisconnectFromCurrentPeer") /\ DisconnectFromCurrentPeer(window)
     \/ ~draw_area /\ peer_list /\ Say("DisconnectFromServer") /\ DisconnectFromServer
  /\ Switch(idle)
  /\ UNCHANGED <<window, wait, autoconnect, autocall, life>>

OnReturn == vbox /\ OnClicked(idle) /\ UNCHANGED sensitive
OnKeyPress == OnEscape \/ OnReturn

(* The widget in the window goes with it; what was outside is still there. *)
OnDestroyed ==
  /\ Say("Close") /\ CloseConductor
  /\ window' = FALSE /\ child' = "none" /\ sensitive' = {}
  /\ vbox' = FALSE /\ peer_list' = FALSE /\ draw_area' = FALSE
  /\ rows' = IF child = "peer_list" THEN <<>> ELSE rows
  /\ idle' = Renamed(Renamed(Renamed(idle, child, "gone"), "vbox", "outside"),
                     "peer_list", "outside")
  /\ UNCHANGED <<left, asked, wait, autoconnect, autocall, life>>

(* The mouse reaches what is in the window, the keys what has a pointer    *)
UserActs ==
  /\ life = "running" /\ wait = "pump" /\ window /\ Len(idle) < MaxIdle
  /\ \/ child \in sensitive /\ ClickButton(child, idle)
     \/ child = "peer_list" /\ \E i \in 0 .. Len(rows) : OnRowActivated(idle, i)
     \/ OnKeyPress \/ OnDestroyed

-----------------------------------------------------------------------------
(* Wait runs the idle callbacks. One whose widget was destroyed finds no   *)
(* object of its type, or memory that is something else by now.            *)
StaleIdle ==
  /\ Head(idle).of = "gone"
  /\ life' \in {"running", "crashed"} /\ idle' = Tail(idle)
  /\ Quiet /\ UNCHANGED <<window, widgets, wait, autoconnect, autocall>>

ButtonClicked ==      \* sensitive or not
  /\ Head(idle).op = Click.op /\ Head(idle).of # "gone"
  /\ ClickButton(Head(idle).of, Tail(idle))

LastRowActivated ==
  /\ Head(idle).op = LastRow.op /\ Head(idle).of # "gone"
  /\ OnRowActivated(Tail(idle), Len(rows))

UIThreadCallback ==      \* PEER_CONNECTION_CLOSED
  /\ Head(idle) = Callback
  /\ PeerConnectionClosed(window) /\ Say("none") /\ Switch(Tail(idle))
  /\ UNCHANGED <<window, wait, autoconnect, autocall, life>>

RunIdle ==
  /\ life = "running" /\ wait \in {"pump", "dialog"} /\ idle # <<>>
  /\ StaleIdle \/ ButtonClicked \/ LastRowActivated \/ UIThreadCallback

(* No events are left: Wait goes on to the sockets, or ends the loop       *)
PumpDone ==
  /\ life = "running" /\ wait = "pump" /\ idle = <<>>
  /\ IF ~IsWindow /\ ~active /\ login # "yes"
     THEN life' = "quit" /\ UNCHANGED wait
     ELSE wait' = "sockets" /\ UNCHANGED life
  /\ Quiet /\ UNCHANGED <<window, widgets, idle, autoconnect, autocall>>

Network ==
  /\ life = "running" /\ wait = "sockets" /\ Len(idle) < MaxIdle
  /\ FromNetwork(IsWindow, current_ui) /\ Say("none") /\ Switch(idle)
  /\ wait' = IF want' = "MessageBox" THEN "dialog" ELSE wait
  /\ UNCHANGED <<window, autoconnect, autocall, life>>

QueueUIThreadCallback ==      \* the peer hung up
  /\ life = "running" /\ wait = "sockets" /\ Len(idle) < MaxIdle /\ active
  /\ idle' = Append(idle, Callback)
  /\ Quiet /\ UNCHANGED <<window, widgets, wait, autoconnect, autocall, life>>

MessageBoxCloses ==
  /\ life = "running" /\ wait = "dialog"
  /\ wait' = "sockets"
  /\ Quiet /\ UNCHANGED <<window, widgets, idle, autoconnect, autocall, life>>

WaitReturns ==
  /\ life = "running" /\ wait = "sockets"
  /\ wait' = "pump"
  /\ Quiet /\ UNCHANGED <<window, widgets, idle, autoconnect, autocall, life>>

Next ==
  \/ UserActs \/ RunIdle \/ PumpDone \/ Network \/ QueueUIThreadCallback
  \/ MessageBoxCloses \/ WaitReturns

(* The loop goes on, and the user answers a dialog                         *)
Loop == RunIdle \/ PumpDone \/ MessageBoxCloses \/ WaitReturns
Spec == Init /\ [][Next]_vars /\ WF_vars(Loop)

-----------------------------------------------------------------------------
(* Whatever order the switches come in, the window is in the mode that was *)
(* asked for last, as Conductor sees it in current_ui, and the one widget  *)
(* in it is that mode's: until SwitchToConnectUI leaves a widget in it.    *)
WidgetOf(mode) == CASE mode = "CONNECT_TO_SERVER" -> "vbox"
                    [] mode = "LIST_PEERS" -> "peer_list"
                    [] OTHER -> "draw_area"
ShowsWhatWasAsked == window => current_ui = asked /\ (left \/ child = WidgetOf(asked))

(* A process whose window was closed ends once it is signed out, whatever  *)
(* callbacks were waiting.                                                 *)
ClosedWindowQuits ==
  (~window /\ login = "no" /\ ~active) ~> (life # "running" \/ login # "no" \/ active)
=============================================================================
