-------------------------------- MODULE MainWnd --------------------------------
(***************************************************************************)
(* MainWnd (peerconnection/src/main_wnd.{h,cc}), the main window under     *)
(* Windows: a window procedure that is called again while it runs. A call  *)
(* of DefWindowProc, and the loop of a MessageBox, dispatch messages; the  *)
(* end of the window is put off until the outermost call returns. The      *)
(* message loop that calls PreTranslateMessage is not in the repository:   *)
(* it is the usual one. USER32 is external.                                *)
(***************************************************************************)
EXTENDS Naturals, Sequences, FiniteSets, Conductor

CONSTANTS
  MaxPosted,     \* bound: posted messages that wait when the user or the network acts
  MaxCalls       \* bound: calls that have not returned when a MessageBox dispatches

VARIABLES
  ui,            \* ui_
  wnd,           \* wnd_ is not null
  exists,        \* and there is a window behind it
  destroyed,     \* destroyed_
  nested_msg,    \* nested_msg_ is not null
  calls,         \* of WndProc and of MessageBox, innermost first
  posted,        \* the messages posted to the thread and to its windows
  shown,         \* the child windows that are visible
  focus,         \* the child window that has the focus, or "window"
  items,         \* the peers in listbox_, below its caption
  sel,           \* the item selected, 1 is the caption, 0 is none
  quit,          \* PostQuitMessage was called
  said,          \* what this step calls of MainWndCallback, or "none"
  auto_connect, auto_call,
  life           \* of the process

widgets == <<ui, shown, focus, items, sel>>
winVars == <<wnd, exists, destroyed, nested_msg, calls, posted, widgets, quit, said,
             auto_connect, auto_call, life>>
vars == <<winVars, conductorVars>>

connectControls == {"label1", "edit1", "label2", "edit2", "button"}
tabOrder == <<"label1", "edit1", "label2", "edit2", "button", "listbox">>
tabStops == {"edit1", "edit2", "button"}      \* WS_TABSTOP

Call(m) == [msg |-> m, prev |-> nested_msg, at |-> "OnMessage"]
Box == [msg |-> "none", prev |-> FALSE, at |-> "MessageBox"]
InBox == calls # <<>> /\ Head(calls).at = "MessageBox"
Top(m, at) == calls # <<>> /\ Head(calls).msg = m /\ Head(calls).at = at
Now(at) == <<[Head(calls) EXCEPT !.at = at]>> \o Tail(calls)

BmClick == "BM_CLICK"
DblClk == "LBN_DBLCLK"
Callback == "UI_THREAD_CALLBACK"
Messages == {"WM_COMMAND", "WM_CLOSE", "WM_NCDESTROY", "WM_SIZE", "WM_SETFOCUS"}

TypeOK ==
  /\ ui \in UI /\ wnd \in BOOLEAN /\ exists \in BOOLEAN /\ destroyed \in BOOLEAN
  /\ nested_msg \in BOOLEAN /\ quit \in BOOLEAN
  /\ calls \in Seq([msg : Messages \cup {"none"}, prev : BOOLEAN,
                    at : {"OnMessage", "DefWindowProc", "done", "MessageBox"}])
  /\ posted \in Seq({BmClick, DblClk, Callback, "WM_CLOSE"})
  /\ shown \subseteq connectControls \cup {"listbox"}
  /\ focus \in connectControls \cup {"listbox", "window"}
  /\ items \in Seq(PeerIds) /\ sel \in 0 .. Len(items) + 1
  /\ life \in {"running", "quit", "hung"}
  /\ ConductorTypeOK

(* The constructor, Create, CreateChildWindows and SwitchToConnectUI       *)
Init ==
  /\ ConductorInit
  /\ auto_connect \in BOOLEAN /\ auto_call \in BOOLEAN
  /\ ui = "CONNECT_TO_SERVER" /\ wnd = TRUE /\ exists = TRUE
  /\ destroyed = FALSE /\ nested_msg = FALSE /\ calls = <<>>
  /\ shown = connectControls /\ focus = "edit1" /\ items = <<>> /\ sel = 0
  /\ posted = IF auto_connect THEN <<BmClick>> ELSE <<>>
  /\ quit = FALSE /\ said = [op |-> "none"] /\ life = "running"

IsWindow == wnd /\ exists

-----------------------------------------------------------------------------
(* Show and hide; the focus leaves a control that is hidden                *)
LayoutConnectUI(show, s) == IF show THEN s \cup connectControls ELSE s \ connectControls
LayoutPeerListUI(show, s) == IF show THEN s \cup {"listbox"} ELSE s \ {"listbox"}
Focused(f) == focus' = IF f \in shown' THEN f ELSE "window"

SwitchToConnectUI(q) ==
  /\ want' = "CONNECT_TO_SERVER" /\ ui' = "CONNECT_TO_SERVER"
  /\ shown' = LayoutConnectUI(TRUE, LayoutPeerListUI(FALSE, shown))
  /\ Focused("edit1")
  /\ posted' = q \o IF auto_connect THEN <<BmClick>> ELSE <<>>
  /\ UNCHANGED <<items, sel>>

InOrder(ids) == {s \in [1 .. Cardinality(ids) -> ids] : \A i, j \in DOMAIN s : i < j => s[i] < s[j]}

SwitchToPeerList(q) ==
  /\ want' = "LIST_PEERS" /\ ui' = "LIST_PEERS"
  /\ shown' = LayoutPeerListUI(TRUE, LayoutConnectUI(FALSE, shown))
  /\ Focused("listbox")
  /\ items' \in InOrder(peers')
  /\ IF auto_call /\ peers' # {}
     THEN sel' = Len(items') + 1 /\ posted' = Append(q, DblClk)
     ELSE sel' = 0 /\ posted' = q

SwitchToStreamingUI(q) ==
  /\ want' = "STREAMING" /\ ui' = "STREAMING"
  /\ shown' = LayoutPeerListUI(FALSE, LayoutConnectUI(FALSE, shown))
  /\ Focused(focus)
  /\ posted' = q /\ UNCHANGED <<items, sel>>

(* What Conductor makes of this step, when the queue is q and the calls    *)
(* are c; a window that is gone has no controls, and none can post to it.  *)
Switch(q, c) ==
  /\ calls' = IF want' = "MessageBox" THEN <<Box>> \o c ELSE c
  /\ \/ want' \notin UI /\ posted' = q /\ UNCHANGED widgets
     \/ /\ ~exists /\ want' \in UI /\ ui' = want' /\ posted' = q
        /\ UNCHANGED <<shown, focus, items, sel>>
     \/ exists /\ (SwitchToConnectUI(q) \/ SwitchToPeerList(q) \/ SwitchToStreamingUI(q))

Say(op) == said' = [op |-> op]
Quiet == Nothing /\ Say("none")

-----------------------------------------------------------------------------
(* The Connect button, a double click in the list, or Return; the queue is *)
(* q and the calls are c.                                                  *)
OnDefaultAction(q, c) ==
  \/ ui = "CONNECT_TO_SERVER" /\ Say("StartLogin") /\ StartLogin /\ Switch(q, c)
  \/ /\ ui = "LIST_PEERS"
     /\ IF sel > 1 THEN said' = [op |-> "ConnectToPeer", id |-> items[sel - 1]] /\ ConnectToPeer
        ELSE Quiet
     /\ Switch(q, c)
  \/ /\ ui = "STREAMING" /\ calls' = <<Box>> \o c /\ posted' = q
     /\ Quiet /\ UNCHANGED widgets

WndProc(m) == calls' = <<Call(m)>> \o calls /\ nested_msg' = TRUE

unmoved == <<wnd, exists, destroyed, quit, auto_connect, auto_call, life>>

OnCommand ==
  /\ Top("WM_COMMAND", "OnMessage") /\ OnDefaultAction(posted, Now("done"))
  /\ UNCHANGED <<unmoved, nested_msg>>

OnClose ==
  /\ Top("WM_CLOSE", "OnMessage")
  /\ Say("Close") /\ CloseConductor /\ calls' = Now("DefWindowProc")
  /\ UNCHANGED <<unmoved, nested_msg, posted, widgets>>

OnSize ==      \* the controls of the mode are shown where they belong now
  /\ Top("WM_SIZE", "OnMessage") /\ calls' = Now("done")
  /\ shown' = CASE ui = "CONNECT_TO_SERVER" -> LayoutConnectUI(TRUE, shown)
                [] ui = "LIST_PEERS" -> LayoutPeerListUI(TRUE, shown)
                [] OTHER -> shown
  /\ Quiet /\ UNCHANGED <<unmoved, nested_msg, posted, ui, focus, items, sel>>

OnSetFocus ==
  /\ Top("WM_SETFOCUS", "OnMessage") /\ calls' = Now("done")
  /\ focus' = CASE ui = "CONNECT_TO_SERVER" -> "edit1"
                [] ui = "LIST_PEERS" -> "listbox"
                [] OTHER -> focus
  /\ Quiet /\ UNCHANGED <<unmoved, nested_msg, posted, ui, shown, items, sel>>

(* DestroyWindow: what was posted to the window is gone                    *)
ToThread == {i \in DOMAIN posted : posted[i] = Callback}
DefWindowProc ==
  /\ Top("WM_CLOSE", "DefWindowProc")
  /\ exists' = FALSE /\ posted' = [i \in 1 .. Cardinality(ToThread) |-> Callback]
  /\ shown' = {} /\ focus' = "window"
  /\ calls' = <<Call("WM_NCDESTROY")>> \o Now("done")
  /\ Quiet /\ UNCHANGED <<wnd, destroyed, quit, auto_connect, auto_call, life, nested_msg,
                            ui, items, sel>>

OnNcDestroy ==
  /\ Top("WM_NCDESTROY", "OnMessage")
  /\ destroyed' = TRUE /\ calls' = Now("done")
  /\ Quiet /\ UNCHANGED <<wnd, exists, quit, auto_connect, auto_call, life, nested_msg,
                            posted, widgets>>

(* Mutant of Return: a nested call ends the window too.                    *)
ReturnNested ==
  /\ calls # <<>> /\ Head(calls).at = "done"
  /\ IF destroyed THEN quit' = TRUE /\ wnd' = FALSE /\ destroyed' = FALSE
     ELSE UNCHANGED <<quit, wnd, destroyed>>
  /\ nested_msg' = Head(calls).prev /\ calls' = Tail(calls)
  /\ Quiet /\ UNCHANGED <<exists, posted, widgets, auto_connect, auto_call, life>>

(* Mutant of Return: a nested call forgets that the window is destroyed.   *)
ReturnForgets ==
  /\ calls # <<>> /\ Head(calls).at = "done"
  /\ IF destroyed /\ ~Head(calls).prev THEN quit' = TRUE /\ wnd' = FALSE
     ELSE UNCHANGED <<quit, wnd>>
  /\ destroyed' = FALSE /\ nested_msg' = Head(calls).prev /\ calls' = Tail(calls)
  /\ Quiet /\ UNCHANGED <<exists, posted, widgets, auto_connect, auto_call, life>>

(* The end of WndProc: OnDestroyed, when no other call of it is below      *)
Return ==
  /\ calls # <<>> /\ Head(calls).at = "done"
  /\ IF destroyed /\ ~Head(calls).prev
     THEN quit' = TRUE /\ wnd' = FALSE /\ destroyed' = FALSE
     ELSE UNCHANGED <<quit, wnd, destroyed>>
  /\ nested_msg' = Head(calls).prev /\ calls' = Tail(calls)
  /\ Quiet /\ UNCHANGED <<exists, posted, widgets, auto_connect, auto_call, life>>

BoxCloses ==
  /\ InBox /\ calls' = Tail(calls)
  /\ Quiet /\ UNCHANGED <<unmoved, nested_msg, posted, widgets>>

-----------------------------------------------------------------------------
(* A posted message is dispatched, to the window or to its button; a       *)
(* message to the thread passes PreTranslateMessage, and nobody when a     *)
(* MessageBox dispatches.                                                  *)
Dispatch ==
  /\ posted # <<>> /\ (calls = <<>> \/ (InBox /\ Len(calls) < MaxCalls))
  /\ \/ /\ Head(posted) # Callback
        /\ WndProc(IF Head(posted) = "WM_CLOSE" THEN "WM_CLOSE" ELSE "WM_COMMAND")
        /\ posted' = Tail(posted)
        /\ Quiet /\ UNCHANGED <<unmoved, widgets>>
     \/ /\ Head(posted) = Callback /\ InBox
        /\ posted' = Tail(posted)
        /\ Quiet /\ UNCHANGED <<unmoved, nested_msg, calls, widgets>>
     \/ /\ Head(posted) = Callback /\ ~InBox
        /\ PeerConnectionClosed(IsWindow) /\ Say("none") /\ Switch(Tail(posted), calls)
        /\ UNCHANGED <<unmoved, nested_msg>>

(* The keys that PreTranslateMessage takes                                 *)
PressReturn == OnDefaultAction(posted, calls) /\ UNCHANGED <<unmoved, nested_msg>>

PressEscape ==
  /\ \/ ui = "STREAMING" /\ Say("DisconnectFromCurrentPeer") /\ DisconnectFromCurrentPeer(IsWindow)
     \/ ui # "STREAMING" /\ Say("DisconnectFromServer") /\ DisconnectFromServer
  /\ Switch(posted, calls) /\ UNCHANGED <<unmoved, nested_msg>>

(* To the next control that can be tabbed to, or round and round           *)
Position(c) == CHOOSE i \in DOMAIN tabOrder : tabOrder[i] = c
HandleTabbing ==
  LET stops == shown \cap tabStops
      n == Len(tabOrder)
      After(k) == tabOrder[((Position(focus) + k - 1) % n) + 1]
      Steps == {k \in 1 .. n : After(k) \in stops}
  IN IF Steps = {} THEN life' = "hung" /\ UNCHANGED focus
     ELSE focus' = After(CHOOSE k \in Steps : \A j \in Steps : k <= j) /\ UNCHANGED life

PressTab ==
  /\ focus # "window" /\ HandleTabbing
  /\ Quiet /\ UNCHANGED <<wnd, exists, destroyed, nested_msg, calls, posted, ui, shown, items,
                            sel, quit, auto_connect, auto_call>>

(* The mouse: the button and the list send their parent a command          *)
Click ==
  /\ \/ "button" \in shown /\ UNCHANGED sel
     \/ "listbox" \in shown /\ sel' \in 1 .. Len(items) + 1
  /\ WndProc("WM_COMMAND")
  /\ Quiet /\ UNCHANGED <<unmoved, posted, ui, shown, focus, items>>

Manage ==      \* from the system menu, by the border, by a click on another window
  /\ \E m \in {"WM_CLOSE", "WM_SIZE", "WM_SETFOCUS"} : WndProc(m)
  /\ Quiet /\ UNCHANGED <<unmoved, posted, widgets>>

UserActs ==
  /\ exists /\ calls = <<>> /\ Len(posted) < MaxPosted
  /\ PressReturn \/ PressEscape \/ PressTab \/ Click \/ Manage

Network ==
  /\ calls = <<>> \/ (InBox /\ Len(calls) < MaxCalls)
  /\ Len(posted) < MaxPosted
  /\ FromNetwork(IsWindow, ui) /\ Say("none") /\ Switch(posted, calls)
  /\ UNCHANGED <<unmoved, nested_msg>>

QueueUIThreadCallback ==
  /\ Len(posted) < MaxPosted /\ active
  /\ posted' = Append(posted, Callback)
  /\ Quiet /\ UNCHANGED <<unmoved, nested_msg, calls, widgets>>

PostClose ==      \* by another program, or the end of the session
  /\ exists /\ Len(posted) < MaxPosted
  /\ posted' = Append(posted, "WM_CLOSE")
  /\ Quiet /\ UNCHANGED <<unmoved, nested_msg, calls, widgets>>

Quit ==
  /\ calls = <<>> /\ posted = <<>> /\ quit /\ life' = "quit"
  /\ Quiet /\ UNCHANGED <<wnd, exists, destroyed, nested_msg, calls, posted, widgets, quit,
                            auto_connect, auto_call>>

Handler ==
  \/ OnCommand \/ OnClose \/ OnSize \/ OnSetFocus \/ DefWindowProc \/ OnNcDestroy
  \/ Return \/ BoxCloses

Next ==
  /\ life = "running"
  /\ Handler \/ Dispatch \/ UserActs \/ Network \/ QueueUIThreadCallback \/ PostClose \/ Quit

(* Handlers run, and the user answers a box in the end                     *)
Handle == life = "running" /\ Handler /\ ~InBox
Answer == life = "running" /\ BoxCloses
Spec == Init /\ [][Next]_vars /\ WF_vars(Handle) /\ SF_vars(Answer)

-----------------------------------------------------------------------------
(* Just the controls of one mode are shown, ui_'s, whatever the order of   *)
(* switches, sizes and commands.                                           *)
OneModeShown ==
  exists => shown = CASE ui = "CONNECT_TO_SERVER" -> connectControls
                      [] ui = "LIST_PEERS" -> {"listbox"}
                      [] OTHER -> {}

(* No handler of the window finds wnd_ cleared by one that it called, even *)
(* when the window is destroyed in the loop of a MessageBox.               *)
HandlersKeepTheHandle == (\E i \in DOMAIN calls : calls[i].at # "MessageBox") => wnd

(* The loop is told of a window that is gone.                              *)
DestroyedQuits == ~exists ~> (quit \/ life # "running")
=============================================================================
