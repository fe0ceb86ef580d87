# fsshare: specifications of the screen-sharing client

fsshare is a WebRTC screen-sharing program with two generations of signalling.
`client/src` holds the newer one (a WebSocket client on libwebsockets driven by
a small thread class, JSON messages, a peer connection ported from Go);
`peerconnection/src` holds the library behind `sharertc.h`, the HTTP "hanging
get" client it grew from, and two user interfaces. `turnserver` and `stunserver`
are thin mains around WebRTC classes.

This directory specifies the parts with logic of their own in TLA+, checks them
with TLC on small instances and proves the central properties with TLAPS.

## 1. Inventory

| component | state | operations | interacts with |
|---|---|---|---|
| **SimpleThread** `client/src/simple_thread.*` | `running_`, `stop_flag_`, the heap `task_queue_` with its mutex and condition variable, the thread | `Start`, `Stop`, `PostTask`, `PostDelayedTask`, `Invoke`, `Run`, `ProcessTasks` | runs every task of WebSocketClient |
| **WebSocketClient** `client/src/websocket_client.*` | `state`, `wsi`, `context`, `exiting`, `retry_counter`, `msg_buf` | `connect`, `disconnect`, `send`, the tasks `DoConnectUrl`, `EvtLoop`, the notifications and the retry, `LwsCallback` | SimpleThread (tasks), libwebsockets (calls and callbacks), its observer |
| **ShareRTCConnection** `peerconnection/src/sharertc_connection.*` | `state_`, `my_id_`, the sockets `control_socket_` and `hanging_get_`, their receive buffers, `onconnect_data_`, `peers_`, `resolver_`, a delayed `DoConnect` | `Connect`, `SendToPeer`, `SendHangUp`, `SignOut`, the socket, resolver and timer callbacks | the signalling server (HTTP), its observer |
| **ShareRTCSignalConnection** `sharertc_signal_connection.*` (and the copy `webrtc_signal_connection.*`) | `id_` | `IdentifySelf`, `HandleMessage` | ISignalSocket, the message codec |
| **Signal messages** `sharertc_signal_message.*` (and its copy) | none | `fromJson`, `toJson`, `messageToJson`, `jsonToMessage` | jsoncpp |
| **ShareRTC facade** `sharertc_base.*`, `sharertc_client.*`, `sharertc_control.*`, `sharertc.cc` | `inited_`, the socket | `Login`, `Logout`, `Connect`, `Disconnect`, `SendMessage`, the socket's callbacks | the signal connection, any ISignalSocket |
| **ShareRTCUrl** `sharertc_url_parser.*` | none | `parse`, `to_url` | - |
| **TURN server** `turnserver/*` | `name_to_key_` | `main`, `ReadAuthFile`, `GetKey` | WebRTC's `TurnServer` |
| **STUN server** `stunserver/*` | the socket | `main` | WebRTC's `StunServer` |
| **Peer negotiation** `client/src/webrtc_peer_connection.*` (in no build target) | `peer_connection_`, `data_channel_`, `pending_candidates_` with `candidate_mux_` | offer, answer, candidates, `SendMessage`, the destructor, the callbacks | WebRTC, its signalling thread, the signalling server |
| **User interface** `main_wnd.*`, `linux/*` | the mode, the widgets, the calls in progress, the frames and locks of the renderers | mode switches, keys and messages, the renderers, the main loop | Conductor (not in the repository), GTK, USER32, the decoder's threads |

The hard behaviours, with the line where each bites and the property that
watches it, are listed under `hazards` in `PROJECT.json`. In short:

* **SimpleThread**: a notification that comes between a test and a wait; the
  heap changing under a timed wait; stop, restart and late tasks.
* **WebSocketClient**: everything the observer sees comes through the task
  queue, later than it happened; connect is two posts; an attempt overwrites
  the context of the previous one; all messages share one buffer.
* **ShareRTCConnection**: five kinds of callback, each of which finds the
  connection in a state that an earlier one left.
* **Signalling**: the notification of one connection is delivered while the next
  is already open; what the server sends may have any JSON type.
* **Peer negotiation**: candidates come on another thread while an offer is
  being made, while the pending ones are handed over and while the object dies.
* **User interface**: callbacks that were posted for widgets that are gone; a
  window procedure called inside itself and inside a message box; frames that
  arrive while the window is painted.

What makes each component correct:

* **SimpleThread** runs every posted task once, not early, earliest first, one
  at a time, while it is started; `Stop` returns, after at most one more task.
* **WebSocketClient**: an open client has a socket of the context it serves; a
  client with a context is served until it is closed and is at rest afterwards;
  the observer sees every change of state and every frame, once and in order,
  and an outcome of every `connect`.
* **ShareRTCConnection**: a connection that comes up has a request to send; the
  session, the two sockets and what the application was told agree.
* **Signalling**: every connection that opens is identified unless the socket fails
  to send, which nobody looks at; a message that was
  written is read back as it was; one that was written by nobody breaks nothing.
* **ShareRTCUrl**, **TURN credentials**: a URL survives being written and read
  again; a port is a number from 1 to 65535; a user has the first of its keys.
* **Peer negotiation**: no candidate is lost or used twice; none is announced
  before the description it belongs to; a method that fails leaves no description
  half made.
* **User interface**: the window shows the mode it was asked for; who is called
  is signed in; the process ends with its window; a frame is painted whole.

## 2. Plan and its state

| step | modules | status |
|---|---|---|
| 1 | `TimedExecutor` (abstract), `SimpleThread` implements it | checked; safety and refinement proved |
| 2 | `WebSocketClient`, `WebSocketClientThreads` (closed on another thread) | checked; safety proved |
| 3 | `ShareRTCConnection` | checked; safety proved |
| 4 | `SignalSocket` (abstract), `WebSocketClient` implements it; `Signaling` on it | checked; refinement and `Identified` proved |
| 5 | `SignalMessage`, `ShareRTCUrl`, `ReadAuthFile`, `Servers`, enumerated by `MCInputs` | checked; safety proved |
| 6 | `PeerNegotiation` | checked; safety proved |
| 7 | `Conductor`, `GtkMainWnd`, `MainWnd`, `GtkVideoRenderer`, `VideoRenderer`, together in `MCWindows` | checked; safety proved |
| 8 | `Induction`, lemmas the proofs about readers rest on | proved |

Left to do: responses of `ShareRTCConnection` that arrive in pieces.

Composition: `Signaling` stands on the abstract socket, not on `WebSocketClient`
itself, and the refinement closes the gap. `WebSocketClient` uses `SimpleThread`
the same way: it relies on tasks that run one at a time in due order, which is
what `TimedExecutor` says, and keeps a queue of its own. `SignalMessage` is
inside `Signaling`, whose messages are read by the operators `MCInputs`
enumerates. Both windows extend the same `Conductor`.

## 3. The modules and the code

### SimpleThread

`SimpleThread.tla` splits the code at the points where another thread may look:
the worker holds `queue_mutex_` from line 74 to its wait or to line 100, so
`ProcessTasks`, `IdleWake`, `SleepWake` and `SleepTimeout` are one action each;
`PostDelayedTask` reads the clock, pushes under the lock and notifies after it
(`PostStamp`, `PostPush`, `PostNotify`); `Stop` clears `running_`, sets
`stop_flag_`, notifies and joins (`StopBegin`, `StopFlag`, `StopNotify`,
`StopJoin`). `wpc` is the worker's place, `opc` the owner's in `Stop`, `cpc[c]`
that of each thread (the worker too: tasks post) in `PostDelayedTask`.
`queue` is the heap as a set; which of several tasks due at the same time is at
the top is left open, as a heap leaves it. `SpuriousWakeup` wakes a waiter for
no reason. The tasks are distinct values, each posted at most once.

`TimedExecutor.tla` is the promise, without mutex, condition variable or loop.
`Mode` in `SimpleThread` maps the owner's and the worker's places to it.

### WebSocketClient

The tasks of `net_thread_` are a sequence `tasks`, each run one action, except
`EvtLoop`, which stays inside `lws_service` (`serving`) while `LwsCallback` runs
once per event. `connect` takes two actions, because `ConnectUrl` posts twice.
A post without delay is appended: its due time is the clock at the post, in
nanoseconds, so posts of one thread keep their order. A retry waits in `timers`
and is appended at any later moment.

The outcomes of `DoConnectUrl` are five actions: the URL is refused, no context,
`lws_client_connect_via_info` fails, it fails after calling `LwsCallback`, or it
starts. `link` is what libwebsockets knows of the current context's connection.
Frames are numbers, so that `delivered`, `msg_buf` and `cuts` can be compared.
What `ParseUrl` cuts out of a URL is in `ShareRTCUrl.tla`, with the other parser.

Each `connect` has a number, which the tasks it leads to carry (`of`), and `fate`
says what became of it: the observer was told, a later attempt or a `Close` took
its connection away while it was being made, or it was left to a retry.

`Close` asserts that it is called on `net_thread_`, and `disconnect` here is: from
a callback of the observer or a task of the application, between two tasks.
`WebSocketClientThreads.tla` is the client without that discipline, which the code
does not keep: `disconnect` and the destructor call `Close` at once on the thread of
their caller, and `main.cc` lets `wssock2` go out of scope while `net_thread2` runs.
`Close` is in four steps there, with `net_thread_` between any two of them. The
properties of `websocket_safety` are promised to callers that keep to the assertion.

Assumed of libwebsockets, of the version `client/deps_sources` builds: it calls back
only from `lws_service`, `lws_client_connect_via_info` and `lws_context_destroy`, and
reports the end of a client's established connection as `LWS_CALLBACK_CLIENT_CLOSED`.
`LwsCallback` has no case for that: its case `LWS_CALLBACK_CLOSED` (lines 376-380),
which lws calls a server with, is never taken. `LinkDies` therefore changes
nothing but `link`, and `state` stays `Open` with a `wsi` that lws has freed. What
`SendText` and `Close` do with the freed `wsi` is undefined; the model goes on.

### ShareRTCConnection

Everything runs on one thread: each call, callback and delayed task is an
action. `control` and `hanging` are the two sockets, from `null` (never made)
through `connecting` to `waiting` for a response; `answered` is a connection
whose response was read and which the server has not closed. What `OnRead` does
with a response depends on `my_id_` and `state_`, and is `FirstAnswer`,
`SignedOut`, `SignOutAtLast` or `LaterAnswer`; each takes `Connection: close` as
a parameter, for `ReadIntoBuffer` then closes the socket first. A status other
than 200 is `ControlRejected` or `HangingRejected`. `OnClose` splits by socket
and by `ECONNREFUSED`. Each `Connect` of a socket may fail at once.

An answer without a `Pragma` header leaves `my_id_` at -1 and is taken like any
other (`nameless`); the `RTC_DCHECK`s of lines 163, 339, 341 and 362 are no guards.
A `Connect` of a client that is not down, or without a server or a name, is
`ConnectRefused`.

`signedIn`, `seen` and `leaving` record what the application was told and asked
for, `misled` that a refused `Connect` told it, by `OnServerConnectionFailure`, what
it is told when a session fails; `assigned` is the last id the server gave out. They
change nothing the code does.

### SignalSocket and Signaling

`SignalSocket.tla` is what `ISignalSocket` and `ISignalSocketObserver` promise:
the socket opens only after a `connect`, every change of its state is posted
once and in order, data is posted only while it is open, and the observer is
called later (`Deliver`). `MCWebSocketClient` maps the tasks that call the
observer to its `events`.

`Signaling.tla` is the observer: `Observe` delivers the head of `events` to
`onConnected` (which sends `IdentifySelf` on whatever connection is open by
then), `onDataReceived` (`HandleMessage`, which may throw and end the process) or
the empty callbacks. `class` chooses `ShareRTCClient`, whose `Login` only
connects the socket, or `ShareRTCControl`, whose `Connect` parses a URL, connects
once and sets `inited_` whatever came of it. `connection` counts how often the
socket opened, `identified` on which of these openings `IdentifySelf` went out and
`unsent` on which the socket failed to send it (`SendMessage` returns -2, line 630):
`IdentifySelf` drops that code (line 51), and nothing sends the message again.
Everything runs on the threads the code uses, except that `SendMessage`
tests and uses the socket in one step.

### SignalMessage

A JSON value keeps its type, the text of a scalar and the members of an object;
an operation has an outcome, `done`, `refused` or `thrown`, for jsoncpp throws
where a value is of a type it cannot convert, and where `asInt` meets a number
that no int holds (`IntTexts` is the set of the texts of those it does hold). `HandledByBase` and
`HandledByClient` are the two copies of `HandleMessage`, which differ in a `try`.
The client's catches what `jsonToMessage` throws, and not what the handlers throw.

### ShareRTCUrl, ReadAuthFile, Servers

Texts are sequences of characters. `parse_port` keeps the overflow guard of the
code (`PortDigit`), `parse` its order of cuts. `ReadAuthFile` is a recursive
function over the lines of the file, where hex decoding gives a key or nothing. `Servers` is the two mains
with each way they can stop; `GetKey` is what WebRTC's `TurnServer` calls.
`MCInputs` reads one input per behaviour; the inputs are constants (`Urls`,
`Ports`, `WsUrls`, `Messages`, `Roots`, `AuthFiles`) of which `InputAssumption`
says only what type they have, and the run gives each a bounded set.

### PeerNegotiation

The application's thread is in one method (`app`), the signalling thread in one
callback (`signaling`). A call through the WebRTC proxy waits until the
signalling thread is idle (`Proxied`). `SendOffer` and `SendAnswer` are three
actions each: the making of the description, its `SetLocalDescription`
(`ApplyCreated`), both of which WebRTC may fail, and the sending. Candidates may come
between any two. A content or an envelope is read (`done`), refused, or makes jsoncpp
throw, and then the method ends with the exception. `SendPendingICECandidates` holds `candidate_mux_` over one proxied call
per candidate. The constructor may fail half way (`built`), and every call into
WebRTC may fail (`ok`). The integers on the wire are as in the code: what is
sent is `webrtc::SdpType`, what is accepted are the codes of the program it was
ported from. `freed`, `added`, `wire`, `lost`, `fresh` and `settled` record what was done.

### Conductor and the windows

`Conductor.tla` stands for the class both windows call and are switched by. It is
not in the repository (commented-out copies of it are in `sharertc_base.cc`), so
it is an environment: each call of the window sets `want`, the mode it asks for.

`GtkMainWnd.tla`: which widgets exist, which of them is in the window (`child`:
a `GtkWindow` holds one and refuses the next), the idle callbacks in order, each
with a widget that may have been destroyed since, and the loop of `linux/main.cc`,
which pumps GTK until nothing is left and then waits on the sockets. The build is a
release build: where an `RTC_DCHECK` would fail the code goes on, a pointer is
overwritten and its widget stays behind ("lost"). A callback whose widget is gone is
undefined behaviour: it does nothing or the process crashes; a click on a button
whose entries are gone reads a null text and crashes.

`MainWnd.tla`: `calls` is the stack of `WndProc` and `MessageBox` calls.
`DefWindowProc` sends `WM_NCDESTROY` inside `WM_CLOSE`, a message box dispatches
posted messages, and `Return` is the end of `WndProc`, where the outermost call
takes notice of the destruction. `HandleTabbing` is the loop over the controls:
`life` becomes `hung` where it never ends.

`GtkVideoRenderer.tla` has no lock, since `gdk_threads_enter` locks nothing
without `gdk_threads_init`, which no code calls: width, height and image are
written and read in steps of their own. Frames are numbered: `drawn` is the frame in
`draw_buffer_`, `seen` the one `Draw` has shown. `VideoRenderer.tla` has the two
critical sections that `OnPaint` takes together, and `painted` says which frame of
each renderer was painted last. `MCWindows` runs one of the four per
behaviour.

## 4. The runs

| run | checks | shows |
|---|---|---|
| `simple_thread_safety` | `TypeOK`, `NoLostWakeup`, `SleepHasTask`, `ThreadLifetime`, `ImplementsExecutor`, `StopReturns`, `PostedTasksRun` | no wakeup is lost; line 98 never pops an empty heap; the thread lives exactly from `Start` to the end of `Stop`; `SimpleThread` implements `TimedExecutor`; tasks run, across restarts too |
| `simple_thread_prompt` | `DueTaskWakesSleeper` (violated) | a task posted during a timed wait waits for the end of it: line 88 tests only `stop_flag_` |
| `websocket_safety` | `TypeOK`, `OpenHasSocket`, `LoopAlive`, `ObserverCatchesUp`, `FramesInOrder`, `ImplementsSignalSocket`, `CloseStopsLoop`, `AttemptAnswered` | two `connect`s, a `disconnect`, retries, failures and lost connections in any order leave context, loop and observer consistent; the client is an `ISignalSocket`; a closed one comes to rest and each `connect` has an outcome of its own |
| `websocket_retry` | `RetryConnects` (violated) | a `connect` that fails inside lws is retried with `url_`, which is empty |
| `websocket_threads` | `ServiceHasContext` (violated) | a `Close` on another thread destroys a context that `lws_service` is using |
| `connection_safety` | `TypeOK`, `RequestReady`, `WaitOnlyConnected`, `Listening`, `CleanWhenDown`, `SessionKnown` | requests, wait connection, session, peers and application agree |
| `connection_sign_in` | `IdWhileSigningIn` (violated) | `SignOut` during a sign-in is lost, and the assertion at line 339 fails |
| `signaling` | `Identified`, `OpenIdentified` | each connection is identified or the socket failed to send on it, by a late notification of an older one if need be |
| `negotiation` | `Accounted`, `DescribedFirst`, `OnlyLateLeaks`, `NothingHalfDone`, `PendingReturns` | where each candidate is, which overtakes a description, which leaks; no description stays set and unsent; and the only way for `SendPendingICECandidates` not to return is the deadlock with `OnICECandidate` |
| `negotiation_pending` | `PendingSent` (violated) | the pending candidates are given to the connection that gathered them |
| `windows` | `ModeShown`, `HandlersKeepTheHandle`, `ImagesFit`, `AsksWhatFits`, `WidgetsAreNew`, `ProgramEnds`, `FramesShown` | modes, destruction, calls and frames of both user interfaces |
| `inputs` | `RoundTrips`, `PortExact`, `FirstKeyWins`, `ThrowsOnlyOnTypes` | what the parsers and codecs make of every input of a bounded set |

The violated properties state what a comment, a log line or an assertion of the
code says; `findings` in `PROJECT.json` quotes each.

Some properties are conjunctions of what their modules state:

* `ModeShown`: `ShowsWhatWasAsked` (GTK) and `OneModeShown` (Windows), the mode
  shown is the mode asked for, and no widget of another is in the window.
* `ImagesFit`: `OverrunNeedsRace` (GTK), `PaintsWholeImages` and `ConvertsInImage`
  (Windows), an image is used with its own size.
* `AsksWhatFits`: in every step, who is called is signed in, and Escape leaves the server only
  when there is no call to leave first, in both windows.
* `ProgramEnds`: `ClosedWindowQuits` (GTK) and `DestroyedQuits` (Windows).
* `FramesShown`: `FrameDrawn` (GTK) and `FramePainted` (Windows): frame number `n`
  of a renderer, once converted, is shown in the end, or a later one is.
* `RoundTrips`: `UrlRoundTrip` and `MessageRoundTrip`, what was written is read
  back as it was, and `WsSplitsUrl`, a WebSocket URL is cut where its parts meet.

Some properties say how far a known weakness reaches, as the negation would fail:

* `AttemptAnswered`: a `connect` whose connection is taken away while it is being
  made, by a later one or a `Close`, or which fails before lws has one, is never
  answered; every other is.
* `ShowsWhatWasAsked` in `ModeShown`, and `WidgetsAreNew`: `SwitchToConnectUI`
  (`linux/main_wnd.cc:265-268`) destroys the peer list only. When a session ends during
  a call, it leaves `draw_area_` in the window and `vbox_` stays outside; from then on
  (`left`) only `current_ui` is what was asked for. Then line 261 (`vbox_` is null) and
  line 345 (`draw_area_` is null) are wrong: the queued `PEER_CONNECTION_CLOSED` of
  the call switches to the connect box a second time; or the user signs in with
  Return, the peer list destroys `vbox_` and not `draw_area_`, and the next call finds it.
* `OverrunNeedsRace` in `ImagesFit`: `Draw` can read past `draw_buffer_` when the decoder changes
  the size between two reads of `OnRedraw`; nothing but that overlap makes it so.
* `Identified`, `OpenIdentified`: a connection on which the socket fails to send stays
  unidentified while it is open; no other does.
* `CleanWhenDown`, `SessionKnown`: a session without an id is one whose answer had
  none; the application is unaware of a session it did not leave only after a
  `Connect` it made too early. They say nothing of a client that is signed in again
  after it has signed out, see below.
* `DescribedFirst`, `OnlyLateLeaks`, `PendingReturns`: the one way each goes wrong
  is in the formula.
* `ThrowsOnlyOnTypes`: a string where the protocol has an object ends the program
  that uses the base class. `IdentifySelf` itself sends such a message.

Seen while modelling and stated by no run:

* `websocket_client.cc:376-380` handles the end of a connection under
  `LWS_CALLBACK_CLOSED`, which lws calls servers with: a client whose connection the
  server closes stays `kOpen` with a `wsi` that lws has freed. The observer hears
  nothing and nothing reconnects.
* `webrtc_peer_connection.cc:198-201` takes the codes 1 and 3 for an offer and an
  answer, "neither offer nor answer" otherwise; lines 172 and 273 send
  `static_cast<int>(GetType())`, 0 and 2. Two peers of this class never agree on a session.
* An answer to the sign-in with status 200 and without a `Pragma` header leaves the id
  at -1 (`sharertc_connection.cc:475`); `OnSignedIn` is called and the client goes on to
  `CONNECTED`, against the assertions of lines 341 and 362.
* The `DoConnect` put off at `sharertc_connection.cc:501` is not called off by
  `SignOut`, which finds no id, sets `SIGNING_OUT` and has nothing left to do (line 206):
  two seconds later a client that has signed out signs in.
* `to_url`, "the standard https:// format" (`sharertc_url_parser.h:62`, in Chinese),
  writes an IPv6 host without the brackets that `parse` took off: of `https://[::1]/p`
  it makes `https://::1:443/p`, which only `parse` of this class reads (`UrlRoundTrip`).
* `ConnectUrl` of `WebSocketClient` is declared `bool` and returns nothing (lines
  70-75), which is undefined behaviour; `connect` hands the value on.
* `websocket_client.cc:343-352` hands over whatever `msg_buf` holds when the
  posted task runs: two messages received before it are handed over as one.
  `FramesInOrder` speaks of frames, which are neither lost nor reordered.
* `SignOut` while a name is resolved calls `GetState` through the null
  `hanging_get_` (`sharertc_connection.cc:193`), and the `DoConnect` posted at line
  501 may come due while the next server's name is unresolved and find no sockets.
  The model goes on only where the sockets exist.
* A message whose connection is refused makes `OnClose` sign in anew, and the id
  the server assigns to that second session is dropped (line 337): `my_id` and
  `assigned` differ from then on.
* In the peer list of the Windows program no control has a tab stop, and Tab in
  the list searches for the next one for ever (`life` becomes `hung`).
* The Connect button of a box that `SwitchToConnectUI` has overwritten can still be in
  the GTK window when `SwitchToPeerList` clears `server_edit_`: a click on it makes a
  string of a null text (`linux/main_wnd.cc:375`; `life` becomes `crashed`).
* `ShareRTCControl::Connect` never resets `inited_`: a connection it closed, or
  one that failed, is not made again by the same object.
* `PeerNegotiation` sends its answer, too, with the kind `Offer`; and `id_` of a
  signal connection is never cleared when its socket closes.

### Bounds

* SimpleThread: three tasks, two threads that post besides the worker, delays 0
  and 2, the clock up to 4 (3 in `simple_thread_prompt`). Three tasks are needed
  for one that runs, one slept for and one posted meanwhile; a delay of 2 lets a
  deadline lie before, at and after another. `Start` and `Stop` are unbounded.
* WebSocketClient: `max_retry_count` 1 (the default is larger, but one granted
  and one refused retry are the two cases), two calls of `connect` (an attempt
  over an older connection), one of `disconnect` (between, before or after the
  two), two frames (whole, or parts of one message).
* ShareRTCConnection: two peers, two sign-ins the server answers, two delayed
  retries. Two sign-ins let a session follow another and a second id meet the
  first. Calls of the application, connections and notifications are unbounded.
* Signaling: two connections and three events in the queue, so that a
  notification, a message and a second notification wait together. The server
  sends seven messages, one for each way a message is handled; one at a time.
* PeerNegotiation: three candidates: one gathered early, one at the description,
  one late. Calls and messages are unbounded.
* Windows: two peers (one under Windows), two idle callbacks or posted messages
  that wait, three calls of the window procedure or of message boxes on the stack
  before a message box dispatches, two frames of two sizes. Two frames of a
  renderer are a change of size and a frame during it.
* Inputs: every URL put together from the forms listed in `MCInputs`; ports of up
  to five characters of five kinds, with a zero in front; WebSocket URLs of up to
  five characters behind the scheme; every message with members of two values, and
  each with one member missing, of another type, or a number beyond `int`; files of up to three lines.

`Peers` of ShareRTCConnection and the tasks in `simple_thread_prompt` are symmetric:
no action and no invariant names one of them, and the runs have no liveness.

Deadlock is checked for SimpleThread until the clock stands still, where the
owner can still start and stop. The other models stop where they should: all
calls made, all tasks run, an input read, a process that has ended, or an
application that does nothing. In PeerNegotiation the real deadlock is one of
two threads of a process that goes on; `PendingReturns` names it.

### Fairness

* SimpleThread: the scheduler lets a thread that can go on go on, tasks return,
  the clock advances. Nobody has to post, start or stop. A notified or expired
  wait returns (`std::condition_variable`), a spurious wakeup need not happen.
* WebSocketClient: `SimpleThread` runs its tasks (`PostedTasksRun` is the
  justification), `lws_service` returns (it has a timeout argument), a delay
  passes, `ConnectUrl` makes its second post, and a connection attempt that is
  served again and again is settled, by success or by the timeout lws has
  (strong fairness, as it is served in between other tasks). Nobody has to call
  `connect` or `disconnect`, no server has to send or to close.
* Signaling: what was posted to the observer is delivered (`Observe`), which the
  previous point gives. No connection has to open.
* PeerNegotiation: a method that was entered goes on when it can, and so does a
  callback. WebRTC need not gather, nobody has to call anything.
* Windows: the program's loop goes on (`Loop`, and a message's handler, `Handle`),
  a decoder that entered `OnFrame` leaves it, a repaint that was asked for happens
  (`OnPaint`; under GTK `Redraw`, with the `Draw` that `OnRedraw` queues),
  and the user answers a message box in the end. That answer needs strong fairness
  under Windows, since a box is not on top while it dispatches.
* ShareRTCConnection and the inputs: none. A server may be silent for ever, the
  code has no timeout, and so it promises no progress.

## 5. The proofs

All theorems hold for every value of the constants that the named assumptions
allow; the bounds above are constants there, so they are no restriction.

**SimpleThread** (`SimpleThread_proofs`), from `ThreadsAssumption`,
`TimeAssumption` and `NoNodeAssumption`. `TypeOK` is inductive together with
`Handles` (the worker and the callers hold nodes when they use them). The others
are not inductive alone. `Lifecycle` says where the owner and the worker can be at
the same time, which `ThreadLifetime` needs while a `Stop` is under way;
`Accounting` says that a task is in one place at a time (unposted, about to be
pushed, queued, running, done), which the refinement needs for "once". With both,
`NoLostWakeup` and `SleepHasTask` are inductive, and `Refinement` shows each step
to be a step of `TimedExecutor` or a stutter under the mapping `Mode`.

**WebSocketClient** (`WebSocketClient_proofs`), from `BoundsAssumption`. `Links`
(what lws knows agrees with the client's fields, but for a connection that died,
and lws is served only on a client that is not closed) gives `OpenHasSocket`.
`LoopStaysAlive` needs that every `DoConnect` in the queue has an `EvtLoop`
behind it or about to be posted (`Loops`): a `DoConnect` clears `exiting`, and
the loop that served the client before may have ended. `FramesHold` rests on
the concatenation of what was delivered and what is buffered; `ObserverHolds` on
lemmas about the last state change in a queue that is appended to and popped.
`SocketImplemented` is the refinement of `SignalSocket`. The mapping reads the
queue `tasks` from head to tail and keeps the tasks that call the observer
(`EventsOf`); `EventsAppend`, `EventsTail`, `EventsNotified` and `EventsRetry` say
what a post, a task run and a retry do to that reading. A handler that changes the
state twice, or posts an outcome and a retry, maps to one step of the abstract
socket, which allows two changes and two errors a step and posts each. It needs one more
invariant, `Quiet`: before the first `connect` the client is disconnected and
nothing is queued.

**ShareRTCConnection** (`ShareRTCConnection_proofs`), from `BoundsAssumption`.
The six properties of `connection_safety` are inductive with three more: `Pair` (the sockets
are made together), `Resolving` (while a name is resolved only `SignOut` can have
changed the state, so the resolver's answer finds no session) and `LeavingTold`
(a put-off `SignOut` was the application's wish and has told it already, which
`SessionKnown` needs when the answer makes it go on or close). Two lemmas, `ClosedHolds` and
`SignInHolds`, carry `Close` and a successful `DoConnect` through the actions that
end in them.

**Signaling** (`Signaling_proofs`), from `BoundsAssumption`. `Identified` is
inductive with the types of the queue and of the counter. A delivery takes away
only the head of the queue (`Delivered`); a notification of an open socket is
identified with the connection that is open at that moment, or recorded as one it
could not be sent on, so an older one does no harm; a socket that opens anew posts its own notification (`ChangeStep`).

**PeerNegotiation** (`PeerNegotiation_proofs`), from `BoundsAssumption`. `Accounted`,
`OnlyLateLeaks` and `NothingHalfDone` are inductive together with `Order`: the
candidate in the callback is the youngest, and once the destructor has begun younger
than all it found (`settled`). `DescribedFirst` follows, for a candidate needs a local
description, which only an offer or an answer sets.

**The windows** (`MCWindows_proofs`), from `WindowAssumption`. Each of the four
models has an inductive invariant of its own, and `Inv` puts them together.
`WinInv` describes the stack of calls: `nested_msg` says whether a call of
`WndProc` is on it, `prev` whether one is below (`Stacked`), a call that handles
the destruction is there only when the window is gone, and then nothing waits
that could begin another (`QueueInv`); so `Return` clears `wnd_` only under the
last call. `Pushed` and `Popped` carry this over one call. `GtkInv` adds that the
box and the list are never both there, that a box means nobody is signed in, and
that a row waits to be activated only in a list that is there (`Rowing`) or one that
outlived its window (`Outer`): so the streaming mode is only asked for where
`SwitchToStreamingUI` is right to leave the box alone, and finds the list in the
window unless something was `left` there. `VideoInv` says who holds the locks and which of size and image is ahead
in `SetSize`; `GtkVideoInv` says the same without locks, as long as nothing
overlapped. `AskInv` is what `AskedInTime` (the property `AsksWhatFits`) needs: in
the program the windows call, nobody is a peer or in a call without being signed
in; where GTK's list is there no call is, and its rows are peers that are signed
in, as are those of a list that outlived its window, for they are activated before
the network acts again; under Windows only the topmost call of the window procedure asks, and one for
a command only while the window is there. `WindowAssumption` says that the peers
are finitely many, for a list is put together from them.

**The inputs** (`MCInputs_proofs`), from `InputAssumption`: texts, files and
messages of any length over any words, and ints with any texts. The library's induction rules take an
operator as a parameter and cannot be used, so `Induction` states induction over a
set of numbers, and that a recursive function over `0 .. n` satisfies its
equation (`Recursion`), by the sets of those that do. With them `FirstLineGivesKey`
follows the keys line by line, and `parse_portExact` the value digit by digit: the
guard `value > (MaxPort - digit) / 10` refuses exactly when the next value would
pass `MaxPort` (`Guard`), and a value that passed it cannot come back, for values
only grow (`ExactNext`). A refused text therefore is no numeral or too large.
`ParseUrlSplits` compares the places `ParseUrl` finds in the text with those found
in what is behind the host (`WsPlaces`).

`UrlsRoundTrip` has two halves. `ParseGives` says what `parse` leaves in the fields
of a URL it accepts: no mark where `to_url` will write one. A host has no slash and
is in lower case already, a port is in range, a peer has no question mark and no
slash at its ends, a key has neither `=` nor `&`, a value no `&` (`IsParts`,
`QueryGives`). `ParseWritten` says that such a URL is read back: each mark that
`to_url` writes is the first of its kind where `parse` looks for the first, and the
last where it looks for the last (`CutFirst`, `CutLast`). The digits of a port are
added up from the left (`PortWritten`), which `parse_portExact` then reads. The keys
of a query come in an order nobody states, so `QueryWritten` says which segments the
text has, not where, by induction over the keys; each key is in one of them, and
`QueryRead` needs no more. Two kinds of URL do not come back, and the property names
them: a host that begins with a bracket, and a text that ends with a blank. The
provers do not know of a literal that it is a string, so these lemmas are about
texts over `Words`, the strings and the marks.

`MessagesRoundTrip` has two parts, the content (`ContentRoundTrip`) and the
envelope around it (`EnvelopeRead`), and
`NothingElseThrows` goes through the members in the order they are read
(`JsonToMessageSafe`, `ContentSafe`): where each is missing or such as `toJson`
writes it, none throws. `ReaderInv` and `ServersInv` carry these from the operators to the
behaviours of `MCSpec`.

Only model-checked: `StopReturns`, `PostedTasksRun`, `CloseStopsLoop`,
`AttemptAnswered`, `OpenIdentified`, `PendingReturns`, `ProgramEnds` and
`FramesShown` (liveness under fairness is out of the prover's reach), and the
violated properties, whose counterexamples are TLC's. The `TypeOK` of `Signaling` and of the windows' modules states what the variables
are, for the reader: no run lists it.

## 6. Not modelled

* `SimpleThread::Invoke`, a post and a wait for a future, and `IsCurrent`: they
  add no state. `Stop` called from one of the thread's own tasks, which no code does.
* The opcode kept in `msg_opcode`, which only chooses between the text and the
  binary callback; what `send` writes.
* Half responses in `control_data_` and `notification_data_` that survive a
  `Close`, and calls the observer makes from inside a callback of
  `ShareRTCConnection`.
* `ShareRTCControl::InitializePeerConnection`, which nothing calls, and
  `ReinitializePeerConnectionForLoopback`, which returns true; the empty overrides
  of `ShareRTCClient`. The rest of `sharertc_base.cc`, `sharertc_client.cc` and
  `sharertc_control.cc`, more than half of each, is commented out.
* The command loop of `client/src/main.cc`, which only calls `connect`; the GTK
  `main()` but for its loop; layout, drawing, fonts and colours.
* What WebRTC, libwebsockets, jsoncpp, GTK and USER32 do inside: they are
  environments, in the calls the code makes and the callbacks it gets.
* Default values, flags and build files have no behaviour to specify.
