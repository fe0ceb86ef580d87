---------------------------- MODULE MCWindows_proofs ----------------------------
(***************************************************************************)
(* The safety of the windows and of the video renderers: for any peers,    *)
(* and any number of frames, callbacks, posted messages and nested calls.  *)
(***************************************************************************)
EXTENDS MCWindows, FiniteSetTheorems, TLAPS

-----------------------------------------------------------------------------
(* Video under Windows. A decoder is between SetSize and Convert exactly   *)
(* when it holds its renderer's lock, OnPaint holds the locks it took.     *)
Writing(r) == in[r] \in {"SetSize", "image", "convert"}
Locked ==
  \A r \in Video!Renderers :
    /\ Writing(r) => buffer_lock[r] = "decoder"
    /\ paint = "remote" /\ r = "local" => buffer_lock[r] = "window"
    /\ paint = "StretchDIBits" => buffer_lock[r] = "window"

(* The image has the size in bmi_ but between the two writes of SetSize.   *)
Fits ==
  \A r \in Video!Renderers :
    /\ in[r] # "image" => images[r] \in {0, Video!Pixels(bmi[r])}
    /\ in[r] = "image" => bmi[r] = Video!Bmi(received[r])
    /\ in[r] = "convert" => images[r] = Video!Pixels(Video!Bmi(received[r]))

Frames ==
  /\ bmi \in [Video!Renderers -> [w : Int, h : {-2, -1}]]
  /\ received \in [Video!Renderers -> [w : Int, h : {1, 2}]]
  /\ images \in [Video!Renderers -> Int]
  /\ in \in [Video!Renderers -> {"idle", "SetSize", "image", "convert", "invalidate"}]
  /\ buffer_lock \in [Video!Renderers -> {"none", "decoder", "window"}]
  /\ painted \in [Video!Renderers -> [bmi : [w : Int, h : {-2, -1}], image : Int, frame : Nat]]
  /\ counts \in [Video!Renderers -> Nat]
  /\ paint \in {"idle", "local", "remote", "StretchDIBits"}

VideoInv == Frames /\ Locked /\ Fits /\ Video!PaintsWholeImages

LEMMA TwoRenderers == Video!Renderers = {"local", "remote"}
  BY DEF Video!Renderers

LEMMA VideoInit == Video!Init => VideoInv
  BY DEF Video!Init, VideoInv, Frames, Locked, Fits, Writing, Video!PaintsWholeImages,
         Video!Nothing, Video!Initial

LEMMA SizesTyped == Sizes \subseteq [w : Int, h : {1, 2}]
  BY DEF Sizes

LEMMA BmiTyped == ASSUME NEW s \in [w : Int, h : {1, 2}] PROVE Video!Bmi(s) \in [w : Int, h : {-2, -1}]
  BY DEF Video!Bmi

LEMMA PixelsTyped == ASSUME NEW b \in [w : Int, h : {-2, -1}] PROVE Video!Pixels(b) \in Int
<1>1. b.w \in Int /\ b.h \in {-2, -1}
  OBVIOUS
<1>2. CASE b.h = -1
  BY <1>1, <1>2 DEF Video!Pixels
<1>3. CASE b.h = -2
  BY <1>1, <1>3 DEF Video!Pixels
<1> QED BY <1>1, <1>2, <1>3

LEMMA OnFrameStep ==
  ASSUME VideoInv, NEW r \in Video!Renderers, Video!OnFrame(r) PROVE VideoInv'
  BY SizesTyped
  DEF VideoInv, Frames, Locked, Fits, Writing, Video!PaintsWholeImages, Video!OnFrame

LEMMA SetSizeStep ==
  ASSUME VideoInv, NEW r \in Video!Renderers, Video!SetSize(r) PROVE VideoInv'
<1>1. received[r] \in [w : Int, h : {1, 2}] /\ bmi[r] \in [w : Int, h : {-2, -1}]
  BY DEF VideoInv, Frames
<1>2. received[r] # bmi[r]
  BY <1>1
<1>3. bmi' = [bmi EXCEPT ![r] = Video!Bmi(received[r])] /\ in' = [in EXCEPT ![r] = "image"]
  BY <1>2 DEF Video!SetSize
<1>4. Video!Bmi(received[r]) \in [w : Int, h : {-2, -1}]
  BY <1>1, BmiTyped
<1> QED
  BY <1>3, <1>4
  DEF VideoInv, Frames, Locked, Fits, Writing, Video!PaintsWholeImages, Video!SetSize

LEMMA NewImageStep ==
  ASSUME VideoInv, NEW r \in Video!Renderers, Video!NewImage(r) PROVE VideoInv'
<1>1. Video!Pixels(bmi[r]) \in Int
  BY PixelsTyped DEF VideoInv, Frames
<1>2. bmi[r] = Video!Bmi(received[r])
  BY DEF VideoInv, Fits, Video!NewImage
<1> QED
  BY <1>1, <1>2
  DEF VideoInv, Frames, Locked, Fits, Writing, Video!PaintsWholeImages, Video!NewImage

LEMMA ConvertStep ==
  ASSUME VideoInv, NEW r \in Video!Renderers, Video!Convert(r) \/ Video!Invalidate(r) PROVE VideoInv'
  BY DEF VideoInv, Frames, Locked, Fits, Writing, Video!PaintsWholeImages, Video!Convert, Video!Invalidate

LEMMA PaintStep == ASSUME VideoInv, Video!OnPaint \/ Video!Switch PROVE VideoInv'
<1> USE TwoRenderers
<1>1. CASE Video!BeginPaint \/ Video!Switch
  BY <1>1 DEF VideoInv, Frames, Locked, Fits, Writing, Video!PaintsWholeImages, Video!BeginPaint, Video!Switch
<1>2. CASE Video!LockBoth
  BY <1>2 DEF VideoInv, Frames, Locked, Fits, Writing, Video!PaintsWholeImages, Video!LockBoth
<1>3. CASE Video!StretchDIBits
  <2>1. \A r \in Video!Renderers : Video!Converted(r) \in Nat
    BY DEF VideoInv, Frames, Video!Converted
  <2> QED
    BY <1>3, <2>1
    DEF VideoInv, Frames, Locked, Fits, Writing, Video!PaintsWholeImages, Video!StretchDIBits
<1> QED BY <1>1, <1>2, <1>3 DEF Video!OnPaint

LEMMA VideoStep == ASSUME VideoInv, Video!Next PROVE VideoInv'
<1>1. ASSUME NEW r \in Video!Renderers, Video!OnFrame(r) \/ Video!Decoder(r) PROVE VideoInv'
  BY <1>1, OnFrameStep, SetSizeStep, NewImageStep, ConvertStep DEF Video!Decoder
<1> QED BY <1>1, PaintStep DEF Video!Next

-----------------------------------------------------------------------------
(* Video under GTK. As long as OnRedraw and SetSize have not overlapped,   *)
(* the image has the renderer's size outside of SetSize, what OnRedraw has *)
(* copied is the renderer's size, and draw_buffer_ has room for an image   *)
(* of the window's size once OnRedraw is over.                             *)
AreaTypes ==
  /\ size \in [w : Nat, h : Nat] /\ win \in [w : Nat, h : Nat] /\ frame \in [w : Nat, h : Nat]
  /\ image \in Nat /\ capacity \in Nat

Resizing == at \in {"SetSize.height", "SetSize.image"}

ImageOfSize ==
  /\ ~Resizing => image = GtkVideo!Pixels(size)
  /\ at = "SetSize.height" => size.w = frame.w
  /\ at = "SetSize.image" => size = frame

BufferOfSize ==
  /\ redraw # "idle" => ~Resizing
  /\ redraw = "height" => win.w = size.w
  /\ redraw = "SetData" => win = size
  /\ redraw = "idle" => GtkVideo!Pixels(win) <= capacity
  /\ ~overrun

GtkVideoInv ==
  /\ AreaTypes
  /\ redraw \in {"idle", "height", "SetData"}
  /\ raced \in BOOLEAN
  /\ ~raced => ImageOfSize /\ BufferOfSize

LEMMA AreasTyped == ASSUME NEW s \in [w : Nat, h : Nat] PROVE GtkVideo!Pixels(s) \in Nat
<1>1. s.w \in Nat /\ s.h \in Nat
  OBVIOUS
<1>2. \A x, y \in Nat : x * y \in Nat
  OBVIOUS
<1> QED BY <1>1, <1>2 DEF GtkVideo!Pixels

LEMMA FramesTyped == Sizes \subseteq [w : Nat, h : Nat]
  BY DEF Sizes

LEMMA SameArea ==
  ASSUME NEW s \in [w : Nat, h : Nat], NEW t \in [w : Nat, h : Nat], s.w = t.w, s.h = t.h
  PROVE  s = t
  OBVIOUS

LEMMA GtkVideoInit == GtkVideo!Init => GtkVideoInv
<1> SUFFICES ASSUME GtkVideo!Init PROVE GtkVideoInv
  OBVIOUS
<1>1. GtkVideo!NoSize \in [w : Nat, h : Nat] /\ GtkVideo!Pixels(GtkVideo!NoSize) = 0
  BY DEF GtkVideo!NoSize, GtkVideo!Pixels
<1>2. /\ size = GtkVideo!NoSize /\ win = GtkVideo!NoSize /\ frame = GtkVideo!NoSize
      /\ image = 0 /\ capacity = 0 /\ at = "idle" /\ redraw = "idle"
      /\ overrun = FALSE /\ raced = FALSE
  BY DEF GtkVideo!Init
<1>3. AreaTypes
  BY <1>1, <1>2 DEF AreaTypes
<1>4. ImageOfSize
  BY <1>1, <1>2 DEF ImageOfSize, Resizing
<1>5. BufferOfSize
  BY <1>1, <1>2 DEF BufferOfSize, Resizing
<1> QED
  BY <1>2, <1>3, <1>4, <1>5 DEF GtkVideoInv

LEMMA GtkOnFrameStep == ASSUME GtkVideoInv, GtkVideo!OnFrame PROVE GtkVideoInv'
<1>1. frame' \in [w : Nat, h : Nat]
  BY FramesTyped DEF GtkVideo!OnFrame
<1>2. CASE frame' = size
  BY <1>1, <1>2
  DEF GtkVideoInv, AreaTypes, ImageOfSize, BufferOfSize, Resizing, GtkVideo!OnFrame,
      GtkVideo!windowVars, GtkVideo!bufferVars
<1>3. CASE frame' # size
  <2>1. size' = [size EXCEPT !.w = frame'.w] /\ at' = "SetSize.height"
    BY <1>3 DEF GtkVideo!OnFrame
  <2>2. size' \in [w : Nat, h : Nat] /\ size'.w = frame'.w
    BY <1>1, <2>1 DEF GtkVideoInv, AreaTypes
  <2> QED
    BY <1>1, <1>3, <2>1, <2>2
    DEF GtkVideoInv, AreaTypes, ImageOfSize, BufferOfSize, Resizing, GtkVideo!OnFrame,
        GtkVideo!windowVars, GtkVideo!bufferVars
<1> QED BY <1>2, <1>3

LEMMA GtkSetSizeStep == ASSUME GtkVideoInv, GtkVideo!SetSize PROVE GtkVideoInv'
<1>1. CASE at = "SetSize.height"
  <2>1. size' = [size EXCEPT !.h = frame.h] /\ at' = "SetSize.image" /\ UNCHANGED <<image, frame>>
    BY <1>1 DEF GtkVideo!SetSize
  <2>2. size' \in [w : Nat, h : Nat] /\ size'.h = frame.h /\ size'.w = size.w
    BY <2>1 DEF GtkVideoInv, AreaTypes
  <2>3. ~raced => size' = frame
    BY <1>1, <2>2, SameArea DEF GtkVideoInv, AreaTypes, ImageOfSize
  <2> QED
    BY <1>1, <2>1, <2>2, <2>3
    DEF GtkVideoInv, AreaTypes, ImageOfSize, BufferOfSize, Resizing, GtkVideo!SetSize,
        GtkVideo!windowVars, GtkVideo!bufferVars
<1>2. CASE at = "SetSize.image"
  <2>1. at' = "convert" /\ image' = GtkVideo!Pixels(frame) /\ UNCHANGED <<size, frame>>
    BY <1>2 DEF GtkVideo!SetSize
  <2>2. image' \in Nat
    BY <2>1, AreasTyped DEF GtkVideoInv, AreaTypes
  <2> QED
    BY <1>2, <2>1, <2>2
    DEF GtkVideoInv, AreaTypes, ImageOfSize, BufferOfSize, Resizing, GtkVideo!SetSize,
        GtkVideo!windowVars, GtkVideo!bufferVars
<1> QED BY <1>1, <1>2 DEF GtkVideo!SetSize

LEMMA GtkRestartStep == ASSUME GtkVideoInv, GtkVideo!Restart PROVE GtkVideoInv'
<1>1. size' \in [w : Nat, h : Nat] /\ GtkVideo!Pixels(size') = 0
  BY DEF GtkVideo!NoSize, GtkVideo!Pixels, GtkVideo!Restart
<1> QED
  BY <1>1
  DEF GtkVideoInv, AreaTypes, ImageOfSize, BufferOfSize, Resizing, GtkVideo!Restart,
      GtkVideo!windowVars, GtkVideo!bufferVars

LEMMA GtkDrawStep == ASSUME GtkVideoInv, GtkVideo!Draw PROVE GtkVideoInv'
<1>1. GtkVideo!Pixels(win) \in Nat
  BY AreasTyped DEF GtkVideoInv, AreaTypes
<1> QED
  BY <1>1
  DEF GtkVideoInv, AreaTypes, ImageOfSize, BufferOfSize, Resizing, GtkVideo!Draw,
      GtkVideo!decoderVars

LEMMA GtkRedrawStep == ASSUME GtkVideoInv, GtkVideo!Redraw PROVE GtkVideoInv'
<1>1. CASE GtkVideo!OnRedraw
  <2>1. win' \in [w : Nat, h : Nat] /\ (redraw' = "height" => win'.w = size.w)
    BY <1>1 DEF GtkVideoInv, AreaTypes, GtkVideo!OnRedraw
  <2> QED
    BY <1>1, <2>1
    DEF GtkVideoInv, AreaTypes, ImageOfSize, BufferOfSize, Resizing, GtkVideo!OnRedraw,
        GtkVideo!Overlaps, GtkVideo!decoderVars, GtkVideo!bufferVars
<1>2. CASE GtkVideo!RedrawHeight
  <2>1. win' = [win EXCEPT !.h = size.h] /\ UNCHANGED size
    BY <1>2 DEF GtkVideo!RedrawHeight, GtkVideo!decoderVars
  <2>2. win' \in [w : Nat, h : Nat] /\ win'.h = size.h /\ win'.w = win.w
    BY <2>1 DEF GtkVideoInv, AreaTypes
  <2>3. ~raced => win' = size
    BY <1>2, <2>2, SameArea DEF GtkVideoInv, AreaTypes, BufferOfSize, GtkVideo!RedrawHeight
  <2> QED
    BY <1>2, <2>2, <2>3
    DEF GtkVideoInv, AreaTypes, ImageOfSize, BufferOfSize, Resizing, GtkVideo!RedrawHeight,
        GtkVideo!Overlaps, GtkVideo!decoderVars, GtkVideo!bufferVars
<1>3. CASE GtkVideo!RedrawData
  BY <1>3
  DEF GtkVideoInv, AreaTypes, ImageOfSize, BufferOfSize, Resizing, GtkVideo!RedrawData,
      GtkVideo!Overlaps, GtkVideo!decoderVars, GtkVideo!bufferVars
<1> QED BY <1>1, <1>2, <1>3, GtkDrawStep DEF GtkVideo!Redraw

LEMMA GtkVideoStep == ASSUME GtkVideoInv, GtkVideo!Next PROVE GtkVideoInv'
<1>1. CASE GtkVideo!Convert \/ GtkVideo!AddRedraw
  BY <1>1
  DEF GtkVideoInv, AreaTypes, ImageOfSize, BufferOfSize, Resizing, GtkVideo!Convert,
      GtkVideo!AddRedraw, GtkVideo!windowVars, GtkVideo!bufferVars
<1>2. CASE GtkVideo!Draw
  BY <1>2, GtkDrawStep
<1>3. CASE GtkVideo!SwitchToPeerList \/ GtkVideo!SwitchToStreamingUI
  BY <1>3
  DEF GtkVideoInv, AreaTypes, ImageOfSize, BufferOfSize, Resizing, GtkVideo!SwitchToPeerList,
      GtkVideo!SwitchToStreamingUI, GtkVideo!decoderVars, GtkVideo!bufferVars
<1> QED
  BY <1>1, <1>2, <1>3, GtkOnFrameStep, GtkSetSizeStep, GtkRestartStep, GtkRedrawStep
  DEF GtkVideo!Next, GtkVideo!Decoder

-----------------------------------------------------------------------------
(* The window procedure. nested_msg_ says whether a call of it is running, *)
(* prev whether one is below; both pass over the message boxes between.    *)
CallRecords ==
  [msg : Win32!Messages \cup {"none"}, prev : BOOLEAN,
   at : {"OnMessage", "DefWindowProc", "done", "MessageBox"}]
PostedMessages == {Win32!BmClick, Win32!DblClk, Win32!Callback, "WM_CLOSE"}

Running(c) == \E i \in DOMAIN c : c[i].at # "MessageBox"
Ending(c) == \E i \in DOMAIN c : c[i].msg = "WM_NCDESTROY"
Stacked(c) ==
  \A i \in DOMAIN c :
    c[i].at # "MessageBox"
      => (c[i].prev = TRUE <=> \E j \in DOMAIN c : i < j /\ c[j].at # "MessageBox")
ThreadOnly(q) == \A i \in DOMAIN q : q[i] = Win32!Callback

StackInv(c, nested) ==
  /\ c \in Seq(CallRecords) /\ nested \in BOOLEAN
  /\ nested = TRUE <=> Running(c)
  /\ Stacked(c)
  /\ Ending(c) => ~exists
  /\ Running(c) => wnd

QueueInv ==
  /\ posted \in Seq(PostedMessages)
  /\ ~exists => ThreadOnly(posted)

HandleInv == (exists => wnd) /\ (destroyed => ~exists)

WinInv == StackInv(calls, nested_msg) /\ QueueInv /\ HandleInv /\ Win32!OneModeShown

LEMMA Pushed ==
  ASSUME NEW c \in Seq(CallRecords), NEW e \in CallRecords
  PROVE  /\ <<e>> \o c \in Seq(CallRecords)
         /\ Running(<<e>> \o c) <=> (e.at # "MessageBox" \/ Running(c))
         /\ Ending(<<e>> \o c) <=> (e.msg = "WM_NCDESTROY" \/ Ending(c))
         /\ Stacked(<<e>> \o c) <=> /\ Stacked(c)
                                    /\ e.at # "MessageBox" => (e.prev = TRUE <=> Running(c))
<1> DEFINE d == <<e>> \o c
<1>1. /\ d \in Seq(CallRecords) /\ DOMAIN d = 1 .. Len(c) + 1 /\ DOMAIN c = 1 .. Len(c)
      /\ Len(c) \in Nat /\ d[1] = e /\ \A i \in DOMAIN c : d[i + 1] = c[i]
  OBVIOUS
<1>2. \A i \in DOMAIN d : i = 1 \/ (i - 1 \in DOMAIN c /\ d[i] = c[i - 1])
  BY <1>1
<1>3. 1 \in DOMAIN d /\ \A i \in DOMAIN c : i + 1 \in DOMAIN d
  BY <1>1
<1> HIDE DEF d
<1>4. Running(d) <=> (e.at # "MessageBox" \/ Running(c))
  BY <1>1, <1>2, <1>3 DEF Running
<1>5. Ending(d) <=> (e.msg = "WM_NCDESTROY" \/ Ending(c))
  BY <1>1, <1>2, <1>3 DEF Ending
<1>6. (\E j \in DOMAIN d : 1 < j /\ d[j].at # "MessageBox") <=> Running(c)
  <2>1. ASSUME NEW j \in DOMAIN d, 1 < j, d[j].at # "MessageBox" PROVE Running(c)
    BY <1>1, <1>2, <2>1 DEF Running
  <2>2. ASSUME NEW j \in DOMAIN c, c[j].at # "MessageBox"
        PROVE  j + 1 \in DOMAIN d /\ 1 < j + 1 /\ d[j + 1].at # "MessageBox"
    BY <1>1, <1>3, <2>2
  <2> QED BY <2>1, <2>2 DEF Running
<1>7. ASSUME NEW i \in DOMAIN c
      PROVE  (\E j \in DOMAIN d : i + 1 < j /\ d[j].at # "MessageBox")
               <=> (\E j \in DOMAIN c : i < j /\ c[j].at # "MessageBox")
  <2>1. ASSUME NEW j \in DOMAIN d, i + 1 < j, d[j].at # "MessageBox"
        PROVE  j - 1 \in DOMAIN c /\ i < j - 1 /\ c[j - 1].at # "MessageBox"
    BY <1>1, <1>2, <2>1
  <2>2. ASSUME NEW j \in DOMAIN c, i < j, c[j].at # "MessageBox"
        PROVE  j + 1 \in DOMAIN d /\ i + 1 < j + 1 /\ d[j + 1].at # "MessageBox"
    BY <1>1, <1>3, <2>2
  <2> QED BY <2>1, <2>2
<1>8. Stacked(d) <=> Stacked(c) /\ (e.at # "MessageBox" => (e.prev = TRUE <=> Running(c)))
  <2>1. ASSUME Stacked(d) PROVE e.at # "MessageBox" => (e.prev = TRUE <=> Running(c))
    BY <1>1, <1>3, <1>6, <2>1 DEF Stacked
  <2>2. ASSUME Stacked(d), NEW i \in DOMAIN c, c[i].at # "MessageBox"
        PROVE  c[i].prev = TRUE <=> \E j \in DOMAIN c : i < j /\ c[j].at # "MessageBox"
    <3>1. i + 1 \in DOMAIN d /\ d[i + 1] = c[i]
      BY <1>1, <1>3
    <3>2. d[i + 1].prev = TRUE <=> \E j \in DOMAIN d : i + 1 < j /\ d[j].at # "MessageBox"
      BY <2>2, <3>1 DEF Stacked
    <3> QED BY <1>7, <3>1, <3>2
  <2>3. ASSUME Stacked(c), e.at # "MessageBox" => (e.prev = TRUE <=> Running(c)),
               NEW i \in DOMAIN d, d[i].at # "MessageBox"
        PROVE  d[i].prev = TRUE <=> \E j \in DOMAIN d : i < j /\ d[j].at # "MessageBox"
    <3>1. CASE i = 1
      BY <1>1, <1>6, <2>3, <3>1
    <3>2. CASE i # 1
      <4>1. i - 1 \in DOMAIN c /\ d[i] = c[i - 1] /\ (i - 1) + 1 = i
        BY <1>1, <1>2, <3>2
      <4>2. c[i - 1].prev = TRUE <=> \E j \in DOMAIN c : i - 1 < j /\ c[j].at # "MessageBox"
        BY <2>3, <4>1 DEF Stacked
      <4>3. (\E j \in DOMAIN d : (i - 1) + 1 < j /\ d[j].at # "MessageBox")
              <=> (\E j \in DOMAIN c : i - 1 < j /\ c[j].at # "MessageBox")
        BY <1>7, <4>1
      <4> QED BY <4>1, <4>2, <4>3
    <3> QED BY <3>1, <3>2
  <2> QED BY <2>1, <2>2, <2>3 DEF Stacked
<1> QED BY <1>1, <1>4, <1>5, <1>8 DEF d

LEMMA Popped ==
  ASSUME NEW c \in Seq(CallRecords), c # <<>>
  PROVE  /\ Head(c) \in CallRecords /\ Tail(c) \in Seq(CallRecords)
         /\ Running(c) <=> (Head(c).at # "MessageBox" \/ Running(Tail(c)))
         /\ Ending(c) <=> (Head(c).msg = "WM_NCDESTROY" \/ Ending(Tail(c)))
         /\ Stacked(c) <=> /\ Stacked(Tail(c))
                           /\ Head(c).at # "MessageBox" => (Head(c).prev = TRUE <=> Running(Tail(c)))
<1>1. Head(c) \in CallRecords /\ Tail(c) \in Seq(CallRecords) /\ c = <<Head(c)>> \o Tail(c)
  OBVIOUS
<1> QED BY <1>1, Pushed

-----------------------------------------------------------------------------
(* A stack that only has other boxes, or its top at another place          *)
Alike(c) ==
  /\ c \in Seq(CallRecords)
  /\ Running(c) <=> Running(calls)
  /\ Ending(c) <=> Ending(calls)
  /\ Stacked(c)

LEMMA Unchanged == ASSUME WinInv PROVE Alike(calls)
  BY DEF WinInv, StackInv, Alike

LEMMA Moved ==
  ASSUME WinInv, calls # <<>>, Head(calls).at # "MessageBox",
         NEW at0 \in {"OnMessage", "DefWindowProc", "done"}
  PROVE  Alike(Win32!Now(at0))
<1> DEFINE e == [Head(calls) EXCEPT !.at = at0]
<1>1. calls \in Seq(CallRecords) /\ Stacked(calls)
  BY DEF WinInv, StackInv
<1>2. Head(calls) \in CallRecords /\ Tail(calls) \in Seq(CallRecords)
  BY <1>1, Popped
<1>3. e \in CallRecords /\ e.at = at0 /\ e.msg = Head(calls).msg /\ e.prev = Head(calls).prev
  BY <1>2 DEF CallRecords
<1>4. Win32!Now(at0) = <<e>> \o Tail(calls)
  BY DEF Win32!Now
<1> HIDE DEF e
<1>5. /\ Running(calls)
      /\ Ending(calls) <=> (Head(calls).msg = "WM_NCDESTROY" \/ Ending(Tail(calls)))
      /\ Stacked(Tail(calls))
      /\ Head(calls).prev = TRUE <=> Running(Tail(calls))
  BY <1>1, Popped
<1>6. /\ <<e>> \o Tail(calls) \in Seq(CallRecords)
      /\ Running(<<e>> \o Tail(calls))
      /\ Ending(<<e>> \o Tail(calls)) <=> (e.msg = "WM_NCDESTROY" \/ Ending(Tail(calls)))
      /\ Stacked(<<e>> \o Tail(calls))
  <2>1. e.at # "MessageBox"
    BY <1>3
  <2>2. e.prev = TRUE <=> Running(Tail(calls))
    BY <1>3, <1>5
  <2> QED BY <1>2, <1>3, <1>5, <2>1, <2>2, Pushed
<1> QED
  BY <1>3, <1>4, <1>5, <1>6 DEF Alike

LEMMA Boxed == ASSUME NEW c, Alike(c) PROVE Alike(<<Win32!Box>> \o c)
<1>1. /\ Win32!Box \in CallRecords /\ Win32!Box.at = "MessageBox"
      /\ Win32!Box.msg # "WM_NCDESTROY"
  BY DEF Win32!Box, CallRecords
<1> QED BY <1>1, Pushed DEF Alike

-----------------------------------------------------------------------------
(* The actions of the window. What Conductor makes of a step, when what is *)
(* left to dispatch is q and the calls are c, keeps all of them.           *)
Kept == UNCHANGED <<wnd, exists, destroyed, nested_msg>>

LEMMA StackKept ==
  ASSUME WinInv, Kept, Alike(calls') PROVE StackInv(calls, nested_msg)'
  BY DEF WinInv, Kept, StackInv, Alike

LEMMA HandleKept == ASSUME WinInv, Kept PROVE HandleInv'
  BY DEF WinInv, Kept, HandleInv

LEMMA AppendPosted ==
  ASSUME NEW q \in Seq(PostedMessages), NEW m \in PostedMessages
  PROVE  q \o <<m>> \in Seq(PostedMessages) /\ Append(q, m) \in Seq(PostedMessages)
  OBVIOUS

LEMMA SwitchStep ==
  ASSUME WinInv, Kept, NEW q \in Seq(PostedMessages), ~exists => ThreadOnly(q),
         NEW c, Alike(c), Win32!Switch(q, c)
  PROVE  WinInv'
<1>1. Alike(calls')
  <2>1. CASE want' = "MessageBox"
    BY <2>1, Boxed DEF Win32!Switch
  <2>2. CASE want' # "MessageBox"
    BY <2>2 DEF Win32!Switch
  <2> QED BY <2>1, <2>2
<1>2. StackInv(calls, nested_msg)' /\ HandleInv'
  BY <1>1, StackKept, HandleKept
<1>3. CASE posted' = q /\ UNCHANGED shown /\ (exists => UNCHANGED ui)
  <2>1. QueueInv'
    BY <1>3 DEF QueueInv, Kept, ThreadOnly
  <2>2. Win32!OneModeShown'
    BY <1>3 DEF WinInv, Win32!OneModeShown, Kept
  <2> QED BY <1>2, <2>1, <2>2 DEF WinInv
<1>4. CASE exists /\ Win32!SwitchToConnectUI(q)
  <2>1. posted' \in Seq(PostedMessages)
    <3>1. posted' = q \o (IF auto_connect THEN <<Win32!BmClick>> ELSE <<>>)
      BY <1>4 DEF Win32!SwitchToConnectUI
    <3>2. q \o <<>> = q
      OBVIOUS
    <3>3. Win32!BmClick \in PostedMessages
      BY DEF PostedMessages
    <3> QED BY <3>1, <3>2, <3>3, AppendPosted
  <2>2. Win32!OneModeShown'
    <3>1. ui' = "CONNECT_TO_SERVER" /\ shown' = (shown \ {"listbox"}) \cup Win32!connectControls
      BY <1>4 DEF Win32!SwitchToConnectUI, Win32!LayoutConnectUI, Win32!LayoutPeerListUI
    <3>2. shown \subseteq Win32!connectControls \cup {"listbox"} /\ "listbox" \notin Win32!connectControls
      BY <1>4 DEF WinInv, Win32!OneModeShown, Win32!connectControls
    <3>3. shown' = Win32!connectControls
      BY <3>1, <3>2
    <3> QED BY <3>1, <3>3 DEF Win32!OneModeShown
  <2> QED BY <1>2, <1>4, <2>1, <2>2 DEF WinInv, QueueInv, Kept
<1>5. CASE exists /\ Win32!SwitchToPeerList(q)
  <2>1. posted' \in Seq(PostedMessages)
    <3>1. posted' \in {q, Append(q, Win32!DblClk)}
      BY <1>5 DEF Win32!SwitchToPeerList
    <3>2. Win32!DblClk \in PostedMessages
      BY DEF PostedMessages
    <3> QED BY <3>1, <3>2, AppendPosted
  <2>2. Win32!OneModeShown'
    <3>1. ui' = "LIST_PEERS" /\ shown' = (shown \ Win32!connectControls) \cup {"listbox"}
      BY <1>5 DEF Win32!SwitchToPeerList, Win32!LayoutConnectUI, Win32!LayoutPeerListUI
    <3>2. shown \subseteq Win32!connectControls \cup {"listbox"}
      BY <1>5 DEF WinInv, Win32!OneModeShown
    <3>3. shown' = {"listbox"}
      BY <3>1, <3>2
    <3> QED BY <3>1, <3>3 DEF Win32!OneModeShown
  <2> QED BY <1>2, <1>5, <2>1, <2>2 DEF WinInv, QueueInv, Kept
<1>6. CASE exists /\ Win32!SwitchToStreamingUI(q)
  <2>1. posted' = q /\ ui' = "STREAMING"
        /\ shown' = (shown \ Win32!connectControls) \ {"listbox"}
    BY <1>6 DEF Win32!SwitchToStreamingUI, Win32!LayoutConnectUI, Win32!LayoutPeerListUI
  <2>2. shown \subseteq Win32!connectControls \cup {"listbox"}
    BY <1>6 DEF WinInv, Win32!OneModeShown
  <2>3. shown' = {}
    BY <2>1, <2>2
  <2>4. Win32!OneModeShown'
    BY <2>1, <2>3 DEF Win32!OneModeShown
  <2> QED BY <1>2, <1>6, <2>1, <2>4 DEF WinInv, QueueInv, Kept
<1> QED BY <1>3, <1>4, <1>5, <1>6 DEF Win32!Switch, Win32!widgets

LEMMA Posted == ASSUME WinInv PROVE posted \in Seq(PostedMessages) /\ (~exists => ThreadOnly(posted))
  BY DEF WinInv, QueueInv

LEMMA DefaultActionStep ==
  ASSUME WinInv, Kept, NEW c, Alike(c), Win32!OnDefaultAction(posted, c) PROVE WinInv'
<1>1. CASE Win32!Switch(posted, c)
  BY <1>1, SwitchStep, Posted
<1>2. CASE calls' = <<Win32!Box>> \o c /\ posted' = posted /\ UNCHANGED <<ui, shown>>
  <2>1. Alike(calls')
    BY <1>2, Boxed
  <2> QED
    BY <1>2, <2>1, StackKept, HandleKept
    DEF WinInv, Kept, QueueInv, ThreadOnly, Win32!OneModeShown
<1> QED BY <1>1, <1>2 DEF Win32!OnDefaultAction, Win32!widgets

LEMMA TopCall ==
  ASSUME NEW m, NEW at0 \in {"OnMessage", "DefWindowProc"}, Win32!Top(m, at0)
  PROVE  calls # <<>> /\ Head(calls).at # "MessageBox" /\ Head(calls).msg = m
  BY DEF Win32!Top

LEMMA CommandStep == ASSUME WinInv, Win32!OnCommand PROVE WinInv'
<1>1. Alike(Win32!Now("done"))
  BY TopCall, Moved DEF Win32!OnCommand
<1>2. Kept
  BY DEF Win32!OnCommand, Win32!unmoved, Kept
<1> QED BY <1>1, <1>2, DefaultActionStep DEF Win32!OnCommand

LEMMA CloseStep == ASSUME WinInv, Win32!OnClose \/ Win32!OnSetFocus PROVE WinInv'
<1>1. Alike(calls')
  BY TopCall, Moved DEF Win32!OnClose, Win32!OnSetFocus
<1>2. Kept /\ UNCHANGED <<posted, ui, shown>>
  BY DEF Win32!OnClose, Win32!OnSetFocus, Win32!unmoved, Win32!widgets, Kept
<1> QED
  BY <1>1, <1>2, StackKept, HandleKept
  DEF WinInv, Kept, QueueInv, ThreadOnly, Win32!OneModeShown

LEMMA SizeStep == ASSUME WinInv, Win32!OnSize PROVE WinInv'
<1>1. Alike(calls')
  BY TopCall, Moved DEF Win32!OnSize
<1>2. Kept /\ UNCHANGED <<posted, ui>>
  BY DEF Win32!OnSize, Win32!unmoved, Kept
<1>3. Win32!OneModeShown'
  <2>1. CASE ui = "CONNECT_TO_SERVER"
    BY <1>2, <2>1
    DEF WinInv, Kept, Win32!OneModeShown, Win32!OnSize, Win32!LayoutConnectUI
  <2>2. CASE ui = "LIST_PEERS"
    BY <1>2, <2>2
    DEF WinInv, Kept, Win32!OneModeShown, Win32!OnSize, Win32!LayoutPeerListUI
  <2>3. CASE ui \notin {"CONNECT_TO_SERVER", "LIST_PEERS"}
    BY <1>2, <2>3 DEF WinInv, Kept, Win32!OneModeShown, Win32!OnSize
  <2> QED BY <2>1, <2>2, <2>3
<1> QED
  BY <1>1, <1>2, <1>3, StackKept, HandleKept DEF WinInv, Kept, QueueInv, ThreadOnly

(* MainWnd counts with the operator its own instance brings.               *)
LEMMA SameCount == ASSUME NEW S PROVE Win32!Cardinality(S) = Cardinality(S)
  BY Zenon DEF Win32!Cardinality, Cardinality

LEMMA DestroyWindowStep == ASSUME WinInv, Win32!DefWindowProc PROVE WinInv'
<1> DEFINE e == Win32!Call("WM_NCDESTROY")
<1>1. Alike(Win32!Now("done")) /\ Running(calls)
  <2>1. calls # <<>> /\ Head(calls).at # "MessageBox"
    BY TopCall DEF Win32!DefWindowProc
  <2> QED BY <2>1, Moved, Popped DEF WinInv, StackInv
<1>2. wnd /\ nested_msg = TRUE
  BY <1>1 DEF WinInv, StackInv
<1>3. e \in CallRecords /\ e.at = "OnMessage" /\ e.prev = TRUE
  BY <1>2 DEF Win32!Call, CallRecords, Win32!Messages
<1>4. calls' = <<e>> \o Win32!Now("done") /\ ~exists' /\ UNCHANGED <<wnd, nested_msg>>
  BY DEF Win32!DefWindowProc
<1> HIDE DEF e
<1>5. calls' \in Seq(CallRecords) /\ Running(calls') /\ Stacked(calls')
  BY <1>1, <1>3, <1>4, Pushed DEF Alike
<1>6. StackInv(calls, nested_msg)'
  BY <1>2, <1>4, <1>5 DEF StackInv
<1>7. Cardinality(Win32!ToThread) \in Nat
  <2>1. DOMAIN posted = 1 .. Len(posted) /\ Len(posted) \in Nat
    BY Posted
  <2>2. IsFiniteSet(DOMAIN posted)
    BY <2>1, FS_Interval
  <2> QED BY <2>2, FS_Subset, FS_CardinalityType DEF Win32!ToThread
<1>8. posted' = [i \in 1 .. Cardinality(Win32!ToThread) |-> Win32!Callback]
  BY SameCount DEF Win32!DefWindowProc
<1>9. QueueInv'
  <2>1. Win32!Callback \in PostedMessages
    BY DEF PostedMessages
  <2> QED BY <1>7, <1>8, <2>1 DEF QueueInv, ThreadOnly
<1> QED
  BY <1>4, <1>6, <1>9 DEF WinInv, HandleInv, Win32!OneModeShown

LEMMA NcDestroyStep == ASSUME WinInv, Win32!OnNcDestroy PROVE WinInv'
<1>1. calls # <<>> /\ Head(calls).at # "MessageBox" /\ Head(calls).msg = "WM_NCDESTROY"
  BY TopCall DEF Win32!OnNcDestroy
<1>2. Alike(calls')
  BY <1>1, Moved DEF Win32!OnNcDestroy
<1>3. ~exists
  BY <1>1, Popped DEF WinInv, StackInv
<1>4. UNCHANGED <<wnd, exists, nested_msg, posted, ui, shown>>
  BY DEF Win32!OnNcDestroy, Win32!widgets
<1> QED
  BY <1>2, <1>3, <1>4
  DEF WinInv, StackInv, QueueInv, HandleInv, ThreadOnly, Alike, Win32!OneModeShown

LEMMA ReturnStep == ASSUME WinInv, Win32!Return PROVE WinInv'
<1>1. calls # <<>> /\ calls \in Seq(CallRecords) /\ Stacked(calls) /\ Head(calls).at = "done"
  BY DEF WinInv, StackInv, Win32!Return
<1>2. /\ calls' \in Seq(CallRecords) /\ Stacked(calls') /\ Running(calls)
      /\ Ending(calls') => Ending(calls)
      /\ Head(calls).prev = TRUE <=> Running(calls')
      /\ Head(calls).prev \in BOOLEAN
  BY <1>1, Popped DEF Win32!Return, CallRecords
<1>3. nested_msg' = Head(calls).prev /\ UNCHANGED <<exists, posted, ui, shown>>
  BY DEF Win32!Return, Win32!widgets
<1>4. \/ destroyed /\ Head(calls).prev # TRUE /\ ~destroyed'
      \/ UNCHANGED <<wnd, destroyed>>
  <2>1. CASE destroyed /\ ~Head(calls).prev
    BY <2>1 DEF Win32!Return
  <2>2. CASE ~(destroyed /\ ~Head(calls).prev)
    BY <2>2 DEF Win32!Return
  <2> QED BY <2>1, <2>2
<1>5. Running(calls') => wnd'
  BY <1>2, <1>4 DEF WinInv, StackInv
<1>6. HandleInv'
  <2>1. (exists => wnd) /\ (destroyed => ~exists)
    BY DEF WinInv, HandleInv
  <2>2. destroyed' => destroyed
    BY <1>4
  <2>3. exists => wnd'
    BY <1>4, <2>1
  <2> QED BY <1>3, <2>1, <2>2, <2>3 DEF HandleInv
<1>7. StackInv(calls, nested_msg)'
  BY <1>2, <1>3, <1>5 DEF WinInv, StackInv
<1> QED
  BY <1>3, <1>6, <1>7 DEF WinInv, QueueInv, ThreadOnly, Win32!OneModeShown

LEMMA BoxClosesStep == ASSUME WinInv, Win32!BoxCloses PROVE WinInv'
<1>1. calls # <<>> /\ calls \in Seq(CallRecords) /\ Stacked(calls) /\ Head(calls).at = "MessageBox"
  BY DEF WinInv, StackInv, Win32!BoxCloses, Win32!InBox
<1>2. /\ calls' \in Seq(CallRecords) /\ Stacked(calls')
      /\ Running(calls') <=> Running(calls)
      /\ Ending(calls') => Ending(calls)
  BY <1>1, Popped DEF Win32!BoxCloses
<1>3. Kept /\ UNCHANGED <<posted, ui, shown>>
  BY DEF Win32!BoxCloses, Win32!unmoved, Win32!widgets, Kept
<1> QED
  BY <1>2, <1>3, HandleKept
  DEF WinInv, StackInv, Kept, QueueInv, ThreadOnly, Win32!OneModeShown

LEMMA HandlerStep == ASSUME WinInv, Win32!Handler PROVE WinInv'
  BY CommandStep, CloseStep, SizeStep, DestroyWindowStep, NcDestroyStep, ReturnStep, BoxClosesStep
  DEF Win32!Handler

-----------------------------------------------------------------------------
(* Calls of WndProc begin only in a window that exists.                    *)
LEMMA WndProcStep ==
  ASSUME WinInv, exists, NEW m \in Win32!Messages \ {"WM_NCDESTROY"}, Win32!WndProc(m),
         UNCHANGED <<wnd, exists, destroyed, ui, shown>>,
         posted' \in Seq(PostedMessages)
  PROVE  WinInv'
<1>1. calls' = <<Win32!Call(m)>> \o calls /\ nested_msg' = TRUE
  BY DEF Win32!WndProc
<1>2. calls \in Seq(CallRecords) /\ Stacked(calls) /\ (nested_msg = TRUE <=> Running(calls))
      /\ nested_msg \in BOOLEAN /\ ~Ending(calls) /\ wnd
  BY DEF WinInv, StackInv, HandleInv
<1>3. /\ Win32!Call(m) \in CallRecords /\ Win32!Call(m).at = "OnMessage"
      /\ Win32!Call(m).msg = m /\ Win32!Call(m).prev = nested_msg
  BY <1>2 DEF Win32!Call, CallRecords
<1>4. /\ calls' \in Seq(CallRecords) /\ Stacked(calls') /\ Running(calls') /\ ~Ending(calls')
  BY <1>1, <1>2, <1>3, Pushed
<1>5. StackInv(calls, nested_msg)'
  BY <1>1, <1>2, <1>4 DEF StackInv
<1> QED BY <1>5 DEF WinInv, QueueInv, HandleInv, Win32!OneModeShown

LEMMA TailPosted ==
  ASSUME WinInv, posted # <<>>
  PROVE  /\ Tail(posted) \in Seq(PostedMessages) /\ Head(posted) \in PostedMessages
         /\ ~exists => ThreadOnly(Tail(posted)) /\ Head(posted) = Win32!Callback
<1>1. posted \in Seq(PostedMessages) /\ (~exists => ThreadOnly(posted))
  BY Posted
<1>2. /\ Tail(posted) \in Seq(PostedMessages) /\ 1 \in DOMAIN posted /\ Head(posted) = posted[1]
      /\ \A i \in DOMAIN Tail(posted) : i + 1 \in DOMAIN posted /\ Tail(posted)[i] = posted[i + 1]
  BY <1>1
<1>3. Head(posted) \in PostedMessages
  BY <1>1, <1>2
<1> QED BY <1>1, <1>2, <1>3 DEF ThreadOnly

LEMMA DispatchStep == ASSUME WinInv, Win32!Dispatch PROVE WinInv'
<1>1. posted # <<>>
  BY DEF Win32!Dispatch
<1>2. CASE Head(posted) # Win32!Callback
  <2>1. exists /\ posted' \in Seq(PostedMessages)
    BY <1>1, <1>2, TailPosted DEF Win32!Dispatch
  <2>2. \E m \in {"WM_CLOSE", "WM_COMMAND"} : Win32!WndProc(m)
    BY <1>2 DEF Win32!Dispatch
  <2>3. UNCHANGED <<wnd, exists, destroyed, ui, shown>>
    BY <1>2 DEF Win32!Dispatch, Win32!unmoved, Win32!widgets
  <2> QED BY <2>1, <2>2, <2>3, WndProcStep DEF Win32!Messages
<1>3. CASE Head(posted) = Win32!Callback /\ Win32!InBox
  <2>1. Kept /\ UNCHANGED <<ui, shown, calls>> /\ posted' = Tail(posted)
    BY <1>3 DEF Win32!Dispatch, Win32!unmoved, Win32!widgets, Kept
  <2>2. Alike(calls')
    BY <2>1, Unchanged
  <2> QED
    BY <1>1, <2>1, <2>2, TailPosted, StackKept, HandleKept
    DEF WinInv, Kept, QueueInv, ThreadOnly, Win32!OneModeShown
<1>4. CASE Head(posted) = Win32!Callback /\ ~Win32!InBox
  <2>1. Kept /\ Win32!Switch(Tail(posted), calls)
    BY <1>4 DEF Win32!Dispatch, Win32!unmoved, Kept
  <2> QED BY <1>1, <2>1, TailPosted, Unchanged, SwitchStep
<1> QED BY <1>2, <1>3, <1>4

LEMMA UserStep == ASSUME WinInv, Win32!UserActs PROVE WinInv'
<1>1. exists
  BY DEF Win32!UserActs
<1>2. CASE Win32!PressReturn
  BY <1>2, Unchanged, DefaultActionStep DEF Win32!PressReturn, Win32!unmoved, Kept
<1>3. CASE Win32!PressEscape
  BY <1>3, Unchanged, Posted, SwitchStep DEF Win32!PressEscape, Win32!unmoved, Kept
<1>4. CASE Win32!PressTab
  <2>1. Kept /\ UNCHANGED <<ui, shown, calls, posted>>
    BY <1>4 DEF Win32!PressTab, Kept
  <2> QED
    BY <2>1, Unchanged, StackKept, HandleKept
    DEF WinInv, StackInv, HandleInv, Kept, QueueInv, ThreadOnly, Win32!OneModeShown
<1>5. CASE Win32!Click
  <2>1. Win32!WndProc("WM_COMMAND") /\ UNCHANGED <<wnd, exists, destroyed, ui, shown, posted>>
    BY <1>5 DEF Win32!Click, Win32!unmoved
  <2> QED BY <1>1, <2>1, Posted, WndProcStep DEF Win32!Messages
<1>6. CASE Win32!Manage
  <2>1. /\ \E m \in {"WM_CLOSE", "WM_SIZE", "WM_SETFOCUS"} : Win32!WndProc(m)
        /\ UNCHANGED <<wnd, exists, destroyed, ui, shown, posted>>
    BY <1>6 DEF Win32!Manage, Win32!unmoved, Win32!widgets
  <2> QED BY <1>1, <2>1, Posted, WndProcStep DEF Win32!Messages
<1> QED BY <1>2, <1>3, <1>4, <1>5, <1>6 DEF Win32!UserActs

LEMMA PostStep == ASSUME WinInv, Win32!QueueUIThreadCallback \/ Win32!PostClose PROVE WinInv'
<1>1. Kept /\ UNCHANGED <<ui, shown, calls>>
  BY DEF Win32!QueueUIThreadCallback, Win32!PostClose, Win32!unmoved, Win32!widgets, Kept
<1>2. /\ posted' = Append(posted, Win32!Callback) \/ (exists /\ posted' = Append(posted, "WM_CLOSE"))
  BY DEF Win32!QueueUIThreadCallback, Win32!PostClose
<1>3. posted' \in Seq(PostedMessages)
  BY <1>2, Posted, AppendPosted DEF PostedMessages
<1>4. ~exists => ThreadOnly(posted')
  <2>1. SUFFICES ASSUME ~exists PROVE ThreadOnly(posted')
    OBVIOUS
  <2>2. posted \in Seq(PostedMessages) /\ ThreadOnly(posted) /\ posted' = Append(posted, Win32!Callback)
    BY <1>2, <2>1, Posted
  <2>3. \A i \in DOMAIN posted' : posted'[i] = Win32!Callback \/ (i \in DOMAIN posted /\ posted'[i] = posted[i])
    BY <2>2
  <2> QED BY <2>2, <2>3 DEF ThreadOnly
<1>5. Alike(calls')
  BY <1>1, Unchanged
<1> QED
  BY <1>1, <1>3, <1>4, <1>5, StackKept, HandleKept
  DEF WinInv, Kept, QueueInv, Win32!OneModeShown

LEMMA WinStep == ASSUME WinInv, Win32!Next PROVE WinInv'
<1>1. CASE Win32!Network
  BY <1>1, Unchanged, Posted, SwitchStep DEF Win32!Network, Win32!unmoved, Kept
<1>2. CASE Win32!Quit
  <2>1. Kept /\ UNCHANGED <<ui, shown, calls, posted>>
    BY <1>2 DEF Win32!Quit, Win32!widgets, Kept
  <2> QED
    BY <2>1 DEF WinInv, StackInv, HandleInv, Kept, QueueInv, ThreadOnly, Win32!OneModeShown
<1> QED
  BY <1>1, <1>2, HandlerStep, DispatchStep, UserStep, PostStep DEF Win32!Next

LEMMA WinInit == ASSUME Win32!Init PROVE WinInv
<1>1. /\ calls = <<>> /\ nested_msg = FALSE /\ exists = TRUE /\ wnd = TRUE /\ destroyed = FALSE
      /\ ui = "CONNECT_TO_SERVER" /\ shown = Win32!connectControls
      /\ posted = <<Win32!BmClick>> \/ posted = <<>>
  BY DEF Win32!Init
<1>2. StackInv(calls, nested_msg)
  <2>1. calls \in Seq(CallRecords) /\ DOMAIN calls = {}
    BY <1>1
  <2>2. ~Running(calls) /\ ~Ending(calls) /\ Stacked(calls)
    BY <2>1 DEF Running, Ending, Stacked
  <2> QED BY <1>1, <2>1, <2>2 DEF StackInv
<1>3. QueueInv
  <2>1. Win32!BmClick \in PostedMessages
    BY DEF PostedMessages
  <2>2. CASE posted = <<>>
    BY <1>1, <2>2 DEF QueueInv
  <2>3. CASE posted = <<Win32!BmClick>>
    <3>1. <<Win32!BmClick>> \in Seq(PostedMessages)
      BY <2>1
    <3> QED BY <1>1, <2>3, <3>1 DEF QueueInv
  <2> QED BY <1>1, <2>2, <2>3
<1> QED BY <1>1, <1>2, <1>3 DEF WinInv, HandleInv, Win32!OneModeShown

-----------------------------------------------------------------------------
(* The GTK window. SwitchToStreamingUI leaves vbox_ and draw_area_ alone,  *)
(* so the streaming mode must not be asked for while one of them exists:   *)
(* only who is signed in is called, and a last row is activated only in a  *)
(* list that is there, but for one that outlived its window.               *)
IdleRecords ==
  {r \in [op : {"SimulateButtonClick", "SimulateLastRowActivated", "HandleUIThreadCallback"},
          of : {"vbox", "lost vbox", "peer_list", "outside", "gone", "data"}] :
     /\ r.of = "vbox" => r.op = "SimulateButtonClick"
     /\ r.op = "SimulateLastRowActivated" => r.of \in {"peer_list", "outside", "gone"}}
Rowing(q) == \E i \in DOMAIN q : q[i].op = "SimulateLastRowActivated" /\ q[i].of = "peer_list"
Outer(q) == \E i \in DOMAIN q : q[i].op = "SimulateLastRowActivated" /\ q[i].of = "outside"

(* What can become of the rows that q is to activate, in r                 *)
Follows(r, q) == r \in Seq(IdleRecords) /\ (Rowing(r) => Rowing(q)) /\ (Outer(r) => Outer(q))

GtkInv ==
  /\ vbox \in BOOLEAN /\ peer_list \in BOOLEAN /\ window \in BOOLEAN
  /\ idle \in Seq(IdleRecords)
  /\ peer_list => ~vbox
  /\ child = "peer_list" => peer_list
  /\ vbox => login # "yes"
  /\ Rowing(idle) => peer_list
  /\ Outer(idle) => ~window
  /\ ~window => ~vbox
  /\ Gtk!ShowsWhatWasAsked

LEMMA FiniteSequence == ASSUME NEW S, NEW n \in Nat, NEW f \in [1 .. n -> S] PROVE f \in Seq(S)
  OBVIOUS

LEMMA Elements ==
  ASSUME NEW S, NEW q \in Seq(S)
  PROVE  DOMAIN q = 1 .. Len(q) /\ Len(q) \in Nat /\ \A i \in DOMAIN q : q[i] \in S
  OBVIOUS

LEMMA RenamedHolds ==
  ASSUME NEW q \in Seq(IdleRecords), NEW w, NEW name,
         \/ name = "gone"
         \/ w = "peer_list" /\ name = "outside"
         \/ w = "vbox" /\ name \in {"lost vbox", "outside"}
  PROVE  /\ Gtk!Renamed(q, w, name) \in Seq(IdleRecords)
         /\ Rowing(Gtk!Renamed(q, w, name)) => Rowing(q)
         /\ w = "peer_list" => ~Rowing(Gtk!Renamed(q, w, name))
         /\ w # "peer_list" \/ name = "gone" => (Outer(Gtk!Renamed(q, w, name)) => Outer(q))
         /\ Outer(Gtk!Renamed(q, w, name)) => Outer(q) \/ Rowing(q)
<1>1. DOMAIN q = 1 .. Len(q) /\ Len(q) \in Nat /\ \A i \in DOMAIN q : q[i] \in IdleRecords
  BY Elements, Zenon
<1> DEFINE r == Gtk!Renamed(q, w, name)
<1>2. DOMAIN r = DOMAIN q
  BY DEF Gtk!Renamed
<1>3. ASSUME NEW i \in DOMAIN q
      PROVE  /\ r[i] \in IdleRecords /\ r[i].op = q[i].op
             /\ q[i].of = w => r[i].of = name
             /\ q[i].of # w => r[i] = q[i]
             /\ q[i].of = "vbox" => q[i].op = "SimulateButtonClick"
  <2>1. q[i] \in IdleRecords
    BY <1>1
  <2>2. CASE q[i].of = w
    <3>1. r[i] = [q[i] EXCEPT !.of = name]
      BY <2>2 DEF Gtk!Renamed
    <3> QED BY <2>1, <2>2, <3>1 DEF IdleRecords
  <2>3. CASE q[i].of # w
    BY <2>1, <2>3 DEF Gtk!Renamed, IdleRecords
  <2> QED BY <2>2, <2>3
<1>4. r \in Seq(IdleRecords)
  <2>1. r = [i \in 1 .. Len(q) |-> r[i]]
    BY <1>1, <1>2 DEF Gtk!Renamed
  <2> HIDE DEF r
  <2>2. r \in [1 .. Len(q) -> IdleRecords]
    BY <1>1, <1>3, <2>1
  <2> QED BY <1>1, <2>2, FiniteSequence
<1> HIDE DEF r
<1>5. Rowing(r) => Rowing(q) /\ w # "peer_list"
  BY <1>2, <1>3 DEF Rowing
<1>6. w # "peer_list" \/ name = "gone" => (Outer(r) => Outer(q))
  BY <1>2, <1>3 DEF Outer
<1>7. Outer(r) => Outer(q) \/ Rowing(q)
  BY <1>2, <1>3 DEF Outer, Rowing
<1> QED BY <1>4, <1>5, <1>6, <1>7 DEF r

LEMMA Concatenated ==
  ASSUME NEW q \in Seq(IdleRecords), NEW e \in IdleRecords
  PROVE  /\ q \o <<>> = q
         /\ q \o <<e>> \in Seq(IdleRecords)
         /\ Append(q, e) = q \o <<e>>
         /\ Outer(q \o <<e>>) => Outer(q) \/ e.of = "outside"
         /\ e.op # "SimulateLastRowActivated" => Follows(q \o <<e>>, q)
<1> DEFINE d == q \o <<e>>
<1>1. d \in Seq(IdleRecords) /\ DOMAIN d = 1 .. Len(q) + 1 /\ DOMAIN q = 1 .. Len(q)
      /\ Len(q) \in Nat /\ d[Len(q) + 1] = e /\ \A i \in DOMAIN q : d[i] = q[i]
  OBVIOUS
<1>2. q \o <<>> = q /\ Append(q, e) = d
  OBVIOUS
<1>3. \A i \in DOMAIN d : i = Len(q) + 1 \/ i \in DOMAIN q
  BY <1>1
<1> HIDE DEF d
<1>4. Outer(d) => Outer(q) \/ e.of = "outside"
  BY <1>1, <1>3 DEF Outer
<1>5. e.op # "SimulateLastRowActivated" => Follows(d, q)
  BY <1>1, <1>3 DEF Rowing, Outer, Follows
<1> QED BY <1>1, <1>2, <1>4, <1>5 DEF d

LEMMA IdleTail == ASSUME NEW q \in Seq(IdleRecords), q # <<>> PROVE Follows(Tail(q), q)
<1>1. /\ Tail(q) \in Seq(IdleRecords)
      /\ \A i \in DOMAIN Tail(q) : i + 1 \in DOMAIN q /\ Tail(q)[i] = q[i + 1]
  OBVIOUS
<1> QED BY <1>1 DEF Rowing, Outer, Follows

LEMMA IdleHead ==
  ASSUME NEW q \in Seq(IdleRecords), q # <<>>, Head(q).op = "SimulateLastRowActivated",
         Head(q).of # "gone"
  PROVE  Rowing(q) \/ Outer(q)
<1>1. 1 \in DOMAIN q /\ Head(q) = q[1] /\ q[1] \in IdleRecords
  OBVIOUS
<1>2. q[1].of \in {"peer_list", "outside"}
  BY <1>1 DEF IdleRecords
<1> QED BY <1>1, <1>2 DEF Rowing, Outer

LEMMA IdleTypes ==
  /\ Gtk!Click \in IdleRecords /\ Gtk!LastRow \in IdleRecords /\ Gtk!Callback \in IdleRecords
  /\ Gtk!Click.op = "SimulateButtonClick" /\ Gtk!Callback.op = "HandleUIThreadCallback"
  /\ Gtk!LastRow.op = "SimulateLastRowActivated" /\ Gtk!LastRow.of = "peer_list"
  BY DEF IdleRecords, Gtk!Click, Gtk!LastRow, Gtk!Callback

(* The idle callbacks after each switch                                    *)
LEMMA ConnectIdle ==
  ASSUME NEW q \in Seq(IdleRecords), Gtk!SwitchToConnectUI(q)
  PROVE  idle' \in Seq(IdleRecords) /\ ~Rowing(idle') /\ (Outer(idle') => Outer(q))
<1> DEFINE u == Gtk!Renamed(q, "peer_list", "gone")
           name == IF child = "vbox" THEN "lost vbox" ELSE "outside"
           v == Gtk!Renamed(u, "vbox", name)
<1>1. u \in Seq(IdleRecords) /\ ~Rowing(u) /\ (Outer(u) => Outer(q))
  BY RenamedHolds
<1> HIDE DEF u
<1>2. v \in Seq(IdleRecords) /\ ~Rowing(v) /\ (Outer(v) => Outer(u))
  <2>1. name \in {"lost vbox", "outside"}
    OBVIOUS
  <2> HIDE DEF name
  <2> QED BY <1>1, <2>1, RenamedHolds
<1>3. idle' = v \o <<Gtk!Click>> \/ idle' = v \o <<>>
  BY DEF u, v, name, Gtk!SwitchToConnectUI
<1> HIDE DEF v, name
<1>4. v \o <<>> = v /\ Follows(v \o <<Gtk!Click>>, v)
  <2>1. Gtk!Click \in IdleRecords /\ Gtk!Click.op # "SimulateLastRowActivated"
    BY IdleTypes
  <2> QED BY <1>2, <2>1, Concatenated
<1> QED BY Zenon, <1>1, <1>2, <1>3, <1>4 DEF Follows

LEMMA ListIdle ==
  ASSUME NEW q \in Seq(IdleRecords), Gtk!SwitchToPeerList(q)
  PROVE  idle' \in Seq(IdleRecords) /\ (Outer(idle') => Outer(q))
<1>1. PICK u \in {q, Gtk!Renamed(q, "vbox", "gone")} : idle' = u \o Gtk!Autocall
  BY DEF Gtk!SwitchToPeerList
<1>2. u \in Seq(IdleRecords) /\ (Outer(u) => Outer(q))
  BY <1>1, RenamedHolds
<1>3. idle' = u \o <<Gtk!LastRow>> \/ idle' = u \o <<>>
  BY <1>1 DEF Gtk!Autocall
<1>4. /\ u \o <<>> = u /\ u \o <<Gtk!LastRow>> \in Seq(IdleRecords)
      /\ Outer(u \o <<Gtk!LastRow>>) => Outer(u)
  <2>1. Gtk!LastRow \in IdleRecords /\ Gtk!LastRow.of # "outside"
    BY IdleTypes
  <2> QED BY <1>2, <2>1, Concatenated
<1> QED BY Zenon, <1>2, <1>3, <1>4

LEMMA StreamingIdle ==
  ASSUME NEW q \in Seq(IdleRecords), Gtk!SwitchToStreamingUI(q)
  PROVE  idle' \in Seq(IdleRecords) /\ ~Rowing(idle') /\ (Outer(idle') => Outer(q))
  BY RenamedHolds DEF Gtk!SwitchToStreamingUI

LEMMA GtkSwitchStep ==
  ASSUME GtkInv, UNCHANGED window, NEW q, Follows(q, idle), Gtk!Switch(q),
         want' = "STREAMING" => ~vbox /\ (window => peer_list),
         want' = "CONNECT_TO_SERVER" => login' # "yes" /\ window,
         login' = "yes" => login = "yes" \/ want' = "LIST_PEERS"
  PROVE  GtkInv'
<1> USE DEF Gtk!WidgetOf
<1>0. q \in Seq(IdleRecords) /\ (Rowing(q) => peer_list) /\ (Outer(q) => ~window)
  BY DEF Follows, GtkInv
<1>1. CASE want' \notin Gtk!UI
  <2>1. idle' = q /\ UNCHANGED <<vbox, peer_list, asked, left, child>> /\ want' # "LIST_PEERS"
    BY <1>1 DEF Gtk!Switch, Gtk!widgets, Gtk!shapes, Gtk!UI
  <2> QED BY <1>0, <2>1 DEF GtkInv, Gtk!ShowsWhatWasAsked, Gtk!current_ui
<1>2. CASE want' \in Gtk!UI /\ Gtk!SwitchToConnectUI(q)
  <2>1. /\ vbox' = TRUE /\ peer_list' = FALSE /\ asked' = "CONNECT_TO_SERVER"
        /\ want' = "CONNECT_TO_SERVER"
    BY <1>2 DEF Gtk!Switch, Gtk!SwitchToConnectUI
  <2>2. idle' \in Seq(IdleRecords) /\ ~Rowing(idle') /\ (Outer(idle') => ~window)
    BY <1>0, <1>2, ConnectIdle
  <2>3. window /\ child' # "peer_list" /\ (left' \/ child' = "vbox")
    BY <1>2 DEF Gtk!SwitchToConnectUI, Gtk!Added, Gtk!Without
  <2> QED BY <2>1, <2>2, <2>3 DEF GtkInv, Gtk!ShowsWhatWasAsked, Gtk!current_ui
<1>3. CASE want' \in Gtk!UI /\ Gtk!SwitchToPeerList(q)
  <2>1. peer_list' = TRUE /\ asked' = "LIST_PEERS" /\ UNCHANGED left
    BY <1>3 DEF Gtk!Switch, Gtk!SwitchToPeerList
  <2>2. vbox' = FALSE
    BY <1>3 DEF GtkInv, Gtk!SwitchToPeerList
  <2>3. idle' \in Seq(IdleRecords) /\ (Outer(idle') => ~window)
    BY <1>0, <1>3, ListIdle
  <2>4. window => left' \/ child' = "peer_list"
    <3> SUFFICES ASSUME window, ~left PROVE child' = "peer_list"
      BY <2>1
    <3>1. child = Gtk!WidgetOf(Gtk!current_ui)
      BY DEF GtkInv, Gtk!ShowsWhatWasAsked
    <3> QED
      BY <1>3, <3>1 DEF Gtk!SwitchToPeerList, Gtk!current_ui, Gtk!Added, Gtk!Without, GtkInv
  <2> QED BY <2>1, <2>2, <2>3, <2>4 DEF GtkInv, Gtk!ShowsWhatWasAsked, Gtk!current_ui
<1>4. CASE want' \in Gtk!UI /\ Gtk!SwitchToStreamingUI(q)
  <2>1. /\ peer_list' = FALSE /\ asked' = "STREAMING" /\ UNCHANGED <<vbox, left>>
        /\ ~vbox /\ (window => peer_list)
    BY <1>4 DEF Gtk!Switch, Gtk!SwitchToStreamingUI
  <2>2. idle' \in Seq(IdleRecords) /\ ~Rowing(idle') /\ (Outer(idle') => ~window)
    BY <1>0, <1>4, StreamingIdle
  <2>3. window => left' \/ child' = "draw_area"
    <3> SUFFICES ASSUME window, ~left PROVE child' = "draw_area"
      BY <2>1
    <3>1. child = "peer_list"
      BY <2>1 DEF GtkInv, Gtk!ShowsWhatWasAsked, Gtk!current_ui
    <3> QED BY <1>4, <3>1 DEF Gtk!SwitchToStreamingUI, Gtk!Added, Gtk!Without
  <2>4. child' # "peer_list"
    BY <1>4 DEF Gtk!SwitchToStreamingUI, Gtk!Added, Gtk!Without
  <2> QED BY <2>1, <2>2, <2>3, <2>4 DEF GtkInv, Gtk!ShowsWhatWasAsked, Gtk!current_ui
<1> QED BY <1>1, <1>2, <1>3, <1>4 DEF Gtk!Switch

(* A step that changes neither the window nor its widgets                  *)
LEMMA GtkQuietStep ==
  ASSUME GtkInv, Follows(idle', idle), UNCHANGED <<window, vbox, peer_list, child, left, asked>>,
         login' = "yes" => login = "yes"
  PROVE  GtkInv'
  BY DEF GtkInv, Follows, Gtk!ShowsWhatWasAsked, Gtk!current_ui

LEMMA RowStep ==
  ASSUME GtkInv, NEW q, Follows(q, idle), ~vbox, window => peer_list, NEW i,
         Gtk!OnRowActivated(q, i)
  PROVE  GtkInv'
<1>1. /\ want' \in {"none", "STREAMING"} /\ UNCHANGED login
  BY DEF Gtk!OnRowActivated, Gtk!ConnectToPeer, Gtk!Nothing, Gtk!Quiet
<1>2. UNCHANGED window /\ Gtk!Switch(q)
  BY DEF Gtk!OnRowActivated
<1> QED BY <1>1, <1>2, GtkSwitchStep

LEMMA ClickStep ==
  ASSUME GtkInv, NEW q, Follows(q, idle), Gtk!OnClicked(q)
  PROVE  GtkInv'
<1>1. idle' = q /\ UNCHANGED <<window, vbox, peer_list, child, left, asked>>
  BY DEF Gtk!OnClicked, Gtk!shapes
<1>2. login' = "yes" => login = "yes"
  BY DEF Gtk!OnClicked, Gtk!StartLogin, Gtk!Quiet, Gtk!Nothing
<1> QED BY <1>1, <1>2, GtkQuietStep

LEMMA SameIdle == ASSUME GtkInv PROVE Follows(idle, idle)
  BY DEF GtkInv, Follows

LEMMA KeyStep == ASSUME GtkInv, Gtk!OnKeyPress PROVE GtkInv'
<1>1. CASE Gtk!OnEscape
  <2>1. want' \in {"none", "LIST_PEERS"} /\ UNCHANGED login
    BY <1>1
    DEF Gtk!OnEscape, Gtk!DisconnectFromCurrentPeer, Gtk!DisconnectFromServer, Gtk!Nothing, Gtk!If
  <2>2. UNCHANGED window /\ Gtk!Switch(idle)
    BY <1>1 DEF Gtk!OnEscape
  <2> QED BY <2>1, <2>2, SameIdle, GtkSwitchStep
<1>2. CASE Gtk!OnReturn
  BY <1>2, SameIdle, ClickStep DEF Gtk!OnReturn
<1> QED BY <1>1, <1>2 DEF Gtk!OnKeyPress

LEMMA DestroyedIdle ==
  ASSUME NEW q \in Seq(IdleRecords), NEW w, NEW r,
         r = Gtk!Renamed(Gtk!Renamed(Gtk!Renamed(q, w, "gone"), "vbox", "outside"),
                         "peer_list", "outside")
  PROVE  r \in Seq(IdleRecords) /\ ~Rowing(r) /\ (Outer(r) => Outer(q) \/ Rowing(q))
<1> DEFINE u == Gtk!Renamed(q, w, "gone")
           v == Gtk!Renamed(u, "vbox", "outside")
<1>1. u \in Seq(IdleRecords) /\ (Rowing(u) => Rowing(q)) /\ (Outer(u) => Outer(q))
  BY RenamedHolds
<1> HIDE DEF u
<1>2. v \in Seq(IdleRecords) /\ (Rowing(v) => Rowing(u)) /\ (Outer(v) => Outer(u))
  BY <1>1, RenamedHolds
<1> HIDE DEF v
<1>3. Gtk!Renamed(v, "peer_list", "outside") = r
  BY DEF u, v
<1> DEFINE x == Gtk!Renamed(v, "peer_list", "outside")
<1>4. x \in Seq(IdleRecords) /\ ~Rowing(x) /\ (Outer(x) => Outer(v) \/ Rowing(v))
  BY <1>2, RenamedHolds
<1> QED BY <1>1, <1>2, <1>3, <1>4, Zenon

LEMMA DestroyedStep == ASSUME GtkInv, Gtk!OnDestroyed PROVE GtkInv'
<1>1. window' = FALSE /\ vbox' = FALSE /\ peer_list' = FALSE /\ UNCHANGED login
  BY DEF Gtk!OnDestroyed, Gtk!CloseConductor
<1>2. idle' \in Seq(IdleRecords) /\ ~Rowing(idle') /\ child' = "none"
  BY DestroyedIdle DEF Gtk!OnDestroyed, GtkInv
<1> QED BY <1>1, <1>2 DEF GtkInv, Gtk!ShowsWhatWasAsked

LEMMA GtkUserStep == ASSUME GtkInv, Gtk!UserActs PROVE GtkInv'
<1>1. CASE child = "peer_list" /\ \E i \in 0 .. Len(rows) : Gtk!OnRowActivated(idle, i)
  <2>1. PICK i \in 0 .. Len(rows) : Gtk!OnRowActivated(idle, i)
    BY <1>1
  <2> QED BY <1>1, <2>1, SameIdle, RowStep DEF GtkInv
<1> QED
  BY <1>1, SameIdle, ClickStep, KeyStep, DestroyedStep DEF Gtk!UserActs, Gtk!ClickButton

LEMMA RunIdleStep == ASSUME GtkInv, Gtk!RunIdle PROVE GtkInv'
<1>1. idle \in Seq(IdleRecords) /\ idle # <<>> /\ Follows(Tail(idle), idle)
  BY IdleTail DEF GtkInv, Gtk!RunIdle
<1>2. CASE Gtk!StaleIdle
  <2>1. /\ idle' = Tail(idle) /\ UNCHANGED <<window, vbox, peer_list, child, left, asked, login>>
    BY <1>2 DEF Gtk!StaleIdle, Gtk!widgets, Gtk!shapes, Gtk!Quiet, Gtk!Nothing
  <2> QED BY <1>1, <2>1, GtkQuietStep
<1>3. CASE Gtk!ButtonClicked
  BY <1>1, <1>3, ClickStep DEF Gtk!ButtonClicked, Gtk!ClickButton
<1>4. CASE Gtk!LastRowActivated
  <2>1. Rowing(idle) \/ Outer(idle)
    BY <1>1, <1>4, IdleHead, IdleTypes DEF Gtk!LastRowActivated
  <2>2. ~vbox /\ (window => peer_list)
    BY <2>1 DEF GtkInv
  <2> QED BY <1>1, <1>4, <2>2, RowStep DEF Gtk!LastRowActivated
<1>5. CASE Gtk!UIThreadCallback
  <2>1. UNCHANGED window /\ Gtk!Switch(Tail(idle)) /\ Gtk!PeerConnectionClosed(window)
    BY <1>5 DEF Gtk!UIThreadCallback
  <2>2. /\ UNCHANGED login /\ want' # "STREAMING"
        /\ want' = "CONNECT_TO_SERVER" => login # "yes" /\ window
    BY <2>1 DEF Gtk!PeerConnectionClosed, Gtk!If
  <2> QED BY <1>1, <2>1, <2>2, GtkSwitchStep
<1> QED BY <1>2, <1>3, <1>4, <1>5 DEF Gtk!RunIdle

LEMMA GtkNetworkStep == ASSUME GtkInv, Gtk!Network PROVE GtkInv'
<1>1. UNCHANGED window /\ Gtk!Switch(idle) /\ Gtk!FromNetwork(Gtk!IsWindow, Gtk!current_ui)
  BY DEF Gtk!Network
<1>2. /\ want' = "STREAMING" => login = "yes" /\ Gtk!current_ui # "STREAMING"
      /\ want' = "CONNECT_TO_SERVER" => login' # "yes" /\ window
      /\ login' = "yes" => login = "yes" \/ want' = "LIST_PEERS"
  BY <1>1
  DEF Gtk!FromNetwork, Gtk!OnSignedIn, Gtk!OnServerConnectionFailure, Gtk!OnDisconnected,
      Gtk!OnPeersChanged, Gtk!OnOffer, Gtk!If, Gtk!IsWindow
<1>3. want' = "STREAMING" => ~vbox /\ peer_list
  BY <1>2 DEF GtkInv, Gtk!current_ui
<1> QED BY <1>1, <1>2, <1>3, SameIdle, GtkSwitchStep

LEMMA CallbackQueued ==
  ASSUME NEW q \in Seq(IdleRecords) PROVE Follows(Append(q, Gtk!Callback), q)
<1>1. Gtk!Callback \in IdleRecords /\ Gtk!Callback.op # "SimulateLastRowActivated"
  BY IdleTypes
<1> QED BY <1>1, Concatenated

LEMMA GtkStep == ASSUME GtkInv, Gtk!Next PROVE GtkInv'
<1>1. CASE Gtk!QueueUIThreadCallback
  <2>1. /\ idle' = Append(idle, Gtk!Callback)
        /\ UNCHANGED <<window, vbox, peer_list, child, left, asked, login>>
    BY <1>1 DEF Gtk!QueueUIThreadCallback, Gtk!widgets, Gtk!shapes, Gtk!Quiet, Gtk!Nothing
  <2> QED BY <2>1, CallbackQueued, GtkQuietStep DEF GtkInv
<1>2. CASE Gtk!PumpDone \/ Gtk!MessageBoxCloses \/ Gtk!WaitReturns
  <2>1. UNCHANGED <<window, vbox, peer_list, child, left, asked, idle, login>>
    BY <1>2
    DEF Gtk!PumpDone, Gtk!MessageBoxCloses, Gtk!WaitReturns, Gtk!widgets, Gtk!shapes, Gtk!Quiet,
        Gtk!Nothing
  <2>2. Follows(idle', idle)
    BY <2>1, SameIdle
  <2> QED BY <2>1, <2>2, GtkQuietStep
<1> QED BY <1>1, <1>2, GtkUserStep, RunIdleStep, GtkNetworkStep DEF Gtk!Next

LEMMA GtkInit == ASSUME Gtk!Init PROVE GtkInv
<1>1. /\ window = TRUE /\ vbox = TRUE /\ peer_list = FALSE /\ asked = "CONNECT_TO_SERVER"
      /\ child = "vbox" /\ login = "no"
      /\ idle = <<Gtk!Click>> \/ idle = <<>>
  BY DEF Gtk!Init, Gtk!ConductorInit
<1>2. idle \in Seq(IdleRecords) /\ ~Rowing(idle) /\ ~Outer(idle)
  <2>1. CASE idle = <<>>
    BY <2>1 DEF Rowing, Outer
  <2>2. CASE idle = <<Gtk!Click>>
    <3>1. <<Gtk!Click>> \in Seq(IdleRecords)
      BY IdleTypes
    <3>2. DOMAIN idle = {1} /\ idle[1] = Gtk!Click
      BY <2>2
    <3> QED BY <2>2, <3>1, <3>2, IdleTypes DEF Rowing, Outer
  <2> QED BY <1>1, <2>1, <2>2
<1> QED BY <1>1, <1>2 DEF GtkInv, Gtk!ShowsWhatWasAsked, Gtk!current_ui, Gtk!WidgetOf

-----------------------------------------------------------------------------
(* The four together: one of them runs, and the others stay as they are,   *)
(* but for what they share. The GTK part is inductive where it runs.       *)
Inv ==
  /\ VideoInv /\ GtkVideoInv /\ WinInv
  /\ part = "gtk" => GtkInv
  /\ Gtk!ShowsWhatWasAsked

LEMMA StepHolds == ASSUME Inv, [Next]_vars PROVE Inv'
<1>1. ASSUME UNCHANGED videoVars PROVE VideoInv'
  BY <1>1
  DEF Inv, VideoInv, Frames, Locked, Fits, Writing, Video!PaintsWholeImages, videoVars
<1>2. ASSUME UNCHANGED gtkVideoVars PROVE GtkVideoInv'
  BY <1>2
  DEF Inv, GtkVideoInv, AreaTypes, ImageOfSize, BufferOfSize, Resizing, gtkVideoVars
<1>3. ASSUME UNCHANGED win32Vars PROVE WinInv'
  BY <1>3
  DEF Inv, WinInv, StackInv, QueueInv, HandleInv, ThreadOnly, Win32!OneModeShown, win32Vars
<1>4. ASSUME UNCHANGED gtkVars PROVE Gtk!ShowsWhatWasAsked'
  BY <1>4 DEF Inv, Gtk!ShowsWhatWasAsked, Gtk!current_ui, gtkVars
<1>5. CASE GtkRuns /\ Gtk!Next
  <2>1. part = "gtk" /\ UNCHANGED <<part, win32Vars, gtkVideoVars, videoVars>>
    BY <1>5 DEF GtkRuns
  <2>2. GtkInv'
    BY <1>5, <2>1, GtkStep DEF Inv
  <2>3. Gtk!ShowsWhatWasAsked'
    BY <2>2 DEF GtkInv
  <2> QED BY <1>1, <1>2, <1>3, <2>1, <2>2, <2>3 DEF Inv
<1>6. CASE Win32Runs /\ Win32!Next
  <2>1. part' = "win32" /\ UNCHANGED <<gtkVars, gtkVideoVars, videoVars>>
    BY <1>6 DEF Win32Runs
  <2>2. WinInv'
    BY <1>6, WinStep DEF Inv
  <2> QED BY <1>1, <1>2, <1>4, <2>1, <2>2 DEF Inv
<1>7. CASE GtkVideoRuns /\ GtkVideo!Next
  <2>1. part' = "gtk video" /\ UNCHANGED <<gtkVars, win32Vars, videoVars>>
    BY <1>7 DEF GtkVideoRuns
  <2>2. GtkVideoInv'
    BY <1>7, GtkVideoStep DEF Inv
  <2> QED BY <1>1, <1>3, <1>4, <2>1, <2>2 DEF Inv
<1>8. CASE VideoRuns /\ Video!Next
  <2>1. part' = "video" /\ UNCHANGED <<gtkVars, win32Vars, gtkVideoVars>>
    BY <1>8 DEF VideoRuns
  <2>2. VideoInv'
    BY <1>8, VideoStep DEF Inv
  <2> QED BY <1>2, <1>3, <1>4, <2>1, <2>2 DEF Inv
<1>9. CASE UNCHANGED vars
  <2>1. UNCHANGED <<part, login, gtkVars, win32Vars, gtkVideoVars, videoVars>>
    BY <1>9 DEF vars, programVars
  <2>2. part = "gtk" => GtkInv'
    BY <2>1 DEF Inv, GtkInv, Rowing, Outer, Gtk!ShowsWhatWasAsked, Gtk!current_ui, gtkVars
  <2> QED BY <1>1, <1>2, <1>3, <1>4, <2>1, <2>2 DEF Inv
<1> QED BY <1>5, <1>6, <1>7, <1>8, <1>9 DEF Next

LEMMA InitHolds == Init => Inv
<1> SUFFICES ASSUME Init PROVE Inv
  OBVIOUS
<1>1. Gtk!Init /\ Win32!Init /\ GtkVideo!Init /\ Video!Init
  BY DEF Init
<1>2. GtkInv
  BY <1>1, GtkInit
<1>3. Gtk!ShowsWhatWasAsked
  BY <1>2 DEF GtkInv
<1> QED BY <1>1, <1>2, <1>3, WinInit, GtkVideoInit, VideoInit DEF Inv

LEMMA InvAlways == Spec => []Inv
<1>1. Init => Inv
  BY InitHolds
<1>2. Inv /\ [Next]_vars => Inv'
  BY StepHolds
<1> QED BY <1>1, <1>2, PTL DEF Spec

(* Both windows show the mode they were asked for last, in any order of    *)
(* switches, callbacks, keys and messages, for any peers.                  *)
THEOREM ModeAlwaysShown == Spec => []ModeShown
<1>1. Inv => ModeShown
  BY DEF Inv, WinInv, ModeShown
<1> QED BY <1>1, InvAlways, PTL

(* The window's handle outlives the calls that use it, however deep calls  *)
(* and message boxes are nested.                                           *)
THEOREM HandleKeptByHandlers == Spec => []HandlersKeepTheHandle
<1>1. Inv => HandlersKeepTheHandle
  BY DEF Inv, WinInv, StackInv, Running, HandlersKeepTheHandle, Win32!HandlersKeepTheHandle
<1> QED BY <1>1, InvAlways, PTL

(* Images and sizes agree wherever they are used together: under Windows   *)
(* by the locks, under GTK as long as OnRedraw and SetSize do not overlap. *)
THEOREM ImagesAlwaysFit == Spec => []ImagesFit
<1>1. Inv => GtkVideo!OverrunNeedsRace
  BY DEF Inv, GtkVideoInv, BufferOfSize, GtkVideo!OverrunNeedsRace
<1>2. Inv => Video!PaintsWholeImages /\ Video!ConvertsInImage
  BY DEF Inv, VideoInv, Fits, Video!ConvertsInImage
<1> QED BY <1>1, <1>2, InvAlways, PTL DEF ImagesFit

-----------------------------------------------------------------------------
(* What the windows ask of the program. Who is not signed in knows no      *)
(* peers and has no call; a list that is there is the one of the peers who *)
(* are signed in, and there is none during a call. What a GTK window that  *)
(* is gone has left to activate is done before the network acts again.     *)
Program ==
  /\ IsFiniteSet(peers)
  /\ login # "yes" => peers = {} /\ ~active

GtkAsks ==
  /\ peer_list => ~active /\ rows \in Seq(peers)
  /\ Outer(idle) => rows \in Seq(peers)
  /\ ~window => /\ ~vbox /\ ~peer_list
                /\ wait # "pump" => login # "under way" /\ ~Outer(idle)

Fitting ==
  /\ said'.op = "ConnectToPeer" => said'.id \in peers
  /\ said'.op = "DisconnectFromServer" => ~active

Silent == said' = [op |-> "none"]

LEMMA RowsTyped ==
  ASSUME NEW S, IsFiniteSet(S), NEW s \in Gtk!InOrder(S) PROVE s \in Seq(S)
<1>1. Gtk!Cardinality(S) = Cardinality(S)
  BY Zenon DEF Gtk!Cardinality, Cardinality
<1>2. Cardinality(S) \in Nat
  BY FS_CardinalityType
<1>3. s \in [1 .. Cardinality(S) -> S]
  BY <1>1 DEF Gtk!InOrder
<1> QED BY <1>2, <1>3, FiniteSequence

(* The rows that are to be activated are those of the list they were in.   *)
LEMMA GtkSwitchAsks ==
  ASSUME GtkInv, GtkAsks, Program', UNCHANGED window, wait' = "pump" <=> wait = "pump",
         NEW q, Follows(q, idle), Gtk!Switch(q),
         want' = "LIST_PEERS" => ~active',
         want' \notin Gtk!UI /\ peer_list => ~active' /\ UNCHANGED peers,
         ~window => /\ want' \in Gtk!UI => want' = "STREAMING"
                    /\ wait # "pump" => login' # "under way"
                    /\ Outer(idle) => UNCHANGED peers
  PROVE  GtkAsks'
<1>0. q \in Seq(IdleRecords) /\ (Outer(q) => Outer(idle)) /\ (Outer(idle) => ~window)
  BY DEF Follows, GtkInv
<1>1. CASE want' \notin Gtk!UI
  <2>1. idle' = q /\ UNCHANGED <<vbox, peer_list, rows>>
    BY <1>1 DEF Gtk!Switch, Gtk!widgets, Gtk!shapes, Gtk!UI
  <2>2. peer_list => ~active' /\ rows' \in Seq(peers')
    BY <1>1, <2>1 DEF GtkAsks
  <2>3. Outer(idle') => ~window /\ rows' \in Seq(peers')
    BY <1>0, <2>1 DEF GtkAsks
  <2> QED BY <1>0, <2>1, <2>2, <2>3 DEF GtkAsks
<1>2. CASE want' \in Gtk!UI /\ Gtk!SwitchToPeerList(q)
  <2>1. rows' \in Seq(peers')
    BY <1>2, RowsTyped DEF Gtk!SwitchToPeerList, Program
  <2>2. window' /\ ~active'
    BY <1>2 DEF Gtk!SwitchToPeerList
  <2> QED BY <2>1, <2>2 DEF GtkAsks
<1>3. CASE want' \in Gtk!UI /\ Gtk!SwitchToConnectUI(q)
  <2>1. window' /\ peer_list' = FALSE
    BY <1>3 DEF Gtk!SwitchToConnectUI
  <2>2. ~Outer(idle')
    BY <1>0, <1>3, <2>1, ConnectIdle
  <2> QED BY <2>1, <2>2 DEF GtkAsks
<1>4. CASE want' \in Gtk!UI /\ Gtk!SwitchToStreamingUI(q)
  <2>1. peer_list' = FALSE /\ UNCHANGED vbox /\ rows' = IF peer_list THEN <<>> ELSE rows
    BY <1>4 DEF Gtk!SwitchToStreamingUI, Gtk!Emptied
  <2>2. Outer(idle') => Outer(idle)
    BY <1>0, <1>4, StreamingIdle
  <2>3. Outer(idle') => rows' \in Seq(peers')
    <3> SUFFICES ASSUME Outer(idle') PROVE rows' \in Seq(peers')
      OBVIOUS
    <3>1. ~window /\ ~peer_list /\ rows \in Seq(peers)
      BY <1>0, <2>2 DEF GtkAsks
    <3> QED BY <2>1, <2>2, <3>1
  <2> QED BY <2>1, <2>2, <2>3 DEF GtkAsks
<1> QED BY <1>1, <1>2, <1>3, <1>4 DEF Gtk!Switch

(* A row of the list, by a click or by autocall; 0 is the caption          *)
LEMMA RowAsks ==
  ASSUME GtkInv, GtkAsks, Program, peer_list \/ ~window, rows \in Seq(peers),
         NEW q, Follows(q, idle), NEW i \in 0 .. Len(rows), Gtk!OnRowActivated(q, i)
  PROVE  Program' /\ GtkAsks' /\ Fitting
<1>1. Gtk!Switch(q) /\ UNCHANGED <<window, wait, peers, login>>
  BY DEF Gtk!OnRowActivated, Gtk!Nothing, Gtk!Quiet, Gtk!ConnectToPeer
<1>2. CASE i = 0
  <2>1. UNCHANGED active /\ Silent /\ want' = "none"
    BY <1>2 DEF Gtk!OnRowActivated, Gtk!Nothing, Gtk!Quiet, Gtk!Say, Silent
  <2>2. Program' /\ Fitting
    BY <1>1, <2>1 DEF Program, Fitting, Silent
  <2>3. GtkAsks'
    BY <1>1, <2>1, <2>2, GtkSwitchAsks DEF Gtk!UI, GtkAsks
  <2> QED BY <2>2, <2>3
<1>3. CASE i # 0
  <2>1. rows[i] \in peers
    BY <1>3
  <2>2. /\ said' = [op |-> "ConnectToPeer", id |-> rows[i]]
        /\ want' = IF active THEN "none" ELSE "STREAMING"
    BY <1>3 DEF Gtk!OnRowActivated, Gtk!ConnectToPeer
  <2>3. Program' /\ Fitting
    BY <1>1, <2>1, <2>2 DEF Program, Fitting
  <2>4. peer_list => ~active
    BY DEF GtkAsks
  <2>5. GtkAsks'
    BY <1>1, <2>2, <2>3, <2>4, GtkSwitchAsks DEF Gtk!UI, GtkAsks
  <2> QED BY <2>3, <2>5
<1> QED BY <1>2, <1>3

(* A step that changes no widget, no peer and no call                      *)
LEMMA GtkStillAsks ==
  ASSUME GtkInv, GtkAsks, Program, Follows(idle', idle),
         UNCHANGED <<window, vbox, peer_list, rows, active, peers>>,
         login' = login \/ (login' # "yes" /\ login # "yes"),
         ~window /\ wait' # "pump" => login' # "under way" /\ ~Outer(idle)
  PROVE  Program' /\ GtkAsks'
<1>1. Outer(idle') => Outer(idle)
  BY DEF Follows
<1> QED BY <1>1 DEF Program, GtkAsks

LEMMA ClickAsks ==
  ASSUME GtkInv, GtkAsks, Program, NEW q, Follows(q, idle), Gtk!OnClicked(q)
  PROVE  Program' /\ GtkAsks' /\ Fitting
<1>1. idle' = q /\ UNCHANGED <<window, vbox, peer_list, rows, wait>>
  BY DEF Gtk!OnClicked, Gtk!shapes
<1>2. CASE vbox /\ Gtk!Say("StartLogin") /\ Gtk!StartLogin
  <2>1. /\ UNCHANGED <<active, peers>> /\ (login' = login \/ (login' # "yes" /\ login # "yes"))
        /\ said' = [op |-> "StartLogin"]
    BY <1>2 DEF Gtk!StartLogin, Gtk!Say
  <2>2. window
    BY <1>2 DEF GtkAsks
  <2> QED BY <1>1, <2>1, <2>2, GtkStillAsks DEF Fitting
<1>3. CASE Gtk!Quiet
  <2>1. UNCHANGED <<active, peers, login>> /\ Silent
    BY <1>3 DEF Gtk!Quiet, Gtk!Nothing, Gtk!Say, Silent
  <2> QED BY <1>1, <2>1, GtkStillAsks DEF Fitting, Silent, GtkAsks
<1> QED BY <1>2, <1>3 DEF Gtk!OnClicked

LEMMA KeyAsks ==
  ASSUME GtkInv, GtkAsks, Program, window, Gtk!OnKeyPress
  PROVE  Program' /\ GtkAsks' /\ Fitting
<1>1. CASE Gtk!OnReturn
  BY <1>1, SameIdle, ClickAsks DEF Gtk!OnReturn
<1>2. CASE Gtk!OnEscape
  <2>1. Gtk!Switch(idle) /\ UNCHANGED <<window, wait, login, peers>>
    BY <1>2 DEF Gtk!OnEscape, Gtk!DisconnectFromCurrentPeer, Gtk!DisconnectFromServer, Gtk!Nothing
  <2>2. CASE Gtk!Say("DisconnectFromCurrentPeer") /\ Gtk!DisconnectFromCurrentPeer(window)
    <3>1. ~active' /\ want' = "LIST_PEERS" /\ said' = [op |-> "DisconnectFromCurrentPeer"]
      BY <2>2 DEF Gtk!Say, Gtk!DisconnectFromCurrentPeer, Gtk!If
    <3>2. Program' /\ Fitting
      BY <2>1, <3>1 DEF Program, Fitting
    <3>3. GtkAsks'
      BY <2>1, <3>1, <3>2, SameIdle, GtkSwitchAsks DEF Gtk!UI
    <3> QED BY <3>2, <3>3
  <2>3. CASE peer_list /\ Gtk!Say("DisconnectFromServer") /\ Gtk!DisconnectFromServer
    <3>1. /\ UNCHANGED active /\ want' = "none" /\ said' = [op |-> "DisconnectFromServer"]
          /\ ~active
      BY <2>3 DEF Gtk!Say, Gtk!DisconnectFromServer, Gtk!Nothing, GtkAsks
    <3>2. Program' /\ Fitting
      BY <2>1, <3>1 DEF Program, Fitting
    <3>3. GtkAsks'
      BY <2>1, <3>1, <3>2, SameIdle, GtkSwitchAsks
    <3> QED BY <3>2, <3>3
  <2> QED BY <1>2, <2>2, <2>3 DEF Gtk!OnEscape
<1> QED BY <1>1, <1>2 DEF Gtk!OnKeyPress

LEMMA DestroyedAsks ==
  ASSUME GtkInv, GtkAsks, Program, window, wait = "pump", Gtk!OnDestroyed
  PROVE  Program' /\ GtkAsks' /\ Fitting
<1>1. /\ window' = FALSE /\ vbox' = FALSE /\ peer_list' = FALSE
      /\ UNCHANGED <<login, peers, wait>> /\ ~active' /\ said' = [op |-> "Close"]
      /\ rows' = IF child = "peer_list" THEN <<>> ELSE rows
  BY DEF Gtk!OnDestroyed, Gtk!CloseConductor, Gtk!Say
<1>2. Outer(idle') => rows' \in Seq(peers')
  <2> SUFFICES ASSUME Outer(idle') PROVE rows \in Seq(peers)
    BY <1>1
  <2>1. ~Outer(idle) /\ idle \in Seq(IdleRecords)
    BY DEF GtkInv
  <2>2. Rowing(idle)
    BY <2>1, DestroyedIdle DEF Gtk!OnDestroyed
  <2> QED BY <2>2 DEF GtkInv, GtkAsks
<1> QED BY <1>1, <1>2 DEF GtkAsks, Program, Fitting

LEMMA GtkUserAsks ==
  ASSUME GtkInv, GtkAsks, Program, Gtk!UserActs PROVE Program' /\ GtkAsks' /\ Fitting
<1>1. wait = "pump" /\ window
  BY DEF Gtk!UserActs
<1>2. CASE child = "peer_list" /\ \E i \in 0 .. Len(rows) : Gtk!OnRowActivated(idle, i)
  <2>1. PICK i \in 0 .. Len(rows) : Gtk!OnRowActivated(idle, i)
    BY <1>2
  <2>2. peer_list /\ rows \in Seq(peers)
    BY <1>2 DEF GtkInv, GtkAsks
  <2> QED BY <2>1, <2>2, SameIdle, RowAsks
<1> QED
  BY <1>1, <1>2, SameIdle, ClickAsks, KeyAsks, DestroyedAsks DEF Gtk!UserActs, Gtk!ClickButton

LEMMA IdleAsks ==
  ASSUME GtkInv, GtkAsks, Program, Gtk!RunIdle PROVE Program' /\ GtkAsks' /\ Fitting
<1>1. idle \in Seq(IdleRecords) /\ idle # <<>> /\ Follows(Tail(idle), idle)
  BY IdleTail DEF GtkInv, Gtk!RunIdle
<1>2. CASE Gtk!StaleIdle
  <2>1. /\ UNCHANGED <<active, peers, login, window, vbox, peer_list, rows, wait>> /\ Silent
        /\ idle' = Tail(idle)
    BY <1>2 DEF Gtk!StaleIdle, Gtk!Quiet, Gtk!Nothing, Gtk!Say, Gtk!widgets, Gtk!shapes, Silent
  <2>2. Program' /\ GtkAsks'
    BY <1>1, <2>1, GtkStillAsks DEF GtkAsks
  <2> QED BY <2>1, <2>2 DEF Fitting, Silent
<1>3. CASE Gtk!ButtonClicked
  BY <1>1, <1>3, ClickAsks DEF Gtk!ButtonClicked, Gtk!ClickButton
<1>4. CASE Gtk!LastRowActivated
  <2>1. Rowing(idle) \/ Outer(idle)
    BY <1>1, <1>4, IdleHead, IdleTypes DEF Gtk!LastRowActivated
  <2>2. (peer_list \/ ~window) /\ rows \in Seq(peers)
    BY <2>1 DEF GtkInv, GtkAsks
  <2>3. Len(rows) \in 0 .. Len(rows)
    BY <2>2
  <2> QED BY <1>1, <1>4, <2>2, <2>3, RowAsks DEF Gtk!LastRowActivated
<1>5. CASE Gtk!UIThreadCallback
  <2>1. /\ Gtk!Switch(Tail(idle)) /\ UNCHANGED <<window, peers, login, wait>> /\ ~active' /\ Silent
        /\ want' = IF window THEN (IF login = "yes" THEN "LIST_PEERS" ELSE "CONNECT_TO_SERVER")
                   ELSE "none"
    BY <1>5 DEF Gtk!UIThreadCallback, Gtk!PeerConnectionClosed, Gtk!If, Gtk!Say, Silent
  <2>2. Program' /\ Fitting
    BY <2>1 DEF Program, Fitting, Silent
  <2>3. GtkAsks'
    <3>1. ~window => want' \notin Gtk!UI /\ (wait # "pump" => login' # "under way")
      BY <2>1 DEF Gtk!UI, GtkAsks
    <3> QED BY <1>1, <2>1, <2>2, <3>1, GtkSwitchAsks
  <2> QED BY <2>2, <2>3
<1> QED BY <1>2, <1>3, <1>4, <1>5 DEF Gtk!RunIdle

LEMMA FinitePeers == ASSUME NEW S, IsFiniteSet(S), NEW T \in SUBSET S PROVE IsFiniteSet(T)
  BY FS_Subset

LEMMA GtkNetworkAsks ==
  ASSUME GtkInv, GtkAsks, Program, Gtk!Network PROVE Program' /\ GtkAsks' /\ Fitting
<1>1. /\ Gtk!Switch(idle) /\ UNCHANGED window /\ Silent /\ wait = "sockets"
      /\ wait' \in {"sockets", "dialog"} /\ Gtk!FromNetwork(window, Gtk!current_ui)
  BY DEF Gtk!Network, Gtk!IsWindow, Gtk!Say, Silent
<1>2. Fitting
  BY <1>1 DEF Fitting, Silent
<1>3. /\ ~window => login # "under way" /\ ~vbox /\ ~peer_list /\ ~Outer(idle)
      /\ peer_list => Gtk!current_ui = "LIST_PEERS" /\ ~active
      /\ Gtk!current_ui = "LIST_PEERS" => peer_list
  BY <1>1 DEF GtkAsks, GtkInv, Gtk!current_ui
<1>4. Program'
  <2>1. IsFiniteSet(peers')
    <3>1. CASE peers' \in SUBSET PeerIds
      BY <3>1, FinitePeers, WindowAssumption
    <3>2. CASE peers' = peers \/ peers' = {}
      BY <3>2, FS_EmptySet DEF Program
    <3> QED
      BY <1>1, <3>1, <3>2
      DEF Gtk!FromNetwork, Gtk!OnSignedIn, Gtk!OnServerConnectionFailure, Gtk!OnDisconnected,
          Gtk!OnPeersChanged, Gtk!OnOffer
  <2>2. login' # "yes" => peers' = {} /\ ~active'
    BY <1>1
    DEF Program, Gtk!FromNetwork, Gtk!OnSignedIn, Gtk!OnServerConnectionFailure, Gtk!OnDisconnected,
        Gtk!OnPeersChanged, Gtk!OnOffer
  <2> QED BY <2>1, <2>2 DEF Program
<1>5. /\ want' = "LIST_PEERS" => ~active'
      /\ want' \notin Gtk!UI /\ peer_list => ~active' /\ UNCHANGED peers
      /\ ~window => want' \notin Gtk!UI /\ login' # "under way"
  <2>1. CASE Gtk!OnSignedIn
    <3>1. login = "under way" /\ UNCHANGED active /\ want' = "LIST_PEERS"
      BY <2>1 DEF Gtk!OnSignedIn
    <3>2. ~active'
      BY <3>1 DEF Program
    <3> QED BY <1>3, <3>1, <3>2 DEF Gtk!UI
  <2>5. CASE Gtk!OnServerConnectionFailure
    BY <1>3, <2>5 DEF Gtk!OnServerConnectionFailure, Gtk!UI
  <2>2. CASE Gtk!OnDisconnected(window)
    BY <1>3, <2>2 DEF Gtk!OnDisconnected, Gtk!If, Gtk!UI
  <2>3. CASE Gtk!OnPeersChanged(Gtk!current_ui)
    BY <1>3, <2>3 DEF Gtk!OnPeersChanged, Gtk!UI
  <2>4. CASE Gtk!OnOffer(window, Gtk!current_ui)
    BY <1>3, <2>4 DEF Gtk!OnOffer, Gtk!UI
  <2> QED BY <1>1, <2>1, <2>2, <2>3, <2>4, <2>5 DEF Gtk!FromNetwork
<1>6. GtkAsks'
  <2> DEFINE q == idle
  <2>0. Follows(q, idle)
    BY SameIdle
  <2> HIDE DEF q
  <2>1. Gtk!Switch(q)
    BY <1>1 DEF q
  <2> QED BY <1>1, <1>3, <1>4, <1>5, <2>0, <2>1, GtkSwitchAsks
<1> QED BY <1>2, <1>4, <1>6

LEMMA GtkAsksStep == ASSUME GtkInv, GtkAsks, Program, Gtk!Next PROVE Program' /\ GtkAsks' /\ Fitting
<1>1. CASE Gtk!QueueUIThreadCallback
  <2>1. /\ UNCHANGED <<window, vbox, peer_list, rows, wait, active, peers, login>> /\ Silent
        /\ idle' = Append(idle, Gtk!Callback)
    BY <1>1
    DEF Gtk!QueueUIThreadCallback, Gtk!widgets, Gtk!shapes, Gtk!Nothing, Gtk!Quiet, Gtk!Say, Silent
  <2>2. Follows(idle', idle)
    BY <2>1, CallbackQueued DEF GtkInv
  <2>3. Program' /\ GtkAsks'
    BY <2>1, <2>2, GtkStillAsks DEF GtkAsks
  <2> QED BY <2>1, <2>3 DEF Fitting, Silent
<1>2. CASE Gtk!PumpDone \/ Gtk!MessageBoxCloses \/ Gtk!WaitReturns
  <2>1. UNCHANGED <<window, vbox, peer_list, rows, idle, active, peers, login>> /\ Silent
    BY <1>2
    DEF Gtk!PumpDone, Gtk!MessageBoxCloses, Gtk!WaitReturns, Gtk!widgets, Gtk!shapes, Gtk!Nothing,
        Gtk!Quiet, Gtk!Say, Silent
  <2>2. ~window /\ wait' # "pump" => login # "under way" /\ ~Outer(idle)
    <3>1. CASE Gtk!PumpDone
      <4>1. idle = <<>> /\ (window \/ active \/ login = "yes" \/ UNCHANGED wait) /\ wait = "pump"
        BY <3>1 DEF Gtk!PumpDone, Gtk!IsWindow
      <4>2. ~Outer(idle)
        BY <4>1 DEF Outer
      <4> QED BY <4>1, <4>2 DEF Program
    <3>2. CASE Gtk!MessageBoxCloses \/ Gtk!WaitReturns
      BY <3>2 DEF Gtk!MessageBoxCloses, Gtk!WaitReturns, GtkAsks
    <3> QED BY <1>2, <3>1, <3>2
  <2>3. Follows(idle', idle)
    BY <2>1, SameIdle
  <2>4. Program' /\ GtkAsks'
    BY <2>1, <2>2, <2>3, GtkStillAsks
  <2> QED BY <2>1, <2>4 DEF Fitting, Silent
<1> QED BY <1>1, <1>2, GtkUserAsks, IdleAsks, GtkNetworkAsks DEF Gtk!Next

-----------------------------------------------------------------------------
(* The window under Windows. Only the innermost call can still ask, and a  *)
(* command only of a window that exists: where the user and the network    *)
(* act, every call has asked already.                                      *)
Asking(c) == c.at \in {"OnMessage", "DefWindowProc"}
NoneAsking(c) == \A i \in DOMAIN c : ~Asking(c[i])
Commands(c) == Asking(c) /\ c.msg = "WM_COMMAND"

CallsAsk ==
  calls # <<>> => NoneAsking(Tail(calls)) /\ (Commands(Head(calls)) => exists)

Win32Asks ==
  /\ exists => /\ ui # "STREAMING" => ~active
               /\ ui # "CONNECT_TO_SERVER" => login = "yes"
               /\ ui = "LIST_PEERS" => items \in Seq(peers) /\ sel \in 0 .. Len(items) + 1
  /\ CallsAsk

LEMMA PushedAsks ==
  ASSUME NEW c \in Seq(CallRecords), NEW e \in CallRecords
  PROVE  /\ NoneAsking(<<e>> \o c) <=> ~Asking(e) /\ NoneAsking(c)
         /\ Tail(<<e>> \o c) = c /\ Head(<<e>> \o c) = e /\ <<e>> \o c # <<>>
<1> DEFINE d == <<e>> \o c
<1>1. /\ DOMAIN d = 1 .. Len(c) + 1 /\ DOMAIN c = 1 .. Len(c) /\ Len(c) \in Nat
      /\ d[1] = e /\ \A i \in DOMAIN c : d[i + 1] = c[i]
      /\ Tail(d) = c /\ Head(d) = e /\ d # <<>>
  OBVIOUS
<1>2. \A i \in DOMAIN d : i = 1 \/ (i - 1 \in DOMAIN c /\ d[i] = c[i - 1])
  BY <1>1
<1>3. 1 \in DOMAIN d /\ \A i \in DOMAIN c : i + 1 \in DOMAIN d
  BY <1>1
<1> HIDE DEF d
<1>4. NoneAsking(d) <=> ~Asking(e) /\ NoneAsking(c)
  BY <1>1, <1>2, <1>3 DEF NoneAsking
<1> QED BY <1>1, <1>4 DEF d

LEMMA PoppedAsks ==
  ASSUME NEW c \in Seq(CallRecords), c # <<>>
  PROVE  NoneAsking(c) <=> ~Asking(Head(c)) /\ NoneAsking(Tail(c))
<1>1. Head(c) \in CallRecords /\ Tail(c) \in Seq(CallRecords) /\ c = <<Head(c)>> \o Tail(c)
  OBVIOUS
<1> QED BY <1>1, PushedAsks

LEMMA QuietCalls == ASSUME NEW c \in Seq(CallRecords), NoneAsking(c), calls' = c PROVE CallsAsk'
  BY PoppedAsks DEF CallsAsk, Commands

LEMMA CallsTyped == ASSUME WinInv PROVE calls \in Seq(CallRecords)
  BY DEF WinInv, StackInv

LEMMA QuietNow ==
  ASSUME WinInv, CallsAsk, calls # <<>>, NEW at0 \in {"OnMessage", "DefWindowProc", "done"}
  PROVE  /\ Win32!Now(at0) \in Seq(CallRecords)
         /\ at0 = "done" => NoneAsking(Win32!Now(at0))
         /\ NoneAsking(Tail(Win32!Now(at0))) /\ Win32!Now(at0) # <<>>
         /\ Head(Win32!Now(at0)).msg = Head(calls).msg
<1> DEFINE e == [Head(calls) EXCEPT !.at = at0]
<1>1. Head(calls) \in CallRecords /\ Tail(calls) \in Seq(CallRecords)
  BY CallsTyped
<1>2. e \in CallRecords /\ e.at = at0 /\ e.msg = Head(calls).msg
  BY <1>1 DEF CallRecords
<1>3. Win32!Now(at0) = <<e>> \o Tail(calls)
  BY DEF Win32!Now
<1> HIDE DEF e
<1>4. <<e>> \o Tail(calls) \in Seq(CallRecords)
  BY <1>1, <1>2
<1>5. at0 = "done" => ~Asking(e)
  BY <1>2 DEF Asking
<1>6. /\ at0 = "done" => NoneAsking(<<e>> \o Tail(calls))
      /\ NoneAsking(Tail(<<e>> \o Tail(calls))) /\ <<e>> \o Tail(calls) # <<>>
      /\ Head(<<e>> \o Tail(calls)) = e
  BY <1>1, <1>2, <1>5, PushedAsks DEF CallsAsk
<1> QED BY <1>2, <1>3, <1>4, <1>6

(* Where a MessageBox dispatches, or nothing runs, all calls have asked    *)
LEMMA QuietBox ==
  ASSUME WinInv, CallsAsk, calls = <<>> \/ Head(calls).at = "MessageBox" PROVE NoneAsking(calls)
<1>1. CASE calls = <<>>
  BY <1>1 DEF NoneAsking
<1>2. CASE calls # <<>> /\ Head(calls).at = "MessageBox"
  <2>1. ~Asking(Head(calls))
    BY <1>2 DEF Asking
  <2> QED BY <1>2, <2>1, CallsTyped, PoppedAsks DEF CallsAsk
<1> QED BY <1>1, <1>2

LEMMA QuietBoxed ==
  ASSUME NEW c \in Seq(CallRecords), NoneAsking(c)
  PROVE  <<Win32!Box>> \o c \in Seq(CallRecords) /\ NoneAsking(<<Win32!Box>> \o c)
<1>1. Win32!Box \in CallRecords /\ ~Asking(Win32!Box)
  BY DEF Win32!Box, CallRecords, Asking
<1> QED BY <1>1, PushedAsks, Pushed

LEMMA ItemsTyped ==
  ASSUME NEW S, IsFiniteSet(S), NEW s \in Win32!InOrder(S) PROVE s \in Seq(S)
<1>1. Cardinality(S) \in Nat
  BY FS_CardinalityType
<1>2. s \in [1 .. Cardinality(S) -> S]
  BY SameCount DEF Win32!InOrder
<1> QED BY <1>1, <1>2, FiniteSequence

LEMMA SwitchAsks ==
  ASSUME WinInv, Win32Asks, Program', UNCHANGED exists, NEW q,
         NEW c \in Seq(CallRecords), NoneAsking(c), Win32!Switch(q, c),
         exists => /\ want' # "STREAMING" /\ want' \in Win32!UI => ~active'
                   /\ want' \in {"LIST_PEERS", "STREAMING"} => login' = "yes"
                   /\ want' \notin Win32!UI => /\ ui # "STREAMING" => ~active'
                                               /\ ui # "CONNECT_TO_SERVER" => login' = "yes"
                                               /\ ui = "LIST_PEERS" => UNCHANGED peers
  PROVE  Win32Asks'
<1>1. CallsAsk'
  <2>1. calls' = c \/ calls' = <<Win32!Box>> \o c
    BY DEF Win32!Switch
  <2> QED BY <2>1, QuietCalls, QuietBoxed
<1>2. CASE ~exists
  BY <1>1, <1>2 DEF Win32Asks
<1>3. CASE exists /\ want' \notin Win32!UI
  <2>1. UNCHANGED <<ui, items, sel>>
    BY <1>3
    DEF Win32!Switch, Win32!widgets, Win32!UI, Win32!SwitchToConnectUI, Win32!SwitchToPeerList,
        Win32!SwitchToStreamingUI
  <2> QED BY <1>1, <1>3, <2>1 DEF Win32Asks
<1>4. CASE exists /\ Win32!SwitchToConnectUI(q)
  <2>1. want' = "CONNECT_TO_SERVER" /\ ui' = "CONNECT_TO_SERVER"
    BY <1>4 DEF Win32!SwitchToConnectUI
  <2> QED BY <1>1, <1>4, <2>1 DEF Win32Asks, Win32!UI
<1>5. CASE exists /\ Win32!SwitchToPeerList(q)
  <2>1. want' = "LIST_PEERS" /\ ui' = "LIST_PEERS" /\ items' \in Seq(peers')
    BY <1>5, ItemsTyped DEF Win32!SwitchToPeerList, Program
  <2>2. sel' = Len(items') + 1 \/ sel' = 0
    BY <1>5 DEF Win32!SwitchToPeerList
  <2>3. sel' \in 0 .. Len(items') + 1
    BY <2>1, <2>2
  <2> QED BY <1>1, <1>5, <2>1, <2>3 DEF Win32Asks, Win32!UI
<1>6. CASE exists /\ Win32!SwitchToStreamingUI(q)
  <2>1. want' = "STREAMING" /\ ui' = "STREAMING"
    BY <1>6 DEF Win32!SwitchToStreamingUI
  <2> QED BY <1>1, <1>6, <2>1 DEF Win32Asks
<1> QED BY <1>2, <1>3, <1>4, <1>5, <1>6 DEF Win32!Switch

(* A step in which Conductor does nothing, or ends a call                  *)
LEMMA QuietAsks ==
  ASSUME WinInv, Win32Asks, Program, CallsAsk',
         UNCHANGED <<exists, ui, items, sel, login, peers>>, active' = active \/ ~active'
  PROVE  Program' /\ Win32Asks'
  BY DEF Program, Win32Asks

LEMMA DefaultActionAsks ==
  ASSUME WinInv, Win32Asks, Program, exists, UNCHANGED exists, NEW q,
         NEW c \in Seq(CallRecords), NoneAsking(c), Win32!OnDefaultAction(q, c)
  PROVE  Program' /\ Win32Asks' /\ Fitting
<1>1. CASE /\ ui = "CONNECT_TO_SERVER" /\ Win32!Say("StartLogin") /\ Win32!StartLogin
           /\ Win32!Switch(q, c)
  <2>1. /\ want' = "none" /\ UNCHANGED <<active, peers>> /\ (login' = "yes" <=> login = "yes")
        /\ said' = [op |-> "StartLogin"]
    BY <1>1 DEF Win32!StartLogin, Win32!Say
  <2>2. Program' /\ Fitting
    BY <2>1 DEF Program, Fitting, Silent
  <2>3. Win32Asks'
    <3>1. ~active
      BY <1>1 DEF Win32Asks
    <3> QED BY <1>1, <2>1, <2>2, <3>1, SwitchAsks DEF Win32!UI
  <2> QED BY <2>2, <2>3
<1>2. CASE ui = "LIST_PEERS" /\ sel > 1 /\ Win32!OnDefaultAction(q, c)
  <2>1. /\ login = "yes" /\ ~active /\ items \in Seq(peers) /\ sel \in 0 .. Len(items) + 1
    BY <1>2 DEF Win32Asks
  <2>2. /\ said' = [op |-> "ConnectToPeer", id |-> items[sel - 1]] /\ want' = "STREAMING"
        /\ UNCHANGED <<login, peers>> /\ Win32!Switch(q, c)
    BY <1>2, <2>1 DEF Win32!OnDefaultAction, Win32!ConnectToPeer
  <2>3. items[sel - 1] \in peers
    <3>1. Len(items) \in Nat
      BY <2>1
    <3>2. sel - 1 \in 1 .. Len(items)
      BY <1>2, <2>1, <3>1
    <3> QED BY <2>1, <3>2
  <2>4. Program' /\ Fitting
    BY <2>1, <2>2, <2>3 DEF Program, Fitting, Silent
  <2>5. Win32Asks'
    BY <2>1, <2>2, <2>4, SwitchAsks DEF Win32!UI
  <2> QED BY <2>4, <2>5
<1>3. CASE ui = "LIST_PEERS" /\ ~(sel > 1) /\ Win32!OnDefaultAction(q, c)
  <2>1. want' = "none" /\ UNCHANGED <<login, active, peers>> /\ Silent /\ Win32!Switch(q, c)
    BY <1>3 DEF Win32!OnDefaultAction, Win32!Nothing, Win32!Quiet, Win32!Say, Silent
  <2>2. Program' /\ Fitting /\ ~active /\ login = "yes"
    BY <1>3, <2>1 DEF Program, Fitting, Silent, Win32Asks
  <2>3. Win32Asks'
    BY <2>1, <2>2, SwitchAsks DEF Win32!UI
  <2> QED BY <2>2, <2>3
<1>4. CASE ui = "STREAMING" /\ calls' = <<Win32!Box>> \o c /\ Win32!Quiet
           /\ UNCHANGED <<ui, items, sel>>
  <2>1. UNCHANGED <<login, active, peers>> /\ Silent
    BY <1>4 DEF Win32!Nothing, Win32!Quiet, Win32!Say, Silent
  <2>2. CallsAsk'
    BY <1>4, QuietCalls, QuietBoxed
  <2> QED BY <1>4, <2>1, <2>2, QuietAsks DEF Fitting, Silent
<1>5. \/ /\ ui = "CONNECT_TO_SERVER" /\ Win32!Say("StartLogin") /\ Win32!StartLogin
         /\ Win32!Switch(q, c)
      \/ ui = "LIST_PEERS"
      \/ /\ ui = "STREAMING" /\ calls' = <<Win32!Box>> \o c /\ Win32!Quiet
         /\ UNCHANGED <<ui, items, sel>>
  BY DEF Win32!OnDefaultAction, Win32!widgets
<1> QED BY <1>1, <1>2, <1>3, <1>4, <1>5

LEMMA CommandAsks ==
  ASSUME WinInv, Win32Asks, Program, Win32!OnCommand PROVE Program' /\ Win32Asks' /\ Fitting
<1>1. /\ calls # <<>> /\ Head(calls).at = "OnMessage" /\ Head(calls).msg = "WM_COMMAND"
      /\ Win32!OnDefaultAction(posted, Win32!Now("done")) /\ UNCHANGED exists
  BY DEF Win32!OnCommand, Win32!Top, Win32!unmoved
<1>2. exists
  BY <1>1 DEF Win32Asks, CallsAsk, Commands, Asking
<1>3. Win32!Now("done") \in Seq(CallRecords) /\ NoneAsking(Win32!Now("done"))
  BY <1>1, QuietNow DEF Win32Asks
<1> QED BY <1>1, <1>2, <1>3, DefaultActionAsks

LEMMA CloseAsks ==
  ASSUME WinInv, Win32Asks, Program,
         Win32!OnClose \/ Win32!OnSize \/ Win32!OnSetFocus \/ Win32!OnNcDestroy
  PROVE  Program' /\ Win32Asks' /\ Fitting
<1>1. calls # <<>> /\ CallsAsk
  BY DEF Win32Asks, Win32!OnClose, Win32!OnSize, Win32!OnSetFocus, Win32!OnNcDestroy, Win32!Top
<1>2. /\ UNCHANGED <<exists, ui, items, sel, login, peers>> /\ (active' = active \/ ~active')
      /\ Silent \/ said' = [op |-> "Close"]
  BY DEF Win32!OnClose, Win32!OnSize, Win32!OnSetFocus, Win32!OnNcDestroy, Win32!unmoved,
     Win32!widgets, Win32!Nothing, Win32!Quiet, Win32!Say, Silent, Win32!CloseConductor, Win32!Say
<1>3. CallsAsk'
  <2>1. CASE Win32!OnClose
    <3>1. Head(calls).msg = "WM_CLOSE" /\ calls' = Win32!Now("DefWindowProc")
      BY <2>1 DEF Win32!OnClose, Win32!Top
    <3>2. NoneAsking(Tail(calls')) /\ Head(calls').msg = "WM_CLOSE"
      BY <1>1, <3>1, QuietNow
    <3> QED BY <3>2 DEF CallsAsk, Commands
  <2>2. CASE Win32!OnSize \/ Win32!OnSetFocus \/ Win32!OnNcDestroy
    <3>1. calls' = Win32!Now("done")
      BY <2>2 DEF Win32!OnSize, Win32!OnSetFocus, Win32!OnNcDestroy
    <3> QED BY <1>1, <3>1, QuietNow, QuietCalls
  <2> QED BY <2>1, <2>2
<1> QED BY <1>2, <1>3, QuietAsks DEF Fitting, Silent

LEMMA DestroyAsks ==
  ASSUME WinInv, Win32Asks, Program, Win32!DefWindowProc PROVE Program' /\ Win32Asks' /\ Fitting
<1> DEFINE e == Win32!Call("WM_NCDESTROY")
<1>1. /\ exists' = FALSE /\ UNCHANGED <<login, active, peers>> /\ Silent /\ calls # <<>>
      /\ calls' = <<e>> \o Win32!Now("done")
  BY DEF Win32!DefWindowProc, Win32!Nothing, Win32!Quiet, Win32!Say, Silent, Win32!Top
<1>2. e \in CallRecords /\ e.msg = "WM_NCDESTROY"
  BY DEF Win32!Call, CallRecords, Win32!Messages, WinInv, StackInv
<1> HIDE DEF e
<1>3. Win32!Now("done") \in Seq(CallRecords) /\ NoneAsking(Win32!Now("done"))
  BY <1>1, QuietNow DEF Win32Asks
<1>4. Tail(calls') = Win32!Now("done") /\ Head(calls') = e
  BY <1>1, <1>2, <1>3, PushedAsks
<1>5. CallsAsk'
  BY <1>2, <1>3, <1>4 DEF CallsAsk, Commands
<1> QED BY <1>1, <1>5 DEF Win32Asks, Program, Fitting, Silent

LEMMA ReturnAsks ==
  ASSUME WinInv, Win32Asks, Program, Win32!Return \/ Win32!BoxCloses
  PROVE  Program' /\ Win32Asks' /\ Fitting
<1>1. /\ calls # <<>> /\ calls' = Tail(calls)
      /\ UNCHANGED <<exists, ui, items, sel, login, active, peers>> /\ Silent
  BY DEF Win32!Return, Win32!BoxCloses, Win32!InBox, Win32!unmoved, Win32!widgets, Win32!Nothing, Win32!Quiet, Win32!Say, Silent
<1>2. Tail(calls) \in Seq(CallRecords) /\ NoneAsking(Tail(calls))
  BY <1>1, CallsTyped DEF Win32Asks, CallsAsk
<1>3. CallsAsk'
  BY <1>1, <1>2, QuietCalls
<1> QED BY <1>1, <1>3, QuietAsks DEF Fitting, Silent

LEMMA HandlerAsks ==
  ASSUME WinInv, Win32Asks, Program, Win32!Handler PROVE Program' /\ Win32Asks' /\ Fitting
  BY CommandAsks, CloseAsks, DestroyAsks, ReturnAsks DEF Win32!Handler

LEMMA WndProcAsks ==
  ASSUME WinInv, Win32Asks, Program, exists, NoneAsking(calls),
         NEW m \in Win32!Messages, Win32!WndProc(m),
         UNCHANGED <<exists, ui, items, login, active, peers>> /\ Silent,
         sel' = sel \/ sel' \in 1 .. Len(items) + 1
  PROVE  Program' /\ Win32Asks' /\ Fitting
<1> DEFINE e == Win32!Call(m)
<1>1. e \in CallRecords
  BY DEF Win32!Call, CallRecords, WinInv, StackInv
<1>2. calls' = <<e>> \o calls
  BY DEF Win32!WndProc
<1> HIDE DEF e
<1>3. Tail(calls') = calls
  BY <1>1, <1>2, CallsTyped, PushedAsks
<1>4. CallsAsk'
  BY <1>3 DEF CallsAsk
<1>5. Win32Asks'
  <2>1. ASSUME ui = "LIST_PEERS" PROVE items \in Seq(peers) /\ sel' \in 0 .. Len(items) + 1
    <3>1. items \in Seq(peers) /\ sel \in 0 .. Len(items) + 1 /\ Len(items) \in Nat
      BY <2>1 DEF Win32Asks
    <3> QED BY <3>1
  <2> QED BY <1>4, <2>1 DEF Win32Asks
<1> QED BY <1>5 DEF Program, Fitting, Silent

LEMMA CallbackAsks ==
  ASSUME WinInv, Win32Asks, Program, calls = <<>>, NEW q, UNCHANGED <<exists>> /\ Silent,
         Win32!PeerConnectionClosed(Win32!IsWindow), Win32!Switch(q, calls)
  PROVE  Program' /\ Win32Asks' /\ Fitting
<1>1. /\ UNCHANGED <<login, peers>> /\ ~active'
      /\ exists => want' = IF login = "yes" THEN "LIST_PEERS" ELSE "CONNECT_TO_SERVER"
  BY DEF Win32!PeerConnectionClosed, Win32!If, Win32!IsWindow, WinInv, HandleInv
<1>2. Program' /\ Fitting
  BY <1>1 DEF Program, Fitting, Silent
<1>3. NoneAsking(calls) /\ calls \in Seq(CallRecords)
  BY QuietBox, CallsTyped DEF Win32Asks
<1>4. exists => /\ want' # "STREAMING" /\ want' \in Win32!UI
                /\ want' = "LIST_PEERS" => login' = "yes"
  BY <1>1 DEF Win32!UI
<1>5. Win32Asks'
  BY <1>1, <1>2, <1>3, <1>4, SwitchAsks
<1> QED BY <1>2, <1>5

LEMMA DispatchAsks ==
  ASSUME WinInv, Win32Asks, Program, Win32!Dispatch PROVE Program' /\ Win32Asks' /\ Fitting
<1>1. posted # <<>> /\ UNCHANGED <<exists>> /\ Silent /\ (calls = <<>> \/ Win32!InBox)
  BY DEF Win32!Dispatch, Win32!unmoved, Win32!Quiet, Win32!Say, Silent
<1>2. NoneAsking(calls)
  BY <1>1, QuietBox DEF Win32!InBox, Win32Asks
<1>3. CASE Head(posted) # Win32!Callback
  <2>1. \E m \in {"WM_CLOSE", "WM_COMMAND"} : Win32!WndProc(m)
    BY <1>3 DEF Win32!Dispatch
  <2>2. UNCHANGED <<exists, ui, items, sel, login, active, peers>> /\ Silent
    BY <1>3 DEF Win32!Dispatch, Win32!unmoved, Win32!widgets, Win32!Nothing, Win32!Quiet, Win32!Say, Silent
  <2>3. exists
    BY <1>1, <1>3, TailPosted
  <2> QED BY <1>2, <2>1, <2>2, <2>3, WndProcAsks DEF Win32!Messages
<1>4. CASE Head(posted) = Win32!Callback /\ Win32!InBox
  <2>1. UNCHANGED <<exists, ui, items, sel, login, active, peers, calls>> /\ Silent
    BY <1>4 DEF Win32!Dispatch, Win32!unmoved, Win32!widgets, Win32!Nothing, Win32!Quiet, Win32!Say, Silent
  <2>2. CallsAsk'
    BY <2>1 DEF Win32Asks, CallsAsk
  <2> QED BY <2>1, <2>2, QuietAsks DEF Fitting, Silent
<1>5. CASE Head(posted) = Win32!Callback /\ ~Win32!InBox
  <2>1. Win32!PeerConnectionClosed(Win32!IsWindow) /\ Win32!Switch(Tail(posted), calls)
    BY <1>5 DEF Win32!Dispatch
  <2> QED BY <1>1, <1>5, <2>1, CallbackAsks
<1> QED BY <1>3, <1>4, <1>5

LEMMA EscapeAsks ==
  ASSUME WinInv, Win32Asks, Program, exists, NoneAsking(calls), Win32!PressEscape
  PROVE  Program' /\ Win32Asks' /\ Fitting
<1>1. Win32!Switch(posted, calls) /\ UNCHANGED exists /\ calls \in Seq(CallRecords)
  BY CallsTyped DEF Win32!PressEscape, Win32!unmoved
<1>2. CASE ui = "STREAMING"
  <2>1. /\ ~active' /\ want' = "LIST_PEERS" /\ UNCHANGED <<login, peers>>
        /\ said' = [op |-> "DisconnectFromCurrentPeer"]
    BY <1>2
    DEF Win32!PressEscape, Win32!Say, Win32!DisconnectFromCurrentPeer, Win32!If, Win32!IsWindow,
        WinInv, HandleInv
  <2>2. Program' /\ Fitting /\ login' = "yes"
    BY <1>2, <2>1 DEF Program, Fitting, Silent, Win32Asks
  <2>3. Win32Asks'
    BY <1>1, <2>1, <2>2, SwitchAsks DEF Win32!UI
  <2> QED BY <2>2, <2>3
<1>3. CASE ui # "STREAMING"
  <2>1. /\ want' = "none" /\ UNCHANGED <<login, active, peers>> /\ ~active
        /\ said' = [op |-> "DisconnectFromServer"]
    BY <1>3 DEF Win32!PressEscape, Win32!Say, Win32!DisconnectFromServer, Win32!Nothing, Win32!Quiet, Win32!Say, Silent, Win32Asks
  <2>2. Program' /\ Fitting /\ (ui # "CONNECT_TO_SERVER" => login' = "yes")
    BY <2>1 DEF Program, Fitting, Silent, Win32Asks
  <2>3. Win32Asks'
    BY <1>1, <2>1, <2>2, SwitchAsks DEF Win32!UI
  <2> QED BY <2>2, <2>3
<1> QED BY <1>2, <1>3

LEMMA UserAsks ==
  ASSUME WinInv, Win32Asks, Program, Win32!UserActs PROVE Program' /\ Win32Asks' /\ Fitting
<1>1. exists /\ calls = <<>> /\ NoneAsking(calls) /\ calls \in Seq(CallRecords)
  BY QuietBox, CallsTyped DEF Win32!UserActs, Win32Asks
<1>2. CASE Win32!PressReturn
  BY <1>1, <1>2, DefaultActionAsks DEF Win32!PressReturn, Win32!unmoved
<1>3. CASE Win32!PressEscape
  BY <1>1, <1>3, EscapeAsks
<1>4. CASE Win32!PressTab
  <2>1. UNCHANGED <<exists, ui, items, sel, login, active, peers, calls>> /\ Silent
    BY <1>4 DEF Win32!PressTab, Win32!Nothing, Win32!Quiet, Win32!Say, Silent
  <2>2. CallsAsk'
    BY <2>1 DEF Win32Asks, CallsAsk
  <2> QED BY <2>1, <2>2, QuietAsks DEF Fitting, Silent
<1>5. CASE Win32!Click
  <2>1. /\ Win32!WndProc("WM_COMMAND") /\ UNCHANGED <<exists, ui, items, login, active, peers>> /\ Silent
        /\ sel' = sel \/ sel' \in 1 .. Len(items) + 1
    BY <1>5 DEF Win32!Click, Win32!unmoved, Win32!Nothing, Win32!Quiet, Win32!Say, Silent
  <2> QED BY <1>1, <2>1, WndProcAsks DEF Win32!Messages
<1>6. CASE Win32!Manage
  <2>1. /\ \E m \in {"WM_CLOSE", "WM_SIZE", "WM_SETFOCUS"} : Win32!WndProc(m)
        /\ UNCHANGED <<exists, ui, items, sel, login, active, peers>> /\ Silent
    BY <1>6 DEF Win32!Manage, Win32!unmoved, Win32!widgets, Win32!Nothing, Win32!Quiet, Win32!Say, Silent
  <2> QED BY <1>1, <2>1, WndProcAsks DEF Win32!Messages
<1> QED BY <1>2, <1>3, <1>4, <1>5, <1>6 DEF Win32!UserActs

LEMMA NetworkAsks ==
  ASSUME WinInv, Win32Asks, Program, Win32!Network PROVE Program' /\ Win32Asks' /\ Fitting
<1>1. /\ calls = <<>> \/ Win32!InBox
      /\ UNCHANGED <<exists>> /\ Silent /\ Win32!Switch(posted, calls)
      /\ Win32!FromNetwork(Win32!IsWindow, ui) /\ (exists => Win32!IsWindow = TRUE)
  BY DEF Win32!Network, Win32!unmoved, Win32!Say, Silent, WinInv, HandleInv, Win32!IsWindow
<1>2. NoneAsking(calls) /\ calls \in Seq(CallRecords)
  BY <1>1, QuietBox, CallsTyped DEF Win32!InBox, Win32Asks
<1>3. Program'
  <2>1. IsFiniteSet(peers')
    <3>1. CASE peers' \in SUBSET {1}
      BY <3>1, FinitePeers, FS_Singleton
    <3>2. CASE peers' = peers \/ peers' = {}
      BY <3>2, FS_EmptySet DEF Program
    <3> QED
      BY <1>1, <3>1, <3>2
      DEF Win32!FromNetwork, Win32!OnSignedIn, Win32!OnServerConnectionFailure,
          Win32!OnDisconnected, Win32!OnPeersChanged, Win32!OnOffer
  <2>2. login' # "yes" => peers' = {} /\ ~active'
    BY <1>1
    DEF Program, Win32!FromNetwork, Win32!OnSignedIn, Win32!OnServerConnectionFailure,
        Win32!OnDisconnected, Win32!OnPeersChanged, Win32!OnOffer
  <2> QED BY <2>1, <2>2 DEF Program
<1>4. exists => /\ want' # "STREAMING" /\ want' \in Win32!UI => ~active'
                /\ want' \in {"LIST_PEERS", "STREAMING"} => login' = "yes"
                /\ want' \notin Win32!UI => /\ ui # "STREAMING" => ~active'
                                            /\ ui # "CONNECT_TO_SERVER" => login' = "yes"
                                            /\ ui = "LIST_PEERS" => UNCHANGED peers
  <2> SUFFICES ASSUME exists PROVE
        /\ want' # "STREAMING" /\ want' \in Win32!UI => ~active'
        /\ want' \in {"LIST_PEERS", "STREAMING"} => login' = "yes"
        /\ want' \notin Win32!UI => /\ ui # "STREAMING" => ~active'
                                    /\ ui # "CONNECT_TO_SERVER" => login' = "yes"
                                    /\ ui = "LIST_PEERS" => UNCHANGED peers
    OBVIOUS
  <2>1. (ui # "STREAMING" => ~active) /\ (ui # "CONNECT_TO_SERVER" => login = "yes")
    BY DEF Win32Asks
  <2>2. CASE Win32!OnSignedIn
    <3>1. login = "under way" /\ login' = "yes" /\ want' = "LIST_PEERS" /\ UNCHANGED active
      BY <2>2 DEF Win32!OnSignedIn
    <3>2. ~active'
      BY <3>1 DEF Program
    <3> QED BY <3>1, <3>2 DEF Win32!UI
  <2>3. CASE Win32!OnServerConnectionFailure
    BY <2>1, <2>3 DEF Win32!OnServerConnectionFailure, Win32!UI
  <2>4. CASE Win32!OnDisconnected(Win32!IsWindow)
    <3>1. ~active' /\ want' = "CONNECT_TO_SERVER"
      BY <1>1, <2>4 DEF Win32!OnDisconnected, Win32!If
    <3> QED BY <3>1 DEF Win32!UI
  <2>5. CASE Win32!OnPeersChanged(ui)
    BY <2>1, <2>5 DEF Win32!OnPeersChanged, Win32!UI
  <2>6. CASE Win32!OnOffer(Win32!IsWindow, ui)
    <3>1. /\ login' = "yes" /\ want' = IF ui # "STREAMING" THEN "STREAMING" ELSE "none"
          /\ UNCHANGED peers
      BY <1>1, <2>6 DEF Win32!OnOffer
    <3> QED BY <3>1 DEF Win32!UI
  <2> QED BY <1>1, <2>2, <2>3, <2>4, <2>5, <2>6 DEF Win32!FromNetwork
<1>5. Win32Asks'
  BY <1>1, <1>2, <1>3, <1>4, SwitchAsks
<1> QED BY <1>1, <1>3, <1>5 DEF Fitting, Silent

LEMMA Win32AsksStep ==
  ASSUME WinInv, Win32Asks, Program, Win32!Next PROVE Program' /\ Win32Asks' /\ Fitting
<1>1. CASE Win32!QueueUIThreadCallback \/ Win32!PostClose \/ Win32!Quit
  <2>1. UNCHANGED <<exists, ui, items, sel, login, active, peers, calls>> /\ Silent
    BY <1>1
    DEF Win32!QueueUIThreadCallback, Win32!PostClose, Win32!Quit, Win32!unmoved, Win32!widgets,
        Win32!Nothing, Win32!Quiet, Win32!Say, Silent
  <2>2. CallsAsk'
    BY <2>1 DEF Win32Asks, CallsAsk
  <2> QED BY <2>1, <2>2, QuietAsks DEF Fitting, Silent
<1> QED BY <1>1, HandlerAsks, DispatchAsks, UserAsks, NetworkAsks DEF Win32!Next

-----------------------------------------------------------------------------
(* Together                                                                *)
AskInv ==
  /\ Program
  /\ part = "gtk" => GtkAsks
  /\ part = "win32" => Win32Asks
  /\ part \notin {"gtk", "win32"} => said = [op |-> "none"]

LEMMA AskInit == ASSUME Init PROVE AskInv
<1>1. Gtk!Init /\ Win32!Init
  BY DEF Init
<1>2. Program /\ said = [op |-> "none"]
  BY <1>1, FS_EmptySet DEF Gtk!Init, Gtk!ConductorInit, Program
<1>3. GtkAsks
  <2>1. window = TRUE /\ peer_list = FALSE /\ ~Outer(idle)
    BY <1>1, GtkInit DEF Gtk!Init, GtkInv
  <2> QED BY <2>1 DEF GtkAsks
<1>4. Win32Asks
  BY <1>1 DEF Win32!Init, Win32!ConductorInit, Win32Asks, CallsAsk
<1> QED BY <1>2, <1>3, <1>4 DEF AskInv

LEMMA AskStep ==
  ASSUME Inv, AskInv, [Next]_vars PROVE AskInv' /\ (Fitting \/ UNCHANGED vars)
<1>1. CASE GtkRuns /\ Gtk!Next
  <2>1. part = "gtk" /\ UNCHANGED part
    BY <1>1 DEF GtkRuns
  <2>2. Program' /\ GtkAsks' /\ Fitting
    BY <1>1, <2>1, GtkAsksStep DEF Inv, AskInv
  <2> QED BY <2>1, <2>2 DEF AskInv
<1>2. CASE Win32Runs /\ Win32!Next
  <2>1. part = "win32" /\ UNCHANGED part
    BY <1>2 DEF Win32Runs
  <2>2. Program' /\ Win32Asks' /\ Fitting
    BY <1>2, <2>1, Win32AsksStep DEF Inv, AskInv
  <2> QED BY <2>1, <2>2 DEF AskInv
<1>3. CASE GtkVideoRuns \/ VideoRuns
  <2>1. part' \notin {"gtk", "win32"} /\ UNCHANGED <<part, programVars>>
    BY <1>3 DEF GtkVideoRuns, VideoRuns
  <2>2. said' = [op |-> "none"] /\ Program'
    BY <2>1 DEF AskInv, Program, programVars
  <2> QED BY <2>1, <2>2 DEF AskInv, Fitting
<1>4. CASE UNCHANGED vars
  <2>1. UNCHANGED <<part, programVars, gtkVars, win32Vars>>
    BY <1>4 DEF vars
  <2> QED
    BY <1>4, <2>1
    DEF AskInv, Program, GtkAsks, Outer, Win32Asks, CallsAsk, programVars, gtkVars, win32Vars
<1> QED BY <1>1, <1>2, <1>3, <1>4 DEF Next

(* A peer is called only while it is signed in, and the server is left     *)
(* only by who has no call: for any peers, with any number of callbacks,   *)
(* posted messages and nested calls between the list and the click.        *)
THEOREM AskedInTime == Spec => AsksWhatFits
<1>1. Init => AskInv
  BY AskInit
<1>2. Inv /\ AskInv /\ [Next]_vars => AskInv'
  BY AskStep
<1>3. Inv /\ AskInv /\ [Next]_vars => [Fitting]_vars
  BY AskStep
<1>4. [Fitting]_vars => [/\ said'.op = "ConnectToPeer" => said'.id \in peers
                         /\ said'.op = "DisconnectFromServer" => ~active]_vars
  BY DEF Fitting
<1> QED BY <1>1, <1>2, <1>3, <1>4, InvAlways, PTL DEF Spec, AsksWhatFits

=============================================================================
