--------------------------- MODULE Classes_proofs ---------------------------
(***************************************************************************)
(* Theorems of four bundled classes, for hosts that come and go as they     *)
(* please: the camera of Video, whose frames arrive whole and in order, the *)
(* firmware targets of Dfu, which hold and return the image last            *)
(* downloaded, the microphone of Audio, whose sound does not jump, and the  *)
(* keyboards of Hid, whose text arrives.                                    *)
(***************************************************************************)
EXTENDS Video, Dfu, Audio, Hid, SequenceTheorems, FiniteSetTheorems, WellFoundedInduction, TLAPS

-----------------------------------------------------------------------------
(* The camera.  A viewer that came when the stream began, or that has      *)
(* dropped the frame it found, holds of the frame in the camera's hand      *)
(* exactly what the camera has sent of it.                                  *)

FrameBytes == Nat \X (DOMAIN FrameSizes) \X Nat

CameraType == [format : DOMAIN FrameSizes, streaming : BOOLEAN, frame : Seq(FrameBytes),
               pos : Nat, fid : {0, 1}, index : Nat]

ViewerType == [on : BOOLEAN, joined : BOOLEAN, part : Seq(FrameBytes), fid : {-1, 0, 1},
               frames : Seq(Seq(FrameBytes)), first : Nat]

\* What is in hand is a frame, and not all of it has been sent.
InHand(c) ==
    /\ c.pos < Len(c.frame)
    /\ \E format \in DOMAIN FrameSizes : c.frame = Frame(format, c.index)

CameraInv == camera \in CameraType /\ (camera.frame # <<>> => InHand(camera))

Follows(v, c) ==
    /\ v.first + Len(v.frames) = c.index
    /\ c.frame = <<>> => v.part = <<>>
    /\ c.frame # <<>> => v.fid = c.fid /\ v.part = SubSeq(c.frame, 1, c.pos)

ViewerInv ==
    /\ viewer \in ViewerType
    /\ viewer.on => camera.streaming
    /\ ~viewer.on \/ viewer.joined => viewer.frames = <<>>
    /\ viewer.on /\ ~viewer.joined => Follows(viewer, camera)

VideoInv == CameraInv /\ ViewerInv /\ FramesWhole

\* A frame has a byte at least, as its format says.
LEMMA FrameIsSeq ==
    ASSUME NEW format \in DOMAIN FrameSizes, NEW index \in Nat
    PROVE  /\ Frame(format, index) \in Seq(FrameBytes)
           /\ Len(Frame(format, index)) = FrameSizes[format]
           /\ Len(Frame(format, index)) > 0
           /\ Frame(format, index) # <<>>
<1>1. FrameSizes[format] \in Nat \ {0} BY VideoAssumption
<1>2. \A p \in 1 .. FrameSizes[format] : <<index, format, p>> \in FrameBytes
  BY <1>1 DEF FrameBytes
<1>3. Frame(format, index) \in Seq(FrameBytes) /\ Len(Frame(format, index)) = FrameSizes[format]
  BY <1>1, <1>2 DEF Frame
<1> QED BY <1>1, <1>3, EmptySeq

\* The frame of the next packet: the one in hand, or a new one.
LEMMA ReadyFrame ==
    ASSUME CameraInv
    PROVE  /\ Ready(camera) \in CameraType
           /\ Ready(camera).frame # <<>> /\ InHand(Ready(camera))
           /\ Ready(camera).index = camera.index /\ Ready(camera).fid = camera.fid
           /\ Ready(camera).streaming = camera.streaming
           /\ camera.frame = <<>> => Ready(camera).pos = 0
           /\ camera.frame # <<>> => Ready(camera) = camera
<1>1. CASE camera.frame # <<>>
  <2>1. ~(camera.pos >= Len(camera.frame)) BY <1>1 DEF CameraInv, InHand, CameraType
  <2> QED BY <1>1, <2>1 DEF CameraInv, Ready
<1>2. CASE camera.frame = <<>>
  <2> DEFINE f == Frame(camera.format, camera.index)
  <2>1. camera.format \in DOMAIN FrameSizes /\ camera.index \in Nat BY DEF CameraInv, CameraType
  <2>2. f \in Seq(FrameBytes) /\ f # <<>> /\ 0 < Len(f) BY <2>1, FrameIsSeq
  <2> HIDE DEF f
  <2>3. Ready(camera) = [[camera EXCEPT !.frame = f] EXCEPT !.pos = 0]
    BY <1>2, Zenon DEF Ready, Produce, f
  <2> DEFINE e == [camera EXCEPT !.frame = f]
  <2>4. /\ e \in CameraType /\ e.frame = f /\ e.index = camera.index /\ e.fid = camera.fid
        /\ e.streaming = camera.streaming
    BY <2>2 DEF CameraInv, CameraType
  <2>5. Ready(camera) = [e EXCEPT !.pos = 0] BY <2>3
  <2> HIDE DEF e
  <2>6. /\ Ready(camera) \in CameraType /\ Ready(camera).frame = f /\ Ready(camera).pos = 0
        /\ Ready(camera).index = camera.index /\ Ready(camera).fid = camera.fid
        /\ Ready(camera).streaming = camera.streaming
    BY <2>4, <2>5 DEF CameraType
  <2>7. InHand(Ready(camera)) BY <2>1, <2>2, <2>6 DEF InHand, f
  <2> QED BY <1>2, <2>2, <2>6, <2>7
<1> QED BY <1>1, <1>2

\* The packet: at most what is left of the frame, and all of it when it ends.
LEMMA PacketLen ==
    ASSUME NEW c \in CameraType, InHand(c), NEW cap \in Nat, cap >= HeaderSize
    PROVE  /\ ChunkLen(c, cap) \in Nat
           /\ c.pos + ChunkLen(c, cap) <= Len(c.frame)
           /\ SubSeq(c.frame, c.pos + 1, c.pos + ChunkLen(c, cap)) \in Seq(FrameBytes)
           /\ SubSeq(c.frame, 1, c.pos) \o SubSeq(c.frame, c.pos + 1, c.pos + ChunkLen(c, cap))
                = SubSeq(c.frame, 1, c.pos + ChunkLen(c, cap))
           /\ SubSeq(c.frame, 1, 0) = <<>>
<1> DEFINE n == ChunkLen(c, cap)
<1>1. c.pos \in Nat /\ c.frame \in Seq(FrameBytes) /\ Len(c.frame) \in Nat /\ c.pos < Len(c.frame)
  BY DEF CameraType, InHand
<1>2. n \in Nat /\ c.pos + n <= Len(c.frame)
  BY <1>1 DEF ChunkLen, HeaderSize
<1> HIDE DEF n
<1>3. SubSeq(c.frame, c.pos + 1, c.pos + n) \in Seq(FrameBytes)
  <2>1. \A i \in c.pos + 1 .. c.pos + n : i \in 1 .. Len(c.frame) BY <1>1, <1>2
  <2>2. \A i \in c.pos + 1 .. c.pos + n : c.frame[i] \in FrameBytes BY <1>1, <2>1, ElementOfSeq
  <2>3. c.pos + 1 \in Int /\ c.pos + n \in Int BY <1>1, <1>2
  <2> QED BY <2>2, <2>3, SubSeqProperties
<1>4. SubSeq(c.frame, 1, c.pos) \o SubSeq(c.frame, c.pos + 1, c.pos + n) = SubSeq(c.frame, 1, c.pos + n)
  <2>1. /\ 1 \in 1 .. Len(c.frame) + 1 /\ c.pos \in 1 - 1 .. Len(c.frame)
        /\ c.pos + n \in c.pos .. Len(c.frame)
    BY <1>1, <1>2
  <2> QED BY <1>1, <2>1, ConcatAdjacentSubSeq
<1>5. SubSeq(c.frame, 1, 0) = <<>> BY SubSeqEmpty
<1> QED BY <1>2, <1>3, <1>4, <1>5 DEF n

\* A host that starts or stops a stream has nothing of it.
LEMMA NewStream ==
    ASSUME NEW on \in BOOLEAN, NEW joined \in BOOLEAN
    PROVE  /\ Stream(on, joined) \in ViewerType
           /\ Stream(on, joined).on = on /\ Stream(on, joined).joined = joined
           /\ Stream(on, joined).frames = <<>> /\ Stream(on, joined).part = <<>>
           /\ Stream(on, joined).first = 0
BY DEF Stream, ViewerType

LEMMA NoStreamOff == NoStream \in ViewerType /\ ~NoStream.on /\ NoStream.frames = <<>>
BY DEF NoStream, Stream, ViewerType

LEMMA VideoInvInit == VideoInit => VideoInv
<1> SUFFICES ASSUME VideoInit PROVE VideoInv OBVIOUS
<1>1. 1 \in DOMAIN FrameSizes BY VideoAssumption
<1>2. CameraInv BY <1>1 DEF VideoInit, CameraInv, CameraType
<1>3. ViewerInv BY NoStreamOff DEF VideoInit, ViewerInv
<1>4. FramesWhole BY NoStreamOff DEF VideoInit, FramesWhole
<1> QED BY <1>2, <1>3, <1>4 DEF VideoInv

LEMMA SetCurStep ==
    ASSUME VideoInv, NEW format \in DOMAIN FrameSizes, SetCur(format)
    PROVE  VideoInv'
<1>1. /\ camera' \in CameraType /\ camera'.frame = camera.frame /\ camera'.pos = camera.pos
      /\ camera'.index = camera.index /\ camera'.fid = camera.fid
      /\ camera'.streaming = camera.streaming
  BY DEF SetCur, VideoInv, CameraInv, CameraType
<1>2. CameraInv' BY <1>1 DEF VideoInv, CameraInv, InHand
<1>3. viewer' = viewer BY DEF SetCur
<1>4. ViewerInv' BY <1>1, <1>3 DEF VideoInv, ViewerInv, Follows
<1>5. FramesWhole' BY <1>3 DEF VideoInv, FramesWhole
<1> QED BY <1>2, <1>4, <1>5 DEF VideoInv

LEMMA VideoAltStep ==
    ASSUME VideoInv, NEW alt \in {0, 1}, VideoAlt(alt)
    PROVE  VideoInv'
<1>0. camera \in CameraType /\ camera.streaming \in BOOLEAN BY DEF VideoInv, CameraInv, CameraType
<1>1. CASE alt = 1 /\ ~camera.streaming
  <2>1. ~viewer.on /\ alt # 0 BY <1>1 DEF VideoInv, ViewerInv
  <2>2. /\ camera' \in CameraType /\ camera'.streaming /\ camera'.frame = <<>> /\ camera'.index = 0
    <3> DEFINE e == [camera EXCEPT !.streaming = TRUE]
    <3>1. camera' = [e EXCEPT !.frame = <<>>, !.pos = 0, !.fid = 0, !.index = 0]
      BY <1>1, <2>1 DEF VideoAlt
    <3>2. e \in CameraType /\ e.streaming = TRUE BY <1>0 DEF CameraType
    <3>3. <<>> \in Seq(FrameBytes) OBVIOUS
    <3> HIDE DEF e
    <3> QED BY <3>1, <3>2, <3>3 DEF CameraType
  <2>3. viewer' = Stream(TRUE, camera.streaming) BY <2>1 DEF VideoAlt
  <2>4. /\ viewer' \in ViewerType /\ ~viewer'.joined /\ viewer'.frames = <<>>
        /\ viewer'.part = <<>> /\ viewer'.first = 0
    BY <1>0, <1>1, <2>3, NewStream
  <2>5. Follows(viewer, camera)' BY <2>2, <2>4 DEF Follows
  <2>6. FramesWhole' BY <2>4 DEF FramesWhole
  <2> QED BY <2>2, <2>4, <2>5, <2>6 DEF VideoInv, CameraInv, ViewerInv
<1>2. CASE alt = 1 /\ camera.streaming
  <2>1. camera' = camera BY <1>2 DEF VideoAlt
  <2>2. CASE viewer.on
    <3>1. viewer' = viewer BY <1>2, <2>2 DEF VideoAlt
    <3> QED BY <2>1, <3>1 DEF VideoInv, CameraInv, ViewerInv, Follows, InHand, FramesWhole
  <2>3. CASE ~viewer.on
    <3>1. viewer' = Stream(TRUE, camera.streaming) BY <1>2, <2>3 DEF VideoAlt
    <3>2. viewer' \in ViewerType /\ viewer'.joined /\ viewer'.frames = <<>>
      BY <1>0, <1>2, <3>1, NewStream
    <3>3. CameraInv' BY <2>1 DEF VideoInv, CameraInv, InHand
    <3>4. ViewerInv' BY <1>2, <2>1, <3>2 DEF ViewerInv
    <3>5. FramesWhole' BY <3>2 DEF FramesWhole
    <3> QED BY <3>3, <3>4, <3>5 DEF VideoInv
  <2> QED BY <2>2, <2>3
<1>3. CASE alt = 0
  <2>1. /\ camera' \in CameraType /\ camera'.frame = camera.frame /\ camera'.pos = camera.pos
        /\ camera'.index = camera.index
    BY <1>0, <1>3 DEF VideoAlt, CameraType
  <2>2. viewer' = NoStream BY <1>3 DEF VideoAlt
  <2>3. viewer' \in ViewerType /\ ~viewer'.on /\ viewer'.frames = <<>> BY <2>2, NoStreamOff
  <2>4. CameraInv' BY <2>1 DEF VideoInv, CameraInv, InHand
  <2>5. ViewerInv' BY <2>3 DEF ViewerInv
  <2>6. FramesWhole' BY <2>3 DEF FramesWhole
  <2> QED BY <2>4, <2>5, <2>6 DEF VideoInv
<1> QED BY <1>1, <1>2, <1>3

LEMMA NewHostStep ==
    ASSUME VideoInv, NewHost
    PROVE  VideoInv'
<1>1. CameraInv' BY DEF NewHost, VideoInv, CameraInv, InHand
<1>2. ViewerInv' BY NoStreamOff DEF NewHost, ViewerInv
<1>3. FramesWhole' BY NoStreamOff DEF NewHost, FramesWhole
<1> QED BY <1>1, <1>2, <1>3 DEF VideoInv

\* What a packet leaves in the camera.
LEMMA AdvanceCamera ==
    ASSUME NEW c \in CameraType, InHand(c), NEW n \in Nat, c.pos + n <= Len(c.frame)
    PROVE  LET d == Advance(c, n) IN
           /\ d \in CameraType /\ d.streaming = c.streaming
           /\ c.pos + n < Len(c.frame) =>
                 d.frame = c.frame /\ d.pos = c.pos + n /\ d.fid = c.fid /\ d.index = c.index
           /\ c.pos + n = Len(c.frame) => d.frame = <<>> /\ d.index = c.index + 1
<1> DEFINE d == Advance(c, n)
<1>1. c.pos \in Nat /\ c.index \in Nat /\ c.fid \in {0, 1} /\ Len(c.frame) \in Nat BY DEF CameraType
<1>2. CASE c.pos + n >= Len(c.frame)
  <2>1. c.pos + n \in Nat /\ c.index + 1 \in Nat /\ 1 - c.fid \in {0, 1} BY <1>1
  <2>2. d = [c EXCEPT !.pos = c.pos + n, !.frame = <<>>, !.fid = 1 - c.fid, !.index = c.index + 1]
    BY <1>2 DEF Advance
  <2>3. d.frame = <<>> /\ d.index = c.index + 1 /\ d.streaming = c.streaming
    BY <2>2 DEF CameraType
  <2>4. d \in CameraType
    <3> HIDE DEF d
    <3> DEFINE x == c.pos + n
               y == 1 - c.fid
               z == c.index + 1
    <3>1. x \in Nat /\ y \in {0, 1} /\ z \in Nat BY <2>1
    <3>2. d = [c EXCEPT !.pos = x, !.frame = <<>>, !.fid = y, !.index = z] BY <2>2
    <3> HIDE DEF x, y, z
    <3>3. <<>> \in Seq(FrameBytes) OBVIOUS
    <3> QED BY <3>1, <3>2, <3>3 DEF CameraType
  <2> QED BY <1>1, <1>2, <2>3, <2>4
<1>3. CASE ~(c.pos + n >= Len(c.frame))
  <2>1. d = [c EXCEPT !.pos = c.pos + n] BY <1>3 DEF Advance
  <2>2. c.pos + n \in Nat BY <1>1
  <2> QED BY <1>1, <1>3, <2>1, <2>2 DEF CameraType
<1> QED BY <1>2, <1>3

\* What the host has of the frame that a packet belongs to, with that packet.
PartWith(v, p) == (IF v.fid \in {p.fid, -1} THEN v.part ELSE <<>>) \o p.data

LEMMA PartWithType ==
    ASSUME NEW v \in ViewerType, NEW p, p.data \in Seq(FrameBytes)
    PROVE  PartWith(v, p) \in Seq(FrameBytes)
<1>1. (IF v.fid \in {p.fid, -1} THEN v.part ELSE <<>>) \in Seq(FrameBytes) BY DEF ViewerType
<1> QED BY <1>1, ConcatProperties DEF PartWith

LEMMA AssembleMore ==
    ASSUME NEW v \in ViewerType, NEW p, NEW index \in Nat,
           p.fid \in {0, 1}, p.data \in Seq(FrameBytes), ~p.eof
    PROVE  LET w == Assemble(v, p, index) IN
           /\ w \in ViewerType /\ w.on = v.on /\ w.joined = v.joined
           /\ w.frames = v.frames /\ w.first = v.first
           /\ w.fid = p.fid /\ w.part = PartWith(v, p)
<1> DEFINE part == PartWith(v, p)
<1>1. part \in Seq(FrameBytes) BY PartWithType
<1>2. Assemble(v, p, index) = [v EXCEPT !.part = part, !.fid = p.fid]
  BY Zenon DEF Assemble, PartWith
<1> HIDE DEF part
<1>3. /\ Assemble(v, p, index) \in ViewerType
      /\ Assemble(v, p, index).on = v.on /\ Assemble(v, p, index).joined = v.joined
      /\ Assemble(v, p, index).frames = v.frames /\ Assemble(v, p, index).first = v.first
      /\ Assemble(v, p, index).fid = p.fid /\ Assemble(v, p, index).part = part
  BY <1>1, <1>2 DEF ViewerType
<1> QED BY <1>3 DEF part

LEMMA AssembleDrop ==
    ASSUME NEW v \in ViewerType, NEW p, NEW index \in Nat,
           p.fid \in {0, 1}, p.data \in Seq(FrameBytes), p.eof, v.joined
    PROVE  LET w == Assemble(v, p, index) IN
           /\ w \in ViewerType /\ w.on = v.on /\ ~w.joined
           /\ w.frames = v.frames /\ w.first = index + 1 /\ w.part = <<>>
<1> DEFINE e == [v EXCEPT !.joined = FALSE]
           next == index + 1
<1>1. Assemble(v, p, index) = [e EXCEPT !.part = <<>>, !.fid = p.fid, !.first = next]
  BY DEF Assemble
<1>2. e \in ViewerType /\ e.on = v.on /\ e.joined = FALSE /\ e.frames = v.frames BY DEF ViewerType
<1>3. <<>> \in Seq(FrameBytes) /\ next \in Nat OBVIOUS
<1> HIDE DEF e, next
<1>4. /\ Assemble(v, p, index) \in ViewerType
      /\ Assemble(v, p, index).on = v.on /\ ~Assemble(v, p, index).joined
      /\ Assemble(v, p, index).frames = v.frames /\ Assemble(v, p, index).first = next
      /\ Assemble(v, p, index).part = <<>>
  BY <1>1, <1>2, <1>3 DEF ViewerType
<1> QED BY <1>4 DEF next

LEMMA AssembleLast ==
    ASSUME NEW v \in ViewerType, NEW p, NEW index \in Nat,
           p.fid \in {0, 1}, p.data \in Seq(FrameBytes), p.eof, ~v.joined
    PROVE  LET w == Assemble(v, p, index) IN
           /\ w \in ViewerType /\ w.on = v.on /\ ~w.joined
           /\ w.frames = Append(v.frames, PartWith(v, p)) /\ w.first = v.first /\ w.part = <<>>
<1> DEFINE frames == Append(v.frames, PartWith(v, p))
<1>1. frames \in Seq(Seq(FrameBytes))
  <2>1. PartWith(v, p) \in Seq(FrameBytes) /\ v.frames \in Seq(Seq(FrameBytes))
    BY PartWithType DEF ViewerType
  <2> QED BY <2>1
<1>2. Assemble(v, p, index) = [v EXCEPT !.part = <<>>, !.fid = p.fid, !.frames = frames]
  BY DEF Assemble, PartWith
<1>3. <<>> \in Seq(FrameBytes) OBVIOUS
<1> HIDE DEF frames
<1>4. /\ Assemble(v, p, index) \in ViewerType
      /\ Assemble(v, p, index).on = v.on /\ ~Assemble(v, p, index).joined
      /\ Assemble(v, p, index).frames = frames /\ Assemble(v, p, index).first = v.first
      /\ Assemble(v, p, index).part = <<>>
  BY <1>1, <1>2, <1>3 DEF ViewerType
<1> QED BY <1>4 DEF frames

\* The host that follows has, with a packet, what the camera has then sent.
LEMMA PartFollows ==
    ASSUME CameraInv, NEW v \in ViewerType, Follows(v, camera), NEW cap \in Nat, cap >= HeaderSize,
           NEW p, p.fid = camera.fid,
           p.data = SubSeq(Ready(camera).frame, Ready(camera).pos + 1,
                           Ready(camera).pos + ChunkLen(Ready(camera), cap))
    PROVE  PartWith(v, p) = SubSeq(Ready(camera).frame, 1, Ready(camera).pos + ChunkLen(Ready(camera), cap))
<1> DEFINE c == Ready(camera)
           n == ChunkLen(c, cap)
<1>1. /\ c \in CameraType /\ InHand(c) /\ c.fid = camera.fid
      /\ camera.frame = <<>> => c.pos = 0
      /\ camera.frame # <<>> => c = camera
  BY ReadyFrame
<1> HIDE DEF c
<1>2. /\ SubSeq(c.frame, c.pos + 1, c.pos + n) \in Seq(FrameBytes)
      /\ SubSeq(c.frame, 1, c.pos) \o SubSeq(c.frame, c.pos + 1, c.pos + n) = SubSeq(c.frame, 1, c.pos + n)
      /\ SubSeq(c.frame, 1, 0) = <<>>
  BY <1>1, PacketLen
<1> HIDE DEF n
<1>3. p.data = SubSeq(c.frame, c.pos + 1, c.pos + n) BY DEF c, n
<1>4. CASE camera.frame # <<>>
  <2>1. v.fid = p.fid /\ v.part = SubSeq(c.frame, 1, c.pos) BY <1>1, <1>4 DEF Follows
  <2>2. PartWith(v, p) = SubSeq(c.frame, 1, c.pos) \o p.data BY <2>1 DEF PartWith
  <2> QED BY <1>2, <1>3, <2>2 DEF c, n
<1>5. CASE camera.frame = <<>>
  <2>1. v.part = <<>> /\ c.pos = 0 BY <1>1, <1>5 DEF Follows
  <2>2. PartWith(v, p) = <<>> \o p.data BY <2>1 DEF PartWith
  <2>3. PartWith(v, p) = SubSeq(c.frame, 1, c.pos) \o p.data BY <1>2, <2>1, <2>2
  <2> QED BY <1>2, <1>3, <2>3 DEF c, n
<1> QED BY <1>4, <1>5

LEMMA OnIsoStep ==
    ASSUME VideoInv, NEW cap \in Caps, OnIso(cap)
    PROVE  VideoInv'
<1> DEFINE c == Ready(camera)
           n == ChunkLen(c, cap)
           p == [fid |-> c.fid, eof |-> c.pos + n >= Len(c.frame),
                 data |-> SubSeq(c.frame, c.pos + 1, c.pos + n)]
<1>1. cap \in Nat BY VideoAssumption
<1>2. viewer.on /\ camera.streaming BY DEF OnIso, VideoInv, ViewerInv
<1>3. CASE cap < HeaderSize
  <2>1. Packet(camera, cap).camera = camera /\ Packet(camera, cap).sent = <<>> BY <1>3 DEF Packet
  <2>2. camera' = camera /\ viewer' = viewer BY <1>2, <2>1 DEF OnIso
  <2> QED BY <2>2 DEF VideoInv, CameraInv, ViewerInv, Follows, InHand, FramesWhole
<1>4. CASE ~(cap < HeaderSize)
  <2>1. Packet(camera, cap).camera = Advance(c, n) /\ Packet(camera, cap).sent = <<p>>
    BY <1>4 DEF Packet
  <2>2. camera' = Advance(c, n) /\ viewer' = Assemble(viewer, p, camera.index)
    BY <1>2, <2>1 DEF OnIso
  <2>3. /\ c \in CameraType /\ InHand(c) /\ c.fid = camera.fid /\ c.index = camera.index
        /\ c.streaming = camera.streaming /\ c.frame # <<>>
    BY ReadyFrame DEF VideoInv
  <2>4. cap >= HeaderSize BY <1>1, <1>4 DEF HeaderSize
  <2> HIDE DEF c
  <2>5. /\ n \in Nat /\ c.pos + n <= Len(c.frame)
        /\ SubSeq(c.frame, c.pos + 1, c.pos + n) \in Seq(FrameBytes)
    BY <1>1, <2>3, <2>4, PacketLen
  <2>6. /\ c.pos \in Nat /\ Len(c.frame) \in Nat /\ c.index \in Nat /\ c.fid \in {0, 1}
        /\ c.frame \in Seq(FrameBytes)
    BY <2>3 DEF CameraType
  <2> HIDE DEF n
  <2>7. /\ camera' \in CameraType /\ camera'.streaming
        /\ c.pos + n < Len(c.frame) =>
              /\ camera'.frame = c.frame /\ camera'.pos = c.pos + n /\ camera'.fid = c.fid
              /\ camera'.index = c.index
        /\ c.pos + n = Len(c.frame) => camera'.frame = <<>> /\ camera'.index = c.index + 1
    BY <1>2, <2>2, <2>3, <2>5, AdvanceCamera
  <2>8. /\ p.fid = c.fid /\ p.data = SubSeq(c.frame, c.pos + 1, c.pos + n)
        /\ p.eof <=> c.pos + n >= Len(c.frame)
    OBVIOUS
  <2> HIDE DEF p
  <2>9. p.fid \in {0, 1} /\ p.data \in Seq(FrameBytes) BY <2>5, <2>6, <2>8
  <2>10. /\ viewer \in ViewerType /\ viewer.joined \in BOOLEAN /\ viewer.first \in Nat
         /\ viewer.frames \in Seq(Seq(FrameBytes)) /\ Len(viewer.frames) \in Nat
    BY DEF VideoInv, ViewerInv, ViewerType
  <2>11. CameraInv'
    <3>1. CASE c.pos + n < Len(c.frame)
      <4>1. PICK format \in DOMAIN FrameSizes : c.frame = Frame(format, c.index) BY <2>3 DEF InHand
      <4> QED BY <2>7, <3>1, <4>1 DEF CameraInv, InHand
    <3>2. CASE c.pos + n = Len(c.frame)
      BY <2>7, <3>2 DEF CameraInv
    <3> QED BY <2>5, <2>6, <3>1, <3>2
  <2>12. Follows(viewer, camera) => PartWith(viewer, p) = SubSeq(c.frame, 1, c.pos + n)
    BY <1>1, <2>3, <2>4, <2>8, <2>10, PartFollows DEF VideoInv, c, n
  <2>13. CASE ~p.eof
    <3>1. /\ viewer' \in ViewerType /\ viewer'.on /\ viewer'.joined = viewer.joined
          /\ viewer'.frames = viewer.frames /\ viewer'.first = viewer.first
          /\ viewer'.fid = p.fid /\ viewer'.part = PartWith(viewer, p)
      BY <1>2, <2>2, <2>3, <2>6, <2>9, <2>10, <2>13, AssembleMore
    <3>2. c.pos + n < Len(c.frame) BY <2>5, <2>6, <2>8, <2>13, SMTT(20)
    <3>3. ~viewer.joined => Follows(viewer, camera)'
      <4> HAVE ~viewer.joined
      <4>1. Follows(viewer, camera) BY <1>2 DEF VideoInv, ViewerInv
      <4>2. viewer'.part = SubSeq(c.frame, 1, c.pos + n) BY <2>12, <3>1, <4>1
      <4>3. camera'.frame # <<>> /\ camera'.pos = c.pos + n /\ camera'.fid = viewer'.fid
        BY <2>3, <2>7, <2>8, <3>1, <3>2
      <4>4. viewer'.first + Len(viewer'.frames) = camera'.index
        BY <2>3, <2>7, <3>1, <3>2, <4>1 DEF Follows
      <4>5. viewer'.part = SubSeq(camera'.frame, 1, camera'.pos) BY <2>7, <3>2, <4>2, <4>3
      <4> QED BY <4>3, <4>4, <4>5 DEF Follows
    <3>4. ViewerInv' BY <2>7, <3>1, <3>3 DEF ViewerInv, VideoInv
    <3>5. FramesWhole' BY <3>1 DEF FramesWhole, VideoInv
    <3> QED BY <2>11, <3>4, <3>5 DEF VideoInv
  <2>14. CASE p.eof /\ viewer.joined
    <3>1. /\ viewer' \in ViewerType /\ viewer'.on /\ ~viewer'.joined
          /\ viewer'.frames = viewer.frames /\ viewer'.first = c.index + 1 /\ viewer'.part = <<>>
      BY <1>2, <2>2, <2>3, <2>6, <2>9, <2>10, <2>14, AssembleDrop
    <3>2. c.pos + n = Len(c.frame) BY <2>5, <2>6, <2>8, <2>14, SMTT(20)
    <3>3. viewer.frames = <<>> BY <2>14 DEF VideoInv, ViewerInv
    <3>4. Follows(viewer, camera)' BY <2>6, <2>7, <3>1, <3>2, <3>3 DEF Follows
    <3>5. ViewerInv' BY <2>7, <3>1, <3>4 DEF ViewerInv
    <3>6. FramesWhole' BY <3>1, <3>3 DEF FramesWhole
    <3> QED BY <2>11, <3>5, <3>6 DEF VideoInv
  <2>15. CASE p.eof /\ ~viewer.joined
    <3>1. /\ viewer' \in ViewerType /\ viewer'.on /\ ~viewer'.joined
          /\ viewer'.frames = Append(viewer.frames, PartWith(viewer, p))
          /\ viewer'.first = viewer.first /\ viewer'.part = <<>>
      BY <1>2, <2>2, <2>3, <2>6, <2>9, <2>10, <2>15, AssembleLast
    <3>2. c.pos + n = Len(c.frame) BY <2>5, <2>6, <2>8, <2>15, SMTT(20)
    <3>3. Follows(viewer, camera) BY <1>2, <2>15 DEF VideoInv, ViewerInv
    <3>4. PartWith(viewer, p) = c.frame
      BY <2>6, <2>12, <3>2, <3>3, SubSeqFull
    <3>5. viewer.first + Len(viewer.frames) = c.index BY <2>3, <3>3 DEF Follows
    <3>6. Follows(viewer, camera)'
      <4>1. PartWith(viewer, p) \in Seq(FrameBytes) BY <2>9, <2>10, PartWithType
      <4>2. Len(viewer'.frames) = Len(viewer.frames) + 1 BY <2>10, <3>1, <4>1
      <4>3. viewer'.first + Len(viewer'.frames) = c.index + 1 BY <2>10, <3>1, <3>5, <4>2, SMTT(20)
      <4>4. camera'.frame = <<>> /\ camera'.index = c.index + 1 BY <2>7, <3>2
      <4> QED BY <3>1, <4>3, <4>4 DEF Follows
    <3>7. ViewerInv' BY <2>7, <3>1, <3>6 DEF ViewerInv
    <3>8. FramesWhole'
      <4>1. PICK format \in DOMAIN FrameSizes : c.frame = Frame(format, c.index) BY <2>3 DEF InHand
      <4> DEFINE last == Len(viewer.frames) + 1
      <4>2. /\ DOMAIN viewer'.frames = 1 .. last
            /\ viewer'.frames[last] = c.frame
            /\ \A k \in 1 .. Len(viewer.frames) : viewer'.frames[k] = viewer.frames[k]
            /\ DOMAIN viewer.frames = 1 .. Len(viewer.frames)
        BY <2>10, <3>1, <3>4
      <4>3. viewer'.first + last - 1 = c.index BY <2>10, <3>1, <3>5
      <4>4. ASSUME NEW k \in DOMAIN viewer'.frames
            PROVE  \E f \in DOMAIN FrameSizes : viewer'.frames[k] = Frame(f, viewer'.first + k - 1)
        <5>1. CASE k = last BY <4>1, <4>2, <4>3, <5>1
        <5>2. CASE k # last
          <6>1. k \in DOMAIN viewer.frames /\ viewer'.frames[k] = viewer.frames[k]
            BY <2>10, <4>2, <4>4, <5>2
          <6>2. PICK f \in DOMAIN FrameSizes : viewer.frames[k] = Frame(f, viewer.first + k - 1)
            BY <6>1 DEF VideoInv, FramesWhole
          <6> QED BY <3>1, <6>1, <6>2
        <5> QED BY <5>1, <5>2
      <4> QED BY <4>4 DEF FramesWhole
    <3> QED BY <2>11, <3>7, <3>8 DEF VideoInv
  <2> QED BY <2>13, <2>14, <2>15
<1> QED BY <1>3, <1>4

\* Every frame that a host of the camera puts together is whole, of one format
\* and next in the stream, whatever its packets' sizes, its stops and starts,
\* its negotiations and the hosts before it.
THEOREM FramesArriveWhole == VideoSpec => []FramesWhole
<1>1. VideoInit => VideoInv BY VideoInvInit
<1>2. VideoInv /\ [VideoNext]_videoVars => VideoInv'
  <2> SUFFICES ASSUME VideoInv, [VideoNext]_videoVars PROVE VideoInv' OBVIOUS
  <2>1. CASE \E format \in DOMAIN FrameSizes : SetCur(format) BY <2>1, SetCurStep
  <2>2. CASE \E alt \in {0, 1} : VideoAlt(alt) BY <2>2, VideoAltStep
  <2>3. CASE NewHost BY <2>3, NewHostStep
  <2>4. CASE \E cap \in Caps : OnIso(cap) BY <2>4, OnIsoStep
  <2>5. CASE UNCHANGED videoVars
    BY <2>5 DEF videoVars, VideoInv, CameraInv, ViewerInv, Follows, InHand, FramesWhole
  <2> QED BY <2>1, <2>2, <2>3, <2>4, <2>5 DEF VideoNext
<1>3. VideoInv => FramesWhole BY DEF VideoInv
<1> QED BY <1>1, <1>2, <1>3, PTL DEF VideoSpec

-----------------------------------------------------------------------------
(* The firmware targets.                                                   *)

Data == (UNION {Bytes(s) : s \in Images \cup StrayData}) \cup {Zero}

DfuStates == {"dfuIDLE", "dfuDNLOAD_SYNC", "dfuDNLOAD_IDLE", "dfuMANIFEST_SYNC", "dfuUPLOAD_IDLE", "dfuERROR"}

DfuType == [cur : Targets, state : DfuStates, status : {"OK", "errADDRESS", "errWRITE"},
            file : [Targets -> Seq(Data)], length : [Targets -> Nat]]

HostType == [phase : {"idle", "ready", "sent", "ended", "reading", "read"},
             image : Images \cup {<<>>}, next : Nat, got : Seq(Data)]

\* A target's length is never beyond what its file holds.
Fits(d) == \A t \in Targets : d.length[t] <= Len(d.file[t])

\* A request to the selected target leaves the other ones alone.
OthersSame(d, e) ==
    e.cur = d.cur /\ \A t \in Targets \ {d.cur} : e.file[t] = d.file[t] /\ e.length[t] = d.length[t]

LEMMA ImageIsData ==
    ASSUME NEW s \in Images \cup StrayData \cup {<<>>}
    PROVE  s \in Seq(Data)
<1>1. CASE s = <<>> BY <1>1
<1>2. CASE s # <<>>
  <2>1. s \in Seq(Bytes(s)) BY <1>2, DfuAssumption
  <2>2. Bytes(s) \subseteq Data BY <1>2 DEF Data
  <2> QED BY <2>1, <2>2, SeqMonotonic
<1> QED BY <1>1, <1>2

\* seek and write: the new bytes are in their place, and those before stay.
LEMMA OverwriteIs ==
    ASSUME NEW file \in Seq(Data), NEW off \in Nat, NEW data \in Seq(Data)
    PROVE  /\ Overwrite(file, off, data) \in Seq(Data)
           /\ Len(Overwrite(file, off, data)) = Larger(Len(file), off + Len(data))
           /\ \A i \in 1 .. off : i <= Len(file) => Overwrite(file, off, data)[i] = file[i]
           /\ \A i \in off + 1 .. off + Len(data) : Overwrite(file, off, data)[i] = data[i - off]
<1> DEFINE n == Larger(Len(file), off + Len(data))
           e(i) == IF i \in off + 1 .. off + Len(data) THEN data[i - off]
                   ELSE IF i <= Len(file) THEN file[i] ELSE Zero
<1>1. /\ Len(file) \in Nat /\ Len(data) \in Nat /\ n \in Nat /\ Zero \in Data
      /\ Len(file) <= n /\ off + Len(data) <= n
  BY DEF Larger, Data
<1>2. \A i \in 1 .. n : e(i) \in Data
  <2> TAKE i \in 1 .. n
  <2>1. CASE i \in off + 1 .. off + Len(data)
    <3>1. i - off \in 1 .. Len(data) BY <1>1, <2>1
    <3>2. data[i - off] \in Data BY <3>1, ElementOfSeq
    <3> QED BY <2>1, <3>2
  <2>2. CASE i \notin off + 1 .. off + Len(data) /\ i <= Len(file)
    <3>1. i \in 1 .. Len(file) BY <1>1, <2>2
    <3>2. file[i] \in Data BY <3>1, ElementOfSeq
    <3> QED BY <2>2, <3>2
  <2>3. CASE i \notin off + 1 .. off + Len(data) /\ ~(i <= Len(file)) BY <1>1, <2>3
  <2> QED BY <2>1, <2>2, <2>3
<1>3. Overwrite(file, off, data) = [i \in 1 .. n |-> e(i)] BY DEF Overwrite
<1> HIDE DEF n, e
<1>4. [i \in 1 .. n |-> e(i)] \in Seq(Data) /\ Len([i \in 1 .. n |-> e(i)]) = n
  BY <1>1, <1>2
<1>5. \A i \in 1 .. n : Overwrite(file, off, data)[i] = e(i) BY <1>3
<1>6. ASSUME NEW i \in 1 .. off, i <= Len(file)
      PROVE  Overwrite(file, off, data)[i] = file[i]
  <2>1. i \in 1 .. n /\ i \notin off + 1 .. off + Len(data) BY <1>1, <1>6
  <2> QED BY <1>5, <1>6, <2>1 DEF e
<1>7. ASSUME NEW i \in off + 1 .. off + Len(data)
      PROVE  Overwrite(file, off, data)[i] = data[i - off]
  <2>1. i \in 1 .. n BY <1>1, <1>7
  <2> QED BY <1>5, <1>7, <2>1 DEF e
<1> QED BY <1>3, <1>4, <1>6, <1>7 DEF n

LEMMA InStateIs ==
    ASSUME NEW d \in DfuType, NEW state \in DfuStates, NEW status \in {"OK", "errADDRESS", "errWRITE"}
    PROVE  /\ InState(d, state, status) \in DfuType
           /\ InState(d, state, status).cur = d.cur
           /\ InState(d, state, status).file = d.file
           /\ InState(d, state, status).length = d.length
           /\ InState(d, state, status).state = state
BY DEF InState, DfuType

LEMMA BeginIs ==
    ASSUME NEW d \in DfuType, NEW t \in Targets
    PROVE  /\ BeginDownload(d, t) \in DfuType
           /\ BeginDownload(d, t).cur = d.cur
           /\ BeginDownload(d, t).file = d.file
           /\ BeginDownload(d, t).length[t] = 0
           /\ \A s \in Targets \ {t} : BeginDownload(d, t).length[s] = d.length[s]
<1> DEFINE length == [d.length EXCEPT ![t] = 0]
<1>1. length \in [Targets -> Nat] /\ length[t] = 0 /\ \A s \in Targets \ {t} : length[s] = d.length[s]
  BY DEF DfuType
<1>2. BeginDownload(d, t) = [d EXCEPT !.length = length] BY DEF BeginDownload
<1> HIDE DEF length
<1> QED BY <1>1, <1>2 DEF DfuType

LEMMA WriteIs ==
    ASSUME NEW d \in DfuType, NEW t \in Targets, NEW off \in Nat, NEW data \in Seq(Data)
    PROVE  LET e == TargetWrite(d, t, off, data) IN
           /\ e \in DfuType /\ e.cur = d.cur
           /\ e.file[t] = Overwrite(d.file[t], off, data)
           /\ e.length[t] = Larger(d.length[t], off + Len(data))
           /\ \A s \in Targets \ {t} : e.file[s] = d.file[s] /\ e.length[s] = d.length[s]
<1> DEFINE file == [d.file EXCEPT ![t] = Overwrite(d.file[t], off, data)]
           length == [d.length EXCEPT ![t] = Larger(d.length[t], off + Len(data))]
           e == TargetWrite(d, t, off, data)
<1>1. /\ d.file \in [Targets -> Seq(Data)] /\ d.length \in [Targets -> Nat]
      /\ d.file[t] \in Seq(Data) /\ d.length[t] \in Nat /\ Len(data) \in Nat
  BY DEF DfuType
<1>2. file \in [Targets -> Seq(Data)] /\ file[t] = Overwrite(d.file[t], off, data)
      /\ \A s \in Targets \ {t} : file[s] = d.file[s]
  BY <1>1, OverwriteIs
<1>3. Larger(d.length[t], off + Len(data)) \in Nat BY <1>1 DEF Larger
<1>4. length \in [Targets -> Nat] /\ length[t] = Larger(d.length[t], off + Len(data))
      /\ \A s \in Targets \ {t} : length[s] = d.length[s]
  BY <1>1, <1>3
<1>5. e = [d EXCEPT !.file = file, !.length = length] BY DEF TargetWrite
<1> HIDE DEF file, length, e
<1>6. e \in DfuType /\ e.cur = d.cur /\ e.file = file /\ e.length = length
  BY <1>2, <1>4, <1>5 DEF DfuType
<1> QED BY <1>2, <1>4, <1>6 DEF e

LEMMA FinishIs ==
    ASSUME NEW d \in DfuType, Fits(d), NEW t \in Targets
    PROVE  LET e == FinishDownload(d, t) IN
           /\ e \in DfuType /\ e.cur = d.cur /\ e.length = d.length
           /\ e.file[t] = SubSeq(d.file[t], 1, d.length[t])
           /\ Len(e.file[t]) = d.length[t]
           /\ \A s \in Targets \ {t} : e.file[s] = d.file[s]
<1> DEFINE cut == SubSeq(d.file[t], 1, d.length[t])
           file == [d.file EXCEPT ![t] = cut]
           e == FinishDownload(d, t)
<1>1. /\ d.file \in [Targets -> Seq(Data)] /\ d.file[t] \in Seq(Data) /\ d.length[t] \in Nat
      /\ d.length[t] <= Len(d.file[t]) /\ Len(d.file[t]) \in Nat
  BY DEF DfuType, Fits
<1>2. cut \in Seq(Data) /\ Len(cut) = d.length[t]
  <2>1. \A i \in 1 .. d.length[t] : i \in 1 .. Len(d.file[t]) BY <1>1
  <2>2. \A i \in 1 .. d.length[t] : d.file[t][i] \in Data BY <1>1, <2>1, ElementOfSeq
  <2>3. 1 \in Int /\ d.length[t] \in Int BY <1>1
  <2>4. cut \in Seq(Data) /\ Len(cut) = IF 1 <= d.length[t] THEN d.length[t] - 1 + 1 ELSE 0
    BY <2>2, <2>3, SubSeqProperties
  <2> QED BY <1>1, <2>4
<1>3. e = [d EXCEPT !.file = file] BY DEF FinishDownload
<1> HIDE DEF cut
<1>4. file \in [Targets -> Seq(Data)] /\ file[t] = cut /\ \A s \in Targets \ {t} : file[s] = d.file[s]
  BY <1>1, <1>2
<1> HIDE DEF file, e
<1>5. e \in DfuType /\ e.cur = d.cur /\ e.file = file /\ e.length = d.length
  BY <1>3, <1>4 DEF DfuType
<1> QED BY <1>2, <1>4, <1>5 DEF cut, e

\* The end of a download: the file is cut to the length.
LEMMA DnloadEnd ==
    ASSUME NEW d \in DfuType, Fits(d), NEW w \in Nat, NEW ok \in BOOLEAN
    PROVE  LET e == Dnload(d, w, <<>>, ok) IN
           /\ e \in DfuType /\ Fits(e) /\ OthersSame(d, e)
           /\ e.state = "dfuMANIFEST_SYNC" /\ e.length = d.length
           /\ e.file[d.cur] = SubSeq(d.file[d.cur], 1, d.length[d.cur])
<1> DEFINE t == d.cur
           f == FinishDownload(d, t)
           e == InState(f, "dfuMANIFEST_SYNC", "OK")
<1>1. t \in Targets BY DEF DfuType
<1>2. Dnload(d, w, <<>>, ok) = e BY DEF Dnload
<1>3. /\ f \in DfuType /\ f.cur = d.cur /\ f.length = d.length
      /\ f.file[t] = SubSeq(d.file[t], 1, d.length[t]) /\ Len(f.file[t]) = d.length[t]
      /\ \A s \in Targets \ {t} : f.file[s] = d.file[s]
  BY <1>1, FinishIs
<1> HIDE DEF f
<1>4. /\ e \in DfuType /\ e.cur = f.cur /\ e.file = f.file /\ e.length = f.length
      /\ e.state = "dfuMANIFEST_SYNC"
  <2>1. "dfuMANIFEST_SYNC" \in DfuStates BY DEF DfuStates
  <2> QED BY <1>3, <2>1, InStateIs
<1> HIDE DEF e
<1>5. Fits(e)
  <2>1. \A s \in Targets : d.length[s] \in Nat /\ d.length[s] <= Len(d.file[s]) BY DEF DfuType, Fits
  <2>2. ASSUME NEW s \in Targets PROVE e.length[s] <= Len(e.file[s])
    <3>1. CASE s = t BY <1>1, <1>3, <1>4, <2>1, <3>1
    <3>2. CASE s # t BY <1>3, <1>4, <2>1, <3>2
    <3> QED BY <3>1, <3>2
  <2> QED BY <2>2 DEF Fits
<1>6. OthersSame(d, e) BY <1>1, <1>3, <1>4 DEF OthersSame
<1> QED BY <1>2, <1>3, <1>4, <1>5, <1>6

\* A block: an error, or its bytes in their place.
LEMMA DnloadBlock ==
    ASSUME NEW d \in DfuType, Fits(d), NEW w \in Nat, NEW ok \in BOOLEAN,
           NEW data \in Seq(Data), data # <<>>
    PROVE  LET e == Dnload(d, w, data, ok) IN
           /\ e \in DfuType /\ Fits(e) /\ OthersSame(d, e)
           /\ \/ e.state = "dfuERROR"
              \/ /\ e.state = "dfuDNLOAD_SYNC"
                 /\ e.file[d.cur] = Overwrite(d.file[d.cur], w * TransferSize, data)
                 /\ e.length[d.cur] = Larger(IF w = 0 THEN 0 ELSE d.length[d.cur],
                                             w * TransferSize + Len(data))
<1> DEFINE t == d.cur
           off == w * TransferSize
           fresh == IF w = 0 THEN BeginDownload(d, t) ELSE d
           g == TargetWrite(fresh, t, off, data)
           e == Dnload(d, w, data, ok)
<1>1. t \in Targets BY DEF DfuType
<1>2. off \in Nat /\ Len(data) \in Nat BY DfuAssumption
<1>3. \A s \in Targets : /\ d.length[s] \in Nat /\ d.file[s] \in Seq(Data) /\ Len(d.file[s]) \in Nat
                         /\ d.length[s] <= Len(d.file[s])
  BY DEF DfuType, Fits
<1>4. /\ fresh \in DfuType /\ fresh.cur = d.cur /\ fresh.file = d.file
      /\ fresh.length[t] = IF w = 0 THEN 0 ELSE d.length[t]
      /\ \A s \in Targets \ {t} : fresh.length[s] = d.length[s]
  <2>1. CASE w = 0 BY <1>1, <2>1, BeginIs
  <2>2. CASE w # 0 BY <2>2
  <2> QED BY <2>1, <2>2
<1>5. \/ e = InState(fresh, "dfuERROR", "errADDRESS")
      \/ e = InState(fresh, "dfuERROR", "errWRITE")
      \/ e = InState(g, "dfuDNLOAD_SYNC", "OK")
  <2>1. CASE Capacity # 0 /\ off + Len(data) > Capacity BY <2>1 DEF Dnload
  <2>2. CASE (Capacity = 0 \/ off + Len(data) <= Capacity) /\ ~ok BY <1>2, <2>2, DfuAssumption DEF Dnload
  <2>3. CASE (Capacity = 0 \/ off + Len(data) <= Capacity) /\ ok BY <1>2, <2>3, DfuAssumption DEF Dnload
  <2> QED BY <1>2, <2>1, <2>2, <2>3, DfuAssumption
<1> HIDE DEF e, fresh, off
<1>6. /\ g \in DfuType /\ g.cur = fresh.cur
      /\ g.file[t] = Overwrite(fresh.file[t], off, data)
      /\ g.length[t] = Larger(fresh.length[t], off + Len(data))
      /\ \A s \in Targets \ {t} : g.file[s] = fresh.file[s] /\ g.length[s] = fresh.length[s]
  BY <1>1, <1>2, <1>4, WriteIs, ZenonT(40)
<1> HIDE DEF g
<1>7. Len(Overwrite(d.file[t], off, data)) = Larger(Len(d.file[t]), off + Len(data))
  BY <1>1, <1>2, <1>3, OverwriteIs
<1>8. ASSUME NEW status \in {"errADDRESS", "errWRITE"}, e = InState(fresh, "dfuERROR", status)
      PROVE  e \in DfuType /\ Fits(e) /\ OthersSame(d, e) /\ e.state = "dfuERROR"
  <2>1. "dfuERROR" \in DfuStates /\ status \in {"OK", "errADDRESS", "errWRITE"} BY <1>8 DEF DfuStates
  <2>2. /\ e \in DfuType /\ e.cur = fresh.cur /\ e.file = fresh.file /\ e.length = fresh.length
        /\ e.state = "dfuERROR"
    BY <1>4, <1>8, <2>1, InStateIs
  <2>3. \A s \in Targets : e.length[s] <= Len(e.file[s])
    <3> TAKE s \in Targets
    <3>1. e.length[s] \in {0, d.length[s]} /\ e.file[s] = d.file[s] BY <1>4, <2>2
    <3> QED BY <1>3, <3>1
  <2> QED BY <1>1, <1>4, <2>2, <2>3 DEF Fits, OthersSame
<1>9. ASSUME e = InState(g, "dfuDNLOAD_SYNC", "OK")
      PROVE  /\ e \in DfuType /\ Fits(e) /\ OthersSame(d, e) /\ e.state = "dfuDNLOAD_SYNC"
             /\ e.file[t] = Overwrite(d.file[t], off, data)
             /\ e.length[t] = Larger(IF w = 0 THEN 0 ELSE d.length[t], off + Len(data))
  <2>1. "dfuDNLOAD_SYNC" \in DfuStates BY DEF DfuStates
  <2>2. /\ e \in DfuType /\ e.cur = g.cur /\ e.file = g.file /\ e.length = g.length
        /\ e.state = "dfuDNLOAD_SYNC"
    BY <1>6, <1>9, <2>1, InStateIs
  <2>3. \A s \in Targets \ {t} : e.file[s] = d.file[s] /\ e.length[s] = d.length[s]
    BY <1>4, <1>6, <2>2
  <2>4. /\ e.file[t] = Overwrite(d.file[t], off, data)
        /\ e.length[t] = Larger(IF w = 0 THEN 0 ELSE d.length[t], off + Len(data))
    BY <1>4, <1>6, <2>2
  <2>5. e.length[t] <= Len(e.file[t])
    BY <1>1, <1>2, <1>3, <1>7, <2>4, SMTT(20) DEF Larger
  <2>6. Fits(e) BY <1>1, <1>3, <2>3, <2>5 DEF Fits
  <2> QED BY <1>4, <1>6, <2>2, <2>3, <2>4, <2>6 DEF OthersSame
<1> QED BY <1>5, <1>8, <1>9 DEF e, off

\* The bytes of an image in its first n blocks.
Upto(image, n) == Smaller(n * TransferSize, Len(image))

\* The selected target holds k bytes of an image, and that is its length.
Holds(d, image, k) ==
    /\ d.length[d.cur] = k /\ k <= Len(image)
    /\ \A i \in 1 .. k : d.file[d.cur][i] = image[i]

FilesKept ==
    \A t \in Targets : stored[t] # Unknown => dfu.file[t] = stored[t] /\ dfu.length[t] = Len(stored[t])

DfuTypes ==
    /\ dfu \in DfuType /\ Fits(dfu)
    /\ dfuHost \in HostType
    /\ stored \in [Targets -> Images \cup {<<>>, Unknown}]

\* What the host that downloads knows of the target.
JobInv ==
    /\ dfuHost.phase \in {"ready", "sent", "ended"} => dfuHost.image \in Images
    /\ dfuHost.phase = "ready" =>
          \/ dfuHost.next = 0
          \/ Holds(dfu, dfuHost.image, Upto(dfuHost.image, dfuHost.next)) /\ stored[dfu.cur] = Unknown
    /\ dfuHost.phase = "sent" =>
          \/ dfu.state = "dfuERROR"
          \/ /\ dfu.state = "dfuDNLOAD_SYNC" /\ stored[dfu.cur] = Unknown
             /\ Holds(dfu, dfuHost.image, Upto(dfuHost.image, dfuHost.next + 1))
    /\ dfuHost.phase = "ended" =>
          /\ dfu.state = "dfuMANIFEST_SYNC"
          /\ dfu.file[dfu.cur] = dfuHost.image /\ dfu.length[dfu.cur] = Len(dfuHost.image)

DownloadInv == DfuTypes /\ FilesKept /\ JobInv

LEMMA Product ==
    ASSUME NEW a \in Nat, NEW b \in Nat
    PROVE  /\ a * TransferSize \in Nat
           /\ (a + 1) * TransferSize = a * TransferSize + TransferSize
           /\ a * TransferSize < b * TransferSize => a < b
<1>1. TransferSize \in Nat BY DfuAssumption
<1>2. a * TransferSize \in Nat /\ b * TransferSize \in Nat BY <1>1
<1>3. (a + 1) * TransferSize = a * TransferSize + TransferSize BY <1>1
<1>4. ASSUME a >= b PROVE a * TransferSize >= b * TransferSize
  <2>1. a - b \in Nat /\ a = b + (a - b) BY <1>4
  <2>2. (a - b) * TransferSize \in Nat BY <1>1, <2>1
  <2>3. (b + (a - b)) * TransferSize = b * TransferSize + (a - b) * TransferSize BY <1>1, <2>1
  <2> QED BY <1>2, <2>1, <2>2, <2>3
<1> QED BY <1>2, <1>3, <1>4

\* A block that an image goes on with: not empty, numbered without a wrap, and
\* the image's next bytes.
LEMMA BlockIs ==
    ASSUME NEW image \in Images, NEW n \in Nat, GoesOn(image, n)
    PROVE  /\ BlockOf(image, n) \in Seq(Data) /\ BlockOf(image, n) # <<>>
           /\ n * TransferSize \in Nat /\ Upto(image, n) = n * TransferSize
           /\ n * TransferSize + Len(BlockOf(image, n)) = Upto(image, n + 1)
           /\ Upto(image, n + 1) \in Nat /\ Upto(image, n + 1) <= Len(image)
           /\ \A i \in 1 .. Len(BlockOf(image, n)) : BlockOf(image, n)[i] = image[n * TransferSize + i]
           /\ n % BlockMod = n
<1> DEFINE off == n * TransferSize
           last == Upto(image, n + 1)
<1>1. /\ off \in Nat /\ off < Len(image) /\ image \in Seq(Data) /\ Len(image) \in Nat
      /\ TransferSize \in Nat \ {0}
  BY Product, ImageIsData, DfuAssumption DEF GoesOn
<1>2. Upto(image, n) = off BY <1>1 DEF Upto, Smaller
<1>3. (n + 1) * TransferSize = off + TransferSize BY Product
<1>4. BlockOf(image, n) = SubSeq(image, off + 1, last) BY DEF BlockOf, Upto
<1>5. last \in Nat /\ off < last /\ last <= Len(image)
  BY <1>1, <1>3 DEF Upto, Smaller
<1>6. n % BlockMod = n
  <2>1. Len(image) <= BlockMod * TransferSize /\ BlockMod \in Nat \ {0} BY DfuAssumption
  <2>2. BlockMod * TransferSize \in Nat BY <2>1, Product
  <2>3. off < BlockMod * TransferSize BY <1>1, <2>1, <2>2
  <2>4. n < BlockMod BY <2>1, <2>3, Product
  <2> QED BY <2>1, <2>4
<1> HIDE DEF off, last
<1>7. /\ SubSeq(image, off + 1, last) \in Seq(Data)
      /\ Len(SubSeq(image, off + 1, last)) = last - off
      /\ \A i \in 1 .. last - off : SubSeq(image, off + 1, last)[i] = image[off + i]
  <2>1. \A i \in off + 1 .. last : i \in 1 .. Len(image) BY <1>1, <1>5
  <2>2. \A i \in off + 1 .. last : image[i] \in Data BY <1>1, <2>1, ElementOfSeq
  <2>3. off + 1 \in Int /\ last \in Int /\ last - (off + 1) + 1 = last - off BY <1>1, <1>5
  <2>4. /\ SubSeq(image, off + 1, last) \in Seq(Data)
        /\ Len(SubSeq(image, off + 1, last)) = IF off + 1 <= last THEN last - (off + 1) + 1 ELSE 0
        /\ \A i \in 1 .. last - (off + 1) + 1 : SubSeq(image, off + 1, last)[i] = image[off + 1 + i - 1]
    BY <2>2, <2>3, SubSeqProperties
  <2>5. \A i \in 1 .. last - off : off + 1 + i - 1 = off + i BY <1>1, <1>5
  <2> QED BY <1>1, <1>5, <2>3, <2>4, <2>5
<1>8. Len(BlockOf(image, n)) = last - off /\ BlockOf(image, n) # <<>>
  BY <1>1, <1>4, <1>5, <1>7
<1>9. off + (last - off) = last BY <1>1, <1>5
<1> QED BY <1>1, <1>2, <1>4, <1>5, <1>6, <1>7, <1>8, <1>9 DEF off, last

LEMMA NoJobIs == NoJob \in HostType /\ NoJob.phase = "idle"
BY DEF NoJob, HostType

\* A host that is gone, or has finished, knows nothing.
LEMMA NoJobStep ==
    ASSUME dfu' \in DfuType, Fits(dfu'), stored' \in [Targets -> Images \cup {<<>>, Unknown}],
           FilesKept', dfuHost' = NoJob
    PROVE  DownloadInv'
<1>1. dfuHost' \in HostType /\ dfuHost'.phase = "idle" BY NoJobIs
<1>2. DfuTypes' BY <1>1 DEF DfuTypes, Fits
<1>3. JobInv' BY <1>1 DEF JobInv
<1> QED BY <1>2, <1>3 DEF DownloadInv

\* A request that may change the selected target leaves what is known of the
\* others.
LEMMA OthersKept ==
    ASSUME DownloadInv, OthersSame(dfu, dfu'), stored' = [stored EXCEPT ![dfu.cur] = Unknown]
    PROVE  /\ stored' \in [Targets -> Images \cup {<<>>, Unknown}]
           /\ stored'[dfu.cur] = Unknown /\ FilesKept'
<1>1. dfu.cur \in Targets /\ stored \in [Targets -> Images \cup {<<>>, Unknown}]
  BY DEF DownloadInv, DfuTypes, DfuType
<1>2. /\ stored' \in [Targets -> Images \cup {<<>>, Unknown}] /\ stored'[dfu.cur] = Unknown
      /\ \A t \in Targets \ {dfu.cur} : stored'[t] = stored[t]
  BY <1>1
<1>3. ASSUME NEW t \in Targets, stored'[t] # Unknown
      PROVE  dfu'.file[t] = stored'[t] /\ dfu'.length[t] = Len(stored'[t])
  <2>1. t \in Targets \ {dfu.cur} BY <1>2, <1>3
  <2>2. stored'[t] = stored[t] /\ dfu'.file[t] = dfu.file[t] /\ dfu'.length[t] = dfu.length[t]
    BY <1>2, <2>1 DEF OthersSame
  <2> QED BY <1>3, <2>2 DEF DownloadInv, FilesKept
<1> QED BY <1>2, <1>3 DEF FilesKept

LEMMA DfuInitInv == DfuInit => DownloadInv
<1> SUFFICES ASSUME DfuInit PROVE DownloadInv OBVIOUS
<1>1. 0 \in Targets BY DfuAssumption
<1>2. dfu \in DfuType BY <1>1 DEF DfuInit, DfuType, DfuStates
<1>3. Fits(dfu) BY DEF DfuInit, Fits
<1>4. dfuHost \in HostType /\ dfuHost.phase = "idle" BY NoJobIs DEF DfuInit
<1>5. stored \in [Targets -> Images \cup {<<>>, Unknown}] BY DEF DfuInit
<1>6. FilesKept BY DEF DfuInit, FilesKept
<1>7. JobInv BY <1>4 DEF JobInv
<1> QED BY <1>2, <1>3, <1>4, <1>5, <1>6, <1>7 DEF DownloadInv, DfuTypes

\* Requests that touch neither a file nor a length.
LEMMA SameFiles ==
    ASSUME DownloadInv, dfu'.file = dfu.file, dfu'.length = dfu.length, stored' = stored
    PROVE  Fits(dfu') /\ FilesKept' /\ stored' \in [Targets -> Images \cup {<<>>, Unknown}]
BY DEF DownloadInv, DfuTypes, Fits, FilesKept

LEMMA SetAltStep ==
    ASSUME DownloadInv, NEW alt, SetAlt(alt)
    PROVE  DownloadInv'
<1>1. dfu \in DfuType BY DEF DownloadInv, DfuTypes
<1>2. dfu' \in DfuType /\ dfu'.file = dfu.file /\ dfu'.length = dfu.length
  <2>1. CASE alt \in Targets
    <3> DEFINE e == [dfu EXCEPT !.cur = alt]
    <3>1. e \in DfuType /\ e.file = dfu.file /\ e.length = dfu.length BY <1>1, <2>1 DEF DfuType
    <3>2. dfu' = InState(e, "dfuIDLE", "OK") BY <2>1 DEF SetAlt
    <3>3. "dfuIDLE" \in DfuStates BY DEF DfuStates
    <3> HIDE DEF e
    <3> QED BY <3>1, <3>2, <3>3, InStateIs
  <2>2. CASE alt \notin Targets BY <1>1, <2>2 DEF SetAlt
  <2> QED BY <2>1, <2>2
<1>3. dfuHost' = NoJob /\ stored' = stored BY DEF SetAlt
<1> QED BY <1>2, <1>3, SameFiles, NoJobStep

LEMMA ClearStep ==
    ASSUME DownloadInv, Clear
    PROVE  DownloadInv'
<1>1. "dfuIDLE" \in DfuStates /\ dfu \in DfuType BY DEF DfuStates, DownloadInv, DfuTypes
<1>2. dfu' \in DfuType /\ dfu'.file = dfu.file /\ dfu'.length = dfu.length
  BY <1>1, InStateIs DEF Clear
<1>3. dfuHost' = NoJob /\ stored' = stored BY DEF Clear
<1> QED BY <1>2, <1>3, SameFiles, NoJobStep

LEMMA VanishStep ==
    ASSUME DownloadInv, Vanish
    PROVE  DownloadInv'
<1>1. dfu' = dfu /\ stored' = stored /\ dfuHost' = NoJob BY DEF Vanish
<1>2. dfu' \in DfuType BY <1>1 DEF DownloadInv, DfuTypes
<1> QED BY <1>1, <1>2, SameFiles, NoJobStep

\* A block or an end that no order led to.
LEMMA UnorderedStep ==
    ASSUME DownloadInv, NEW w \in Nat, NEW data \in Seq(Data), NEW ok \in BOOLEAN,
           dfu' = Dnload(dfu, w, data, ok), stored' = [stored EXCEPT ![dfu.cur] = Unknown],
           dfuHost' = NoJob
    PROVE  DownloadInv'
<1>1. dfu \in DfuType /\ Fits(dfu) BY DEF DownloadInv, DfuTypes
<1>2. dfu' \in DfuType /\ Fits(dfu') /\ OthersSame(dfu, dfu')
  <2>1. CASE data = <<>> BY <1>1, <2>1, DnloadEnd
  <2>2. CASE data # <<>> BY <1>1, <2>2, DnloadBlock
  <2> QED BY <2>1, <2>2
<1> QED BY <1>2, OthersKept, NoJobStep

LEMMA StrayStep ==
    ASSUME DownloadInv, NEW w \in 0 .. BlockMod - 1, NEW data \in StrayData \cup {<<>>},
           NEW ok \in BOOLEAN, Stray(w, data, ok)
    PROVE  DownloadInv'
<1>1. w \in Nat /\ data \in Seq(Data) BY ImageIsData, DfuAssumption
<1> QED BY <1>1, UnorderedStep DEF Stray

LEMMA CutShortStep ==
    ASSUME DownloadInv, CutShort
    PROVE  DownloadInv'
<1>1. dfuHost.image \in Images /\ dfuHost.next \in Nat
  BY DEF DownloadInv, DfuTypes, JobInv, HostType, CutShort
<1>2. dfuHost.next % BlockMod \in Nat BY <1>1, DfuAssumption
<1>3. <<>> \in Seq(Data) /\ TRUE \in BOOLEAN OBVIOUS
<1> QED BY <1>2, <1>3, UnorderedStep DEF CutShort

LEMMA StartDownloadStep ==
    ASSUME DownloadInv, NEW image \in Images, StartDownload(image)
    PROVE  DownloadInv'
<1>1. dfu' = dfu /\ stored' = stored BY DEF StartDownload
<1>2. /\ dfuHost' \in HostType /\ dfuHost'.phase = "ready" /\ dfuHost'.image = image
      /\ dfuHost'.next = 0
  <2>1. dfuHost' = [phase |-> "ready", image |-> image, next |-> 0, got |-> <<>>]
    BY DEF StartDownload, NoJob
  <2> QED BY <2>1 DEF HostType
<1>3. DfuTypes' BY <1>1, <1>2 DEF DownloadInv, DfuTypes, Fits
<1>4. FilesKept' BY <1>1 DEF DownloadInv, FilesKept
<1>5. JobInv' BY <1>2 DEF JobInv
<1> QED BY <1>3, <1>4, <1>5 DEF DownloadInv

LEMMA StartUploadStep ==
    ASSUME DownloadInv, StartUpload
    PROVE  DownloadInv'
<1>1. dfu' = dfu /\ stored' = stored BY DEF StartUpload
<1>2. dfuHost' \in HostType /\ dfuHost'.phase = "reading"
  <2>1. dfuHost' = [phase |-> "reading", image |-> <<>>, next |-> 0, got |-> <<>>]
    BY DEF StartUpload, NoJob
  <2> QED BY <2>1 DEF HostType
<1>3. DfuTypes' BY <1>1, <1>2 DEF DownloadInv, DfuTypes, Fits
<1>4. FilesKept' BY <1>1 DEF DownloadInv, FilesKept
<1>5. JobInv' BY <1>2 DEF JobInv
<1> QED BY <1>3, <1>4, <1>5 DEF DownloadInv

\* The host's next block is an error or adds to what the target holds.
LEMMA SendBlockStep ==
    ASSUME DownloadInv, NEW ok \in BOOLEAN, SendBlock(ok)
    PROVE  DownloadInv'
<1> DEFINE image == dfuHost.image
           n == dfuHost.next
           t == dfu.cur
           data == BlockOf(image, n)
           off == n * TransferSize
           last == Upto(image, n + 1)
<1>1. /\ dfuHost \in HostType /\ dfuHost.phase = "ready" /\ GoesOn(image, n)
      /\ image \in Images /\ n \in Nat
      /\ n = 0 \/ (Holds(dfu, image, Upto(image, n)) /\ stored[t] = Unknown)
  BY DEF SendBlock, DownloadInv, DfuTypes, JobInv, HostType
<1>2. /\ dfu \in DfuType /\ Fits(dfu) /\ t \in Targets
      /\ dfu.file[t] \in Seq(Data) /\ Len(dfu.file[t]) \in Nat
      /\ dfu.length[t] \in Nat /\ dfu.length[t] <= Len(dfu.file[t])
  BY DEF DownloadInv, DfuTypes, DfuType, Fits
<1>3. /\ dfu' = Dnload(dfu, n % BlockMod, data, ok)
      /\ stored' = [stored EXCEPT ![t] = Unknown]
      /\ dfuHost' = [dfuHost EXCEPT !.phase = "sent"]
  BY DEF SendBlock
<1> HIDE DEF image, n, t
<1>4. /\ data \in Seq(Data) /\ data # <<>> /\ Len(data) \in Nat
      /\ off \in Nat /\ Upto(image, n) = off /\ off + Len(data) = last
      /\ last \in Nat /\ last <= Len(image)
      /\ \A i \in 1 .. Len(data) : data[i] = image[off + i]
      /\ n % BlockMod = n
  BY <1>1, BlockIs
<1> HIDE DEF data, last
<1>5. /\ dfu' \in DfuType /\ Fits(dfu') /\ OthersSame(dfu, dfu')
      /\ \/ dfu'.state = "dfuERROR"
         \/ /\ dfu'.state = "dfuDNLOAD_SYNC"
            /\ dfu'.file[t] = Overwrite(dfu.file[t], off, data)
            /\ dfu'.length[t] = Larger(IF n = 0 THEN 0 ELSE dfu.length[t], off + Len(data))
  BY <1>1, <1>2, <1>3, <1>4, DnloadBlock DEF t
<1> HIDE DEF off
<1>6. /\ stored' \in [Targets -> Images \cup {<<>>, Unknown}] /\ stored'[t] = Unknown /\ FilesKept'
  BY <1>3, <1>5, OthersKept DEF t
<1>7. /\ dfuHost' \in HostType /\ dfuHost'.phase = "sent" /\ dfuHost'.image = image
      /\ dfuHost'.next = n
  BY <1>1, <1>3 DEF HostType, image, n
<1>8. dfu'.cur = t BY <1>5 DEF OthersSame, t
<1>9. ASSUME dfu'.state # "dfuERROR"
      PROVE  Holds(dfu', image, last)
  <2>1. /\ dfu'.file[t] = Overwrite(dfu.file[t], off, data)
        /\ dfu'.length[t] = Larger(IF n = 0 THEN 0 ELSE dfu.length[t], off + Len(data))
    BY <1>5, <1>9
  <2>2. n # 0 => dfu.length[t] = off /\ \A i \in 1 .. off : dfu.file[t][i] = image[i]
    BY <1>1, <1>4 DEF Holds, t
  <2>3. n = 0 => off = 0 BY DfuAssumption DEF off
  <2>4. dfu'.length[t] = last BY <1>4, <2>1, <2>2, <2>3 DEF Larger
  <2>5. /\ \A i \in 1 .. off : i <= Len(dfu.file[t]) =>
                Overwrite(dfu.file[t], off, data)[i] = dfu.file[t][i]
        /\ \A i \in off + 1 .. off + Len(data) : Overwrite(dfu.file[t], off, data)[i] = data[i - off]
    <3>1. dfu.file[t] \in Seq(Data) /\ off \in Nat /\ data \in Seq(Data) BY <1>2, <1>4
    <3> QED BY <3>1, OverwriteIs, Zenon
  <2>6. ASSUME NEW i \in 1 .. last PROVE dfu'.file[t][i] = image[i]
    <3>1. CASE i <= off
      <4>1. n # 0 BY <1>4, <2>3, <2>6, <3>1
      <4>2. i \in 1 .. off /\ i <= Len(dfu.file[t]) BY <1>2, <1>4, <2>2, <2>6, <3>1, <4>1
      <4> QED BY <2>1, <2>2, <2>5, <4>1, <4>2
    <3>2. CASE ~(i <= off)
      <4>1. i \in off + 1 .. off + Len(data) BY <1>4, <2>6, <3>2
      <4>2. i - off \in 1 .. Len(data) /\ off + (i - off) = i BY <1>4, <4>1
      <4> QED BY <1>4, <2>1, <2>5, <4>1, <4>2
    <3> QED BY <3>1, <3>2
  <2> QED BY <1>4, <1>8, <2>4, <2>6 DEF Holds
<1>10. JobInv' BY <1>1, <1>5, <1>6, <1>7, <1>8, <1>9 DEF JobInv, last
<1>11. DfuTypes' BY <1>5, <1>6, <1>7 DEF DfuTypes, Fits
<1> QED BY <1>6, <1>10, <1>11 DEF DownloadInv

\* The end of the image: the target is cut to it.
LEMMA SendEndStep ==
    ASSUME DownloadInv, SendEnd
    PROVE  DownloadInv'
<1> DEFINE image == dfuHost.image
           n == dfuHost.next
           t == dfu.cur
<1>1. /\ dfuHost \in HostType /\ dfuHost.phase = "ready" /\ ~GoesOn(image, n)
      /\ image \in Images /\ n \in Nat
      /\ n = 0 \/ (Holds(dfu, image, Upto(image, n)) /\ stored[t] = Unknown)
  BY DEF SendEnd, DownloadInv, DfuTypes, JobInv, HostType
<1>2. /\ dfu \in DfuType /\ Fits(dfu) /\ t \in Targets
      /\ dfu.file[t] \in Seq(Data) /\ Len(dfu.file[t]) \in Nat
      /\ dfu.length[t] \in Nat /\ dfu.length[t] <= Len(dfu.file[t])
  BY DEF DownloadInv, DfuTypes, DfuType, Fits
<1>3. /\ dfu' = Dnload(dfu, n % BlockMod, <<>>, TRUE) /\ stored' = stored
      /\ dfuHost' = [dfuHost EXCEPT !.phase = "ended"]
  BY DEF SendEnd
<1> HIDE DEF image, n, t
<1>4. /\ n # 0 /\ Upto(image, n) = Len(image) /\ image \in Seq(Data) /\ Len(image) \in Nat
  <2>1. Len(image) \in 1 .. BlockMod * TransferSize /\ image \in Seq(Data)
    BY <1>1, DfuAssumption, ImageIsData
  <2>2. Len(image) \in Nat /\ Len(image) > 0 BY <2>1
  <2>3. n * TransferSize \in Nat BY <1>1, Product
  <2>4. ~(n * TransferSize < Len(image)) BY <1>1 DEF GoesOn
  <2>5. n # 0
    <3> SUFFICES ASSUME n = 0 PROVE FALSE OBVIOUS
    <3>1. n * TransferSize = 0 BY DfuAssumption
    <3> QED BY <2>2, <2>4, <3>1
  <2> QED BY <2>1, <2>2, <2>3, <2>4, <2>5 DEF Upto, Smaller
<1>5. /\ dfu.length[t] = Len(image) /\ stored[t] = Unknown
      /\ \A i \in 1 .. Len(image) : dfu.file[t][i] = image[i]
  BY <1>1, <1>4 DEF Holds, t
<1>6. n % BlockMod \in Nat BY <1>1, DfuAssumption
<1>7. /\ dfu' \in DfuType /\ Fits(dfu') /\ OthersSame(dfu, dfu')
      /\ dfu'.state = "dfuMANIFEST_SYNC" /\ dfu'.length = dfu.length
      /\ dfu'.file[t] = SubSeq(dfu.file[t], 1, dfu.length[t])
  BY <1>2, <1>3, <1>6, DnloadEnd DEF t
<1>8. dfu'.file[t] = image
  <2> DEFINE f == SubSeq(dfu.file[t], 1, Len(image))
  <2>1. \A i \in 1 .. Len(image) : dfu.file[t][i] \in Data
    BY <1>4, <1>5, ElementOfSeq
  <2>2. /\ f \in Seq(Data) /\ Len(f) = IF 1 <= Len(image) THEN Len(image) - 1 + 1 ELSE 0
        /\ \A i \in 1 .. Len(image) - 1 + 1 : f[i] = dfu.file[t][1 + i - 1]
    <3>1. 1 \in Int /\ Len(image) \in Int BY <1>4
    <3> QED BY <2>1, <3>1, SubSeqProperties
  <2>3. Len(f) = Len(image) BY <1>4, <2>2
  <2>4. \A i \in 1 .. Len(f) : f[i] = image[i]
    <3> TAKE i \in 1 .. Len(f)
    <3>1. i \in 1 .. Len(image) - 1 + 1 /\ 1 + i - 1 = i /\ i \in 1 .. Len(image) BY <1>4, <2>3
    <3> QED BY <1>5, <2>2, <3>1
  <2>5. f = image BY <1>4, <2>2, <2>3, <2>4, SeqEqual
  <2> QED BY <1>5, <1>7, <2>5
<1>9. dfu'.cur = t /\ FilesKept'
  <2>1. ASSUME NEW s \in Targets, stored'[s] # Unknown
        PROVE  dfu'.file[s] = stored'[s] /\ dfu'.length[s] = Len(stored'[s])
    <3>1. s # t BY <1>3, <1>5, <2>1
    <3>2. dfu'.file[s] = dfu.file[s] /\ dfu'.length[s] = dfu.length[s]
      BY <1>7, <3>1 DEF OthersSame, t
    <3> QED BY <1>3, <2>1, <3>2 DEF DownloadInv, FilesKept
  <2> QED BY <1>7, <2>1 DEF FilesKept, OthersSame, t
<1>10. /\ dfuHost' \in HostType /\ dfuHost'.phase = "ended" /\ dfuHost'.image = image
  BY <1>1, <1>3 DEF HostType, image
<1>11. JobInv' BY <1>1, <1>5, <1>7, <1>8, <1>9, <1>10 DEF JobInv
<1>12. DfuTypes' BY <1>3, <1>7, <1>10 DEF DownloadInv, DfuTypes, Fits
<1> QED BY <1>9, <1>11, <1>12 DEF DownloadInv

LEMMA GetStatusIs ==
    ASSUME NEW d \in DfuType
    PROVE  /\ GetStatus(d) \in DfuType /\ GetStatus(d).cur = d.cur
           /\ GetStatus(d).file = d.file /\ GetStatus(d).length = d.length
           /\ d.state = "dfuERROR" => GetStatus(d).state = "dfuERROR"
BY DEF GetStatus, DfuType, DfuStates

\* The status tells the host that its block is stored, or that the image is.
LEMMA PollStep ==
    ASSUME DownloadInv, Poll
    PROVE  DownloadInv'
<1>1. /\ dfu \in DfuType /\ Fits(dfu) /\ dfu.cur \in Targets /\ dfuHost \in HostType
      /\ dfuHost.next \in Nat
      /\ stored \in [Targets -> Images \cup {<<>>, Unknown}]
  BY DEF DownloadInv, DfuTypes, DfuType, HostType
<1>2. /\ dfu' \in DfuType /\ dfu'.cur = dfu.cur /\ dfu'.file = dfu.file /\ dfu'.length = dfu.length
      /\ dfu.state = "dfuERROR" => dfu'.state = "dfuERROR"
  BY <1>1, GetStatusIs DEF Poll
<1>3. Fits(dfu') BY <1>1, <1>2 DEF Fits
<1>4. CASE dfuHost.phase = "sent" /\ dfu'.status = "OK" /\ dfu'.state = "dfuDNLOAD_IDLE"
  <2>1. dfuHost' = [dfuHost EXCEPT !.phase = "ready", !.next = dfuHost.next + 1] /\ stored' = stored
    BY <1>4 DEF Poll
  <2>2. /\ dfuHost' \in HostType /\ dfuHost'.phase = "ready" /\ dfuHost'.image = dfuHost.image
        /\ dfuHost'.next = dfuHost.next + 1
    <3> DEFINE next == dfuHost.next + 1
    <3>1. next \in Nat /\ dfuHost' = [dfuHost EXCEPT !.phase = "ready", !.next = next] BY <1>1, <2>1
    <3> HIDE DEF next
    <3>2. dfuHost' \in HostType /\ dfuHost'.phase = "ready" /\ dfuHost'.image = dfuHost.image
          /\ dfuHost'.next = next
      BY <1>1, <3>1 DEF HostType
    <3> QED BY <3>2 DEF next
  <2>3. /\ dfuHost.image \in Images /\ stored[dfu.cur] = Unknown
        /\ Holds(dfu, dfuHost.image, Upto(dfuHost.image, dfuHost.next + 1))
    BY <1>2, <1>4 DEF DownloadInv, JobInv
  <2>4. Holds(dfu', dfuHost'.image, Upto(dfuHost'.image, dfuHost'.next))
    BY <1>2, <2>2, <2>3 DEF Holds
  <2>5. JobInv' BY <1>2, <2>1, <2>2, <2>3, <2>4 DEF JobInv
  <2>6. DfuTypes' BY <1>1, <1>2, <1>3, <2>1, <2>2 DEF DfuTypes, Fits
  <2>7. FilesKept' BY <1>2, <2>1, SameFiles
  <2> QED BY <2>5, <2>6, <2>7 DEF DownloadInv
<1>5. CASE dfuHost.phase = "ended" /\ dfu'.status = "OK" /\ dfu'.state = "dfuIDLE"
  <2>1. dfuHost' = NoJob /\ stored' = [stored EXCEPT ![dfu.cur] = dfuHost.image]
    BY <1>5 DEF Poll
  <2>2. /\ dfuHost.image \in Images
        /\ dfu.file[dfu.cur] = dfuHost.image /\ dfu.length[dfu.cur] = Len(dfuHost.image)
    BY <1>5 DEF DownloadInv, JobInv
  <2>3. /\ stored' \in [Targets -> Images \cup {<<>>, Unknown}]
        /\ stored'[dfu.cur] = dfuHost.image
        /\ \A t \in Targets \ {dfu.cur} : stored'[t] = stored[t]
    BY <1>1, <2>1, <2>2
  <2>4. ASSUME NEW t \in Targets, stored'[t] # Unknown
        PROVE  dfu'.file[t] = stored'[t] /\ dfu'.length[t] = Len(stored'[t])
    <3>1. CASE t = dfu.cur BY <1>2, <2>2, <2>3, <3>1
    <3>2. CASE t # dfu.cur
      <4>1. stored'[t] = stored[t] BY <2>3, <3>2
      <4> QED BY <1>2, <2>4, <4>1 DEF DownloadInv, FilesKept
    <3> QED BY <3>1, <3>2
  <2>5. FilesKept' BY <2>4 DEF FilesKept
  <2> QED BY <1>2, <1>3, <2>1, <2>3, <2>5, NoJobStep
<1>6. CASE /\ ~(dfuHost.phase = "sent" /\ dfu'.status = "OK" /\ dfu'.state = "dfuDNLOAD_IDLE")
           /\ ~(dfuHost.phase = "ended" /\ dfu'.status = "OK" /\ dfu'.state = "dfuIDLE")
  <2>1. dfuHost' = NoJob /\ stored' = stored BY <1>6 DEF Poll
  <2> QED BY <1>2, <2>1, SameFiles, NoJobStep
<1> QED BY <1>4, <1>5, <1>6

\* What the target returns of a block.
LEMMA ChunkIs ==
    ASSUME NEW d \in DfuType, Fits(d), NEW w \in Nat
    PROVE  /\ Chunk(d, w) \in Seq(Data)
           /\ Chunk(d, w) = SubSeq(d.file[d.cur], w * TransferSize + 1,
                                   Smaller(w * TransferSize + TransferSize, d.length[d.cur]))
           /\ w * TransferSize < d.length[d.cur] => Len(Chunk(d, w)) =
                Smaller(w * TransferSize + TransferSize, d.length[d.cur]) - w * TransferSize
           /\ ~(w * TransferSize < d.length[d.cur]) => Chunk(d, w) = <<>>
<1> DEFINE off == w * TransferSize
           t == d.cur
           last == Smaller(off + TransferSize, d.length[t])
<1>1. /\ off \in Nat /\ t \in Targets /\ TransferSize \in Nat /\ TransferSize > 0
      /\ d.file[t] \in Seq(Data) /\ Len(d.file[t]) \in Nat /\ d.length[t] \in Nat
      /\ d.length[t] <= Len(d.file[t])
  BY Product, DfuAssumption DEF DfuType, Fits
<1>2. Chunk(d, w) = SubSeq(d.file[t], off + 1, last) BY DEF Chunk, TargetRead
<1> HIDE DEF off, t
<1>3. /\ last \in Nat /\ last <= d.length[t]
      /\ off < d.length[t] => off + 1 <= last
      /\ ~(off < d.length[t]) => last < off + 1
  BY <1>1 DEF Smaller
<1> HIDE DEF last
<1>4. \A i \in off + 1 .. last : i \in 1 .. Len(d.file[t]) BY <1>1, <1>3
<1>5. \A i \in off + 1 .. last : d.file[t][i] \in Data BY <1>1, <1>4, ElementOfSeq
<1>6. off + 1 \in Int /\ last \in Int BY <1>1, <1>3
<1>7. /\ SubSeq(d.file[t], off + 1, last) \in Seq(Data)
      /\ Len(SubSeq(d.file[t], off + 1, last)) = IF off + 1 <= last THEN last - (off + 1) + 1 ELSE 0
  BY <1>5, <1>6, SubSeqProperties
<1>8. off < d.length[t] => Len(SubSeq(d.file[t], off + 1, last)) = last - off
  BY <1>1, <1>3, <1>7
<1>9. ~(off < d.length[t]) => SubSeq(d.file[t], off + 1, last) = <<>>
  BY <1>3, <1>6, SubSeqEmpty
<1> QED BY <1>2, <1>7, <1>8, <1>9 DEF off, t, last

LEMMA DoUploadIs ==
    ASSUME NEW d \in DfuType, NEW w
    PROVE  /\ DoUpload(d, w) \in DfuType /\ DoUpload(d, w).cur = d.cur
           /\ DoUpload(d, w).file = d.file /\ DoUpload(d, w).length = d.length
<1> DEFINE state == IF Chunk(d, w) = <<>> THEN "dfuIDLE" ELSE "dfuUPLOAD_IDLE"
<1>1. state \in DfuStates BY DEF DfuStates
<1>2. DoUpload(d, w) = InState(d, state, "OK") BY DEF DoUpload
<1> HIDE DEF state
<1> QED BY <1>1, <1>2, InStateIs

LEMMA ReadBlockHost ==
    ASSUME DownloadInv, ReadBlock
    PROVE  LET chunk == Chunk(dfu, dfuHost.next % BlockMod) IN
           /\ dfuHost' \in HostType
           /\ dfuHost'.phase = IF Len(chunk) < TransferSize THEN "read" ELSE "reading"
           /\ dfuHost'.next = dfuHost.next + 1 /\ dfuHost'.got = dfuHost.got \o chunk
<1> DEFINE chunk == Chunk(dfu, dfuHost.next % BlockMod)
           phase == IF Len(chunk) < TransferSize THEN "read" ELSE "reading"
           next == dfuHost.next + 1
           got == dfuHost.got \o chunk
<1>1. dfu \in DfuType /\ Fits(dfu) /\ dfuHost \in HostType /\ dfuHost.next \in Nat /\ dfuHost.got \in Seq(Data)
  BY DEF DownloadInv, DfuTypes, HostType
<1>2. dfuHost.next % BlockMod \in Nat BY <1>1, DfuAssumption
<1>3. chunk \in Seq(Data) BY <1>1, <1>2, ChunkIs
<1>4. got \in Seq(Data) /\ next \in Nat /\ phase \in {"read", "reading"} BY <1>1, <1>3, ConcatProperties
<1>5. dfuHost' = [dfuHost EXCEPT !.next = next, !.got = got, !.phase = phase] BY DEF ReadBlock
<1> HIDE DEF next, got, phase
<1>6. dfuHost' \in HostType /\ dfuHost'.phase = phase /\ dfuHost'.next = next /\ dfuHost'.got = got
  BY <1>1, <1>4, <1>5 DEF HostType
<1> QED BY <1>6 DEF next, got, phase

LEMMA ReadBlockStep ==
    ASSUME DownloadInv, ReadBlock
    PROVE  DownloadInv'
<1>1. dfu \in DfuType BY DEF DownloadInv, DfuTypes
<1>2. dfu' \in DfuType /\ dfu'.file = dfu.file /\ dfu'.length = dfu.length /\ stored' = stored
  BY <1>1, DoUploadIs DEF ReadBlock
<1>3. dfuHost' \in HostType /\ dfuHost'.phase \in {"read", "reading"} BY ReadBlockHost
<1>4. Fits(dfu') /\ FilesKept' /\ stored' \in [Targets -> Images \cup {<<>>, Unknown}]
  BY <1>2, SameFiles
<1>5. DfuTypes' BY <1>2, <1>3, <1>4 DEF DfuTypes, Fits
<1>6. JobInv' BY <1>3 DEF JobInv
<1> QED BY <1>4, <1>5, <1>6 DEF DownloadInv

LEMMA DownloadStep == DownloadInv /\ [DfuNext]_dfuVars => DownloadInv'
<1> SUFFICES ASSUME DownloadInv, [DfuNext]_dfuVars PROVE DownloadInv' OBVIOUS
<1>1. CASE \E alt \in Targets \cup {9} : SetAlt(alt) BY <1>1, SetAltStep
<1>2. CASE Clear BY <1>2, ClearStep
<1>3. CASE \E image \in Images : StartDownload(image) BY <1>3, StartDownloadStep
<1>4. CASE \E ok \in BOOLEAN : SendBlock(ok) BY <1>4, SendBlockStep
<1>5. CASE SendEnd BY <1>5, SendEndStep
<1>6. CASE Poll BY <1>6, PollStep
<1>7. CASE StartUpload BY <1>7, StartUploadStep
<1>8. CASE ReadBlock BY <1>8, ReadBlockStep
<1>9. CASE \E w \in 0 .. BlockMod - 1, data \in StrayData \cup {<<>>}, ok \in BOOLEAN :
             Stray(w, data, ok)
  BY <1>9, StrayStep
<1>10. CASE Vanish BY <1>10, VanishStep
<1>11. CASE CutShort BY <1>11, CutShortStep
<1>12. CASE UNCHANGED dfuVars
  BY <1>12 DEF dfuVars, DownloadInv, DfuTypes, Fits, FilesKept, JobInv, Holds
<1> QED BY <1>1, <1>2, <1>3, <1>4, <1>5, <1>6, <1>7, <1>8, <1>9, <1>10, <1>11, <1>12 DEF DfuNext

\* After a download that its host saw to succeed, the target holds that image
\* and nothing else, and another target is not touched, whatever hosts have
\* sent before, in what order, and wherever they stopped.
THEOREM DownloadsStored == DfuSpec => [](DfuTypes /\ FilesKept)
<1>1. DownloadInv => DfuTypes /\ FilesKept BY DEF DownloadInv
<1> QED BY <1>1, DfuInitInv, DownloadStep, PTL DEF DfuSpec

\* An image of as many full blocks as there are numbers: the block that would
\* end its upload has the number of the first, so that the upload goes on.
Endless(image) == Len(image) = BlockMod * TransferSize

UploadInv ==
    /\ dfuHost.phase = "reading" /\ stored[dfu.cur] # Unknown /\ ~Endless(stored[dfu.cur]) =>
          /\ dfuHost.next * TransferSize <= Len(stored[dfu.cur])
          /\ dfuHost.got = SubSeq(stored[dfu.cur], 1, dfuHost.next * TransferSize)
    /\ dfuHost.phase = "read" /\ stored[dfu.cur] # Unknown => dfuHost.got = stored[dfu.cur]

\* Every block of such an image is full.
LEMMA EndlessGoesOn ==
    ASSUME NEW d \in DfuType, Fits(d), d.length[d.cur] = BlockMod * TransferSize, NEW n \in Nat
    PROVE  Len(Chunk(d, n % BlockMod)) = TransferSize
<1> DEFINE m == n % BlockMod
           all == BlockMod * TransferSize
           off == m * TransferSize
<1>1. BlockMod \in Nat \ {0} /\ TransferSize \in Nat \ {0} BY DfuAssumption
<1>2. m \in Nat /\ m < BlockMod BY <1>1
<1> HIDE DEF m
<1>3. all \in Nat /\ off \in Nat /\ (m + 1) * TransferSize = off + TransferSize BY <1>1, <1>2, Product
<1>4. ~(all < off + TransferSize)
  <2> SUFFICES ASSUME all < off + TransferSize PROVE FALSE OBVIOUS
  <2>1. m + 1 \in Nat /\ BlockMod \in Nat BY <1>1, <1>2
  <2>2. BlockMod * TransferSize < (m + 1) * TransferSize BY <1>3
  <2>3. BlockMod < m + 1 BY <2>1, <2>2, Product
  <2> QED BY <1>1, <1>2, <2>3
<1>5. off < all BY <1>1, <1>3, <1>4
<1>6. Len(Chunk(d, m)) = Smaller(off + TransferSize, all) - off BY <1>2, <1>5, ChunkIs
<1> HIDE DEF off, all
<1>7. Len(Chunk(d, m)) = TransferSize BY <1>1, <1>3, <1>4, <1>6 DEF Smaller
<1> QED BY <1>7 DEF m

LEMMA UploadReadBlock ==
    ASSUME DownloadInv, UploadInv, ReadBlock
    PROVE  UploadInv'
<1> DEFINE t == dfu.cur
           n == dfuHost.next
           off == n * TransferSize
           chunk == Chunk(dfu, n % BlockMod)
<1>1. /\ dfu \in DfuType /\ Fits(dfu) /\ t \in Targets /\ n \in Nat
      /\ stored \in [Targets -> Images \cup {<<>>, Unknown}]
      /\ BlockMod \in Nat \ {0} /\ TransferSize \in Nat \ {0}
  BY DfuAssumption DEF DownloadInv, DfuTypes, DfuType, HostType
<1>2. /\ dfu'.cur = t /\ stored' = stored
      /\ dfuHost'.phase = IF Len(chunk) < TransferSize THEN "read" ELSE "reading"
      /\ dfuHost'.next = n + 1 /\ dfuHost'.got = dfuHost.got \o chunk
  BY <1>1, ReadBlockHost, DoUploadIs DEF ReadBlock
<1>3. SUFFICES ASSUME stored[t] # Unknown
               PROVE  /\ dfuHost'.phase = "reading" /\ ~Endless(stored[t]) =>
                            /\ (n + 1) * TransferSize <= Len(stored[t])
                            /\ dfuHost'.got = SubSeq(stored[t], 1, (n + 1) * TransferSize)
                      /\ dfuHost'.phase = "read" => dfuHost'.got = stored[t]
  BY <1>2 DEF UploadInv
<1>4. CASE Endless(stored[t])
  <2>1. dfu.length[t] = BlockMod * TransferSize
    BY <1>1, <1>3, <1>4 DEF DownloadInv, FilesKept, Endless
  <2>2. Len(chunk) = TransferSize BY <1>1, <2>1, EndlessGoesOn
  <2>3. dfuHost'.phase = "reading" BY <1>1, <1>2, <2>2
  <2> QED BY <1>4, <2>3
<1>5. SUFFICES ASSUME ~Endless(stored[t])
                PROVE  /\ dfuHost'.phase = "reading" =>
                             /\ (n + 1) * TransferSize <= Len(stored[t])
                             /\ dfuHost'.got = SubSeq(stored[t], 1, (n + 1) * TransferSize)
                       /\ dfuHost'.phase = "read" => dfuHost'.got = stored[t]
  BY <1>4
<1> DEFINE image == stored[t]
           last == Smaller(off + TransferSize, Len(image))
<1>6. /\ dfu.file[t] = image /\ dfu.length[t] = Len(image)
      /\ off <= Len(image) /\ dfuHost.got = SubSeq(image, 1, off)
  BY <1>1, <1>3, <1>5 DEF DownloadInv, FilesKept, UploadInv, ReadBlock
<1>7. image \in Images \cup {<<>>} BY <1>1, <1>3
<1>8. image \in Seq(Data) /\ Len(image) \in Nat BY <1>7, ImageIsData
<1>9. off \in Nat /\ (n + 1) * TransferSize = off + TransferSize BY <1>1, Product
<1>10. n % BlockMod = n
  <2>1. BlockMod * TransferSize \in Nat BY <1>1, Product
  <2>2. Len(image) < BlockMod * TransferSize
    <3>1. CASE image \in Images BY <1>8, <1>5, <2>1, <3>1, DfuAssumption DEF Endless
    <3>2. CASE image = <<>>
      <4>1. 0 < BlockMod * TransferSize
        <5>1. 0 * TransferSize = 0 /\ 0 \in Nat BY <1>1
        <5>2. BlockMod = (BlockMod - 1) + 1 /\ BlockMod - 1 \in Nat BY <1>1
        <5>3. ((BlockMod - 1) + 1) * TransferSize = (BlockMod - 1) * TransferSize + TransferSize
          BY <5>2, Product
        <5>4. (BlockMod - 1) * TransferSize \in Nat BY <5>2, Product
        <5> QED BY <1>1, <5>2, <5>3, <5>4
      <4>2. Len(image) = 0 BY <3>2
      <4> QED BY <4>1, <4>2
    <3> QED BY <1>7, <3>1, <3>2
  <2>3. off < BlockMod * TransferSize BY <1>6, <1>8, <1>9, <2>1, <2>2
  <2>4. n < BlockMod BY <1>1, <2>3, Product
  <2> QED BY <1>1, <2>4
<1>11. /\ chunk = SubSeq(image, off + 1, last)
       /\ off < Len(image) => Len(chunk) = last - off
       /\ ~(off < Len(image)) => chunk = <<>>
  <2>1. chunk = Chunk(dfu, n) BY <1>10
  <2> HIDE DEF n, chunk
  <2>2. /\ Chunk(dfu, n) = SubSeq(dfu.file[t], off + 1, Smaller(off + TransferSize, dfu.length[t]))
        /\ off < dfu.length[t] =>
              Len(Chunk(dfu, n)) = Smaller(off + TransferSize, dfu.length[t]) - off
        /\ ~(off < dfu.length[t]) => Chunk(dfu, n) = <<>>
    BY <1>1, ChunkIs
  <2> QED BY <1>6, <2>1, <2>2
<1> HIDE DEF t, n, image, chunk, off
<1>12. last \in Nat /\ off <= last /\ last <= Len(image) BY <1>1, <1>6, <1>8, <1>9 DEF Smaller
<1>13. dfuHost'.got = SubSeq(image, 1, last)
  <2>1. /\ 1 \in 1 .. Len(image) + 1 /\ off \in 1 - 1 .. Len(image) /\ last \in off .. Len(image)
    BY <1>6, <1>8, <1>9, <1>12
  <2>2. SubSeq(image, 1, off) \o SubSeq(image, off + 1, last) = SubSeq(image, 1, last)
    BY <1>8, <2>1, ConcatAdjacentSubSeq
  <2> QED BY <1>2, <1>6, <1>11, <2>2
<1>14. CASE Len(chunk) < TransferSize
  <2>1. last = Len(image)
    <3>1. CASE off < Len(image) BY <1>1, <1>8, <1>9, <1>11, <1>14, <3>1 DEF Smaller
    <3>2. CASE ~(off < Len(image)) BY <1>1, <1>6, <1>8, <1>9, <3>2 DEF Smaller
    <3> QED BY <3>1, <3>2
  <2>2. dfuHost'.got = image BY <1>8, <1>13, <2>1, SubSeqFull
  <2>3. dfuHost'.phase = "read" BY <1>2, <1>14
  <2> QED BY <2>2, <2>3 DEF image
<1>15. CASE ~(Len(chunk) < TransferSize)
  <2>1. off < Len(image) /\ last = off + TransferSize
    <3>1. off < Len(image)
      <4> SUFFICES ASSUME ~(off < Len(image)) PROVE FALSE OBVIOUS
      <4>1. Len(chunk) = 0 BY <1>11
      <4> QED BY <1>1, <1>15, <4>1
    <3> QED BY <1>1, <1>8, <1>9, <1>11, <1>15, <3>1 DEF Smaller
  <2>2. dfuHost'.phase = "reading" BY <1>2, <1>15
  <2> QED BY <1>9, <1>12, <1>13, <2>1, <2>2 DEF image, off
<1> QED BY <1>14, <1>15

LEMMA UploadStep == DownloadInv /\ UploadInv /\ [DfuNext]_dfuVars => UploadInv'
<1> SUFFICES ASSUME DownloadInv, UploadInv, [DfuNext]_dfuVars PROVE UploadInv' OBVIOUS
<1>0. dfuHost \in HostType BY DEF DownloadInv, DfuTypes
<1>1. ASSUME dfuHost'.phase \notin {"reading", "read"} PROVE UploadInv'
  BY <1>1 DEF UploadInv
<1>2. ASSUME dfuHost' = NoJob PROVE UploadInv' BY <1>1, <1>2, NoJobIs
<1>3. CASE \E alt \in Targets \cup {9} : SetAlt(alt) BY <1>2, <1>3 DEF SetAlt
<1>4. CASE Clear BY <1>2, <1>4 DEF Clear
<1>5. CASE \E image \in Images : StartDownload(image)
  <2>1. dfuHost'.phase = "ready" BY <1>5 DEF StartDownload, NoJob
  <2> QED BY <1>1, <2>1
<1>6. CASE \E ok \in BOOLEAN : SendBlock(ok)
  <2>1. dfuHost'.phase = "sent" BY <1>0, <1>6 DEF SendBlock, HostType
  <2> QED BY <1>1, <2>1
<1>7. CASE SendEnd
  <2>1. dfuHost'.phase = "ended" BY <1>0, <1>7 DEF SendEnd, HostType
  <2> QED BY <1>1, <2>1
<1>8. CASE Poll
  <2>1. dfuHost' = NoJob \/ dfuHost' = [dfuHost EXCEPT !.phase = "ready", !.next = dfuHost.next + 1]
    BY <1>8 DEF Poll
  <2>2. CASE dfuHost' = [dfuHost EXCEPT !.phase = "ready", !.next = dfuHost.next + 1]
    <3>1. dfuHost'.phase = "ready" BY <1>0, <2>2 DEF HostType
    <3> QED BY <1>1, <3>1
  <2> QED BY <1>2, <2>1, <2>2
<1>9. CASE StartUpload
  <2>1. /\ dfuHost' = [phase |-> "reading", image |-> <<>>, next |-> 0, got |-> <<>>]
        /\ dfu' = dfu /\ stored' = stored
    BY <1>9 DEF StartUpload, NoJob
  <2>2. stored[dfu.cur] # Unknown => stored[dfu.cur] \in Seq(Data)
    <3>1. stored[dfu.cur] \in Images \cup {<<>>, Unknown}
      BY DEF DownloadInv, DfuTypes, DfuType
    <3> QED BY <3>1, ImageIsData
  <2>3. 0 * TransferSize = 0 BY DfuAssumption
  <2>4. SubSeq(stored[dfu.cur], 1, 0) = <<>> BY SubSeqEmpty
  <2>5. stored[dfu.cur] # Unknown => 0 <= Len(stored[dfu.cur]) BY <2>2
  <2> QED BY <2>1, <2>3, <2>4, <2>5 DEF UploadInv
<1>10. CASE ReadBlock BY <1>10, UploadReadBlock
<1>11. CASE \E w \in 0 .. BlockMod - 1, data \in StrayData \cup {<<>>}, ok \in BOOLEAN :
              Stray(w, data, ok)
  BY <1>2, <1>11 DEF Stray
<1>12. CASE Vanish BY <1>2, <1>12 DEF Vanish
<1>13. CASE CutShort BY <1>2, <1>13 DEF CutShort
<1>14. CASE UNCHANGED dfuVars BY <1>14 DEF dfuVars, UploadInv
<1> QED BY <1>3, <1>4, <1>5, <1>6, <1>7, <1>8, <1>9, <1>10, <1>11, <1>12, <1>13, <1>14 DEF DfuNext

\* And an upload that ends returns the image last downloaded.
THEOREM DownloadsReadBack == DfuSpec => []DownloadReadsBack
<1>1. DfuInit => UploadInv BY NoJobIs DEF DfuInit, UploadInv
<1>2. DownloadInv /\ UploadInv => DownloadReadsBack
  BY DEF DownloadInv, FilesKept, UploadInv, DownloadReadsBack
<1> QED BY <1>1, <1>2, DfuInitInv, DownloadStep, UploadStep, PTL DEF DfuSpec

-----------------------------------------------------------------------------
(* The microphone.  What was heard last of the file is just before the     *)
(* place from which it is read on.                                         *)

Samples == Nat \cup {Silence}

\* Entry i is the last of h that is no silence.
LastLoud(h, i) == h[i] # Silence /\ \A k \in (i + 1) .. Len(h) : h[k] = Silence

AudioInv ==
    /\ source \in Sources /\ mute \in [mic : BOOLEAN, spk : BOOLEAN]
    /\ mic \in [on : BOOLEAN, samples : Nat]
    /\ heard \in Seq(Samples) /\ filePos \in 0 .. FileLen
    /\ SoundContinuous
    /\ source = "file" /\ FileLen > 0 =>
          \A i \in DOMAIN heard : LastLoud(heard, i) => heard[i] \in 0 .. (FileLen - 1) /\ heard[i] + 1 = filePos

\* The place after x in the file.
LEMMA AfterIs ==
    ASSUME FileLen \in Nat \ {0}, NEW x \in 0 .. (FileLen - 1)
    PROVE  (x + 1) % FileLen = IF x + 1 = FileLen THEN 0 ELSE x + 1
<1>1. CASE x + 1 = FileLen
  <2>1. FileLen = 1 * FileLen + 0 OBVIOUS
  <2> QED BY <1>1, <2>1
<1>2. CASE x + 1 # FileLen BY <1>2
<1> QED BY <1>1, <1>2

\* What is read of the file from a place.
LEMMA FromFileIs ==
    ASSUME NEW n \in Nat, NEW from \in 0 .. FileLen
    PROVE  LET a == FromFile(n, from)
           IN  /\ a \in Seq(Nat) /\ Len(a) = (IF FileLen - from < n THEN FileLen - from ELSE n)
               /\ \A k \in 1 .. Len(a) : a[k] = from + k - 1
<1> DEFINE m == IF FileLen - from < n THEN FileLen - from ELSE n
<1>1. FileLen \in Nat BY AudioAssumption
<1>2. m \in Nat /\ from \in Nat BY <1>1
<1> HIDE DEF m
<1>3. FromFile(n, from) = [k \in 1 .. m |-> from + k - 1] BY DEF FromFile, m
<1>4. \A k \in 1 .. m : from + k - 1 \in Nat BY <1>2
<1>5. FromFile(n, from) \in Seq(Nat) /\ Len(FromFile(n, from)) = m
  BY <1>2, <1>3, <1>4
<1> QED BY <1>3, <1>5 DEF m

\* The source gives something, from the place on and from the start again after
\* the end, and says where it goes on.
LEMMA MicSourceIs ==
    ASSUME FileLen \in Nat \ {0}, NEW n \in Nat \ {0}, NEW from \in 0 .. FileLen
    PROVE  LET m == MicSource(n, from)
           IN  /\ m.data \in Seq(Nat) /\ Len(m.data) > 0 /\ m.pos \in 0 .. FileLen
               /\ \A k \in 1 .. Len(m.data) : m.data[k] \in 0 .. (FileLen - 1)
               /\ m.data[1] = (IF from = FileLen THEN 0 ELSE from)
               /\ \A k \in 1 .. (Len(m.data) - 1) : m.data[k + 1] = (m.data[k] + 1) % FileLen
               /\ m.data[Len(m.data)] + 1 = m.pos
<1> DEFINE a == FromFile(n, from)
           b == FromFile(n - Len(a), 0)
<1>1. /\ a \in Seq(Nat) /\ Len(a) = (IF FileLen - from < n THEN FileLen - from ELSE n)
      /\ \A k \in 1 .. Len(a) : a[k] = from + k - 1
  BY FromFileIs
<1>2. Len(a) \in Nat /\ from + Len(a) <= FileLen /\ n - Len(a) \in Nat
  BY <1>1
<1>3. /\ b \in Seq(Nat) /\ Len(b) = (IF FileLen - 0 < n - Len(a) THEN FileLen - 0 ELSE n - Len(a))
      /\ \A k \in 1 .. Len(b) : b[k] = 0 + k - 1
  <2> DEFINE r == n - Len(a)
  <2>1. r \in Nat /\ 0 \in 0 .. FileLen BY <1>2
  <2> HIDE DEF r
  <2>2. LET c == FromFile(r, 0)
        IN  /\ c \in Seq(Nat) /\ Len(c) = (IF FileLen - 0 < r THEN FileLen - 0 ELSE r)
            /\ \A k \in 1 .. Len(c) : c[k] = 0 + k - 1
    BY <2>1, FromFileIs
  <2> QED BY <2>2 DEF r
<1>4. MicSource(n, from) = IF Len(a) = n THEN [data |-> a, pos |-> from + n]
                           ELSE [data |-> a \o b, pos |-> Len(b)]
  BY DEF MicSource
<1> HIDE DEF a, b
<1>5. CASE Len(a) = n
  <2>1. MicSource(n, from).data = a /\ MicSource(n, from).pos = from + n BY <1>4, <1>5
  <2>2. from # FileLen /\ a[1] = from /\ a[n] = from + n - 1 BY <1>1, <1>5
  <2>3. \A k \in 1 .. n : a[k] = from + k - 1 /\ a[k] \in 0 .. (FileLen - 1) BY <1>1, <1>2, <1>5
  <2>4. ASSUME NEW k \in 1 .. (n - 1) PROVE a[k + 1] = (a[k] + 1) % FileLen
    <3>1. a[k + 1] = a[k] + 1 /\ a[k + 1] \in 0 .. (FileLen - 1) /\ a[k] \in 0 .. (FileLen - 1)
      BY <2>3
    <3> QED BY <3>1, AfterIs
  <2> QED BY <1>1, <1>2, <1>5, <2>1, <2>2, <2>3, <2>4
<1>6. CASE Len(a) # n
  <2> DEFINE d == a \o b
  <2>1. MicSource(n, from).data = d /\ MicSource(n, from).pos = Len(b) BY <1>4, <1>6
  <2>2. /\ d \in Seq(Nat) /\ Len(d) = Len(a) + Len(b)
        /\ \A k \in 1 .. Len(a) + Len(b) : d[k] = IF k <= Len(a) THEN a[k] ELSE b[k - Len(a)]
    BY <1>1, <1>3, ConcatProperties
  <2> HIDE DEF d
  <2>3. Len(a) = FileLen - from /\ Len(b) \in 1 .. FileLen BY <1>1, <1>2, <1>3, <1>6
  <2>4. \A k \in 1 .. Len(d) : d[k] = IF k <= Len(a) THEN from + k - 1 ELSE k - Len(a) - 1
    <3> TAKE k \in 1 .. Len(d)
    <3>1. CASE k <= Len(a) BY <1>1, <1>2, <2>2, <2>3, <3>1
    <3>2. CASE ~(k <= Len(a))
      <4>1. k - Len(a) \in 1 .. Len(b) BY <1>2, <2>2, <2>3, <3>2
      <4> QED BY <1>3, <2>2, <3>2, <4>1
    <3> QED BY <3>1, <3>2
  <2>5. \A k \in 1 .. Len(d) : d[k] \in 0 .. (FileLen - 1)
    <3> TAKE k \in 1 .. Len(d)
    <3>1. Len(a) \in Nat /\ k \in 1 .. Len(a) + Len(b) BY <1>2, <2>2
    <3>2. d[k] = IF k <= Len(a) THEN from + k - 1 ELSE k - Len(a) - 1 BY <2>4
    <3> QED BY <2>3, <3>1, <3>2
  <2>6. d[1] = IF from = FileLen THEN 0 ELSE from
    <3>1. 1 \in 1 .. Len(d) /\ (1 <= Len(a) <=> from # FileLen) BY <1>2, <2>2, <2>3
    <3>2. d[1] = IF 1 <= Len(a) THEN from + 1 - 1 ELSE 1 - Len(a) - 1 BY <2>4, <3>1
    <3> QED BY <1>2, <2>3, <3>1, <3>2
  <2>7. d[Len(d)] + 1 = Len(b) BY <1>2, <2>2, <2>3, <2>4
  <2>8. ASSUME NEW k \in 1 .. (Len(d) - 1) PROVE d[k + 1] = (d[k] + 1) % FileLen
    <3>1. d[k] \in 0 .. (FileLen - 1) /\ d[k + 1] = IF d[k] + 1 = FileLen THEN 0 ELSE d[k] + 1
      <4>0. Len(d) \in Nat BY <1>2, <2>2, <2>3
      <4>1. k \in 1 .. Len(d) /\ k + 1 \in 1 .. Len(d) BY <2>8, <4>0
      <4>2. /\ d[k] = IF k <= Len(a) THEN from + k - 1 ELSE k - Len(a) - 1
            /\ d[k + 1] = IF k + 1 <= Len(a) THEN from + (k + 1) - 1 ELSE (k + 1) - Len(a) - 1
        BY <2>4, <4>1
      <4>3. d[k] \in 0 .. (FileLen - 1) BY <2>5, <4>1
      <4>4. k \in Int /\ Len(a) \in Int /\ from \in Int /\ Len(a) = FileLen - from /\ k < Len(a) + Len(b)
            /\ Len(b) <= FileLen
        BY <1>2, <2>2, <2>3
      <4>5. CASE k < Len(a) BY <4>2, <4>3, <4>4, <4>5
      <4>6. CASE k = Len(a) BY <4>2, <4>3, <4>4, <4>6
      <4>7. CASE k > Len(a)
        <5>1. d[k] = k - Len(a) - 1 /\ d[k + 1] = (k + 1) - Len(a) - 1 BY <4>2, <4>4, <4>7
        <5>2. d[k + 1] = d[k] + 1 /\ d[k] + 1 # FileLen BY <2>3, <4>4, <5>1
        <5> QED BY <4>3, <5>2
      <4> QED BY <4>4, <4>5, <4>6, <4>7
    <3> QED BY <3>1, AfterIs
  <2> QED BY <2>1, <2>2, <2>3, <2>5, <2>6, <2>7, <2>8
<1> QED BY <1>5, <1>6

\* A packet that the microphone fills with d, and the place that the file is left at.
MicFills(d, pos) ==
    /\ mic.on /\ mic' = [mic EXCEPT !.samples = @ + Len(d)]
    /\ heard' = heard \o d /\ filePos' = pos /\ UNCHANGED <<source, mute>>

\* It holds the tone from its place, or silence.
InTune(d) == \A k \in 1 .. Len(d) : d[k] \in {Len(heard) + k - 1, Silence}

AllSilent(d) == \A k \in 1 .. Len(d) : d[k] = Silence

\* It holds the file from its place up to the new one.
Reads(d, pos) ==
    /\ Len(d) > 0 /\ \A k \in 1 .. Len(d) : d[k] \in 0 .. (FileLen - 1)
    /\ d[1] = (IF filePos = FileLen THEN 0 ELSE filePos)
    /\ \A k \in 1 .. (Len(d) - 1) : d[k + 1] = (d[k] + 1) % FileLen
    /\ d[Len(d)] + 1 = pos

\* What is heard of the file has no gap, and ends before pos.
NoGap(h) ==
    \A i, j \in DOMAIN h :
        /\ i < j /\ h[i] # Silence /\ h[j] # Silence
        /\ \A k \in (i + 1) .. (j - 1) : h[k] = Silence
        => h[j] = (h[i] + 1) % FileLen

EndsBefore(h, pos) ==
    \A i \in DOMAIN h : LastLoud(h, i) => h[i] \in 0 .. (FileLen - 1) /\ h[i] + 1 = pos

LEMMA SoundGoesOn ==
    ASSUME AudioInv, NEW d \in Seq(Samples), NEW pos \in 0 .. FileLen, MicFills(d, pos),
           source = "tone" \/ FileLen = 0 => InTune(d),
           source = "file" /\ FileLen > 0 => (pos = filePos /\ AllSilent(d)) \/ Reads(d, pos)
    PROVE  AudioInv'
<1> DEFINE n == Len(heard)
           h == heard \o d
<1>1. heard \in Seq(Samples) /\ n \in Nat /\ Len(d) \in Nat /\ filePos \in 0 .. FileLen /\ FileLen \in Nat
  BY AudioAssumption DEF AudioInv
<1>2. /\ h \in Seq(Samples) /\ Len(h) = n + Len(d)
      /\ \A k \in 1 .. n : h[k] = heard[k]
      /\ \A k \in 1 .. Len(d) : h[n + k] = d[k]
  <2>1. /\ h \in Seq(Samples) /\ Len(h) = n + Len(d)
        /\ \A k \in 1 .. n + Len(d) : h[k] = IF k <= n THEN heard[k] ELSE d[k - n]
    BY <1>1, ConcatProperties
  <2> HIDE DEF h
  <2>2. ASSUME NEW k \in 1 .. n PROVE h[k] = heard[k] BY <1>1, <2>1
  <2>3. ASSUME NEW k \in 1 .. Len(d) PROVE h[n + k] = d[k]
    <3>1. n + k \in 1 .. n + Len(d) /\ ~(n + k <= n) /\ (n + k) - n = k BY <1>1
    <3> QED BY <2>1, <3>1
  <2> QED BY <2>1, <2>2, <2>3
<1>3. heard' = h BY DEF MicFills
<1> HIDE DEF n, h
<1>a. n \in Nat /\ Len(d) \in Nat /\ DOMAIN h = 1 .. n + Len(d) BY <1>1, <1>2
<1>4. mic' \in [on : BOOLEAN, samples : Nat] /\ mic'.samples = Len(h)
  <2>1. mic \in [on : BOOLEAN, samples : Nat] /\ mic.samples = n BY DEF AudioInv, SoundContinuous, MicFills, n
  <2>2. n + Len(d) \in Nat BY <1>1
  <2> QED BY <1>2, <2>1, <2>2 DEF MicFills
<1>5. ASSUME source = "tone" \/ FileLen = 0, NEW i \in DOMAIN h PROVE h[i] \in {i - 1, Silence}
  <2>0. i \in 1 .. n + Len(d) BY <1>a
  <2>1. CASE i \in 1 .. n BY <1>1, <1>2, <1>5, <2>1 DEF AudioInv, SoundContinuous, n
  <2>2. CASE i \notin 1 .. n
    <3>1. i - n \in 1 .. Len(d) /\ n + (i - n) = i BY <1>a, <2>0, <2>2
    <3>2. d[i - n] \in {n + (i - n) - 1, Silence} BY <1>5, <3>1 DEF InTune, n
    <3> QED BY <1>1, <1>2, <3>1, <3>2
  <2> QED BY <2>1, <2>2
<1>6. ASSUME source = "file" /\ FileLen > 0, AllSilent(d), pos = filePos
      PROVE  NoGap(h) /\ EndsBefore(h, pos)
  <2>1. ASSUME NEW i \in DOMAIN h, h[i] # Silence PROVE i \in 1 .. n /\ h[i] = heard[i]
    <3>1. i \in 1 .. n + Len(d) BY <1>a
    <3>2. CASE i \notin 1 .. n
      <4>1. i - n \in 1 .. Len(d) /\ n + (i - n) = i BY <1>a, <3>1, <3>2
      <4> QED BY <1>2, <1>6, <2>1, <4>1 DEF AllSilent
    <3> QED BY <1>2, <3>2
  <2>2. ASSUME NEW i \in DOMAIN h, LastLoud(h, i) PROVE h[i] \in 0 .. (FileLen - 1) /\ h[i] + 1 = pos
    <3>1. i \in 1 .. n /\ h[i] = heard[i] BY <2>1, <2>2 DEF LastLoud
    <3>2. \A k \in (i + 1) .. n : heard[k] = Silence
      <4> TAKE k \in (i + 1) .. n
      <4>1. k \in 1 .. n /\ k \in (i + 1) .. Len(h) BY <1>1, <1>2, <3>1
      <4> QED BY <1>2, <2>2, <4>1 DEF LastLoud
    <3>3. i \in DOMAIN heard /\ LastLoud(heard, i) BY <1>1, <2>2, <3>1, <3>2 DEF LastLoud, n
    <3> QED BY <1>6, <3>1, <3>3 DEF AudioInv
  <2>3. ASSUME NEW i \in DOMAIN h, NEW j \in DOMAIN h, i < j, h[i] # Silence, h[j] # Silence,
               \A k \in (i + 1) .. (j - 1) : h[k] = Silence
        PROVE  h[j] = (h[i] + 1) % FileLen
    <3>1. i \in 1 .. n /\ h[i] = heard[i] /\ j \in 1 .. n /\ h[j] = heard[j] BY <2>1, <2>3
    <3>2. \A k \in (i + 1) .. (j - 1) : heard[k] = Silence
      <4> TAKE k \in (i + 1) .. (j - 1)
      <4>1. k \in 1 .. n BY <1>a, <3>1
      <4> QED BY <1>2, <2>3, <4>1
    <3>3. i \in DOMAIN heard /\ j \in DOMAIN heard BY <1>1, <3>1 DEF n
    <3> QED BY <1>6, <2>3, <3>1, <3>2, <3>3 DEF AudioInv, SoundContinuous
  <2> QED BY <2>2, <2>3 DEF NoGap, EndsBefore
<1>7. ASSUME source = "file" /\ FileLen > 0, Reads(d, pos)
      PROVE  NoGap(h) /\ EndsBefore(h, pos)
  <2>0. Len(d) > 0 /\ \A k \in 1 .. Len(d) : d[k] \in 0 .. (FileLen - 1) BY <1>7 DEF Reads
  <2>1. ASSUME NEW i \in DOMAIN h, i \notin 1 .. n
        PROVE  i - n \in 1 .. Len(d) /\ h[i] = d[i - n] /\ h[i] # Silence
    <3>1. i \in 1 .. n + Len(d) BY <1>a
    <3>2. i - n \in 1 .. Len(d) /\ n + (i - n) = i BY <1>a, <2>1, <3>1
    <3>3. h[i] = d[i - n] BY <1>2, <3>2
    <3>4. d[i - n] \in 0 .. (FileLen - 1) BY <2>0, <3>2
    <3> QED BY <1>1, <3>2, <3>3, <3>4 DEF Silence
  <2>2. ASSUME NEW i \in DOMAIN h, LastLoud(h, i) PROVE h[i] \in 0 .. (FileLen - 1) /\ h[i] + 1 = pos
    <3>1. n + Len(d) \in DOMAIN h /\ n + Len(d) \notin 1 .. n /\ i \in 1 .. n + Len(d)
      BY <1>a, <2>0
    <3>2. i = n + Len(d)
      <4>1. h[n + Len(d)] # Silence BY <2>1, <3>1
      <4>2. ASSUME i < n + Len(d) PROVE FALSE
        <5>1. n + Len(d) \in (i + 1) .. Len(h) BY <1>a, <1>2, <3>1, <4>2
        <5> QED BY <2>2, <4>1, <5>1 DEF LastLoud
      <4> QED BY <1>a, <3>1, <4>2
    <3>3. h[i] = d[Len(d)] BY <1>1, <2>1, <3>1, <3>2
    <3>4. Len(d) \in 1 .. Len(d) /\ d[Len(d)] + 1 = pos BY <1>a, <1>7, <2>0 DEF Reads
    <3> QED BY <2>0, <3>3, <3>4
  <2>3. ASSUME NEW i \in DOMAIN h, NEW j \in DOMAIN h, i < j, h[i] # Silence, h[j] # Silence,
               \A k \in (i + 1) .. (j - 1) : h[k] = Silence
        PROVE  h[j] = (h[i] + 1) % FileLen
    <3>0. i \in 1 .. n + Len(d) /\ j \in 1 .. n + Len(d) BY <1>a
    <3>1. CASE j \in 1 .. n
      <4>1. i \in 1 .. n /\ h[i] = heard[i] /\ h[j] = heard[j] BY <1>1, <1>2, <2>3, <3>0, <3>1
      <4>2. \A k \in (i + 1) .. (j - 1) : heard[k] = Silence
        <5> TAKE k \in (i + 1) .. (j - 1)
        <5>1. k \in 1 .. n BY <1>a, <3>1, <4>1
        <5> QED BY <1>2, <2>3, <5>1
      <4>3. i \in DOMAIN heard /\ j \in DOMAIN heard BY <1>1, <3>1, <4>1 DEF n
      <4> QED BY <1>7, <2>3, <4>1, <4>2, <4>3 DEF AudioInv, SoundContinuous
    <3>2. CASE i \in 1 .. n /\ j \notin 1 .. n
      <4>1. j = n + 1
        <5>1. n + 1 \in DOMAIN h /\ n + 1 \notin 1 .. n BY <1>a, <2>0
        <5>2. h[n + 1] # Silence BY <2>1, <5>1
        <5>3. ASSUME n + 1 < j PROVE FALSE
          <6>1. n + 1 \in (i + 1) .. (j - 1) BY <1>a, <3>0, <3>2, <5>3
          <6> QED BY <2>3, <5>2, <6>1
        <5>4. n \in Int /\ j \in Int /\ j > n BY <1>a, <3>0, <3>2
        <5> QED BY <5>3, <5>4
      <4>2. h[j] = d[1] BY <1>1, <2>1, <3>2, <4>1
      <4>3. h[i] = heard[i] /\ i \in DOMAIN heard BY <1>1, <1>2, <3>2 DEF n
      <4>4. \A k \in (i + 1) .. n : heard[k] = Silence
        <5> TAKE k \in (i + 1) .. n
        <5>1. k \in 1 .. n /\ k \in (i + 1) .. (j - 1) BY <1>a, <3>2, <4>1
        <5> QED BY <1>2, <2>3, <5>1
      <4>5. LastLoud(heard, i) BY <2>3, <4>3, <4>4 DEF LastLoud, n
      <4>6. heard[i] \in 0 .. (FileLen - 1) /\ heard[i] + 1 = filePos BY <1>7, <4>3, <4>5 DEF AudioInv
      <4>7. d[1] = IF filePos = FileLen THEN 0 ELSE filePos BY <1>7 DEF Reads
      <4>8. FileLen \in Nat \ {0} BY <1>1, <1>7
      <4>9. (heard[i] + 1) % FileLen = IF filePos = FileLen THEN 0 ELSE filePos BY <4>6, <4>8, AfterIs
      <4> QED BY <4>2, <4>3, <4>7, <4>9
    <3>3. CASE i \notin 1 .. n
      <4>1. j \notin 1 .. n BY <1>a, <2>3, <3>0, <3>3
      <4>2. i - n \in 1 .. Len(d) /\ h[i] = d[i - n] BY <2>1, <3>3
      <4>3. j - n \in 1 .. Len(d) /\ h[j] = d[j - n] BY <2>1, <4>1
      <4>4. j = i + 1
        <5>1. ASSUME i + 1 < j PROVE FALSE
          <6>1. i + 1 \in DOMAIN h /\ i + 1 \notin 1 .. n /\ i + 1 \in (i + 1) .. (j - 1)
            BY <1>a, <3>0, <3>3, <5>1
          <6> QED BY <2>1, <2>3, <6>1
        <5> QED BY <2>3, <3>0, <5>1
      <4>5. i - n \in 1 .. (Len(d) - 1) /\ j - n = (i - n) + 1
        <5>1. i \in Int /\ n \in Int /\ Len(d) \in Int BY <1>a, <3>0
        <5> QED BY <4>2, <4>3, <4>4, <5>1
      <4>6. \A k \in 1 .. (Len(d) - 1) : d[k + 1] = (d[k] + 1) % FileLen BY <1>7 DEF Reads
      <4> QED BY <4>2, <4>3, <4>5, <4>6
    <3> QED BY <3>1, <3>2, <3>3
  <2> QED BY <2>2, <2>3 DEF NoGap, EndsBefore
<1>8. source = "file" /\ FileLen > 0 => NoGap(h) /\ EndsBefore(h, pos)
  BY <1>6, <1>7
<1>9. source' = source /\ mute' = mute /\ filePos' = pos BY DEF MicFills
<1>10. SoundContinuous'
  BY <1>3, <1>4, <1>5, <1>8, <1>9 DEF SoundContinuous, NoGap
<1> QED BY <1>2, <1>3, <1>4, <1>8, <1>9, <1>10 DEF AudioInv, EndsBefore

\* The invariant says nothing of the speaker.
LEMMA SoundKept ==
    ASSUME AudioInv, UNCHANGED <<source, filePos, heard>>, mute' \in [mic : BOOLEAN, spk : BOOLEAN],
           mic' \in [on : BOOLEAN, samples : Nat], mic'.on => mic' = mic
    PROVE  AudioInv'
BY DEF AudioInv, SoundContinuous, LastLoud

LEMMA AudioStep == AudioInv /\ [AudioNext]_audioVars => AudioInv'
<1> SUFFICES ASSUME AudioInv, [AudioNext]_audioVars PROVE AudioInv' OBVIOUS
<1>0. mic \in [on : BOOLEAN, samples : Nat] /\ mute \in [mic : BOOLEAN, spk : BOOLEAN]
  BY DEF AudioInv
<1>1. ASSUME NEW unit \in {"mic", "spk"}, NEW on \in BOOLEAN, SetMute(unit, on) PROVE AudioInv'
  BY <1>0, <1>1, SoundKept DEF SetMute
<1>2. ASSUME NEW alt \in {0, 1}, MicAlt(alt) PROVE AudioInv'
  <2>1. CASE StreamEdge(mic, alt) = "on"
    <3>1. mic' = [on |-> TRUE, samples |-> 0] /\ heard' = <<>> /\ UNCHANGED <<source, filePos, mute>>
      BY <1>2, <2>1 DEF MicAlt
    <3>2. heard' \in Seq(Samples) /\ Len(heard') = 0 /\ DOMAIN heard' = {} BY <3>1
    <3> QED BY <3>1, <3>2 DEF AudioInv, SoundContinuous
  <2>2. CASE StreamEdge(mic, alt) # "on"
    <3>1. /\ UNCHANGED <<source, filePos, mute, heard>>
          /\ mic' = mic \/ mic' = [mic EXCEPT !.on = FALSE]
      BY <1>2, <2>2 DEF MicAlt, StreamEdge
    <3> QED BY <1>0, <3>1, SoundKept
  <2> QED BY <2>1, <2>2
<1>3. ASSUME NEW alt \in {0, 1}, SpkAlt(alt) PROVE AudioInv'
  BY <1>0, <1>3, SoundKept DEF SpkAlt
<1>4. ASSUME NEW cap \in Asks, MicIso(cap) PROVE AudioInv'
  <2> DEFINE n == cap \div SampleBytes
             p == MicPacket(n)
  <2>1. CASE ~mic.on \/ n = 0
    <3>1. UNCHANGED audioVars BY <1>4, <2>1 DEF MicIso
    <3> QED BY <1>0, <3>1, SoundKept DEF audioVars
  <2>2. CASE mic.on /\ n # 0
    <3>1. n \in Nat \ {0} BY <2>2, AudioAssumption DEF SampleBytes
    <3>2. /\ heard' = heard \o p.data /\ filePos' = p.pos
          /\ mic' = [mic EXCEPT !.samples = @ + Len(p.data)] /\ UNCHANGED <<source, mute>>
      BY <1>4, <2>2 DEF MicIso
    <3> HIDE DEF n, p
    <3>a. MicFills(p.data, p.pos) BY <2>2, <3>2 DEF MicFills
    <3>3. CASE mute.mic
      <4> DEFINE d == [k \in 1 .. n |-> Silence]
      <4>1. p.data = d /\ p.pos = filePos BY <3>3 DEF MicPacket, p
      <4>2. d \in Seq(Samples) /\ Len(d) = n /\ \A k \in 1 .. Len(d) : d[k] = Silence
        BY <3>1 DEF Samples
      <4> HIDE DEF d
      <4>3. filePos \in 0 .. FileLen BY DEF AudioInv
      <4>4. InTune(d) /\ AllSilent(d) BY <4>2 DEF InTune, AllSilent
      <4> QED BY <3>a, <4>1, <4>2, <4>3, <4>4, SoundGoesOn
    <3>4. CASE ~mute.mic /\ source = "file" /\ FileLen > 0
      <4>1. FileLen \in Nat \ {0} /\ filePos \in 0 .. FileLen BY <3>4, AudioAssumption DEF AudioInv
      <4> DEFINE m == MicSource(n, filePos)
      <4>2. /\ m.data \in Seq(Nat) /\ Len(m.data) > 0 /\ m.pos \in 0 .. FileLen
            /\ \A k \in 1 .. Len(m.data) : m.data[k] \in 0 .. (FileLen - 1)
            /\ m.data[1] = (IF filePos = FileLen THEN 0 ELSE filePos)
            /\ \A k \in 1 .. (Len(m.data) - 1) : m.data[k + 1] = (m.data[k] + 1) % FileLen
            /\ m.data[Len(m.data)] + 1 = m.pos
        BY <3>1, <4>1, MicSourceIs
      <4>3. m.data # <<>> BY <4>2
      <4>4. p = m BY <3>4, <4>3 DEF MicPacket, p
      <4> HIDE DEF m
      <4>5. m.data \in Seq(Samples)
        <5>1. m.data \in Seq(Nat) BY <4>2
        <5> QED BY <5>1 DEF Samples
      <4>6. source # "tone" /\ FileLen # 0 BY <3>4, <4>1
      <4>7. Reads(m.data, m.pos) BY <4>2 DEF Reads
      <4> QED BY <3>a, <4>2, <4>4, <4>5, <4>6, <4>7, SoundGoesOn
    <3>5. CASE ~mute.mic /\ ~(source = "file" /\ FileLen > 0)
      <4> DEFINE d == Tone(n, mic.samples)
      <4>1. mic.samples = Len(heard) /\ Len(heard) \in Nat /\ filePos \in 0 .. FileLen /\ source \in Sources
            /\ FileLen \in Nat
        BY <2>2, AudioAssumption DEF AudioInv, SoundContinuous
      <4>2. source = "file" => MicSource(n, filePos).data = <<>>
        <5> SUFFICES ASSUME source = "file" PROVE MicSource(n, filePos).data = <<>> OBVIOUS
        <5>1. FileLen = 0 /\ filePos = 0 BY <3>5, <4>1
        <5>2. \A k \in Nat : FromFile(k, 0) = <<>>
          <6> TAKE k \in Nat
          <6>1. FromFile(k, 0) \in Seq(Nat) /\ Len(FromFile(k, 0)) = 0 BY <5>1, FromFileIs
          <6> QED BY <6>1
        <5>3. n \in Nat /\ n - 0 \in Nat /\ n # 0 /\ Len(<<>>) = 0 BY <3>1
        <5>4. FromFile(n, filePos) = <<>> /\ FromFile(n - Len(<<>>), 0) = <<>> BY <5>1, <5>2, <5>3
        <5>5. MicSource(n, filePos) = [data |-> <<>> \o <<>>, pos |-> Len(<<>>)]
          BY <5>3, <5>4 DEF MicSource
        <5> QED BY <5>5
      <4>3. p = [data |-> d, pos |-> filePos] BY <3>5, <4>2 DEF MicPacket, p
      <4>4. /\ d \in Seq(Samples) /\ Len(d) = n
            /\ \A k \in 1 .. Len(d) : d[k] = Len(heard) + k - 1
        BY <3>1, <4>1 DEF Tone, Samples
      <4> HIDE DEF d
      <4>5. InTune(d) BY <4>4 DEF InTune
      <4> QED BY <3>a, <3>5, <4>1, <4>3, <4>4, <4>5, SoundGoesOn
    <3> QED BY <3>3, <3>4, <3>5
  <2> QED BY <2>1, <2>2
<1>5. ASSUME NEW len \in Asks, SpkIso(len) PROVE AudioInv'
  BY <1>0, <1>5, SoundKept DEF SpkIso
<1>6. CASE UNCHANGED audioVars
  BY <1>0, <1>6, SoundKept DEF audioVars
<1> QED BY <1>1, <1>2, <1>3, <1>4, <1>5, <1>6 DEF AudioNext

\* What a host hears of the microphone has no gap and no repetition, for a file
\* of any length, packets of any sizes, mutes, stops and starts (uac.py, on_iso,
\* and the example's source).
THEOREM SoundIsContinuous == AudioSpec => []SoundContinuous
<1>1. AudioInit(Sources) => AudioInv
  BY AudioAssumption DEF AudioInit, AudioInv, SoundContinuous
<1>2. AudioInv => SoundContinuous BY DEF AudioInv
<1> QED BY <1>1, <1>2, AudioStep, PTL DEF AudioSpec

-----------------------------------------------------------------------------
(* The keyboards.  Of a thread it is enough to know how many of its steps    *)
(* are left; the reports in the pipe and what the host made of those before  *)
(* them are a part of the reports of the one thread that typed since the     *)
(* host came, and nothing is said of them when several did.                  *)

Letters == {Wanted[k] : k \in DOMAIN Wanted}
KeySets == {Reports[r] : r \in DOMAIN Reports} \cup {{}}
StepSet == {"keep", "queue"} \X KeySets

\* What a thread with n steps before it has still to do.
StillToDo(prog, n) ==
    [k \in 1 .. n |-> TypeString(prog)[Len(TypeString(prog)) - n + k]]

\* The steps that a thread has done, and the reports it has queued with them.
DoneBy(t) == Len(TypeString(program)) - Len(typists[t])
Queued(t) == IF program = "hid_device" THEN DoneBy(t) \div 2 ELSE DoneBy(t)

\* The host came before report `from' + 1 and has read up to report `to' of the
\* `last' that were queued.
HostSees(from, to, last) ==
    /\ pipe = [i \in 1 .. last - to |-> Reports[to + i]]
    /\ keys.down = IF to = from THEN {} ELSE Reports[to]
    /\ keys.seen = [i \in 1 .. ((to + 1) \div 2) - ((from + 1) \div 2) |-> Wanted[((from + 1) \div 2) + i]]

\* The report that was queued last, or what is left of it at the host.
Newest == IF pipe = <<>> THEN keys.down ELSE pipe[Len(pipe)]

HidTyped ==
    /\ program \in Programs
    /\ typists \in Seq({StillToDo(program, n) : n \in 0 .. Len(TypeString(program))})
    /\ pipe \in Seq(KeySets)
    /\ writers \subseteq DOMAIN typists
    /\ keys = [down |-> keys.down, seen |-> keys.seen]

LastKept ==
    IF program = "hid_device"
    THEN /\ Len(typists) = 1
         /\ lastInput = IF DoneBy(1) = 0 THEN {} ELSE Reports[(DoneBy(1) + 1) \div 2]
    ELSE lastInput = {}

NewestComesUp == Newest # {} => \E t \in DOMAIN typists : typists[t] # <<>>

ByNow == IF typists = <<>> THEN 0 ELSE Queued(Len(typists))

OneTypistSeen ==
    writers \subseteq {Len(typists)} =>
        \E from \in 0 .. ByNow : \E to \in from .. ByNow :
            /\ program = "boot_keyboard" => from = 0
            /\ HostSees(from, to, ByNow)

HidInv == HidTyped /\ LastKept /\ NewestComesUp /\ OneTypistSeen

\* The characters that have a key are a sequence, as long as their number.
LEMMA WantedIsSeq == Wanted \in Seq(Letters) /\ Len(Wanted) \in Nat
<1>1. DOMAIN Text = 1 .. Len(Text) /\ Len(Text) \in Nat BY HidAssumption
<1>2. IsFiniteSet(DOMAIN Text) BY <1>1, FS_Interval
<1>3. IsFiniteSet(Mapped) BY <1>2, FS_Subset DEF Mapped
<1>4. Cardinality(Mapped) \in Nat BY <1>3, FS_CardinalityType
<1>5. DOMAIN Wanted = 1 .. Cardinality(Mapped) BY DEF Wanted
<1>6. Wanted = [k \in 1 .. Cardinality(Mapped) |-> Wanted[k]] BY <1>5 DEF Wanted
<1>7. \A k \in 1 .. Cardinality(Mapped) : Wanted[k] \in Letters BY <1>5 DEF Letters
<1>8. Wanted \in [1 .. Cardinality(Mapped) -> Letters] BY <1>6, <1>7
<1> QED BY <1>4, <1>8

\* Two reports for each of them, down and up.
LEMMA ReportsIsSeq ==
    /\ Reports \in Seq(KeySets)
    /\ Len(Reports) = 2 * Len(Wanted)
    /\ \A r \in 1 .. 2 * Len(Wanted) :
          Reports[r] = IF r % 2 = 1 THEN {Wanted[(r + 1) \div 2]} ELSE {}
<1>1. 2 * Len(Wanted) \in Nat BY WantedIsSeq
<1>2. DOMAIN Reports = 1 .. 2 * Len(Wanted) BY DEF Reports
<1>3. \A r \in 1 .. 2 * Len(Wanted) : Reports[r] \in KeySets BY <1>2 DEF KeySets
<1>4. Reports \in [1 .. 2 * Len(Wanted) -> KeySets] BY <1>2, <1>3 DEF Reports
<1>5. Reports \in Seq(KeySets) /\ Len(Reports) = 2 * Len(Wanted) BY <1>1, <1>4
<1> QED BY <1>5 DEF Reports

\* What a thread does: two steps for a report in one program, one in the other.
LEMMA StepsOfThread ==
    ASSUME NEW prog \in Programs
    PROVE  /\ TypeString(prog) \in Seq(StepSet)
           /\ Len(TypeString(prog)) = (IF prog = "hid_device" THEN 4 ELSE 2) * Len(Wanted)
           /\ \A k \in 1 .. Len(TypeString(prog)) :
                 TypeString(prog)[k] =
                     IF prog = "hid_device"
                     THEN <<IF k % 2 = 1 THEN "keep" ELSE "queue", Reports[(k + 1) \div 2]>>
                     ELSE <<"queue", Reports[k]>>
<1> DEFINE n == IF prog = "hid_device" THEN 2 * Len(Reports) ELSE Len(Reports)
           step(k) == IF prog = "hid_device"
                      THEN <<IF k % 2 = 1 THEN "keep" ELSE "queue", Reports[(k + 1) \div 2]>>
                      ELSE <<"queue", Reports[k]>>
<1>1. TypeString(prog) = [k \in 1 .. n |-> step(k)]
  BY DEF TypeString, Send
<1>2. n \in Nat /\ n = (IF prog = "hid_device" THEN 4 ELSE 2) * Len(Wanted)
  BY ReportsIsSeq, WantedIsSeq
<1>3. ASSUME NEW k \in 1 .. n PROVE step(k) \in StepSet
  <2>1. CASE prog = "hid_device"
    <3>1. (k + 1) \div 2 \in 1 .. Len(Reports) BY <2>1, ReportsIsSeq, WantedIsSeq
    <3>2. Reports[(k + 1) \div 2] \in KeySets BY <3>1, ReportsIsSeq
    <3> QED BY <2>1, <3>2 DEF StepSet
  <2>2. CASE prog # "hid_device"
    <3>1. Reports[k] \in KeySets BY <2>2, ReportsIsSeq
    <3> QED BY <2>2, <3>1 DEF StepSet
  <2> QED BY <2>1, <2>2
<1> HIDE DEF n, step
<1>4. TypeString(prog) \in [1 .. n -> StepSet] BY <1>1, <1>3
<1>5. TypeString(prog) \in Seq(StepSet) /\ Len(TypeString(prog)) = n BY <1>2, <1>4
<1>6. \A k \in 1 .. n : TypeString(prog)[k] = step(k) BY <1>1
<1> QED BY <1>2, <1>5, <1>6 DEF step

\* The tail of a sequence, element by element.
LEMMA TailAsFunction ==
    ASSUME NEW S, NEW s \in Seq(S), s # <<>>
    PROVE  Tail(s) = [k \in 1 .. Len(s) - 1 |-> s[k + 1]]
<1>1. Tail(s) \in Seq(S) /\ Len(Tail(s)) = Len(s) - 1
      /\ \A i \in 1 .. Len(Tail(s)) : Tail(s)[i] = s[i + 1]
  BY HeadTailProperties
<1>2. Tail(s) \in [1 .. Len(Tail(s)) -> S]
  <2>1. \A q \in Seq(S) : q \in [1 .. Len(q) -> S] OBVIOUS
  <2> QED BY <1>1, <2>1, Zenon
<1>3. Tail(s) = [k \in 1 .. Len(Tail(s)) |-> Tail(s)[k]] BY <1>2
<1> QED BY <1>1, <1>3

\* The steps that are left, one after another.
LEMMA StillToDoSeq ==
    ASSUME NEW prog \in Programs, NEW n \in 0 .. Len(TypeString(prog))
    PROVE  /\ StillToDo(prog, n) \in Seq(StepSet)
           /\ Len(StillToDo(prog, n)) = n
           /\ StillToDo(prog, n) = <<>> <=> n = 0
           /\ n > 0 => /\ Head(StillToDo(prog, n)) = TypeString(prog)[Len(TypeString(prog)) - n + 1]
                       /\ Tail(StillToDo(prog, n)) = StillToDo(prog, n - 1)
<1> DEFINE N == Len(TypeString(prog))
<1>1. N \in Nat /\ n \in Nat /\ n <= N BY StepsOfThread, LenProperties
<1>2. \A k \in 1 .. n : TypeString(prog)[N - n + k] \in StepSet
  <2>1. \A k \in 1 .. N : TypeString(prog)[k] \in StepSet BY StepsOfThread, ElementOfSeq
  <2>2. \A k \in 1 .. n : N - n + k \in 1 .. N BY <1>1
  <2> QED BY <2>1, <2>2
<1>3. StillToDo(prog, n) = [k \in 1 .. n |-> TypeString(prog)[N - n + k]] BY DEF StillToDo
<1>4. StillToDo(prog, n) \in [1 .. n -> StepSet] BY <1>2, <1>3
<1>5. StillToDo(prog, n) \in Seq(StepSet) /\ Len(StillToDo(prog, n)) = n BY <1>1, <1>4
<1>6. StillToDo(prog, n) = <<>> <=> n = 0 BY <1>5, EmptySeq
<1>7. ASSUME n > 0
      PROVE  /\ Head(StillToDo(prog, n)) = TypeString(prog)[N - n + 1]
             /\ Tail(StillToDo(prog, n)) = StillToDo(prog, n - 1)
  <2>1. StillToDo(prog, n) # <<>> BY <1>6, <1>7
  <2>2. Head(StillToDo(prog, n)) = StillToDo(prog, n)[1] BY <1>5, <2>1, HeadTailProperties
  <2>3. Head(StillToDo(prog, n)) = TypeString(prog)[N - n + 1] BY <1>1, <1>3, <1>7, <2>2
  <2>4. Tail(StillToDo(prog, n)) = [k \in 1 .. n - 1 |-> StillToDo(prog, n)[k + 1]]
    BY <1>5, <2>1, TailAsFunction
  <2>5. \A k \in 1 .. n - 1 : StillToDo(prog, n)[k + 1] = TypeString(prog)[N - (n - 1) + k]
    <3>1. TAKE k \in 1 .. n - 1
    <3>2. k + 1 \in 1 .. n /\ N - n + (k + 1) = N - (n - 1) + k BY <1>1
    <3> QED BY <1>3, <3>2
  <2>6. StillToDo(prog, n - 1) = [k \in 1 .. n - 1 |-> TypeString(prog)[N - (n - 1) + k]]
    BY DEF StillToDo
  <2>7. Tail(StillToDo(prog, n)) = StillToDo(prog, n - 1) BY <1>5, <2>4, <2>5, <2>6
  <2> QED BY <2>3, <2>7
<1> QED BY <1>5, <1>6, <1>7

\* A thread that starts has all of it before it.
LEMMA WholeThread ==
    ASSUME NEW prog \in Programs
    PROVE  TypeString(prog) = StillToDo(prog, Len(TypeString(prog)))
<1> DEFINE N == Len(TypeString(prog))
<1>1. TypeString(prog) \in Seq(StepSet) /\ N \in Nat BY StepsOfThread, LenProperties
<1>2. TypeString(prog) = [k \in 1 .. N |-> TypeString(prog)[k]] BY <1>1
<1>3. \A k \in 1 .. N : N - N + k = k BY <1>1
<1>4. StillToDo(prog, N) = [k \in 1 .. N |-> TypeString(prog)[N - N + k]] BY DEF StillToDo
<1> QED BY <1>2, <1>3, <1>4

\* A sequence with one more element, element by element.
LEMMA AppendAsFunction ==
    ASSUME NEW S, NEW s \in Seq(S), NEW x \in S
    PROVE  Append(s, x) = [i \in 1 .. Len(s) + 1 |-> IF i = Len(s) + 1 THEN x ELSE s[i]]
<1>1. /\ Append(s, x) \in Seq(S) /\ Len(Append(s, x)) = Len(s) + 1
      /\ \A i \in 1 .. Len(s) : Append(s, x)[i] = s[i]
      /\ Append(s, x)[Len(s) + 1] = x
  BY AppendProperties
<1>2. Append(s, x) \in [1 .. Len(s) + 1 -> S]
  <2>1. \A q \in Seq(S) : q \in [1 .. Len(q) -> S] OBVIOUS
  <2>2. Append(s, x) \in [1 .. Len(Append(s, x)) -> S] BY <1>1, <2>1, Zenon
  <2> QED BY <1>1, <2>2, Zenon
<1>3. Append(s, x) = [i \in 1 .. Len(s) + 1 |-> Append(s, x)[i]] BY <1>2, Zenon
<1>4. Len(s) \in Nat BY LenProperties
<1>5. \A i \in 1 .. Len(s) + 1 : Append(s, x)[i] = IF i = Len(s) + 1 THEN x ELSE s[i]
  <2>1. \A i \in 1 .. Len(s) + 1 : i # Len(s) + 1 => i \in 1 .. Len(s) BY <1>4
  <2> QED BY <1>1, <2>1, Zenon
<1> QED BY <1>3, <1>5, Zenon

\* Sequences that agree in some of their elements.
LEMMA PrefixByElements ==
    ASSUME NEW S, NEW s \in Seq(S), NEW t \in Seq(S), Len(s) <= Len(t),
           \A i \in 1 .. Len(s) : s[i] = t[i]
    PROVE  IsPrefix(s, t)
<1>1. Len(s) \in Nat /\ Len(t) \in Nat BY LenProperties
<1>2. \A i \in 1 .. Len(s) : s[i] \in S /\ t[i] \in S BY <1>1, ElementOfSeq
<1>3. SubSeq(s, 1, Len(s)) = SubSeq(t, 1, Len(s)) BY <1>1, <1>2
<1> QED BY <1>3 DEF IsPrefix

LEMMA PartIsPrefix ==
    ASSUME NEW S, NEW s \in Seq(S), NEW t \in Seq(S), NEW a \in Nat,
           a + Len(s) <= Len(t), \A i \in 1 .. Len(s) : s[i] = t[a + i]
    PROVE  IsPrefix(s, SubSeq(t, a + 1, Len(t)))
<1> DEFINE u == SubSeq(t, a + 1, Len(t))
<1>1. Len(s) \in Nat /\ Len(t) \in Nat BY LenProperties
<1>2. /\ u \in Seq(S) /\ Len(u) = Len(t) - a
      /\ \A i \in 1 .. Len(t) - a : u[i] = t[(a + 1) + i - 1]
  <2>1. \A i \in a + 1 .. Len(t) : t[i] \in S
    <3>1. \A i \in a + 1 .. Len(t) : i \in 1 .. Len(t) BY <1>1
    <3> QED BY <3>1, ElementOfSeq
  <2>2. a + 1 <= Len(t) + 1 BY <1>1
  <2> QED BY <1>1, <2>1, <2>2
<1>3. Len(s) <= Len(u) BY <1>1, <1>2
<1>4. \A i \in 1 .. Len(s) : s[i] = u[i]
  <2>1. TAKE i \in 1 .. Len(s)
  <2>2. i \in 1 .. Len(t) - a /\ (a + 1) + i - 1 = a + i BY <1>1
  <2> QED BY <1>2, <2>2
<1> HIDE DEF u
<1>5. IsPrefix(s, u) BY <1>2, <1>3, <1>4, PrefixByElements
<1> QED BY <1>5 DEF u

LEMMA PartIsSuffix ==
    ASSUME NEW S, NEW s \in Seq(S), NEW t \in Seq(S), NEW a \in Nat,
           a + Len(s) = Len(t), \A i \in 1 .. Len(s) : s[i] = t[a + i]
    PROVE  IsSuffix(s, t)
<1>1. Len(s) \in Nat /\ Len(t) \in Nat BY LenProperties
<1>2. ASSUME NEW q \in Seq(S)
      PROVE  /\ Reverse(q) \in Seq(S) /\ Len(Reverse(q)) = Len(q)
             /\ \A i \in 1 .. Len(q) : Reverse(q)[i] = q[(Len(q) - i) + 1]
  <2>1. Len(q) \in Nat BY LenProperties
  <2>2. \A i \in 1 .. Len(q) : q[(Len(q) - i) + 1] \in S
    <3>1. \A i \in 1 .. Len(q) : (Len(q) - i) + 1 \in 1 .. Len(q) BY <2>1
    <3> QED BY <3>1, ElementOfSeq
  <2>3. Reverse(q) \in [1 .. Len(q) -> S] BY <2>2, ZenonT(40) DEF Reverse
  <2>4. Reverse(q) \in Seq(S) /\ Len(Reverse(q)) = Len(q)
    <3>1. \A n \in Nat : \A f \in [1 .. n -> S] : f \in Seq(S) /\ Len(f) = n OBVIOUS
    <3> QED BY <2>1, <2>3, <3>1, Zenon
  <2> QED BY <2>4 DEF Reverse
<1>3. \A i \in 1 .. Len(s) : Reverse(s)[i] = Reverse(t)[i]
  <2>1. TAKE i \in 1 .. Len(s)
  <2>2. /\ i \in 1 .. Len(t) /\ (Len(s) - i) + 1 \in 1 .. Len(s)
        /\ a + ((Len(s) - i) + 1) = (Len(t) - i) + 1
    <3>1. \A m, n \in Nat : \A k \in 1 .. m : a + m = n =>
             /\ k \in 1 .. n /\ (m - k) + 1 \in 1 .. m
             /\ a + ((m - k) + 1) = (n - k) + 1
      OBVIOUS
    <3> QED BY <1>1, <3>1
  <2>3. s[(Len(s) - i) + 1] = t[(Len(t) - i) + 1]
    <3>1. s[(Len(s) - i) + 1] = t[a + ((Len(s) - i) + 1)] BY <2>2, Zenon
    <3> QED BY <2>2, <3>1, Zenon
  <2> QED BY <1>2, <2>2, <2>3
<1>4. Len(Reverse(s)) <= Len(Reverse(t)) BY <1>1, <1>2
<1>5. IsPrefix(Reverse(s), Reverse(t)) BY <1>2, <1>3, <1>4, PrefixByElements
<1> QED BY <1>5 DEF IsSuffix

\* A set of at most one key in some order.
LEMMA KeysInOrder ==
    /\ SetToSeq({}) = <<>>
    /\ \A c : SetToSeq({c}) = <<c>>
<1>1. SetToSeq({}) = <<>>
  <2>1. Cardinality({}) = 0 BY FS_EmptySet
  <2>2. \A f \in [1 .. 0 -> {}] : f = <<>>
    <3>1. TAKE f \in [1 .. 0 -> {}]
    <3>2. f \in Seq({}) /\ Len(f) = 0 OBVIOUS
    <3> QED BY <3>2, EmptySeq
  <2>4. <<>> \in [1 .. 0 -> {}] OBVIOUS
  <2>3. IsInjective(<<>>) BY DEF IsInjective
  <2> QED BY <2>1, <2>2, <2>3, <2>4 DEF SetToSeq
<1>2. ASSUME NEW c PROVE SetToSeq({c}) = <<c>>
  <2>1. Cardinality({c}) = 1 BY FS_Singleton
  <2>2. <<c>> \in [1 .. 1 -> {c}] OBVIOUS
  <2>3. \A f \in [1 .. 1 -> {c}] : f = <<c>>
    OBVIOUS
  <2>4. IsInjective(<<c>>) BY DEF IsInjective
  <2> QED BY <2>1, <2>2, <2>3, <2>4 DEF SetToSeq
<1> QED BY <1>1, <1>2

\* A host that has just come.
LEMMA NothingSeen ==
    ASSUME NEW n \in Nat, pipe = <<>>, keys.down = {}, keys.seen = <<>>
    PROVE  HostSees(n, n, n)
<1>1. n - n = 0 /\ ((n + 1) \div 2) - ((n + 1) \div 2) = 0 OBVIOUS
<1>2. [i \in 1 .. 0 |-> Reports[n + i]] = <<>> OBVIOUS
<1>3. [i \in 1 .. 0 |-> Wanted[((n + 1) \div 2) + i]] = <<>> OBVIOUS
<1> QED BY <1>1, <1>2, <1>3 DEF HostSees

\* A thread's next step, and how many reports it has queued after it.
LEMMA NextStep ==
    ASSUME HidTyped, NEW t \in DOMAIN typists, typists[t] # <<>>
    PROVE  /\ Len(typists[t]) \in 1 .. Len(TypeString(program))
           /\ DoneBy(t) + 1 \in 1 .. Len(TypeString(program))
           /\ Tail(typists[t]) = StillToDo(program, Len(typists[t]) - 1)
           /\ Len(Tail(typists[t])) = Len(typists[t]) - 1
           /\ program = "hid_device" =>
                 Head(typists[t]) = <<IF (DoneBy(t) + 1) % 2 = 1 THEN "keep" ELSE "queue",
                                      Reports[((DoneBy(t) + 1) + 1) \div 2]>>
           /\ program = "boot_keyboard" => Head(typists[t]) = <<"queue", Reports[DoneBy(t) + 1]>>
<1> DEFINE N == Len(TypeString(program))
<1>1. program \in Programs BY DEF HidTyped
<1>2. PICK n \in 0 .. N : typists[t] = StillToDo(program, n)
  <2>1. typists[t] \in {StillToDo(program, n) : n \in 0 .. N}
    BY ElementOfSeq, LenProperties DEF HidTyped
  <2> QED BY <2>1
<1>3. N \in Nat BY <1>1, StepsOfThread, LenProperties
<1>4. Len(typists[t]) = n /\ n > 0 BY <1>1, <1>2, <1>3, StillToDoSeq
<1>5. /\ Head(typists[t]) = TypeString(program)[N - n + 1]
      /\ Tail(typists[t]) = StillToDo(program, n - 1)
  BY <1>1, <1>2, <1>4, StillToDoSeq
<1>6. n - 1 \in 0 .. N BY <1>3, <1>4
<1>7. Len(Tail(typists[t])) = n - 1 BY <1>1, <1>5, <1>6, StillToDoSeq
<1>8. DoneBy(t) + 1 = N - n + 1 /\ N - n + 1 \in 1 .. N BY <1>3, <1>4 DEF DoneBy
<1>9. Head(typists[t]) =
          IF program = "hid_device"
          THEN <<IF (N - n + 1) % 2 = 1 THEN "keep" ELSE "queue", Reports[((N - n + 1) + 1) \div 2]>>
          ELSE <<"queue", Reports[N - n + 1]>>
  BY <1>1, <1>5, <1>8, StepsOfThread
<1>10. program = "boot_keyboard" => program # "hid_device" OBVIOUS
<1>11. Len(typists[t]) \in 1 .. N BY <1>3, <1>4
<1>12. /\ Tail(typists[t]) = StillToDo(program, Len(typists[t]) - 1)
       /\ Len(Tail(typists[t])) = Len(typists[t]) - 1
  BY <1>4, <1>5, <1>7
<1>13. DoneBy(t) + 1 \in 1 .. N BY <1>8
<1>14. Head(typists[t]) =
           IF program = "hid_device"
           THEN <<IF (DoneBy(t) + 1) % 2 = 1 THEN "keep" ELSE "queue", Reports[((DoneBy(t) + 1) + 1) \div 2]>>
           ELSE <<"queue", Reports[DoneBy(t) + 1]>>
  BY <1>8, <1>9
<1> QED BY <1>10, <1>11, <1>12, <1>13, <1>14

LEMMA HidInitHolds ==
    ASSUME HidInit(Programs)
    PROVE  HidInv
<1> DEFINE N == Len(TypeString(program))
           Tasks == {StillToDo(program, n) : n \in 0 .. N}
<1>1. program \in Programs /\ pipe = <<>> /\ lastInput = {} /\ writers = {}
  BY DEF HidInit
<1>2. N \in Nat BY <1>1, StepsOfThread, LenProperties
<1>3. keys.down = {} /\ keys.seen = <<>> /\ keys = [down |-> keys.down, seen |-> keys.seen]
  BY DEF HidInit, NoKeys
<1>4. TypeString(program) = StillToDo(program, N) BY <1>1, WholeThread
<1>5. TypeString(program) \in Tasks BY <1>2, <1>4
<1>6. typists = IF program = "hid_device" THEN <<TypeString(program)>> ELSE <<>>
  BY DEF HidInit
<1> HIDE DEF Tasks
<1>7. typists \in Seq(Tasks) BY <1>5, <1>6
<1>8. HidTyped
  <2>1. pipe \in Seq(KeySets) BY <1>1
  <2> QED BY <1>1, <1>3, <1>7, <2>1 DEF HidTyped, Tasks
<1>9. LastKept
  <2>1. CASE program = "hid_device"
    <3>1. Len(typists) = 1 /\ typists[1] = TypeString(program) BY <1>6, <2>1
    <3>2. DoneBy(1) = 0 BY <1>2, <3>1 DEF DoneBy
    <3> QED BY <1>1, <2>1, <3>1, <3>2 DEF LastKept
  <2>2. CASE program # "hid_device" BY <1>1, <2>2 DEF LastKept
  <2> QED BY <2>1, <2>2
<1>10. NewestComesUp BY <1>1, <1>3 DEF NewestComesUp, Newest
<1>11. ByNow = 0
  <2>1. CASE program = "hid_device"
    <3>1. Len(typists) = 1 /\ typists[1] = TypeString(program) /\ typists # <<>> BY <1>6, <2>1
    <3>2. DoneBy(1) = 0 BY <1>2, <3>1 DEF DoneBy
    <3> QED BY <2>1, <3>1, <3>2 DEF ByNow, Queued
  <2>2. CASE program # "hid_device" BY <1>6, <2>2 DEF ByNow
  <2> QED BY <2>1, <2>2
<1>12. HostSees(0, 0, 0) BY <1>1, <1>3, NothingSeen
<1>13. OneTypistSeen BY <1>11, <1>12 DEF OneTypistSeen
<1> QED BY <1>8, <1>9, <1>10, <1>13 DEF HidInv

\* How much a thread has before it, and has queued.
LEMMA ThreadCounts ==
    ASSUME HidTyped
    PROVE  /\ \A t \in DOMAIN typists :
                 /\ Len(typists[t]) \in 0 .. Len(TypeString(program))
                 /\ typists[t] = <<>> <=> Len(typists[t]) = 0
                 /\ DoneBy(t) \in 0 .. Len(TypeString(program))
                 /\ Queued(t) \in 0 .. 2 * Len(Wanted)
                 /\ typists[t] = <<>> => Queued(t) = 2 * Len(Wanted)
           /\ DOMAIN typists = 1 .. Len(typists) /\ Len(typists) \in Nat
           /\ typists # <<>> => Len(typists) \in DOMAIN typists
           /\ ByNow \in 0 .. 2 * Len(Wanted)
<1> DEFINE N == Len(TypeString(program))
           Tasks == {StillToDo(program, n) : n \in 0 .. N}
<1>1. program \in Programs /\ typists \in Seq(Tasks) BY DEF HidTyped
<1>2. N = (IF program = "hid_device" THEN 4 ELSE 2) * Len(Wanted) /\ Len(Wanted) \in Nat
  BY <1>1, StepsOfThread, WantedIsSeq
<1>3. ASSUME NEW t \in DOMAIN typists
      PROVE  /\ Len(typists[t]) \in 0 .. N
             /\ typists[t] = <<>> <=> Len(typists[t]) = 0
             /\ DoneBy(t) \in 0 .. N
             /\ Queued(t) \in 0 .. 2 * Len(Wanted)
             /\ typists[t] = <<>> => Queued(t) = 2 * Len(Wanted)
  <2>1. typists[t] \in Tasks
    <3> HIDE DEF Tasks
    <3> QED BY <1>1, ElementOfSeq, LenProperties
  <2>2. PICK n \in 0 .. N : typists[t] = StillToDo(program, n) BY <2>1
  <2>3. Len(typists[t]) = n /\ (typists[t] = <<>> <=> n = 0) BY <1>1, <2>2, StillToDoSeq
  <2>4. N \in Nat /\ n \in Nat /\ n <= N BY <1>2, <2>2
  <2>5. DoneBy(t) = N - n BY <2>3 DEF DoneBy
  <2>6. CASE program = "hid_device" BY <1>2, <2>3, <2>4, <2>5, <2>6 DEF Queued
  <2>7. CASE program # "hid_device" BY <1>2, <2>3, <2>4, <2>5, <2>7 DEF Queued
  <2> QED BY <2>6, <2>7
<1>4. /\ DOMAIN typists = 1 .. Len(typists) /\ Len(typists) \in Nat
      /\ typists # <<>> => Len(typists) \in DOMAIN typists
  <2> HIDE DEF Tasks
  <2>1. DOMAIN typists = 1 .. Len(typists) /\ Len(typists) \in Nat BY <1>1, LenProperties
  <2>2. typists # <<>> => Len(typists) # 0 BY <1>1, EmptySeq
  <2> QED BY <2>1, <2>2
<1>5. ByNow \in 0 .. 2 * Len(Wanted)
  <2>1. CASE typists = <<>> BY <1>2, <2>1 DEF ByNow
  <2>2. CASE typists # <<>> BY <1>3, <1>4, <2>2 DEF ByNow
  <2> QED BY <2>1, <2>2
<1> QED BY <1>3, <1>4, <1>5

\* What a step of a thread makes of its counts, and what it keeps or queues.
LEMMA StepCounts ==
    ASSUME HidTyped, NEW t \in DOMAIN typists, typists[t] # <<>>, UNCHANGED program,
           typists' = [typists EXCEPT ![t] = Tail(@)]
    PROVE  /\ typists' \in Seq({StillToDo(program, n) : n \in 0 .. Len(TypeString(program))})
           /\ DOMAIN typists' = DOMAIN typists /\ Len(typists') = Len(typists)
           /\ typists' # <<>>
           /\ DoneBy(t)' = DoneBy(t) + 1
           /\ \/ /\ Head(typists[t])[1] = "keep"
                 /\ program = "hid_device"
                 /\ Head(typists[t])[2] = Reports[(DoneBy(t)' + 1) \div 2]
                 /\ Queued(t)' = Queued(t)
                 /\ typists'[t] # <<>>
              \/ /\ Head(typists[t])[1] = "queue"
                 /\ Queued(t)' = Queued(t) + 1
                 /\ Queued(t)' \in 1 .. 2 * Len(Wanted)
                 /\ Head(typists[t])[2] = Reports[Queued(t)']
                 /\ Queued(t)' % 2 = 1 => typists'[t] # <<>>
                 /\ program = "hid_device" => /\ DoneBy(t) # 0
                                             /\ (DoneBy(t)' + 1) \div 2 = (DoneBy(t) + 1) \div 2
<1> DEFINE N == Len(TypeString(program))
           Tasks == {StillToDo(program, n) : n \in 0 .. N}
           left == Len(typists[t])
           d == DoneBy(t)
<1>1. program \in Programs /\ typists \in Seq(Tasks) BY DEF HidTyped
<1>2. N = (IF program = "hid_device" THEN 4 ELSE 2) * Len(Wanted) /\ Len(Wanted) \in Nat
  BY <1>1, StepsOfThread, WantedIsSeq
<1>3. left \in 1 .. N /\ d + 1 \in 1 .. N BY NextStep
<1>4. DOMAIN typists = 1 .. Len(typists) /\ Len(typists) \in Nat BY ThreadCounts
<1>5. Tail(typists[t]) = StillToDo(program, left - 1) /\ Len(Tail(typists[t])) = left - 1 BY NextStep
<1>6. Tail(typists[t]) \in Tasks BY <1>2, <1>3, <1>5
<1>7. /\ typists' \in Seq(Tasks) /\ DOMAIN typists' = DOMAIN typists
      /\ Len(typists') = Len(typists)
  <2> HIDE DEF Tasks
  <2> QED BY <1>1, <1>4, <1>6
<1>8. typists'[t] = Tail(typists[t]) BY <1>4
<1>9. typists' # <<>> BY <1>4, <1>7, EmptySeq
<1>10. d \in Nat /\ d = N - left BY <1>2, <1>3 DEF DoneBy
<1>11. DoneBy(t)' = N - (left - 1)
  BY <1>5, <1>8 DEF DoneBy
<1>12. DoneBy(t)' = d + 1 BY <1>2, <1>3, <1>10, <1>11
<1>13. typists'[t] = <<>> <=> left - 1 = 0
  <2>1. left - 1 \in 0 .. N BY <1>2, <1>3
  <2> QED BY <1>1, <1>5, <1>8, <2>1, StillToDoSeq
<1>14. typists'[t] = <<>> <=> d + 1 = N
  <2> HIDE DEF d, N, left, Tasks
  <2>1. left - 1 = 0 <=> d + 1 = N BY <1>2, <1>3, <1>10
  <2> QED BY <1>13, <2>1
<1>15. Queued(t)' = IF program = "hid_device" THEN (d + 1) \div 2 ELSE d + 1
  BY <1>12 DEF Queued
<1>16. Queued(t) = IF program = "hid_device" THEN d \div 2 ELSE d BY DEF Queued
<1> HIDE DEF d, N, left, Tasks
<1>17. CASE program = "boot_keyboard"
  <2>1. Head(typists[t]) = <<"queue", Reports[d + 1]>> BY <1>17, NextStep DEF d
  <2>2. Queued(t)' = d + 1 /\ Queued(t) = d /\ N = 2 * Len(Wanted) BY <1>2, <1>15, <1>16, <1>17
  <2>3. Queued(t)' \in 1 .. 2 * Len(Wanted) BY <1>2, <1>3, <2>2
  <2>4. Queued(t)' % 2 = 1 => d + 1 # N BY <1>2, <1>10, <2>2
  <2>5. Head(typists[t])[1] = "queue" /\ Head(typists[t])[2] = Reports[Queued(t)'] BY <2>1, <2>2
  <2>6. program # "hid_device" BY <1>17
  <2> QED BY <1>7, <1>9, <1>12, <1>14, <2>2, <2>3, <2>4, <2>5, <2>6 DEF Tasks, N, d
<1>18. CASE program = "hid_device" /\ (d + 1) % 2 = 1
  <2>1. Head(typists[t]) = <<"keep", Reports[((d + 1) + 1) \div 2]>> BY <1>18, NextStep DEF d
  <2>2. Queued(t)' = Queued(t) BY <1>10, <1>15, <1>16, <1>18
  <2>3. d + 1 # N BY <1>2, <1>10, <1>18
  <2>4. /\ Head(typists[t])[1] = "keep"
        /\ Head(typists[t])[2] = Reports[(DoneBy(t)' + 1) \div 2]
    BY <1>12, <2>1
  <2> QED BY <1>7, <1>9, <1>12, <1>14, <1>18, <2>2, <2>3, <2>4 DEF Tasks, N, d
<1>19. CASE program = "hid_device" /\ (d + 1) % 2 # 1
  <2>1. Head(typists[t]) = <<"queue", Reports[((d + 1) + 1) \div 2]>> BY <1>19, NextStep DEF d
  <2>2. /\ ((d + 1) + 1) \div 2 = (d + 1) \div 2
        /\ (d + 1) \div 2 = (d \div 2) + 1
        /\ d # 0
    BY <1>10, <1>19
  <2>3. Queued(t)' = Queued(t) + 1 /\ Queued(t)' = (d + 1) \div 2 BY <1>15, <1>16, <1>19, <2>2
  <2>4. Queued(t)' \in 1 .. 2 * Len(Wanted) BY <1>2, <1>3, <1>10, <1>19, <2>3
  <2>5. Queued(t)' % 2 = 1 => d + 1 # N BY <1>2, <1>10, <1>19, <2>3
  <2>6. Head(typists[t])[1] = "queue" /\ Head(typists[t])[2] = Reports[Queued(t)'] BY <2>1, <2>2, <2>3
  <2>7. DoneBy(t) # 0 /\ (DoneBy(t)' + 1) \div 2 = (DoneBy(t) + 1) \div 2
    BY <1>12, <2>2 DEF d
  <2> QED BY <1>7, <1>9, <1>12, <1>14, <2>3, <2>4, <2>5, <2>6, <2>7 DEF Tasks, N, d
<1>20. program = "boot_keyboard" \/ program = "hid_device" BY <1>1 DEF Programs
<1> QED BY <1>17, <1>18, <1>19, <1>20

\* A new host, or a new configuration: what it sees begins with the next report.
LEMMA ResetKeeps ==
    ASSUME HidInv, Reset
    PROVE  HidInv'
<1> DEFINE N == Len(TypeString(program))
           Tasks == {StillToDo(program, n) : n \in 0 .. N}
<1>1. HidTyped /\ LastKept BY DEF HidInv
<1>2. program \in Programs /\ typists \in Seq(Tasks) BY <1>1 DEF HidTyped
<1>3. /\ pipe' = <<>> /\ keys' = NoKeys /\ writers' = {}
      /\ UNCHANGED <<program, lastInput>>
      /\ program = "hid_device" => typists' = typists
      /\ program = "boot_keyboard" => typists' = Append(typists, TypeString(program))
  BY DEF Reset
<1>4. keys'.down = {} /\ keys'.seen = <<>> /\ keys' = [down |-> keys'.down, seen |-> keys'.seen]
  BY <1>3 DEF NoKeys
<1>5. N \in Nat BY <1>2, StepsOfThread, LenProperties
<1>6. pipe' \in Seq(KeySets) BY <1>3
<1>7. ByNow' \in Nat => HostSees(ByNow, ByNow, ByNow)'
  <2>1. SUFFICES ASSUME ByNow' \in Nat PROVE HostSees(ByNow, ByNow, ByNow)' OBVIOUS
  <2>2. /\ [i \in 1 .. 0 |-> Reports[ByNow' + i]] = <<>>
        /\ [i \in 1 .. 0 |-> Wanted[((ByNow' + 1) \div 2) + i]] = <<>>
    OBVIOUS
  <2>3. ByNow' - ByNow' = 0 /\ ((ByNow' + 1) \div 2) - ((ByNow' + 1) \div 2) = 0
    <3>1. \A n \in Nat : n - n = 0 /\ ((n + 1) \div 2) - ((n + 1) \div 2) = 0 OBVIOUS
    <3> QED BY <2>1, <3>1
  <2> QED BY <1>3, <1>4, <2>2, <2>3 DEF HostSees
<1>8. NewestComesUp' BY <1>3, <1>4 DEF NewestComesUp, Newest
<1>9. CASE program = "hid_device"
  <2>1. typists' = typists BY <1>3, <1>9
  <2>2. HidTyped' BY <1>2, <1>3, <1>4, <1>6, <2>1 DEF HidTyped
  <2>3. ByNow' = ByNow BY <1>3, <2>1 DEF ByNow, Queued, DoneBy
  <2>4. ByNow \in Nat BY <1>1, ThreadCounts, WantedIsSeq
  <2>5. LastKept' BY <1>1, <1>3, <2>1 DEF LastKept, DoneBy
  <2>6. OneTypistSeen'
    <3>1. ByNow' \in 0 .. ByNow' /\ ByNow' \in ByNow' .. ByNow' BY <2>3, <2>4
    <3>2. HostSees(ByNow, ByNow, ByNow)' BY <1>7, <2>3, <2>4
    <3>3. program' # "boot_keyboard" BY <1>3, <1>9
    <3> QED BY <3>1, <3>2, <3>3 DEF OneTypistSeen
  <2> QED BY <1>8, <2>2, <2>5, <2>6 DEF HidInv
<1>10. CASE program = "boot_keyboard"
  <2>1. typists' = Append(typists, TypeString(program)) BY <1>3, <1>10
  <2>2. TypeString(program) = StillToDo(program, N)
    BY <1>2, WholeThread
  <2>3. TypeString(program) \in Tasks BY <1>5, <2>2
  <2>4. /\ typists' \in Seq(Tasks) /\ Len(typists') = Len(typists) + 1
        /\ typists'[Len(typists')] = TypeString(program)
        /\ Len(typists) \in Nat
    <3> HIDE DEF Tasks
    <3> QED BY <1>2, <2>1, <2>3, AppendProperties, LenProperties
  <2>5. typists' # <<>> BY <2>4, EmptySeq
  <2>6. HidTyped' BY <1>2, <1>3, <1>4, <1>6, <2>4 DEF HidTyped
  <2>7. LastKept' BY <1>1, <1>3, <1>10 DEF LastKept
  <2>8. ByNow' = 0
    <3>1. DoneBy(Len(typists))' = 0 BY <1>3, <1>5, <2>4 DEF DoneBy
    <3>2. program' # "hid_device" BY <1>3, <1>10
    <3> QED BY <2>5, <3>1, <3>2 DEF ByNow, Queued
  <2>9. OneTypistSeen'
    <3>1. 0 \in 0 .. ByNow' BY <2>8
    <3>2. HostSees(0, 0, ByNow)' BY <1>7, <2>8
    <3> QED BY <3>1, <3>2 DEF OneTypistSeen
  <2> QED BY <1>8, <2>6, <2>7, <2>9 DEF HidInv
<1> QED BY <1>2, <1>9, <1>10 DEF Programs

\* A step that keeps a report for GET_REPORT, and one that queues it.
LEMMA TypeKeeps ==
    ASSUME HidInv, NEW t \in DOMAIN typists, Type(t)
    PROVE  HidInv'
<1> DEFINE step == Head(typists[t])
           Tasks == {StillToDo(program, n) : n \in 0 .. Len(TypeString(program))}
<1>1. HidTyped /\ LastKept /\ NewestComesUp /\ OneTypistSeen BY DEF HidInv
<1>2. /\ typists[t] # <<>> /\ UNCHANGED <<program, keys>>
      /\ typists' = [typists EXCEPT ![t] = Tail(@)]
      /\ \/ step[1] = "keep" /\ lastInput' = step[2] /\ UNCHANGED <<pipe, writers>>
         \/ /\ step[1] # "keep" /\ pipe' = Append(pipe, step[2]) /\ writers' = writers \cup {t}
            /\ UNCHANGED lastInput
  BY DEF Type
<1>3. /\ program \in Programs /\ typists \in Seq(Tasks) /\ pipe \in Seq(KeySets)
      /\ writers \subseteq DOMAIN typists
      /\ keys = [down |-> keys.down, seen |-> keys.seen]
  BY <1>1 DEF HidTyped
<1>4. /\ typists' \in Seq(Tasks)
      /\ DOMAIN typists' = DOMAIN typists /\ Len(typists') = Len(typists)
      /\ typists' # <<>>
      /\ DoneBy(t)' = DoneBy(t) + 1
  BY <1>1, <1>2, StepCounts
<1>5. typists # <<>> /\ DOMAIN typists = 1 .. Len(typists) /\ Len(typists) \in Nat
  BY <1>1, ThreadCounts, EmptySeq
<1>6. DoneBy(t) \in Nat /\ DoneBy(t)' # 0 BY <1>1, <1>4, ThreadCounts, StepsOfThread, LenProperties
<1>7. program = "hid_device" => t = 1 /\ Len(typists) = 1 BY <1>1, <1>5 DEF LastKept
<1> HIDE DEF Tasks
<1>8. CASE step[1] = "keep"
  <2>1. lastInput' = step[2] /\ UNCHANGED <<pipe, writers, keys, program>> BY <1>2, <1>8
  <2>2. /\ program = "hid_device" /\ step[2] = Reports[(DoneBy(t)' + 1) \div 2]
        /\ Queued(t)' = Queued(t) /\ typists'[t] # <<>>
    BY <1>1, <1>2, <1>8, StepCounts
  <2>3. HidTyped' BY <1>3, <1>4, <2>1 DEF HidTyped, Tasks
  <2>4. LastKept'
    <3>1. t = 1 /\ Len(typists') = 1 BY <1>4, <1>7, <2>2
    <3>2. DoneBy(1)' # 0 /\ lastInput' = Reports[(DoneBy(1)' + 1) \div 2]
      BY <1>6, <2>1, <2>2, <3>1
    <3>3. program' = "hid_device" BY <2>1, <2>2
    <3> QED BY <3>1, <3>2, <3>3 DEF LastKept
  <2>5. NewestComesUp' BY <1>4, <2>2 DEF NewestComesUp
  <2>6. ByNow' = ByNow BY <1>4, <1>5, <1>7, <2>2 DEF ByNow
  <2>7. OneTypistSeen' BY <1>1, <1>4, <2>1, <2>6 DEF OneTypistSeen, HostSees
  <2> QED BY <2>3, <2>4, <2>5, <2>7 DEF HidInv
<1>9. CASE step[1] # "keep"
  <2> DEFINE w == Queued(t) + 1
  <2>1. pipe' = Append(pipe, step[2]) /\ writers' = writers \cup {t}
        /\ UNCHANGED <<lastInput, keys, program>>
    BY <1>2, <1>9
  <2>2. /\ Queued(t)' = w /\ w \in 1 .. 2 * Len(Wanted)
        /\ step[2] = Reports[w] /\ (w % 2 = 1 => typists'[t] # <<>>)
        /\ program = "hid_device" => /\ DoneBy(t) # 0
                                    /\ (DoneBy(t)' + 1) \div 2 = (DoneBy(t) + 1) \div 2
    BY <1>1, <1>2, <1>9, StepCounts
  <2>3. w \in Nat /\ Queued(t) \in Nat BY <1>1, <2>2, ThreadCounts, WantedIsSeq
  <2> HIDE DEF w
  <2>4. Reports[w] \in KeySets
    <3>1. w \in 1 .. Len(Reports) BY <2>2, ReportsIsSeq
    <3> QED BY <3>1, ReportsIsSeq, ElementOfSeq
  <2>5. /\ pipe' \in Seq(KeySets) /\ Len(pipe') = Len(pipe) + 1 /\ pipe'[Len(pipe')] = Reports[w]
        /\ pipe' # <<>> /\ Len(pipe) \in Nat
    <3>1. pipe' = Append(pipe, Reports[w]) BY <2>1, <2>2
    <3> QED BY <1>3, <2>4, <3>1, AppendProperties, LenProperties
  <2>6. HidTyped' BY <1>3, <1>4, <2>1, <2>5 DEF HidTyped, Tasks
  <2>7. LastKept'
    <3>1. CASE program = "hid_device"
      <4>1. t = 1 /\ Len(typists') = 1 BY <1>4, <1>7, <3>1
      <4>2. lastInput = Reports[(DoneBy(1) + 1) \div 2] BY <1>1, <2>2, <3>1, <4>1 DEF LastKept
      <4>3. lastInput' = Reports[(DoneBy(1)' + 1) \div 2] /\ DoneBy(1)' # 0
        BY <1>6, <2>1, <2>2, <3>1, <4>1, <4>2
      <4> QED BY <2>1, <3>1, <4>1, <4>3 DEF LastKept
    <3>2. CASE program # "hid_device" BY <1>1, <2>1, <3>2 DEF LastKept
    <3> QED BY <3>1, <3>2
  <2>8. NewestComesUp'
    <3>1. Newest' = Reports[w] BY <2>5 DEF Newest
    <3>2. Reports[w] # {} => w % 2 = 1 BY <2>2, ReportsIsSeq
    <3> QED BY <1>4, <2>2, <3>1, <3>2 DEF NewestComesUp
  <2>9. OneTypistSeen'
    <3>1. SUFFICES ASSUME writers' \subseteq {Len(typists')}
                   PROVE  \E from \in 0 .. ByNow' : \E to \in from .. ByNow' :
                             /\ program' = "boot_keyboard" => from = 0
                             /\ HostSees(from, to, ByNow)'
      BY DEF OneTypistSeen
    <3>2. t = Len(typists) /\ writers \subseteq {Len(typists)} BY <1>4, <2>1, <3>1
    <3>3. ByNow' = w BY <1>4, <2>2, <3>2 DEF ByNow
    <3>4. ByNow = Queued(t) BY <1>5, <3>2 DEF ByNow
    <3>5. PICK from \in 0 .. ByNow : \E to \in from .. ByNow :
             /\ program = "boot_keyboard" => from = 0
             /\ HostSees(from, to, ByNow)
      BY <1>1, <3>2 DEF OneTypistSeen
    <3>6. PICK to \in from .. ByNow :
             /\ program = "boot_keyboard" => from = 0
             /\ HostSees(from, to, ByNow)
      BY <3>5
    <3>7. from \in Nat /\ to \in Nat /\ from <= to /\ to < w /\ ByNow = w - 1
      BY <2>3, <3>4, <3>6 DEF w
    <3>8. pipe' = [i \in 1 .. w - to |-> Reports[to + i]]
      <4>1. pipe = [i \in 1 .. (w - 1) - to |-> Reports[to + i]] BY <3>6, <3>7 DEF HostSees
      <4>2. Len(pipe) = (w - 1) - to BY <1>3, <2>3, <3>7, <4>1, LenProperties
      <4>3. pipe' = [i \in 1 .. Len(pipe) + 1 |-> IF i = Len(pipe) + 1 THEN Reports[w] ELSE pipe[i]]
        BY <1>3, <2>1, <2>2, <2>4, AppendAsFunction
      <4>4. \A i \in 1 .. w - to : (IF i = Len(pipe) + 1 THEN Reports[w] ELSE pipe[i]) = Reports[to + i]
        <5>1. TAKE i \in 1 .. w - to
        <5>2. CASE i = Len(pipe) + 1
          <6>1. to + i = w BY <2>3, <3>7, <4>2, <5>2
          <6> QED BY <5>2, <6>1
        <5>3. CASE i # Len(pipe) + 1
          <6>1. i \in 1 .. (w - 1) - to BY <2>3, <3>7, <4>2, <5>3
          <6> QED BY <4>1, <5>3, <6>1
        <5> QED BY <5>2, <5>3
      <4>5. Len(pipe) + 1 = w - to BY <2>3, <3>7, <4>2
      <4> QED BY <4>3, <4>4, <4>5
    <3>9. HostSees(from, to, ByNow)' BY <2>1, <3>3, <3>6, <3>8 DEF HostSees
    <3>10. from \in 0 .. ByNow' /\ to \in from .. ByNow' BY <2>3, <3>3, <3>7
    <3> QED BY <2>1, <3>6, <3>9, <3>10
  <2> QED BY <2>6, <2>7, <2>8, <2>9 DEF HidInv
<1> QED BY <1>8, <1>9

\* A report that is read leaves the pipe for the host.
LEMMA ReadKeeps ==
    ASSUME HidInv, ReadReport
    PROVE  HidInv'
<1>1. HidTyped /\ LastKept /\ NewestComesUp /\ OneTypistSeen BY DEF HidInv
<1>2. /\ pipe # <<>> /\ pipe' = Tail(pipe) /\ UNCHANGED <<program, lastInput, typists, writers>>
      /\ keys' = [down |-> Head(pipe), seen |-> keys.seen \o SetToSeq(Head(pipe) \ keys.down)]
  BY DEF ReadReport
<1>3. /\ keys'.down = Head(pipe) /\ keys'.seen = keys.seen \o SetToSeq(Head(pipe) \ keys.down)
      /\ keys' = [down |-> keys'.down, seen |-> keys'.seen]
  BY <1>2
<1>4. pipe \in Seq(KeySets) BY <1>1 DEF HidTyped
<1>5. /\ pipe' \in Seq(KeySets) /\ Len(pipe') = Len(pipe) - 1
      /\ Head(pipe) = pipe[1] /\ Len(pipe) \in Nat \ {0}
      /\ \A i \in 1 .. Len(pipe') : pipe'[i] = pipe[i + 1]
  <2>1. Tail(pipe) \in Seq(KeySets) /\ Len(Tail(pipe)) = Len(pipe) - 1
        /\ \A i \in 1 .. Len(Tail(pipe)) : Tail(pipe)[i] = pipe[i + 1]
    BY <1>2, <1>4, HeadTailProperties
  <2>2. Head(pipe) = pipe[1] BY <1>2, <1>4
  <2>3. Len(pipe) \in Nat \ {0} BY <1>2, <1>4, LenProperties, EmptySeq
  <2> QED BY <1>2, <2>1, <2>2, <2>3
<1>6. HidTyped' BY <1>1, <1>2, <1>3, <1>5 DEF HidTyped
<1>7. LastKept' BY <1>1, <1>2 DEF LastKept, DoneBy
<1>8. NewestComesUp'
  <2>1. Newest' = Newest
    <3>1. CASE pipe' = <<>>
      <4>1. Len(pipe) = 1 BY <1>5, <3>1, EmptySeq
      <4> QED BY <1>2, <1>3, <1>5, <3>1, <4>1 DEF Newest
    <3>2. CASE pipe' # <<>>
      <4>1. Len(pipe') \in Nat \ {0} BY <1>5, <3>2, LenProperties, EmptySeq
      <4>2. Len(pipe') \in 1 .. Len(pipe') /\ Len(pipe') + 1 = Len(pipe) BY <1>5, <4>1
      <4>3. pipe'[Len(pipe')] = pipe[Len(pipe)] BY <1>5, <4>2
      <4> QED BY <1>2, <3>2, <4>3 DEF Newest
    <3> QED BY <3>1, <3>2
  <2> QED BY <1>1, <1>2, <2>1 DEF NewestComesUp
<1>9. OneTypistSeen'
  <2>1. ByNow' = ByNow BY <1>2 DEF ByNow, Queued, DoneBy
  <2>2. SUFFICES ASSUME writers \subseteq {Len(typists)}
                 PROVE  \E from \in 0 .. ByNow : \E to \in from .. ByNow :
                           /\ program = "boot_keyboard" => from = 0
                           /\ HostSees(from, to, ByNow)'
    BY <1>2, <2>1 DEF OneTypistSeen
  <2>3. PICK from \in 0 .. ByNow : \E to \in from .. ByNow :
           /\ program = "boot_keyboard" => from = 0
           /\ HostSees(from, to, ByNow)
    BY <1>1, <2>2 DEF OneTypistSeen
  <2>4. PICK to \in from .. ByNow :
           /\ program = "boot_keyboard" => from = 0
           /\ HostSees(from, to, ByNow)
    BY <2>3
  <2>5. ByNow \in 0 .. 2 * Len(Wanted) /\ Len(Wanted) \in Nat BY <1>1, ThreadCounts, WantedIsSeq
  <2>6. from \in Nat /\ to \in Nat /\ from <= to /\ to <= ByNow /\ ByNow \in Nat BY <2>5
  <2>7. pipe = [i \in 1 .. ByNow - to |-> Reports[to + i]] BY <2>4 DEF HostSees
  <2>8. Len(pipe) = ByNow - to BY <1>4, <2>6, <2>7, LenProperties
  <2>9. to + 1 \in from .. ByNow /\ to + 1 \in 1 .. 2 * Len(Wanted) BY <1>5, <2>5, <2>6, <2>8
  <2>10. Head(pipe) = Reports[to + 1]
    <3>1. 1 \in 1 .. ByNow - to BY <2>6, <2>9
    <3> QED BY <1>5, <2>7, <3>1
  <2>11. pipe' = [i \in 1 .. ByNow - (to + 1) |-> Reports[(to + 1) + i]]
    <3>1. Tail(pipe) = [k \in 1 .. Len(pipe) - 1 |-> pipe[k + 1]] BY <1>2, <1>4, TailAsFunction
    <3>2. Len(pipe) - 1 = ByNow - (to + 1) BY <2>6, <2>8
    <3>3. \A k \in 1 .. Len(pipe) - 1 : pipe[k + 1] = Reports[(to + 1) + k]
      <4>1. TAKE k \in 1 .. Len(pipe) - 1
      <4>2. k + 1 \in 1 .. ByNow - to /\ to + (k + 1) = (to + 1) + k BY <2>6, <2>8
      <4> QED BY <2>7, <4>2
    <3> QED BY <1>2, <3>1, <3>2, <3>3
  <2>12. keys.down = IF to = from THEN {} ELSE Reports[to] BY <2>4 DEF HostSees
  <2>13. keys.down = {} \/ (to + 1) % 2 = 0
    <3>1. CASE to = from BY <2>12, <3>1
    <3>2. CASE to # from /\ to % 2 = 0
      <4>1. to \in 1 .. 2 * Len(Wanted) /\ to % 2 # 1 BY <2>5, <2>6, <3>2
      <4>2. Reports[to] = {} BY <4>1, ReportsIsSeq
      <4> QED BY <2>12, <3>2, <4>2
    <3>3. CASE to # from /\ to % 2 # 0 BY <2>6, <3>3
    <3> QED BY <3>1, <3>2, <3>3
  <2>14. keys'.seen = [i \in 1 .. (((to + 1) + 1) \div 2) - ((from + 1) \div 2) |->
                          Wanted[((from + 1) \div 2) + i]]
    <3> DEFINE a == (from + 1) \div 2
               n == ((to + 1) \div 2) - a
    <3>1. a \in Nat /\ n \in Nat BY <2>6
    <3>2. keys.seen = [i \in 1 .. n |-> Wanted[a + i]] BY <2>4 DEF HostSees
    <3>3. a + n <= Len(Wanted) BY <2>5, <2>6
    <3>4. \A i \in 1 .. n : Wanted[a + i] \in Letters
      <4>1. TAKE i \in 1 .. n
      <4>2. a + i \in 1 .. Len(Wanted) BY <2>5, <3>1, <3>3
      <4> QED BY <4>2, WantedIsSeq, ElementOfSeq
    <3> HIDE DEF a, n
    <3>5. keys.seen \in [1 .. n -> Letters] BY <3>2, <3>4
    <3>6. keys.seen \in Seq(Letters) /\ Len(keys.seen) = n BY <3>1, <3>5
    <3>7. CASE (to + 1) % 2 = 0
      <4>1. Reports[to + 1] = {} BY <2>9, <3>7, ReportsIsSeq
      <4>2. SetToSeq(Head(pipe) \ keys.down) = <<>> BY <2>10, <4>1, KeysInOrder
      <4>3. keys'.seen = keys.seen BY <1>3, <3>6, <4>2, ConcatEmptySeq
      <4>4. ((to + 1) + 1) \div 2 = (to + 1) \div 2 BY <2>6, <3>7
      <4> QED BY <3>2, <4>3, <4>4 DEF a, n
    <3>8. CASE (to + 1) % 2 # 0
      <4> DEFINE c == Wanted[((to + 1) + 1) \div 2]
      <4>1. (to + 1) % 2 = 1 BY <2>6, <3>8
      <4>2. Reports[to + 1] = {c} BY <2>9, <4>1, ReportsIsSeq
      <4>3. keys.down = {} BY <2>13, <3>8
      <4>4. SetToSeq(Head(pipe) \ keys.down) = <<c>>
        <5>1. Head(pipe) \ keys.down = {c} BY <2>10, <4>2, <4>3
        <5> QED BY <5>1, KeysInOrder
      <4>5. ((to + 1) + 1) \div 2 = ((to + 1) \div 2) + 1 BY <2>6, <4>1
      <4>6. a + (n + 1) = ((to + 1) + 1) \div 2 BY <2>6, <3>1, <4>5 DEF n
      <4>7. c \in Letters
        <5>1. ((to + 1) + 1) \div 2 \in 1 .. Len(Wanted) BY <2>5, <2>6, <2>9, <4>1
        <5> QED BY <5>1, WantedIsSeq, ElementOfSeq
      <4> HIDE DEF c
      <4>8. keys'.seen = Append(keys.seen, c) BY <1>3, <3>6, <4>4, <4>7, AppendIsConcat
      <4>9. Append(keys.seen, c) = [i \in 1 .. n + 1 |-> IF i = n + 1 THEN c ELSE keys.seen[i]]
        BY <3>6, <4>7, AppendAsFunction
      <4>10. \A i \in 1 .. n + 1 : (IF i = n + 1 THEN c ELSE keys.seen[i]) = Wanted[a + i]
        <5>1. TAKE i \in 1 .. n + 1
        <5>2. CASE i = n + 1 BY <4>6, <5>2 DEF c
        <5>3. CASE i # n + 1
          <6>1. i \in 1 .. n BY <3>1, <5>3
          <6> QED BY <3>2, <5>3, <6>1
        <5> QED BY <5>2, <5>3
      <4>11. keys'.seen = [i \in 1 .. n + 1 |-> Wanted[a + i]] BY <4>8, <4>9, <4>10
      <4>12. n + 1 = (((to + 1) + 1) \div 2) - a BY <2>6, <3>1, <4>6
      <4> QED BY <4>11, <4>12 DEF a
    <3> QED BY <3>7, <3>8
  <2>15. HostSees(from, to + 1, ByNow)'
    <3>1. to + 1 # from BY <2>6
    <3>2. keys'.down = Reports[to + 1] BY <1>3, <2>10
    <3> QED BY <2>1, <2>11, <2>14, <3>1, <3>2 DEF HostSees
  <2> QED BY <2>4, <2>9, <2>15
<1> QED BY <1>6, <1>7, <1>8, <1>9 DEF HidInv

\* What the invariant says of a host that sees one typist only.
LEMMA HidInvImplies ==
    ASSUME HidInv
    PROVE  TypedTextArrives
<1> DEFINE quiet == pipe = <<>> /\ \A t \in DOMAIN typists : typists[t] = <<>>
<1>1. HidTyped /\ LastKept /\ NewestComesUp /\ OneTypistSeen BY DEF HidInv
<1>2. program \in Programs /\ pipe \in Seq(KeySets) /\ writers \subseteq DOMAIN typists
  BY <1>1 DEF HidTyped
<1>3. Len(Wanted) \in Nat /\ Wanted \in Seq(Letters) BY WantedIsSeq
<1>4. ByNow \in 0 .. 2 * Len(Wanted) BY <1>1, ThreadCounts
<1>5. quiet /\ typists # <<>> => ByNow = 2 * Len(Wanted) BY <1>1, ThreadCounts DEF ByNow
<1>6. ASSUME NEW from \in 0 .. ByNow, NEW to \in from .. ByNow, HostSees(from, to, ByNow)
      PROVE  /\ (from + 1) \div 2 <= Len(Wanted) /\ (from + 1) \div 2 \in Nat
             /\ keys.seen \in Seq(Letters)
             /\ Len(keys.seen) = ((to + 1) \div 2) - ((from + 1) \div 2)
             /\ (from + 1) \div 2 + Len(keys.seen) <= Len(Wanted)
             /\ \A i \in 1 .. Len(keys.seen) : keys.seen[i] = Wanted[((from + 1) \div 2) + i]
             /\ pipe = <<>> => to = ByNow
  <2> DEFINE a == (from + 1) \div 2
             n == ((to + 1) \div 2) - a
  <2>1. /\ from \in Nat /\ to \in Nat /\ from <= to /\ to <= ByNow /\ ByNow \in Nat
        /\ ByNow <= 2 * Len(Wanted)
    BY <1>3, <1>4
  <2>2. a \in Nat /\ n \in Nat /\ a + n <= Len(Wanted) BY <1>3, <2>1
  <2>3. keys.seen = [i \in 1 .. n |-> Wanted[a + i]] BY <1>6 DEF HostSees
  <2>4. \A i \in 1 .. n : Wanted[a + i] \in Letters
    <3>1. TAKE i \in 1 .. n
    <3>2. a + i \in 1 .. Len(Wanted) BY <1>3, <2>2
    <3> QED BY <1>3, <3>2, ElementOfSeq
  <2>5. pipe = <<>> => to = ByNow
    <3>1. pipe = [i \in 1 .. ByNow - to |-> Reports[to + i]] BY <1>6 DEF HostSees
    <3>2. Len(pipe) = ByNow - to BY <1>2, <2>1, <3>1, LenProperties
    <3> QED BY <2>1, <3>2
  <2> HIDE DEF a, n
  <2>6. keys.seen \in [1 .. n -> Letters] BY <2>3, <2>4
  <2>7. keys.seen \in Seq(Letters) /\ Len(keys.seen) = n BY <2>2, <2>6
  <2>8. \A i \in 1 .. Len(keys.seen) : keys.seen[i] = Wanted[a + i] BY <2>3, <2>7
  <2>9. a <= Len(Wanted) BY <1>3, <2>2
  <2> QED BY <2>2, <2>5, <2>7, <2>8, <2>9 DEF a, n
<1>7. program = "hid_device" => /\ typists # <<>> /\ Len(typists) = 1
                                /\ writers \subseteq {Len(typists)}
  <2>1. SUFFICES ASSUME program = "hid_device"
                 PROVE  typists # <<>> /\ Len(typists) = 1 /\ writers \subseteq {Len(typists)}
    OBVIOUS
  <2>2. Len(typists) = 1 BY <1>1, <2>1 DEF LastKept
  <2>3. DOMAIN typists = 1 .. 1 BY <1>1, <2>2, ThreadCounts
  <2>4. typists # <<>> BY <2>2, EmptySeq
  <2> QED BY <1>2, <2>2, <2>3, <2>4
<1>8. quiet => keys.down = {} BY <1>1 DEF NewestComesUp, Newest
<1>9. quiet => lastInput = {}
  <2>1. SUFFICES ASSUME quiet PROVE lastInput = {} OBVIOUS
  <2>2. CASE program = "hid_device"
    <3>1. 1 \in DOMAIN typists BY <1>1, <1>7, <2>2, ThreadCounts
    <3>2. Len(typists[1]) = 0 BY <1>1, <2>1, <3>1, ThreadCounts
    <3>3. Len(TypeString(program)) = 4 * Len(Wanted) BY <1>2, <2>2, StepsOfThread
    <3>4. DoneBy(1) = 4 * Len(Wanted) BY <1>3, <3>2, <3>3 DEF DoneBy
    <3>5. CASE Len(Wanted) = 0
      <4>1. DoneBy(1) = 0 BY <3>4, <3>5
      <4> QED BY <1>1, <2>2, <4>1 DEF LastKept
    <3>6. CASE Len(Wanted) # 0
      <4>1. DoneBy(1) # 0 /\ (DoneBy(1) + 1) \div 2 = 2 * Len(Wanted) BY <1>3, <3>4, <3>6
      <4>2. 2 * Len(Wanted) \in 1 .. 2 * Len(Wanted) /\ (2 * Len(Wanted)) % 2 # 1 BY <1>3, <3>6
      <4>3. Reports[2 * Len(Wanted)] = {} BY <4>2, ReportsIsSeq
      <4> QED BY <1>1, <2>2, <4>1, <4>3 DEF LastKept
    <3> QED BY <3>5, <3>6
  <2>3. CASE program # "hid_device" BY <1>1, <2>3 DEF LastKept
  <2> QED BY <2>2, <2>3
<1>10. ASSUME program = "boot_keyboard", writers \subseteq {Len(typists)}
       PROVE  /\ IsPrefix(keys.seen, Wanted)
              /\ quiet /\ writers # {} => keys.seen = Wanted
  <2>1. PICK from \in 0 .. ByNow : \E to \in from .. ByNow : from = 0 /\ HostSees(from, to, ByNow)
    BY <1>1, <1>10 DEF OneTypistSeen
  <2>2. PICK to \in from .. ByNow : from = 0 /\ HostSees(from, to, ByNow) BY <2>1
  <2>3. (from + 1) \div 2 = 0 BY <2>2
  <2>4. /\ keys.seen \in Seq(Letters) /\ Len(keys.seen) <= Len(Wanted) /\ Len(keys.seen) \in Nat
        /\ Len(keys.seen) = (to + 1) \div 2
        /\ \A i \in 1 .. Len(keys.seen) : keys.seen[i] = Wanted[i]
    <3>1. keys.seen \in Seq(Letters) /\ Len(keys.seen) = ((to + 1) \div 2) - 0
          /\ 0 + Len(keys.seen) <= Len(Wanted)
          /\ \A i \in 1 .. Len(keys.seen) : keys.seen[i] = Wanted[0 + i]
      BY <1>6, <2>2, <2>3
    <3>2. Len(keys.seen) \in Nat BY <3>1, LenProperties
    <3>3. to \in Nat BY <1>3, <1>4
    <3>4. \A i \in 1 .. Len(keys.seen) : 0 + i = i BY <3>2
    <3> QED BY <3>1, <3>2, <3>3, <3>4
  <2>5. IsPrefix(keys.seen, Wanted) BY <1>3, <2>4, PrefixByElements
  <2>6. ASSUME quiet, writers # {}
        PROVE  keys.seen = Wanted
    <3>1. typists # <<>>
      <4>1. DOMAIN typists # {} BY <1>2, <2>6
      <4> QED BY <1>1, <4>1, ThreadCounts, EmptySeq
    <3>2. to = 2 * Len(Wanted) BY <1>5, <1>6, <2>2, <2>6, <3>1
    <3>3. Len(keys.seen) = Len(Wanted) BY <1>3, <2>4, <3>2
    <3> QED BY <1>3, <2>4, <3>3, SeqEqual
  <2> QED BY <2>5, <2>6
<1>11. ASSUME program = "hid_device"
       PROVE  /\ \E from \in 1 .. Len(Wanted) + 1 :
                    IsPrefix(keys.seen, SubSeq(Wanted, from, Len(Wanted)))
              /\ quiet => IsSuffix(keys.seen, Wanted)
  <2>1. PICK from \in 0 .. ByNow : \E to \in from .. ByNow : HostSees(from, to, ByNow)
    BY <1>1, <1>7, <1>11 DEF OneTypistSeen
  <2>2. PICK to \in from .. ByNow : HostSees(from, to, ByNow) BY <2>1
  <2> DEFINE a == (from + 1) \div 2
  <2>3. /\ a <= Len(Wanted) /\ a \in Nat /\ keys.seen \in Seq(Letters)
        /\ Len(keys.seen) = ((to + 1) \div 2) - a
        /\ a + Len(keys.seen) <= Len(Wanted)
        /\ \A i \in 1 .. Len(keys.seen) : keys.seen[i] = Wanted[a + i]
        /\ pipe = <<>> => to = ByNow
    BY <1>6, <2>2
  <2> HIDE DEF a
  <2>4. Len(keys.seen) \in Nat BY <2>3, LenProperties
  <2>5. a + 1 \in 1 .. Len(Wanted) + 1 BY <1>3, <2>3
  <2>6. IsPrefix(keys.seen, SubSeq(Wanted, a + 1, Len(Wanted))) BY <1>3, <2>3, PartIsPrefix
  <2>7. ASSUME quiet
        PROVE  IsSuffix(keys.seen, Wanted)
    <3>1. to = 2 * Len(Wanted) BY <1>5, <1>7, <1>11, <2>3, <2>7
    <3>2. a + Len(keys.seen) = Len(Wanted) BY <1>3, <2>3, <3>1
    <3> QED BY <1>3, <2>3, <3>2, PartIsSuffix
  <2> QED BY <2>5, <2>6, <2>7
<1> QED BY <1>8, <1>9, <1>10, <1>11 DEF TypedTextArrives

\* In whatever order threads of several resets type, no key stays down in the
\* end; and a host to which one thread typed sees its text, from where the host
\* came on.
THEOREM TypedTextIsSeen == HidSpec => []TypedTextArrives
<1>1. HidInit(Programs) => HidInv BY HidInitHolds
<1>2. HidInv /\ [HidNext]_hidVars => HidInv'
  <2>1. SUFFICES ASSUME HidInv, [HidNext]_hidVars PROVE HidInv' OBVIOUS
  <2>2. CASE Reset BY <2>1, <2>2, ResetKeeps
  <2>3. ASSUME NEW t \in DOMAIN typists, Type(t) PROVE HidInv' BY <2>1, <2>3, TypeKeeps
  <2>4. CASE ReadReport BY <2>1, <2>4, ReadKeeps
  <2>5. CASE UNCHANGED hidVars
    <3>1. UNCHANGED <<program, lastInput, typists, pipe, keys, writers>> BY <2>5 DEF hidVars
    <3>2. HidTyped /\ LastKept /\ NewestComesUp /\ OneTypistSeen BY <2>1 DEF HidInv
    <3>3. HidTyped' BY <3>1, <3>2 DEF HidTyped
    <3>4. LastKept' BY <3>1, <3>2 DEF LastKept, DoneBy
    <3>5. NewestComesUp' BY <3>1, <3>2 DEF NewestComesUp, Newest
    <3>6. ByNow' = ByNow BY <3>1 DEF ByNow, Queued, DoneBy
    <3>7. OneTypistSeen' BY <3>1, <3>2, <3>6 DEF OneTypistSeen, HostSees
    <3> QED BY <3>3, <3>4, <3>5, <3>7 DEF HidInv
  <2> QED BY <2>1, <2>2, <2>3, <2>4, <2>5 DEF HidNext
<1>3. HidInv => TypedTextArrives BY HidInvImplies
<1> QED BY <1>1, <1>2, <1>3, PTL DEF HidSpec
=============================================================================
