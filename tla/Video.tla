------------------------------- MODULE Video --------------------------------
(***************************************************************************)
(* The camera (usbip/classes/device/uvc.py, VideoStreaming): frames cut    *)
(* into isochronous packets with a two-byte header, the negotiation and    *)
(* the alternate setting that start and stop the stream; and a host that   *)
(* puts the frames together again by the frame bit and the end bit.  It    *)
(* may ask for packets of any size, stop and start again, negotiate while  *)
(* it streams, or leave its place to another, for whom nothing is reset.   *)
(*                                                                         *)
(* Abstracted: a byte of a frame is the frame's number in its stream, its  *)
(* format and the byte's place; packets of one transfer go one by one,     *)
(* since nothing of on_iso but the loop's own state joins them.            *)
(***************************************************************************)
EXTENDS Integers, Sequences

CONSTANTS
    FrameSizes, \* bytes of a frame in each format, indexed from 1
    Caps,       \* the packet sizes that hosts ask for
    MaxFrames   \* bound: frames in one stream

ASSUME VideoAssumption ==
    /\ FrameSizes \in Seq(Nat \ {0}) /\ FrameSizes # <<>>
    /\ Caps \subseteq Nat

HeaderSize == 2 \* bytes of the payload header

VARIABLES
    camera, \* the interface: format, streaming, frame in hand, place, frame
            \* bit and frame number
    viewer  \* the host: whether it streams, whether it came to a stream that
            \* was on, the frame it puts together, the frame bit of the last
            \* packet, the frames it has and the number of the first

videoVars == <<camera, viewer>>

-----------------------------------------------------------------------------
(* The camera.                                                             *)

Frame(format, index) == [p \in 1 .. FrameSizes[format] |-> <<index, format, p>>]

\* _produce: the next frame, in the format of this moment.
Produce(c) == [c EXCEPT !.frame = Frame(c.format, c.index), !.pos = 0]

Ready(c) == IF c.frame = <<>> \/ c.pos >= Len(c.frame) THEN Produce(c) ELSE c

ChunkLen(c, cap) == IF Len(c.frame) - c.pos < cap - HeaderSize THEN Len(c.frame) - c.pos ELSE cap - HeaderSize

\* Mutant: the frame bit flips with the first packet of a frame.
FlipAtStart(c, n) ==
    LET e == [c EXCEPT !.pos = @ + n, !.fid = IF c.pos = 0 THEN 1 - @ ELSE @]
    IN  IF c.pos + n >= Len(c.frame) THEN [e EXCEPT !.frame = <<>>, !.index = @ + 1] ELSE e

\* What a packet of n bytes leaves; the last of a frame flips the bit.
Advance(c, n) ==
    IF c.pos + n >= Len(c.frame)
    THEN [c EXCEPT !.pos = @ + n, !.frame = <<>>, !.fid = 1 - @, !.index = @ + 1]
    ELSE [c EXCEPT !.pos = @ + n]

\* One packet of on_iso: what is sent, and the camera after it.  A packet too
\* small for the header is empty.
Packet(cam, cap) ==
    LET c == Ready(cam)
        n == ChunkLen(c, cap)
    IN  IF cap < HeaderSize THEN [sent |-> <<>>, camera |-> cam]
        ELSE [sent   |-> <<[fid |-> c.fid, eof |-> c.pos + n >= Len(c.frame),
                            data |-> SubSeq(c.frame, c.pos + 1, c.pos + n)]>>,
              camera |-> Advance(c, n)]

-----------------------------------------------------------------------------
(* The host: a change of the frame bit drops what was not ended, the end   *)
(* bit completes a frame.  One that comes to a running stream drops the     *)
(* frame that it finds.                                                     *)

Assemble(v, p, index) ==
    LET part == (IF v.fid \in {p.fid, -1} THEN v.part ELSE <<>>) \o p.data
    IN  CASE ~p.eof              -> [v EXCEPT !.part = part, !.fid = p.fid]
          [] p.eof /\ v.joined   -> [v EXCEPT !.part = <<>>, !.fid = p.fid, !.joined = FALSE,
                                             !.first = index + 1]
          [] OTHER               -> [v EXCEPT !.part = <<>>, !.fid = p.fid, !.frames = Append(@, part)]

Stream(on, joined) ==
    [on |-> on, joined |-> joined, part |-> <<>>, fid |-> -1, frames |-> <<>>, first |-> 0]

NoStream == Stream(FALSE, FALSE)

VideoInit ==
    /\ camera = [format |-> 1, streaming |-> FALSE, frame |-> <<>>, pos |-> 0, fid |-> 0, index |-> 0]
    /\ viewer = NoStream

\* SET_CUR on PROBE or COMMIT: either changes the format at once.
SetCur(format) ==
    /\ camera' = [camera EXCEPT !.format = format]
    /\ UNCHANGED viewer

\* SET_INTERFACE: alternate 1 starts a stream and alternate 0 stops it, unless
\* it is so already.
VideoAlt(alt) ==
    /\ camera' = IF alt = 0 THEN [camera EXCEPT !.streaming = FALSE]
                 ELSE IF camera.streaming THEN camera
                 ELSE [camera EXCEPT !.streaming = TRUE, !.frame = <<>>, !.pos = 0, !.fid = 0, !.index = 0]
    /\ viewer' = IF alt = 0 THEN NoStream
                 ELSE IF viewer.on THEN viewer
                 ELSE Stream(TRUE, camera.streaming)

\* A host takes another's place: there is no reset hook, and a stream that was
\* on stays on.
NewHost == viewer' = NoStream /\ UNCHANGED camera

\* One isochronous packet.
OnIso(cap) ==
    /\ viewer.on /\ camera.index < MaxFrames
    /\ IF ~camera.streaming THEN UNCHANGED videoVars
       ELSE LET p == Packet(camera, cap)
            IN  /\ camera' = p.camera
                /\ viewer' = IF p.sent = <<>> THEN viewer ELSE Assemble(viewer, p.sent[1], camera.index)

VideoNext ==
    \/ \E format \in DOMAIN FrameSizes : SetCur(format)
    \/ \E alt \in {0, 1} : VideoAlt(alt)
    \/ NewHost
    \/ \E cap \in Caps : OnIso(cap)

VideoSpec == VideoInit /\ [][VideoNext]_videoVars

-----------------------------------------------------------------------------
(* Properties.                                                             *)

\* The host has every frame of the stream, in order and from the first, or the
\* first that began after it came; each is whole and of one format, however
\* packets cut them, across stops and starts of the stream, changes of format
\* and hosts that leave it on.
FramesWhole ==
    \A k \in DOMAIN viewer.frames :
        \E format \in DOMAIN FrameSizes : viewer.frames[k] = Frame(format, viewer.first + k - 1)
=============================================================================
