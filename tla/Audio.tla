------------------------------- MODULE Audio --------------------------------
(***************************************************************************)
(* The sound device (usbip/classes/device/uac.py): a speaker and a         *)
(* microphone, each a stream that an alternate setting turns on and off,   *)
(* and the control interface with a mute for each; and the file that the   *)
(* example's microphone loops over (examples/audio_device.py,              *)
(* make_mic_source).  The host may ask for any number of samples, mute     *)
(* and unmute, and stop and start a stream at any time.                    *)
(*                                                                         *)
(* Abstracted: a sample is its place in the tone or in the file; packets   *)
(* of one transfer go one by one; the volume is only stored.               *)
(***************************************************************************)
EXTENDS Integers, Sequences

CONSTANTS
    FileLen,    \* samples in the file that the microphone loops over
    Asks,       \* the packet sizes that hosts ask for, in bytes
    MaxSamples  \* bound: samples in one stream

ASSUME AudioAssumption == FileLen \in Nat /\ Asks \subseteq Nat

SampleBytes == 2
Silence == -1

VARIABLES
    source,  \* what the application gave the microphone: "tone" or "file"
    filePos, \* where the file is read
    mute,    \* the two mutes
    mic,     \* streaming, and the running count of samples
    spk,     \* streaming, the bytes since it was turned on, and the bytes that
             \* went to the application's sink
    heard    \* history: what the host heard since it turned the stream on

audioVars == <<source, filePos, mute, mic, spk, heard>>

-----------------------------------------------------------------------------
(* The microphone's sources: from a place, so many samples.                *)

Tone(n, from) == [k \in 1 .. n |-> from + k - 1]

FromFile(n, from) == [k \in 1 .. (IF FileLen - from < n THEN FileLen - from ELSE n) |-> from + k - 1]

\* Mutant: what the end of the file cuts is not topped up, but skipped.
SkipAtEnd(n, from) ==
    LET a == FromFile(n, from)
    IN  IF Len(a) = n THEN [data |-> a, pos |-> from + n]
        ELSE [data |-> a \o FromFile(n - Len(a), n - Len(a)), pos |-> n - Len(a)]

\* mic_source: at the end of the file rewind, once, and top up.
MicSource(n, from) ==
    LET a == FromFile(n, from)
    IN  IF Len(a) = n THEN [data |-> a, pos |-> from + n]
        ELSE LET b == FromFile(n - Len(a), 0)
             IN  [data |-> a \o b, pos |-> Len(b)]

\* One packet of n samples: silence, the file unless it gave nothing, the tone.
MicPacket(n) ==
    IF mute.mic THEN [data |-> [k \in 1 .. n |-> Silence], pos |-> filePos]
    ELSE IF source = "file" /\ MicSource(n, filePos).data # <<>> THEN MicSource(n, filePos)
    ELSE [data |-> Tone(n, mic.samples), pos |-> filePos]

-----------------------------------------------------------------------------
Sources == {"tone", "file"}

AudioInit(sources) ==
    /\ source \in sources
    /\ filePos = 0
    /\ mute = [mic |-> FALSE, spk |-> FALSE]
    /\ mic = [on |-> FALSE, samples |-> 0]
    /\ spk = [on |-> FALSE, bytes |-> 0, sunk |-> 0]
    /\ heard = <<>>

\* SET_CUR of a feature unit's mute.
SetMute(unit, on) ==
    /\ mute' = [mute EXCEPT ![unit] = on]
    /\ UNCHANGED <<source, filePos, mic, spk, heard>>

\* _stream_edge: what an alternate setting does to a stream.
StreamEdge(stream, alt) ==
    CASE alt = 1 /\ ~stream.on -> "on"
      [] alt = 0 /\ stream.on  -> "off"
      [] OTHER                 -> "none"

\* SET_INTERFACE of the microphone.
MicAlt(alt) ==
    /\ mic' = CASE StreamEdge(mic, alt) = "on"   -> [on |-> TRUE, samples |-> 0]
                [] StreamEdge(mic, alt) = "off"  -> [mic EXCEPT !.on = FALSE]
                [] StreamEdge(mic, alt) = "none" -> mic
    /\ heard' = IF StreamEdge(mic, alt) = "on" THEN <<>> ELSE heard
    /\ UNCHANGED <<source, filePos, mute, spk>>

\* SET_INTERFACE of the speaker.
SpkAlt(alt) ==
    /\ spk' = CASE StreamEdge(spk, alt) = "on"   -> [spk EXCEPT !.on = TRUE, !.bytes = 0]
                [] StreamEdge(spk, alt) = "off"  -> [spk EXCEPT !.on = FALSE]
                [] StreamEdge(spk, alt) = "none" -> spk
    /\ UNCHANGED <<source, filePos, mute, mic, heard>>

\* on_iso of the microphone; an odd byte is not filled.
MicIso(cap) ==
    /\ Len(heard) < MaxSamples
    /\ IF ~mic.on \/ cap \div SampleBytes = 0 THEN UNCHANGED audioVars
       ELSE LET p == MicPacket(cap \div SampleBytes)
            IN  /\ heard' = heard \o p.data
                /\ filePos' = p.pos
                /\ mic' = [mic EXCEPT !.samples = @ + Len(p.data)]
                /\ UNCHANGED <<source, mute, spk>>

\* on_iso of the speaker, which does not ask whether the stream is on: a packet
\* is counted, and goes to the sink unless it is muted.
SpkIso(len) ==
    /\ spk.bytes + len <= SampleBytes * MaxSamples /\ spk.sunk + len <= SampleBytes * MaxSamples
    /\ spk' = [spk EXCEPT !.bytes = @ + len, !.sunk = IF mute.spk THEN @ ELSE @ + len]
    /\ UNCHANGED <<source, filePos, mute, mic, heard>>

AudioNext ==
    \/ \E unit \in {"mic", "spk"}, on \in BOOLEAN : SetMute(unit, on)
    \/ \E alt \in {0, 1} : MicAlt(alt) \/ SpkAlt(alt)
    \/ \E cap \in Asks : MicIso(cap) \/ SpkIso(cap)

AudioSpec == AudioInit(Sources) /\ [][AudioNext]_audioVars

-----------------------------------------------------------------------------
(* Properties.                                                             *)

\* What the host hears has no gap and no repetition: the tone, which plays when
\* there is no file or nothing in it, is in the place in which an unmuted stream
\* would be; the file goes on where it was, over its end and over any silence;
\* and the count of samples is what was heard.
SoundContinuous ==
    /\ mic.on => mic.samples = Len(heard)
    /\ source = "tone" \/ FileLen = 0 => \A i \in DOMAIN heard : heard[i] \in {i - 1, Silence}
    /\ source = "file" /\ FileLen > 0 =>
          \A i, j \in DOMAIN heard :
              /\ i < j /\ heard[i] # Silence /\ heard[j] # Silence
              /\ \A k \in (i + 1) .. (j - 1) : heard[k] = Silence
              => heard[j] = (heard[i] + 1) % FileLen
=============================================================================
