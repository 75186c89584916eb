-------------------------------- MODULE Clip --------------------------------
(***************************************************************************)
(* The clip that a camera plays (examples/uvc_device.py, demux and         *)
(* Mp4Source): the boxes of an MP4 file, the sample tables that say where  *)
(* its frames are, and the source that gives them to the device one by     *)
(* one, for ever.                                                          *)
(*                                                                         *)
(* A muxer (external) lays frames out in chunks, with other tracks between *)
(* them, and writes the tables; a file is the sequence of its words, a     *)
(* word per byte or integer, and a box is a size, a type and its words.    *)
(***************************************************************************)
EXTENDS Integers, Sequences, FiniteSets, SequencesExt

CONSTANTS
    ChunkCounts,  \* the frames of each chunk, a set of sequences
    FrameLengths, \* words of a frame
    KeyFrames,    \* the sets of frames that are key frames; {} for no table
    Frames        \* bound: frames that the camera takes

VARIABLES
    clip,    \* what the muxer was given, see Clips
    index,   \* Mp4Source._index
    shown    \* the frames given to the device

clipVars == <<clip, index, shown>>

-----------------------------------------------------------------------------
(* The muxer.                                                              *)

SumOf(seq) == FoldLeft(+, 0, seq)

\* Sizes of all frames are one number or a table; runs of equal chunks are one
\* entry or one each; offsets are of 32 or 64 bits; the box of the tables may
\* have a long size, or none because it is the last.
Clips ==
    {c \in [counts : ChunkCounts, sizes : UNION {[1 .. n -> FrameLengths] : n \in 1 .. 5}, keys : KeyFrames,
            runs : BOOLEAN, wide : BOOLEAN, head : {"short", "long", "last"}] :
        Len(c.sizes) = SumOf(c.counts)}

\* Frames of chunk k, and the words of another track after each chunk.
FramesBefore(c, k) == SumOf(SubSeq(c.counts, 1, k - 1))
Gap == 2
ChunkLength(c, k) == SumOf(SubSeq(c.sizes, FramesBefore(c, k) + 1, FramesBefore(c, k + 1)))
MediaStart == 100      \* the media data come before or after the tables: anywhere
ChunkOffset(c, k) ==
    MediaStart + SumOf([j \in 1 .. k - 1 |-> ChunkLength(c, j) + Gap])

\* Where frame i is, by the layout.
ChunkOfFrame(c, i) == CHOOSE k \in DOMAIN c.counts : FramesBefore(c, k) < i /\ i <= FramesBefore(c, k + 1)
FrameAt(c, i) ==
    LET k == ChunkOfFrame(c, i)
    IN  [off |-> ChunkOffset(c, k) + SumOf(SubSeq(c.sizes, FramesBefore(c, k) + 1, i - 1)),
         size |-> c.sizes[i], key |-> c.keys = {} \/ i \in c.keys]

\* A box: header and body.  Two words are its size and type; a long size is a
\* third.
Box(type, body, head) ==
    CASE head = "short" -> <<Len(body) + 2, type>> \o body
      [] head = "long"  -> <<1, type, Len(body) + 3>> \o body
      [] OTHER          -> <<0, type>> \o body

\* The chunks at which an entry of the sample-to-chunk table begins.
RunStarts(c) == {k \in DOMAIN c.counts : ~c.runs \/ k = 1 \/ c.counts[k] # c.counts[k - 1]}
SortedRuns(c) == SetToSortSeq(RunStarts(c), <)

Constant(c) == Cardinality(Range(c.sizes)) = 1
Stsz(c) == IF Constant(c) THEN <<c.sizes[1], Len(c.sizes)>> ELSE <<0, Len(c.sizes)>> \o c.sizes
Offsets(c) == [k \in DOMAIN c.counts |-> ChunkOffset(c, k)]
Stsc(c) ==
    <<Cardinality(RunStarts(c))>> \o
    FlattenSeq([i \in DOMAIN SortedRuns(c) |-> <<SortedRuns(c)[i], c.counts[SortedRuns(c)[i]]>>])

\* The tables in the box that holds them.
Stbl(c) ==
    LET tables == Box("stsz", Stsz(c), "short")
                  \o Box("free", <<7>>, "short")
                  \o Box("stsc", Stsc(c), "long")
                  \o (IF c.wide THEN Box("co64", <<Len(c.counts)>> \o Offsets(c), "short")
                      ELSE Box("stco", <<Len(c.counts)>> \o Offsets(c), "short"))
                  \o (IF c.keys = {} THEN <<>>
                      ELSE Box("stss", <<Cardinality(c.keys)>> \o SetToSortSeq(c.keys, <), c.head))
    IN  Box("moov", Box("trak", tables, c.head), c.head)

-----------------------------------------------------------------------------
(* The demuxer.                                                            *)

Word(buf, off) == buf[off + 1]

\* iter_boxes: from off to end, the type and the body of each box.
BoxesIn(buf, off, end) ==
    LET boxes[at \in Nat] ==
            IF at + 2 > end THEN <<>>
            ELSE LET long == Word(buf, at) = 1
                     size == CASE long -> Word(buf, at + 2)
                               [] Word(buf, at) = 0 -> end - at
                               [] OTHER -> Word(buf, at)
                     head == IF long THEN 3 ELSE 2
                 IN  IF size < head \/ at + size > end THEN <<>>
                     ELSE <<[type |-> Word(buf, at + 1), first |-> at + head, end |-> at + size]>> \o boxes[at + size]
    IN  boxes[off]

NoBox == [type |-> "none", first |-> 0, end |-> 0]

\* find_box, one level.
FindBox(buf, off, end, type) ==
    LET found == SelectSeq(BoxesIn(buf, off, end), LAMBDA b : b.type = type)
    IN  IF found = <<>> THEN NoBox ELSE found[1]

\* read_sample_sizes.
SampleSizes(buf, box) ==
    LET constant == Word(buf, box.first)
        count == Word(buf, box.first + 1)
    IN  IF constant # 0 THEN [i \in 1 .. count |-> constant]
        ELSE [i \in 1 .. count |-> Word(buf, box.first + 1 + i)]

\* read_chunk_offsets, of either width.
ChunkOffsets(buf, stco, co64) ==
    LET box == IF stco # NoBox THEN stco ELSE co64
    IN  IF box = NoBox THEN <<>> ELSE [i \in 1 .. Word(buf, box.first) |-> Word(buf, box.first + i)]

\* Mutant: a run ends with the chunk at which the next one begins.
RunEndsWithNext(entries, i, chunks) == IF i < Len(entries) THEN entries[i + 1].first ELSE entries[i].first

\* The last chunk of entry i: before the next entry's first, or the last of all.
RunEnds(entries, i, chunks) == IF i < Len(entries) THEN entries[i + 1].first - 1 ELSE chunks

\* read_samples_per_chunk: the runs expanded, a later one over an earlier.
SamplesPerChunk(buf, box, chunks) ==
    LET entries == [i \in 1 .. Word(buf, box.first) |->
                       [first |-> Word(buf, box.first + 2 * i - 1), count |-> Word(buf, box.first + 2 * i)]]
        Expand(counts, i) ==
            [k \in 1 .. chunks |-> IF entries[i].first <= k /\ k <= RunEnds(entries, i, chunks)
                                   THEN entries[i].count ELSE counts[k]]
    IN  FoldLeft(Expand, [k \in 1 .. chunks |-> 0], [i \in DOMAIN entries |-> i])

\* read_sync_samples: none says that every frame is a key frame.
SyncSamples(buf, box) == {Word(buf, box.first + i) : i \in 1 .. Word(buf, box.first)}

\* sample_table: chunk by chunk, frame after frame.
SampleTable(buf, off, end) ==
    LET sizes  == SampleSizes(buf, FindBox(buf, off, end, "stsz"))
        chunks == ChunkOffsets(buf, FindBox(buf, off, end, "stco"), FindBox(buf, off, end, "co64"))
        counts == SamplesPerChunk(buf, FindBox(buf, off, end, "stsc"), Len(chunks))
        stss   == FindBox(buf, off, end, "stss")
        One(s, n) ==
            IF Len(s.out) >= Len(sizes) THEN s
            ELSE LET i == Len(s.out) + 1
                 IN  [off |-> s.off + sizes[i],
                      out |-> Append(s.out, [off |-> s.off, size |-> sizes[i],
                                             key |-> stss = NoBox \/ i \in SyncSamples(buf, stss)])]
        OfChunk(out, k) == FoldLeft(One, [off |-> chunks[k], out |-> out], [n \in 1 .. counts[k] |-> n]).out
    IN  FoldLeft(OfChunk, <<>>, [k \in DOMAIN chunks |-> k])

\* demux_bytes: down to the tables of the first video track.
Demux(buf) ==
    LET moov == FindBox(buf, 0, Len(buf), "moov")
        trak == FindBox(buf, moov.first, moov.end, "trak")
    IN  SampleTable(buf, trak.first, trak.end)

-----------------------------------------------------------------------------
ClipInit(clips) ==
    /\ clip \in clips
    /\ index = 0 /\ shown = <<>>

\* Mp4Source.next: back to the first frame after the last.
NextFrame ==
    /\ Len(shown) < Frames
    /\ LET samples == Demux(Stbl(clip))
           at == IF index >= Len(samples) THEN 0 ELSE index
       IN  /\ samples # <<>>
           /\ shown' = Append(shown, samples[at + 1])
           /\ index' = at + 1
    /\ UNCHANGED clip

ClipNext == NextFrame

ClipSpec == ClipInit(Clips) /\ [][ClipNext]_clipVars

-----------------------------------------------------------------------------
(* Properties.                                                             *)

\* However a file's frames lie in chunks and its tables are written, the camera
\* shows them in order, each from where it is and as long as it is, over and
\* over.
ClipPlaysInOrder ==
    \A n \in DOMAIN shown : shown[n] = FrameAt(clip, ((n - 1) % Len(clip.sizes)) + 1)
=============================================================================
