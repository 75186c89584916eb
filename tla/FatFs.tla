-------------------------------- MODULE FatFs -------------------------------
(***************************************************************************)
(* The FAT reader over a block device (usbip/classes/host/extras/fatfs.py, *)
(* blockdev.py): a byte view of blocks, the entries of the table with the  *)
(* sector that is cached, chains of clusters, directories with long names. *)
(*                                                                         *)
(* A volume is laid out by the definition of FAT (external) from what its  *)
(* files are; reading it back must give that.  Sectors are a few bytes     *)
(* long, so that entries and clusters fall across sectors and blocks as    *)
(* they do on a disk; of the root directory, its entries are kept, each a   *)
(* record, and not where they lie.                                         *)
(***************************************************************************)
EXTENDS Integers, Sequences, FiniteSets, SequencesExt

CONSTANTS
    FatTypes,       \* subset of {12, 16, 32}
    SectorSizes,    \* bytes per sector
    BlockSizes,     \* bytes per block of the device, not always a sector
    Clusters,       \* sectors per cluster
    VolumeStarts,   \* sectors before the volume: a partition's
    LastCluster,    \* clusters 2 .. LastCluster
    Sizes           \* bytes of the first file

VARIABLES
    volume,   \* what the disk holds, see Volumes
    cache,    \* the sector of the table that is cached, -1 at first
    cached,   \* and its bytes
    reads     \* what the last call returned: the file and its bytes

fatVars == <<volume, cache, cached, reads>>

-----------------------------------------------------------------------------
(* The disk.                                                               *)

\* A chain takes the clusters that its bytes need, in any order.
Chains == {c \in UNION {[1 .. n -> 2 .. LastCluster] : n \in 1 .. LastCluster - 1} : IsInjective(c)}

\* Directory entries: a file's long name comes in pieces before it, the last
\* piece first; what is deleted leaves a mark, a volume has a label.
Long(ord, piece) == [t |-> "long", ord |-> ord, piece |-> piece]
Short(name, f) == [t |-> "short", name |-> <<name>>, file |-> f]
Deleted == [t |-> "deleted"]
Label == [t |-> "label"]
End == [t |-> "end"]
FileName(f) == IF f = 1 THEN <<"photo", "graph">> ELSE <<"NOTE">>
Directories ==
    {<<Long(2, "graph"), Long(1, "photo"), Short("PHOTOG~1", 1), Short("NOTE", 2), End>>,
     <<Label, Long(1, "old"), Deleted, Short("NOTE", 2), Long(2, "graph"), Long(1, "photo"), Short("PHOTOG~1", 1)>>,
     <<Deleted, Long(2, "graph"), Long(1, "photo"), Short("PHOTOG~1", 1), Long(1, "x"), Label, Short("NOTE", 2),
       End, Short("JUNK", 1)>>}

\* A volume with two files; the second has the clusters that the first has not.
Volumes ==
    {v \in [type : FatTypes, bps : SectorSizes, spc : Clusters, block : BlockSizes, start : VolumeStarts,
            chain : Chains, size : Sizes, dir : Directories] :
        /\ v.size <= Len(v.chain) * v.spc * v.bps
        /\ v.size > (Len(v.chain) - 1) * v.spc * v.bps}

ClusterSize(v) == v.spc * v.bps

OtherChain(v) == SetToSeq((2 .. LastCluster) \ Range(v.chain))
Chain(v, f) == IF f = 1 THEN v.chain ELSE OtherChain(v)
FileSize(v, f) == IF f = 1 THEN v.size ELSE Len(OtherChain(v)) * ClusterSize(v)

\* The table: the next cluster, or the end mark.
EndMark(type) == CASE type = 12 -> 4088 [] type = 16 -> 65528 [] OTHER -> 268435448
NextCluster(v, c) ==
    LET chain == IF c \in Range(v.chain) THEN v.chain ELSE OtherChain(v)
        i == CHOOSE j \in DOMAIN chain : chain[j] = c
    IN  IF c < 2 \/ i = Len(chain) THEN EndMark(v.type) ELSE chain[i + 1]

\* Digits of four bits, the low ones first: three to an entry of FAT12, four or
\* eight to the others; a byte is two of them.
Power16(n) == [i \in 0 .. n |-> 16 ^ i][n]
Digit(value, i) == (value \div Power16(i)) % 16
DigitsOf(type) == CASE type = 12 -> 3 [] type = 16 -> 4 [] OTHER -> 8
TableDigit(v, d) ==
    LET n == DigitsOf(v.type)
        c == d \div n
    IN  IF c > LastCluster THEN 0 ELSE Digit(NextCluster(v, c), d % n)
TableSize(v) == ((LastCluster + 1) * DigitsOf(v.type) + 1) \div 2 + v.bps

\* A reserved sector, the table, then the clusters; a byte of a cluster says
\* which cluster it is of and where.
FirstDataSector(v) == 1 + (TableSize(v) + v.bps - 1) \div v.bps
VolumeByte(v, off) ==
    IF off < v.bps THEN 0
    ELSE IF off < FirstDataSector(v) * v.bps
         THEN TableDigit(v, 2 * (off - v.bps)) + 16 * TableDigit(v, (2 * (off - v.bps)) + 1)
    ELSE 1000 + off - FirstDataSector(v) * v.bps

DiskByte(v, off) == IF off < v.start * v.bps THEN 0 ELSE VolumeByte(v, off - v.start * v.bps)

\* What a file holds.
Contents(v, f) ==
    [i \in 1 .. FileSize(v, f) |->
        LET n == ClusterSize(v)
        IN  1000 + (Chain(v, f)[((i - 1) \div n) + 1] - 2) * n + ((i - 1) % n)]

-----------------------------------------------------------------------------
(* BlockDevice.                                                            *)

\* MSCDriver.read_blocks.
ReadBlocks(v, lba, count) == [i \in 1 .. count * v.block |-> DiskByte(v, lba * v.block + i - 1)]

\* A slice of bytes, as far as there are any.
Slice(bytes, from, to) == SubSeq(bytes, from, IF to < Len(bytes) THEN to ELSE Len(bytes))

\* Mutant: the number of blocks is that of the bytes.
BlocksFor(first, offset, length, block) == (length + block - 1) \div block

\* The blocks that the bytes lie in, from the first to the last.
BlocksSpanned(first, offset, length, block) == (offset + length - 1) \div block - first + 1

\* BlockDevice.read, in the view that begins at the volume.
DevRead(v, at, length) ==
    LET offset == at + v.start * v.bps
        first  == offset \div v.block
        chunk  == ReadBlocks(v, first, BlocksSpanned(first, offset, length, v.block))
        start  == offset - first * v.block
    IN  IF length <= 0 THEN <<>> ELSE Slice(chunk, start + 1, start + length)

-----------------------------------------------------------------------------
(* The reader.                                                             *)

LittleEndian(bytes) == FoldRight(LAMBDA b, n : b + 256 * n, bytes, 0)

\* The place and the width of an entry.
EntryAt(v, c) ==
    CASE v.type = 32 -> [off |-> v.bps + c * 4, width |-> 4]
      [] v.type = 16 -> [off |-> v.bps + c * 2, width |-> 2]
      [] OTHER       -> [off |-> v.bps + c + c \div 2, width |-> 2]

\* Twelve bits of sixteen: the upper for an odd cluster.
Masked(v, c, value) ==
    CASE v.type = 12 -> (IF c % 2 = 1 THEN value \div 16 ELSE value % 4096)
      [] v.type = 32 -> value % 268435456
      [] OTHER       -> value

\* _fat_entry, with the cache before and after; an entry across two sectors is
\* read past it.
FatEntry(v, c, s) ==
    LET e   == EntryAt(v, c)
        sec == e.off \div v.bps
        now == IF sec = s.sec THEN s ELSE [sec |-> sec, bytes |-> DevRead(v, sec * v.bps, v.bps)]
        at  == e.off - sec * v.bps
    IN  IF e.off + e.width <= (sec + 1) * v.bps
        THEN [next |-> Masked(v, c, LittleEndian(Slice(now.bytes, at + 1, at + e.width))),
              sec |-> now.sec, bytes |-> now.bytes]
        ELSE [next |-> Masked(v, c, LittleEndian(DevRead(v, e.off, e.width))),
              sec |-> s.sec, bytes |-> s.bytes]

\* _chain: as long as there is a next cluster; Guard is a bound of the model.
Guard == 1 .. LastCluster + 1
ChainFrom(v, start, s) ==
    LET Step(acc, k) ==
            IF acc.at < 2 \/ acc.at >= EndMark(v.type) THEN acc
            ELSE LET e == FatEntry(v, acc.at, [sec |-> acc.sec, bytes |-> acc.bytes])
                 IN  [out |-> Append(acc.out, acc.at), at |-> e.next, sec |-> e.sec, bytes |-> e.bytes]
    IN  FoldLeft(Step, [out |-> <<>>, at |-> start, sec |-> s.sec, bytes |-> s.bytes],
                 [k \in Guard |-> k])

ReadCluster(v, c) == DevRead(v, (FirstDataSector(v) + (c - 2) * v.spc) * v.bps, ClusterSize(v))

\* What is deleted, and a label, drop the pieces that came before.
Forgotten(pieces) == <<>>

\* _entries: the files of a directory with their names.
Entries(dir) ==
    LET Step(s, e) ==
            CASE s.done \/ e.t = "end" -> [s EXCEPT !.done = TRUE]
              [] e.t = "long"  -> [s EXCEPT !.pieces = Append(@, e)]
              [] e.t = "short" ->
                    [s EXCEPT !.pieces = <<>>,
                              !.out = Append(@, [file |-> e.file, name |->
                                  IF s.pieces = <<>> THEN e.name
                                  ELSE LET sorted == SortSeq(s.pieces, LAMBDA a, b : a.ord < b.ord)
                                       IN  [i \in DOMAIN sorted |-> sorted[i].piece]])]
              [] OTHER -> [s EXCEPT !.pieces = Forgotten(@)]
    IN  FoldLeft(Step, [done |-> FALSE, pieces |-> <<>>, out |-> <<>>], dir).out

\* _find: the first entry of that name, 0 if there is none.
Find(dir, name) ==
    LET found == SelectSeq(Entries(dir), LAMBDA e : e.name = name)
    IN  IF found = <<>> THEN 0 ELSE found[1].file

\* read_file: clusters until the file's size is reached, then cut to it.
FileBytes(v, f, chain) ==
    LET all == FoldLeft(LAMBDA data, c : IF Len(data) >= FileSize(v, f) /\ data # <<>> THEN data
                                         ELSE data \o ReadCluster(v, c), <<>>, chain)
    IN  Slice(all, 1, FileSize(v, f))

FatInit(volumes) ==
    /\ volume \in volumes
    /\ cache = -1 /\ cached = <<>>
    /\ reads = [file |-> 1, bytes |-> Contents(volume, 1)]

\* The caller asks for a file by its name.
ReadFile(f) ==
    LET found == Find(volume.dir, FileName(f))
    IN  /\ Chain(volume, f) # <<>>
        /\ IF found = 0 THEN reads' = [file |-> f, bytes |-> <<"not found">>] /\ UNCHANGED <<cache, cached>>
           ELSE LET c == ChainFrom(volume, Chain(volume, found)[1], [sec |-> cache, bytes |-> cached])
                IN  /\ reads' = [file |-> f, bytes |-> FileBytes(volume, found, c.out)]
                    /\ cache' = c.sec /\ cached' = c.bytes
        /\ UNCHANGED volume

FatNext == \E f \in 1 .. 2 : ReadFile(f)

FatSpec == FatInit(Volumes) /\ [][FatNext]_fatVars

-----------------------------------------------------------------------------
(* Properties.                                                             *)

\* Whatever the kind of table, the size of a block, a sector and a cluster, the
\* order of a file's clusters and what surrounds its directory entry, a file is
\* found by its name and reads back as it was laid out; and so it does with the
\* sector of the table that the last one left in the cache.
FilesReadBack == reads.bytes = Contents(volume, reads.file)
=============================================================================
