-------------------------------- MODULE Dfu ---------------------------------
(***************************************************************************)
(* The DFU function (usbip/classes/device/dfu.py, DFU.on_control, _dnload, *)
(* _upload, set_alt) over the file-backed targets of                       *)
(* examples/dfu_device.py (FileTarget), and a host that updates and reads  *)
(* back firmware: one that goes block by block and polls the status, that  *)
(* may vanish at any point, and whose place one may take that sends blocks *)
(* in no order at all.  The function has no on_reset hook: what a host     *)
(* leaves behind, the next one finds.                                      *)
(*                                                                         *)
(* Abstracted: a byte is one of a few values, the block size is small, and *)
(* a write to the disk stores all of a block or raises OSError.            *)
(***************************************************************************)
EXTENDS Integers, Sequences

CONSTANTS
    Targets,      \* the alternate settings, from 0
    Images,       \* the firmware images that hosts download, none is empty
    StrayData,    \* the blocks of a host that follows no order
    TransferSize, \* bytes in a block
    Capacity,     \* bytes that a target holds, 0 for no limit
    BlockMod      \* block numbers wrap here: wValue has 16 bits

Bytes(data) == {data[i] : i \in DOMAIN data}

ASSUME DfuAssumption ==
    /\ 0 \in Targets
    /\ TransferSize \in Nat \ {0} /\ BlockMod \in Nat \ {0} /\ Capacity \in Nat
    /\ \A data \in Images \cup StrayData : data \in Seq(Bytes(data))
    /\ \A image \in Images : Len(image) \in 1 .. BlockMod * TransferSize

VARIABLES
    dfu,      \* cur, state, status, and the targets' file and length
    dfuHost,  \* phase, the image in hand, the next block, the bytes read
    stored    \* history: the image last downloaded whole, or Unknown

dfuVars == <<dfu, dfuHost, stored>>

Zero == "0"          \* what a file holds where nothing was written
Unknown == <<"?">>
Smaller(a, b) == IF a < b THEN a ELSE b
Larger(a, b) == IF a < b THEN b ELSE a

-----------------------------------------------------------------------------
(* FileTarget.                                                             *)

\* seek and write.
Overwrite(file, off, data) ==
    [i \in 1 .. Larger(Len(file), off + Len(data)) |->
        IF i \in off + 1 .. off + Len(data) THEN data[i - off]
        ELSE IF i <= Len(file) THEN file[i] ELSE Zero]

\* Mutant: a fresh image does not shorten the target.
KeepLength(d, t) == d

BeginDownload(d, t) == [d EXCEPT !.length[t] = 0]

TargetWrite(d, t, off, data) ==
    [d EXCEPT !.file[t] = Overwrite(@, off, data),
              !.length[t] = Larger(@, off + Len(data))]

TargetRead(d, t, off, size) ==
    SubSeq(d.file[t], off + 1, Smaller(off + size, d.length[t]))

\* truncate, which is also what drops the tail of a longer image.
FinishDownload(d, t) == [d EXCEPT !.file[t] = SubSeq(@, 1, d.length[t])]

-----------------------------------------------------------------------------
(* The class requests.                                                     *)

InState(d, state, status) == [d EXCEPT !.state = state, !.status = status]

\* _dnload: no state refuses a block; block 0 starts afresh; an error is
\* acknowledged and told by GETSTATUS.
Dnload(d, wValue, data, diskOk) ==
    LET t     == d.cur
        off   == wValue * TransferSize
        fresh == IF wValue = 0 THEN BeginDownload(d, t) ELSE d
    IN  CASE data = <<>> ->
                InState(FinishDownload(d, t), "dfuMANIFEST_SYNC", "OK")
          [] data # <<>> /\ Capacity # 0 /\ off + Len(data) > Capacity ->
                InState(fresh, "dfuERROR", "errADDRESS")
          [] data # <<>> /\ (Capacity = 0 \/ off + Len(data) <= Capacity) /\ ~diskOk ->
                InState(fresh, "dfuERROR", "errWRITE")
          [] OTHER ->
                InState(TargetWrite(fresh, t, off, data), "dfuDNLOAD_SYNC", "OK")

Chunk(d, wValue) == TargetRead(d, d.cur, wValue * TransferSize, TransferSize)

DoUpload(d, wValue) ==
    InState(d, IF Chunk(d, wValue) = <<>> THEN "dfuIDLE" ELSE "dfuUPLOAD_IDLE", "OK")

\* DFU_GETSTATUS moves on the states that wait for it.
GetStatus(d) ==
    CASE d.state = "dfuDNLOAD_SYNC"   -> [d EXCEPT !.state = "dfuDNLOAD_IDLE"]
      [] d.state = "dfuMANIFEST_SYNC" -> [d EXCEPT !.state = "dfuIDLE"]
      [] OTHER                        -> d

-----------------------------------------------------------------------------
NoJob == [phase |-> "idle", image |-> <<>>, next |-> 0, got |-> <<>>]

DfuInit ==
    /\ dfu = [cur |-> 0, state |-> "dfuIDLE", status |-> "OK",
              file |-> [t \in Targets |-> <<>>], length |-> [t \in Targets |-> 0]]
    /\ dfuHost = NoJob
    /\ stored = [t \in Targets |-> <<>>]

\* Whether the image goes on after n blocks of it.
GoesOn(image, n) == n * TransferSize < Len(image)

BlockOf(image, n) == SubSeq(image, n * TransferSize + 1, Smaller((n + 1) * TransferSize, Len(image)))

\* SET_INTERFACE; a number beyond the targets changes nothing.
SetAlt(alt) ==
    /\ dfu' = IF alt \in Targets THEN InState([dfu EXCEPT !.cur = alt], "dfuIDLE", "OK") ELSE dfu
    /\ dfuHost' = NoJob
    /\ UNCHANGED stored

\* DFU_CLRSTATUS and DFU_ABORT.
Clear ==
    /\ dfu' = InState(dfu, "dfuIDLE", "OK")
    /\ dfuHost' = NoJob
    /\ UNCHANGED stored

\* A host that finds the function idle starts to update or to read.
StartDownload(image) ==
    /\ dfuHost.phase = "idle" /\ dfu.state = "dfuIDLE" /\ dfu.status = "OK"
    /\ dfuHost' = [NoJob EXCEPT !.phase = "ready", !.image = image]
    /\ UNCHANGED <<dfu, stored>>

SendBlock(diskOk) ==
    /\ dfuHost.phase = "ready" /\ GoesOn(dfuHost.image, dfuHost.next)
    /\ dfu' = Dnload(dfu, dfuHost.next % BlockMod, BlockOf(dfuHost.image, dfuHost.next), diskOk)
    /\ stored' = [stored EXCEPT ![dfu.cur] = Unknown]
    /\ dfuHost' = [dfuHost EXCEPT !.phase = "sent"]

SendEnd ==
    /\ dfuHost.phase = "ready" /\ ~GoesOn(dfuHost.image, dfuHost.next)
    /\ dfu' = Dnload(dfu, dfuHost.next % BlockMod, <<>>, TRUE)
    /\ dfuHost' = [dfuHost EXCEPT !.phase = "ended"]
    /\ UNCHANGED stored

\* The host reads the status: it goes on, has finished, or gives up.
Poll ==
    /\ dfuHost.phase \in {"sent", "ended"}
    /\ dfu' = GetStatus(dfu)
    /\ CASE dfuHost.phase = "sent" /\ dfu'.status = "OK" /\ dfu'.state = "dfuDNLOAD_IDLE" ->
              /\ dfuHost' = [dfuHost EXCEPT !.phase = "ready", !.next = @ + 1]
              /\ UNCHANGED stored
         [] dfuHost.phase = "ended" /\ dfu'.status = "OK" /\ dfu'.state = "dfuIDLE" ->
              /\ dfuHost' = NoJob
              /\ stored' = [stored EXCEPT ![dfu.cur] = dfuHost.image]
         [] OTHER -> dfuHost' = NoJob /\ UNCHANGED stored

StartUpload ==
    /\ dfuHost.phase \in {"idle", "read"} /\ dfu.state = "dfuIDLE"
    /\ dfuHost' = [NoJob EXCEPT !.phase = "reading"]
    /\ UNCHANGED <<dfu, stored>>

\* An upload ends with the first short block.
ReadBlock ==
    /\ dfuHost.phase = "reading"
    /\ dfu' = DoUpload(dfu, dfuHost.next % BlockMod)
    /\ LET chunk == Chunk(dfu, dfuHost.next % BlockMod)
       IN  dfuHost' = [dfuHost EXCEPT !.next = @ + 1, !.got = @ \o chunk,
                           !.phase = IF Len(chunk) < TransferSize THEN "read" ELSE "reading"]
    /\ UNCHANGED stored

\* A host without order: any block, or the end, at any time.
Stray(wValue, data, diskOk) ==
    /\ dfu' = Dnload(dfu, wValue, data, diskOk)
    /\ stored' = [stored EXCEPT ![dfu.cur] = Unknown]
    /\ dfuHost' = NoJob

\* The host is gone; nothing tells the function.
Vanish ==
    /\ dfuHost.phase # "idle"
    /\ dfuHost' = NoJob
    /\ UNCHANGED <<dfu, stored>>

\* The connection ends inside a block.  read_cmd makes the bytes that are
\* missing into no bytes at all, and the request is served like any other.
CutShort ==
    /\ dfuHost.phase = "ready" /\ GoesOn(dfuHost.image, dfuHost.next)
    /\ dfu' = Dnload(dfu, dfuHost.next % BlockMod, <<>>, TRUE)
    /\ stored' = [stored EXCEPT ![dfu.cur] = Unknown]
    /\ dfuHost' = NoJob

DfuNext ==
    \/ \E alt \in Targets \cup {9} : SetAlt(alt)
    \/ Clear
    \/ \E image \in Images : StartDownload(image)
    \/ \E diskOk \in BOOLEAN : SendBlock(diskOk)
    \/ SendEnd
    \/ Poll
    \/ StartUpload
    \/ ReadBlock
    \/ \E wValue \in 0 .. BlockMod - 1, data \in StrayData \cup {<<>>}, diskOk \in BOOLEAN :
          Stray(wValue, data, diskOk)
    \/ Vanish
    \/ CutShort

DfuSpec == DfuInit /\ [][DfuNext]_dfuVars

-----------------------------------------------------------------------------
(* Properties.                                                             *)

\* After a download that its host saw to succeed, the target's file is that
\* image and nothing of what any earlier host had written there, whole, aborted
\* or out of order; another target is not touched; and an upload returns it.
DownloadReadsBack ==
    /\ \A t \in Targets : stored[t] # Unknown =>
          dfu.file[t] = stored[t] /\ dfu.length[t] = Len(stored[t])
    /\ dfuHost.phase = "read" /\ stored[dfu.cur] # Unknown => dfuHost.got = stored[dfu.cur]
=============================================================================
