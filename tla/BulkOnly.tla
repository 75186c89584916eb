------------------------------ MODULE BulkOnly ------------------------------
(***************************************************************************)
(* USB mass storage over the Bulk-Only Transport: the device's MSC         *)
(* interface (usbip/classes/device/msc.py) and a host that drives it       *)
(* (usbip/classes/host/msc.py), joined by the bulk-IN queue and the halts  *)
(* of the two bulk endpoints.                                              *)
(*                                                                         *)
(* The interface's code runs in the serve thread, and the host waits for   *)
(* the answer to each URB, so one URB, with the whole of the handler it    *)
(* starts, is one step (Endpoint.tla has the interleavings of devices that *)
(* write from threads of their own).  A host may give up on a command and  *)
(* reset the transport, or leave at any point; the next one attaches to    *)
(* what the interface then is.                                             *)
(*                                                                         *)
(* Data is abstracted to its length in bytes and, for blocks, the value    *)
(* written; SCSI commands that differ only in the bytes they return are    *)
(* one command ("info").                                                   *)
(***************************************************************************)
EXTENDS Integers, Sequences, FiniteSets

CONSTANTS
    Luns,       \* logical units, 0 .. n
    ReadOnly,   \* those that are write protected
    NumBlocks,  \* blocks of each unit
    Values,     \* what a block may hold
    Blank,      \* what it holds before any write, or after a write of no one value
    MaxCmds     \* bound: commands sent

ASSUME UnitAssumption == Luns \subseteq Nat /\ 0 \in Luns /\ ReadOnly \subseteq Luns
ASSUME DiskAssumption == NumBlocks \in Nat \ {0} /\ MaxCmds \in Nat
ASSUME BlankAssumption == Blank \notin Values

CbwLen    == 31
CswLen    == 13
InfoLen   == 36
SenseLen  == 18
BlockSize == 512
ParamLen  == 12     \* FORMAT UNIT's parameter list

NoLun == 1 + CHOOSE l \in Luns : \A k \in Luns : k <= l     \* a unit that does not exist

VARIABLES
    wr,        \* MSC._write: the write whose data is awaited, or NoWrite
    store,     \* per unit: its blocks
    sense,     \* per unit: Lun.sense
    inq,       \* the bulk-IN endpoint's queue
    inHalted,  \* the bulk-IN endpoint's halt
    outHalted, \* the bulk-OUT endpoint's halt
    host,      \* where the host's driver is
    cmd,       \* the command it is running
    left,      \* blocks of a write it has still to send
    tag,       \* the tag of its last CBW
    recv,      \* bytes of data it has received for the command
    status,    \* the status byte of the command's CSW; 1 until it is read
    csw,       \* the tag of the last CSW it read
    gaveUp,    \* history: how a host has last given up on a command
    owed,      \* history, per unit: the sense of the last failure it was told of
    told       \* history: the sense data it has just read, or "none"

device == <<wr, store, sense, inq, inHalted, outHalted>>
vars   == <<wr, store, sense, inq, inHalted, outHalted, host, cmd, left, tag, recv, status,
            csw, gaveUp, owed, told>>

-----------------------------------------------------------------------------
(* Commands.                                                               *)

\* A CBW: the operation, the unit, the block range, the length and the
\* direction of the data phase, the value a write writes.
Command == [op : {"tur", "info", "badpage", "read", "write", "sense", "format", "unknown"},
            lun : Luns \cup {NoLun}, lba : 0 .. NumBlocks, count : 0 .. NumBlocks + 1,
            val : Values \cup {Blank}, dlen : Nat, in : BOOLEAN]

Cmd(op, l, lba, n, v, dlen, in) ==
    [op |-> op, lun |-> l, lba |-> lba, count |-> n, val |-> v, dlen |-> dlen, in |-> in]

\* What a host sends: a data phase as long as the command calls for.  A write
\* of no blocks has no data phase.
Commands ==
    LET all == Luns \cup {NoLun}
    IN       {Cmd("tur", l, 0, 0, Blank, 0, FALSE) : l \in all}
        \cup {Cmd("info", l, 0, 0, Blank, n, TRUE) : l \in all, n \in {0, 8, 255}}
        \cup {Cmd("badpage", l, 0, 0, Blank, 255, TRUE) : l \in Luns}
        \cup {Cmd("sense", l, 0, 0, Blank, SenseLen, TRUE) : l \in Luns}
        \cup {Cmd("read", l, b, n, Blank, n * BlockSize, TRUE) :
                 l \in Luns, b \in 0 .. NumBlocks, n \in 0 .. 2}
        \cup {Cmd("write", l, b, n, v, n * BlockSize, FALSE) :
                 l \in Luns, b \in 0 .. NumBlocks, n \in 1 .. 2, v \in Values}
        \cup {Cmd("format", l, 0, 0, Blank, ParamLen, FALSE) : l \in Luns}
        \cup {Cmd("unknown", l, 0, 0, Blank, n, d) : l \in Luns, n \in {0, 8}, d \in BOOLEAN}

NoWrite == [lun |-> 0, tag |-> 0, lba |-> 0, count |-> 0, got |-> 0, val |-> Blank, on |-> FALSE]

Blocks(c) == c.lba .. (c.lba + c.count - 1)

-----------------------------------------------------------------------------
(* The device.  Each operator is the state a handler leaves behind, as a   *)
(* record of the device's variables.                                       *)

Device == [wr |-> wr, store |-> store, sense |-> sense, inq |-> inq, inHalted |-> inHalted,
           outHalted |-> outHalted]

Chunk(kind, len, val) == [kind |-> kind, len |-> len, val |-> val, tag |-> 0, residue |-> 0,
                          status |-> 0]

CswChunk(t, residue, st) == [kind |-> "csw", len |-> CswLen, val |-> Blank, tag |-> t,
                             residue |-> residue, status |-> st]

\* in_ep.write: no URB is parked while the serve thread handles another URB.
WriteIn(d, chunk) == [d EXCEPT !.inq = Append(@, chunk)]

Csw(d, t, residue, st) == WriteIn(d, CswChunk(t, residue, st))

\* Mutant: nothing is halted; the host reads the CSW as data.
StallNothing(d, c) == d

\* _stall_data_phase: the endpoint of the data phase is halted.
StallDataPhase(d, c) ==
    CASE c.dlen = 0 -> d
      [] c.dlen # 0 /\ c.in  -> [d EXCEPT !.inHalted = TRUE]
      [] c.dlen # 0 /\ ~c.in -> [d EXCEPT !.outHalted = TRUE]

\* Lun.read_only.
IsProtected(l) == l \in ReadOnly

\* data[:dlen].
Truncated(len, dlen) == IF len > dlen THEN dlen ELSE len

\* _data_in.
DataInPhase(d, t, c, kind, len, val) ==
    LET sent == Truncated(len, c.dlen)
        d1   == IF sent > 0 THEN WriteIn(d, Chunk(kind, sent, val)) ELSE StallDataPhase(d, c)
    IN  Csw(d1, t, c.dlen - sent, 0)

\* Mutant: the sense of a failure goes to unit 0.
SenseOnUnit0(l) == 0

\* The unit that keeps the sense of a failure: unit 0 for one that is absent.
SenseUnit(l) == IF l \in Luns THEN l ELSE 0

\* _fail.
Fail(d, t, c, s) == Csw(StallDataPhase([d EXCEPT !.sense[SenseUnit(c.lun)] = s], c), t, c.dlen, 1)

InRange(c) == c.lba + c.count <= NumBlocks

\* What a read of blocks returns: their value when they agree.
ReadValue(d, c) ==
    LET vs == {d.store[c.lun][b] : b \in Blocks(c)}
    IN  IF \E v \in vs : vs = {v} THEN CHOOSE v \in vs : TRUE ELSE Blank

\* _request_sense.
SenseCleared(d, l) == [d EXCEPT !.sense[l] = "ok"]

\* _dispatch.
Dispatch(d, t, c) ==
    CASE c.op = "tur" -> Csw(d, t, 0, 0)
      [] c.op = "info" -> DataInPhase(d, t, c, "data", InfoLen, Blank)
      [] c.op = "badpage" -> Fail(d, t, c, "invalid field")
      [] c.op = "read" ->
           IF InRange(c)
           THEN DataInPhase(d, t, c, "data", c.count * BlockSize, ReadValue(d, c))
           ELSE Fail(d, t, c, "range")
      [] c.op = "write" ->
           IF IsProtected(c.lun) THEN Fail(d, t, c, "protected")
           ELSE IF ~InRange(c) THEN Fail(d, t, c, "range")
           ELSE [d EXCEPT !.wr = [lun |-> c.lun, tag |-> t, lba |-> c.lba, count |-> c.count,
                                  got |-> 0, val |-> c.val, on |-> TRUE]]
      [] c.op = "sense" ->
           DataInPhase(SenseCleared(d, c.lun), t, c, d.sense[c.lun], SenseLen, Blank)
      [] c.op = "format" ->
           IF IsProtected(c.lun) THEN Fail(d, t, c, "protected") ELSE Csw(d, t, 0, 0)
      [] c.op = "unknown" -> Fail(d, t, c, "invalid command")

\* _handle_cbw.
HandleCbw(d, t, c) ==
    IF c.lun \in Luns THEN Dispatch(d, t, c) ELSE Fail(d, t, c, "no such unit")

WriteDone(got, count) == got >= count * BlockSize

WriteEnded(d) == [d EXCEPT !.wr = NoWrite]

\* _recv_write: `len` bytes arrive.  They are the blocks the host means to
\* write only if nothing else was taken for their beginning.
RecvWrite(d, len) ==
    LET w   == d.wr
        got == w.got + len
        val == IF len % BlockSize = 0 THEN w.val ELSE Blank
        has == {b \in Blocks(w) : (b + 1 - w.lba) * BlockSize <= got}
    IN  IF WriteDone(got, w.count)
        THEN Csw([WriteEnded(d) EXCEPT
                     !.store[w.lun] = [b \in DOMAIN @ |-> IF b \in has THEN val ELSE @[b]]],
                 w.tag, 0, 0)
        ELSE [d EXCEPT !.wr.got = got, !.wr.val = val]

\* on_out with a CBW, and with `len` bytes that are none.
OnOutCbw(d, t, c) == IF d.wr.on THEN RecvWrite(d, CbwLen) ELSE HandleCbw(d, t, c)
OnOutData(d, len) == IF d.wr.on THEN RecvWrite(d, len) ELSE d

Becomes(d) ==
    /\ wr' = d.wr /\ store' = d.store /\ sense' = d.sense
    /\ inq' = d.inq /\ inHalted' = d.inHalted /\ outHalted' = d.outHalted

-----------------------------------------------------------------------------
Init ==
    /\ wr = NoWrite
    /\ store = [l \in Luns |-> [b \in 0 .. (NumBlocks - 1) |-> Blank]]
    /\ sense = [l \in Luns |-> "ok"]
    /\ inq = <<>>
    /\ inHalted = FALSE /\ outHalted = FALSE
    /\ host = "idle"
    /\ cmd = Cmd("tur", 0, 0, 0, Blank, 0, FALSE)
    /\ left = 0
    /\ tag = 0
    /\ recv = 0
    /\ status = 1
    /\ csw = 0
    /\ gaveUp = "never"
    /\ owed = [l \in Luns |-> "ok"]
    /\ told = "none"

\* _cbw: the command block goes out on bulk-OUT.
SendCbw(c) ==
    /\ host = "idle"
    /\ tag < MaxCmds
    /\ tag' = tag + 1
    /\ cmd' = c
    /\ recv' = 0
    /\ told' = "none"
    /\ left' = IF c.op = "write" THEN c.count ELSE 0
    /\ IF outHalted
       THEN /\ host' = "failed"
            /\ UNCHANGED device
       ELSE /\ Becomes(OnOutCbw(Device, tag', c))
            /\ host' = IF c.dlen = 0 THEN "csw" ELSE "data"
    /\ status' = 1
    /\ UNCHANGED <<csw, gaveUp, owed>>

\* What a URB of `len` bytes takes from the front chunk (_pop_locked).
RestOfFront(len) ==
    IF Head(inq).len > len
    THEN <<[Head(inq) EXCEPT !.len = @ - len]>> \o Tail(inq)
    ELSE Tail(inq)

\* The data phase of command_in: the URB waits when there is no data.
DataIn ==
    /\ host = "data" /\ cmd.in
    /\ \/ /\ inHalted
          /\ host' = "clear"
          /\ UNCHANGED <<inq, recv, told>>
       \/ /\ ~inHalted /\ inq # <<>>
          /\ inq' = RestOfFront(cmd.dlen)
          /\ recv' = Truncated(Head(inq).len, cmd.dlen)
          /\ told' = Head(inq).kind
          /\ host' = IF Head(inq).kind = "csw" THEN "lost" ELSE "csw"
       \/ /\ ~inHalted /\ inq = <<>>
          /\ host' = "waiting"
          /\ UNCHANGED <<inq, recv, told>>
    /\ UNCHANGED <<wr, store, sense, inHalted, outHalted, cmd, left, tag, status, csw, gaveUp, owed>>

\* The data phase of command_out: all at once, or in several URBs.
DataOut(n) ==
    /\ host = "data" /\ ~cmd.in
    /\ \/ /\ outHalted
          /\ host' = "clear"
          /\ UNCHANGED <<device, left>>
       \/ /\ ~outHalted /\ cmd.op = "write"
          /\ n <= left
          /\ Becomes(OnOutData(Device, n * BlockSize))
          /\ left' = left - n
          /\ host' = IF n = left THEN "csw" ELSE "data"
       \/ /\ ~outHalted /\ cmd.op # "write"
          /\ Becomes(OnOutData(Device, cmd.dlen))
          /\ host' = "csw"
          /\ UNCHANGED left
    /\ UNCHANGED <<cmd, tag, recv, status, csw, gaveUp, owed, told>>

\* _data_phase recovers from a STALL: the halt is cleared.
ClearHalt ==
    /\ host = "clear"
    /\ inHalted' = (inHalted /\ ~cmd.in)
    /\ outHalted' = (outHalted /\ cmd.in)
    /\ host' = "csw"
    /\ UNCHANGED <<wr, store, sense, inq, cmd, left, tag, recv, status, csw, gaveUp, owed, told>>

ExpectedSense(c) ==
    CASE c.lun \notin Luns  -> "no such unit"
      [] c.lun \in Luns /\ c.op = "badpage" -> "invalid field"
      [] c.lun \in Luns /\ c.op = "unknown" -> "invalid command"
      [] c.lun \in Luns /\ c.op \in {"write", "format"} /\ c.lun \in ReadOnly -> "protected"
      [] OTHER -> "range"

\* What the units owe after a command that ended with status `st`.
Owed(st) ==
    IF st = 1 THEN [owed EXCEPT ![IF cmd.lun \in Luns THEN cmd.lun ELSE 0] = ExpectedSense(cmd)]
    ELSE IF cmd.op = "sense" THEN [owed EXCEPT ![cmd.lun] = "ok"]
    ELSE owed

\* _csw: the status is read; anything but a CSW is an error.  The tag is not
\* looked at.
ReadCsw ==
    /\ host = "csw"
    /\ \/ /\ inHalted
          /\ host' = "failed"
          /\ UNCHANGED <<inq, status, csw, owed>>
       \/ /\ ~inHalted /\ inq # <<>>
          /\ inq' = RestOfFront(CswLen)
          /\ IF Head(inq).kind = "csw"
             THEN /\ host' = "idle"
                  /\ status' = Head(inq).status
                  /\ csw' = Head(inq).tag
                  /\ owed' = Owed(Head(inq).status)
             ELSE /\ host' = "lost"
                  /\ UNCHANGED <<status, csw, owed>>
       \/ /\ ~inHalted /\ inq = <<>>
          /\ host' = "waiting"
          /\ UNCHANGED <<inq, status, csw, owed>>
    /\ UNCHANGED <<wr, store, sense, inHalted, outHalted, cmd, left, tag, recv, gaveUp, told>>

\* Mutant: the write that was in flight goes on.
ResetKeepsWrite(d) == d

\* on_control with Bulk-Only Mass Storage Reset.
OnReset(d) == [d EXCEPT !.wr = NoWrite]

\* Reset recovery by a host's operating system: the class request, then
\* CLEAR_FEATURE(ENDPOINT_HALT) of both endpoints.  The bound: no host resets
\* after one has left.
ResetRecovery ==
    /\ host # "idle"
    /\ gaveUp # "left"
    /\ gaveUp' = "reset"
    /\ Becomes([OnReset(Device) EXCEPT !.inHalted = FALSE, !.outHalted = FALSE])
    /\ host' = "idle"
    /\ UNCHANGED <<cmd, left, tag, recv, status, csw, owed, told>>

\* The host goes away and another attaches: reset_io flushes the endpoints
\* and runs the interface's on_reset, which MSC leaves empty.
Reattach ==
    /\ host # "idle"
    /\ gaveUp' = "left"
    /\ host' = "idle"
    /\ inq' = <<>>
    /\ inHalted' = FALSE /\ outHalted' = FALSE
    /\ UNCHANGED <<wr, store, sense, cmd, left, tag, recv, status, csw, owed, told>>

Next ==
    \/ \E c \in Commands : SendCbw(c)
    \/ DataIn
    \/ \E n \in 1 .. 2 : DataOut(n)
    \/ ClearHalt
    \/ ReadCsw
    \/ ResetRecovery
    \/ Reattach

Spec == Init /\ [][Next]_vars

\* The host goes on with a command it has begun.
FairSpec == Spec /\ WF_vars(DataIn \/ (\E n \in 1 .. 2 : DataOut(n)) \/ ClearHalt \/ ReadCsw)

-----------------------------------------------------------------------------
(* Properties.                                                             *)

Sense == {"ok", "invalid field", "range", "protected", "invalid command", "no such unit"}

WriteType == [lun : Luns, tag : 0 .. MaxCmds, lba : 0 .. NumBlocks, count : 0 .. NumBlocks + 1,
              got : Nat, val : Values \cup {Blank}, on : BOOLEAN]
ChunkType == [kind : Sense \cup {"data", "csw"}, len : Nat, val : Values \cup {Blank},
              tag : 0 .. MaxCmds, residue : Nat, status : {0, 1}]

\* Every variable has its type.
TypeOK ==
    /\ wr \in WriteType
    /\ store \in [Luns -> [0 .. (NumBlocks - 1) -> Values \cup {Blank}]]
    /\ sense \in [Luns -> Sense]
    /\ gaveUp \in {"never", "reset", "left"}
    /\ inq \in Seq(ChunkType)
    /\ inHalted \in BOOLEAN /\ outHalted \in BOOLEAN
    /\ host \in {"idle", "data", "csw", "clear", "waiting", "failed", "lost"}
    /\ cmd \in Command
    /\ left \in 0 .. 2 /\ tag \in 0 .. MaxCmds /\ recv \in Nat
    /\ status \in {0, 1} /\ csw \in 0 .. MaxCmds
    /\ owed \in [Luns -> Sense]
    /\ told \in Sense \cup {"data", "csw", "none"}

\* Nothing is left of a command: no queued data, no halted endpoint, no write
\* waiting for data.
Clean == inq = <<>> /\ ~inHalted /\ ~outHalted /\ ~wr.on

\* While no host gives up, the two sides never lose step: the host never reads
\* a CSW as data, data as a CSW, or the CSW of another command, never waits
\* for data that will not come, never meets a halt it does not expect, and
\* leaves the device clean between two commands.  (After a reset they may lose
\* it: MSC keeps the data it has queued.)
InStep ==
    gaveUp = "never" =>
        /\ host \notin {"lost", "waiting", "failed"}
        /\ host = "idle" => csw = tag /\ Clean

\* A host that attaches after another has left finds the device clean.
CleanForTheNextHost == gaveUp = "left" /\ host = "idle" => Clean

\* The store changes only by a write that is within range on a unit that may
\* be written, in its own blocks, to its own data; a unit that may not keeps
\* what it has, whatever hosts come and go.
WritesLandWhereMeant ==
    [][\A l \in Luns : \A b \in DOMAIN store[l] : store'[l][b] # store[l][b] =>
          /\ l \notin ReadOnly
          /\ gaveUp # "left" => /\ cmd.op = "write" /\ l = cmd.lun
                                /\ b \in Blocks(cmd)
                                /\ store'[l][b] = cmd.val]_vars

\* A host is told the truth of a command: the residue is what it did not
\* receive; the sense is that of the last failure of the unit it asks, since
\* it last asked, and of no other unit's; and a write reported as passed is in
\* the store.
ToldTheTruth ==
    /\ gaveUp # "reset" => \A i \in DOMAIN inq :
          host = "csw" /\ cmd.in /\ inq[i].kind = "csw" => recv + inq[i].residue = cmd.dlen
    /\ gaveUp = "never" /\ host = "csw" /\ cmd.op = "sense" => told = owed[cmd.lun]
    /\ gaveUp # "left" /\ host = "idle" /\ tag > 0 /\ csw = tag /\ cmd.op = "write" /\ status = 0
          => \A b \in Blocks(cmd) : store[cmd.lun][b] = cmd.val

\* A host that stays finishes every command.
CommandFinishes == (host # "idle") ~> (host = "idle" \/ gaveUp # "never")
=============================================================================
