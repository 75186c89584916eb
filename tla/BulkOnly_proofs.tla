--------------------------- MODULE BulkOnly_proofs ---------------------------
(***************************************************************************)
(* Proofs about mass storage over the Bulk-Only Transport: the host and    *)
(* the device stay in step, the host is told the truth, and writes land    *)
(* where they are meant; for any units, sizes and numbers of commands.     *)
(***************************************************************************)
EXTENDS BulkOnly, SequenceTheorems, TLAPS

-----------------------------------------------------------------------------
(* The invariant.                                                          *)

IsCsw(x) == x.kind = "csw"

\* The status that a command in progress gets.
Answer(x, residue) ==
    /\ IsCsw(x) /\ x.tag = tag /\ x.len = CswLen /\ x.residue = residue
    /\ gaveUp = "never" => /\ x.status = 0 => sense = Owed(0)
                           /\ x.status = 1 => sense = Owed(1)

\* Data is on its way in: some of it and then the status, or a halt and the
\* status.
InPhase ==
    /\ ~outHalted /\ ~wr.on /\ recv = 0
    /\ \/ /\ inHalted /\ cmd.op # "sense"
          /\ Len(inq) = 1 /\ Answer(inq[1], cmd.dlen)
       \/ /\ ~inHalted /\ Len(inq) = 2 /\ ~IsCsw(inq[1]) /\ inq[1].len <= cmd.dlen
          /\ Answer(inq[2], cmd.dlen - inq[1].len)
          /\ gaveUp = "never" /\ cmd.op = "sense" => inq[1].kind = owed[cmd.lun]

\* The write in progress is the command's.
Writing ==
    wr.on =>
      /\ host = "data" /\ cmd.op = "write" /\ ~outHalted
      /\ wr.tag = tag /\ wr.lun = cmd.lun /\ wr.lba = cmd.lba /\ wr.count = cmd.count
      /\ wr.val = cmd.val /\ left > 0 /\ wr.got = (cmd.count - left) * BlockSize

\* Data is on its way out: the device waits for it, or has halted the endpoint
\* and queued the status, or looks at none of it and has queued the status.
OutPhase ==
    /\ ~inHalted
    /\ \/ /\ wr.on /\ Writing /\ inq = <<>>
          /\ gaveUp = "never" => sense = owed
       \/ /\ ~wr.on /\ Len(inq) = 1 /\ Answer(inq[1], inq[1].residue)
          /\ outHalted \/ cmd.op # "write"

ClearPhase ==
    /\ ~wr.on /\ cmd.op # "sense"
    /\ (inHalted => cmd.in) /\ (outHalted => ~cmd.in)
    /\ Len(inq) = 1 /\ Answer(inq[1], inq[1].residue)
    /\ cmd.in => recv = 0 /\ inq[1].residue = cmd.dlen

CswPhase ==
    /\ ~wr.on /\ ~inHalted /\ ~outHalted
    /\ Len(inq) = 1 /\ Answer(inq[1], inq[1].residue)
    /\ cmd.in => recv + inq[1].residue = cmd.dlen
    /\ gaveUp = "never" /\ cmd.op = "sense" => told = owed[cmd.lun]

\* What a host left behind has taken the command for data.
Swallowed ==
    /\ gaveUp = "left" /\ ~inHalted /\ ~outHalted /\ recv = 0
    /\ \/ inq = <<>>
       \/ ~wr.on /\ Len(inq) = 1 /\ IsCsw(inq[1]) /\ inq[1].len = CswLen /\ inq[1].residue = 0

Phase ==
    /\ host = "idle" => /\ inq = <<>> /\ ~inHalted /\ ~outHalted
                        /\ gaveUp = "never" => ~wr.on /\ csw = tag /\ sense = owed
    /\ host = "data" /\ cmd.in => InPhase \/ Swallowed
    /\ host = "data" /\ ~cmd.in => OutPhase \/ Swallowed
    /\ host = "clear" => ClearPhase
    /\ host = "csw" => CswPhase \/ (Swallowed /\ (cmd.in => cmd.dlen = 0))
    /\ gaveUp = "never" => host \in {"idle", "data", "csw", "clear"}

Landed == \A b \in Blocks(cmd) : store[cmd.lun][b] = cmd.val

\* A write that is reported as passed is in the store.
Written ==
    /\ Writing
    /\ csw <= tag
    /\ \A i \in DOMAIN inq : IsCsw(inq[i]) =>
          /\ inq[i].tag <= tag
          /\ inq[i].tag = tag /\ cmd.op = "write" /\ inq[i].status = 0 => ~wr.on /\ Landed
    /\ csw = tag /\ cmd.op = "write" /\ status = 0 => ~wr.on /\ Landed
    /\ host # "idle" => csw < tag

\* A write is never in progress on a protected unit, nor out of range.
Allowed == wr.on => wr.lun \notin ReadOnly /\ wr.lba + wr.count <= NumBlocks

\* What the host has in hand is one of the commands it sends.
Legal == host # "idle" => cmd \in Commands

BulkInv ==
    /\ Allowed /\ Legal
    /\ gaveUp # "reset" => Phase
    /\ gaveUp # "left" => Written

-----------------------------------------------------------------------------
(* The device's handlers.                                                  *)

Dev(w, st, se, q, ih, oh) ==
    [wr |-> w, store |-> st, sense |-> se, inq |-> q, inHalted |-> ih, outHalted |-> oh]

LEMMA DevFields ==
    ASSUME NEW w, NEW st, NEW se, NEW q, NEW ih, NEW oh
    PROVE  LET d == Dev(w, st, se, q, ih, oh)
           IN  /\ d.wr = w /\ d.store = st /\ d.sense = se /\ d.inq = q
               /\ d.inHalted = ih /\ d.outHalted = oh
BY DEF Dev

LEMMA DeviceIs == Device = Dev(wr, store, sense, inq, inHalted, outHalted)
BY DEF Device, Dev

LEMMA CswIs ==
    ASSUME NEW w, NEW st, NEW se, NEW q, NEW ih, NEW oh, NEW t, NEW residue, NEW x
    PROVE  Csw(Dev(w, st, se, q, ih, oh), t, residue, x)
            = Dev(w, st, se, Append(q, CswChunk(t, residue, x)), ih, oh)
BY DEF Csw, WriteIn, Dev

LEMMA WriteInIs ==
    ASSUME NEW w, NEW st, NEW se, NEW q, NEW ih, NEW oh, NEW x
    PROVE  WriteIn(Dev(w, st, se, q, ih, oh), x) = Dev(w, st, se, Append(q, x), ih, oh)
BY DEF WriteIn, Dev

LEMMA StallIs ==
    ASSUME NEW w, NEW st, NEW se, NEW q, NEW ih, NEW oh, NEW c \in Command
    PROVE  StallDataPhase(Dev(w, st, se, q, ih, oh), c)
            = Dev(w, st, se, q, IF c.dlen # 0 /\ c.in THEN TRUE ELSE ih,
                  IF c.dlen # 0 /\ ~c.in THEN TRUE ELSE oh)
<1> c.in \in BOOLEAN
  BY DEF Command
<1>1. CASE c.dlen = 0
  BY <1>1 DEF StallDataPhase, Dev
<1>2. CASE c.dlen # 0 /\ c.in
  BY <1>2 DEF StallDataPhase, Dev
<1>3. CASE c.dlen # 0 /\ ~c.in
  BY <1>3 DEF StallDataPhase, Dev
<1> QED
  BY <1>1, <1>2, <1>3

\* What the handler of a command may do: refuse it ...
Refused(r, t, c) ==
    /\ c.op # "sense"
    /\ r = Dev(wr, store, [sense EXCEPT ![SenseUnit(c.lun)] = ExpectedSense(c)],
               Append(inq, CswChunk(t, c.dlen, 1)),
               IF c.dlen # 0 /\ c.in THEN TRUE ELSE inHalted,
               IF c.dlen # 0 /\ ~c.in THEN TRUE ELSE outHalted)

\* ... wait for the data of a write ...
Accepted(r, t, c) ==
    /\ c.op = "write" /\ c.lun \in Luns /\ c.lun \notin ReadOnly /\ InRange(c)
    /\ r = Dev([lun |-> c.lun, tag |-> t, lba |-> c.lba, count |-> c.count, got |-> 0,
                val |-> c.val, on |-> TRUE], store, sense, inq, inHalted, outHalted)

\* ... report that it is done ...
Passed(r, t, c) ==
    /\ c.op \notin {"write", "sense"} /\ (c.in => c.dlen = 0)
    /\ r = Dev(wr, store, sense, Append(inq, CswChunk(t, 0, 0)), inHalted, outHalted)

\* ... or send data and then the status.
SenseAfter(c) == IF c.op = "sense" THEN [sense EXCEPT ![c.lun] = "ok"] ELSE sense

Sent(r, t, c) ==
    /\ c.op # "write" /\ c.in /\ c.dlen # 0
    /\ \E kind \in Sense \cup {"data"}, n \in 1 .. c.dlen, v \in Values \cup {Blank} :
          /\ r = Dev(wr, store, SenseAfter(c),
                     Append(Append(inq, Chunk(kind, n, v)), CswChunk(t, c.dlen - n, 0)),
                     inHalted, outHalted)
          /\ c.op = "sense" => kind = sense[c.lun]

LEMMA FailIs ==
    ASSUME NEW t, NEW c \in Command, c.op # "sense", NEW s, s = ExpectedSense(c)
    PROVE  Refused(Fail(Device, t, c, s), t, c)
<1> DEFINE se == [sense EXCEPT ![SenseUnit(c.lun)] = s]
<1>1. [Device EXCEPT !.sense[SenseUnit(c.lun)] = s] = Dev(wr, store, se, inq, inHalted, outHalted)
  BY DEF Device, Dev
<1> HIDE DEF se
<1>2. Fail(Device, t, c, s) =
         Csw(StallDataPhase(Dev(wr, store, se, inq, inHalted, outHalted), c), t, c.dlen, 1)
  BY <1>1 DEF Fail
<1> DEFINE ih == IF c.dlen # 0 /\ c.in THEN TRUE ELSE inHalted
           oh == IF c.dlen # 0 /\ ~c.in THEN TRUE ELSE outHalted
<1>3. StallDataPhase(Dev(wr, store, se, inq, inHalted, outHalted), c) = Dev(wr, store, se, inq, ih, oh)
  BY StallIs
<1> HIDE DEF ih, oh
<1>4. Fail(Device, t, c, s) = Dev(wr, store, se, Append(inq, CswChunk(t, c.dlen, 1)), ih, oh)
  BY <1>2, <1>3, CswIs
<1> QED
  BY <1>4 DEF Refused, se, ih, oh

\* The data phase of a command that returns `len` bytes.
LEMMA DataInIs ==
    ASSUME NEW t, NEW c \in Command, NEW se, NEW kind, NEW len \in Nat, NEW v, c.in,
           c.dlen = 0 \/ len > 0
    PROVE  LET r == DataInPhase(Dev(wr, store, se, inq, inHalted, outHalted), t, c, kind, len, v)
               n == Truncated(len, c.dlen)
           IN  /\ c.dlen = 0 =>
                     r = Dev(wr, store, se, Append(inq, CswChunk(t, 0, 0)), inHalted, outHalted)
               /\ c.dlen # 0 =>
                     /\ n \in 1 .. c.dlen
                     /\ r = Dev(wr, store, se,
                                Append(Append(inq, Chunk(kind, n, v)), CswChunk(t, c.dlen - n, 0)),
                                inHalted, outHalted)
<1> DEFINE n == Truncated(len, c.dlen)
           d == Dev(wr, store, se, inq, inHalted, outHalted)
<1>1. c.dlen \in Nat
  BY DEF Command
<1>2. CASE c.dlen = 0
  <2>1. n = 0
    BY <1>2 DEF Truncated
  <2>2. StallDataPhase(d, c) = d
    BY <1>2 DEF StallDataPhase
  <2>3. DataInPhase(d, t, c, kind, len, v) = Csw(d, t, 0, 0)
    BY <1>2, <2>1, <2>2 DEF DataInPhase
  <2> QED
    BY <1>2, <2>3, CswIs
<1>3. CASE c.dlen # 0
  <2>1. n \in 1 .. c.dlen
    BY <1>1, <1>3 DEF Truncated
  <2> HIDE DEF n
  <2>2. DataInPhase(d, t, c, kind, len, v) = Csw(WriteIn(d, Chunk(kind, n, v)), t, c.dlen - n, 0)
    BY <2>1 DEF DataInPhase, n
  <2> QED
    BY <1>3, <2>1, <2>2, WriteInIs, CswIs DEF n
<1> QED
  BY <1>2, <1>3

\* What hosts send.
LEMMA CommandForms ==
    ASSUME NEW c \in Commands
    PROVE  /\ c \in Command
           /\ c.op \in {"tur", "info", "badpage", "read", "write", "sense", "format", "unknown"}
           /\ c.op = "tur" => ~c.in /\ c.dlen = 0
           /\ c.op = "format" => ~c.in
           /\ c.op \in {"info", "read", "sense", "badpage"} => c.in
           /\ c.op = "sense" => c.dlen = SenseLen /\ c.lun \in Luns
           /\ c.op = "read" => c.dlen = c.count * BlockSize /\ c.lun \in Luns /\ c.count \in 0 .. 2
           /\ c.op = "write" => /\ ~c.in /\ c.dlen = c.count * BlockSize /\ c.count \in 1 .. 2
                                /\ c.lun \in Luns
<1> USE UnitAssumption, DiskAssumption DEF Cmd, Command, SenseLen, BlockSize, ParamLen
<1>1. CASE \E l \in Luns \cup {NoLun} : c = Cmd("tur", l, 0, 0, Blank, 0, FALSE)
  BY <1>1
<1>2. CASE \E l \in Luns \cup {NoLun}, n \in {0, 8, 255} : c = Cmd("info", l, 0, 0, Blank, n, TRUE)
  BY <1>2
<1>3. CASE \E l \in Luns : c = Cmd("badpage", l, 0, 0, Blank, 255, TRUE)
  BY <1>3
<1>4. CASE \E l \in Luns : c = Cmd("sense", l, 0, 0, Blank, SenseLen, TRUE)
  BY <1>4
<1>5. CASE \E l \in Luns, b \in 0 .. NumBlocks, n \in 0 .. 2 :
              c = Cmd("read", l, b, n, Blank, n * BlockSize, TRUE)
  BY <1>5
<1>6. CASE \E l \in Luns, b \in 0 .. NumBlocks, n \in 1 .. 2, v \in Values :
              c = Cmd("write", l, b, n, v, n * BlockSize, FALSE)
  BY <1>6
<1>7. CASE \E l \in Luns : c = Cmd("format", l, 0, 0, Blank, ParamLen, FALSE)
  BY <1>7
<1>8. CASE \E l \in Luns, n \in {0, 8}, d \in BOOLEAN : c = Cmd("unknown", l, 0, 0, Blank, n, d)
  BY <1>8
<1> QED
  BY <1>1, <1>2, <1>3, <1>4, <1>5, <1>6, <1>7, <1>8 DEF Commands

\* What a read of blocks within range returns.
LEMMA ReadValueIs ==
    ASSUME TypeOK, NEW c \in Command, c.lun \in Luns, InRange(c)
    PROVE  ReadValue(Device, c) \in Values \cup {Blank}
<1> DEFINE vs == {store[c.lun][b] : b \in Blocks(c)}
<1>1. \A b \in Blocks(c) : b \in 0 .. (NumBlocks - 1)
  <2>1. c.lba \in Nat /\ c.count \in Nat /\ c.lba + c.count <= NumBlocks /\ NumBlocks \in Nat
    <3>1. c.lba \in 0 .. NumBlocks /\ c.count \in 0 .. NumBlocks + 1
      BY DEF Command
    <3> QED
      BY <3>1, DiskAssumption DEF InRange
  <2> QED
    BY <2>1 DEF Blocks
<1>2. \A v \in vs : v \in Values \cup {Blank}
  <2>1. store[c.lun] \in [0 .. (NumBlocks - 1) -> Values \cup {Blank}]
    BY DEF TypeOK
  <2>2. \A b \in Blocks(c) : store[c.lun][b] \in Values \cup {Blank}
    BY <1>1, <2>1
  <2> QED
    BY <2>2
<1>3. ReadValue(Device, c) =
         IF \E v \in vs : vs = {v} THEN CHOOSE v \in vs : TRUE ELSE Blank
  BY DEF ReadValue, Device
<1> HIDE DEF vs
<1>4. (\E v \in vs : vs = {v}) => (CHOOSE v \in vs : TRUE) \in vs
  OBVIOUS
<1> QED
  BY <1>2, <1>3, <1>4

LEMMA HandlerIs ==
    ASSUME TypeOK, NEW t, NEW c \in Commands
    PROVE  LET r == HandleCbw(Device, t, c)
           IN  Refused(r, t, c) \/ Accepted(r, t, c) \/ Passed(r, t, c) \/ Sent(r, t, c)
<1> DEFINE r == HandleCbw(Device, t, c)
<1>0. /\ c \in Command /\ c.in \in BOOLEAN /\ c.dlen \in Nat
      /\ c.op \in {"tur", "info", "badpage", "read", "write", "sense", "format", "unknown"}
  BY CommandForms DEF Command
<1>1. CASE c.lun \notin Luns
  BY <1>0, <1>1, CommandForms, FailIs DEF HandleCbw, ExpectedSense
<1>2. CASE c.lun \in Luns
  <2>0. r = Dispatch(Device, t, c)
    BY <1>2 DEF HandleCbw
  <2>1. CASE c.op = "tur"
    <3>1. r = Csw(Device, t, 0, 0)
      BY <2>0, <2>1 DEF Dispatch
    <3>2. r = Dev(wr, store, sense, Append(inq, CswChunk(t, 0, 0)), inHalted, outHalted)
      BY <3>1, DeviceIs, CswIs
    <3> QED
      BY <2>1, <3>2, CommandForms DEF Passed
  <2>2. CASE c.op = "info"
    <3>1. r = DataInPhase(Device, t, c, "data", InfoLen, Blank)
      BY <2>0, <2>2 DEF Dispatch
    <3>2. c.in
      BY <2>2, CommandForms
    <3>3. CASE c.dlen = 0
      <4>1. r = Dev(wr, store, sense, Append(inq, CswChunk(t, 0, 0)), inHalted, outHalted)
        BY <1>0, <3>1, <3>2, <3>3, DataInIs, DeviceIs DEF InfoLen
      <4> QED
        BY <2>2, <3>3, <4>1 DEF Passed
    <3>4. CASE c.dlen # 0
      <4>1. PICK n \in 1 .. c.dlen :
              r = Dev(wr, store, sense,
                      Append(Append(inq, Chunk("data", n, Blank)), CswChunk(t, c.dlen - n, 0)),
                      inHalted, outHalted)
        BY <1>0, <3>1, <3>2, <3>4, DataInIs, DeviceIs DEF InfoLen
      <4> QED
        BY <2>2, <3>2, <3>4, <4>1 DEF Sent, SenseAfter
    <3> QED
      BY <3>3, <3>4
  <2>3. CASE c.op = "badpage"
    <3>1. r = Fail(Device, t, c, "invalid field")
      BY <2>0, <2>3 DEF Dispatch
    <3> QED
      BY <1>0, <1>2, <2>3, <3>1, FailIs DEF ExpectedSense
  <2>4. CASE c.op = "read"
    <3>1. CASE InRange(c)
      <4> DEFINE v == ReadValue(Device, c)
      <4>1. r = DataInPhase(Device, t, c, "data", c.count * BlockSize, v)
        BY <2>0, <2>4, <3>1 DEF Dispatch
      <4>2. /\ c.in /\ c.count * BlockSize \in Nat
            /\ c.dlen = 0 \/ c.count * BlockSize > 0
        BY <1>0, <2>4, CommandForms DEF BlockSize
      <4>3. v \in Values \cup {Blank}
        BY <1>0, <1>2, <3>1, ReadValueIs
      <4> HIDE DEF v
      <4>4. CASE c.dlen = 0
        <5>1. r = Dev(wr, store, sense, Append(inq, CswChunk(t, 0, 0)), inHalted, outHalted)
          BY <1>0, <4>1, <4>2, <4>4, DataInIs, DeviceIs
        <5> QED
          BY <2>4, <4>4, <5>1 DEF Passed
      <4>5. CASE c.dlen # 0
        <5>1. PICK n \in 1 .. c.dlen :
                r = Dev(wr, store, sense,
                        Append(Append(inq, Chunk("data", n, v)), CswChunk(t, c.dlen - n, 0)),
                        inHalted, outHalted)
          BY <1>0, <4>1, <4>2, <4>5, DataInIs, DeviceIs
        <5> QED
          BY <2>4, <4>2, <4>3, <4>5, <5>1 DEF Sent, SenseAfter
      <4> QED
        BY <4>4, <4>5
    <3>2. CASE ~InRange(c)
      <4>1. r = Fail(Device, t, c, "range")
        BY <2>0, <2>4, <3>2 DEF Dispatch
      <4> QED
        BY <1>0, <1>2, <2>4, <4>1, FailIs DEF ExpectedSense
    <3> QED
      BY <3>1, <3>2
  <2>5. CASE c.op = "write"
    <3>1. CASE c.lun \in ReadOnly
      <4>1. r = Fail(Device, t, c, "protected")
        BY <2>0, <2>5, <3>1 DEF Dispatch, IsProtected
      <4> QED
        BY <1>0, <1>2, <2>5, <3>1, <4>1, FailIs DEF ExpectedSense
    <3>2. CASE c.lun \notin ReadOnly /\ ~InRange(c)
      <4>1. r = Fail(Device, t, c, "range")
        BY <2>0, <2>5, <3>2 DEF Dispatch, IsProtected
      <4> QED
        BY <1>0, <1>2, <2>5, <3>2, <4>1, FailIs DEF ExpectedSense
    <3>3. CASE c.lun \notin ReadOnly /\ InRange(c)
      <4>1. r = [Device EXCEPT !.wr = [lun |-> c.lun, tag |-> t, lba |-> c.lba, count |-> c.count,
                                       got |-> 0, val |-> c.val, on |-> TRUE]]
        BY <2>0, <2>5, <3>3 DEF Dispatch, IsProtected
      <4> QED
        BY <1>2, <2>5, <3>3, <4>1 DEF Accepted, Device, Dev
    <3> QED
      BY <3>1, <3>2, <3>3
  <2>6. CASE c.op = "sense"
    <3> DEFINE se == [sense EXCEPT ![c.lun] = "ok"]
    <3>1. SenseCleared(Device, c.lun) = Dev(wr, store, se, inq, inHalted, outHalted)
      BY DEF SenseCleared, Device, Dev
    <3>2. r = DataInPhase(SenseCleared(Device, c.lun), t, c, sense[c.lun], SenseLen, Blank)
      BY <2>0, <2>6 DEF Dispatch, Device
    <3>3. c.in /\ c.dlen # 0 /\ SenseLen \in Nat /\ SenseLen > 0
      BY <2>6, CommandForms DEF SenseLen
    <3>4. SenseAfter(c) = se
      BY <2>6 DEF SenseAfter
    <3> HIDE DEF se
    <3>5. PICK n \in 1 .. c.dlen :
            r = Dev(wr, store, se,
                    Append(Append(inq, Chunk(sense[c.lun], n, Blank)), CswChunk(t, c.dlen - n, 0)),
                    inHalted, outHalted)
      BY <1>0, <3>1, <3>2, <3>3, DataInIs
    <3>6. sense[c.lun] \in Sense
      BY <1>2 DEF TypeOK
    <3> QED
      BY <2>6, <3>3, <3>4, <3>5, <3>6 DEF Sent
  <2>7. CASE c.op = "format"
    <3>1. CASE c.lun \in ReadOnly
      <4>1. r = Fail(Device, t, c, "protected")
        BY <2>0, <2>7, <3>1 DEF Dispatch, IsProtected
      <4> QED
        BY <1>0, <1>2, <2>7, <3>1, <4>1, FailIs DEF ExpectedSense
    <3>2. CASE c.lun \notin ReadOnly
      <4>1. r = Csw(Device, t, 0, 0)
        BY <2>0, <2>7, <3>2 DEF Dispatch, IsProtected
      <4>2. r = Dev(wr, store, sense, Append(inq, CswChunk(t, 0, 0)), inHalted, outHalted)
        BY <4>1, DeviceIs, CswIs
      <4> QED
        BY <2>7, <4>2, CommandForms DEF Passed
    <3> QED
      BY <3>1, <3>2
  <2>8. CASE c.op = "unknown"
    <3>1. r = Fail(Device, t, c, "invalid command")
      BY <2>0, <2>8 DEF Dispatch
    <3> QED
      BY <1>0, <1>2, <2>8, <3>1, FailIs DEF ExpectedSense
  <2> QED
    BY <1>0, <2>1, <2>2, <2>3, <2>4, <2>5, <2>6, <2>7, <2>8
<1> QED
  BY <1>1, <1>2

\* What data that arrives does to the write that waits for it.
StoreAfter(w, got, v) ==
    [store EXCEPT ![w.lun] =
        [b \in DOMAIN store[w.lun] |->
            IF b \in {k \in Blocks(w) : (k + 1 - w.lba) * BlockSize <= got} THEN v ELSE store[w.lun][b]]]

ValueAfter(w, len) == IF len % BlockSize = 0 THEN w.val ELSE Blank

LEMMA RecvWriteIs ==
    ASSUME NEW len, NEW got, got = wr.got + len
    PROVE  RecvWrite(Device, len) =
              IF WriteDone(got, wr.count)
              THEN Dev(NoWrite, StoreAfter(wr, got, ValueAfter(wr, len)), sense,
                       Append(inq, CswChunk(wr.tag, 0, 0)), inHalted, outHalted)
              ELSE Dev([wr EXCEPT !.got = got, !.val = ValueAfter(wr, len)], store, sense, inq,
                       inHalted, outHalted)
<1> DEFINE v == ValueAfter(wr, len)
           st == StoreAfter(wr, got, v)
<1>1. CASE WriteDone(got, wr.count)
  <2>1. RecvWrite(Device, len) =
           Csw([WriteEnded(Device) EXCEPT !.store[wr.lun] =
                   [b \in DOMAIN @ |->
                       IF b \in {k \in Blocks(wr) : (k + 1 - wr.lba) * BlockSize <= got}
                       THEN v ELSE @[b]]], wr.tag, 0, 0)
    BY <1>1 DEF RecvWrite, Device, ValueAfter
  <2>2. WriteEnded(Device) = Dev(NoWrite, store, sense, inq, inHalted, outHalted)
    BY DEF WriteEnded, Device, Dev
  <2>3. [Dev(NoWrite, store, sense, inq, inHalted, outHalted) EXCEPT !.store[wr.lun] =
            [b \in DOMAIN @ |->
                IF b \in {k \in Blocks(wr) : (k + 1 - wr.lba) * BlockSize <= got}
                THEN v ELSE @[b]]]
         = Dev(NoWrite, st, sense, inq, inHalted, outHalted)
    BY DEF Dev, StoreAfter
  <2> HIDE DEF v, st
  <2>4. RecvWrite(Device, len) = Csw(Dev(NoWrite, st, sense, inq, inHalted, outHalted), wr.tag, 0, 0)
    BY <2>1, <2>2, <2>3
  <2> QED
    BY <1>1, <2>4, CswIs DEF st, v
<1>2. CASE ~WriteDone(got, wr.count)
  <2>1. RecvWrite(Device, len) = [Device EXCEPT !.wr.got = got, !.wr.val = v]
    BY <1>2 DEF RecvWrite, Device, ValueAfter
  <2> HIDE DEF v
  <2>2. [Device EXCEPT !.wr.got = got, !.wr.val = v] =
           Dev([wr EXCEPT !.got = got, !.val = v], store, sense, inq, inHalted, outHalted)
    <3>1. \A w : [Dev(w, store, sense, inq, inHalted, outHalted) EXCEPT !.wr.val = v]
                  = Dev([w EXCEPT !.val = v], store, sense, inq, inHalted, outHalted)
      BY DEF Dev
    <3>2. [Device EXCEPT !.wr.got = got]
             = Dev([wr EXCEPT !.got = got], store, sense, inq, inHalted, outHalted)
      BY DEF Device, Dev
    <3> QED
      BY <3>1, <3>2
  <2> QED
    BY <1>2, <2>1, <2>2 DEF v
<1> QED
  BY <1>1, <1>2

LEMMA BecomesDev ==
    ASSUME NEW w, NEW st, NEW se, NEW q, NEW ih, NEW oh, Becomes(Dev(w, st, se, q, ih, oh))
    PROVE  wr' = w /\ store' = st /\ sense' = se /\ inq' = q /\ inHalted' = ih /\ outHalted' = oh
BY DEF Becomes, Dev

LEMMA BecomesDevice ==
    ASSUME Becomes(Device)
    PROVE  UNCHANGED <<wr, store, sense, inq, inHalted, outHalted>>
BY DEF Becomes, Device

LEMMA TypeInit == Init => TypeOK
<1> SUFFICES ASSUME Init PROVE TypeOK
  OBVIOUS
<1> USE UnitAssumption, DiskAssumption
<1>1. Cmd("tur", 0, 0, 0, Blank, 0, FALSE) \in Command
  BY DEF Cmd, Command
<1>2. NoWrite \in WriteType
  BY DEF NoWrite, WriteType
<1>3. store \in [Luns -> [0 .. (NumBlocks - 1) -> Values \cup {Blank}]]
  BY DEF Init
<1>4. /\ sense \in [Luns -> Sense] /\ owed \in [Luns -> Sense] /\ inq \in Seq(ChunkType)
      /\ told \in Sense \cup {"data", "csw", "none"}
  BY DEF Init, Sense
<1>5. wr \in WriteType /\ cmd \in Command
  BY <1>1, <1>2 DEF Init
<1>6. gaveUp \in {"never", "reset", "left"} /\ inHalted \in BOOLEAN /\ outHalted \in BOOLEAN
  BY DEF Init
<1>7. /\ host \in {"idle", "data", "csw", "clear", "waiting", "failed", "lost"}
      /\ left \in 0 .. 2 /\ recv \in Nat /\ status \in {0, 1}
  BY DEF Init
<1>8. tag \in 0 .. MaxCmds /\ csw \in 0 .. MaxCmds
  <2>1. 0 \in 0 .. MaxCmds
    BY DiskAssumption
  <2> QED
    BY <2>1 DEF Init
<1> QED
  BY <1>3, <1>4, <1>5, <1>6, <1>7, <1>8 DEF TypeOK

LEMMA InvInit == Init => BulkInv
<1> SUFFICES ASSUME Init PROVE BulkInv
  OBVIOUS
<1>1. /\ wr.on = FALSE /\ host = "idle" /\ inq = <<>> /\ ~inHalted /\ ~outHalted
      /\ csw = 0 /\ tag = 0 /\ sense = owed /\ cmd.op = "tur" /\ gaveUp = "never"
  BY DEF Init, NoWrite, Cmd
<1> QED
  BY <1>1 DEF BulkInv, Allowed, Legal, Phase, Written, Writing

-----------------------------------------------------------------------------
(* Queues and types.                                                       *)

LEMMA Appended ==
    ASSUME NEW S, NEW s \in Seq(S), NEW x
    PROVE  /\ x \in S => Append(s, x) \in Seq(S)
           /\ Len(Append(s, x)) = Len(s) + 1
           /\ \A i \in DOMAIN Append(s, x) :
                 (i \in DOMAIN s /\ Append(s, x)[i] = s[i]) \/ Append(s, x)[i] = x
           /\ s = <<>> => Append(s, x)[1] = x /\ Len(Append(s, x)) = 1
<1>1. /\ Len(Append(s, x)) = Len(s) + 1 /\ Len(s) \in Nat
      /\ DOMAIN Append(s, x) = DOMAIN s \cup {Len(s) + 1}
      /\ Append(s, x)[Len(s) + 1] = x
      /\ \A i \in DOMAIN s : Append(s, x)[i] = s[i]
  OBVIOUS
<1>2. x \in S => Append(s, x) \in Seq(S)
  OBVIOUS
<1> QED
  BY <1>1, <1>2

LEMMA ChunkTyped ==
    /\ \A t \in 0 .. MaxCmds, r \in Nat, x \in {0, 1} : CswChunk(t, r, x) \in ChunkType
    /\ \A kind \in Sense \cup {"data"}, n \in Nat, v \in Values \cup {Blank} :
          Chunk(kind, n, v) \in ChunkType
BY DiskAssumption DEF CswChunk, Chunk, ChunkType, CswLen

LEMMA ChunkFields ==
    /\ \A t, r, x : LET k == CswChunk(t, r, x)
                    IN  IsCsw(k) /\ k.tag = t /\ k.residue = r /\ k.status = x /\ k.len = CswLen
    /\ \A kind \in Sense \cup {"data"} : \A n, v :
          LET k == Chunk(kind, n, v) IN ~IsCsw(k) /\ k.kind = kind /\ k.len = n
BY DEF CswChunk, Chunk, IsCsw, Sense

DeviceOK ==
    /\ wr \in WriteType
    /\ store \in [Luns -> [0 .. (NumBlocks - 1) -> Values \cup {Blank}]]
    /\ sense \in [Luns -> Sense]
    /\ inq \in Seq(ChunkType) /\ inHalted \in BOOLEAN /\ outHalted \in BOOLEAN

HostOK ==
    /\ gaveUp \in {"never", "reset", "left"}
    /\ host \in {"idle", "data", "csw", "clear", "waiting", "failed", "lost"}
    /\ cmd \in Command
    /\ left \in 0 .. 2 /\ tag \in 0 .. MaxCmds /\ recv \in Nat
    /\ status \in {0, 1} /\ csw \in 0 .. MaxCmds
    /\ owed \in [Luns -> Sense]
    /\ told \in Sense \cup {"data", "csw", "none"}

LEMMA TypeParts ==
    ASSUME DeviceOK', HostOK'
    PROVE  TypeOK'
BY DEF TypeOK, DeviceOK, HostOK

LEMMA NoWriteTyped == NoWrite \in WriteType /\ NoWrite.on = FALSE
BY UnitAssumption, DiskAssumption DEF NoWrite, WriteType

LEMMA StoreTyped ==
    ASSUME TypeOK, NEW v \in Values \cup {Blank}, NEW got
    PROVE  StoreAfter(wr, got, v) \in [Luns -> [0 .. (NumBlocks - 1) -> Values \cup {Blank}]]
<1>1. /\ wr.lun \in Luns
      /\ store \in [Luns -> [0 .. (NumBlocks - 1) -> Values \cup {Blank}]]
  BY DEF TypeOK, WriteType
<1>2. /\ DOMAIN store[wr.lun] = 0 .. (NumBlocks - 1)
      /\ \A b \in 0 .. (NumBlocks - 1) : store[wr.lun][b] \in Values \cup {Blank}
  BY <1>1
<1> DEFINE f == [b \in DOMAIN store[wr.lun] |->
                   IF b \in {k \in Blocks(wr) : (k + 1 - wr.lba) * BlockSize <= got}
                   THEN v ELSE store[wr.lun][b]]
<1>3. f \in [0 .. (NumBlocks - 1) -> Values \cup {Blank}]
  BY <1>2
<1> HIDE DEF f
<1>4. StoreAfter(wr, got, v) = [store EXCEPT ![wr.lun] = f]
  BY DEF StoreAfter, f
<1> QED
  BY <1>1, <1>3, <1>4

\* Data arrives for a write.
Ends(got, v) ==
    /\ WriteDone(got, wr.count) /\ wr' = NoWrite /\ store' = StoreAfter(wr, got, v)
    /\ inq' = Append(inq, CswChunk(wr.tag, 0, 0))

GoesOn(got, v) ==
    /\ ~WriteDone(got, wr.count) /\ UNCHANGED <<store, inq>>
    /\ wr' \in WriteType /\ wr'.on = wr.on /\ wr'.tag = wr.tag /\ wr'.lun = wr.lun
    /\ wr'.lba = wr.lba /\ wr'.count = wr.count /\ wr'.got = got /\ wr'.val = v

LEMMA Receives ==
    ASSUME TypeOK, NEW len \in Nat, Becomes(RecvWrite(Device, len))
    PROVE  /\ DeviceOK' /\ UNCHANGED <<sense, inHalted, outHalted>>
           /\ Ends(wr.got + len, ValueAfter(wr, len)) \/ GoesOn(wr.got + len, ValueAfter(wr, len))
<1>1. PICK got, v : got = wr.got + len /\ v = ValueAfter(wr, len)
  OBVIOUS
<1>2. /\ wr \in WriteType /\ wr.got \in Nat /\ wr.tag \in 0 .. MaxCmds /\ wr.val \in Values \cup {Blank}
  BY DEF TypeOK, WriteType
<1>3. got \in Nat /\ v \in Values \cup {Blank}
  BY <1>1, <1>2 DEF ValueAfter
<1>4. CASE WriteDone(got, wr.count)
  <2>1. RecvWrite(Device, len) =
           Dev(NoWrite, StoreAfter(wr, got, v), sense, Append(inq, CswChunk(wr.tag, 0, 0)),
               inHalted, outHalted)
    BY <1>1, <1>4, RecvWriteIs
  <2>2. /\ wr' = NoWrite /\ store' = StoreAfter(wr, got, v)
        /\ inq' = Append(inq, CswChunk(wr.tag, 0, 0)) /\ UNCHANGED <<sense, inHalted, outHalted>>
    BY <2>1, BecomesDev
  <2>3. CswChunk(wr.tag, 0, 0) \in ChunkType
    BY <1>2, ChunkTyped
  <2>4. inq' \in Seq(ChunkType)
    BY <2>2, <2>3, Appended DEF TypeOK
  <2>5. wr' \in WriteType
    BY <2>2, NoWriteTyped
  <2>6. store' \in [Luns -> [0 .. (NumBlocks - 1) -> Values \cup {Blank}]]
    BY <1>3, <2>2, StoreTyped
  <2>7. DeviceOK'
    BY <2>2, <2>4, <2>5, <2>6 DEF DeviceOK, TypeOK
  <2> QED
    BY <1>1, <1>4, <2>2, <2>7 DEF Ends
<1>5. CASE ~WriteDone(got, wr.count)
  <2> DEFINE w == [wr EXCEPT !.got = got, !.val = v]
  <2>1. /\ w \in WriteType /\ w.on = wr.on /\ w.tag = wr.tag /\ w.lun = wr.lun /\ w.lba = wr.lba
        /\ w.count = wr.count /\ w.got = got /\ w.val = v
    BY <1>2, <1>3 DEF WriteType
  <2>2. RecvWrite(Device, len) = Dev(w, store, sense, inq, inHalted, outHalted)
    BY <1>1, <1>5, RecvWriteIs
  <2> HIDE DEF w
  <2>3. wr' = w /\ UNCHANGED <<store, inq, sense, inHalted, outHalted>>
    BY <2>2, BecomesDev
  <2>4. DeviceOK'
    BY <2>1, <2>3 DEF DeviceOK, TypeOK
  <2> QED
    BY <1>1, <1>5, <2>1, <2>3, <2>4 DEF GoesOn
<1> QED
  BY <1>4, <1>5

-----------------------------------------------------------------------------
(* A command is sent.                                                      *)

SendHost(c) ==
    /\ host = "idle" /\ c \in Command /\ tag' = tag + 1 /\ cmd' = c /\ recv' = 0 /\ told' = "none"
    /\ left' = IF c.op = "write" THEN c.count ELSE 0
    /\ status' = 1 /\ UNCHANGED <<csw, gaveUp, owed>>
    /\ HostOK'

LEMMA SendHostIs ==
    ASSUME TypeOK, NEW c \in Commands, SendCbw(c)
    PROVE  SendHost(c)
<1>1. /\ host = "idle" /\ tag < MaxCmds /\ tag' = tag + 1 /\ cmd' = c /\ recv' = 0 /\ told' = "none"
      /\ left' = IF c.op = "write" THEN c.count ELSE 0
      /\ status' = 1 /\ UNCHANGED <<csw, gaveUp, owed>>
      /\ host' \in {"failed", "csw", "data"}
  BY DEF SendCbw
<1>2. c \in Command /\ left' \in 0 .. 2 /\ tag' \in 0 .. MaxCmds
  BY <1>1, CommandForms, DiskAssumption DEF TypeOK
<1>3. HostOK'
  BY <1>1, <1>2 DEF HostOK, TypeOK
<1> QED
  BY <1>1, <1>2, <1>3 DEF SendHost

\* The command is refused, accepted, passed or answered with data.
Refuses(c) ==
    /\ c.op # "sense"
    /\ sense' = [sense EXCEPT ![SenseUnit(c.lun)] = ExpectedSense(c)]
    /\ inq' = Append(inq, CswChunk(tag + 1, c.dlen, 1))
    /\ inHalted' = IF c.dlen # 0 /\ c.in THEN TRUE ELSE inHalted
    /\ outHalted' = IF c.dlen # 0 /\ ~c.in THEN TRUE ELSE outHalted
    /\ UNCHANGED <<wr, store>>

Accepts(c) ==
    /\ c.op = "write" /\ c.lun \in Luns /\ c.lun \notin ReadOnly /\ InRange(c)
    /\ wr' = [lun |-> c.lun, tag |-> tag + 1, lba |-> c.lba, count |-> c.count, got |-> 0,
              val |-> c.val, on |-> TRUE]
    /\ UNCHANGED <<store, sense, inq, inHalted, outHalted>>

Passes(c) ==
    /\ c.op \notin {"write", "sense"} /\ (c.in => c.dlen = 0)
    /\ inq' = Append(inq, CswChunk(tag + 1, 0, 0))
    /\ UNCHANGED <<wr, store, sense, inHalted, outHalted>>

Sends(c) ==
    /\ c.op # "write" /\ c.in /\ c.dlen # 0
    /\ sense' = SenseAfter(c)
    /\ \E kind \in Sense \cup {"data"}, n \in 1 .. c.dlen, v \in Values \cup {Blank} :
          /\ inq' = Append(Append(inq, Chunk(kind, n, v)), CswChunk(tag + 1, c.dlen - n, 0))
          /\ c.op = "sense" => kind = sense[c.lun]
    /\ UNCHANGED <<wr, store, inHalted, outHalted>>

Handled(c) == Refuses(c) \/ Accepts(c) \/ Passes(c) \/ Sends(c)

SendHostGoes(c) == host' = IF c.dlen = 0 THEN "csw" ELSE "data"

LEMMA SendCases ==
    ASSUME TypeOK, NEW c \in Commands, SendCbw(c)
    PROVE  \/ outHalted /\ host' = "failed" /\ UNCHANGED <<wr, store, sense, inq, inHalted, outHalted>>
           \/ ~outHalted /\ wr.on /\ SendHostGoes(c) /\ Becomes(RecvWrite(Device, CbwLen))
           \/ ~outHalted /\ ~wr.on /\ SendHostGoes(c) /\ Handled(c)
<1>1. CASE outHalted
  BY <1>1 DEF SendCbw, device
<1>2. CASE ~outHalted
  <2>1. SendHostGoes(c) /\ Becomes(OnOutCbw(Device, tag + 1, c))
    BY <1>2 DEF SendCbw, SendHostGoes
  <2>2. CASE wr.on
    BY <1>2, <2>1, <2>2 DEF OnOutCbw, Device
  <2>3. CASE ~wr.on
    <3>1. PICK r : r = HandleCbw(Device, tag + 1, c)
      OBVIOUS
    <3>2. Becomes(r)
      BY <2>1, <2>3, <3>1 DEF OnOutCbw, Device
    <3>3. Refused(r, tag + 1, c) \/ Accepted(r, tag + 1, c) \/ Passed(r, tag + 1, c)
            \/ Sent(r, tag + 1, c)
      BY <3>1, HandlerIs
    <3>4. CASE Refused(r, tag + 1, c)
      BY <1>2, <2>1, <2>3, <3>2, <3>4, BecomesDev DEF Refused, Refuses, Handled
    <3>5. CASE Accepted(r, tag + 1, c)
      BY <1>2, <2>1, <2>3, <3>2, <3>5, BecomesDev DEF Accepted, Accepts, Handled
    <3>6. CASE Passed(r, tag + 1, c)
      BY <1>2, <2>1, <2>3, <3>2, <3>6, BecomesDev DEF Passed, Passes, Handled
    <3>7. CASE Sent(r, tag + 1, c)
      <4>1. PICK kind \in Sense \cup {"data"}, n \in 1 .. c.dlen, v \in Values \cup {Blank} :
              /\ r = Dev(wr, store, SenseAfter(c),
                         Append(Append(inq, Chunk(kind, n, v)), CswChunk(tag + 1, c.dlen - n, 0)),
                         inHalted, outHalted)
              /\ c.op = "sense" => kind = sense[c.lun]
        BY <3>7 DEF Sent
      <4>2. /\ sense' = SenseAfter(c)
            /\ inq' = Append(Append(inq, Chunk(kind, n, v)), CswChunk(tag + 1, c.dlen - n, 0))
            /\ UNCHANGED <<wr, store, inHalted, outHalted>>
        BY <3>2, <4>1, BecomesDev
      <4>3. Sends(c)
        BY <3>7, <4>1, <4>2 DEF Sent, Sends
      <4> QED
        BY <1>2, <2>1, <2>3, <4>3 DEF Handled
    <3> QED
      BY <3>3, <3>4, <3>5, <3>6, <3>7
  <2> QED
    BY <2>2, <2>3
<1> QED
  BY <1>1, <1>2

\* The device's variables keep their types, whatever the handler does.
LEMMA HandledTyped ==
    ASSUME TypeOK, NEW c \in Commands, SendHost(c), Handled(c)
    PROVE  DeviceOK'
<1>0. /\ DeviceOK /\ c \in Command /\ c.dlen \in Nat /\ c.in \in BOOLEAN
      /\ tag + 1 \in 0 .. MaxCmds /\ MaxCmds \in Nat
  BY CommandForms, DiskAssumption DEF TypeOK, DeviceOK, Command, SendHost, HostOK
<1>1. CASE Refuses(c)
  <2>1. sense' \in [Luns -> Sense]
    <3>1. SenseUnit(c.lun) \in Luns /\ ExpectedSense(c) \in Sense
      BY UnitAssumption DEF SenseUnit, ExpectedSense, Sense
    <3> QED
      BY <1>0, <1>1, <3>1 DEF Refuses, DeviceOK
  <2>2. inq' \in Seq(ChunkType)
    <3>1. CswChunk(tag + 1, c.dlen, 1) \in ChunkType
      BY <1>0, ChunkTyped
    <3> QED
      BY <1>0, <1>1, <3>1, Appended DEF Refuses, DeviceOK
  <2>3. inHalted' \in BOOLEAN /\ outHalted' \in BOOLEAN
    BY <1>0, <1>1 DEF Refuses, DeviceOK
  <2> QED
    BY <1>0, <1>1, <2>1, <2>2, <2>3 DEF Refuses, DeviceOK
<1>2. CASE Accepts(c)
  <2>1. wr' \in WriteType
    BY <1>0, <1>2 DEF Accepts, WriteType, Command
  <2> QED
    BY <1>0, <1>2, <2>1 DEF Accepts, DeviceOK
<1>3. CASE Passes(c)
  <2>1. CswChunk(tag + 1, 0, 0) \in ChunkType
    BY <1>0, ChunkTyped
  <2>2. inq' \in Seq(ChunkType)
    BY <1>0, <1>3, <2>1, Appended DEF Passes, DeviceOK
  <2> QED
    BY <1>0, <1>3, <2>2 DEF Passes, DeviceOK
<1>4. CASE Sends(c)
  <2>1. PICK kind \in Sense \cup {"data"}, n \in 1 .. c.dlen, v \in Values \cup {Blank} :
          inq' = Append(Append(inq, Chunk(kind, n, v)), CswChunk(tag + 1, c.dlen - n, 0))
    BY <1>4 DEF Sends
  <2>2. n \in Nat /\ c.dlen - n \in Nat
    BY <1>0, <2>1
  <2>3. Chunk(kind, n, v) \in ChunkType /\ CswChunk(tag + 1, c.dlen - n, 0) \in ChunkType
    BY <1>0, <2>2, ChunkTyped
  <2>4. Append(inq, Chunk(kind, n, v)) \in Seq(ChunkType)
    BY <1>0, <2>3, Appended DEF DeviceOK
  <2>5. inq' \in Seq(ChunkType)
    BY <2>1, <2>3, <2>4, Appended
  <2>6. sense' \in [Luns -> Sense]
    BY <1>0, <1>4 DEF Sends, SenseAfter, DeviceOK, Sense
  <2> QED
    BY <1>0, <1>4, <2>5, <2>6 DEF Sends, DeviceOK
<1> QED
  BY <1>1, <1>2, <1>3, <1>4 DEF Handled

\* A host that has not come after another is between commands with no write in
\* progress; if it has not reset the device either, nothing else is left.
LEMMA AtRest ==
    ASSUME TypeOK, BulkInv, host = "idle"
    PROVE  /\ gaveUp # "left" => ~wr.on
           /\ gaveUp # "reset" => inq = <<>> /\ ~inHalted /\ ~outHalted
           /\ gaveUp = "never" => sense = owed /\ csw = tag
BY DEF BulkInv, Phase, Written, Writing

\* What is queued after a command: what was there, and its own status.
LEMMA NewTags ==
    ASSUME TypeOK, NEW c \in Commands, SendHost(c), Handled(c)
    PROVE  \A i \in DOMAIN inq' : IsCsw(inq'[i]) =>
              \/ i \in DOMAIN inq /\ inq'[i] = inq[i]
              \/ inq'[i].tag = tag + 1 /\ ~(c.op = "write" /\ inq'[i].status = 0)
<1>0. inq \in Seq(ChunkType)
  BY DEF TypeOK
<1>1. CASE Refuses(c)
  <2>1. inq' = Append(inq, CswChunk(tag + 1, c.dlen, 1))
    BY <1>1 DEF Refuses
  <2> QED
    BY <1>0, <2>1, Appended, ChunkFields
<1>2. CASE Accepts(c)
  BY <1>2 DEF Accepts
<1>3. CASE Passes(c)
  <2>1. inq' = Append(inq, CswChunk(tag + 1, 0, 0)) /\ c.op # "write"
    BY <1>3 DEF Passes
  <2> QED
    BY <1>0, <2>1, Appended, ChunkFields
<1>4. CASE Sends(c)
  <2>1. PICK kind \in Sense \cup {"data"}, n \in 1 .. c.dlen, v \in Values \cup {Blank} :
          inq' = Append(Append(inq, Chunk(kind, n, v)), CswChunk(tag + 1, c.dlen - n, 0))
    BY <1>4 DEF Sends
  <2> DEFINE x == Chunk(kind, n, v)
             y == CswChunk(tag + 1, c.dlen - n, 0)
  <2>2. ~IsCsw(x) /\ y.tag = tag + 1 /\ c.op # "write"
    BY <1>4, ChunkFields DEF Sends
  <2>3. x \in ChunkType
    <3>1. n \in Nat
      BY CommandForms DEF Command
    <3> QED
      BY <3>1, ChunkTyped
  <2> HIDE DEF x, y
  <2>4. /\ Append(inq, x) \in Seq(ChunkType)
        /\ \A i \in DOMAIN Append(inq, x) :
              (i \in DOMAIN inq /\ Append(inq, x)[i] = inq[i]) \/ Append(inq, x)[i] = x
    BY <1>0, <2>3, Appended
  <2>5. \A i \in DOMAIN inq' : (i \in DOMAIN Append(inq, x) /\ inq'[i] = Append(inq, x)[i]) \/ inq'[i] = y
    BY <2>1, <2>4, Appended DEF x, y
  <2> QED
    BY <2>2, <2>4, <2>5
<1> QED
  BY <1>1, <1>2, <1>3, <1>4 DEF Handled

LEMMA SendWritten ==
    ASSUME TypeOK, BulkInv, NEW c \in Commands, SendHost(c), gaveUp # "left", host' # "idle",
           Writing',
           \A i \in DOMAIN inq' : IsCsw(inq'[i]) =>
              \/ i \in DOMAIN inq /\ inq'[i] = inq[i]
              \/ inq'[i].tag = tag + 1 /\ ~(c.op = "write" /\ inq'[i].status = 0)
    PROVE  Written'
<1>1. /\ csw <= tag /\ tag \in Nat /\ csw \in Nat /\ csw' = csw /\ tag' = tag + 1 /\ cmd' = c
      /\ \A i \in DOMAIN inq : IsCsw(inq[i]) => inq[i].tag <= tag /\ inq[i].tag \in Nat
  <2>1. tag \in Nat /\ csw \in Nat /\ inq \in Seq(ChunkType)
    BY DiskAssumption DEF TypeOK
  <2>2. \A i \in DOMAIN inq : inq[i] \in ChunkType
    BY <2>1
  <2>3. \A i \in DOMAIN inq : inq[i].tag \in Nat
    BY <2>2, DiskAssumption DEF ChunkType
  <2> QED
    BY <2>1, <2>3 DEF BulkInv, Written, SendHost
<1>2. \A i \in DOMAIN inq' : IsCsw(inq'[i]) =>
          /\ inq'[i].tag <= tag'
          /\ inq'[i].tag = tag' => ~(c.op = "write" /\ inq'[i].status = 0)
  BY <1>1
<1>3. csw' < tag'
  BY <1>1
<1> QED
  BY <1>1, <1>2, <1>3 DEF Written, IsCsw

\* The phase a handled command leaves behind.
LEMMA HandledPhase ==
    ASSUME TypeOK, BulkInv, NEW c \in Commands, SendHost(c), SendHostGoes(c), Handled(c), ~wr.on,
           gaveUp # "reset"
    PROVE  Phase'
<1>0. /\ c \in Command /\ c.dlen \in Nat /\ c.in \in BOOLEAN /\ inq = <<>> /\ ~inHalted /\ ~outHalted
      /\ gaveUp = "never" => sense = owed
      /\ cmd' = c /\ tag' = tag + 1 /\ gaveUp' = gaveUp /\ recv' = 0 /\ owed' = owed
      /\ host' = IF c.dlen = 0 THEN "csw" ELSE "data"
      /\ inq \in Seq(ChunkType)
  BY AtRest, CommandForms DEF SendHost, SendHostGoes, Command, TypeOK
<1>1. CASE Refuses(c)
  <2>1. PICK x : x = CswChunk(tag + 1, c.dlen, 1)
    OBVIOUS
  <2>2. /\ IsCsw(x) /\ x.tag = tag + 1 /\ x.residue = c.dlen /\ x.status = 1 /\ x.len = CswLen
    BY <2>1, ChunkFields
  <2>3. Len(inq') = 1 /\ inq'[1] = x
    BY <1>0, <1>1, <2>1, Appended DEF Refuses
  <2>4. gaveUp = "never" => sense' = Owed(1)'
    BY <1>0, <1>1 DEF Refuses, Owed, SenseUnit
  <2>5. Answer(x, c.dlen)'
    BY <1>0, <2>2, <2>4 DEF Answer, IsCsw
  <2>6. ~wr'.on /\ c.op # "sense"
    BY <1>1 DEF Refuses
  <2>7. CASE c.dlen = 0
    <3>1. host' = "csw" /\ ~inHalted' /\ ~outHalted'
      BY <1>0, <1>1, <2>7 DEF Refuses
    <3>2. CswPhase'
      BY <1>0, <2>2, <2>3, <2>5, <2>6, <2>7, <3>1 DEF CswPhase, Answer
    <3> QED
      BY <1>0, <3>1, <3>2 DEF Phase
  <2>8. CASE c.dlen # 0 /\ c.in
    <3>1. host' = "data" /\ inHalted' /\ ~outHalted'
      BY <1>0, <1>1, <2>8 DEF Refuses
    <3>2. InPhase'
      BY <1>0, <2>3, <2>5, <2>6, <3>1 DEF InPhase, Answer
    <3> QED
      BY <1>0, <2>8, <3>1, <3>2 DEF Phase
  <2>9. CASE c.dlen # 0 /\ ~c.in
    <3>1. host' = "data" /\ ~inHalted' /\ outHalted'
      BY <1>0, <1>1, <2>9 DEF Refuses
    <3>2. OutPhase'
      BY <1>0, <2>2, <2>3, <2>5, <2>6, <3>1 DEF OutPhase, Answer
    <3> QED
      BY <1>0, <2>9, <3>1, <3>2 DEF Phase
  <2> QED
    BY <1>0, <2>7, <2>8, <2>9
<1>2. CASE Accepts(c)
  <2>1. /\ c.op = "write" /\ ~c.in /\ c.dlen # 0 /\ c.count \in 1 .. 2 /\ left' = c.count
    BY <1>2, CommandForms DEF Accepts, BlockSize, SendHost
  <2>2. host' = "data"
    BY <1>0, <2>1
  <2>3. Writing'
    BY <1>0, <1>2, <2>1, <2>2 DEF Accepts, Writing, BlockSize
  <2>4. OutPhase'
    BY <1>0, <1>2, <2>3 DEF OutPhase, Accepts
  <2> QED
    BY <1>0, <2>1, <2>2, <2>4 DEF Phase
<1>3. CASE Passes(c)
  <2>1. PICK x : x = CswChunk(tag + 1, 0, 0)
    OBVIOUS
  <2>2. /\ IsCsw(x) /\ x.tag = tag + 1 /\ x.residue = 0 /\ x.status = 0 /\ x.len = CswLen
    BY <2>1, ChunkFields
  <2>3. Len(inq') = 1 /\ inq'[1] = x
    BY <1>0, <1>3, <2>1, Appended DEF Passes
  <2>4. gaveUp = "never" => sense' = Owed(0)'
    BY <1>0, <1>3 DEF Passes, Owed
  <2>5. Answer(x, 0)'
    BY <1>0, <2>2, <2>4 DEF Answer, IsCsw
  <2>6. ~wr'.on /\ c.op \notin {"write", "sense"} /\ ~inHalted' /\ ~outHalted'
    BY <1>0, <1>3 DEF Passes
  <2>7. CASE c.dlen = 0
    <3>1. CswPhase'
      BY <1>0, <2>2, <2>3, <2>5, <2>6, <2>7 DEF CswPhase, Answer
    <3> QED
      BY <1>0, <2>7, <3>1 DEF Phase
  <2>8. CASE c.dlen # 0
    <3>1. host' = "data" /\ ~c.in
      BY <1>0, <1>3, <2>8 DEF Passes
    <3>2. OutPhase'
      BY <1>0, <2>2, <2>3, <2>5, <2>6 DEF OutPhase, Answer
    <3> QED
      BY <1>0, <3>1, <3>2 DEF Phase
  <2> QED
    BY <2>7, <2>8
<1>4. CASE Sends(c)
  <2>1. PICK kind \in Sense \cup {"data"}, n \in 1 .. c.dlen, v \in Values \cup {Blank} :
          /\ inq' = Append(Append(inq, Chunk(kind, n, v)), CswChunk(tag + 1, c.dlen - n, 0))
          /\ c.op = "sense" => kind = sense[c.lun]
    BY <1>4 DEF Sends
  <2>2. PICK x, y : x = Chunk(kind, n, v) /\ y = CswChunk(tag + 1, c.dlen - n, 0)
    OBVIOUS
  <2>3. /\ ~IsCsw(x) /\ x.kind = kind /\ x.len = n
        /\ IsCsw(y) /\ y.tag = tag + 1 /\ y.residue = c.dlen - n /\ y.status = 0 /\ y.len = CswLen
    BY <2>2, ChunkFields
  <2>4. Len(inq') = 2 /\ inq'[1] = x /\ inq'[2] = y
    <3>1. inq' = Append(Append(<<>>, x), y)
      BY <1>0, <2>1, <2>2
    <3> QED
      BY <3>1
  <2>5. sense' = SenseAfter(c) /\ ~inHalted' /\ ~outHalted' /\ ~wr'.on /\ c.in /\ host' = "data"
    BY <1>0, <1>4 DEF Sends
  <2>6. gaveUp = "never" => sense' = Owed(0)'
    BY <1>0, <2>5 DEF SenseAfter, Owed
  <2>7. Answer(y, c.dlen - n)'
    BY <1>0, <2>3, <2>6 DEF Answer, IsCsw
  <2>8. InPhase'
    <3>1. n <= c.dlen
      BY <1>0, <2>1
    <3> QED
      BY <1>0, <2>1, <2>3, <2>4, <2>5, <2>7, <3>1 DEF InPhase, Answer, IsCsw
  <2> QED
    BY <1>0, <2>5, <2>8 DEF Phase
<1> QED
  BY <1>1, <1>2, <1>3, <1>4 DEF Handled

\* Data that arrives leaves a write allowed.
LEMMA StaysAllowed ==
    ASSUME BulkInv, wr.on, NEW got, NEW v, Ends(got, v) \/ GoesOn(got, v)
    PROVE  Allowed'
BY NoWriteTyped DEF BulkInv, Allowed, Ends, GoesOn

\* What a host left behind goes on taking what comes for data.
LEMMA StaysSwallowed ==
    ASSUME TypeOK, gaveUp = "left", gaveUp' = "left", inq = <<>>, ~inHalted, ~outHalted,
           UNCHANGED <<inHalted, outHalted>>, recv' = 0,
           NEW got, NEW v, Ends(got, v) \/ GoesOn(got, v)
    PROVE  Swallowed'
<1>1. CASE Ends(got, v)
  <2>1. PICK x : x = CswChunk(wr.tag, 0, 0)
    OBVIOUS
  <2>2. inq' = Append(inq, x) /\ ~wr'.on
    BY <1>1, <2>1, NoWriteTyped DEF Ends
  <2>3. Len(inq') = 1 /\ inq'[1] = x
    BY <2>2, Appended DEF TypeOK
  <2>4. x.kind = "csw" /\ x.len = CswLen /\ x.residue = 0
    BY <2>1, ChunkFields DEF IsCsw
  <2> QED
    BY <2>2, <2>3, <2>4 DEF Swallowed, IsCsw
<1>2. CASE GoesOn(got, v)
  BY <1>2 DEF GoesOn, Swallowed
<1> QED
  BY <1>1, <1>2

LEMMA SendStep ==
    ASSUME TypeOK, BulkInv, NEW c \in Commands, SendCbw(c)
    PROVE  TypeOK' /\ BulkInv'
<1>0. /\ SendHost(c) /\ HostOK' /\ Legal' /\ host = "idle" /\ cmd' = c /\ gaveUp' = gaveUp
      /\ recv' = 0 /\ DeviceOK /\ Allowed /\ c \in Command
  <2>1. SendHost(c)
    BY SendHostIs
  <2> QED
    BY <2>1 DEF SendHost, Legal, BulkInv, TypeOK, DeviceOK
<1>1. CASE outHalted /\ host' = "failed" /\ UNCHANGED <<wr, store, sense, inq, inHalted, outHalted>>
  <2>1. gaveUp = "reset"
    BY <1>0, <1>1, AtRest
  <2>2. ~wr.on
    BY <1>0, <2>1, AtRest
  <2>3. Writing'
    BY <1>1, <2>2 DEF Writing
  <2>4. Written'
    BY <1>0, <1>1, <2>1, <2>3, SendWritten
  <2>5. DeviceOK'
    BY <1>0, <1>1 DEF DeviceOK
  <2>6. Allowed'
    BY <1>1, <2>2 DEF Allowed
  <2> QED
    BY <1>0, <2>1, <2>4, <2>5, <2>6, TypeParts DEF BulkInv
<1>2. CASE ~outHalted /\ wr.on /\ SendHostGoes(c) /\ Becomes(RecvWrite(Device, CbwLen))
  <2>1. /\ DeviceOK' /\ UNCHANGED <<sense, inHalted, outHalted>>
        /\ Ends(wr.got + CbwLen, ValueAfter(wr, CbwLen)) \/ GoesOn(wr.got + CbwLen, ValueAfter(wr, CbwLen))
    <3>1. CbwLen \in Nat
      BY DEF CbwLen
    <3> QED
      BY <1>2, <3>1, Receives
  <2>2. gaveUp = "left" /\ inq = <<>> /\ ~inHalted
    BY <1>0, <1>2, AtRest DEF TypeOK
  <2>3. Swallowed'
    BY <1>0, <1>2, <2>1, <2>2, StaysSwallowed
  <2>4. Allowed'
    BY <1>2, <2>1, StaysAllowed
  <2>5. Phase'
    BY <1>0, <1>2, <2>2, <2>3 DEF Phase, SendHostGoes
  <2> QED
    BY <1>0, <2>1, <2>2, <2>4, <2>5, TypeParts DEF BulkInv
<1>3. CASE ~outHalted /\ ~wr.on /\ SendHostGoes(c) /\ Handled(c)
  <2>1. DeviceOK'
    BY <1>0, <1>3, HandledTyped
  <2>2. Allowed' /\ (wr'.on => Accepts(c))
    <3>1. CASE Accepts(c)
      <4>1. wr'.lun = c.lun /\ wr'.lba = c.lba /\ wr'.count = c.count
        BY <3>1 DEF Accepts
      <4> QED
        BY <3>1, <4>1 DEF Accepts, Allowed, InRange
    <3>2. CASE Refuses(c) \/ Passes(c) \/ Sends(c)
      <4>1. wr' = wr
        BY <3>2 DEF Refuses, Passes, Sends
      <4> QED
        BY <1>3, <4>1 DEF Allowed
    <3> QED
      BY <1>3, <3>1, <3>2 DEF Handled
  <2>3. host' # "idle" /\ (c.op = "write" => host' = "data")
    <3>1. c.op = "write" => c.dlen # 0
      BY CommandForms DEF BlockSize
    <3> QED
      BY <1>3, <3>1 DEF SendHostGoes
  <2>4. gaveUp # "left" => Written'
    <3> SUFFICES ASSUME gaveUp # "left" PROVE Written'
      OBVIOUS
    <3>1. Writing'
      <4>1. CASE ~wr'.on
        BY <4>1 DEF Writing
      <4>2. CASE wr'.on
        <5>1. Accepts(c) /\ c.op = "write" /\ host' = "data" /\ c.count \in 1 .. 2 /\ left' = c.count
          BY <1>0, <2>2, <2>3, <4>2, CommandForms DEF Accepts, SendHost
        <5>2. tag' = tag + 1
          BY <1>0 DEF SendHost
        <5>3. ~outHalted'
          BY <1>3, <5>1 DEF Accepts
        <5>4. /\ wr'.tag = tag + 1 /\ wr'.lun = c.lun /\ wr'.lba = c.lba /\ wr'.count = c.count
              /\ wr'.got = 0 /\ wr'.val = c.val
          BY <5>1 DEF Accepts
        <5>5. (cmd'.count - left') * BlockSize = 0
          BY <1>0, <5>1 DEF BlockSize
        <5> QED
          BY <1>0, <5>1, <5>2, <5>3, <5>4, <5>5 DEF Writing
      <4> QED
        BY <4>1, <4>2
    <3> QED
      BY <1>0, <1>3, <2>3, <3>1, NewTags, SendWritten
  <2>5. gaveUp # "reset" => Phase'
    BY <1>0, <1>3, HandledPhase
  <2> QED
    BY <1>0, <2>1, <2>2, <2>4, <2>5, TypeParts DEF BulkInv
<1> QED
  BY <1>1, <1>2, <1>3, SendCases

-----------------------------------------------------------------------------
(* The host takes from the bulk-IN queue.                                  *)

LEMMA Taken ==
    ASSUME TypeOK, inq # <<>>, NEW len \in Nat
    PROVE  /\ RestOfFront(len) \in Seq(ChunkType) /\ Head(inq) \in ChunkType /\ Head(inq) = inq[1]
           /\ \A i \in DOMAIN RestOfFront(len) : \E j \in DOMAIN inq :
                 /\ RestOfFront(len)[i].kind = inq[j].kind /\ RestOfFront(len)[i].tag = inq[j].tag
                 /\ RestOfFront(len)[i].status = inq[j].status
           /\ inq[1].len <= len => /\ RestOfFront(len) = Tail(inq)
                                   /\ Len(Tail(inq)) = Len(inq) - 1
                                   /\ Len(inq) = 1 => Tail(inq) = <<>>
                                   /\ Len(inq) = 2 => Tail(inq)[1] = inq[2]
<1>0. inq \in Seq(ChunkType)
  BY DEF TypeOK
<1>1. /\ Head(inq) = inq[1] /\ 1 \in DOMAIN inq /\ Head(inq) \in ChunkType
      /\ Tail(inq) \in Seq(ChunkType) /\ Len(Tail(inq)) = Len(inq) - 1
      /\ \A i \in DOMAIN Tail(inq) : i + 1 \in DOMAIN inq /\ Tail(inq)[i] = inq[i + 1]
  BY <1>0
<1>2. Head(inq).len \in Nat
  BY <1>1 DEF ChunkType
<1>3. CASE Head(inq).len > len
  <2> DEFINE x == [Head(inq) EXCEPT !.len = @ - len]
  <2>1. x \in ChunkType /\ x.kind = Head(inq).kind /\ x.tag = Head(inq).tag /\ x.status = Head(inq).status
    <3>1. PICK h : h = Head(inq)
      OBVIOUS
    <3>2. h \in ChunkType /\ h.len - len \in Nat
      BY <1>1, <1>2, <1>3, <3>1
    <3>3. x = [h EXCEPT !.len = h.len - len]
      BY <3>1
    <3>4. [h EXCEPT !.len = h.len - len] \in ChunkType
      BY <3>2 DEF ChunkType
    <3> QED
      BY <3>1, <3>2, <3>3, <3>4 DEF ChunkType
  <2>2. RestOfFront(len) = <<x>> \o Tail(inq)
    BY <1>3 DEF RestOfFront
  <2> HIDE DEF x
  <2>3. /\ <<x>> \in Seq(ChunkType) /\ Len(<<x>>) = 1 /\ <<x>>[1] = x
    BY <2>1
  <2>4. /\ RestOfFront(len) \in Seq(ChunkType)
        /\ Len(RestOfFront(len)) = 1 + Len(Tail(inq))
        /\ RestOfFront(len)[1] = x
        /\ \A i \in 2 .. Len(RestOfFront(len)) : RestOfFront(len)[i] = Tail(inq)[i - 1]
    BY <1>1, <2>2, <2>3
  <2>5. \A i \in DOMAIN RestOfFront(len) :
           i = 1 \/ (i \in 2 .. Len(RestOfFront(len)) /\ i - 1 \in DOMAIN Tail(inq))
    BY <1>1, <2>4
  <2>6. \A i \in DOMAIN RestOfFront(len) : \E j \in DOMAIN inq :
           RestOfFront(len)[i] = x \/ RestOfFront(len)[i] = inq[j]
    BY <1>1, <2>4, <2>5
  <2>7. ~(inq[1].len <= len)
    BY <1>1, <1>2, <1>3
  <2>8. \A i \in DOMAIN RestOfFront(len) : \E j \in DOMAIN inq :
           /\ RestOfFront(len)[i].kind = inq[j].kind /\ RestOfFront(len)[i].tag = inq[j].tag
           /\ RestOfFront(len)[i].status = inq[j].status
    BY <1>1, <2>1, <2>6
  <2> QED
    BY <1>1, <2>4, <2>7, <2>8
<1>4. CASE Head(inq).len <= len
  <2>1. RestOfFront(len) = Tail(inq)
    BY <1>2, <1>4 DEF RestOfFront
  <2>2. Len(inq) = 2 => Tail(inq)[1] = inq[2]
    <3>0. PICK q \in Seq(ChunkType) : q = Tail(inq)
      BY <1>1
    <3>1. Len(inq) = 2 => 1 \in DOMAIN Tail(inq)
      <4>1. Len(inq) = 2 => Len(q) = 1
        BY <1>1, <3>0
      <4>2. Len(q) = 1 => 1 \in DOMAIN q
        OBVIOUS
      <4> QED
        BY <3>0, <4>1, <4>2
    <3>2. 1 + 1 = 2
      OBVIOUS
    <3> QED
      BY <1>1, <3>1, <3>2
  <2>3. Len(inq) = 1 => Tail(inq) = <<>>
    BY <1>0, <1>1
  <2>4. \A i \in DOMAIN RestOfFront(len) : \E j \in DOMAIN inq : RestOfFront(len)[i] = inq[j]
    BY <1>1, <2>1
  <2> QED
    BY <1>1, <2>1, <2>2, <2>3, <2>4
<1> QED
  BY <1>2, <1>3, <1>4

\* Nothing is written while the host takes, so what it was told of a write
\* stays true.
LEMMA TakeWritten ==
    ASSUME TypeOK, Written, ~wr.on, UNCHANGED <<wr, store, cmd, tag, status, csw, gaveUp>>,
           host # "idle", host' # "idle",
           \A i \in DOMAIN inq' : \E j \in DOMAIN inq :
              /\ inq'[i].kind = inq[j].kind /\ inq'[i].tag = inq[j].tag
              /\ inq'[i].status = inq[j].status
    PROVE  Written'
BY DEF Written, Writing, Landed, IsCsw

LEMMA DataInStep ==
    ASSUME TypeOK, BulkInv, DataIn
    PROVE  TypeOK' /\ BulkInv'
<1>0. /\ host = "data" /\ cmd.in /\ cmd \in Commands /\ cmd \in Command /\ cmd.dlen \in Nat
      /\ UNCHANGED <<wr, store, sense, inHalted, outHalted, cmd, left, tag, status, csw, gaveUp, owed>>
      /\ inq \in Seq(ChunkType) /\ recv \in Nat
  BY CommandForms DEF DataIn, BulkInv, Legal, Command, TypeOK
<1>1. gaveUp # "left" => Written /\ ~wr.on
  <2>1. cmd.op # "write"
    BY <1>0, CommandForms
  <2> QED
    BY <2>1 DEF BulkInv, Written, Writing
<1>2. gaveUp # "reset" => InPhase \/ Swallowed
  BY <1>0 DEF BulkInv, Phase
<1>3. Allowed'
  BY <1>0 DEF BulkInv, Allowed
<1>4. Legal'
  BY <1>0 DEF Legal
<1>5. CASE inHalted /\ host' = "clear" /\ UNCHANGED <<inq, recv, told>>
  <2>1. TypeOK'
    BY <1>0, <1>5 DEF TypeOK
  <2>2. gaveUp # "left" => Written'
    BY <1>0, <1>1, <1>5, TakeWritten
  <2>3. gaveUp # "reset" => ClearPhase'
    <3> SUFFICES ASSUME gaveUp # "reset" PROVE ClearPhase'
      OBVIOUS
    <3>1. InPhase /\ Len(inq) = 1 /\ Answer(inq[1], cmd.dlen) /\ cmd.op # "sense"
      BY <1>2, <1>5 DEF InPhase, Swallowed
    <3>2. Answer(inq[1], cmd.dlen)'
      BY <1>0, <1>5, <3>1 DEF Answer, Owed, IsCsw
    <3> QED
      BY <1>0, <1>5, <3>1, <3>2 DEF ClearPhase, InPhase, Answer
  <2>4. gaveUp # "reset" => Phase'
    BY <1>5, <2>3 DEF Phase
  <2> QED
    BY <1>0, <1>3, <1>4, <2>1, <2>2, <2>4 DEF BulkInv
<1>6. CASE /\ ~inHalted /\ inq # <<>>
           /\ inq' = RestOfFront(cmd.dlen)
           /\ recv' = Truncated(Head(inq).len, cmd.dlen)
           /\ told' = Head(inq).kind
           /\ host' = IF Head(inq).kind = "csw" THEN "lost" ELSE "csw"
  <2>0. /\ inq' \in Seq(ChunkType) /\ Head(inq) = inq[1] /\ inq[1] \in ChunkType
        /\ \A i \in DOMAIN inq' : \E j \in DOMAIN inq :
              /\ inq'[i].kind = inq[j].kind /\ inq'[i].tag = inq[j].tag
              /\ inq'[i].status = inq[j].status
        /\ inq[1].len <= cmd.dlen => /\ inq' = Tail(inq) /\ Len(Tail(inq)) = Len(inq) - 1
                                     /\ Len(inq) = 2 => Tail(inq)[1] = inq[2]
    BY <1>0, <1>6, Taken
  <2>1. TypeOK'
    <3>1. recv' \in Nat /\ told' \in Sense \cup {"data", "csw", "none"}
      BY <1>0, <1>6, <2>0 DEF Truncated, ChunkType
    <3>2. host' \in {"idle", "data", "csw", "clear", "waiting", "failed", "lost"}
      BY <1>6
    <3> QED
      BY <1>0, <2>0, <3>1, <3>2 DEF TypeOK
  <2>2. gaveUp # "left" => Written'
    <3>1. host' # "idle"
      BY <1>6
    <3> QED
      BY <1>0, <1>1, <2>0, <3>1, TakeWritten
  <2>3. gaveUp # "reset" => Phase'
    <3>1. CASE InPhase
      <4>1. /\ Len(inq) = 2 /\ ~IsCsw(inq[1]) /\ inq[1].len <= cmd.dlen /\ inq[1].len \in Nat
            /\ Answer(inq[2], cmd.dlen - inq[1].len) /\ ~wr.on /\ ~outHalted
            /\ gaveUp = "never" /\ cmd.op = "sense" => inq[1].kind = owed[cmd.lun]
        BY <1>6, <2>0, <3>1 DEF InPhase, ChunkType
      <4>2. Len(inq') = 1 /\ inq'[1] = inq[2] /\ host' = "csw" /\ told' = inq[1].kind
        <5>1. Len(inq) = 2 /\ inq[1].len <= cmd.dlen
          BY <4>1
        <5>2. inq' = Tail(inq) /\ Len(Tail(inq)) = 1 /\ Tail(inq)[1] = inq[2]
          <6>1. inq' = Tail(inq) /\ Len(Tail(inq)) = Len(inq) - 1 /\ Tail(inq)[1] = inq[2]
            BY <2>0, <5>1
          <6>2. 2 - 1 = 1
            OBVIOUS
          <6> QED
            BY <5>1, <6>1, <6>2
        <5> QED
          BY <1>6, <2>0, <4>1, <5>2 DEF IsCsw
      <4>3. recv' = inq[1].len
        BY <1>0, <1>6, <2>0, <4>1 DEF Truncated
      <4>4. PICK x : x = inq[2]
        OBVIOUS
      <4>5. Answer(x, cmd.dlen - inq[1].len)
        BY <4>1, <4>4
      <4>6. PICK n \in Nat : n = cmd.dlen - inq[1].len
        BY <1>0, <4>1
      <4>7. Answer(x, n)'
        BY <1>0, <4>5, <4>6 DEF Answer, Owed, IsCsw
      <4>8. CswPhase'
        <5>1. recv' + n = cmd'.dlen
          BY <1>0, <4>1, <4>3, <4>6
        <5>2. inq'[1] = x /\ x.residue = n
          BY <4>2, <4>4, <4>7 DEF Answer
        <5> QED
          BY <1>0, <1>6, <4>1, <4>2, <4>7, <5>1, <5>2 DEF CswPhase
      <4> QED
        BY <4>2, <4>8 DEF Phase
    <3>2. CASE Swallowed
      <4>1. gaveUp' = "left" /\ host' = "lost"
        BY <1>0, <1>6, <2>0, <3>2 DEF Swallowed, IsCsw
      <4> QED
        BY <4>1 DEF Phase
    <3> QED
      BY <1>2, <3>1, <3>2
  <2> QED
    BY <1>0, <1>3, <1>4, <2>1, <2>2, <2>3 DEF BulkInv
<1>7. CASE ~inHalted /\ inq = <<>> /\ host' = "waiting" /\ UNCHANGED <<inq, recv, told>>
  <2>1. TypeOK'
    BY <1>0, <1>7 DEF TypeOK
  <2>2. gaveUp # "left" => Written'
    BY <1>0, <1>1, <1>7, TakeWritten
  <2>3. gaveUp # "reset" => Phase'
    <3>1. Len(inq) = 0
      BY <1>7
    <3>2. gaveUp # "reset" => gaveUp = "left"
      BY <1>2, <1>7, <3>1 DEF InPhase, Swallowed
    <3> QED
      BY <1>0, <1>7, <3>2 DEF Phase
  <2> QED
    BY <1>0, <1>3, <1>4, <2>1, <2>2, <2>3 DEF BulkInv
<1> QED
  BY <1>5, <1>6, <1>7 DEF DataIn

-----------------------------------------------------------------------------
(* The host sends data.                                                    *)

\* The data of a write in progress arrives: it goes on, or its blocks are all
\* written and its status is queued.
LEMMA WriteReceives ==
    ASSUME TypeOK, Writing, Allowed, wr.on, cmd \in Commands, NEW n \in 1 .. 2, n <= left,
           NEW got, NEW v, got = wr.got + n * BlockSize, v = ValueAfter(wr, n * BlockSize)
    PROVE  /\ v = cmd.val /\ got = (cmd.count - (left - n)) * BlockSize
           /\ n = left => WriteDone(got, wr.count)
           /\ n # left => ~WriteDone(got, wr.count)
           /\ \A k \in Luns, b \in 0 .. (NumBlocks - 1) :
                 WriteDone(got, wr.count) =>
                    StoreAfter(wr, got, v)[k][b] =
                       IF k = cmd.lun /\ b \in Blocks(cmd) THEN cmd.val ELSE store[k][b]
           /\ \A b \in Blocks(cmd) : b \in 0 .. (NumBlocks - 1)
<1>1. /\ cmd.count \in 1 .. 2 /\ cmd.lba \in Nat /\ NumBlocks \in Nat /\ left \in 0 .. 2
      /\ wr.got = (cmd.count - left) * BlockSize /\ wr.val = cmd.val
      /\ wr.lun = cmd.lun /\ wr.lba = cmd.lba /\ wr.count = cmd.count
      /\ cmd.lba + cmd.count <= NumBlocks /\ wr.lun \in Luns
  <2>1. cmd.count \in 1 .. 2 /\ cmd \in Command
    BY CommandForms DEF Writing
  <2>2. cmd.lba \in Nat /\ NumBlocks \in Nat /\ left \in 0 .. 2 /\ wr.lun \in Luns
    BY <2>1, DiskAssumption DEF Command, TypeOK, WriteType
  <2> QED
    BY <2>1, <2>2 DEF Writing, Allowed
<1>2. v = cmd.val
  <2>1. (n * BlockSize) % BlockSize = 0
    BY DEF BlockSize
  <2> QED
    BY <1>1, <2>1 DEF ValueAfter
<1>3. got = (cmd.count - (left - n)) * BlockSize
  BY <1>1 DEF BlockSize
<1>4. /\ n = left => got = cmd.count * BlockSize
      /\ n # left => got < cmd.count * BlockSize
  BY <1>1, <1>3 DEF BlockSize
<1>5. /\ n = left => WriteDone(got, wr.count)
      /\ n # left => ~WriteDone(got, wr.count)
  BY <1>1, <1>4 DEF WriteDone, BlockSize
<1>6. Blocks(wr) = Blocks(cmd)
  BY <1>1 DEF Blocks
<1>7. \A b \in Blocks(cmd) : b \in Int /\ cmd.lba <= b /\ b < cmd.lba + cmd.count
  BY <1>1 DEF Blocks
<1>8. \A b \in Blocks(cmd) : b \in 0 .. (NumBlocks - 1)
  BY <1>1, <1>7
<1>9. \A b \in Blocks(cmd) : WriteDone(got, wr.count) => (b + 1 - wr.lba) * BlockSize <= got
  BY <1>1, <1>4, <1>5, <1>7 DEF BlockSize
<1>10. store \in [Luns -> [0 .. (NumBlocks - 1) -> Values \cup {Blank}]]
  BY DEF TypeOK
<1>11. ASSUME NEW k \in Luns, NEW b \in 0 .. (NumBlocks - 1), WriteDone(got, wr.count)
       PROVE  StoreAfter(wr, got, v)[k][b] =
                 IF k = cmd.lun /\ b \in Blocks(cmd) THEN cmd.val ELSE store[k][b]
  <2> DEFINE f == [j \in DOMAIN store[wr.lun] |->
                     IF j \in {i \in Blocks(wr) : (i + 1 - wr.lba) * BlockSize <= got}
                     THEN v ELSE store[wr.lun][j]]
  <2>1. StoreAfter(wr, got, v) = [store EXCEPT ![wr.lun] = f]
    BY DEF StoreAfter
  <2>2. b \in DOMAIN store[wr.lun]
    BY <1>1, <1>10
  <2>3. f[b] = IF b \in {i \in Blocks(wr) : (i + 1 - wr.lba) * BlockSize <= got}
               THEN v ELSE store[wr.lun][b]
    BY <2>2
  <2>4. f[b] = IF b \in Blocks(cmd) THEN cmd.val ELSE store[wr.lun][b]
    BY <1>2, <1>6, <1>9, <1>11, <2>3
  <2> HIDE DEF f
  <2> QED
    <3>1. wr.lun = cmd.lun /\ wr.lun \in Luns /\ DOMAIN store = Luns
      BY <1>1, <1>10
    <3>2. CASE k = wr.lun
      BY <2>1, <2>4, <3>1, <3>2
    <3>3. CASE k # wr.lun
      BY <2>1, <3>1, <3>3
    <3> QED
      BY <3>2, <3>3
<1> QED
  BY <1>2, <1>3, <1>5, <1>8, <1>11

\* Bytes that are no CBW.
LEMMA OutCases ==
    ASSUME NEW len, Becomes(OnOutData(Device, len))
    PROVE  \/ wr.on /\ Becomes(RecvWrite(Device, len))
           \/ ~wr.on /\ UNCHANGED <<wr, store, sense, inq, inHalted, outHalted>>
BY BecomesDevice DEF OnOutData, Device

LEMMA DataOutStep ==
    ASSUME TypeOK, BulkInv, NEW n \in 1 .. 2, DataOut(n)
    PROVE  TypeOK' /\ BulkInv'
<1>0. /\ host = "data" /\ ~cmd.in /\ cmd \in Commands /\ cmd \in Command /\ cmd.dlen \in Nat
      /\ UNCHANGED <<cmd, tag, recv, status, csw, gaveUp, owed, told>>
      /\ inq \in Seq(ChunkType) /\ cmd.op # "sense" /\ Allowed
  BY CommandForms DEF DataOut, BulkInv, Legal, Command, TypeOK
<1>1. gaveUp # "left" => Written /\ Writing
  BY DEF BulkInv, Written
<1>2. gaveUp # "reset" => OutPhase \/ Swallowed
  BY <1>0 DEF BulkInv, Phase
<1>4. Legal'
  BY <1>0 DEF Legal
<1>a. CASE UNCHANGED <<wr, store, sense, inq, inHalted, outHalted>> /\ ~wr.on /\ left' \in 0 .. 2
           /\ host' \in {"clear", "csw", "data"} /\ (gaveUp # "reset" => Phase')
  <2>1. TypeOK'
    BY <1>0, <1>a DEF TypeOK
  <2>2. gaveUp # "left" => Written'
    <3>1. host' # "idle"
      BY <1>a
    <3> QED
      BY <1>0, <1>1, <1>a, <3>1, TakeWritten
  <2>3. Allowed'
    BY <1>a DEF Allowed
  <2> QED
    BY <1>0, <1>4, <1>a, <2>1, <2>2, <2>3 DEF BulkInv
<1>5. CASE outHalted /\ host' = "clear" /\ UNCHANGED <<device, left>>
  <2>0. UNCHANGED <<wr, store, sense, inq, inHalted, outHalted, left>>
    BY <1>5 DEF device
  <2>1. ~wr.on
    BY <1>1, <1>2, <1>5 DEF OutPhase, Swallowed, Writing, TypeOK
  <2>2. gaveUp # "reset" => Phase'
    <3> SUFFICES ASSUME gaveUp # "reset" PROVE Phase'
      OBVIOUS
    <3>1. ~inHalted /\ Len(inq) = 1 /\ Answer(inq[1], inq[1].residue)
      BY <1>2, <1>5, <2>1 DEF OutPhase, Swallowed
    <3>2. PICK x : x = inq[1]
      OBVIOUS
    <3>3. Answer(x, x.residue)'
      BY <1>0, <2>0, <3>1, <3>2 DEF Answer, Owed, IsCsw
    <3>4. ClearPhase'
      BY <1>0, <1>5, <2>0, <2>1, <3>1, <3>2, <3>3 DEF ClearPhase
    <3> QED
      BY <1>5, <3>4 DEF Phase
  <2>3. left' \in 0 .. 2
    BY <2>0 DEF TypeOK
  <2> QED
    BY <1>a, <1>5, <2>0, <2>1, <2>2, <2>3
<1>6. CASE /\ ~outHalted /\ cmd.op = "write" /\ n <= left
           /\ Becomes(OnOutData(Device, n * BlockSize))
           /\ left' = left - n
           /\ host' = IF n = left THEN "csw" ELSE "data"
  <2>0. left' \in 0 .. 2 /\ host' \in {"csw", "data"} /\ n * BlockSize \in Nat
    BY <1>6 DEF TypeOK, BlockSize
  <2>1. CASE ~wr.on /\ UNCHANGED <<wr, store, sense, inq, inHalted, outHalted>>
    <3>1. gaveUp # "reset" => Swallowed
      BY <1>2, <1>6, <2>1 DEF OutPhase
    <3>2. gaveUp # "reset" => Swallowed'
      BY <1>0, <2>1, <3>1 DEF Swallowed, IsCsw
    <3>3. gaveUp # "reset" => Phase'
      BY <1>0, <2>0, <3>1, <3>2 DEF Phase, Swallowed
    <3> QED
      BY <1>a, <2>0, <2>1, <3>3
  <2>2. CASE wr.on /\ Becomes(RecvWrite(Device, n * BlockSize))
    <3>1. PICK got, v : got = wr.got + n * BlockSize /\ v = ValueAfter(wr, n * BlockSize)
      OBVIOUS
    <3>2. DeviceOK' /\ UNCHANGED <<sense, inHalted, outHalted>> /\ (Ends(got, v) \/ GoesOn(got, v))
      BY <2>0, <2>2, <3>1, Receives
    <3>3. TypeOK'
      <4>1. HostOK'
        BY <1>0, <2>0 DEF HostOK, TypeOK
      <4> QED
        BY <3>2, <4>1, TypeParts
    <3>4. Allowed'
      BY <2>2, <3>2, StaysAllowed
    <3>5. CASE Writing
      <4>1. /\ v = cmd.val /\ got = (cmd.count - (left - n)) * BlockSize
            /\ n = left => WriteDone(got, wr.count)
            /\ n # left => ~WriteDone(got, wr.count)
            /\ \A k \in Luns, b \in 0 .. (NumBlocks - 1) :
                  WriteDone(got, wr.count) =>
                     StoreAfter(wr, got, v)[k][b] =
                        IF k = cmd.lun /\ b \in Blocks(cmd) THEN cmd.val ELSE store[k][b]
            /\ \A b \in Blocks(cmd) : b \in 0 .. (NumBlocks - 1)
        BY <1>0, <1>6, <2>2, <3>1, <3>5, WriteReceives
      <4>2. CASE n = left
        <5>1. Ends(got, v) /\ host' = "csw"
          BY <1>6, <3>2, <4>1, <4>2 DEF GoesOn
        <5>2. PICK x : x = CswChunk(wr.tag, 0, 0)
          OBVIOUS
        <5>3. /\ inq' = Append(inq, x) /\ ~wr'.on /\ store' = StoreAfter(wr, got, v)
              /\ IsCsw(x) /\ x.tag = tag /\ x.residue = 0 /\ x.status = 0 /\ x.len = CswLen
          BY <2>2, <3>5, <5>1, <5>2, NoWriteTyped, ChunkFields DEF Ends, Writing
        <5>4. Landed'
          <6>1. cmd.lun \in Luns
            BY <1>0, <1>6, CommandForms
          <6>2. \A b \in Blocks(cmd) : StoreAfter(wr, got, v)[cmd.lun][b] = cmd.val
            BY <4>1, <4>2, <6>1
          <6> QED
            BY <1>0, <5>3, <6>2 DEF Landed, Blocks
        <5>5. gaveUp # "left" => Written'
          <6> SUFFICES ASSUME gaveUp # "left" PROVE Written'
            OBVIOUS
          <6>1. \A i \in DOMAIN inq' : (i \in DOMAIN inq /\ inq'[i] = inq[i]) \/ inq'[i] = x
            BY <1>0, <5>3, Appended
          <6>2. \A i \in DOMAIN inq' : IsCsw(inq'[i]) => inq'[i].tag <= tag
            <7>1. tag <= tag
              BY DiskAssumption DEF TypeOK
            <7> QED
              BY <1>1, <5>3, <6>1, <7>1 DEF Written
          <6> QED
            BY <1>0, <1>1, <5>1, <5>3, <5>4, <6>2 DEF Written, Writing, IsCsw
        <5>6. gaveUp # "reset" => Phase'
          <6> SUFFICES ASSUME gaveUp # "reset" PROVE Phase'
            OBVIOUS
          <6>1. inq = <<>> /\ ~inHalted /\ (gaveUp = "never" => sense = owed) /\ (OutPhase \/ Swallowed)
            BY <1>2, <2>2 DEF OutPhase, Swallowed
          <6>2. Len(inq') = 1 /\ inq'[1] = x
            BY <1>0, <5>3, <6>1, Appended
          <6>3. gaveUp = "never" => sense' = Owed(0)'
            BY <1>0, <3>2, <6>1 DEF Owed
          <6>4. Answer(x, 0)'
            BY <1>0, <5>3, <6>3 DEF Answer, IsCsw
          <6>5. CswPhase'
            BY <1>0, <1>6, <3>2, <5>3, <6>1, <6>2, <6>4 DEF CswPhase
          <6> QED
            BY <5>1, <6>5 DEF Phase
        <5> QED
          BY <1>0, <1>4, <3>3, <3>4, <5>5, <5>6 DEF BulkInv
      <4>3. CASE n # left
        <5>1. GoesOn(got, v) /\ host' = "data"
          BY <1>6, <3>2, <4>1, <4>3 DEF Ends
        <5>2. left' > 0
          BY <1>6, <4>3 DEF TypeOK
        <5>3. Writing'
          <6>1. got = (cmd'.count - left') * BlockSize
            BY <1>0, <1>6, <4>1
          <6> QED
            BY <1>0, <1>6, <3>2, <3>5, <4>1, <5>1, <5>2, <6>1 DEF Writing, GoesOn
        <5>4. inq' = inq /\ store' = store /\ wr'.on
          BY <2>2, <5>1 DEF GoesOn
        <5>5. gaveUp # "left" => Written'
          BY <1>0, <1>1, <2>2, <5>1, <5>3, <5>4 DEF Written, IsCsw
        <5>6. gaveUp # "reset" => Phase'
          <6> SUFFICES ASSUME gaveUp # "reset" PROVE Phase'
            OBVIOUS
          <6>1. inq = <<>> /\ ~inHalted /\ (gaveUp = "never" => sense = owed)
            BY <1>2, <2>2 DEF OutPhase, Swallowed
          <6>2. OutPhase'
            BY <1>0, <3>2, <5>3, <5>4, <6>1 DEF OutPhase
          <6> QED
            BY <1>0, <5>1, <6>2 DEF Phase
        <5> QED
          BY <1>0, <1>4, <3>3, <3>4, <5>5, <5>6 DEF BulkInv
      <4> QED
        BY <4>2, <4>3
    <3>6. CASE ~Writing
      <4>1. gaveUp = "left" /\ Swallowed
        BY <1>1, <1>2, <2>2, <3>6 DEF OutPhase, TypeOK
      <4>2. inq = <<>> /\ ~inHalted /\ recv = 0
        BY <2>2, <4>1 DEF Swallowed
      <4>3. Swallowed'
        BY <1>0, <1>6, <3>2, <4>1, <4>2, StaysSwallowed
      <4>4. Phase'
        BY <1>0, <2>0, <4>1, <4>3 DEF Phase
      <4> QED
        BY <1>0, <1>4, <3>3, <3>4, <4>1, <4>4 DEF BulkInv
    <3> QED
      BY <3>5, <3>6
  <2> QED
    BY <1>6, <2>1, <2>2, OutCases
<1>7. CASE /\ ~outHalted /\ cmd.op # "write"
           /\ Becomes(OnOutData(Device, cmd.dlen))
           /\ host' = "csw" /\ left' = left
  <2>0. left' \in 0 .. 2
    BY <1>7 DEF TypeOK
  <2>1. CASE ~wr.on /\ UNCHANGED <<wr, store, sense, inq, inHalted, outHalted>>
    <3>1. gaveUp # "reset" => CswPhase' \/ Swallowed'
      <4> SUFFICES ASSUME gaveUp # "reset" PROVE CswPhase' \/ Swallowed'
        OBVIOUS
      <4>1. CASE OutPhase
        <5>1. ~inHalted /\ Len(inq) = 1 /\ Answer(inq[1], inq[1].residue)
          BY <2>1, <4>1 DEF OutPhase
        <5>2. PICK x : x = inq[1]
          OBVIOUS
        <5>3. Answer(x, x.residue)'
          BY <1>0, <2>1, <5>1, <5>2 DEF Answer, Owed, IsCsw
        <5> QED
          BY <1>0, <1>7, <2>1, <5>1, <5>2, <5>3 DEF CswPhase
      <4>2. CASE Swallowed
        BY <1>0, <2>1, <4>2 DEF Swallowed, IsCsw
      <4> QED
        BY <1>2, <4>1, <4>2
    <3>2. gaveUp # "reset" => Phase'
      BY <1>0, <1>7, <3>1 DEF Phase
    <3> QED
      BY <1>a, <1>7, <2>0, <2>1, <3>2
  <2>2. CASE wr.on /\ Becomes(RecvWrite(Device, cmd.dlen))
    <3>1. PICK got, v : got = wr.got + cmd.dlen /\ v = ValueAfter(wr, cmd.dlen)
      OBVIOUS
    <3>2. DeviceOK' /\ UNCHANGED <<sense, inHalted, outHalted>> /\ (Ends(got, v) \/ GoesOn(got, v))
      BY <1>0, <2>2, <3>1, Receives
    <3>3. TypeOK'
      <4>1. HostOK'
        BY <1>0, <1>7, <2>0 DEF HostOK, TypeOK
      <4> QED
        BY <3>2, <4>1, TypeParts
    <3>4. Allowed'
      BY <2>2, <3>2, StaysAllowed
    <3>5. gaveUp = "left" /\ Swallowed
      BY <1>1, <1>2, <1>7, <2>2 DEF OutPhase, Writing, TypeOK
    <3>6. inq = <<>> /\ ~inHalted /\ recv = 0
      BY <2>2, <3>5 DEF Swallowed
    <3>7. Swallowed'
      BY <1>0, <1>7, <3>2, <3>5, <3>6, StaysSwallowed
    <3>8. Phase'
      BY <1>0, <1>7, <3>5, <3>7 DEF Phase
    <3> QED
      BY <1>0, <1>4, <3>3, <3>4, <3>5, <3>8 DEF BulkInv
  <2> QED
    BY <1>7, <2>1, <2>2, OutCases
<1> QED
  BY <1>5, <1>6, <1>7 DEF DataOut

-----------------------------------------------------------------------------
(* The end of a command, and hosts that give up.                           *)

LEMMA ClearHaltStep ==
    ASSUME TypeOK, BulkInv, ClearHalt
    PROVE  TypeOK' /\ BulkInv'
<1>0. /\ host = "clear" /\ host' = "csw" /\ inHalted' = (inHalted /\ ~cmd.in)
      /\ outHalted' = (outHalted /\ cmd.in)
      /\ UNCHANGED <<wr, store, sense, inq, cmd, left, tag, recv, status, csw, gaveUp, owed, told>>
  BY DEF ClearHalt
<1>1. TypeOK'
  <2>1. inHalted' \in BOOLEAN /\ outHalted' \in BOOLEAN
    BY <1>0
  <2> QED
    BY <1>0, <2>1 DEF TypeOK
<1>2. Allowed' /\ Legal'
  BY <1>0 DEF BulkInv, Allowed, Legal
<1>3. gaveUp # "left" => Written'
  <2>1. gaveUp # "left" => Written /\ ~wr.on
    BY <1>0 DEF BulkInv, Written, Writing
  <2> QED
    BY <1>0, <2>1, TakeWritten
<1>4. gaveUp # "reset" => Phase'
  <2> SUFFICES ASSUME gaveUp # "reset" PROVE Phase'
    OBVIOUS
  <2>1. ClearPhase
    BY <1>0 DEF BulkInv, Phase
  <2>2. PICK x : x = inq[1]
    OBVIOUS
  <2>3. Answer(x, x.residue)'
    BY <1>0, <2>1, <2>2 DEF ClearPhase, Answer, Owed, IsCsw
  <2>4. ~inHalted' /\ ~outHalted'
    BY <1>0, <2>1 DEF ClearPhase
  <2>5. cmd.in => recv + x.residue = cmd.dlen
    <3>1. cmd.dlen \in Nat
      BY DEF TypeOK, Command
    <3> QED
      BY <2>1, <2>2, <3>1 DEF ClearPhase
  <2>6. CswPhase'
    BY <1>0, <2>1, <2>2, <2>3, <2>4, <2>5 DEF CswPhase, ClearPhase
  <2> QED
    BY <1>0, <2>6 DEF Phase
<1> QED
  BY <1>0, <1>1, <1>2, <1>3, <1>4 DEF BulkInv

LEMMA OwedTyped ==
    ASSUME TypeOK, NEW st \in {0, 1}
    PROVE  Owed(st) \in [Luns -> Sense]
<1>1. owed \in [Luns -> Sense]
  BY DEF TypeOK
<1>2. ExpectedSense(cmd) \in Sense /\ "ok" \in Sense
  BY DEF ExpectedSense, Sense
<1> QED
  BY <1>1, <1>2 DEF Owed

LEMMA ReadCswStep ==
    ASSUME TypeOK, BulkInv, ReadCsw
    PROVE  TypeOK' /\ BulkInv'
<1>0. /\ host = "csw"
      /\ UNCHANGED <<wr, store, sense, inHalted, outHalted, cmd, left, tag, recv, gaveUp, told>>
      /\ inq \in Seq(ChunkType) /\ CswLen \in Nat
  BY DEF ReadCsw, TypeOK, CswLen
<1>1. gaveUp # "left" => Written /\ ~wr.on
  BY <1>0 DEF BulkInv, Written, Writing
<1>2. gaveUp # "reset" => CswPhase \/ Swallowed
  BY <1>0 DEF BulkInv, Phase
<1>3. Allowed'
  BY <1>0 DEF BulkInv, Allowed
<1>4. Legal'
  BY <1>0 DEF BulkInv, Legal
<1>5. CASE inHalted /\ host' = "failed" /\ UNCHANGED <<inq, status, csw, owed>>
  <2>1. TypeOK'
    BY <1>0, <1>5 DEF TypeOK
  <2>2. gaveUp # "left" => Written'
    BY <1>0, <1>1, <1>5, TakeWritten
  <2>3. gaveUp = "reset"
    BY <1>2, <1>5 DEF CswPhase, Swallowed
  <2> QED
    BY <1>0, <1>3, <1>4, <2>1, <2>2, <2>3 DEF BulkInv
<1>6. CASE ~inHalted /\ inq = <<>> /\ host' = "waiting" /\ UNCHANGED <<inq, status, csw, owed>>
  <2>1. TypeOK'
    BY <1>0, <1>6 DEF TypeOK
  <2>2. gaveUp # "left" => Written'
    BY <1>0, <1>1, <1>6, TakeWritten
  <2>3. gaveUp # "reset" => gaveUp = "left"
    <3>1. Len(inq) = 0
      BY <1>6
    <3> QED
      BY <1>2, <3>1 DEF CswPhase, Swallowed
  <2>4. gaveUp # "reset" => Phase'
    BY <1>0, <1>6, <2>3 DEF Phase
  <2> QED
    BY <1>0, <1>3, <1>4, <2>1, <2>2, <2>4 DEF BulkInv
<1>7. CASE /\ ~inHalted /\ inq # <<>> /\ inq' = RestOfFront(CswLen) /\ Head(inq).kind # "csw"
           /\ host' = "lost" /\ UNCHANGED <<status, csw, owed>>
  <2>0. /\ inq' \in Seq(ChunkType) /\ Head(inq) = inq[1]
        /\ \A i \in DOMAIN inq' : \E j \in DOMAIN inq :
              /\ inq'[i].kind = inq[j].kind /\ inq'[i].tag = inq[j].tag
              /\ inq'[i].status = inq[j].status
    BY <1>0, <1>7, Taken
  <2>1. TypeOK'
    BY <1>0, <1>7, <2>0 DEF TypeOK
  <2>2. gaveUp # "left" => Written'
    BY <1>0, <1>1, <1>7, <2>0, TakeWritten
  <2>3. gaveUp = "reset"
    BY <1>2, <1>7, <2>0 DEF CswPhase, Swallowed, Answer, IsCsw
  <2> QED
    BY <1>0, <1>3, <1>4, <2>1, <2>2, <2>3 DEF BulkInv
<1>8. CASE /\ ~inHalted /\ inq # <<>> /\ inq' = RestOfFront(CswLen) /\ Head(inq).kind = "csw"
           /\ host' = "idle" /\ status' = Head(inq).status /\ csw' = Head(inq).tag
           /\ owed' = Owed(Head(inq).status)
  <2>0. /\ inq' \in Seq(ChunkType) /\ Head(inq) = inq[1] /\ inq[1] \in ChunkType /\ 1 \in DOMAIN inq
        /\ \A i \in DOMAIN inq' : \E j \in DOMAIN inq :
              /\ inq'[i].kind = inq[j].kind /\ inq'[i].tag = inq[j].tag
              /\ inq'[i].status = inq[j].status
    BY <1>0, <1>8, Taken
  <2>1. TypeOK'
    <3>1. status' \in {0, 1} /\ csw' \in 0 .. MaxCmds /\ owed' \in [Luns -> Sense]
      BY <1>8, <2>0, OwedTyped DEF ChunkType
    <3> QED
      BY <1>0, <1>8, <2>0, <3>1 DEF TypeOK
  <2>2. gaveUp # "left" => Written'
    <3> SUFFICES ASSUME gaveUp # "left" PROVE Written'
      OBVIOUS
    <3>1. /\ csw' <= tag
          /\ csw' = tag /\ cmd.op = "write" /\ status' = 0 => ~wr.on /\ Landed
      BY <1>1, <1>8, <2>0 DEF Written, IsCsw
    <3>2. \A i \in DOMAIN inq' : IsCsw(inq'[i]) =>
             /\ inq'[i].tag <= tag
             /\ inq'[i].tag = tag /\ cmd.op = "write" /\ inq'[i].status = 0 => ~wr.on /\ Landed
      BY <1>1, <2>0 DEF Written, IsCsw
    <3>3. Landed' = Landed
      BY <1>0 DEF Landed, Blocks
    <3>4. Writing'
      BY <1>0, <1>1 DEF Writing
    <3> QED
      BY <1>0, <1>8, <3>1, <3>2, <3>3, <3>4 DEF Written, IsCsw
  <2>3. gaveUp # "reset" => Phase'
    <3> SUFFICES ASSUME gaveUp # "reset" PROVE Phase'
      OBVIOUS
    <3>1. Len(inq) = 1 /\ inq[1].len = CswLen /\ ~inHalted /\ ~outHalted
      <4>1. CASE CswPhase
        BY <4>1 DEF CswPhase, Answer
      <4>2. CASE Swallowed
        <5>1. Len(inq) = 1 /\ inq[1].len = CswLen
          BY <1>8, <4>2 DEF Swallowed
        <5> QED
          BY <4>2, <5>1 DEF Swallowed
      <4> QED
        BY <1>2, <4>1, <4>2
    <3>2. inq' = <<>>
      <4>1. CswLen <= CswLen
        BY DEF CswLen
      <4> QED
        BY <1>0, <1>8, <3>1, <4>1, Taken
    <3>3. gaveUp = "never" => ~wr.on /\ csw' = tag /\ sense = owed'
      <4> SUFFICES ASSUME gaveUp = "never" PROVE ~wr.on /\ csw' = tag /\ sense = owed'
        OBVIOUS
      <4>1. ~wr.on /\ Answer(inq[1], inq[1].residue)
        BY <1>2 DEF CswPhase, Swallowed
      <4>2. inq[1].status \in {0, 1}
        BY <2>0 DEF ChunkType
      <4>3. sense = Owed(inq[1].status)
        BY <4>1, <4>2 DEF Answer
      <4> QED
        BY <1>8, <2>0, <4>1, <4>3 DEF Answer
    <3> QED
      BY <1>0, <1>8, <3>1, <3>2, <3>3 DEF Phase
  <2> QED
    BY <1>0, <1>3, <1>4, <2>1, <2>2, <2>3 DEF BulkInv
<1> QED
  BY <1>5, <1>6, <1>7, <1>8 DEF ReadCsw

LEMMA ResetStep ==
    ASSUME TypeOK, BulkInv, ResetRecovery
    PROVE  TypeOK' /\ BulkInv'
<1>1. \A x, y : [OnReset(Device) EXCEPT !.inHalted = x, !.outHalted = y]
                   = Dev(NoWrite, store, sense, inq, x, y)
  <2>1. OnReset(Device) = Dev(NoWrite, store, sense, inq, inHalted, outHalted)
    BY DEF OnReset, Device, Dev
  <2>2. \A d, x, y : [d EXCEPT !.inHalted = x, !.outHalted = y]
                      = [[d EXCEPT !.inHalted = x] EXCEPT !.outHalted = y]
    OBVIOUS
  <2>3. \A oh, x : [Dev(NoWrite, store, sense, inq, inHalted, oh) EXCEPT !.inHalted = x]
                     = Dev(NoWrite, store, sense, inq, x, oh)
    BY DEF Dev
  <2>4. \A x, oh, y : [Dev(NoWrite, store, sense, inq, x, oh) EXCEPT !.outHalted = y]
                        = Dev(NoWrite, store, sense, inq, x, y)
    BY DEF Dev
  <2>5. SUFFICES ASSUME NEW x, NEW y
                 PROVE  [Dev(NoWrite, store, sense, inq, inHalted, outHalted) EXCEPT
                            !.inHalted = x, !.outHalted = y] = Dev(NoWrite, store, sense, inq, x, y)
    BY <2>1
  <2>6. [Dev(NoWrite, store, sense, inq, inHalted, outHalted) EXCEPT !.inHalted = x]
          = Dev(NoWrite, store, sense, inq, x, outHalted)
    BY <2>3
  <2>7. [Dev(NoWrite, store, sense, inq, x, outHalted) EXCEPT !.outHalted = y]
          = Dev(NoWrite, store, sense, inq, x, y)
    BY <2>4
  <2> QED
    BY <2>2, <2>6, <2>7
<1>2. /\ host # "idle" /\ gaveUp # "left" /\ gaveUp' = "reset" /\ host' = "idle"
      /\ UNCHANGED <<cmd, left, tag, recv, status, csw, owed, told>>
      /\ Becomes([OnReset(Device) EXCEPT !.inHalted = FALSE, !.outHalted = FALSE])
  BY DEF ResetRecovery
<1>a. Becomes(Dev(NoWrite, store, sense, inq, FALSE, FALSE))
  BY <1>1, <1>2, Zenon
<1>3. wr' = NoWrite /\ UNCHANGED <<store, sense, inq>> /\ inHalted' = FALSE /\ outHalted' = FALSE
  BY <1>a, BecomesDev
<1>4. wr' \in WriteType /\ ~wr'.on
  BY <1>3, NoWriteTyped
<1>5. TypeOK'
  BY <1>2, <1>3, <1>4 DEF TypeOK
<1>6. Allowed' /\ Legal'
  BY <1>2, <1>4 DEF Allowed, Legal
<1>7. Written'
  <2>1. Written
    BY <1>2 DEF BulkInv
  <2>2. Landed' = Landed
    BY <1>2, <1>3 DEF Landed, Blocks
  <2> QED
    BY <1>2, <1>3, <1>4, <2>1, <2>2 DEF Written, Writing, IsCsw
<1> QED
  BY <1>2, <1>5, <1>6, <1>7 DEF BulkInv

LEMMA ReattachStep ==
    ASSUME TypeOK, BulkInv, Reattach
    PROVE  TypeOK' /\ BulkInv'
<1>1. /\ gaveUp' = "left" /\ host' = "idle" /\ inq' = <<>> /\ inHalted' = FALSE /\ outHalted' = FALSE
      /\ UNCHANGED <<wr, store, sense, cmd, left, tag, recv, status, csw, owed, told>>
  BY DEF Reattach
<1>2. TypeOK'
  <2>1. inq' \in Seq(ChunkType)
    BY <1>1
  <2> QED
    BY <1>1, <2>1 DEF TypeOK
<1>3. Allowed' /\ Legal'
  BY <1>1 DEF BulkInv, Allowed, Legal
<1>4. Phase'
  BY <1>1 DEF Phase
<1> QED
  BY <1>1, <1>2, <1>3, <1>4 DEF BulkInv

LEMMA StutterStep ==
    ASSUME TypeOK, BulkInv, UNCHANGED vars
    PROVE  TypeOK' /\ BulkInv'
<1>1. /\ UNCHANGED <<wr, store, sense, inq, inHalted, outHalted>>
      /\ UNCHANGED <<host, cmd, left, tag, recv, status, csw, gaveUp, owed, told>>
  BY DEF vars
<1>2. TypeOK'
  BY <1>1 DEF TypeOK
<1>3. \A x, r : Answer(x, r) => Answer(x, r)'
  BY <1>1 DEF Answer, Owed, IsCsw
<1>4. Phase => Phase'
  <2>1. Writing' = Writing /\ Swallowed' = Swallowed
    BY <1>1 DEF Writing, Swallowed, IsCsw
  <2>2. \A x : IsCsw(x)' = IsCsw(x)
    BY DEF IsCsw
  <2>3. PICK x1, x2 : x1 = inq[1] /\ x2 = inq[2]
    OBVIOUS
  <2>4. InPhase => InPhase'
    BY <1>1, <1>3, <2>2, <2>3 DEF InPhase, IsCsw
  <2>5. OutPhase => OutPhase'
    BY <1>1, <1>3, <2>1, <2>3 DEF OutPhase
  <2>6. ClearPhase => ClearPhase'
    BY <1>1, <1>3, <2>3 DEF ClearPhase
  <2>7. CswPhase => CswPhase'
    BY <1>1, <1>3, <2>3 DEF CswPhase
  <2> QED
    BY <1>1, <2>1, <2>4, <2>5, <2>6, <2>7 DEF Phase
<1>5. Written => Written'
  <2>1. Landed' = Landed
    BY <1>1 DEF Landed, Blocks
  <2> QED
    BY <1>1, <2>1 DEF Written, Writing, IsCsw
<1>6. Allowed' /\ Legal'
  BY <1>1 DEF BulkInv, Allowed, Legal
<1> QED
  BY <1>1, <1>2, <1>4, <1>5, <1>6 DEF BulkInv

-----------------------------------------------------------------------------
(* The theorems.                                                           *)

LEMMA BulkStep ==
    ASSUME TypeOK, BulkInv, [Next]_vars
    PROVE  TypeOK' /\ BulkInv'
<1>1. CASE \E c \in Commands : SendCbw(c)
  BY <1>1, SendStep
<1>2. CASE DataIn
  BY <1>2, DataInStep
<1>3. CASE \E n \in 1 .. 2 : DataOut(n)
  BY <1>3, DataOutStep
<1>4. CASE ClearHalt
  BY <1>4, ClearHaltStep
<1>5. CASE ReadCsw
  BY <1>5, ReadCswStep
<1>6. CASE ResetRecovery
  BY <1>6, ResetStep
<1>7. CASE Reattach
  BY <1>7, ReattachStep
<1>8. CASE UNCHANGED vars
  BY <1>8, StutterStep
<1> QED
  BY <1>1, <1>2, <1>3, <1>4, <1>5, <1>6, <1>7, <1>8 DEF Next

\* Every variable of the device and of the host's driver has its type, and the
\* phases of a command relate the two, for any units, blocks and numbers of
\* commands (msc.py, both sides).
THEOREM BulkTyped == Spec => [](TypeOK /\ BulkInv)
<1>1. Init => TypeOK /\ BulkInv
  BY TypeInit, InvInit
<1>2. TypeOK /\ BulkInv /\ [Next]_vars => (TypeOK /\ BulkInv)'
  BY BulkStep
<1> QED
  BY <1>1, <1>2, PTL DEF Spec

\* Until a host gives up on a command, it and the device never lose step: each
\* status is read as a status, each piece of data as data, and nothing is left
\* between two commands (MSC._dispatch, command_in and command_out).
THEOREM NeverOutOfStep == Spec => []InStep
<1>1. TypeOK /\ BulkInv => InStep
  BY DEF BulkInv, Phase, InStep, Clean
<1> QED
  BY <1>1, BulkTyped, PTL

\* What a host is told of a command is the truth: the residue, the sense data
\* and that a write is in the store.
THEOREM TruthTold == Spec => []ToldTheTruth
<1>1. ASSUME TypeOK, BulkInv PROVE ToldTheTruth
  <2>0. gaveUp # "reset" /\ host = "csw" => CswPhase \/ (Swallowed /\ (cmd.in => cmd.dlen = 0))
    BY <1>1 DEF BulkInv, Phase
  <2>1. ASSUME gaveUp # "reset", NEW i \in DOMAIN inq, host = "csw", cmd.in, inq[i].kind = "csw"
        PROVE  recv + inq[i].residue = cmd.dlen
    <3>0. inq \in Seq(ChunkType)
      BY <1>1 DEF TypeOK
    <3>1. Len(inq) = 1 => i = 1
      <4>1. i \in 1 .. Len(inq)
        BY <2>1, <3>0
      <4> QED
        BY <4>1
    <3>2. CASE CswPhase
      <4>1. Len(inq) = 1 /\ recv + inq[1].residue = cmd.dlen
        BY <2>1, <3>2 DEF CswPhase
      <4> QED
        BY <3>1, <4>1
    <3>3. CASE Swallowed /\ cmd.dlen = 0
      <4>1. inq # <<>>
        BY <2>1
      <4>2. Len(inq) = 1 /\ inq[1].residue = 0 /\ recv = 0
        BY <3>3, <4>1 DEF Swallowed
      <4> QED
        BY <3>1, <3>3, <4>2
    <3> QED
      BY <2>0, <2>1, <3>2, <3>3
  <2>2. gaveUp = "never" /\ host = "csw" /\ cmd.op = "sense" => told = owed[cmd.lun]
    BY <2>0 DEF CswPhase, Swallowed
  <2>3. gaveUp # "left" /\ csw = tag /\ cmd.op = "write" /\ status = 0 => Landed
    BY <1>1 DEF BulkInv, Written
  <2> QED
    BY <2>1, <2>2, <2>3 DEF ToldTheTruth, Landed
<1> QED
  BY <1>1, BulkTyped, PTL

\* Where the data of a write ends up: in its own blocks, on a unit that may be
\* written.
LEMMA LandsInItsBlocks ==
    ASSUME TypeOK, Allowed, wr.on, NEW got, NEW v, Ends(got, v) \/ GoesOn(got, v),
           NEW l \in Luns, NEW b \in DOMAIN store[l], store'[l][b] # store[l][b]
    PROVE  l = wr.lun /\ l \notin ReadOnly /\ b \in Blocks(wr) /\ store'[l][b] = v
<1>1. store' = StoreAfter(wr, got, v)
  BY DEF Ends, GoesOn
<1>2. store \in [Luns -> [0 .. (NumBlocks - 1) -> Values \cup {Blank}]] /\ wr.lun \in Luns
  BY DEF TypeOK, WriteType
<1> DEFINE f == [j \in DOMAIN store[wr.lun] |->
                   IF j \in {i \in Blocks(wr) : (i + 1 - wr.lba) * BlockSize <= got}
                   THEN v ELSE store[wr.lun][j]]
<1>3. store' = [store EXCEPT ![wr.lun] = f]
  BY <1>1 DEF StoreAfter
<1>4. ASSUME l = wr.lun PROVE b \in Blocks(wr) /\ f[b] = v
  <2>1. f[b] # store[wr.lun][b]
    BY <1>2, <1>3, <1>4
  <2>2. f[b] = IF b \in {i \in Blocks(wr) : (i + 1 - wr.lba) * BlockSize <= got}
               THEN v ELSE store[wr.lun][b]
    BY <1>4
  <2> QED
    BY <2>1, <2>2
<1> HIDE DEF f
<1>5. l = wr.lun
  BY <1>2, <1>3
<1>6. store'[l][b] = f[b]
  BY <1>2, <1>3, <1>5
<1> QED
  BY <1>4, <1>5, <1>6 DEF Allowed

LEMMA LandingStep ==
    ASSUME TypeOK, BulkInv, Next, NEW l \in Luns, NEW b \in DOMAIN store[l],
           store'[l][b] # store[l][b]
    PROVE  /\ l \notin ReadOnly
           /\ gaveUp # "left" => /\ cmd.op = "write" /\ l = cmd.lun
                                 /\ b \in Blocks(cmd)
                                 /\ store'[l][b] = cmd.val
<1>0. Allowed /\ (gaveUp # "left" => Writing)
  BY DEF BulkInv, Written
<1>1. CASE \E c \in Commands : SendCbw(c)
  <2>1. PICK c \in Commands : SendCbw(c)
    BY <1>1
  <2>2. ~(outHalted /\ UNCHANGED <<wr, store, sense, inq, inHalted, outHalted>>) /\ ~Handled(c)
    BY DEF Handled, Refuses, Accepts, Passes, Sends
  <2>3. wr.on /\ Becomes(RecvWrite(Device, CbwLen))
    BY <2>1, <2>2, SendCases
  <2>4. CbwLen \in Nat
    BY DEF CbwLen
  <2>5. PICK got, v : Ends(got, v) \/ GoesOn(got, v)
    BY <2>3, <2>4, Receives
  <2>6. l \notin ReadOnly
    BY <1>0, <2>3, <2>5, LandsInItsBlocks
  <2>7. host = "idle"
    BY <2>1 DEF SendCbw
  <2> QED
    BY <1>0, <2>3, <2>6, <2>7 DEF Writing
<1>2. CASE \E n \in 1 .. 2 : DataOut(n)
  <2>1. PICK n \in 1 .. 2 : DataOut(n)
    BY <1>2
  <2>2. /\ host = "data" /\ cmd \in Commands /\ cmd.dlen \in Nat /\ n * BlockSize \in Nat
        /\ (n * BlockSize) % BlockSize = 0
    BY <2>1, CommandForms DEF DataOut, BulkInv, Legal, Command, BlockSize
  <2>3. CASE Becomes(OnOutData(Device, n * BlockSize))
    <3>1. wr.on /\ Becomes(RecvWrite(Device, n * BlockSize))
      BY <2>3, OutCases
    <3>2. PICK got, v : v = ValueAfter(wr, n * BlockSize) /\ (Ends(got, v) \/ GoesOn(got, v))
      BY <2>2, <3>1, Receives
    <3>3. l = wr.lun /\ l \notin ReadOnly /\ b \in Blocks(wr) /\ store'[l][b] = v
      BY <1>0, <3>1, <3>2, LandsInItsBlocks
    <3>4. v = wr.val
      BY <2>2, <3>2 DEF ValueAfter
    <3> QED
      BY <1>0, <3>1, <3>3, <3>4 DEF Writing, Blocks
  <2>4. CASE cmd.op # "write" /\ Becomes(OnOutData(Device, cmd.dlen))
    <3>1. wr.on /\ Becomes(RecvWrite(Device, cmd.dlen))
      BY <2>4, OutCases
    <3>2. PICK got, v : Ends(got, v) \/ GoesOn(got, v)
      BY <2>2, <3>1, Receives
    <3>3. l \notin ReadOnly
      BY <1>0, <3>1, <3>2, LandsInItsBlocks
    <3> QED
      BY <1>0, <2>4, <3>1, <3>3 DEF Writing
  <2> QED
    BY <2>1, <2>3, <2>4 DEF DataOut, device
<1>3. CASE DataIn \/ ClearHalt \/ ReadCsw \/ Reattach
  BY <1>3 DEF DataIn, ClearHalt, ReadCsw, Reattach
<1>4. CASE ResetRecovery
  <2>1. UNCHANGED store
    BY <1>4 DEF ResetRecovery, Becomes, OnReset, Device
  <2> QED
    BY <2>1
<1> QED
  BY <1>1, <1>2, <1>3, <1>4 DEF Next

\* A step changes the store only by a write that is within range, on a unit
\* that may be written: in its own blocks, to its own data (_recv_write).
THEOREM WritesLand == Spec => WritesLandWhereMeant
<1>1. ASSUME TypeOK, BulkInv, [Next]_vars
      PROVE  [\A l \in Luns : \A b \in DOMAIN store[l] : store'[l][b] # store[l][b] =>
                 /\ l \notin ReadOnly
                 /\ gaveUp # "left" => /\ cmd.op = "write" /\ l = cmd.lun
                                       /\ b \in Blocks(cmd)
                                       /\ store'[l][b] = cmd.val]_vars
  BY <1>1, LandingStep
<1> QED
  BY <1>1, BulkTyped, PTL DEF Spec, WritesLandWhereMeant
=============================================================================
