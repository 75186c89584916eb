------------------------------ MODULE Endpoint ------------------------------
(***************************************************************************)
(* One IN endpoint of an exported device (usbip/device.py, class           *)
(* Endpoint), with the threads that meet in it: the serve thread of each   *)
(* connection (usbip/protocol.py, serve_connection) and the threads of     *)
(* the device's own code, which write data and halt the endpoint.          *)
(*                                                                         *)
(* What the module keeps of the code's concurrency:                        *)
(*   - ep._cv protects _q, _pending and halted, except that handle_urb     *)
(*     reads `halted` without it;                                          *)
(*   - URBs are taken out of _pending under the lock and completed outside *)
(*     it, so a thread holds URBs in `done` that no other thread can see;  *)
(*   - `respond` and write_ret_unlink write one whole reply under the      *)
(*     connection's own lock, so a reply is one step.                      *)
(*                                                                         *)
(* What it abstracts: a written blob is the interval [lo, hi) of the       *)
(* numbers of its bytes, counted from the first byte the device ever       *)
(* wrote; EP0 replies and OUT replies are left out (they do not touch the  *)
(* endpoint).  `respond` to a host that is gone raises OSError, which it   *)
(* swallows: the URB and its data disappear.                               *)
(***************************************************************************)
EXTENDS Integers, Sequences, FiniteSets

CONSTANTS
    Conns,      \* connections that may ever import the device
    Writers,    \* threads of the device's own code
    NoThread,   \* the lock's owner when nobody holds it
    Lens,       \* transfer lengths the host asks for (urb.length or ep.mps)
    Sizes,      \* sizes of the blobs the device writes
    MaxSeq,     \* bound: URBs submitted on a connection
    MaxWrites,  \* bound: calls of Endpoint.write
    OneHost     \* TRUE: a host imports only after the previous one is gone

Threads == Conns \cup Writers

ASSUME ThreadAssumption == NoThread \notin Threads /\ Conns \cap Writers = {}
ASSUME BoundAssumption  == MaxSeq \in Nat /\ MaxWrites \in Nat /\ OneHost \in BOOLEAN
ASSUME LengthAssumption == Lens \subseteq Nat \ {0} /\ Sizes \subseteq Nat

VARIABLES
    cv,        \* owner of Endpoint._cv
    q,         \* Endpoint._q: chunks of data nobody has taken
    pending,   \* Endpoint._pending: URBs parked until there is data
    halted,    \* Endpoint.halted
    done,      \* per thread: URBs it has taken out of _pending, not yet answered
    pc,        \* per connection: where its serve thread is
    urb,       \* per connection: the URB its serve thread is working on
    answer,    \* per connection: what handle_urb has put in that URB
    wire,      \* per connection: the replies written to its socket, in order
    alive,     \* per connection: the host has not gone away
    nextSeq,   \* per connection: the next sequence number the host uses
    unlinked,  \* per connection: the sequence numbers the host has unlinked
    written,   \* number of bytes the device has written
    writes,    \* number of calls of write
    dropped,   \* history: URBs that left without an answer
    base,      \* history: `written` at the last reset
    start,     \* history: per connection, `written` when it attached
    lost       \* history: bytes that went to a host that was gone

vars == <<cv, q, pending, halted, done, pc, urb, answer, wire, alive, nextSeq,
          unlinked, written, writes, dropped, base, start, lost>>

-----------------------------------------------------------------------------
(* Data.                                                                   *)

\* A blob of data: the bytes numbered lo .. hi-1.
Bytes(chunk) == chunk.lo .. (chunk.hi - 1)

NoData == [lo |-> 0, hi |-> 0, status |-> "stall"]

\* What one URB is given from the front chunk: at most `len` bytes of it.
FrontPiece(len) ==
    LET front == Head(q)
    IN  [lo |-> front.lo, status |-> "ok",
         hi |-> IF front.hi - front.lo > len THEN front.lo + len ELSE front.hi]

\* Mutants: the unread tail is thrown away; it goes to the back of the queue.
AfterFrontPieceDropsTail(len) == Tail(q)
AfterFrontPieceAtBack(len) ==
    IF Head(q).hi - Head(q).lo > len
    THEN Append(Tail(q), [Head(q) EXCEPT !.lo = Head(q).lo + len])
    ELSE Tail(q)

\* The chunks that are left: a chunk longer than the URB keeps its tail.
AfterFrontPiece(len) ==
    IF Head(q).hi - Head(q).lo > len
    THEN <<[Head(q) EXCEPT !.lo = Head(q).lo + len]>> \o Tail(q)
    ELSE Tail(q)

\* The identity of a URB: sequence numbers are per connection.
Id(u) == <<u.conn, u.seq>>

Ids(s) == {Id(s[i]) : i \in DOMAIN s}

Reply(u, a) == [kind |-> "submit", seq |-> u.seq, lo |-> a.lo, hi |-> a.hi, status |-> a.status]

UnlinkReply(n) == [kind |-> "unlink", seq |-> n, lo |-> 0, hi |-> 0, status |-> "ok"]

\* Mutant: the oldest entry is removed.
WithoutPopsFirst(s, i) == Tail(s)

\* `del` of entry i of a deque.
Without(s, i) == SubSeq(s, 1, i - 1) \o SubSeq(s, i + 1, Len(s))

\* Mutant: the URB is parked in front of those that wait already.
ParkInFront(u) == <<u>> \o pending

\* A URB is parked behind those that wait already.
Park(u) == Append(pending, u)

\* Mutant: the first parked URB is looked at, not taken out.
PopParkedPeeks == pending

\* _pending.popleft() leaves the rest.
PopParked == Tail(pending)

\* Mutants: `write` completes one URB per call; handle_urb ignores the halt.
WriteLoopStopsEarly == TRUE
IgnoresHalt == FALSE

\* The loop of `write` ends.
WriteLoopEnds == pending = <<>> \/ q = <<>>

\* handle_urb STALLs the URB at once.
StallsAtOnce == halted

\* The completions `stall` makes of the URBs it takes out.
Stalls(s) == [i \in DOMAIN s |-> [conn |-> s[i].conn, seq |-> s[i].seq, data |-> NoData]]

-----------------------------------------------------------------------------
(* The socket of a connection.                                             *)

\* `respond`: the reply is written, or swallowed when the host is gone.
Send(u, a) ==
    IF alive[u.conn]
    THEN /\ wire' = [wire EXCEPT ![u.conn] = Append(@, Reply(u, a))]
         /\ UNCHANGED <<dropped, lost>>
    ELSE /\ dropped' = dropped \cup {Id(u)}
         /\ lost' = lost \cup Bytes(a)
         /\ UNCHANGED wire

-----------------------------------------------------------------------------
Init ==
    /\ cv = NoThread
    /\ q = <<>>
    /\ pending = <<>>
    /\ halted = FALSE
    /\ done = [t \in Threads |-> <<>>]
    /\ pc = [c \in Conns |-> "new"]
    /\ urb = [c \in Conns |-> [conn |-> c, seq |-> 0, len |-> 1]]
    /\ answer = [c \in Conns |-> NoData]
    /\ wire = [c \in Conns |-> <<>>]
    /\ alive = [c \in Conns |-> FALSE]
    /\ nextSeq = [c \in Conns |-> 1]
    /\ unlinked = [c \in Conns |-> {}]
    /\ written = 0
    /\ writes = 0
    /\ dropped = {}
    /\ base = 0
    /\ start = [c \in Conns |-> 0]
    /\ lost = {}

-----------------------------------------------------------------------------
(* Endpoint.reset, as USBDevice.reset_io calls it.                         *)

\* Mutant: the data an earlier session left is kept.
ResetKeepsData ==
    /\ cv = NoThread
    /\ pending' = <<>>
    /\ halted' = FALSE
    /\ dropped' = dropped \cup Ids(pending)
    /\ base' = written
    /\ UNCHANGED q

Reset ==
    /\ cv = NoThread
    /\ q' = <<>>
    /\ pending' = <<>>
    /\ halted' = FALSE
    /\ dropped' = dropped \cup Ids(pending)
    /\ base' = written

(***************************************************************************)
(* The serve thread.                                                       *)
(***************************************************************************)

\* The serve thread waits in read_cmd: it works on no URB and has finished
\* the completions of a write or stall it made in a handler.
Idle(c) == pc[c] = "read" /\ done[c] = <<>> /\ cv # c

\* A host has imported the device; reset_io makes the endpoint fresh for it.
Attach(c) ==
    /\ pc[c] = "new"
    /\ OneHost => \A d \in Conns : ~alive[d]
    /\ Reset
    /\ pc' = [pc EXCEPT ![c] = "read"]
    /\ alive' = [alive EXCEPT ![c] = TRUE]
    /\ start' = [start EXCEPT ![c] = written]
    /\ UNCHANGED <<cv, done, urb, answer, wire, nextSeq, unlinked, written, writes, lost>>

\* The host goes away.  What it had sent before is still in the socket.
HostGone(c) ==
    /\ alive[c]
    /\ alive' = [alive EXCEPT ![c] = FALSE]
    /\ UNCHANGED <<cv, q, pending, halted, done, pc, urb, answer, wire, nextSeq, unlinked,
                   written, writes, dropped, base, lost, start>>

\* read_cmd returns an IN URB; handle_urb looks at ep.halted, without the lock.
ReadSubmit(c, len) ==
    /\ Idle(c)
    /\ nextSeq[c] <= MaxSeq
    /\ nextSeq' = [nextSeq EXCEPT ![c] = @ + 1]
    /\ urb' = [urb EXCEPT ![c] = [conn |-> c, seq |-> nextSeq[c], len |-> len]]
    /\ IF StallsAtOnce
       THEN /\ answer' = [answer EXCEPT ![c] = NoData]
            /\ pc' = [pc EXCEPT ![c] = "reply"]
       ELSE /\ pc' = [pc EXCEPT ![c] = "take"]
            /\ UNCHANGED answer
    /\ UNCHANGED <<cv, q, pending, halted, done, wire, alive, unlinked, written, writes,
                   dropped, base, lost, start>>

\* Endpoint.take_or_park: data that is queued is taken, else the URB is parked.
TakeOrPark(c) ==
    /\ pc[c] = "take"
    /\ cv = NoThread
    /\ \/ /\ q # <<>>
          /\ answer' = [answer EXCEPT ![c] = FrontPiece(urb[c].len)]
          /\ q' = AfterFrontPiece(urb[c].len)
          /\ pc' = [pc EXCEPT ![c] = "reply"]
          /\ UNCHANGED pending
       \/ /\ q = <<>>
          /\ pending' = Park(urb[c])
          /\ pc' = [pc EXCEPT ![c] = "read"]
          /\ UNCHANGED <<q, answer>>
    /\ UNCHANGED <<cv, halted, done, urb, wire, alive, nextSeq, unlinked, written, writes,
                   dropped, base, lost, start>>

\* handle_urb has returned the URB: respond(urb).
Respond(c) ==
    /\ pc[c] = "reply"
    /\ Send(urb[c], answer[c])
    /\ pc' = [pc EXCEPT ![c] = "read"]
    /\ UNCHANGED <<cv, q, pending, halted, done, urb, answer, alive, nextSeq, unlinked,
                   written, writes, base, start>>

\* CMD_UNLINK: Endpoint.cancel drops the first parked URB with the sequence
\* number, whichever connection parked it.  The host may unlink a URB whose
\* answer is on its way to it.
ReadUnlink(c, n) ==
    /\ Idle(c)
    /\ n < nextSeq[c] /\ n \notin unlinked[c]
    /\ cv = NoThread
    /\ unlinked' = [unlinked EXCEPT ![c] = @ \cup {n}]
    /\ \/ \E i \in DOMAIN pending :
             /\ pending[i].seq = n
             /\ \A j \in 1 .. (i - 1) : pending[j].seq # n
             /\ pending' = Without(pending, i)
             /\ dropped' = dropped \cup {Id(pending[i])}
       \/ /\ \A i \in DOMAIN pending : pending[i].seq # n
          /\ UNCHANGED <<pending, dropped>>
    /\ urb' = [urb EXCEPT ![c] = [conn |-> c, seq |-> n, len |-> 1]]
    /\ pc' = [pc EXCEPT ![c] = "unlink"]
    /\ UNCHANGED <<cv, q, halted, done, answer, wire, alive, nextSeq, written, writes, base,
                   lost, start>>

\* write_ret_unlink.
RespondUnlink(c) ==
    /\ pc[c] = "unlink"
    /\ wire' = IF alive[c]
               THEN [wire EXCEPT ![c] = Append(@, UnlinkReply(urb[c].seq))]
               ELSE wire
    /\ pc' = [pc EXCEPT ![c] = "read"]
    /\ UNCHANGED <<cv, q, pending, halted, done, urb, answer, alive, nextSeq, unlinked,
                   written, writes, dropped, base, lost, start>>

\* CLEAR_FEATURE(ENDPOINT_HALT): queued data is kept.
ReadClearHalt(c) ==
    /\ Idle(c)
    /\ cv = NoThread
    /\ halted
    /\ halted' = FALSE
    /\ UNCHANGED <<cv, q, pending, done, pc, urb, answer, wire, alive, nextSeq, unlinked,
                   written, writes, dropped, base, lost, start>>

\* SET_CONFIGURATION flushes the endpoint in the middle of a session.
ReadSetConfiguration(c) ==
    /\ Idle(c)
    /\ Reset
    /\ UNCHANGED <<cv, done, pc, urb, answer, wire, alive, nextSeq, unlinked, written, writes,
                   lost, start>>

\* read_cmd finds the socket at its end: the serve thread closes it and ends,
\* leaving the URBs it parked where they are.
Close(c) ==
    /\ Idle(c)
    /\ ~alive[c]
    /\ pc' = [pc EXCEPT ![c] = "closed"]
    /\ UNCHANGED <<cv, q, pending, halted, done, urb, answer, wire, alive, nextSeq, unlinked,
                   written, writes, dropped, base, lost, start>>

(***************************************************************************)
(* The device's code: a thread of its own, or a handler that the serve     *)
(* thread runs (an interface's on_out or on_control).                      *)
(***************************************************************************)

RunsDeviceCode(t) == done[t] = <<>> /\ (t \in Conns => pc[t] = "read")

\* Endpoint.write takes the lock and queues the blob ...
Write(t, size) ==
    /\ RunsDeviceCode(t)
    /\ cv = NoThread
    /\ writes < MaxWrites
    /\ cv' = t
    /\ q' = Append(q, [lo |-> written, hi |-> written + size])
    /\ written' = written + size
    /\ writes' = writes + 1
    /\ UNCHANGED <<pending, halted, done, pc, urb, answer, wire, alive, nextSeq, unlinked,
                   dropped, base, lost, start>>

\* ... matches parked URBs with chunks while there are some of both ...
Match(t) ==
    /\ cv = t
    /\ pending # <<>> /\ q # <<>>
    /\ pending' = PopParked
    /\ done' = [done EXCEPT ![t] = Append(@, [conn |-> Head(pending).conn,
                                              seq  |-> Head(pending).seq,
                                              data |-> FrontPiece(Head(pending).len)])]
    /\ q' = AfterFrontPiece(Head(pending).len)
    /\ UNCHANGED <<cv, halted, pc, urb, answer, wire, alive, nextSeq, unlinked, written, writes,
                   dropped, base, lost, start>>

\* ... and lets the lock go.
Unlock(t) ==
    /\ cv = t
    /\ WriteLoopEnds
    /\ cv' = NoThread
    /\ UNCHANGED <<q, pending, halted, done, pc, urb, answer, wire, alive, nextSeq, unlinked,
                   written, writes, dropped, base, lost, start>>

\* Mutant: only URBs that were given data are completed.
CompleteDataOnly(t) ==
    /\ cv # t
    /\ done[t] # <<>> /\ Head(done[t]).data.status = "ok"
    /\ Send(Head(done[t]), Head(done[t]).data)
    /\ done' = [done EXCEPT ![t] = Tail(@)]
    /\ UNCHANGED <<cv, q, pending, halted, pc, urb, answer, alive, nextSeq, unlinked, written,
                   writes, base, start>>

\* The URBs taken out under the lock are completed outside it, one by one.
Complete(t) ==
    /\ cv # t
    /\ done[t] # <<>>
    /\ Send(Head(done[t]), Head(done[t]).data)
    /\ done' = [done EXCEPT ![t] = Tail(@)]
    /\ UNCHANGED <<cv, q, pending, halted, pc, urb, answer, alive, nextSeq, unlinked, written,
                   writes, base, start>>

\* Endpoint.stall: halt, and take every parked URB out to be STALLed.
Stall(t) ==
    /\ RunsDeviceCode(t)
    /\ cv = NoThread
    /\ halted' = TRUE
    /\ done' = [done EXCEPT ![t] = Stalls(pending)]
    /\ pending' = <<>>
    /\ UNCHANGED <<cv, q, pc, urb, answer, wire, alive, nextSeq, unlinked, written, writes,
                   dropped, base, lost, start>>

-----------------------------------------------------------------------------
ServeStep(c) ==
    \/ Attach(c)
    \/ \E len \in Lens : ReadSubmit(c, len)
    \/ TakeOrPark(c)
    \/ Respond(c)
    \/ \E n \in 1 .. MaxSeq : ReadUnlink(c, n)
    \/ RespondUnlink(c)
    \/ ReadClearHalt(c)
    \/ ReadSetConfiguration(c)
    \/ Close(c)

DeviceStep(t) ==
    \/ \E size \in Sizes : Write(t, size)
    \/ Match(t)
    \/ Unlock(t)
    \/ Complete(t)
    \/ Stall(t)

Next ==
    \/ \E c \in Conns : HostGone(c) \/ ServeStep(c)
    \/ \E t \in Threads : DeviceStep(t)

Spec == Init /\ [][Next]_vars

\* Threads that are in the middle of a call go on: the operating system runs
\* them, and the lock is free again after every finite loop of `write`.  The
\* host, and the device's decisions to write or to stall, are not fair.
Fairness ==
    /\ \A c \in Conns : WF_vars(TakeOrPark(c)) /\ WF_vars(Respond(c)) /\ WF_vars(RespondUnlink(c))
    /\ \A t \in Threads : WF_vars(Match(t)) /\ WF_vars(Unlock(t)) /\ WF_vars(Complete(t))

FairSpec == Spec /\ Fairness

-----------------------------------------------------------------------------
(* Where URBs and bytes are.                                               *)

Urbs      == Conns \X (1 .. MaxSeq)
Submitted == {u \in Urbs : u[2] < nextSeq[u[1]]}

InHand(c)   == pc[c] \in {"take", "reply"}
ParkedIds   == Ids(pending)
DoneIds     == UNION {Ids(done[t]) : t \in Threads}
InHandIds   == {Id(urb[c]) : c \in {d \in Conns : InHand(d)}}

AnswersOn(c) == {i \in DOMAIN wire[c] : wire[c][i].kind = "submit"}
AnsweredIds  == {u \in Urbs : \E i \in AnswersOn(u[1]) : wire[u[1]][i].seq = u[2]}

\* Every piece of data given to a URB, with the URB's identity.
Piece(c, n, a) == [conn |-> c, seq |-> n, lo |-> a.lo, hi |-> a.hi, status |-> a.status]

Given ==
    {g \in   {Piece(c, urb[c].seq, answer[c]) : c \in {d \in Conns : pc[d] = "reply"}}
       \cup (UNION {{Piece(d.conn, d.seq, d.data) : d \in {done[t][i] : i \in DOMAIN done[t]}}
                      : t \in Threads})
       \cup (UNION {{Piece(c, wire[c][i].seq, wire[c][i]) : i \in AnswersOn(c)} : c \in Conns})
     : g.status = "ok"}

-----------------------------------------------------------------------------
(* Properties of every run.                                                *)

Chunk  == [lo : Nat, hi : Nat]
Data   == [lo : Nat, hi : Nat, status : {"ok", "stall"}]
Urb    == [conn : Conns, seq : Nat, len : Nat \ {0}]
Taken  == [conn : Conns, seq : Nat, data : Data]
OnWire == [kind : {"submit", "unlink"}, seq : Nat, lo : Nat, hi : Nat, status : {"ok", "stall"}]

\* Every variable has its type.
TypeOK ==
    /\ cv \in Threads \cup {NoThread}
    /\ q \in Seq(Chunk)
    /\ pending \in Seq(Urb)
    /\ halted \in BOOLEAN
    /\ done \in [Threads -> Seq(Taken)]
    /\ pc \in [Conns -> {"new", "read", "take", "reply", "unlink", "closed"}]
    /\ urb \in [Conns -> Urb]
    /\ answer \in [Conns -> Data]
    /\ wire \in [Conns -> Seq(OnWire)]
    /\ alive \in [Conns -> BOOLEAN]
    /\ nextSeq \in [Conns -> Nat \ {0}]
    /\ unlinked \in [Conns -> SUBSET Nat]
    /\ written \in Nat
    /\ writes \in Nat
    /\ dropped \subseteq Conns \X Nat
    /\ base \in Nat
    /\ start \in [Conns -> Nat]
    /\ lost \subseteq Nat

\* No lost wake-up: whenever the lock is free, data is not left in the queue
\* beside a parked URB that could take it (the stall that the docstring of
\* Endpoint.write tells of).
NoLostWakeup == cv = NoThread => q = <<>> \/ pending = <<>>

\* Data is given to URBs in the order in which the host submitted them, also
\* when it reaches the wire in another order.
DataInUrbOrder ==
    \A g, h \in Given : g.conn = h.conn /\ g.seq < h.seq => g.hi <= h.lo

\* Every byte written since the last reset is in exactly one place: queued,
\* given to one URB, or gone with a host that had left.
ByteSlots(b) ==
         {<<"queued", i>> : i \in {j \in DOMAIN q : b \in Bytes(q[j])}}
    \cup {<<"given", g.conn, g.seq>> : g \in {h \in Given : b \in Bytes(h)}}
    \cup IF b \in lost THEN {<<"lost">>} ELSE {}

BytesConserved == \A b \in base .. (written - 1) : Cardinality(ByteSlots(b)) = 1

\* A halt is nearly airtight: at most one URB of a connection, the one its
\* serve thread had already found the endpoint not halted for, is parked on
\* or takes data from a halted endpoint.
OneLateUrbPerHalt ==
    halted => \A c \in Conns :
        Cardinality({i \in DOMAIN pending : pending[i].conn = c})
            + (IF pc[c] = "take" THEN 1 ELSE 0) <= 1

\* A host sees no data written before it attached.
NoDataOfEarlierSession ==
    \A g \in Given : g.lo < g.hi => g.lo >= start[g.conn]

\* Where a URB is: parked, taken out by a thread, worked on by the serve
\* thread, on the wire, or gone on purpose.
PlacesOf(u) ==
         {<<"parked", i>> : i \in {j \in DOMAIN pending : Id(pending[j]) = u}}
    \cup (UNION {{<<"done", t, i>> : i \in {j \in DOMAIN done[t] : Id(done[t][j]) = u}}
                   : t \in Threads})
    \cup {<<"hand", c>> : c \in {d \in Conns : InHand(d) /\ Id(urb[d]) = u}}
    \cup {<<"wire", i>> : i \in {j \in AnswersOn(u[1]) : wire[u[1]][j].seq = u[2]}}
    \cup IF u \in dropped THEN {<<"dropped">>} ELSE {}

\* What became of it: a URB in two places could be completed twice, and one
\* in none is never completed; neither is a status of UrbLife.
StatusOf(u) ==
    IF u \notin Submitted THEN "unborn"
    ELSE IF Cardinality(PlacesOf(u)) # 1 THEN "astray"
    ELSE IF u \in dropped THEN "dropped"
    ELSE IF u \in AnsweredIds THEN "answered"
    ELSE "held"

\* The endpoint implements UrbLife: a submitted URB is in one place, and goes
\* from held to answered or dropped and nowhere from there.
Status == [u \in Urbs |-> StatusOf(u)]

Life == INSTANCE UrbLife WITH status <- Status

LifeSpec == Life!Spec

-----------------------------------------------------------------------------
(* Properties of a device whose own code runs only in the serve thread     *)
(* (Writers = {}): mass storage, MTP and DFU are such devices.             *)

\* Once RET_UNLINK is out, the unlinked URB is not completed any more.
NoAnswerAfterUnlink ==
    \A c \in Conns : \A i, j \in DOMAIN wire[c] :
        i < j /\ wire[c][i].kind = "unlink" /\ wire[c][j].kind = "submit"
            => wire[c][i].seq # wire[c][j].seq

\* URBs are completed on the wire in the order they were submitted.
AnswersInOrder ==
    \A c \in Conns : \A i, j \in AnswersOn(c) : i < j => wire[c][i].seq < wire[c][j].seq

-----------------------------------------------------------------------------
(* Liveness, under FairSpec.                                               *)

\* A URB that was taken out of the queue, or that the serve thread works on,
\* is answered, parked or dropped: no completion is left undone.
TakenIsCompleted ==
    \A u \in Urbs : (u \in DoneIds \cup InHandIds)
                        ~> (u \in ParkedIds \cup AnsweredIds \cup dropped)
=============================================================================
