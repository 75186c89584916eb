-------------------------------- MODULE Echo --------------------------------
(***************************************************************************)
(* The queue of an OUT endpoint (usbip/device.py, Endpoint.read and        *)
(* _put_out) between the serve thread and an application of its own: the   *)
(* echo of examples/vendor_device.py and webusb_device.py, whose main      *)
(* thread reads with a timeout and writes what it read back.               *)
(*                                                                         *)
(* The IN side is that of Endpoint.tla with one writer; what is added here *)
(* is the thread that holds a packet between its read and its write while  *)
(* hosts come and go.                                                      *)
(***************************************************************************)
EXTENDS Integers, Sequences, SequencesExt

CONSTANTS
    EchoLengths,  \* lengths of what a host sends and asks for
    MaxSent,      \* bound: packets that the hosts send
    MaxParked     \* bound: IN URBs that a host has outstanding

ASSUME EchoAssumption == EchoLengths \subseteq Nat

VARIABLES
    outQ,     \* packets for Endpoint.read
    inQ,      \* packets written for the host
    parked,   \* lengths of the IN URBs that wait
    held,     \* what the application has read and not written, <<>> if nothing
    fromHost, \* what this host has sent, in pieces of one byte
    echoed,   \* what this host has received
    stale,    \* what the application held when this host attached
    sentNo    \* packets sent

echoVars == <<outQ, inQ, parked, held, fromHost, echoed, stale, sentNo>>

EchoInit ==
    /\ outQ = <<>> /\ inQ = <<>> /\ parked = <<>> /\ held = <<>>
    /\ fromHost = <<>> /\ echoed = <<>> /\ stale = <<>> /\ sentNo = 0

\* A packet of n bytes, each told apart from those of every other packet.
PacketOf(n) == [i \in 1 .. n |-> <<sentNo, i>>]

\* _pop_locked: the front packet; what is longer than the URB stays.
Given(q, length) == IF length > 0 /\ Len(Head(q)) > length THEN SubSeq(Head(q), 1, length) ELSE Head(q)
Left(q, length) ==
    IF length > 0 /\ Len(Head(q)) > length
    THEN <<SubSeq(Head(q), length + 1, Len(Head(q)))>> \o Tail(q)
    ELSE Tail(q)

\* Mutant: what is read last is read first.
NewestOf(q) == [packet |-> Last(q), rest |-> Front(q)]

\* Endpoint.read: the oldest packet.
OldestOf(q) == [packet |-> Head(q), rest |-> Tail(q)]

\* An OUT URB on an endpoint without an on_out of its own.
PutOut(n) ==
    /\ sentNo < MaxSent
    /\ outQ' = Append(outQ, PacketOf(n))
    /\ fromHost' = fromHost \o PacketOf(n)
    /\ sentNo' = sentNo + 1
    /\ UNCHANGED <<inQ, parked, held, echoed, stale>>

\* An IN URB: data if there is some, else it waits.
AskIn(length) ==
    /\ IF inQ # <<>>
       THEN /\ echoed' = echoed \o Given(inQ, length)
            /\ inQ' = Left(inQ, length)
            /\ UNCHANGED parked
       ELSE /\ Len(parked) < MaxParked
            /\ parked' = Append(parked, length)
            /\ UNCHANGED <<echoed, inQ>>
    /\ UNCHANGED <<outQ, held, fromHost, stale, sentNo>>

\* The application's read; nothing comes of a timeout or of an empty packet.
EchoRead ==
    /\ held = <<>> /\ outQ # <<>>
    /\ held' = OldestOf(outQ).packet
    /\ outQ' = OldestOf(outQ).rest
    /\ UNCHANGED <<inQ, parked, fromHost, echoed, stale, sentNo>>

\* A turn of the loop in Endpoint.write: the IN URB that waited longest is
\* given what is at the front, or waits on.
MatchIn(s, length) ==
    IF s.q = <<>> THEN [s EXCEPT !.parked = Append(@, length)]
    ELSE [q |-> Left(s.q, length), got |-> s.got \o Given(s.q, length), parked |-> s.parked]

\* Its write: queued, then matched with the URBs that wait.
EchoWrite ==
    /\ held # <<>>
    /\ LET s == FoldLeft(MatchIn, [q |-> Append(inQ, held), got |-> echoed, parked |-> <<>>], parked)
       IN  inQ' = s.q /\ echoed' = s.got /\ parked' = s.parked
    /\ held' = <<>>
    /\ UNCHANGED <<outQ, fromHost, stale, sentNo>>

\* Endpoint.reset of both endpoints.
Flushed(q) == <<>>

\* A host attaches, or configures the device again.
EchoReset ==
    /\ outQ' = Flushed(outQ) /\ inQ' = <<>> /\ parked' = <<>>
    /\ stale' = held
    /\ fromHost' = <<>> /\ echoed' = <<>>
    /\ UNCHANGED <<held, sentNo>>

EchoNext ==
    \/ \E n \in EchoLengths : PutOut(n) \/ (n > 0 /\ AskIn(n))
    \/ EchoRead \/ EchoWrite \/ EchoReset

EchoSpec == EchoInit /\ [][EchoNext]_echoVars

-----------------------------------------------------------------------------
(* Properties.                                                             *)

\* A host gets back what it sent, byte for byte and in order, however its
\* packets and its reads are cut and whatever the last host left behind; but
\* for the one packet that the application already held when it attached,
\* which no reset can reach and which comes first.
EchoedInOrder == IsPrefix(echoed, stale \o fromHost)
=============================================================================
