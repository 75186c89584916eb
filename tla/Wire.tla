-------------------------------- MODULE Wire --------------------------------
(***************************************************************************)
(* The bytes between a host and a device (usbip/protocol.py).  Nothing on  *)
(* the connection says where a message ends: each side infers what follows *)
(* a header from the header, from the direction and, for isochronous       *)
(* transfers, from what it knows of the endpoint.  One wrong guess, and    *)
(* every later header is read from the middle of something else.           *)
(*                                                                         *)
(* The host sends requests without waiting, unlinks some, and may be gone  *)
(* in the middle of one; the device answers in any order (Endpoint and     *)
(* Pacing say in which).  Abstracted: a header and a packet descriptor are *)
(* one token each, and a data byte names its request, packet and place.    *)
(* The isochronous offsets that hosts send are those of adjacent slots.    *)
(***************************************************************************)
EXTENDS Integers, Sequences, SequencesExt

CONSTANTS
    Exported,  \* the exported devices, as their numbers of interfaces
    Lengths,   \* lengths of transfers and of isochronous packets
    Counts,    \* what number_of_packets says in a transfer that has none
    MaxUrbs    \* bound: requests on a connection

ASSUME WireAssumption == Exported \in Seq(Nat) /\ Lengths \subseteq Nat

VARIABLES
    conn,    \* "fresh", "listed", "imported", "gone" (the host), "ended"
    toDev,   \* tokens to the device
    toHost,  \* tokens to the host
    sent,    \* the host's requests; a request's number is its place here
    served,  \* what the device read, in order
    open,    \* requests that the device holds unanswered
    given,   \* request -> the packets that the device answered with
    got,     \* request -> the packets that the host read
    listed   \* the interface counts that the host read in a device list

wireVars == <<conn, toDev, toHost, sent, served, open, given, got, listed>>

Total(s) == FoldLeft(LAMBDA a, b : a + b, 0, s)
Put(f, x, v) == [y \in DOMAIN f \cup {x} |-> IF y = x THEN v ELSE f[y]]
From(s, n) == SubSeq(s, n + 1, Len(s))

Header(fields) == [part |-> "header", is |-> fields]
Data(n, p, size) == [i \in 1 .. size |-> [part |-> "data", is |-> <<n, p, i>>]]
Desc(fields) == [part |-> "desc", is |-> fields]
IsHeader(token) == token.part = "header"

\* The packets of a payload whose descriptors say these lengths.
Cut(data, lens) == [p \in DOMAIN lens |-> SubSeq(data, Total(SubSeq(lens, 1, p - 1)) + 1,
                                                      Total(SubSeq(lens, 1, p)))]

-----------------------------------------------------------------------------
(* The host: client_submit and _client_submit_iso, or the kernel's.        *)

Transfer(dir, len, count) ==
    [cmd |-> "submit", iso |-> FALSE, dir |-> dir, lens |-> <<len>>, npkts |-> count, victim |-> 0]
IsoTransfer(dir, lens) ==
    [cmd |-> "submit", iso |-> TRUE, dir |-> dir, lens |-> lens, npkts |-> Len(lens), victim |-> 0]
UnlinkOf(n) ==
    [cmd |-> "unlink", iso |-> FALSE, dir |-> "out", lens |-> <<0>>, npkts |-> 0, victim |-> n]

Requests ==
    {Transfer(dir, len, count) : dir \in {"in", "out"}, len \in Lengths, count \in Counts} \cup
    {IsoTransfer(dir, <<a, b>>) : dir \in {"in", "out"}, a \in Lengths, b \in Lengths} \cup
    {UnlinkOf(n) : n \in {k \in DOMAIN sent \ DOMAIN got : sent[k].cmd = "submit"}}

\* The bytes of a payload, gathered from the slots.
Payload(n, u) == FlattenSeq([p \in DOMAIN u.lens |-> Data(n, p, u.lens[p])])

RequestBytes(n, u) ==
    <<Header([msg |-> n, of |-> u])>>
    \o (IF u.dir = "out" THEN Payload(n, u) ELSE <<>>)
    \o (IF u.iso THEN [p \in DOMAIN u.lens |-> Desc(u.lens[p])] ELSE <<>>)

-----------------------------------------------------------------------------
(* The device: read_cmd and write_ret.                                     *)

PayloadLen(u) == IF u.dir = "out" THEN Total(u.lens) ELSE 0

\* Mutant: the header is believed about its packets.
HeaderCount(u) == IF u.cmd = "submit" /\ u.npkts > 0 THEN u.npkts ELSE 0

\* Descriptors follow if the device knows the endpoint as isochronous.
DescCount(u) == IF u.cmd = "submit" /\ u.npkts > 0 /\ u.iso THEN u.npkts ELSE 0

\* read_cmd, once its bytes are there.  A connection that ends before them
\* leaves no payload; without its descriptors the request is not served.
ReadCmd(stream) ==
    LET u     == Head(stream).is.of
        need  == 1 + PayloadLen(u) + DescCount(u)
        data  == SubSeq(stream, 2, 1 + PayloadLen(u))
        descs == SubSeq(stream, 2 + PayloadLen(u), need)
        lens  == IF DescCount(u) > 0 /\ \A p \in DOMAIN descs : descs[p].part = "desc"
                 THEN [p \in DOMAIN descs |-> descs[p].is] ELSE <<PayloadLen(u)>>
    IN  [whole |-> Len(stream) >= need,
         rest  |-> From(stream, need),
         packets |-> IF Len(stream) >= need /\ u.dir = "out" THEN Cut(data, lens) ELSE << <<>> >>]

\* write_ret: the packets as they are, with no padding between them.
Reply(n, u, packets) ==
    LET actual == Total([p \in DOMAIN packets |-> Len(packets[p])])
    IN  <<Header([msg |-> n, actual |-> actual, npkts |-> IF u.iso THEN Len(packets) ELSE 0])>>
        \o (IF u.dir = "in" THEN FlattenSeq(packets) ELSE <<>>)
        \o (IF u.iso THEN [p \in DOMAIN packets |-> Desc(Len(packets[p]))] ELSE <<>>)

UnlinkReply(n) == <<Header([msg |-> n, actual |-> 0, npkts |-> 0])>>

\* What the device may give: fewer bytes than a packet's length, or no fewer;
\* an OUT packet is told to be taken whole.
Answers(n, u) ==
    IF u.dir = "in"
    THEN {[p \in DOMAIN u.lens |-> Data(n, p, u.lens[p] - f[p])] :
             f \in {g \in [DOMAIN u.lens -> {0, 1}] : \A p \in DOMAIN g : g[p] <= u.lens[p]}}
    ELSE {[p \in DOMAIN u.lens |-> Data(n, p, u.lens[p])]}

-----------------------------------------------------------------------------
WireInit ==
    /\ conn = "fresh"
    /\ toDev = <<>> /\ toHost = <<>> /\ sent = <<>> /\ served = <<>> /\ open = {}
    /\ given = <<>> /\ got = <<>> /\ listed = <<>>

\* _send_devlist: for each device its record, which says that it has at least
\* one interface, and a tuple for each interface of the configuration.
SendDevlist ==
    /\ conn = "fresh"
    /\ conn' = "listed"
    /\ toHost' = <<Header(Len(Exported))>>
                 \o FlattenSeq([d \in DOMAIN Exported |->
                       <<Header(IF Exported[d] > 1 THEN Exported[d] ELSE 1)>>
                       \o [i \in 1 .. Exported[d] |-> Desc(d)]])
    /\ UNCHANGED <<toDev, sent, served, open, given, got, listed>>

\* client_devlist: as many tuples as the record says.
ReadDevlist ==
    /\ conn = "listed" /\ toHost # <<>>
    /\ LET ReadOne(s, k) ==
               IF s.rest = <<>> \/ ~IsHeader(Head(s.rest)) THEN [s EXCEPT !.list = Append(@, -1)]
               ELSE LET n == Head(s.rest).is
                    IN  [rest |-> From(s.rest, 1 + n), list |-> Append(s.list, n)]
       IN  listed' = FoldLeft(ReadOne, [rest |-> Tail(toHost), list |-> <<>>],
                              [k \in 1 .. Head(toHost).is |-> k]).list
    /\ toHost' = <<>>
    /\ UNCHANGED <<conn, toDev, sent, served, open, given, got>>

Import ==
    /\ conn = "fresh"
    /\ conn' = "imported"
    /\ UNCHANGED <<toDev, toHost, sent, served, open, given, got, listed>>

Submit(u) ==
    /\ conn = "imported" /\ Len(sent) < MaxUrbs
    /\ sent' = Append(sent, u)
    /\ toDev' = toDev \o RequestBytes(Len(sent) + 1, u)
    /\ UNCHANGED <<conn, toHost, served, open, given, got, listed>>

\* The host is gone, with so many tokens of what it wrote on their way.
HostGone(k) ==
    /\ conn = "imported"
    /\ conn' = "gone"
    /\ toDev' = SubSeq(toDev, 1, k) /\ toHost' = <<>>
    /\ UNCHANGED <<sent, served, open, given, got, listed>>

\* One turn of serve_connection.  What is no header ends the model's run: the
\* device would act on whatever bytes stand there.
Serve ==
    /\ conn \in {"imported", "gone"} /\ toDev # <<>>
    /\ IF ~IsHeader(Head(toDev))
       THEN /\ served' = Append(served, [msg |-> 0, packets |-> <<>>, whole |-> FALSE])
            /\ conn' = "ended" /\ UNCHANGED <<toDev, toHost, open>>
       ELSE LET u == Head(toDev).is.of
                n == Head(toDev).is.msg
                r == ReadCmd(toDev)
            IN  /\ r.whole \/ conn = "gone"
                /\ toDev' = r.rest
                /\ IF r.whole \/ DescCount(u) = 0
                   THEN /\ served' = Append(served, [msg |-> n, packets |-> r.packets,
                                                     whole |-> r.whole])
                        /\ open' = IF u.cmd = "unlink" THEN open \ {u.victim} ELSE open \cup {n}
                        /\ toHost' = IF u.cmd = "unlink" /\ conn = "imported"
                                     THEN toHost \o UnlinkReply(n) ELSE toHost
                        /\ UNCHANGED conn
                   ELSE conn' = "ended" /\ UNCHANGED <<served, open, toHost>>
    /\ UNCHANGED <<sent, given, got, listed>>

\* respond: the whole reply under the connection's lock.
Answer(n, packets) ==
    /\ conn = "imported"
    /\ open' = open \ {n}
    /\ toHost' = toHost \o Reply(n, sent[n], packets)
    /\ given' = Put(given, n, packets)
    /\ UNCHANGED <<conn, toDev, sent, served, got, listed>>

\* The host reads a reply and scatters its data over the slots.
ReadReply ==
    /\ conn = "imported" /\ toHost # <<>>
    /\ IF ~IsHeader(Head(toHost))
       THEN got' = Put(got, 0, <<>>) /\ conn' = "ended" /\ UNCHANGED toHost
       ELSE LET h     == Head(toHost).is
                u     == sent[h.msg]
                size  == IF u.dir = "in" THEN h.actual ELSE 0
                descs == SubSeq(toHost, 2 + size, 1 + size + h.npkts)
            IN  /\ got' = Put(got, h.msg,
                      IF u.dir = "in"
                      THEN Cut(SubSeq(toHost, 2, 1 + size),
                               IF u.iso THEN [p \in DOMAIN descs |-> descs[p].is] ELSE <<size>>)
                      ELSE <<>>)
                /\ toHost' = From(toHost, 1 + size + h.npkts)
                /\ UNCHANGED conn
    /\ UNCHANGED <<toDev, sent, served, open, given, listed>>

WireNext ==
    \/ SendDevlist \/ ReadDevlist \/ Import
    \/ \E u \in Requests : Submit(u)
    \/ \E k \in 0 .. Len(toDev) : HostGone(k)
    \/ Serve
    \/ \E n \in open : \E packets \in Answers(n, sent[n]) : Answer(n, packets)
    \/ ReadReply

WireSpec == WireInit /\ [][WireNext]_wireVars

-----------------------------------------------------------------------------
(* Properties.                                                             *)

\* Neither side ever takes for a header what is none.  The device serves the
\* host's requests in order, each with the packets that the host put in its
\* slots, but for one that the end of the connection cuts, which is the last;
\* the host reads, for each request, the packets that the device gave; and a
\* device list is read as what is exported.
StaysInStep ==
    /\ \A i \in DOMAIN served :
          /\ served[i].msg = i
          /\ served[i].whole \/ i = Len(served)
          /\ served[i].whole /\ sent[i].dir = "out" =>
                served[i].packets = [p \in DOMAIN sent[i].lens |-> Data(i, p, sent[i].lens[p])]
    /\ \A n \in DOMAIN got :
          /\ n \in DOMAIN sent
          /\ sent[n].dir = "in" => n \in DOMAIN given /\ got[n] = given[n]
    /\ listed \in {<<>>, Exported}
=============================================================================
