-------------------------- MODULE Endpoint_proofs --------------------------
(***************************************************************************)
(* Proofs about Endpoint, for every set of connections and of threads and  *)
(* every bound: its types, its wake-ups, and that it implements UrbLife:   *)
(* what becomes of URBs, each in one place at any time; what a halt lets   *)
(* through, which bytes a URB is given, and that none is lost or given     *)
(* twice; and what holds besides for a device without threads of its own.  *)
(***************************************************************************)
EXTENDS Endpoint, SequenceTheorems, FiniteSetTheorems, TLAPS

-----------------------------------------------------------------------------
(* Operators on data.                                                      *)

\* What a URB is given from the front chunk, and what is left, are data.
LEMMA FrontPieceType ==
    ASSUME q \in Seq(Chunk), q # <<>>, NEW len \in Nat
    PROVE  FrontPiece(len) \in Data /\ AfterFrontPiece(len) \in Seq(Chunk)
<1>1. Head(q) \in Chunk /\ Tail(q) \in Seq(Chunk)
  OBVIOUS
<1>2. FrontPiece(len) \in Data
  BY <1>1 DEF FrontPiece, Data, Chunk
<1>3. [Head(q) EXCEPT !.lo = Head(q).lo + len] \in Chunk
  <2>1. \A front \in Chunk : [front EXCEPT !.lo = front.lo + len] \in Chunk
    BY SMTT(20) DEF Chunk
  <2> QED
    BY <1>1, <2>1
<1>4. AfterFrontPiece(len) \in Seq(Chunk)
  BY <1>1, <1>3 DEF AfterFrontPiece
<1> QED
  BY <1>2, <1>4

\* A sequence without one of its entries is a sequence over the same set.
LEMMA WithoutType ==
    ASSUME NEW S, NEW s \in Seq(S), NEW i \in DOMAIN s
    PROVE  Without(s, i) \in Seq(S)
<1>1. SubSeq(s, 1, i - 1) \in Seq(S) /\ SubSeq(s, i + 1, Len(s)) \in Seq(S)
  OBVIOUS
<1> QED
  BY <1>1 DEF Without

\* The identities of a sequence of URBs are pairs of a connection and a number.
LEMMA IdsType ==
    ASSUME pending \in Seq(Urb)
    PROVE  Ids(pending) \subseteq Conns \X Nat
<1>1. \A i \in DOMAIN pending : pending[i] \in Urb
  OBVIOUS
<1> QED
  BY <1>1 DEF Ids, Id, Urb

\* A reply that is sent is a reply, and what is swallowed is accounted for.
LEMMA SendType ==
    ASSUME TypeOK, NEW u, u.conn \in Conns, u.seq \in Nat, NEW a \in Data, Send(u, a)
    PROVE  /\ wire' \in [Conns -> Seq(OnWire)]
           /\ dropped' \subseteq Conns \X Nat
           /\ lost' \subseteq Nat
<1>1. Reply(u, a) \in OnWire
  BY DEF Reply, OnWire, Data
<1>2. Bytes(a) \subseteq Nat
  BY DEF Bytes, Data
<1>3. CASE alive[u.conn]
  <2>1. Append(wire[u.conn], Reply(u, a)) \in Seq(OnWire)
    BY <1>1 DEF TypeOK
  <2> QED
    BY <1>3, <2>1 DEF Send, TypeOK
<1>4. CASE ~alive[u.conn]
  <2>1. Id(u) \in Conns \X Nat
    BY DEF Id
  <2> QED
    BY <1>2, <1>4, <2>1 DEF Send, TypeOK
<1> QED
  BY <1>3, <1>4

-----------------------------------------------------------------------------
(* Type correctness.                                                       *)

LEMMA TypeInit == Init => TypeOK
<1> SUFFICES ASSUME Init PROVE TypeOK
  OBVIOUS
<1>1. \A S : <<>> \in Seq(S)
  OBVIOUS
<1>2. NoData \in Data
  BY DEF NoData, Data
<1>3. \A c \in Conns : [conn |-> c, seq |-> 0, len |-> 1] \in Urb
  BY DEF Urb
<1>4. /\ q \in Seq(Chunk) /\ pending \in Seq(Urb) /\ done \in [Threads -> Seq(Taken)]
      /\ wire \in [Conns -> Seq(OnWire)]
  BY <1>1 DEF Init
<1>5. answer \in [Conns -> Data] /\ urb \in [Conns -> Urb]
  BY <1>2, <1>3 DEF Init
<1>6. /\ cv \in Threads \cup {NoThread} /\ halted \in BOOLEAN /\ written \in Nat /\ writes \in Nat
      /\ base \in Nat /\ dropped \subseteq Conns \X Nat /\ lost \subseteq Nat
  BY DEF Init
<1>7. /\ pc \in [Conns -> {"new", "read", "take", "reply", "unlink", "closed"}]
      /\ alive \in [Conns -> BOOLEAN] /\ nextSeq \in [Conns -> Nat \ {0}]
      /\ unlinked \in [Conns -> SUBSET Nat] /\ start \in [Conns -> Nat]
  BY DEF Init
<1> QED
  BY <1>4, <1>5, <1>6, <1>7 DEF TypeOK

LEMMA TypeServe ==
    ASSUME TypeOK, NEW c \in Conns, HostGone(c) \/ ServeStep(c)
    PROVE  TypeOK'
<1>1. CASE HostGone(c)
  BY <1>1 DEF HostGone, TypeOK
<1> DEFINE Flushed == /\ q' \in Seq(Chunk) /\ pending' \in Seq(Urb) /\ halted' \in BOOLEAN
                      /\ dropped' \subseteq Conns \X Nat /\ base' \in Nat
<1>r. Reset => Flushed
  <2>1. Ids(pending) \subseteq Conns \X Nat
    BY IdsType DEF TypeOK
  <2>2. <<>> \in Seq(Chunk) /\ <<>> \in Seq(Urb)
    OBVIOUS
  <2> QED
    BY <2>1, <2>2 DEF Reset, TypeOK
<1> HIDE DEF Flushed
<1>2. CASE Attach(c)
  <2>1. Reset /\ Flushed
    BY <1>2, <1>r DEF Attach
  <2> QED
    BY <1>2, <2>1 DEF Attach, TypeOK, Flushed
<1>3. ASSUME NEW len \in Lens, ReadSubmit(c, len)
      PROVE  TypeOK'
  <2>1. [conn |-> c, seq |-> nextSeq[c], len |-> len] \in Urb
    BY LengthAssumption DEF Urb, TypeOK
  <2>2. NoData \in Data
    BY DEF NoData, Data
  <2> QED
    <3>1. /\ nextSeq' \in [Conns -> Nat \ {0}]
          /\ urb' \in [Conns -> Urb]
      BY <1>3, <2>1 DEF ReadSubmit, TypeOK
    <3>2. /\ answer' \in [Conns -> Data]
          /\ pc' \in [Conns -> {"new", "read", "take", "reply", "unlink", "closed"}]
      BY <1>3, <2>2 DEF ReadSubmit, TypeOK
    <3> QED
      BY <1>3, <3>1, <3>2 DEF ReadSubmit, TypeOK
<1>4. CASE TakeOrPark(c)
  <2>1. urb[c] \in Urb /\ urb[c].len \in Nat
    BY DEF TypeOK, Urb
  <2>2. CASE q # <<>>
    <3>1. FrontPiece(urb[c].len) \in Data /\ AfterFrontPiece(urb[c].len) \in Seq(Chunk)
      BY <2>1, <2>2, FrontPieceType DEF TypeOK
    <3> QED
      BY <1>4, <2>2, <3>1 DEF TakeOrPark, TypeOK
  <2>3. CASE q = <<>>
    <3>1. Append(pending, urb[c]) \in Seq(Urb)
      BY <2>1 DEF TypeOK
    <3> QED
      BY <1>4, <2>3, <3>1 DEF TakeOrPark, Park, TypeOK
  <2> QED
    BY <2>2, <2>3
<1>5. CASE Respond(c)
  <2>1. urb[c].conn \in Conns /\ urb[c].seq \in Nat /\ answer[c] \in Data
    BY DEF TypeOK, Urb
  <2>2. Send(urb[c], answer[c])
    BY <1>5 DEF Respond
  <2>3. /\ wire' \in [Conns -> Seq(OnWire)]
        /\ dropped' \subseteq Conns \X Nat
        /\ lost' \subseteq Nat
    BY <2>1, <2>2, SendType
  <2> QED
    BY <1>5, <2>3 DEF Respond, TypeOK
<1>6. ASSUME NEW n \in 1 .. MaxSeq, ReadUnlink(c, n)
      PROVE  TypeOK'
  <2>1. [conn |-> c, seq |-> n, len |-> 1] \in Urb
    BY BoundAssumption DEF Urb
  <2>2. pending' \in Seq(Urb) /\ dropped' \subseteq Conns \X Nat
    <3>1. CASE \A i \in DOMAIN pending : pending[i].seq # n
      BY <1>6, <3>1 DEF ReadUnlink, TypeOK
    <3>2. ASSUME NEW i \in DOMAIN pending, pending' = Without(pending, i),
                 dropped' = dropped \cup {Id(pending[i])}
          PROVE  pending' \in Seq(Urb) /\ dropped' \subseteq Conns \X Nat
      <4>1. pending[i] \in Urb
        BY DEF TypeOK
      <4>2. Id(pending[i]) \in Conns \X Nat
        BY <4>1 DEF Id, Urb
      <4>3. Without(pending, i) \in Seq(Urb)
        BY WithoutType DEF TypeOK
      <4> QED
        BY <3>2, <4>2, <4>3 DEF TypeOK
    <3> QED
      BY <1>6, <3>1, <3>2 DEF ReadUnlink
  <2> QED
    BY <1>6, <2>1, <2>2, BoundAssumption DEF ReadUnlink, TypeOK
<1>7. CASE RespondUnlink(c)
  <2>1. UnlinkReply(urb[c].seq) \in OnWire
    BY DEF TypeOK, Urb, UnlinkReply, OnWire
  <2> QED
    BY <1>7, <2>1 DEF RespondUnlink, TypeOK
<1>8. CASE ReadClearHalt(c)
  BY <1>8 DEF ReadClearHalt, TypeOK
<1>9. CASE ReadSetConfiguration(c)
  <2>1. Reset /\ Flushed
    BY <1>9, <1>r DEF ReadSetConfiguration
  <2> QED
    BY <1>9, <2>1 DEF ReadSetConfiguration, TypeOK, Flushed
<1>10. CASE Close(c)
  BY <1>10 DEF Close, TypeOK
<1> QED
  BY <1>1, <1>2, <1>3, <1>4, <1>5, <1>6, <1>7, <1>8, <1>9, <1>10 DEF ServeStep

LEMMA TypeDevice ==
    ASSUME TypeOK, NEW t \in Threads, DeviceStep(t)
    PROVE  TypeOK'
<1>1. ASSUME NEW size \in Sizes, Write(t, size)
      PROVE  TypeOK'
  <2>1. size \in Nat
    BY LengthAssumption
  <2>2. [lo |-> written, hi |-> written + size] \in Chunk
    BY <2>1 DEF Chunk, TypeOK
  <2> QED
    BY <1>1, <2>1, <2>2 DEF Write, TypeOK
<1>2. CASE Match(t)
  <2>1. Head(pending) \in Urb /\ Tail(pending) \in Seq(Urb) /\ q # <<>>
    BY <1>2 DEF Match, TypeOK
  <2>2. Head(pending).conn \in Conns /\ Head(pending).seq \in Nat /\ Head(pending).len \in Nat
    BY <2>1 DEF Urb
  <2>3. /\ FrontPiece(Head(pending).len) \in Data
        /\ AfterFrontPiece(Head(pending).len) \in Seq(Chunk)
    BY <2>1, <2>2, FrontPieceType DEF TypeOK
  <2>4. [conn |-> Head(pending).conn, seq |-> Head(pending).seq,
         data |-> FrontPiece(Head(pending).len)] \in Taken
    BY <2>2, <2>3 DEF Taken
  <2> QED
    BY <1>2, <2>1, <2>3, <2>4, SMTT(20) DEF Match, PopParked, TypeOK
<1>3. CASE Unlock(t)
  BY <1>3 DEF Unlock, TypeOK
<1>4. CASE Complete(t)
  <2>1. Head(done[t]) \in Taken /\ Tail(done[t]) \in Seq(Taken)
    BY <1>4 DEF Complete, TypeOK
  <2>2. /\ Head(done[t]).conn \in Conns
        /\ Head(done[t]).seq \in Nat
        /\ Head(done[t]).data \in Data
    BY <2>1 DEF Taken
  <2>3. Send(Head(done[t]), Head(done[t]).data)
    BY <1>4 DEF Complete
  <2>4. /\ wire' \in [Conns -> Seq(OnWire)]
        /\ dropped' \subseteq Conns \X Nat
        /\ lost' \subseteq Nat
    BY <2>2, <2>3, SendType
  <2> QED
    BY <1>4, <2>1, <2>4 DEF Complete, TypeOK
<1>5. CASE Stall(t)
  <2>1. NoData \in Data
    BY DEF NoData, Data
  <2> DEFINE stalled == Stalls(pending)
  <2>2. stalled \in Seq(Taken)
    <3>1. Len(pending) \in Nat /\ DOMAIN pending = 1 .. Len(pending)
      BY DEF TypeOK
    <3>2. \A i \in DOMAIN pending : stalled[i] \in Taken
      <4>1. \A i \in DOMAIN pending : pending[i] \in Urb
        BY DEF TypeOK
      <4> QED
        BY <2>1, <4>1 DEF Stalls, Urb, Taken
    <3>3. stalled = [i \in 1 .. Len(pending) |-> stalled[i]]
      BY <3>1 DEF Stalls
    <3> QED
      BY <3>1, <3>2, <3>3
  <2>3. done' = [done EXCEPT ![t] = stalled] /\ pending' = <<>>
    BY <1>5 DEF Stall
  <2>4. done' \in [Threads -> Seq(Taken)]
    BY <2>2, <2>3 DEF TypeOK
  <2> HIDE DEF stalled
  <2> QED
    BY <1>5, <2>3, <2>4 DEF Stall, TypeOK
<1> QED
  BY <1>1, <1>2, <1>3, <1>4, <1>5 DEF DeviceStep

\* Every variable keeps its type, for all connections, threads and bounds.
THEOREM TypeCorrect == Spec => []TypeOK
<1>1. TypeOK /\ [Next]_vars => TypeOK'
  <2>1. CASE UNCHANGED vars
    BY <2>1 DEF vars, TypeOK
  <2> QED
    BY <2>1, TypeServe, TypeDevice DEF Next
<1> QED
  BY <1>1, TypeInit, PTL DEF Spec

-----------------------------------------------------------------------------
(* No lost wake-up.                                                        *)

\* Whenever the lock is free no data waits beside a parked URB.  While a
\* thread holds the lock nothing is claimed: that is the time `write` needs
\* to match what it queued, and its loop stops only when one side is empty.
THEOREM WakeupCorrect == Spec => []NoLostWakeup
<1>1. Init => NoLostWakeup
  BY DEF Init, NoLostWakeup
<1>2. NoLostWakeup /\ [Next]_vars => NoLostWakeup'
  <2> SUFFICES ASSUME NoLostWakeup, [Next]_vars
               PROVE  NoLostWakeup'
    OBVIOUS
  <2>1. ASSUME NEW c \in Conns, TakeOrPark(c)
        PROVE  NoLostWakeup'
    BY <2>1 DEF NoLostWakeup, TakeOrPark
  <2>2. ASSUME NEW c \in Conns, NEW n \in 1 .. MaxSeq, ReadUnlink(c, n)
        PROVE  NoLostWakeup'
    BY <2>2 DEF NoLostWakeup, ReadUnlink
  <2>3. ASSUME NEW c \in Conns, Attach(c) \/ ReadSetConfiguration(c)
        PROVE  NoLostWakeup'
    BY <2>3 DEF NoLostWakeup, Attach, ReadSetConfiguration, Reset
  <2>4. ASSUME NEW c \in Conns,
               \/ HostGone(c) \/ Respond(c) \/ RespondUnlink(c) \/ ReadClearHalt(c) \/ Close(c)
               \/ \E len \in Lens : ReadSubmit(c, len)
        PROVE  NoLostWakeup'
    BY <2>4 DEF NoLostWakeup, HostGone, Respond, RespondUnlink, ReadClearHalt, Close, ReadSubmit
  <2>5. ASSUME NEW t \in Threads, NEW size \in Sizes, Write(t, size)
        PROVE  NoLostWakeup'
    BY <2>5, ThreadAssumption DEF NoLostWakeup, Write
  <2>6. ASSUME NEW t \in Threads, Match(t)
        PROVE  NoLostWakeup'
    BY <2>6, ThreadAssumption DEF NoLostWakeup, Match
  <2>7. ASSUME NEW t \in Threads, Unlock(t) \/ Complete(t) \/ Stall(t)
        PROVE  NoLostWakeup'
    BY <2>7 DEF NoLostWakeup, Unlock, WriteLoopEnds, Complete, Stall
  <2>8. CASE UNCHANGED vars
    BY <2>8 DEF NoLostWakeup, vars
  <2> QED
    BY <2>1, <2>2, <2>3, <2>4, <2>5, <2>6, <2>7, <2>8 DEF Next, ServeStep, DeviceStep
<1> QED
  BY <1>1, <1>2, PTL DEF Spec

-----------------------------------------------------------------------------
(* Lists of URBs.                                                          *)

\* No two entries of a list are of the same URB.
Apart(s) == \A i, j \in DOMAIN s : Id(s[i]) = Id(s[j]) => i = j

\* Appending an entry adds its identity.
LEMMA AppendIds ==
    ASSUME NEW S, NEW s \in Seq(S), NEW u \in S
    PROVE  /\ Ids(Append(s, u)) = Ids(s) \cup {Id(u)}
           /\ Apart(s) /\ Id(u) \notin Ids(s) => Apart(Append(s, u))
<1> DEFINE a == Append(s, u)
<1>1. /\ DOMAIN s = 1 .. Len(s) /\ Len(s) \in Nat
      /\ DOMAIN a = 1 .. (Len(s) + 1)
      /\ \A i \in DOMAIN s : a[i] = s[i]
      /\ a[Len(s) + 1] = u
  OBVIOUS
<1> HIDE DEF a
<1>2. Ids(a) = Ids(s) \cup {Id(u)}
  <2>1. ASSUME NEW x \in Ids(a) PROVE x \in Ids(s) \cup {Id(u)}
    <3>1. PICK i \in DOMAIN a : x = Id(a[i])
      BY DEF Ids
    <3>2. i \in DOMAIN s \/ i = Len(s) + 1
      BY <1>1
    <3> QED
      BY <1>1, <3>1, <3>2 DEF Ids
  <2>2. Ids(s) \subseteq Ids(a)
    <3>1. DOMAIN s \subseteq DOMAIN a
      BY <1>1
    <3> QED
      BY <1>1, <3>1 DEF Ids
  <2>3. Id(u) \in Ids(a)
    <3>1. Len(s) + 1 \in DOMAIN a
      BY <1>1
    <3> QED
      BY <1>1, <3>1 DEF Ids
  <2> QED
    BY <2>1, <2>2, <2>3
<1>3. ASSUME Apart(s), Id(u) \notin Ids(s) PROVE Apart(a)
  <2>1. \A i \in DOMAIN s : Id(a[i]) # Id(u)
    BY <1>1, <1>3 DEF Ids
  <2>2. \A i \in DOMAIN a : i \in DOMAIN s \/ (i = Len(s) + 1 /\ a[i] = u)
    BY <1>1
  <2> QED
    BY <1>1, <1>3, <2>1, <2>2 DEF Apart
<1> QED
  BY <1>2, <1>3 DEF a

\* Where the entries of Without(s, i) stand in s.
At(i, k) == IF k < i THEN k ELSE k + 1

\* `del` of entry i leaves the others, in their order.
LEMMA WithoutEntries ==
    ASSUME NEW S, NEW s \in Seq(S), NEW i \in DOMAIN s
    PROVE  /\ DOMAIN Without(s, i) = 1 .. (Len(s) - 1)
           /\ \A k \in DOMAIN Without(s, i) : Without(s, i)[k] = s[At(i, k)]
<1> DEFINE w == Without(s, i)
           before == SubSeq(s, 1, i - 1)
           after == SubSeq(s, i + 1, Len(s))
<1>1. Len(s) \in Nat /\ DOMAIN s = 1 .. Len(s) /\ i \in 1 .. Len(s)
  OBVIOUS
<1>2. /\ before \in Seq(S) /\ Len(before) = i - 1
      /\ \A k \in 1 .. (i - 1) : before[k] = s[k]
  BY <1>1
<1>3. /\ after \in Seq(S) /\ Len(after) = Len(s) - i
      /\ \A k \in 1 .. (Len(s) - i) : after[k] = s[i + k]
  BY <1>1
<1> HIDE DEF before, after
<1>4. /\ before \o after \in Seq(S)
      /\ Len(before \o after) = Len(s) - 1
      /\ \A k \in 1 .. (Len(s) - 1) :
            (before \o after)[k] = IF k < i THEN before[k] ELSE after[k - (i - 1)]
  <2>1. /\ before \o after \in Seq(S)
        /\ Len(before \o after) = Len(before) + Len(after)
        /\ \A k \in 1 .. Len(before) + Len(after) : (before \o after)[k] =
              IF k <= Len(before) THEN before[k] ELSE after[k - Len(before)]
    BY <1>2, <1>3, ConcatProperties
  <2>2. Len(before) = i - 1 /\ Len(before) + Len(after) = Len(s) - 1
    BY <1>1, <1>2, <1>3
  <2>3. \A k \in 1 .. (Len(s) - 1) : k <= i - 1 <=> k < i
    BY <1>1
  <2> QED
    BY <2>1, <2>2, <2>3
<1>5. w = before \o after
  BY DEF Without, before, after
<1>6. ASSUME NEW k \in 1 .. (Len(s) - 1) PROVE w[k] = s[At(i, k)]
  <2>1. CASE k < i
    BY <1>1, <1>2, <1>4, <1>5, <2>1 DEF At
  <2>2. CASE ~(k < i)
    <3>1. k - (i - 1) \in 1 .. (Len(s) - i) /\ i + (k - (i - 1)) = k + 1
      BY <1>1, <2>2
    <3> QED
      <4>1. after[k - (i - 1)] = s[k + 1]
        BY <1>3, <3>1
      <4>2. w[k] = after[k - (i - 1)]
        BY <1>4, <1>5, <2>2
      <4> QED
        BY <2>2, <4>1, <4>2 DEF At
  <2> QED
    BY <2>1, <2>2
<1>7. DOMAIN w = 1 .. (Len(s) - 1)
  BY <1>4, <1>5
<1> HIDE DEF w
<1> QED
  BY <1>6, <1>7 DEF w

\* Taking entry i out takes its identity out, if entries are apart.
LEMMA WithoutIds ==
    ASSUME NEW S, NEW s \in Seq(S), NEW i \in DOMAIN s, Apart(s)
    PROVE  /\ Ids(Without(s, i)) = Ids(s) \ {Id(s[i])}
           /\ Id(s[i]) \in Ids(s)
           /\ Apart(Without(s, i))
<1> DEFINE w == Without(s, i)
<1>1. Len(s) \in Nat /\ DOMAIN s = 1 .. Len(s) /\ i \in 1 .. Len(s)
  OBVIOUS
<1>2. DOMAIN w = 1 .. (Len(s) - 1) /\ \A k \in DOMAIN w : w[k] = s[At(i, k)]
  BY WithoutEntries
<1> HIDE DEF w
<1>3. \A k \in DOMAIN w : At(i, k) \in DOMAIN s /\ At(i, k) # i
  BY <1>1, <1>2 DEF At
<1>4. \A k, l \in DOMAIN w : At(i, k) = At(i, l) => k = l
  BY <1>1, <1>2 DEF At
<1>5. \A j \in DOMAIN s : j # i => \E k \in DOMAIN w : At(i, k) = j
  <2> SUFFICES ASSUME NEW j \in DOMAIN s, j # i PROVE \E k \in DOMAIN w : At(i, k) = j
    OBVIOUS
  <2>1. CASE j < i
    <3>1. j \in DOMAIN w /\ At(i, j) = j
      BY <1>1, <1>2, <2>1 DEF At
    <3> QED
      BY <3>1
  <2>2. CASE ~(j < i)
    <3>1. j - 1 \in DOMAIN w /\ At(i, j - 1) = j
      BY <1>1, <1>2, <2>2 DEF At
    <3> QED
      BY <3>1
  <2> QED
    BY <2>1, <2>2
<1>6. Ids(w) = Ids(s) \ {Id(s[i])}
  <2>1. ASSUME NEW x \in Ids(w) PROVE x \in Ids(s) \ {Id(s[i])}
    <3>1. PICK k \in DOMAIN w : x = Id(w[k])
      BY DEF Ids
    <3> QED
      BY <1>2, <1>3, <3>1 DEF Ids, Apart
  <2>2. ASSUME NEW x \in Ids(s), x # Id(s[i]) PROVE x \in Ids(w)
    <3>1. PICK j \in DOMAIN s : x = Id(s[j])
      BY DEF Ids
    <3>2. PICK k \in DOMAIN w : At(i, k) = j
      BY <1>5, <2>2, <3>1
    <3> QED
      BY <1>2, <3>1, <3>2 DEF Ids
  <2> QED
    BY <2>1, <2>2
<1>7. Apart(w)
  BY <1>2, <1>3, <1>4 DEF Apart
<1>8. Id(s[i]) \in Ids(s)
  BY DEF Ids
<1> QED
  BY <1>6, <1>7, <1>8 DEF w

\* The first entry is entry 1, and the tail is the list without it.
LEMMA TailEntries ==
    ASSUME NEW S, NEW s \in Seq(S), s # <<>>
    PROVE  1 \in DOMAIN s /\ s[1] = Head(s) /\ Without(s, 1) = Tail(s)
<1>1. SubSeq(s, 1, 0) = <<>>
  OBVIOUS
<1>2. SubSeq(s, 2, Len(s)) = Tail(s)
  BY TailIsSubSeq
<1> QED
  BY <1>1, <1>2 DEF Without

\* Taking the first entry out is taking out entry 1.
LEMMA TailIds ==
    ASSUME NEW S, NEW s \in Seq(S), s # <<>>, Apart(s)
    PROVE  /\ Ids(Tail(s)) = Ids(s) \ {Id(Head(s))}
           /\ Id(Head(s)) \in Ids(s)
           /\ Apart(Tail(s))
<1>1. 1 \in DOMAIN s /\ s[1] = Head(s) /\ Without(s, 1) = Tail(s)
  BY TailEntries
<1>2. /\ Ids(Without(s, 1)) = Ids(s) \ {Id(s[1])}
      /\ Id(s[1]) \in Ids(s)
      /\ Apart(Without(s, 1))
  BY <1>1, WithoutIds, Zenon
<1> QED
  BY <1>1, <1>2

-----------------------------------------------------------------------------
(* Each URB is in one place.                                               *)

\* A serve thread works on URBs of its own connection.
OwnUrb == \A c \in Conns : urb[c].conn = c

\* A submitted URB is parked, taken out by a thread, in the hand of its serve
\* thread, answered or dropped; and nothing else is.
SomewhereOnce ==
    /\ Submitted = ParkedIds \cup DoneIds \cup InHandIds \cup AnsweredIds \cup dropped
    /\ ParkedIds \cap (DoneIds \cup InHandIds \cup AnsweredIds \cup dropped) = {}
    /\ DoneIds \cap (InHandIds \cup AnsweredIds \cup dropped) = {}
    /\ InHandIds \cap (AnsweredIds \cup dropped) = {}
    /\ AnsweredIds \cap dropped = {}

\* No URB is twice in what the threads have taken out, nor on a wire.
DoneApart ==
    /\ \A t \in Threads : Apart(done[t])
    /\ \A t, v \in Threads : t # v => Ids(done[t]) \cap Ids(done[v]) = {}

WireApart ==
    \A c \in Conns : \A i, j \in AnswersOn(c) : wire[c][i].seq = wire[c][j].seq => i = j

LifeInv == /\ OwnUrb /\ SomewhereOnce
           /\ Apart(pending) /\ DoneApart /\ WireApart

\* URBs that are still to be answered or dropped.
HeldIds == ParkedIds \cup DoneIds \cup InHandIds

\* A step submits a URB, answers one that was held, or drops some.
LifeStep ==
    \/ /\ \E u \in Urbs \ Submitted : Submitted' = Submitted \cup {u}
       /\ AnsweredIds' = AnsweredIds /\ dropped' = dropped
    \/ /\ \E u \in HeldIds : AnsweredIds' = AnsweredIds \cup {u}
       /\ Submitted' = Submitted /\ dropped' = dropped
    \/ /\ \E S \in SUBSET HeldIds : dropped' = dropped \cup S
       /\ Submitted' = Submitted /\ AnsweredIds' = AnsweredIds

\* What a thread has taken out changes: its old URBs go and the new ones come.
LEMMA DoneMoves ==
    ASSUME TypeOK, DoneApart, NEW t \in Threads, NEW s,
           done' = [done EXCEPT ![t] = s], Apart(s),
           Ids(s) \cap (DoneIds \ Ids(done[t])) = {}
    PROVE  DoneIds' = (DoneIds \ Ids(done[t])) \cup Ids(s) /\ DoneApart'
<1>1. done'[t] = s /\ \A v \in Threads : v # t => done'[v] = done[v]
  BY DEF TypeOK
<1>2. \A v \in Threads : v # t => Ids(done[v]) \subseteq DoneIds \ Ids(done[t])
  BY DEF DoneIds, DoneApart
<1>3. DoneIds' = UNION {Ids(done'[v]) : v \in Threads}
  BY DEF DoneIds, Ids
<1>4. DoneIds' = (DoneIds \ Ids(done[t])) \cup Ids(s)
  <2>1. ASSUME NEW x \in DoneIds' PROVE x \in (DoneIds \ Ids(done[t])) \cup Ids(s)
    <3>1. PICK v \in Threads : x \in Ids(done'[v])
      BY <1>3
    <3> QED
      BY <1>1, <1>2, <3>1
  <2>2. ASSUME NEW x \in DoneIds \ Ids(done[t]) PROVE x \in DoneIds'
    <3>1. PICK v \in Threads : x \in Ids(done[v]) /\ v # t
      BY DEF DoneIds
    <3> QED
      BY <1>1, <1>3, <3>1
  <2>3. Ids(s) \subseteq DoneIds'
    BY <1>1, <1>3
  <2> QED
    BY <2>1, <2>2, <2>3
<1>5. \A v \in Threads : Apart(done'[v])
  BY <1>1 DEF DoneApart
<1>6. \A v, w \in Threads : v # w => Ids(done'[v]) \cap Ids(done'[w]) = {}
  <2> SUFFICES ASSUME NEW v \in Threads, NEW w \in Threads, v # w
               PROVE  Ids(done'[v]) \cap Ids(done'[w]) = {}
    OBVIOUS
  <2>1. CASE v # t /\ w # t
    BY <1>1, <2>1 DEF DoneApart
  <2>2. CASE v = t
    BY <1>1, <1>2, <2>2
  <2>3. CASE w = t
    BY <1>1, <1>2, <2>3
  <2> QED
    BY <2>1, <2>2, <2>3
<1>7. DoneApart'
  BY <1>5, <1>6 DEF DoneApart, Apart, Ids
<1> QED
  BY <1>4, <1>7

\* What is on the wires stays, and r comes behind what is on the wire of c.
OnWireBehind(c, r) ==
    LET k == Len(wire[c]) + 1
    IN  /\ \A d \in Conns : /\ DOMAIN wire[d] \subseteq DOMAIN wire'[d]
                            /\ \A i \in DOMAIN wire[d] : wire'[d][i] = wire[d][i]
        /\ \A d \in Conns : \A i \in DOMAIN wire'[d] : i \in DOMAIN wire[d] \/ (d = c /\ i = k)
        /\ k \in DOMAIN wire'[c] /\ k \notin DOMAIN wire[c] /\ wire'[c][k] = r
        /\ \A i \in DOMAIN wire[c] : i < k

\* A reply comes behind what is on the wire.
LEMMA WireAppend ==
    ASSUME TypeOK, NEW c \in Conns, NEW r \in OnWire,
           wire' = [wire EXCEPT ![c] = Append(wire[c], r)]
    PROVE  OnWireBehind(c, r)
<1>1. wire[c] \in Seq(OnWire) /\ wire'[c] = Append(wire[c], r)
  BY DEF TypeOK
<1>2. \A d \in Conns : d # c => wire'[d] = wire[d]
  BY DEF TypeOK
<1>3. /\ DOMAIN wire[c] = 1 .. Len(wire[c]) /\ Len(wire[c]) \in Nat
      /\ DOMAIN wire'[c] = 1 .. (Len(wire[c]) + 1)
      /\ \A i \in DOMAIN wire[c] : wire'[c][i] = wire[c][i]
      /\ wire'[c][Len(wire[c]) + 1] = r
  BY <1>1
<1>4. DOMAIN wire[c] \subseteq DOMAIN wire'[c] /\ Len(wire[c]) + 1 \in DOMAIN wire'[c]
  BY <1>3
<1>5. \A i \in DOMAIN wire'[c] : i \in DOMAIN wire[c] \/ i = Len(wire[c]) + 1
  BY <1>3
<1>6. \A i \in DOMAIN wire[c] : i < Len(wire[c]) + 1
  BY <1>3
<1>7. Len(wire[c]) + 1 \notin DOMAIN wire[c]
  BY <1>3
<1> QED
  BY <1>2, <1>3, <1>4, <1>5, <1>6, <1>7 DEF OnWireBehind

\* A completion answers its URB or drops it.
LEMMA SendMoves ==
    ASSUME TypeOK, WireApart, NEW u, u.conn \in Conns, u.seq \in 1 .. MaxSeq,
           NEW a \in Data, Send(u, a), Id(u) \notin AnsweredIds
    PROVE  /\ \/ AnsweredIds' = AnsweredIds \cup {Id(u)} /\ dropped' = dropped
              \/ AnsweredIds' = AnsweredIds /\ dropped' = dropped \cup {Id(u)}
           /\ WireApart'
<1>1. CASE ~alive[u.conn]
  BY <1>1 DEF Send, AnsweredIds, AnswersOn, WireApart
<1>2. CASE alive[u.conn]
  <2> DEFINE c == u.conn
             r == Reply(u, a)
             k == Len(wire[c]) + 1
  <2>1. r \in OnWire /\ r.kind = "submit" /\ r.seq = u.seq
    BY BoundAssumption DEF Reply, OnWire, Data
  <2>2. wire' = [wire EXCEPT ![c] = Append(wire[c], r)] /\ dropped' = dropped
    BY <1>2 DEF Send
  <2> HIDE DEF r
  <2>3. /\ \A d \in Conns : AnswersOn(d) \subseteq AnswersOn(d)'
        /\ \A d \in Conns : \A i \in AnswersOn(d) : wire'[d][i] = wire[d][i]
        /\ \A d \in Conns : \A i \in AnswersOn(d)' : i \in AnswersOn(d) \/ (d = c /\ i = k)
        /\ k \in AnswersOn(c)' /\ wire'[c][k].seq = u.seq
    <3>1. OnWireBehind(c, r)
      BY <2>1, <2>2, WireAppend
    <3> QED
      BY <2>1, <3>1 DEF OnWireBehind, AnswersOn
  <2> HIDE DEF k
  <2>4. Id(u) = <<c, u.seq>> /\ Id(u) \in Urbs
    BY DEF Id, Urbs
  <2>5. AnsweredIds' = AnsweredIds \cup {Id(u)}
    <3>1. ASSUME NEW x \in AnsweredIds' PROVE x \in AnsweredIds \cup {Id(u)}
      <4>1. x \in Urbs /\ x[1] \in Conns
        BY DEF AnsweredIds, Urbs
      <4>2. PICK i \in AnswersOn(x[1])' : wire'[x[1]][i].seq = x[2]
        BY DEF AnsweredIds
      <4>3. CASE i \in AnswersOn(x[1])
        BY <2>3, <4>1, <4>2, <4>3 DEF AnsweredIds
      <4>4. CASE x[1] = c /\ i = k
        BY <2>3, <2>4, <4>1, <4>2, <4>4 DEF Urbs
      <4> QED
        BY <2>3, <4>1, <4>3, <4>4
    <3>2. ASSUME NEW x \in AnsweredIds PROVE x \in AnsweredIds'
      <4>1. x \in Urbs /\ x[1] \in Conns
        BY DEF AnsweredIds, Urbs
      <4>2. PICK i \in AnswersOn(x[1]) : wire[x[1]][i].seq = x[2]
        BY DEF AnsweredIds
      <4> QED
        BY <2>3, <4>1, <4>2 DEF AnsweredIds
    <3>3. Id(u) \in AnsweredIds'
      BY <2>3, <2>4 DEF AnsweredIds
    <3> QED
      BY <3>1, <3>2, <3>3
  <2>6. WireApart'
    <3>1. \A i \in AnswersOn(c) : wire[c][i].seq # u.seq
      BY <2>4 DEF AnsweredIds
    <3> SUFFICES ASSUME NEW d \in Conns, NEW i \in AnswersOn(d)', NEW j \in AnswersOn(d)',
                        wire'[d][i].seq = wire'[d][j].seq
                 PROVE  i = j
      BY DEF WireApart
    <3>2. CASE i \in AnswersOn(d) /\ j \in AnswersOn(d)
      BY <2>3, <3>2 DEF WireApart
    <3>3. CASE i \in AnswersOn(d) /\ d = c /\ j = k
      BY <2>3, <3>1, <3>3
    <3>4. CASE j \in AnswersOn(d) /\ d = c /\ i = k
      BY <2>3, <3>1, <3>4
    <3> QED
      BY <2>3, <3>2, <3>3, <3>4
  <2> QED
    BY <2>2, <2>5, <2>6
<1> QED
  BY <1>1, <1>2

\* What serve thread c has in its hand.
Hand(c) == IF InHand(c) THEN {Id(urb[c])} ELSE {}

\* When only c's serve thread moves, only its URB comes to hand or leaves it.
LEMMA HandMoves ==
    ASSUME OwnUrb, OwnUrb', NEW c \in Conns,
           \A d \in Conns : d # c => pc'[d] = pc[d] /\ urb'[d] = urb[d]
    PROVE  InHandIds' = (InHandIds \ Hand(c)) \cup Hand(c)'
<1>1. \A d \in Conns : Id(urb[d])[1] = d /\ Id(urb'[d])[1] = d
  BY DEF OwnUrb, Id
<1>2. \A x : x \in InHandIds <=> \E d \in Conns : InHand(d) /\ x = Id(urb[d])
  BY DEF InHandIds
<1>3. \A x : x \in InHandIds' <=> \E d \in Conns : InHand(d)' /\ x = Id(urb'[d])
  BY DEF InHandIds, Id
<1>4. \A d \in Conns : d # c => (InHand(d)' <=> InHand(d)) /\ Id(urb'[d]) = Id(urb[d])
  BY DEF InHand
<1>5. Hand(c)' = IF InHand(c)' THEN {Id(urb'[c])} ELSE {}
  BY DEF Hand, Id
<1>6. ASSUME NEW x \in InHandIds' PROVE x \in (InHandIds \ Hand(c)) \cup Hand(c)'
  <2>1. PICK d \in Conns : InHand(d)' /\ x = Id(urb'[d])
    BY <1>3
  <2> QED
    BY <1>1, <1>2, <1>4, <1>5, <2>1 DEF Hand
<1>7. ASSUME NEW x \in InHandIds \ Hand(c) PROVE x \in InHandIds'
  <2>1. PICK d \in Conns : InHand(d) /\ x = Id(urb[d])
    BY <1>2
  <2> QED
    BY <1>3, <1>4, <2>1 DEF Hand
<1>8. Hand(c)' \subseteq InHandIds'
  BY <1>3, <1>5
<1> QED
  BY <1>6, <1>7, <1>8

\* What a step leaves alone stays where it is.
LEMMA LifeKept ==
    /\ UNCHANGED nextSeq => Submitted' = Submitted
    /\ UNCHANGED pending => ParkedIds' = ParkedIds /\ (Apart(pending)' <=> Apart(pending))
    /\ UNCHANGED done => DoneIds' = DoneIds /\ (DoneApart' <=> DoneApart)
    /\ UNCHANGED <<pc, urb>> => InHandIds' = InHandIds
    /\ UNCHANGED urb => (OwnUrb' <=> OwnUrb)
    /\ UNCHANGED wire => AnsweredIds' = AnsweredIds /\ (WireApart' <=> WireApart)
<1>1. UNCHANGED nextSeq => Submitted' = Submitted
  BY DEF Submitted
<1>2. UNCHANGED pending => ParkedIds' = ParkedIds /\ (Apart(pending)' <=> Apart(pending))
  BY DEF ParkedIds, Ids, Id, Apart
<1>3. UNCHANGED done => DoneIds' = DoneIds /\ (DoneApart' <=> DoneApart)
  BY DEF DoneIds, DoneApart, Apart, Ids, Id
<1>4. UNCHANGED <<pc, urb>> => InHandIds' = InHandIds
  BY DEF InHandIds, InHand, Id
<1>5. UNCHANGED urb => (OwnUrb' <=> OwnUrb)
  BY DEF OwnUrb
<1>6. UNCHANGED wire => AnsweredIds' = AnsweredIds /\ (WireApart' <=> WireApart)
  BY DEF AnsweredIds, AnswersOn, WireApart
<1> QED
  BY <1>1, <1>2, <1>3, <1>4, <1>5, <1>6

LEMMA LifeInit == Init => LifeInv
<1> SUFFICES ASSUME Init PROVE LifeInv
  OBVIOUS
<1>1. Submitted = {}
  BY DEF Init, Submitted, Urbs
<1>2. ParkedIds = {} /\ Apart(pending)
  BY DEF Init, ParkedIds, Ids, Apart
<1>3. DoneIds = {} /\ DoneApart
  BY DEF Init, DoneIds, DoneApart, Ids, Apart
<1>4. InHandIds = {} /\ OwnUrb
  BY DEF Init, InHandIds, InHand, OwnUrb
<1>5. AnsweredIds = {} /\ WireApart
  <2>1. \A c \in Conns : AnswersOn(c) = {}
    BY DEF Init, AnswersOn
  <2> QED
    BY <2>1 DEF AnsweredIds, WireApart, Urbs
<1> QED
  BY <1>1, <1>2, <1>3, <1>4, <1>5 DEF Init, LifeInv, SomewhereOnce

\* A reset drops what is parked.
LEMMA LifeReset ==
    ASSUME TypeOK, LifeInv, Reset, UNCHANGED <<done, urb, wire, nextSeq>>, InHandIds' = InHandIds
    PROVE  LifeInv' /\ LifeStep
<1>1. ParkedIds' = {} /\ Apart(pending)'
  BY DEF Reset, ParkedIds, Ids, Apart
<1>2. dropped' = dropped \cup ParkedIds
  BY DEF Reset, ParkedIds
<1>3. SomewhereOnce'
  BY <1>1, <1>2, LifeKept DEF LifeInv, SomewhereOnce
<1>4. LifeStep
  BY <1>2, LifeKept DEF LifeStep, HeldIds
<1> QED
  BY <1>1, <1>3, <1>4, LifeKept DEF LifeInv

\* A step that touches no URB keeps the invariant.
LEMMA LifeUntouched ==
    ASSUME LifeInv, UNCHANGED <<pending, done, urb, wire, nextSeq, dropped>>, InHandIds' = InHandIds
    PROVE  LifeInv' /\ LifeStep
<1>1. LifeInv'
  BY LifeKept DEF LifeInv, SomewhereOnce
<1>2. Submitted' = Submitted /\ AnsweredIds' = AnsweredIds /\ dropped' = dropped \cup {}
  BY LifeKept
<1>3. LifeStep
  BY <1>2 DEF LifeStep
<1> QED
  BY <1>1, <1>3

LEMMA LifeServe ==
    ASSUME TypeOK, TypeOK', LifeInv, NEW c \in Conns, HostGone(c) \/ ServeStep(c)
    PROVE  LifeInv' /\ LifeStep
<1> USE DEF LifeInv
<1>h. \/ ~InHand(c) /\ Hand(c) = {}
      \/ InHand(c) /\ Hand(c) = {Id(urb[c])} /\ Id(urb[c]) \in InHandIds
  BY DEF Hand, InHandIds
<1>o. (\A d \in Conns : d # c => pc'[d] = pc[d] /\ urb'[d] = urb[d]) /\ OwnUrb'
      => InHandIds' = (InHandIds \ Hand(c)) \cup Hand(c)'
  BY HandMoves
<1>w. UNCHANGED urb /\ (\A d \in Conns : d # c => pc'[d] = pc[d]) /\ pc'[c] \notin {"take", "reply"}
      => InHandIds' = InHandIds \ Hand(c)
  BY <1>o, LifeKept DEF Hand, InHand
<1>1. CASE HostGone(c)
  BY <1>1, LifeKept, LifeUntouched DEF HostGone
<1>2. CASE Attach(c)
  <2>1. /\ UNCHANGED urb /\ \A d \in Conns : d # c => pc'[d] = pc[d]
        /\ pc'[c] = "read" /\ ~InHand(c)
    BY <1>2 DEF Attach, InHand, TypeOK
  <2>2. InHandIds' = InHandIds
    BY <1>h, <1>w, <2>1
  <2> QED
    BY <1>2, <2>2, LifeReset DEF Attach
<1>3. ASSUME NEW len \in Lens, ReadSubmit(c, len)
      PROVE  LifeInv' /\ LifeStep
  <2> DEFINE new == <<c, nextSeq[c]>>
  <2>1. nextSeq[c] \in 1 .. MaxSeq /\ nextSeq' = [nextSeq EXCEPT ![c] = nextSeq[c] + 1]
    BY <1>3, BoundAssumption DEF ReadSubmit, TypeOK
  <2>2. Submitted' = Submitted \cup {new} /\ new \notin Submitted
    <3>1. nextSeq'[c] = nextSeq[c] + 1 /\ \A d \in Conns : d # c => nextSeq'[d] = nextSeq[d]
      BY <2>1 DEF TypeOK
    <3>2. ASSUME NEW u \in Urbs PROVE u \in Submitted' <=> u \in Submitted \/ u = new
      <4>1. PICK d \in Conns, n \in 1 .. MaxSeq : u = <<d, n>>
        BY DEF Urbs
      <4>2. (u \in Submitted' <=> n < nextSeq'[d]) /\ (u \in Submitted <=> n < nextSeq[d])
        BY <4>1 DEF Submitted
      <4>3. u = new <=> d = c /\ n = nextSeq[c]
        BY <4>1
      <4> HIDE DEF new
      <4>4. CASE d = c
        <5>1. n < nextSeq[c] + 1 <=> n < nextSeq[c] \/ n = nextSeq[c]
          BY <2>1
        <5> QED
          BY <3>1, <4>2, <4>3, <4>4, <5>1
      <4>5. CASE d # c
        BY <3>1, <4>2, <4>3, <4>5
      <4> QED
        BY <4>4, <4>5
    <3>3. new \in Urbs /\ new \notin Submitted
      BY <2>1 DEF Urbs, Submitted
    <3>4. Submitted \subseteq Urbs /\ Submitted' \subseteq Urbs
      BY DEF Submitted, Urbs
    <3> QED
      BY <3>2, <3>3, <3>4
  <2>3. urb' = [urb EXCEPT ![c] = [conn |-> c, seq |-> nextSeq[c], len |-> len]] /\ OwnUrb'
    BY <1>3 DEF ReadSubmit, OwnUrb, TypeOK
  <2>4. Hand(c) = {} /\ Hand(c)' = {new}
    <3>1. pc[c] = "read" /\ pc'[c] \in {"take", "reply"}
      BY <1>3 DEF ReadSubmit, Idle, TypeOK
    <3>2. Id(urb'[c]) = new
      BY <2>3 DEF Id, TypeOK
    <3> QED
      BY <3>1, <3>2 DEF Hand, InHand, Id
  <2>5. InHandIds' = InHandIds \cup {new}
    <3>1. \A d \in Conns : d # c => pc'[d] = pc[d] /\ urb'[d] = urb[d]
      BY <1>3, <2>3 DEF ReadSubmit, TypeOK
    <3> QED
      BY <1>o, <2>3, <2>4, <3>1
  <2>6. UNCHANGED <<pending, done, wire, dropped>>
    BY <1>3 DEF ReadSubmit
  <2>7. SomewhereOnce'
    BY <2>2, <2>5, <2>6, LifeKept DEF SomewhereOnce
  <2>8. LifeStep
    <3>1. new \in Urbs \ Submitted
      BY <2>1, <2>2 DEF Urbs
    <3> QED
      BY <2>2, <2>6, <3>1, LifeKept DEF LifeStep
  <2> QED
    BY <2>3, <2>6, <2>7, <2>8, LifeKept
<1>4. CASE TakeOrPark(c)
  <2>1. UNCHANGED <<done, urb, wire, nextSeq, dropped>> /\ pc[c] = "take"
    BY <1>4 DEF TakeOrPark
  <2>2. Hand(c) = {Id(urb[c])} /\ Id(urb[c]) \in InHandIds
    BY <1>h, <2>1 DEF InHand
  <2>3. CASE q # <<>>
    <3>1. pc' = [pc EXCEPT ![c] = "reply"] /\ pending' = pending
      BY <1>4, <2>3 DEF TakeOrPark
    <3>2. Hand(c)' = Hand(c)
      BY <2>1, <3>1 DEF Hand, InHand, Id, TypeOK
    <3>3. \A d \in Conns : d # c => pc'[d] = pc[d] /\ urb'[d] = urb[d]
      BY <2>1, <3>1 DEF TypeOK
    <3>4. InHandIds' = InHandIds
      BY <1>o, <2>1, <2>2, <3>2, <3>3, LifeKept
    <3> QED
      BY <2>1, <3>1, <3>4, LifeUntouched
  <2>4. CASE q = <<>>
    <3>1. pc' = [pc EXCEPT ![c] = "read"] /\ pending' = Append(pending, urb[c])
      BY <1>4, <2>4 DEF TakeOrPark, Park
    <3>2. InHandIds' = InHandIds \ {Id(urb[c])}
      <4>1. pc'[c] = "read" /\ \A d \in Conns : d # c => pc'[d] = pc[d]
        BY <3>1 DEF TypeOK
      <4> QED
        BY <1>w, <2>1, <2>2, <4>1
    <3>3. Id(urb[c]) \notin ParkedIds
      BY <2>2 DEF SomewhereOnce
    <3>4. ParkedIds' = ParkedIds \cup {Id(urb[c])} /\ Apart(pending')
      <4>1. ParkedIds' = Ids(pending')
        BY DEF ParkedIds, Ids, Id
      <4>2. pending \in Seq(Urb) /\ urb[c] \in Urb
        BY DEF TypeOK
      <4>3. /\ Ids(Append(pending, urb[c])) = Ids(pending) \cup {Id(urb[c])}
            /\ Apart(Append(pending, urb[c]))
        BY <3>3, <4>2, AppendIds DEF ParkedIds
      <4> QED
        BY <3>1, <4>1, <4>3 DEF ParkedIds
    <3>5. SomewhereOnce'
      BY <2>1, <2>2, <3>2, <3>3, <3>4, LifeKept DEF SomewhereOnce
    <3>6. LifeStep
      <4>1. dropped' = dropped \cup {}
        BY <2>1
      <4> QED
        BY <2>1, <4>1, LifeKept DEF LifeStep
    <3> QED
      BY <2>1, <3>4, <3>5, <3>6, LifeKept DEF Apart, Id
  <2> QED
    BY <2>3, <2>4
<1>5. CASE Respond(c)
  <2>1. /\ pc[c] = "reply" /\ Send(urb[c], answer[c]) /\ pc' = [pc EXCEPT ![c] = "read"]
        /\ UNCHANGED <<pending, done, urb, nextSeq>>
    BY <1>5 DEF Respond
  <2>2. Hand(c) = {Id(urb[c])} /\ Id(urb[c]) \in InHandIds
    BY <1>h, <2>1 DEF InHand
  <2>3. Id(urb[c]) \notin AnsweredIds /\ Id(urb[c]) \in Urbs
    BY <2>2 DEF SomewhereOnce, Submitted
  <2>4. urb[c].conn \in Conns /\ urb[c].seq \in 1 .. MaxSeq /\ answer[c] \in Data
    BY <2>3 DEF TypeOK, Id, Urbs
  <2>5. /\ \/ AnsweredIds' = AnsweredIds \cup {Id(urb[c])} /\ dropped' = dropped
           \/ AnsweredIds' = AnsweredIds /\ dropped' = dropped \cup {Id(urb[c])}
        /\ WireApart'
    BY <2>1, <2>3, <2>4, SendMoves
  <2>6. InHandIds' = InHandIds \ {Id(urb[c])}
    <3>1. pc'[c] = "read" /\ \A d \in Conns : d # c => pc'[d] = pc[d]
      BY <2>1 DEF TypeOK
    <3> QED
      BY <1>w, <2>1, <2>2, <3>1
  <2>7. SomewhereOnce'
    BY <2>1, <2>2, <2>5, <2>6, LifeKept DEF SomewhereOnce
  <2>8. LifeStep
    <3>1. Id(urb[c]) \in HeldIds /\ {Id(urb[c])} \in SUBSET HeldIds
      BY <2>2 DEF HeldIds
    <3> QED
      BY <2>1, <2>5, <3>1, LifeKept DEF LifeStep
  <2> QED
    BY <2>1, <2>5, <2>7, <2>8, LifeKept
<1>6. ASSUME NEW n \in 1 .. MaxSeq, ReadUnlink(c, n)
      PROVE  LifeInv' /\ LifeStep
  <2>1. /\ pc[c] = "read" /\ pc' = [pc EXCEPT ![c] = "unlink"]
        /\ urb' = [urb EXCEPT ![c] = [conn |-> c, seq |-> n, len |-> 1]]
        /\ UNCHANGED <<done, wire, nextSeq>>
    BY <1>6 DEF ReadUnlink, Idle
  <2>2. OwnUrb'
    BY <2>1 DEF OwnUrb, TypeOK
  <2>3. Hand(c) = {} /\ Hand(c)' = {}
    BY <2>1 DEF Hand, InHand, TypeOK
  <2>4. InHandIds' = InHandIds
    BY <1>o, <2>1, <2>2, <2>3 DEF TypeOK
  <2>5. CASE UNCHANGED <<pending, dropped>>
    <3>1. SomewhereOnce' /\ dropped' = dropped \cup {}
      BY <2>1, <2>4, <2>5, LifeKept DEF SomewhereOnce
    <3>2. LifeStep
      BY <2>1, <3>1, LifeKept DEF LifeStep
    <3> QED
      BY <2>1, <2>2, <2>5, <3>1, <3>2, LifeKept
  <2>6. ASSUME NEW i \in DOMAIN pending, pending' = Without(pending, i),
               dropped' = dropped \cup {Id(pending[i])}
        PROVE  LifeInv' /\ LifeStep
    <3>1. /\ ParkedIds' = ParkedIds \ {Id(pending[i])} /\ Id(pending[i]) \in ParkedIds
          /\ Apart(pending')
      <4>1. ParkedIds' = Ids(pending')
        BY DEF ParkedIds, Ids, Id
      <4> QED
        BY <2>6, <4>1, WithoutIds DEF ParkedIds, TypeOK
    <3>2. SomewhereOnce'
      BY <2>1, <2>4, <2>6, <3>1, LifeKept DEF SomewhereOnce
    <3>3. LifeStep
      <4>1. {Id(pending[i])} \in SUBSET HeldIds
        BY <3>1 DEF HeldIds
      <4> QED
        BY <2>1, <2>6, <4>1, LifeKept DEF LifeStep
    <3> QED
      BY <2>1, <2>2, <3>1, <3>2, <3>3, LifeKept DEF Apart, Id
  <2> QED
    BY <1>6, <2>5, <2>6 DEF ReadUnlink
<1>7. CASE RespondUnlink(c)
  <2>1. /\ pc[c] = "unlink" /\ pc' = [pc EXCEPT ![c] = "read"]
        /\ UNCHANGED <<pending, done, urb, nextSeq, dropped>>
    BY <1>7 DEF RespondUnlink
  <2>2. InHandIds' = InHandIds
    <3>1. pc'[c] = "read" /\ ~InHand(c) /\ \A d \in Conns : d # c => pc'[d] = pc[d]
      BY <2>1 DEF InHand, TypeOK
    <3> QED
      BY <1>h, <1>w, <2>1, <3>1
  <2>3. AnsweredIds' = AnsweredIds /\ WireApart'
    <3>1. CASE ~alive[c]
      BY <1>7, <3>1, LifeKept DEF RespondUnlink
    <3>2. CASE alive[c]
      <4> DEFINE r == UnlinkReply(urb[c].seq)
      <4>1. r \in OnWire /\ r.kind = "unlink"
        BY DEF TypeOK, Urb, UnlinkReply, OnWire
      <4>2. wire' = [wire EXCEPT ![c] = Append(wire[c], r)]
        BY <1>7, <3>2 DEF RespondUnlink
      <4>3. OnWireBehind(c, r)
        BY <4>1, <4>2, WireAppend
      <4>4. \A d \in Conns : AnswersOn(d)' = AnswersOn(d)
        BY <4>1, <4>3 DEF OnWireBehind, AnswersOn
      <4>5. \A d \in Conns : \A i \in AnswersOn(d) : wire'[d][i] = wire[d][i]
        BY <4>3 DEF OnWireBehind, AnswersOn
      <4>6. \A x \in Urbs : x \in AnsweredIds' <=> x \in AnsweredIds
        <5>1. \A x \in Urbs : x[1] \in Conns
          BY DEF Urbs
        <5> QED
          BY <4>4, <4>5, <5>1 DEF AnsweredIds
      <4> QED
        BY <4>4, <4>5, <4>6 DEF WireApart, AnsweredIds
    <3> QED
      BY <3>1, <3>2
  <2>4. SomewhereOnce'
    BY <2>1, <2>2, <2>3, LifeKept DEF SomewhereOnce
  <2>5. LifeStep
    <3>1. dropped' = dropped \cup {}
      BY <2>1
    <3> QED
      BY <2>1, <2>3, <3>1, LifeKept DEF LifeStep
  <2> QED
    BY <2>1, <2>3, <2>4, <2>5, LifeKept
<1>8. CASE ReadClearHalt(c)
  BY <1>8, LifeKept, LifeUntouched DEF ReadClearHalt
<1>9. CASE ReadSetConfiguration(c)
  BY <1>9, LifeKept, LifeReset DEF ReadSetConfiguration
<1>10. CASE Close(c)
  <2>1. /\ UNCHANGED urb /\ \A d \in Conns : d # c => pc'[d] = pc[d]
        /\ pc'[c] = "closed" /\ ~InHand(c)
    BY <1>10 DEF Close, Idle, InHand, TypeOK
  <2>2. InHandIds' = InHandIds
    BY <1>h, <1>w, <2>1
  <2> QED
    BY <1>10, <2>2, LifeUntouched DEF Close
<1> QED
  BY <1>1, <1>2, <1>3, <1>4, <1>5, <1>6, <1>7, <1>8, <1>9, <1>10 DEF ServeStep

LEMMA LifeDevice ==
    ASSUME TypeOK, TypeOK', LifeInv, NEW t \in Threads, DeviceStep(t)
    PROVE  LifeInv' /\ LifeStep
<1> USE DEF LifeInv
<1>d. done[t] \in Seq(Taken) /\ Ids(done[t]) \subseteq DoneIds /\ Apart(done[t])
  BY DEF TypeOK, DoneIds, DoneApart
<1>1. ASSUME (\E size \in Sizes : Write(t, size)) \/ Unlock(t)
      PROVE  LifeInv' /\ LifeStep
  BY <1>1, LifeKept, LifeUntouched DEF Write, Unlock
<1>2. CASE Match(t)
  <2> DEFINE u == Head(pending)
             m == [conn |-> u.conn, seq |-> u.seq, data |-> FrontPiece(u.len)]
  <2>1. /\ pending # <<>> /\ q # <<>> /\ pending' = Tail(pending)
        /\ done' = [done EXCEPT ![t] = Append(done[t], m)]
        /\ UNCHANGED <<pc, urb, wire, nextSeq, dropped>>
    BY <1>2 DEF Match, PopParked
  <2>2. ParkedIds' = ParkedIds \ {Id(u)} /\ Id(u) \in ParkedIds /\ Apart(pending')
    <3>1. ParkedIds' = Ids(pending')
      BY DEF ParkedIds, Ids, Id
    <3>2. pending \in Seq(Urb)
      BY DEF TypeOK
    <3>3. /\ Ids(Tail(pending)) = Ids(pending) \ {Id(Head(pending))}
          /\ Id(Head(pending)) \in Ids(pending)
          /\ Apart(Tail(pending))
      BY <2>1, <3>2, TailIds
    <3> QED
      BY <2>1, <3>1, <3>3 DEF ParkedIds
  <2>3. m \in Taken /\ Id(m) = Id(u)
    <3>1. u \in Urb
      BY <2>1 DEF TypeOK
    <3>2. FrontPiece(u.len) \in Data
      BY <2>1, <3>1, FrontPieceType DEF TypeOK, Urb
    <3> QED
      BY <3>1, <3>2 DEF Taken, Urb, Id
  <2> HIDE DEF m
  <2>4. Id(u) \notin DoneIds
    BY <2>2 DEF SomewhereOnce
  <2>5. Ids(Append(done[t], m)) = Ids(done[t]) \cup {Id(u)} /\ Apart(Append(done[t], m))
    BY <1>d, <2>3, <2>4, AppendIds
  <2>6. DoneIds' = DoneIds \cup {Id(u)} /\ DoneApart'
    <3> DEFINE s == Append(done[t], m)
    <3> HIDE DEF s
    <3>1. Apart(s) /\ Ids(s) \cap (DoneIds \ Ids(done[t])) = {} /\ done' = [done EXCEPT ![t] = s]
      BY <2>1, <2>4, <2>5 DEF s
    <3>2. DoneIds' = (DoneIds \ Ids(done[t])) \cup Ids(s) /\ DoneApart'
      BY <3>1, DoneMoves
    <3> QED
      BY <1>d, <2>5, <3>2 DEF s
  <2>7. SomewhereOnce'
    BY <2>1, <2>2, <2>4, <2>6, LifeKept DEF SomewhereOnce
  <2>8. LifeStep
    <3>1. dropped' = dropped \cup {}
      BY <2>1
    <3> QED
      BY <2>1, <3>1, LifeKept DEF LifeStep
  <2> QED
    BY <2>1, <2>2, <2>6, <2>7, <2>8, LifeKept DEF Apart, Id
<1>3. CASE Complete(t)
  <2> DEFINE m == Head(done[t])
             s == Tail(done[t])
  <2>1. /\ done[t] # <<>> /\ Send(m, m.data) /\ done' = [done EXCEPT ![t] = s]
        /\ UNCHANGED <<pending, pc, urb, nextSeq>>
    BY <1>3 DEF Complete
  <2>2. Ids(s) = Ids(done[t]) \ {Id(m)} /\ Id(m) \in Ids(done[t]) /\ Apart(s)
    BY <1>d, <2>1, TailIds
  <2>3. m \in Taken
    BY <1>d, <2>1
  <2> HIDE DEF m, s
  <2>4. DoneIds' = DoneIds \ {Id(m)} /\ DoneApart'
    <3>1. Ids(s) \cap (DoneIds \ Ids(done[t])) = {}
      BY <2>2
    <3>2. DoneIds' = (DoneIds \ Ids(done[t])) \cup Ids(s) /\ DoneApart'
      BY <2>1, <2>2, <3>1, DoneMoves
    <3> QED
      BY <1>d, <2>2, <3>2
  <2>5. Id(m) \in DoneIds /\ Id(m) \in Urbs
    BY <1>d, <2>2 DEF SomewhereOnce, Submitted
  <2>6. m.conn \in Conns /\ m.seq \in 1 .. MaxSeq /\ m.data \in Data /\ Id(m) \notin AnsweredIds
    BY <2>3, <2>5 DEF Taken, Id, Urbs, SomewhereOnce
  <2>7. /\ \/ AnsweredIds' = AnsweredIds \cup {Id(m)} /\ dropped' = dropped
           \/ AnsweredIds' = AnsweredIds /\ dropped' = dropped \cup {Id(m)}
        /\ WireApart'
    BY <2>1, <2>6, SendMoves
  <2>8. SomewhereOnce'
    BY <2>1, <2>4, <2>5, <2>7, LifeKept DEF SomewhereOnce
  <2>9. LifeStep
    <3>1. Id(m) \in HeldIds /\ {Id(m)} \in SUBSET HeldIds
      BY <2>5 DEF HeldIds
    <3> QED
      BY <2>1, <2>7, <3>1, LifeKept DEF LifeStep
  <2> QED
    BY <2>1, <2>4, <2>7, <2>8, <2>9, LifeKept
<1>4. CASE Stall(t)
  <2> DEFINE s == Stalls(pending)
  <2>1. /\ done[t] = <<>> /\ done' = [done EXCEPT ![t] = s] /\ pending' = <<>>
        /\ UNCHANGED <<pc, urb, wire, nextSeq, dropped>>
    BY <1>4 DEF Stall, RunsDeviceCode
  <2>2. Ids(s) = ParkedIds /\ Apart(s)
    <3>1. DOMAIN s = DOMAIN pending /\ \A i \in DOMAIN pending : Id(s[i]) = Id(pending[i])
      BY DEF Stalls, Id
    <3> HIDE DEF s
    <3> QED
      BY <3>1 DEF Ids, ParkedIds, Apart
  <2> HIDE DEF s
  <2>3. Ids(done[t]) = {}
    BY <2>1 DEF Ids
  <2>4. DoneIds' = DoneIds \cup ParkedIds /\ DoneApart'
    <3>1. Ids(s) \cap (DoneIds \ Ids(done[t])) = {}
      BY <2>2 DEF SomewhereOnce
    <3>2. DoneIds' = (DoneIds \ Ids(done[t])) \cup Ids(s) /\ DoneApart'
      BY <2>1, <2>2, <3>1, DoneMoves
    <3> QED
      BY <2>2, <2>3, <3>2
  <2>5. ParkedIds' = {} /\ Apart(pending)'
    BY <2>1 DEF ParkedIds, Ids, Apart
  <2>6. SomewhereOnce'
    BY <2>1, <2>4, <2>5, LifeKept DEF SomewhereOnce
  <2>7. LifeStep
    <3>1. dropped' = dropped \cup {}
      BY <2>1
    <3> QED
      BY <2>1, <3>1, LifeKept DEF LifeStep
  <2> QED
    BY <2>1, <2>4, <2>5, <2>6, <2>7, LifeKept
<1> QED
  BY <1>1, <1>2, <1>3, <1>4 DEF DeviceStep

\* Every step keeps the invariant, and moves URBs as LifeStep says.
LEMMA LifeMoves ==
    ASSUME TypeOK, TypeOK', LifeInv, [Next]_vars PROVE LifeInv' /\ LifeStep
<1>1. CASE UNCHANGED vars
  <2>1. UNCHANGED <<pending, done, urb, wire, nextSeq, dropped, pc>>
    BY <1>1 DEF vars
  <2> QED
    BY <2>1, LifeKept, LifeUntouched
<1> QED
  BY <1>1, LifeServe, LifeDevice DEF Next

\* Wherever threads, hosts and resets meet, a submitted URB is in one place.
LEMMA LifeInvariant == Spec => [](TypeOK /\ LifeInv)
<1>1. TypeOK /\ TypeOK' /\ LifeInv /\ [Next]_vars => LifeInv'
  BY LifeMoves
<1> QED
  BY <1>1, LifeInit, TypeCorrect, PTL DEF Spec

-----------------------------------------------------------------------------
(* The endpoint implements UrbLife.                                        *)

\* What has become of a URB, read off the place it is in.
Fate(u) ==
    IF u \notin Submitted THEN "unborn"
    ELSE IF u \in dropped THEN "dropped"
    ELSE IF u \in AnsweredIds THEN "answered"
    ELSE "held"

\* With each URB in one place, no URB is astray.
LEMMA NoneAstray ==
    ASSUME LifeInv, NEW u \in Urbs PROVE StatusOf(u) = Fate(u)
<1> DEFINE parked == {<<"parked", i>> : i \in {j \in DOMAIN pending : Id(pending[j]) = u}}
           taken  == UNION {{<<"done", t, i>> : i \in {j \in DOMAIN done[t] : Id(done[t][j]) = u}}
                              : t \in Threads}
           inHand == {<<"hand", c>> : c \in {d \in Conns : InHand(d) /\ Id(urb[d]) = u}}
           onWire == {<<"wire", i>> : i \in {j \in AnswersOn(u[1]) : wire[u[1]][j].seq = u[2]}}
           gone   == IF u \in dropped THEN {<<"dropped">>} ELSE {}
<1>0. PlacesOf(u) = parked \cup taken \cup inHand \cup onWire \cup gone
  BY Zenon DEF PlacesOf
<1>1. /\ u \notin ParkedIds => parked = {}
      /\ u \in ParkedIds => \E x : parked = {x}
  <2>1. ASSUME u \notin ParkedIds PROVE parked = {}
    BY <2>1 DEF ParkedIds, Ids
  <2>2. ASSUME u \in ParkedIds PROVE \E x : parked = {x}
    <3>1. PICK i \in DOMAIN pending : Id(pending[i]) = u
      BY <2>2 DEF ParkedIds, Ids
    <3>2. {j \in DOMAIN pending : Id(pending[j]) = u} = {i}
      BY <3>1 DEF LifeInv, Apart
    <3>3. parked = {<<"parked", i>>}
      BY <3>2
    <3> QED
      BY <3>3
  <2> QED
    BY <2>1, <2>2
<1>2. /\ u \notin DoneIds => taken = {}
      /\ u \in DoneIds => \E x : taken = {x}
  <2>1. ASSUME u \notin DoneIds PROVE taken = {}
    <3>1. \A t \in Threads : {j \in DOMAIN done[t] : Id(done[t][j]) = u} = {}
      BY <2>1 DEF DoneIds, Ids
    <3> QED
      BY <3>1
  <2>2. ASSUME u \in DoneIds PROVE \E x : taken = {x}
    <3>1. PICK t \in Threads : u \in Ids(done[t])
      BY <2>2 DEF DoneIds
    <3>2. PICK i \in DOMAIN done[t] : Id(done[t][i]) = u
      BY <3>1 DEF Ids
    <3>3. {j \in DOMAIN done[t] : Id(done[t][j]) = u} = {i}
      BY <3>2 DEF LifeInv, DoneApart, Apart
    <3>4. \A v \in Threads : v # t => {j \in DOMAIN done[v] : Id(done[v][j]) = u} = {}
      <4>1. \A v \in Threads : v # t => u \notin Ids(done[v])
        BY <3>1 DEF LifeInv, DoneApart
      <4> QED
        BY <4>1 DEF Ids
    <3>5. taken = {<<"done", t, i>>}
      BY <3>3, <3>4
    <3> QED
      BY <3>5
  <2> QED
    BY <2>1, <2>2
<1>3. /\ u \notin InHandIds => inHand = {}
      /\ u \in InHandIds => \E x : inHand = {x}
  <2>1. ASSUME u \notin InHandIds PROVE inHand = {}
    BY <2>1 DEF InHandIds
  <2>2. ASSUME u \in InHandIds PROVE \E x : inHand = {x}
    <3>1. PICK c \in Conns : InHand(c) /\ Id(urb[c]) = u
      BY <2>2 DEF InHandIds
    <3>2. \A d \in Conns : Id(urb[d])[1] = d
      BY DEF LifeInv, OwnUrb, Id
    <3>3. {d \in Conns : InHand(d) /\ Id(urb[d]) = u} = {c}
      BY <3>1, <3>2
    <3>4. inHand = {<<"hand", c>>}
      BY <3>3
    <3> QED
      BY <3>4
  <2> QED
    BY <2>1, <2>2
<1>4. /\ u \notin AnsweredIds => onWire = {}
      /\ u \in AnsweredIds => \E x : onWire = {x}
  <2>0. u[1] \in Conns
    BY DEF Urbs
  <2>1. ASSUME u \notin AnsweredIds PROVE onWire = {}
    BY <2>1 DEF AnsweredIds
  <2>2. ASSUME u \in AnsweredIds PROVE \E x : onWire = {x}
    <3>1. PICK i \in AnswersOn(u[1]) : wire[u[1]][i].seq = u[2]
      BY <2>2 DEF AnsweredIds
    <3>2. {j \in AnswersOn(u[1]) : wire[u[1]][j].seq = u[2]} = {i}
      BY <2>0, <3>1 DEF LifeInv, WireApart
    <3>3. onWire = {<<"wire", i>>}
      BY <3>2
    <3> QED
      BY <3>3
  <2> QED
    BY <2>1, <2>2
<1>5. /\ u \notin dropped => gone = {}
      /\ u \in dropped => \E x : gone = {x}
  OBVIOUS
<1> HIDE DEF parked, taken, inHand, onWire, gone
<1>6. ASSUME u \in Submitted PROVE Cardinality(PlacesOf(u)) = 1
  <2>1. \E x : PlacesOf(u) = {x}
    BY <1>0, <1>1, <1>2, <1>3, <1>4, <1>5, <1>6 DEF LifeInv, SomewhereOnce
  <2> QED
    BY <2>1, FS_Singleton
<1>7. CASE u \notin Submitted
  BY <1>7 DEF StatusOf, Fate
<1>8. CASE u \in Submitted /\ u \in dropped
  BY <1>6, <1>8 DEF StatusOf, Fate
<1>9. CASE u \in Submitted /\ u \notin dropped
  BY <1>6, <1>9 DEF StatusOf, Fate
<1> QED
  BY <1>7, <1>8, <1>9

\* In every state the status of each URB is its fate.
LEMMA StatusIsFate == LifeInv => Status = [u \in Urbs |-> Fate(u)]
BY NoneAstray DEF Status

\* The endpoint implements UrbLife, for all connections, threads and bounds: a
\* submitted URB is held, then answered once or dropped, and nothing happens to
\* it afterwards (device.py, class Endpoint).
THEOREM LifeRefined == Spec => LifeSpec
<1>1. Init => Life!Init
  <2> SUFFICES ASSUME Init PROVE Status = [u \in Urbs |-> "unborn"]
    BY DEF Life!Init
  <2>1. \A u \in Urbs : u \notin Submitted
    BY DEF Init, Submitted, Urbs
  <2> QED
    BY <2>1, LifeInit, StatusIsFate DEF Fate
<1>2. (LifeInv => Status = [u \in Urbs |-> Fate(u)])'
  BY StatusIsFate, PTL
<1>3. TypeOK /\ TypeOK' /\ LifeInv /\ [Next]_vars => [Life!Next]_Status
  <2> SUFFICES ASSUME TypeOK, TypeOK', LifeInv, [Next]_vars
               PROVE  Life!Next \/ Status' = Status
    OBVIOUS
  <2>1. LifeInv' /\ LifeStep
    BY LifeMoves
  <2>2. Status = [u \in Urbs |-> Fate(u)] /\ Status' = [u \in Urbs |-> Fate(u)']
    BY <1>2, <2>1, StatusIsFate
  <2>3. /\ \A u \in HeldIds : u \in Urbs /\ Fate(u) = "held"
        /\ dropped \subseteq Submitted /\ AnsweredIds \subseteq Submitted
        /\ AnsweredIds \cap dropped = {}
    BY DEF LifeInv, SomewhereOnce, HeldIds, Fate, Submitted
  <2>4. ASSUME NEW u \in Urbs \ Submitted, Submitted' = Submitted \cup {u},
               AnsweredIds' = AnsweredIds, dropped' = dropped
        PROVE  Life!Submit(u)
    <3>1. Fate(u) = "unborn" /\ Fate(u)' = "held"
      BY <2>3, <2>4 DEF Fate
    <3>2. \A v \in Urbs : v # u => Fate(v)' = Fate(v)
      BY <2>4 DEF Fate
    <3> QED
      BY <2>2, <3>1, <3>2 DEF Life!Submit
  <2>5. ASSUME NEW u \in HeldIds, AnsweredIds' = AnsweredIds \cup {u},
               Submitted' = Submitted, dropped' = dropped
        PROVE  Life!Answer(u)
    <3>1. u \in Urbs /\ Fate(u) = "held" /\ Fate(u)' = "answered"
      BY <2>3, <2>5 DEF Fate
    <3>2. \A v \in Urbs : v # u => Fate(v)' = Fate(v)
      BY <2>5 DEF Fate
    <3> QED
      BY <2>2, <3>1, <3>2 DEF Life!Answer
  <2>6. ASSUME NEW S \in SUBSET HeldIds, dropped' = dropped \cup S,
               Submitted' = Submitted, AnsweredIds' = AnsweredIds
        PROVE  Life!Drop(S)
    <3>1. \A u \in S : u \in Urbs /\ Fate(u) = "held" /\ Fate(u)' = "dropped"
      BY <2>3, <2>6 DEF Fate
    <3>2. \A v \in Urbs : v \notin S => Fate(v)' = Fate(v)
      BY <2>6 DEF Fate
    <3> QED
      BY <2>2, <3>1, <3>2 DEF Life!Drop
  <2>7. HeldIds \subseteq Urbs
    BY <2>3
  <2> QED
    BY <2>1, <2>4, <2>5, <2>6, <2>7 DEF LifeStep, Life!Next
<1> QED
  BY <1>1, <1>3, LifeInvariant, TypeCorrect, PTL DEF Spec, LifeSpec, Life!Spec

-----------------------------------------------------------------------------
(* The parked URBs.                                                        *)

\* The entries of w are entries of s, in the order they have there.
Thins(w, s) ==
    /\ \A k \in DOMAIN w : \E m \in DOMAIN s : w[k] = s[m]
    /\ \A k, l \in DOMAIN w : k < l => \E m, n \in DOMAIN s : m < n /\ w[k] = s[m] /\ w[l] = s[n]

LEMMA WithoutThins ==
    ASSUME NEW S, NEW s \in Seq(S), NEW i \in DOMAIN s
    PROVE  Thins(Without(s, i), s)
<1> DEFINE w == Without(s, i)
<1>1. Len(s) \in Nat /\ DOMAIN s = 1 .. Len(s) /\ i \in 1 .. Len(s)
  OBVIOUS
<1>2. DOMAIN w = 1 .. (Len(s) - 1) /\ \A k \in DOMAIN w : w[k] = s[At(i, k)]
  BY WithoutEntries
<1> HIDE DEF w
<1>3. \A k \in DOMAIN w : At(i, k) \in DOMAIN s
  BY <1>1, <1>2 DEF At
<1>4. \A k, l \in DOMAIN w : k < l => At(i, k) < At(i, l)
  BY <1>1, <1>2 DEF At
<1>5. Thins(w, s)
  BY <1>2, <1>3, <1>4 DEF Thins
<1> QED
  BY <1>5 DEF w

LEMMA TailThins ==
    ASSUME NEW S, NEW s \in Seq(S), s # <<>>
    PROVE  Thins(Tail(s), s)
<1>1. 1 \in DOMAIN s /\ s[1] = Head(s) /\ Without(s, 1) = Tail(s)
  BY TailEntries
<1>2. Thins(Without(s, 1), s)
  BY <1>1, WithoutThins, Zenon
<1> QED
  BY <1>1, <1>2

\* What happens to the parked URBs in a step: nothing, some leave, all leave, or
\* a serve thread parks the URB it works on.
ParkedMove ==
    \/ UNCHANGED pending
    \/ Thins(pending', pending)
    \/ pending' = <<>>
    \/ \E c \in Conns : TakeOrPark(c) /\ q = <<>> /\ pending' = Append(pending, urb[c])

LEMMA ParkedMoves == ASSUME TypeOK, [Next]_vars PROVE ParkedMove
<1>0. pending \in Seq(Urb)
  BY DEF TypeOK
<1>1. ASSUME NEW c \in Conns, NEW n \in 1 .. MaxSeq, ReadUnlink(c, n) PROVE ParkedMove
  <2>1. CASE \E i \in DOMAIN pending : pending' = Without(pending, i)
    BY <1>0, <2>1, WithoutThins DEF ParkedMove
  <2> QED
    BY <1>1, <2>1 DEF ReadUnlink, ParkedMove
<1>2. ASSUME NEW t \in Threads, Match(t) PROVE ParkedMove
  BY <1>0, <1>2, TailThins DEF Match, PopParked, ParkedMove
<1>3. ASSUME NEW c \in Conns, TakeOrPark(c) PROVE ParkedMove
  BY <1>3 DEF TakeOrPark, Park, ParkedMove
<1>4. ASSUME NEW c \in Conns,
             \/ HostGone(c) \/ Attach(c) \/ Respond(c) \/ RespondUnlink(c) \/ ReadClearHalt(c)
             \/ ReadSetConfiguration(c) \/ Close(c) \/ \E len \in Lens : ReadSubmit(c, len)
      PROVE  ParkedMove
  BY <1>4 DEF HostGone, Attach, Respond, RespondUnlink, ReadClearHalt, ReadSetConfiguration,
              Reset, Close, ReadSubmit, ParkedMove
<1>5. ASSUME NEW t \in Threads,
             Unlock(t) \/ Complete(t) \/ Stall(t) \/ \E size \in Sizes : Write(t, size)
      PROVE  ParkedMove
  BY <1>5 DEF Unlock, Complete, Stall, Write, ParkedMove
<1>6. CASE UNCHANGED vars
  BY <1>6 DEF vars, ParkedMove
<1> QED
  BY <1>1, <1>2, <1>3, <1>4, <1>5, <1>6 DEF Next, ServeStep, DeviceStep

-----------------------------------------------------------------------------
(* A halt.                                                                 *)

\* On a halted endpoint a connection has one URB parked, or its serve thread is
\* about to take or park one, and not both.
OnlyLateUrb ==
    halted =>
        /\ \A i, j \in DOMAIN pending : pending[i].conn = pending[j].conn => i = j
        /\ \A i \in DOMAIN pending : pc[pending[i].conn] # "take"

\* The serve threads that are about to take or park, other than by ReadSubmit on
\* an endpoint that is not halted, were so before.
LEMMA NoneComesLate ==
    ASSUME TypeOK, [Next]_vars, halted, halted', NEW c \in Conns, pc'[c] = "take"
    PROVE  pc[c] = "take" /\ ~TakeOrPark(c)
<1>1. ASSUME NEW d \in Conns, NEW len \in Lens, ReadSubmit(d, len) PROVE pc[c] = "take"
  <2>1. pc' = [pc EXCEPT ![d] = "reply"]
    BY <1>1 DEF ReadSubmit, StallsAtOnce
  <2> QED
    BY <2>1 DEF TypeOK
<1>2. ASSUME NEW d \in Conns, NEW n \in 1 .. MaxSeq, ReadUnlink(d, n) PROVE pc[c] = "take"
  BY <1>2 DEF ReadUnlink, TypeOK
<1>3. ASSUME NEW d \in Conns, TakeOrPark(d) PROVE pc[c] = "take" /\ c # d
  BY <1>3 DEF TakeOrPark, TypeOK
<1>4. ASSUME NEW d \in Conns,
             \/ HostGone(d) \/ Attach(d) \/ Respond(d) \/ RespondUnlink(d) \/ ReadClearHalt(d)
             \/ ReadSetConfiguration(d) \/ Close(d)
      PROVE  pc[c] = "take"
  BY <1>4 DEF HostGone, Attach, Respond, RespondUnlink, ReadClearHalt, ReadSetConfiguration,
              Close, TypeOK
<1>5. ASSUME NEW t \in Threads, DeviceStep(t) PROVE pc[c] = "take"
  BY <1>5 DEF DeviceStep, Unlock, Complete, Stall, Write, Match
<1>6. ASSUME UNCHANGED vars PROVE pc[c] = "take"
  BY <1>6 DEF vars
<1>7. pc[c] = "take"
  BY <1>1, <1>2, <1>3, <1>4, <1>5, <1>6 DEF Next, ServeStep
<1>8. ~TakeOrPark(c)
  BY <1>3
<1> QED
  BY <1>7, <1>8

\* A halt begins with nothing parked, and does not end in between.
LEMMA HaltBegins == ASSUME [Next]_vars, ~halted, halted' PROVE pending' = <<>>
BY DEF Next, ServeStep, DeviceStep, HostGone, Attach, Reset, ReadSubmit, TakeOrPark, Respond,
       ReadUnlink, RespondUnlink, ReadClearHalt, ReadSetConfiguration, Close, Write, Match,
       Unlock, Complete, Stall, vars

LEMMA LateUrbMoves ==
    ASSUME TypeOK, TypeOK', OnlyLateUrb, OwnUrb, [Next]_vars PROVE OnlyLateUrb'
<1> SUFFICES ASSUME halted'
             PROVE  /\ \A i, j \in DOMAIN pending' : pending'[i].conn = pending'[j].conn => i = j
                    /\ \A i \in DOMAIN pending' : pc'[pending'[i].conn] # "take"
  BY DEF OnlyLateUrb
<1>1. CASE pending' = <<>>
  BY <1>1
<1>2. ASSUME pending' # <<>> PROVE halted
  BY <1>2, HaltBegins
<1>3. /\ pending \in Seq(Urb) /\ DOMAIN pending' \subseteq Nat
      /\ \A i \in DOMAIN pending : pending[i].conn \in Conns
  <2>1. pending \in Seq(Urb) /\ pending' \in Seq(Urb)
    BY DEF TypeOK
  <2>2. \A i \in DOMAIN pending : pending[i] \in Urb
    BY <2>1
  <2> QED
    BY <2>1, <2>2 DEF Urb
<1>4. CASE pending' # <<>> /\ UNCHANGED pending
  BY <1>2, <1>3, <1>4, NoneComesLate DEF OnlyLateUrb
<1>5. CASE pending' # <<>> /\ Thins(pending', pending)
  <2>1. \A i \in DOMAIN pending' : \E m \in DOMAIN pending : pending'[i] = pending[m]
    BY <1>5 DEF Thins
  <2>2. \A i \in DOMAIN pending' : pc'[pending'[i].conn] # "take"
    BY <1>2, <1>3, <1>5, <2>1, NoneComesLate DEF OnlyLateUrb
  <2> SUFFICES ASSUME NEW i \in DOMAIN pending', NEW j \in DOMAIN pending',
                      pending'[i].conn = pending'[j].conn, i # j
               PROVE  FALSE
    BY <2>2
  <2>3. i \in Nat /\ j \in Nat
    BY <1>3
  <2>4. CASE i < j
    <3>1. PICK m, n \in DOMAIN pending : m < n /\ pending'[i] = pending[m] /\ pending'[j] = pending[n]
      BY <1>5, <2>4 DEF Thins
    <3> QED
      BY <1>2, <1>3, <1>5, <3>1 DEF OnlyLateUrb
  <2>5. CASE j < i
    <3>1. PICK m, n \in DOMAIN pending : m < n /\ pending'[j] = pending[m] /\ pending'[i] = pending[n]
      BY <1>5, <2>5 DEF Thins
    <3> QED
      BY <1>2, <1>3, <1>5, <3>1 DEF OnlyLateUrb
  <2> QED
    BY <2>3, <2>4, <2>5
<1>6. ASSUME pending' # <<>>, NEW c \in Conns, TakeOrPark(c), pending' = Append(pending, urb[c])
      PROVE  OnlyLateUrb'
  <2>1. pc[c] = "take" /\ urb[c] \in Urb /\ urb[c].conn = c
    BY <1>6 DEF TakeOrPark, TypeOK, OwnUrb
  <2>2. \A i \in DOMAIN pending : pending[i].conn # c
    BY <1>2, <1>6, <2>1 DEF OnlyLateUrb
  <2> DEFINE k == Len(pending) + 1
  <2>3. /\ k \in DOMAIN pending' /\ pending'[k] = urb[c]
        /\ \A i \in DOMAIN pending' : i \in DOMAIN pending \/ i = k
        /\ \A i \in DOMAIN pending : pending'[i] = pending[i]
    BY <1>3, <1>6, <2>1
  <2> HIDE DEF k
  <2>4. \A i \in DOMAIN pending' : pc'[pending'[i].conn] # "take"
    <3>1. pc'[c] # "take"
      BY <1>6, NoneComesLate, <1>2
    <3>2. \A i \in DOMAIN pending : pc'[pending[i].conn] # "take"
      BY <1>2, <1>3, <1>6, NoneComesLate DEF OnlyLateUrb
    <3> QED
      BY <2>1, <2>3, <3>1, <3>2
  <2>5. \A i, j \in DOMAIN pending' : pending'[i].conn = pending'[j].conn => i = j
    BY <1>2, <1>6, <2>1, <2>2, <2>3 DEF OnlyLateUrb
  <2> QED
    BY <2>4, <2>5 DEF OnlyLateUrb
<1> QED
  BY <1>1, <1>4, <1>5, <1>6, ParkedMoves DEF ParkedMove, OnlyLateUrb

\* A halt lets at most one URB of a connection through: the one its serve thread
\* had already found the endpoint not halted for (USBDevice.handle_urb reads
\* `halted` without the lock).
THEOREM HaltTight == Spec => []OneLateUrbPerHalt
<1>1. Init => OnlyLateUrb
  BY DEF Init, OnlyLateUrb
<1>2. TypeOK /\ TypeOK' /\ LifeInv /\ OnlyLateUrb /\ [Next]_vars => OnlyLateUrb'
  BY LateUrbMoves DEF LifeInv
<1>3. TypeOK /\ OnlyLateUrb => OneLateUrbPerHalt
  <2> SUFFICES ASSUME TypeOK, OnlyLateUrb, halted, NEW c \in Conns
               PROVE  Cardinality({i \in DOMAIN pending : pending[i].conn = c})
                          + (IF pc[c] = "take" THEN 1 ELSE 0) <= 1
    BY DEF OneLateUrbPerHalt
  <2> DEFINE own == {i \in DOMAIN pending : pending[i].conn = c}
  <2>1. CASE own = {}
    <3>1. Cardinality(own) = 0
      BY <2>1, FS_EmptySet
    <3> QED
      BY <3>1
  <2>2. CASE own # {}
    <3>1. PICK i \in own : TRUE
      BY <2>2
    <3>2. own = {i}
      BY <3>1 DEF OnlyLateUrb
    <3>3. Cardinality(own) = 1 /\ pc[c] # "take"
      BY <3>1, <3>2, FS_Singleton DEF OnlyLateUrb
    <3> QED
      BY <3>3
  <2> QED
    BY <2>1, <2>2
<1> QED
  BY <1>1, <1>2, <1>3, LifeInvariant, TypeCorrect, PTL DEF Spec

-----------------------------------------------------------------------------
(* The queue.                                                              *)

\* The number of the next byte that a URB will be given.
Front == IF q = <<>> THEN written ELSE q[1].lo

\* The chunks stand in the order of their bytes, apart from each other, and hold
\* every byte from the front on.
QueueInOrder ==
    /\ \A i \in DOMAIN q : q[i].lo <= q[i].hi /\ q[i].hi <= written
    /\ \A i, j \in DOMAIN q : i < j => q[i].hi <= q[j].lo
    /\ \A b \in Front .. (written - 1) : \E i \in DOMAIN q : b \in Bytes(q[i])

\* A sequence of chunks, entry by entry.
LEMMA QueueEntries ==
    ASSUME TypeOK
    PROVE  /\ Len(q) \in Nat /\ DOMAIN q = 1 .. Len(q)
           /\ \A i \in DOMAIN q : q[i].lo \in Nat /\ q[i].hi \in Nat
           /\ q # <<>> => 1 \in DOMAIN q
           /\ q = <<>> => DOMAIN q = {}
           /\ Front \in Nat /\ written \in Nat
<1>1. q \in Seq(Chunk) /\ written \in Nat
  BY DEF TypeOK
<1>2. Len(q) \in Nat /\ DOMAIN q = 1 .. Len(q) /\ \A i \in DOMAIN q : q[i] \in Chunk
  BY <1>1
<1>3. \A i \in DOMAIN q : q[i].lo \in Nat /\ q[i].hi \in Nat
  BY <1>2 DEF Chunk
<1>4. q # <<>> => 1 \in DOMAIN q
  BY <1>1, <1>2
<1> QED
  BY <1>1, <1>2, <1>3, <1>4 DEF Front

\* The front is where the queue begins.
LEMMA FrontIsLeast ==
    ASSUME TypeOK, QueueInOrder
    PROVE  Front <= written /\ \A i \in DOMAIN q : Front <= q[i].lo
<1>1. CASE q = <<>>
  BY <1>1, QueueEntries DEF Front
<1>2. CASE q # <<>>
  <2>1. q[1].lo <= q[1].hi /\ q[1].hi <= written
    BY <1>2, QueueEntries DEF QueueInOrder
  <2>2. \A i \in DOMAIN q : i # 1 => q[1].hi <= q[i].lo
    BY <1>2, QueueEntries DEF QueueInOrder
  <2> QED
    BY <1>2, <2>1, <2>2, QueueEntries DEF Front
<1> QED
  BY <1>1, <1>2

\* `write` puts a blob behind the others.
LEMMA QueueWrite ==
    ASSUME TypeOK, TypeOK', QueueInOrder, NEW size \in Nat, written' = written + size,
           q' = Append(q, [lo |-> written, hi |-> written + size])
    PROVE  QueueInOrder' /\ Front' = Front
<1> DEFINE blob == [lo |-> written, hi |-> written + size]
           n == Len(q) + 1
<1>1. /\ DOMAIN q' = 1 .. n /\ q'[n] = blob /\ n \in DOMAIN q'
      /\ \A i \in DOMAIN q : i \in DOMAIN q' /\ q'[i] = q[i] /\ i < n
      /\ \A i \in DOMAIN q' : i \in DOMAIN q \/ i = n
  <2>1. q \in Seq(Chunk) /\ Len(q) \in Nat
    BY DEF TypeOK
  <2> QED
    BY <2>1
<1>2. blob.lo = written /\ blob.hi = written + size
  OBVIOUS
<1> HIDE DEF blob, n
<1>3. Front' = Front
  <2>1. CASE q = <<>>
    <3>1. n = 1
      BY <2>1 DEF n
    <3> QED
      BY <1>1, <1>2, <2>1, <3>1 DEF Front
  <2>2. CASE q # <<>>
    BY <1>1, <2>2, QueueEntries DEF Front
  <2> QED
    BY <2>1, <2>2
<1>4. \A i \in DOMAIN q' : q'[i].lo <= q'[i].hi /\ q'[i].hi <= written'
  BY <1>1, <1>2, QueueEntries DEF QueueInOrder
<1>5. \A i, j \in DOMAIN q' : i < j => q'[i].hi <= q'[j].lo
  <2> SUFFICES ASSUME NEW i \in DOMAIN q', NEW j \in DOMAIN q', i < j
               PROVE  q'[i].hi <= q'[j].lo
    OBVIOUS
  <2>1. i \in DOMAIN q
    BY <1>1, QueueEntries
  <2>2. CASE j \in DOMAIN q
    BY <1>1, <2>1, <2>2 DEF QueueInOrder
  <2>3. CASE j = n
    BY <1>1, <1>2, <2>1, <2>3 DEF QueueInOrder
  <2> QED
    BY <1>1, <2>2, <2>3
<1>6. \A b \in Front' .. (written' - 1) : \E i \in DOMAIN q' : b \in Bytes(q'[i])
  <2> SUFFICES ASSUME NEW b \in Front' .. (written' - 1)
               PROVE  \E i \in DOMAIN q' : b \in Bytes(q'[i])
    OBVIOUS
  <2>1. CASE b < written
    <3>1. b \in Front .. (written - 1)
      BY <1>3, <2>1, QueueEntries
    <3>2. PICK i \in DOMAIN q : b \in Bytes(q[i])
      BY <3>1 DEF QueueInOrder
    <3> QED
      BY <1>1, <3>2
  <2>2. CASE ~(b < written)
    <3>1. b \in Bytes(blob)
      BY <1>2, <1>3, <2>2, QueueEntries DEF Bytes
    <3> QED
      BY <1>1, <3>1
  <2> QED
    BY <2>1, <2>2
<1> QED
  BY <1>3, <1>4, <1>5, <1>6 DEF QueueInOrder, Bytes

\* A URB is given the bytes from the front to the new front.
LEMMA QueueTake ==
    ASSUME TypeOK, TypeOK', QueueInOrder, q # <<>>, NEW len \in Nat \ {0},
           q' = AfterFrontPiece(len), written' = written
    PROVE  /\ QueueInOrder'
           /\ FrontPiece(len).lo = Front /\ FrontPiece(len).hi = Front' /\ Front <= Front'
<1> DEFINE f == q[1]
<1>0. q \in Seq(Chunk) /\ Head(q) = f /\ f \in Chunk /\ 1 \in DOMAIN q
  BY DEF TypeOK
<1>1. /\ f.lo \in Nat /\ f.hi \in Nat /\ f.lo = Front /\ f.lo <= f.hi /\ f.hi <= written
      /\ \A i \in DOMAIN q : i # 1 => f.hi <= q[i].lo
  BY <1>0, QueueEntries DEF QueueInOrder, Front
<1>2. CASE f.hi - f.lo > len
  <2> DEFINE rest == [f EXCEPT !.lo = f.lo + len]
  <2>1. rest.lo = f.lo + len /\ rest.hi = f.hi
    BY <1>0 DEF Chunk
  <2>2. q' = <<rest>> \o Tail(q)
    BY <1>0, <1>2 DEF AfterFrontPiece
  <2>3. rest \in Chunk
    <3>1. \A c \in Chunk : [c EXCEPT !.lo = c.lo + len] \in Chunk
      BY DEF Chunk
    <3> QED
      BY <1>0, <3>1
  <2> HIDE DEF rest
  <2>4. DOMAIN q' = DOMAIN q /\ q'[1] = rest /\ \A i \in DOMAIN q : i # 1 => q'[i] = q[i]
    BY <1>0, <2>2, <2>3
  <2>5. Front' = f.lo + len /\ FrontPiece(len).lo = f.lo /\ FrontPiece(len).hi = f.lo + len
    BY <1>0, <1>2, <2>1, <2>4, QueueEntries DEF Front, FrontPiece
  <2> HIDE DEF f
  <2>6. \A i \in DOMAIN q' : q'[i].lo <= q'[i].hi /\ q'[i].hi <= written'
    BY <1>1, <1>2, <2>1, <2>4, QueueEntries, SMTT(20) DEF QueueInOrder
  <2>7. \A i, j \in DOMAIN q' : i < j => q'[i].hi <= q'[j].lo
    <3>1. \A i \in DOMAIN q' : q'[i].hi = q[i].hi
      BY <2>1, <2>4 DEF f
    <3>2. \A i, j \in DOMAIN q' : i < j => j # 1
      BY <2>4, QueueEntries
    <3> QED
      BY <2>4, <3>1, <3>2 DEF QueueInOrder
  <2>8. \A b \in Front' .. (written' - 1) : \E i \in DOMAIN q' : b \in Bytes(q'[i])
    <3> SUFFICES ASSUME NEW b \in Front' .. (written' - 1)
                 PROVE  \E i \in DOMAIN q' : b \in Bytes(q'[i])
      OBVIOUS
    <3>1. b \in Front .. (written - 1)
      BY <1>1, <2>5, QueueEntries
    <3>2. PICK i \in DOMAIN q : b \in Bytes(q[i])
      BY <3>1 DEF QueueInOrder
    <3>3. CASE i = 1
      BY <1>1, <2>1, <2>4, <2>5, <3>2, <3>3 DEF Bytes, f
    <3>4. CASE i # 1
      BY <2>4, <3>2, <3>4
    <3> QED
      BY <3>3, <3>4
  <2> QED
    BY <1>1, <2>5, <2>6, <2>7, <2>8, QueueEntries DEF QueueInOrder, Bytes
<1>3. CASE ~(f.hi - f.lo > len)
  <2>1. q' = Tail(q) /\ FrontPiece(len).lo = f.lo /\ FrontPiece(len).hi = f.hi
    BY <1>0, <1>3 DEF AfterFrontPiece, FrontPiece
  <2>2. /\ DOMAIN q' = 1 .. (Len(q) - 1)
        /\ \A i \in DOMAIN q' : i + 1 \in DOMAIN q /\ q'[i] = q[i + 1]
    BY <1>0, <2>1
  <2>3. \A i \in DOMAIN q : i # 1 => i - 1 \in DOMAIN q' /\ q'[i - 1] = q[i]
    BY <2>2, QueueEntries
  <2> HIDE DEF f
  <2>4. /\ f.hi <= Front'
        /\ \A i \in DOMAIN q : i # 1 => Front' <= q[i].lo
    <3>1. CASE q' = <<>>
      <4>1. Front' = written
        BY <3>1 DEF Front
      <4>2. \A i \in DOMAIN q : i = 1
        BY <2>3, <3>1
      <4> QED
        BY <1>1, <4>1, <4>2
    <3>2. CASE q' # <<>>
      <4>1. 2 \in DOMAIN q /\ Front' = q[2].lo
        <5>1. Len(q) > 1
          BY <2>1, <3>2, <1>0
        <5>2. 1 \in DOMAIN q'
          BY <2>2, <5>1, QueueEntries
        <5> QED
          BY <2>2, <3>2, <5>2 DEF Front
      <4>2. \A i \in DOMAIN q : i # 1 => i = 2 \/ 2 < i
        BY QueueEntries
      <4>3. \A i \in DOMAIN q : 2 < i => q[2].lo <= q[i].lo
        BY <4>1, QueueEntries DEF QueueInOrder
      <4> QED
        BY <1>1, <4>1, <4>2, <4>3, QueueEntries
    <3> QED
      BY <3>1, <3>2
  <2>5. Front' = f.hi
    <3>0. Front' \in Nat
      <4>1. (TypeOK => Front \in Nat)'
        BY QueueEntries, PTL
      <4> QED
        BY <4>1
    <3> SUFFICES ASSUME f.hi < Front' PROVE FALSE
      BY <1>1, <2>4, <3>0
    <3>1. Front' <= written
      <4>1. CASE q' = <<>>
        BY <4>1, QueueEntries DEF Front
      <4>2. CASE q' # <<>>
        <5>1. 1 \in DOMAIN q'
          BY <1>0, <2>1, <2>2, <4>2
        <5>2. Front' = q[2].lo /\ 2 \in DOMAIN q
          BY <2>2, <4>2, <5>1 DEF Front
        <5> QED
          BY <5>2, QueueEntries DEF QueueInOrder
      <4> QED
        BY <4>1, <4>2
    <3>2. f.hi \in Front .. (written - 1)
      BY <1>1, <3>0, <3>1, QueueEntries
    <3>3. PICK i \in DOMAIN q : f.hi \in Bytes(q[i])
      BY <3>2 DEF QueueInOrder
    <3>4. i # 1
      BY <1>1, <3>3 DEF Bytes, f
    <3> QED
      BY <1>1, <2>4, <3>0, <3>3, <3>4, QueueEntries DEF Bytes
  <2>6. \A i \in DOMAIN q' : q'[i].lo <= q'[i].hi /\ q'[i].hi <= written'
    BY <2>2 DEF QueueInOrder
  <2>7. \A i, j \in DOMAIN q' : i < j => q'[i].hi <= q'[j].lo
    BY <2>2 DEF QueueInOrder
  <2>8. \A b \in Front' .. (written' - 1) : \E i \in DOMAIN q' : b \in Bytes(q'[i])
    <3> SUFFICES ASSUME NEW b \in Front' .. (written' - 1)
                 PROVE  \E i \in DOMAIN q' : b \in Bytes(q'[i])
      OBVIOUS
    <3>1. b \in Front .. (written - 1)
      BY <1>1, <2>5, QueueEntries
    <3>2. PICK i \in DOMAIN q : b \in Bytes(q[i])
      BY <3>1 DEF QueueInOrder
    <3>3. i # 1
      BY <1>1, <2>5, <3>2 DEF Bytes, f
    <3> QED
      BY <2>3, <3>2, <3>3
  <2> QED
    BY <1>1, <2>1, <2>5, <2>6, <2>7, <2>8, QueueEntries DEF QueueInOrder, Bytes
<1> QED
  BY <1>2, <1>3

-----------------------------------------------------------------------------
(* The pieces of data that URBs have been given.                           *)

\* The pieces in what a thread has taken out, in a serve thread's hand, and on
\* a wire.
Pieces(s)    == {Piece(s[i].conn, s[i].seq, s[i].data) : i \in DOMAIN s}
DonePieces   == UNION {Pieces(done[t]) : t \in Threads}
HandPiece(c) == IF pc[c] = "reply" THEN {Piece(c, urb[c].seq, answer[c])} ELSE {}
HandPieces   == UNION {HandPiece(c) : c \in Conns}
OnWirePieces(c) == {Piece(c, wire[c][i].seq, wire[c][i]) : i \in AnswersOn(c)}
WirePieces   == UNION {OnWirePieces(c) : c \in Conns}

LEMMA GivenIs == Given = {g \in HandPieces \cup DonePieces \cup WirePieces : g.status = "ok"}
<1>1. HandPieces = {Piece(c, urb[c].seq, answer[c]) : c \in {d \in Conns : pc[d] = "reply"}}
  BY DEF HandPieces, HandPiece
<1>2. DonePieces = UNION {{Piece(d.conn, d.seq, d.data) : d \in {done[t][i] : i \in DOMAIN done[t]}}
                            : t \in Threads}
  <2>1. \A t \in Threads : Pieces(done[t]) =
            {Piece(d.conn, d.seq, d.data) : d \in {done[t][i] : i \in DOMAIN done[t]}}
    BY DEF Pieces
  <2> QED
    BY <2>1 DEF DonePieces
<1>3. WirePieces = UNION {{Piece(c, wire[c][i].seq, wire[c][i]) : i \in AnswersOn(c)} : c \in Conns}
  BY DEF WirePieces, OnWirePieces
<1> QED
  BY <1>1, <1>2, <1>3, Zenon DEF Given

LEMMA GivenInit == Init => Given = {}
<1> SUFFICES ASSUME Init PROVE Given = {}
  OBVIOUS
<1>1. HandPieces = {}
  BY DEF Init, HandPieces, HandPiece
<1>2. \A t \in Threads : Pieces(done[t]) = {}
  BY DEF Init, Pieces
<1>3. \A c \in Conns : OnWirePieces(c) = {}
  BY DEF Init, OnWirePieces, AnswersOn
<1> QED
  BY <1>1, <1>2, <1>3, GivenIs DEF DonePieces, WirePieces

\* A piece that a URB has been given is a piece of data of that URB.
LEMMA GivenType ==
    ASSUME TypeOK, LifeInv, NEW g \in Given
    PROVE  g.conn \in Conns /\ g.seq \in Nat /\ g.lo \in Nat /\ g.hi \in Nat
<1>1. g \in HandPieces \cup DonePieces \cup WirePieces
  BY GivenIs
<1>2. CASE g \in HandPieces
  <2>1. PICK c \in Conns : g = Piece(c, urb[c].seq, answer[c])
    BY <1>2 DEF HandPieces, HandPiece
  <2>2. urb[c] \in Urb /\ answer[c] \in Data
    BY DEF TypeOK
  <2> QED
    BY <2>1, <2>2 DEF Piece, Urb, Data
<1>3. CASE g \in DonePieces
  <2>1. PICK t \in Threads : g \in Pieces(done[t])
    BY <1>3 DEF DonePieces
  <2>2. PICK i \in DOMAIN done[t] : g = Piece(done[t][i].conn, done[t][i].seq, done[t][i].data)
    BY <2>1 DEF Pieces
  <2>3. done[t] \in Seq(Taken)
    BY DEF TypeOK
  <2>4. done[t][i] \in Taken
    BY <2>3
  <2> QED
    BY <2>2, <2>4 DEF Piece, Taken, Data
<1>4. CASE g \in WirePieces
  <2>1. PICK c \in Conns : g \in OnWirePieces(c)
    BY <1>4 DEF WirePieces
  <2>2. PICK i \in AnswersOn(c) : g = Piece(c, wire[c][i].seq, wire[c][i])
    BY <2>1 DEF OnWirePieces
  <2>3. wire[c] \in Seq(OnWire) /\ i \in DOMAIN wire[c]
    BY DEF TypeOK, AnswersOn
  <2>4. wire[c][i] \in OnWire
    BY <2>3
  <2> QED
    BY <2>2, <2>4 DEF Piece, OnWire
<1> QED
  BY <1>1, <1>2, <1>3, <1>4

\* A URB that has data and is not dropped keeps it.
LEMMA GivenNotDropped ==
    LifeInv => \A g \in Given :
        <<g.conn, g.seq>> \in Urbs => <<g.conn, g.seq>> \notin dropped
<1> SUFFICES ASSUME LifeInv, NEW g \in Given, <<g.conn, g.seq>> \in Urbs
             PROVE  <<g.conn, g.seq>> \notin dropped
  OBVIOUS
<1> DEFINE u == <<g.conn, g.seq>>
<1>1. g \in HandPieces \cup DonePieces \cup WirePieces
  BY GivenIs
<1>2. CASE g \in HandPieces
  <2>1. PICK c \in Conns : pc[c] = "reply" /\ g = Piece(c, urb[c].seq, answer[c])
    BY <1>2 DEF HandPieces, HandPiece
  <2>2. u = Id(urb[c])
    BY <2>1 DEF Piece, Id, LifeInv, OwnUrb
  <2> QED
    BY <2>1, <2>2 DEF InHandIds, InHand, LifeInv, SomewhereOnce
<1>3. CASE g \in DonePieces
  <2>1. PICK t \in Threads : g \in Pieces(done[t])
    BY <1>3 DEF DonePieces
  <2>2. PICK i \in DOMAIN done[t] : g = Piece(done[t][i].conn, done[t][i].seq, done[t][i].data)
    BY <2>1 DEF Pieces
  <2>3. u = Id(done[t][i])
    BY <2>2 DEF Piece, Id
  <2>4. u \in DoneIds
    BY <2>3 DEF DoneIds, Ids
  <2> QED
    BY <2>4 DEF LifeInv, SomewhereOnce
<1>4. CASE g \in WirePieces
  <2>1. PICK c \in Conns : g \in OnWirePieces(c)
    BY <1>4 DEF WirePieces
  <2>2. PICK i \in AnswersOn(c) : g = Piece(c, wire[c][i].seq, wire[c][i])
    BY <2>1 DEF OnWirePieces
  <2>3. u = <<c, wire[c][i].seq>>
    BY <2>2 DEF Piece
  <2>4. u \in AnsweredIds
    BY <2>2, <2>3 DEF AnsweredIds
  <2> QED
    BY <2>4 DEF LifeInv, SomewhereOnce
<1> QED
  BY <1>1, <1>2, <1>3, <1>4

\* Pieces stay where nothing changes.
LEMMA PiecesKept ==
    /\ UNCHANGED done => DonePieces' = DonePieces
    /\ UNCHANGED <<pc, urb, answer>> => HandPieces' = HandPieces
    /\ UNCHANGED wire => WirePieces' = WirePieces
<1>1. UNCHANGED done => DonePieces' = DonePieces
  BY DEF DonePieces, Pieces, Piece
<1>2. UNCHANGED <<pc, urb, answer>> => HandPieces' = HandPieces
  BY DEF HandPieces, HandPiece, Piece
<1>3. UNCHANGED wire => WirePieces' = WirePieces
  BY DEF WirePieces, OnWirePieces, AnswersOn, Piece
<1> QED
  BY <1>1, <1>2, <1>3

\* The pieces with data, when something comes or goes elsewhere.
LEMMA GivenMoves ==
    ASSUME NEW D, NEW H, NEW W,
           DonePieces' = D, HandPieces' = H, WirePieces' = W
    PROVE  Given' = {g \in H \cup D \cup W : g.status = "ok"}
<1>1. (Given = {g \in HandPieces \cup DonePieces \cup WirePieces : g.status = "ok"})'
  BY GivenIs, PTL
<1> QED
  BY <1>1

\* Only c's serve thread moves: the piece in its hand changes.
LEMMA HandPieceMoves ==
    ASSUME NEW c \in Conns,
           \A d \in Conns : d # c => pc'[d] = pc[d] /\ urb'[d] = urb[d] /\ answer'[d] = answer[d]
    PROVE  /\ HandPiece(c) = {} => HandPieces' = HandPieces \cup HandPiece(c)'
           /\ HandPiece(c)' = {} => HandPieces = HandPieces' \cup HandPiece(c)
<1>1. \A d \in Conns : d # c => HandPiece(d)' = HandPiece(d)
  BY DEF HandPiece, Piece
<1>2. HandPieces' = UNION {HandPiece(d)' : d \in Conns}
  BY DEF HandPieces
<1>3. \A x : x \in HandPieces <=> \E d \in Conns : x \in HandPiece(d)
  BY DEF HandPieces
<1>4. \A x : x \in HandPieces' <=> \E d \in Conns : x \in HandPiece(d)'
  BY <1>2
<1> QED
  BY <1>1, <1>3, <1>4

\* What a thread has taken out changes.
LEMMA DonePieceMoves ==
    ASSUME TypeOK, NEW t \in Threads, NEW s, NEW P, done' = [done EXCEPT ![t] = s]
    PROVE  /\ Pieces(s) = Pieces(done[t]) \cup P => DonePieces' = DonePieces \cup P
           /\ Pieces(done[t]) = Pieces(s) \cup P => DonePieces = DonePieces' \cup P
<1>1. done'[t] = s /\ \A v \in Threads : v # t => done'[v] = done[v]
  BY DEF TypeOK
<1>2. DonePieces' = UNION {Pieces(done'[v]) : v \in Threads}
  BY DEF DonePieces, Pieces, Piece
<1>3. \A x : x \in DonePieces <=> \E v \in Threads : x \in Pieces(done[v])
  BY DEF DonePieces
<1>4. \A x : x \in DonePieces' <=> \E v \in Threads : x \in Pieces(done'[v])
  BY <1>2
<1> QED
  BY <1>1, <1>3, <1>4

LEMMA PiecesAppend ==
    ASSUME NEW s \in Seq(Taken), NEW u \in Taken
    PROVE  Pieces(Append(s, u)) = Pieces(s) \cup {Piece(u.conn, u.seq, u.data)}
<1> DEFINE a == Append(s, u)
           k == Len(s) + 1
<1>1. /\ \A i \in DOMAIN s : i \in DOMAIN a /\ a[i] = s[i]
      /\ k \in DOMAIN a /\ a[k] = u
      /\ \A i \in DOMAIN a : i \in DOMAIN s \/ i = k
  OBVIOUS
<1> HIDE DEF a, k
<1>2. Pieces(a) = Pieces(s) \cup {Piece(u.conn, u.seq, u.data)}
  BY <1>1 DEF Pieces
<1> QED
  BY <1>2 DEF a

LEMMA PiecesTail ==
    ASSUME NEW s \in Seq(Taken), s # <<>>
    PROVE  Pieces(s) = Pieces(Tail(s)) \cup {Piece(Head(s).conn, Head(s).seq, Head(s).data)}
<1>1. /\ 1 \in DOMAIN s /\ s[1] = Head(s)
      /\ \A i \in DOMAIN Tail(s) : i + 1 \in DOMAIN s /\ Tail(s)[i] = s[i + 1]
      /\ \A i \in DOMAIN s : i = 1 \/ (i - 1 \in DOMAIN Tail(s) /\ Tail(s)[i - 1] = s[i])
  OBVIOUS
<1> DEFINE w == Tail(s)
           h == Head(s)
<1> HIDE DEF w, h
<1>2. Pieces(s) = Pieces(w) \cup {Piece(h.conn, h.seq, h.data)}
  <2>1. ASSUME NEW x \in Pieces(s) PROVE x \in Pieces(w) \cup {Piece(h.conn, h.seq, h.data)}
    <3>1. PICK i \in DOMAIN s : x = Piece(s[i].conn, s[i].seq, s[i].data)
      BY DEF Pieces
    <3> QED
      BY <1>1, <3>1 DEF Pieces, w, h
  <2>2. ASSUME NEW x \in Pieces(w) PROVE x \in Pieces(s)
    <3>1. PICK i \in DOMAIN w : x = Piece(w[i].conn, w[i].seq, w[i].data)
      BY DEF Pieces
    <3> QED
      BY <1>1, <3>1 DEF Pieces, w
  <2>3. Piece(h.conn, h.seq, h.data) \in Pieces(s)
    BY <1>1 DEF Pieces, h
  <2> QED
    BY <2>1, <2>2, <2>3
<1> QED
  BY <1>2 DEF w, h

-----------------------------------------------------------------------------
(* What a step does to the data.                                           *)

\* A URB that is stalled is given no bytes.
StallsEmpty ==
    /\ \A c \in Conns : answer[c].status = "stall" => answer[c] = NoData
    /\ \A t \in Threads : \A i \in DOMAIN done[t] :
          done[t][i].data.status = "stall" => done[t][i].data = NoData

\* The pieces stay; one goes to a host that is gone; the queue is flushed; a
\* blob is queued; a URB is given a piece.
KeepsData   == Given' = Given /\ UNCHANGED <<q, written, base, lost>>
LosesData(g) ==
    /\ Given = Given' \cup {g} /\ g \notin Given' /\ lost' = lost \cup Bytes(g)
    /\ UNCHANGED <<q, written, base>>
FlushesData == Given' = Given /\ q' = <<>> /\ base' = written /\ UNCHANGED <<written, lost>>
QueuesData(size) ==
    /\ Given' = Given /\ UNCHANGED <<base, lost>>
    /\ q' = Append(q, [lo |-> written, hi |-> written + size]) /\ written' = written + size
GivesData(c, n, len) ==
    /\ \/ TakeOrPark(c) /\ n = urb[c].seq
       \/ \E t \in Threads : Match(t) /\ c = Head(pending).conn /\ n = Head(pending).seq
    /\ q # <<>> /\ q' = AfterFrontPiece(len) /\ UNCHANGED <<written, base, lost>>
    /\ Given' = Given \cup {Piece(c, n, FrontPiece(len))}

DataStep ==
    \/ KeepsData \/ FlushesData
    \/ \E g \in Given : LosesData(g)
    \/ \E size \in Nat : QueuesData(size)
    \/ \E c \in Conns, n \in Nat, len \in Nat \ {0} : GivesData(c, n, len)

\* A completion puts its piece on the wire, or it is lost.
LEMMA SendPieces ==
    ASSUME TypeOK, NEW u, u.conn \in Conns, u.seq \in Nat, NEW a \in Data, Send(u, a)
    PROVE  \/ /\ WirePieces' = WirePieces \cup {Piece(u.conn, u.seq, a)}
              /\ lost' = lost
           \/ /\ WirePieces' = WirePieces
              /\ lost' = lost \cup Bytes(a) /\ Id(u) \in dropped'
<1>1. CASE ~alive[u.conn]
  BY <1>1, PiecesKept DEF Send
<1>2. CASE alive[u.conn]
  <2> DEFINE c == u.conn
             r == Reply(u, a)
             k == Len(wire[c]) + 1
             p == Piece(u.conn, u.seq, a)
  <2>1. /\ r \in OnWire /\ r.kind = "submit"
        /\ Piece(c, r.seq, r) = p
    BY DEF Reply, OnWire, Data, Piece
  <2>2. wire' = [wire EXCEPT ![c] = Append(wire[c], r)] /\ lost' = lost
    BY <1>2 DEF Send
  <2> HIDE DEF r, p
  <2>3. OnWireBehind(c, r)
    BY <2>1, <2>2, WireAppend
  <2>4. /\ \A d \in Conns : AnswersOn(d) \subseteq AnswersOn(d)'
        /\ \A d \in Conns : \A i \in AnswersOn(d) : wire'[d][i] = wire[d][i]
        /\ \A d \in Conns : \A i \in AnswersOn(d)' : i \in AnswersOn(d) \/ (d = c /\ i = k)
        /\ k \in AnswersOn(c)' /\ wire'[c][k] = r
    BY <2>1, <2>3 DEF OnWireBehind, AnswersOn
  <2> HIDE DEF k
  <2>5. /\ \A d \in Conns : d # c => OnWirePieces(d)' = OnWirePieces(d)
        /\ OnWirePieces(c)' = OnWirePieces(c) \cup {p}
    <3>1. \A d \in Conns : OnWirePieces(d)' = {Piece(d, wire'[d][i].seq, wire'[d][i]) : i \in AnswersOn(d)'}
      BY DEF OnWirePieces, Piece
    <3>2. \A d \in Conns : OnWirePieces(d) \subseteq OnWirePieces(d)'
      BY <2>4, <3>1 DEF OnWirePieces
    <3>3. p \in OnWirePieces(c)'
      BY <2>1, <2>4, <3>1
    <3>4. ASSUME NEW d \in Conns, NEW x \in OnWirePieces(d)'
          PROVE  x \in OnWirePieces(d) \/ (d = c /\ x = p)
      <4>1. PICK i \in AnswersOn(d)' : x = Piece(d, wire'[d][i].seq, wire'[d][i])
        BY <3>1
      <4>2. CASE i \in AnswersOn(d)
        BY <2>4, <4>1, <4>2 DEF OnWirePieces
      <4>3. CASE d = c /\ i = k
        BY <2>1, <2>4, <4>1, <4>3
      <4> QED
        BY <2>4, <4>2, <4>3
    <3> QED
      BY <3>2, <3>3, <3>4
  <2>6. WirePieces' = UNION {OnWirePieces(d)' : d \in Conns}
    BY DEF WirePieces
  <2>7. WirePieces' = WirePieces \cup {p}
    <3>1. \A x : x \in WirePieces' <=> \E d \in Conns : x \in OnWirePieces(d)'
      BY <2>6
    <3>2. \A x : x \in WirePieces <=> \E d \in Conns : x \in OnWirePieces(d)
      BY DEF WirePieces
    <3>3. \A x : x \in WirePieces' <=> x \in WirePieces \/ x = p
      BY <2>5, <3>1, <3>2
    <3> QED
      BY <3>3
  <2> QED
    BY <2>2, <2>7 DEF p
<1> QED
  BY <1>1, <1>2

\* A piece that leaves a hand, or what a thread has taken out, is on the wire
\* or lost.
LEMMA SentStep ==
    ASSUME TypeOK, TypeOK', LifeInv', NEW u, u.conn \in Conns, u.seq \in 1 .. MaxSeq,
           NEW a \in Data, Send(u, a), a.status = "stall" => a = NoData,
           HandPieces \cup DonePieces
               = HandPieces' \cup DonePieces' \cup {Piece(u.conn, u.seq, a)},
           UNCHANGED <<q, written, base>>
    PROVE  KeepsData \/ \E g \in Given : LosesData(g)
<1> DEFINE p == Piece(u.conn, u.seq, a)
           Ok(S) == {g \in S : g.status = "ok"}
<1>1. /\ Given = {g \in HandPieces \cup DonePieces \cup WirePieces : g.status = "ok"}
      /\ Given' = {g \in HandPieces' \cup DonePieces' \cup WirePieces' : g.status = "ok"}
  BY GivenIs, GivenMoves
<1>2. /\ p.status = a.status /\ p.conn = u.conn /\ p.seq = u.seq
      /\ Bytes(p) = Bytes(a)
  BY DEF Piece, Bytes
<1>3. \/ WirePieces' = WirePieces \cup {p} /\ lost' = lost
      \/ WirePieces' = WirePieces /\ lost' = lost \cup Bytes(a) /\ Id(u) \in dropped'
  BY SendPieces, BoundAssumption
<1> HIDE DEF p
<1>4. HandPieces \cup DonePieces = HandPieces' \cup DonePieces' \cup {p}
  BY DEF p
<1>5. CASE WirePieces' = WirePieces \cup {p} /\ lost' = lost
  <2>1. Given' = Given
    BY <1>1, <1>4, <1>5
  <2> QED
    BY <1>5, <2>1 DEF KeepsData
<1>6. CASE WirePieces' = WirePieces /\ lost' = lost \cup Bytes(a) /\ Id(u) \in dropped'
  <2>1. CASE a.status # "ok"
    <3>1. Given' = Given
      BY <1>1, <1>2, <1>4, <1>6, <2>1
    <3>2. a = NoData
      BY <2>1 DEF Data
    <3>3. Bytes(a) = {}
      BY <3>2 DEF NoData, Bytes
    <3> QED
      BY <1>6, <3>1, <3>3 DEF KeepsData
  <2>2. CASE a.status = "ok"
    <3>1. Given = Given' \cup {p}
      BY <1>1, <1>2, <1>4, <1>6, <2>2
    <3>2. p \notin Given'
      <4>1. (LifeInv => \A g \in Given :
                <<g.conn, g.seq>> \in Urbs => <<g.conn, g.seq>> \notin dropped)'
        BY GivenNotDropped, PTL
      <4>2. <<p.conn, p.seq>> = Id(u) /\ Id(u) \in Urbs
        BY <1>2 DEF Id, Urbs
      <4> QED
        BY <1>6, <4>1, <4>2 DEF Urbs
    <3> QED
      BY <1>2, <1>6, <3>1, <3>2 DEF LosesData
  <2> QED
    BY <2>1, <2>2
<1> QED
  BY <1>3, <1>5, <1>6

LEMMA DataOfServe ==
    ASSUME TypeOK, TypeOK', LifeInv, LifeInv', StallsEmpty,
           NEW c \in Conns, HostGone(c) \/ ServeStep(c)
    PROVE  DataStep
<1>g. /\ Given = {g \in HandPieces \cup DonePieces \cup WirePieces : g.status = "ok"}
      /\ Given' = {g \in HandPieces' \cup DonePieces' \cup WirePieces' : g.status = "ok"}
  BY GivenIs, GivenMoves
<1>k. UNCHANGED <<done, wire>> => DonePieces' = DonePieces /\ WirePieces' = WirePieces
  BY PiecesKept
<1>h. ASSUME \A d \in Conns : d # c => pc'[d] = pc[d] /\ urb'[d] = urb[d] /\ answer'[d] = answer[d],
             HandPiece(c) = {}, HandPiece(c)' = {}
      PROVE  HandPieces' = HandPieces
  BY <1>h, HandPieceMoves
<1>1. CASE HostGone(c) \/ ReadClearHalt(c)
  BY <1>1, <1>g, <1>k, PiecesKept DEF HostGone, ReadClearHalt, DataStep, KeepsData
<1>2. CASE Attach(c)
  <2>1. /\ pc[c] = "new" /\ pc'[c] = "read" /\ \A d \in Conns : d # c => pc'[d] = pc[d]
        /\ UNCHANGED <<urb, answer, done, wire, written, lost>> /\ q' = <<>> /\ base' = written
    BY <1>2 DEF Attach, Reset, TypeOK
  <2>2. HandPieces' = HandPieces
    BY <1>h, <2>1 DEF HandPiece
  <2> QED
    BY <1>g, <1>k, <2>1, <2>2 DEF DataStep, FlushesData
<1>3. ASSUME NEW len \in Lens, ReadSubmit(c, len) PROVE DataStep
  <2>1. /\ pc[c] = "read" /\ pc'[c] \in {"take", "reply"}
        /\ \A d \in Conns : d # c => pc'[d] = pc[d] /\ urb'[d] = urb[d] /\ answer'[d] = answer[d]
        /\ pc'[c] = "reply" => answer'[c] = NoData
        /\ UNCHANGED <<done, wire, q, written, base, lost>>
    BY <1>3 DEF ReadSubmit, Idle, TypeOK
  <2>2. HandPieces' = HandPieces \cup HandPiece(c)'
    BY <2>1, HandPieceMoves DEF HandPiece
  <2>3. \A g \in HandPiece(c)' : g.status = "stall"
    BY <2>1 DEF HandPiece, Piece, NoData
  <2>4. Given' = Given
    BY <1>g, <1>k, <2>1, <2>2, <2>3
  <2> QED
    BY <2>1, <2>4 DEF DataStep, KeepsData
<1>4. CASE TakeOrPark(c)
  <2>1. CASE q # <<>>
    <3> DEFINE len == urb[c].len
               p == Piece(c, urb[c].seq, FrontPiece(len))
    <3>1. /\ pc[c] = "take" /\ pc'[c] = "reply" /\ answer'[c] = FrontPiece(len)
          /\ \A d \in Conns : d # c => pc'[d] = pc[d] /\ urb'[d] = urb[d] /\ answer'[d] = answer[d]
          /\ UNCHANGED <<urb, done, wire, written, base, lost>> /\ q' = AfterFrontPiece(len)
      BY <1>4, <2>1 DEF TakeOrPark, TypeOK
    <3>2. urb[c] \in Urb
      BY DEF TypeOK
    <3>3. urb[c].seq \in Nat /\ len \in Nat \ {0}
      BY <3>2 DEF Urb
    <3> HIDE DEF len
    <3>4. HandPiece(c)' = {p}
      BY <3>1 DEF HandPiece, Piece
    <3>5. HandPieces' = HandPieces \cup {p}
      <4>1. HandPieces' = HandPieces \cup HandPiece(c)'
        BY <3>1, HandPieceMoves DEF HandPiece
      <4> QED
        BY <3>4, <4>1
    <3>6. p.status = "ok"
      BY DEF Piece, FrontPiece
    <3> HIDE DEF p
    <3>7. Given' = Given \cup {p}
      BY <1>g, <1>k, <3>1, <3>5, <3>6
    <3> QED
      BY <1>4, <2>1, <3>1, <3>3, <3>7 DEF DataStep, GivesData, p
  <2>2. CASE q = <<>>
    <3>1. /\ pc[c] = "take" /\ pc'[c] = "read"
          /\ \A d \in Conns : d # c => pc'[d] = pc[d] /\ urb'[d] = urb[d] /\ answer'[d] = answer[d]
          /\ UNCHANGED <<done, wire, q, written, base, lost>>
      BY <1>4, <2>2 DEF TakeOrPark, TypeOK
    <3>2. HandPieces' = HandPieces
      BY <1>h, <3>1 DEF HandPiece
    <3> QED
      BY <1>g, <1>k, <3>1, <3>2 DEF DataStep, KeepsData
  <2> QED
    BY <2>1, <2>2
<1>5. CASE Respond(c)
  <2> DEFINE p == Piece(c, urb[c].seq, answer[c])
  <2>1. /\ pc[c] = "reply" /\ pc'[c] = "read" /\ Send(urb[c], answer[c])
        /\ \A d \in Conns : d # c => pc'[d] = pc[d] /\ urb'[d] = urb[d] /\ answer'[d] = answer[d]
        /\ UNCHANGED <<done, q, written, base>>
    BY <1>5 DEF Respond, TypeOK
  <2>2. /\ HandPiece(c) = {p} /\ HandPiece(c)' = {}
    BY <2>1 DEF HandPiece, Piece
  <2> HIDE DEF p
  <2>3. HandPieces = HandPieces' \cup {p}
    BY <2>1, <2>2, HandPieceMoves
  <2>4. urb[c].conn = c /\ answer[c] \in Data
    BY DEF LifeInv, OwnUrb, TypeOK
  <2>5. Id(urb[c]) \in Urbs
    <3>1. Id(urb[c]) \in InHandIds
      BY <2>1 DEF InHandIds, InHand
    <3> QED
      BY <3>1 DEF LifeInv, SomewhereOnce, Submitted
  <2>6. urb[c].seq \in 1 .. MaxSeq
    BY <2>5 DEF Id, Urbs
  <2>7. answer[c].status = "stall" => answer[c] = NoData
    BY DEF StallsEmpty
  <2>8. HandPieces \cup DonePieces
            = HandPieces' \cup DonePieces' \cup {Piece(urb[c].conn, urb[c].seq, answer[c])}
    BY <2>1, <2>3, <2>4, PiecesKept DEF p
  <2>9. KeepsData \/ \E g \in Given : LosesData(g)
    BY <2>1, <2>4, <2>6, <2>7, <2>8, SentStep
  <2> QED
    BY <2>9 DEF DataStep
<1>6. ASSUME NEW n \in 1 .. MaxSeq, ReadUnlink(c, n) PROVE DataStep
  <2>1. /\ pc[c] = "read" /\ pc'[c] = "unlink"
        /\ \A d \in Conns : d # c => pc'[d] = pc[d] /\ urb'[d] = urb[d] /\ answer'[d] = answer[d]
        /\ UNCHANGED <<done, wire, q, written, base, lost>>
    BY <1>6 DEF ReadUnlink, Idle, TypeOK
  <2>2. HandPieces' = HandPieces
    BY <1>h, <2>1 DEF HandPiece
  <2> QED
    BY <1>g, <1>k, <2>1, <2>2 DEF DataStep, KeepsData
<1>7. CASE RespondUnlink(c)
  <2>1. /\ pc[c] = "unlink" /\ pc'[c] = "read"
        /\ \A d \in Conns : d # c => pc'[d] = pc[d] /\ urb'[d] = urb[d] /\ answer'[d] = answer[d]
        /\ UNCHANGED <<done, q, written, base, lost>>
    BY <1>7 DEF RespondUnlink, TypeOK
  <2>2. HandPieces' = HandPieces
    BY <1>h, <2>1 DEF HandPiece
  <2>3. WirePieces' = WirePieces
    <3>1. CASE ~alive[c]
      BY <1>7, <3>1, PiecesKept DEF RespondUnlink
    <3>2. CASE alive[c]
      <4> DEFINE r == UnlinkReply(urb[c].seq)
      <4>1. r \in OnWire /\ r.kind = "unlink"
        BY DEF TypeOK, Urb, UnlinkReply, OnWire
      <4>2. wire' = [wire EXCEPT ![c] = Append(wire[c], r)]
        BY <1>7, <3>2 DEF RespondUnlink
      <4>3. OnWireBehind(c, r)
        BY <4>1, <4>2, WireAppend
      <4>4. \A d \in Conns : AnswersOn(d)' = AnswersOn(d)
        BY <4>1, <4>3 DEF OnWireBehind, AnswersOn
      <4>5. \A d \in Conns : \A i \in AnswersOn(d) : wire'[d][i] = wire[d][i]
        BY <4>3 DEF OnWireBehind, AnswersOn
      <4>6. \A d \in Conns : OnWirePieces(d)' = OnWirePieces(d)
        BY <4>4, <4>5 DEF OnWirePieces, Piece
      <4>7. WirePieces' = UNION {OnWirePieces(d)' : d \in Conns}
        BY DEF WirePieces
      <4> QED
        BY <4>6, <4>7 DEF WirePieces
    <3> QED
      BY <3>1, <3>2
  <2>4. Given' = Given
    BY <1>g, <2>1, <2>2, <2>3, PiecesKept
  <2> QED
    BY <2>1, <2>4 DEF DataStep, KeepsData
<1>8. CASE ReadSetConfiguration(c)
  <2>1. /\ UNCHANGED <<pc, urb, answer, done, wire, written, lost>> /\ q' = <<>> /\ base' = written
    BY <1>8 DEF ReadSetConfiguration, Reset
  <2> QED
    BY <1>g, <1>k, <2>1, PiecesKept DEF DataStep, FlushesData
<1>9. CASE Close(c)
  <2>1. /\ pc[c] = "read" /\ pc'[c] = "closed"
        /\ \A d \in Conns : d # c => pc'[d] = pc[d] /\ urb'[d] = urb[d] /\ answer'[d] = answer[d]
        /\ UNCHANGED <<done, wire, q, written, base, lost>>
    BY <1>9 DEF Close, Idle, TypeOK
  <2>2. HandPieces' = HandPieces
    BY <1>h, <2>1 DEF HandPiece
  <2> QED
    BY <1>g, <1>k, <2>1, <2>2 DEF DataStep, KeepsData
<1> QED
  BY <1>1, <1>2, <1>3, <1>4, <1>5, <1>6, <1>7, <1>8, <1>9 DEF ServeStep

LEMMA DataOfDevice ==
    ASSUME TypeOK, TypeOK', LifeInv, LifeInv', StallsEmpty, NEW t \in Threads, DeviceStep(t)
    PROVE  DataStep
<1>g. /\ Given = {g \in HandPieces \cup DonePieces \cup WirePieces : g.status = "ok"}
      /\ Given' = {g \in HandPieces' \cup DonePieces' \cup WirePieces' : g.status = "ok"}
  BY GivenIs, GivenMoves
<1>d. done[t] \in Seq(Taken)
  BY DEF TypeOK
<1>1. ASSUME NEW size \in Sizes, Write(t, size) PROVE DataStep
  <2>1. QueuesData(size)
    BY <1>1, <1>g, PiecesKept DEF Write, QueuesData
  <2> QED
    BY <2>1, LengthAssumption DEF DataStep
<1>2. CASE Match(t)
  <2> DEFINE u == Head(pending)
             m == [conn |-> u.conn, seq |-> u.seq, data |-> FrontPiece(u.len)]
             p == Piece(u.conn, u.seq, FrontPiece(u.len))
             s == Append(done[t], m)
  <2>1. /\ pending # <<>> /\ q # <<>> /\ q' = AfterFrontPiece(u.len)
        /\ done' = [done EXCEPT ![t] = s]
        /\ UNCHANGED <<pc, urb, answer, wire, written, base, lost>>
    BY <1>2 DEF Match
  <2>2. u \in Urb
    BY <2>1 DEF TypeOK
  <2> HIDE DEF u
  <2>3. u.conn \in Conns /\ u.seq \in Nat /\ u.len \in Nat \ {0}
    BY <2>2 DEF Urb
  <2>4. FrontPiece(u.len) \in Data
    BY <2>1, <2>3, FrontPieceType DEF TypeOK
  <2>5. m \in Taken
    BY <2>3, <2>4 DEF Taken
  <2>6. p = Piece(m.conn, m.seq, m.data) /\ p.status = "ok"
    BY DEF Piece, FrontPiece
  <2> HIDE DEF m, p
  <2>7. Pieces(s) = Pieces(done[t]) \cup {p}
    BY <1>d, <2>5, <2>6, PiecesAppend
  <2> HIDE DEF s
  <2>8. DonePieces' = DonePieces \cup {p}
    BY <2>1, <2>7, DonePieceMoves, ZenonT(40)
  <2>9. Given' = Given \cup {p}
    BY <1>g, <2>1, <2>6, <2>8, PiecesKept
  <2>10. GivesData(u.conn, u.seq, u.len)
    BY <1>2, <2>1, <2>9 DEF GivesData, p, u
  <2> QED
    BY <2>3, <2>10 DEF DataStep
<1>3. CASE Unlock(t)
  BY <1>3, <1>g, PiecesKept DEF Unlock, DataStep, KeepsData
<1>4. CASE Complete(t)
  <2> DEFINE m == Head(done[t])
             p == Piece(m.conn, m.seq, m.data)
             s == Tail(done[t])
  <2>1. /\ done[t] # <<>> /\ Send(m, m.data) /\ done' = [done EXCEPT ![t] = s]
        /\ UNCHANGED <<pc, urb, answer, q, written, base>>
    BY <1>4 DEF Complete
  <2>2. Pieces(done[t]) = Pieces(s) \cup {p}
    BY <1>d, <2>1, PiecesTail
  <2>3. m \in Taken /\ 1 \in DOMAIN done[t] /\ done[t][1] = m
    BY <1>d, <2>1
  <2> HIDE DEF m, s, p
  <2>4. HandPieces \cup DonePieces = HandPieces' \cup DonePieces' \cup {p}
    <3> DEFINE P == {p}
    <3> HIDE DEF P
    <3>1. Pieces(done[t]) = Pieces(s) \cup P
      BY <2>2 DEF P
    <3>2. DonePieces = DonePieces' \cup P
      BY <2>1, <3>1, DonePieceMoves, ZenonT(40)
    <3> QED
      BY <2>1, <3>2, PiecesKept DEF P
  <2>5. Id(m) \in Urbs
    <3>1. Id(m) \in DoneIds
      BY <2>3 DEF DoneIds, Ids
    <3> QED
      BY <3>1 DEF LifeInv, SomewhereOnce, Submitted
  <2>6. m.conn \in Conns /\ m.seq \in 1 .. MaxSeq /\ m.data \in Data
    BY <2>3, <2>5 DEF Taken, Id, Urbs
  <2>7. m.data.status = "stall" => m.data = NoData
    BY <2>3 DEF StallsEmpty
  <2>8. KeepsData \/ \E g \in Given : LosesData(g)
    BY <2>1, <2>4, <2>6, <2>7, SentStep DEF p
  <2> QED
    BY <2>8 DEF DataStep
<1>5. CASE Stall(t)
  <2> DEFINE s == Stalls(pending)
  <2>1. /\ done[t] = <<>> /\ done' = [done EXCEPT ![t] = s]
        /\ UNCHANGED <<pc, urb, answer, wire, q, written, base, lost>>
    BY <1>5 DEF Stall, RunsDeviceCode
  <2>2. \A g \in Pieces(s) : g.status = "stall"
    <3>1. \A i \in DOMAIN s : s[i].data = NoData
      BY DEF Stalls
    <3> HIDE DEF s
    <3> QED
      BY <3>1 DEF Pieces, Piece, NoData
  <2>3. Pieces(s) = Pieces(done[t]) \cup Pieces(s)
    BY <2>1 DEF Pieces
  <2> HIDE DEF s
  <2>4. DonePieces' = DonePieces \cup Pieces(s)
    BY <2>1, <2>3, DonePieceMoves
  <2>5. Given' = Given
    BY <1>g, <2>1, <2>2, <2>4, PiecesKept
  <2> QED
    BY <2>1, <2>5 DEF DataStep, KeepsData
<1> QED
  BY <1>1, <1>2, <1>3, <1>4, <1>5 DEF DeviceStep

LEMMA DataMoves ==
    ASSUME TypeOK, TypeOK', LifeInv, LifeInv', StallsEmpty, [Next]_vars
    PROVE  DataStep
<1>1. CASE UNCHANGED vars
  <2>1. UNCHANGED <<q, pc, urb, answer, done, wire, written, base, lost>>
    BY <1>1 DEF vars
  <2>2. Given' = {g \in HandPieces' \cup DonePieces' \cup WirePieces' : g.status = "ok"}
    BY GivenMoves
  <2> QED
    BY <2>1, <2>2, GivenIs, PiecesKept DEF DataStep, KeepsData
<1> QED
  BY <1>1, DataOfServe, DataOfDevice DEF Next

\* A stall has no data, and what is given from the queue is no stall.
LEMMA StallsMove ==
    ASSUME TypeOK, StallsEmpty, [Next]_vars PROVE StallsEmpty'
<1> DEFINE DoneEmpty(s) == \A i \in DOMAIN s : s[i].data.status = "stall" => s[i].data = NoData
<1>1. ASSUME UNCHANGED <<answer, done>> PROVE StallsEmpty'
  BY <1>1 DEF StallsEmpty, NoData
<1>2. ASSUME NEW c \in Conns, UNCHANGED done, \A d \in Conns : d # c => answer'[d] = answer[d],
             answer'[c].status = "ok" \/ answer'[c] = NoData \/ answer'[c] = answer[c]
      PROVE  StallsEmpty'
  BY <1>2 DEF StallsEmpty, NoData
<1>3. ASSUME NEW t \in Threads, UNCHANGED answer, NEW s, done' = [done EXCEPT ![t] = s], DoneEmpty(s)
      PROVE  StallsEmpty'
  <2>1. done'[t] = s /\ \A v \in Threads : v # t => done'[v] = done[v]
    BY <1>3 DEF TypeOK
  <2> QED
    BY <1>3, <2>1 DEF StallsEmpty, NoData
<1>4. \A t \in Threads : done[t] \in Seq(Taken) /\ DoneEmpty(done[t])
  BY DEF StallsEmpty, TypeOK
<1>5. ASSUME NEW c \in Conns, NEW len \in Lens, ReadSubmit(c, len) PROVE StallsEmpty'
  BY <1>2, <1>5 DEF ReadSubmit, TypeOK
<1>6. ASSUME NEW c \in Conns, TakeOrPark(c) PROVE StallsEmpty'
  <2>1. \A d \in Conns : d # c => answer'[d] = answer[d]
    BY <1>6 DEF TakeOrPark, TypeOK
  <2>2. answer'[c].status = "ok" \/ answer'[c] = answer[c]
    BY <1>6 DEF TakeOrPark, FrontPiece, TypeOK
  <2> QED
    BY <1>2, <1>6, <2>1, <2>2 DEF TakeOrPark
<1>7. ASSUME NEW t \in Threads, Match(t) PROVE StallsEmpty'
  <2> DEFINE u == Head(pending)
             m == [conn |-> u.conn, seq |-> u.seq, data |-> FrontPiece(u.len)]
             s == Append(done[t], m)
  <2>1. UNCHANGED answer /\ done' = [done EXCEPT ![t] = s]
    BY <1>7 DEF Match
  <2>2. m.data.status = "ok"
    BY DEF FrontPiece
  <2> HIDE DEF m
  <2>3. DoneEmpty(s)
    <3>1. \A i \in DOMAIN s : (i \in DOMAIN done[t] /\ s[i] = done[t][i]) \/ s[i] = m
      BY <1>4
    <3> HIDE DEF s
    <3> QED
      BY <1>4, <2>2, <3>1
  <2> HIDE DEF s
  <2> QED
    BY <1>3, <2>1, <2>3
<1>8. ASSUME NEW t \in Threads, Complete(t) PROVE StallsEmpty'
  <2> DEFINE s == Tail(done[t])
  <2>1. UNCHANGED answer /\ done[t] # <<>> /\ done' = [done EXCEPT ![t] = s]
    BY <1>8 DEF Complete
  <2>2. DoneEmpty(s)
    <3>1. \A i \in DOMAIN s : i + 1 \in DOMAIN done[t] /\ s[i] = done[t][i + 1]
      BY <1>4, <2>1
    <3> HIDE DEF s
    <3> QED
      BY <1>4, <3>1
  <2> HIDE DEF s
  <2> QED
    BY <1>3, <2>1, <2>2
<1>9. ASSUME NEW t \in Threads, Stall(t) PROVE StallsEmpty'
  <2>1. UNCHANGED answer /\ done' = [done EXCEPT ![t] = Stalls(pending)]
    BY <1>9 DEF Stall
  <2>2. DoneEmpty(Stalls(pending))
    BY DEF Stalls
  <2> QED
    BY <1>3, <2>1, <2>2
<1>10. ASSUME NEW c \in Conns,
              \/ HostGone(c) \/ Attach(c) \/ Respond(c) \/ RespondUnlink(c) \/ ReadClearHalt(c)
              \/ ReadSetConfiguration(c) \/ Close(c) \/ \E n \in 1 .. MaxSeq : ReadUnlink(c, n)
       PROVE  StallsEmpty'
  BY <1>1, <1>10 DEF HostGone, Attach, Respond, RespondUnlink, ReadClearHalt,
                     ReadSetConfiguration, Close, ReadUnlink
<1>11. ASSUME NEW t \in Threads, Unlock(t) \/ \E size \in Sizes : Write(t, size)
       PROVE  StallsEmpty'
  BY <1>1, <1>11 DEF Unlock, Write
<1>12. CASE UNCHANGED vars
  BY <1>1, <1>12 DEF vars
<1> QED
  BY <1>5, <1>6, <1>7, <1>8, <1>9, <1>10, <1>11, <1>12 DEF Next, ServeStep, DeviceStep

-----------------------------------------------------------------------------
(* Every byte is in one place.                                             *)

\* What was given comes before the front of the queue, and so does what is lost;
\* since the last reset every byte before the front is in one of them, in one
\* piece.
Accounted ==
    /\ base <= written
    /\ \A g \in Given : g.lo <= g.hi /\ g.hi <= Front
    /\ \A b \in lost : b < Front
    /\ \A b \in base .. (Front - 1) : b \in lost \/ \E g \in Given : b \in Bytes(g)
    /\ \A g \in Given : \A b \in Bytes(g) : b \notin lost
    /\ \A g, h \in Given : \A b \in Bytes(g) : b \in Bytes(h) => g = h

LEMMA FrontMoves ==
    ASSUME TypeOK, TypeOK', QueueInOrder, DataStep
    PROVE  QueueInOrder' /\ Front <= Front' /\ Front \in Nat /\ Front' \in Nat
<1>f. (TypeOK => Front \in Nat)'
  BY QueueEntries, PTL
<1>0. Front \in Nat /\ Front' \in Nat
  BY <1>f, QueueEntries
<1>1. CASE \/ KeepsData \/ \E g \in Given : LosesData(g)
  BY <1>0, <1>1 DEF KeepsData, LosesData, QueueInOrder, Front, Bytes
<1>2. CASE FlushesData
  <2>1. q' = <<>> /\ written' = written /\ written \in Nat
    BY <1>2 DEF FlushesData, TypeOK
  <2>2. Front' = written /\ DOMAIN q' = {}
    BY <2>1 DEF Front
  <2> QED
    BY <1>0, <2>1, <2>2, FrontIsLeast DEF QueueInOrder
<1>3. ASSUME NEW size \in Nat, QueuesData(size) PROVE QueueInOrder' /\ Front <= Front'
  BY <1>0, <1>3, QueueWrite DEF QueuesData
<1>4. ASSUME NEW c \in Conns, NEW n \in Nat, NEW len \in Nat \ {0}, GivesData(c, n, len)
      PROVE  QueueInOrder' /\ Front <= Front'
  BY <1>0, <1>4, QueueTake DEF GivesData
<1> QED
  BY <1>0, <1>1, <1>2, <1>3, <1>4 DEF DataStep

LEMMA AccountsMove ==
    ASSUME TypeOK, TypeOK', LifeInv, QueueInOrder, Accounted, DataStep
    PROVE  Accounted'
<1>0. QueueInOrder' /\ Front <= Front' /\ Front \in Nat /\ Front' \in Nat /\ Front <= written
  BY FrontMoves, FrontIsLeast
<1>t. /\ \A g \in Given : g.lo \in Nat /\ g.hi \in Nat
      /\ lost \subseteq Nat /\ base \in Nat /\ written \in Nat
  BY GivenType DEF TypeOK
<1>1. CASE KeepsData
  BY <1>1 DEF KeepsData, Accounted, Front, Bytes
<1>2. ASSUME NEW g \in Given, LosesData(g) PROVE Accounted'
  <2>1. /\ Front' = Front /\ base' = base /\ written' = written
        /\ Given' \subseteq Given /\ \A h \in Given : h \in Given' \/ h = g
        /\ \A b : b \in lost' <=> b \in lost \/ b \in Bytes(g)
        /\ g \notin Given'
    BY <1>2 DEF LosesData, Front
  <2>2. \A b \in Bytes(g) : b < Front
    BY <1>0, <1>t DEF Accounted, Bytes
  <2>3. \A b \in base' .. (Front' - 1) : b \in lost' \/ \E h \in Given' : b \in Bytes(h)
    BY <2>1 DEF Accounted
  <2>4. \A h \in Given' : \A b \in Bytes(h) : b \notin lost'
    BY <2>1 DEF Accounted
  <2>5. \A h, k \in Given' : \A b \in Bytes(h) : b \in Bytes(k) => h = k
    BY <2>1 DEF Accounted
  <2>6. /\ base' <= written' /\ \A h \in Given' : h.lo <= h.hi /\ h.hi <= Front'
        /\ \A b \in lost' : b < Front'
    BY <2>1, <2>2 DEF Accounted
  <2> QED
    BY <2>3, <2>4, <2>5, <2>6 DEF Accounted, Bytes
<1>3. CASE FlushesData
  <2>1. Given' = Given /\ base' = written /\ written' = written /\ lost' = lost /\ Front' = written
    BY <1>3 DEF FlushesData, Front
  <2>2. base' .. (Front' - 1) = {}
    BY <1>t, <2>1
  <2>3. /\ base' <= written' /\ \A h \in Given' : h.lo <= h.hi /\ h.hi <= Front'
        /\ \A b \in lost' : b < Front'
    <3>1. \A h \in Given : h.hi <= written
      BY <1>0, <1>t DEF Accounted
    <3>2. \A b \in lost : b < written
      BY <1>0, <1>t DEF Accounted
    <3> QED
      BY <1>t, <2>1, <3>1, <3>2 DEF Accounted
  <2> QED
    BY <2>1, <2>2, <2>3 DEF Accounted, Bytes
<1>4. ASSUME NEW size \in Nat, QueuesData(size) PROVE Accounted'
  <2>1. Front' = Front
    BY <1>4, QueueWrite DEF QueuesData
  <2>2. Given' = Given /\ base' = base /\ lost' = lost /\ written' = written + size
    BY <1>4 DEF QueuesData
  <2>3. base' <= written'
    BY <1>t, <2>2 DEF Accounted
  <2> QED
    BY <2>1, <2>2, <2>3 DEF Accounted, Bytes
<1>5. ASSUME NEW c \in Conns, NEW n \in Nat, NEW len \in Nat \ {0}, GivesData(c, n, len)
      PROVE  Accounted'
  <2> DEFINE p == Piece(c, n, FrontPiece(len))
  <2>1. p.lo = Front /\ p.hi = Front'
    BY <1>5, QueueTake DEF GivesData, Piece
  <2>2. Given' = Given \cup {p} /\ base' = base /\ lost' = lost /\ written' = written
    BY <1>5 DEF GivesData
  <2> HIDE DEF p
  <2>3. \A b : b \in Bytes(p) <=> b \in Front .. (Front' - 1)
    BY <2>1 DEF Bytes
  <2>4. \A g \in Given : \A b \in Bytes(g) : b \in Nat /\ b < Front
    BY <1>0, <1>t DEF Accounted, Bytes
  <2>5. /\ base' <= written'
        /\ \A g \in Given' : g.lo <= g.hi /\ g.hi <= Front'
        /\ \A b \in lost' : b < Front'
    <3>1. \A g \in Given : g.hi <= Front'
      BY <1>0, <1>t DEF Accounted
    <3>2. \A b \in lost : b < Front'
      BY <1>0, <1>t DEF Accounted
    <3> QED
      BY <1>0, <2>1, <2>2, <3>1, <3>2 DEF Accounted
  <2>6. \A b \in base' .. (Front' - 1) : b \in lost' \/ \E g \in Given' : b \in Bytes(g)
    <3> SUFFICES ASSUME NEW b \in base' .. (Front' - 1)
                 PROVE  b \in lost' \/ \E g \in Given' : b \in Bytes(g)
      OBVIOUS
    <3>1. CASE b < Front
      <4>1. b \in base .. (Front - 1)
        BY <1>0, <1>t, <2>2, <3>1
      <4> QED
        BY <2>2, <4>1 DEF Accounted
    <3>2. CASE ~(b < Front)
      <4>0. \A e, f, h \in Nat : \A x \in e .. (h - 1) : ~(x < f) => x \in f .. (h - 1)
        OBVIOUS
      <4>1. b \in Front .. (Front' - 1)
        <5>1. base' \in Nat /\ Front \in Nat /\ Front' \in Nat
          BY <1>0, <1>t, <2>2
        <5> QED
          BY <3>2, <4>0, <5>1, Zenon
      <4>2. b \in Bytes(p)
        BY <2>3, <4>1
      <4> QED
        BY <2>2, <4>2
    <3> QED
      BY <3>1, <3>2
  <2>7. \A g \in Given' : \A b \in Bytes(g) : b \notin lost'
    <3>1. \A b \in Bytes(p) : b \notin lost
      BY <1>0, <1>t, <2>3 DEF Accounted
    <3> QED
      BY <2>2, <3>1 DEF Accounted
  <2>8. \A g, h \in Given' : \A b \in Bytes(g) : b \in Bytes(h) => g = h
    <3>1. \A g \in Given : \A b \in Bytes(g) : b \notin Bytes(p)
      BY <1>0, <2>3, <2>4
    <3> QED
      BY <2>2, <3>1 DEF Accounted
  <2> QED
    BY <2>5, <2>6, <2>7, <2>8 DEF Accounted, Bytes
<1> QED
  BY <1>1, <1>2, <1>3, <1>4, <1>5 DEF DataStep

DataInv == StallsEmpty /\ QueueInOrder /\ Accounted

LEMMA DataInit == Init => DataInv
<1> SUFFICES ASSUME Init PROVE DataInv
  OBVIOUS
<1>1. StallsEmpty
  BY DEF Init, StallsEmpty
<1>2. q = <<>> /\ written = 0 /\ Front = 0 /\ base = 0 /\ lost = {}
  BY DEF Init, Front
<1>3. QueueInOrder
  BY <1>2 DEF QueueInOrder
<1>4. Given = {}
  BY GivenInit
<1>5. Accounted
  BY <1>2, <1>4 DEF Accounted
<1> QED
  BY <1>1, <1>3, <1>5 DEF DataInv

LEMMA DataInvariant == Spec => [](TypeOK /\ LifeInv /\ DataInv)
<1>1. TypeOK /\ TypeOK' /\ LifeInv /\ LifeInv' /\ DataInv /\ [Next]_vars => DataInv'
  <2> SUFFICES ASSUME TypeOK, TypeOK', LifeInv, LifeInv', DataInv, [Next]_vars
               PROVE  DataInv'
    OBVIOUS
  <2>1. StallsEmpty /\ QueueInOrder /\ Accounted
    BY DEF DataInv
  <2>2. DataStep
    BY <2>1, DataMoves
  <2>3. StallsEmpty' /\ QueueInOrder' /\ Accounted'
    BY <2>1, <2>2, StallsMove, FrontMoves, AccountsMove
  <2> QED
    BY <2>3 DEF DataInv
<1> QED
  BY <1>1, DataInit, LifeInvariant, TypeCorrect, PTL DEF Spec

\* Every byte written since the last reset is queued, given to one URB, or gone
\* with a host that had left, and in one of these once: write, take_or_park,
\* resets, halts, unlinks and dead hosts lose nothing else and give nothing twice.
THEOREM BytesKept == Spec => []BytesConserved
<1>1. TypeOK /\ LifeInv /\ DataInv => BytesConserved
  <2> SUFFICES ASSUME TypeOK, LifeInv, DataInv, NEW b \in base .. (written - 1)
               PROVE  Cardinality(ByteSlots(b)) = 1
    BY DEF BytesConserved
  <2> DEFINE queued == {<<"queued", i>> : i \in {j \in DOMAIN q : b \in Bytes(q[j])}}
             given == {<<"given", g.conn, g.seq>> : g \in {h \in Given : b \in Bytes(h)}}
             gone == IF b \in lost THEN {<<"lost">>} ELSE {}
  <2>1. ByteSlots(b) = queued \cup given \cup gone
    BY Zenon DEF ByteSlots
  <2>2. /\ Front \in Nat /\ b \in Nat /\ base \in Nat /\ written \in Nat
        /\ QueueInOrder /\ Accounted
    BY QueueEntries DEF DataInv, TypeOK
  <2>3. CASE b < Front
    <3>1. queued = {}
      <4>1. \A j \in DOMAIN q : b \notin Bytes(q[j])
        BY <2>2, <2>3, FrontIsLeast, QueueEntries DEF Bytes
      <4> QED
        BY <4>1
    <3>2. b \in base .. (Front - 1)
      BY <2>2, <2>3
    <3>3. CASE b \in lost
      <4>1. given = {}
        BY <2>2, <3>3 DEF Accounted
      <4>2. ByteSlots(b) = {<<"lost">>}
        BY <2>1, <3>1, <3>3, <4>1
      <4> QED
        BY <4>2, FS_Singleton
    <3>4. CASE b \notin lost
      <4>1. PICK g \in Given : b \in Bytes(g)
        BY <2>2, <3>2, <3>4 DEF Accounted
      <4>2. {h \in Given : b \in Bytes(h)} = {g}
        BY <2>2, <4>1 DEF Accounted
      <4>3. given = {<<"given", g.conn, g.seq>>}
        BY <4>2
      <4>4. ByteSlots(b) = {<<"given", g.conn, g.seq>>}
        BY <2>1, <3>1, <3>4, <4>3
      <4> QED
        BY <4>4, FS_Singleton
    <3> QED
      BY <3>3, <3>4
  <2>4. CASE ~(b < Front)
    <3>1. given = {}
      <4>1. \A g \in Given : g.lo \in Nat /\ g.hi \in Nat /\ g.hi <= Front
        BY <2>2, GivenType DEF Accounted
      <4>2. \A g \in Given : b \notin Bytes(g)
        BY <2>2, <2>4, <4>1 DEF Bytes
      <4> QED
        BY <4>2
    <3>2. gone = {}
      BY <2>2, <2>4 DEF Accounted
    <3>3. b \in Front .. (written - 1)
      BY <2>2, <2>4
    <3>4. PICK i \in DOMAIN q : b \in Bytes(q[i])
      BY <2>2, <3>3 DEF QueueInOrder
    <3>5. \A j \in DOMAIN q : b \in Bytes(q[j]) => j = i
      <4> SUFFICES ASSUME NEW j \in DOMAIN q, b \in Bytes(q[j]), j # i PROVE FALSE
        OBVIOUS
      <4>1. i < j \/ j < i
        BY QueueEntries
      <4>2. q[i].hi <= q[j].lo \/ q[j].hi <= q[i].lo
        BY <2>2, <4>1 DEF QueueInOrder
      <4> QED
        BY <3>4, <4>2, QueueEntries, SMTT(20) DEF Bytes
    <3>6. {j \in DOMAIN q : b \in Bytes(q[j])} = {i}
      BY <3>4, <3>5
    <3>7. queued = {<<"queued", i>>}
      BY <3>6
    <3>8. ByteSlots(b) = {<<"queued", i>>}
      BY <2>1, <3>1, <3>2, <3>7
    <3> QED
      BY <3>8, FS_Singleton
  <2> QED
    BY <2>3, <2>4
<1> QED
  BY <1>1, DataInvariant, PTL

-----------------------------------------------------------------------------
(* Data goes to URBs in their order, and to hosts that were there.         *)

\* The parked URBs of a connection stand in their order, before the one that
\* its serve thread is about to take data for or to park.
ParkedInOrder ==
    /\ \A i, j \in DOMAIN pending :
          i < j /\ pending[i].conn = pending[j].conn => pending[i].seq < pending[j].seq
    /\ \A i \in DOMAIN pending :
          pc[pending[i].conn] = "take" => pending[i].seq < urb[pending[i].conn].seq

\* URBs that have data come before those that wait for some.
GivenFirst ==
    \A g \in Given :
        /\ g.seq \in 1 .. (nextSeq[g.conn] - 1)
        /\ \A i \in DOMAIN pending : pending[i].conn = g.conn => g.seq < pending[i].seq
        /\ pc[g.conn] = "take" => g.seq < urb[g.conn].seq

\* Data that a connection is or will be given was written after its host attached.
StartsBelow ==
    /\ \A c \in Conns : start[c] <= Front /\ (pc[c] = "new" => nextSeq[c] = 1)
    /\ \A g \in Given : start[g.conn] <= g.lo

OrderInv == ParkedInOrder /\ GivenFirst /\ StartsBelow /\ DataInUrbOrder

\* The identity of a submitted URB is below the next number.
LEMMA SubmittedBelow ==
    ASSUME TypeOK, NEW u, Id(u) \in Submitted
    PROVE  u.conn \in Conns /\ u.seq \in 1 .. (nextSeq[u.conn] - 1)
<1>1. u.conn \in Conns /\ u.seq \in 1 .. MaxSeq /\ u.seq < nextSeq[u.conn]
  BY DEF Submitted, Urbs, Id
<1>2. nextSeq[u.conn] \in Nat
  BY <1>1 DEF TypeOK
<1> QED
  BY <1>1, <1>2, BoundAssumption

LEMMA ParkedBelow ==
    ASSUME TypeOK, LifeInv, NEW i \in DOMAIN pending
    PROVE  pending[i].conn \in Conns /\ pending[i].seq \in 1 .. (nextSeq[pending[i].conn] - 1)
<1>1. Id(pending[i]) \in Submitted
  BY DEF LifeInv, SomewhereOnce, ParkedIds, Ids
<1> QED
  BY <1>1, SubmittedBelow, Zenon

LEMMA InHandBelow ==
    ASSUME TypeOK, LifeInv, NEW c \in Conns, InHand(c)
    PROVE  urb[c].conn = c /\ urb[c].seq \in 1 .. (nextSeq[c] - 1)
<1>1. Id(urb[c]) \in Submitted /\ urb[c].conn = c
  BY DEF LifeInv, SomewhereOnce, InHandIds, OwnUrb
<1>2. urb[c].conn \in Conns /\ urb[c].seq \in 1 .. (nextSeq[urb[c].conn] - 1)
  BY <1>1, SubmittedBelow, Zenon
<1> QED
  BY <1>1, <1>2

\* What a step can do to the serve thread of a connection.
ConnMove(c) ==
    /\ nextSeq[c] <= nextSeq'[c]
    /\ pc'[c] = "new" => pc[c] = "new" /\ nextSeq'[c] = nextSeq[c]
    /\ pc'[c] = "take" =>
          \/ pc[c] = "take" /\ urb'[c] = urb[c] /\ ~TakeOrPark(c)
          \/ urb'[c].seq = nextSeq[c] /\ UNCHANGED pending
    /\ \/ start'[c] = start[c]
       \/ pc[c] = "new" /\ start'[c] = written /\ q' = <<>> /\ UNCHANGED written

LEMMA ConnMoves == ASSUME TypeOK, [Next]_vars, NEW c \in Conns PROVE ConnMove(c)
<1>0. nextSeq[c] \in Nat
  BY DEF TypeOK
<1>1. ASSUME NEW d \in Conns, NEW len \in Lens, ReadSubmit(d, len) PROVE ConnMove(c)
  <2>1. /\ nextSeq' = [nextSeq EXCEPT ![d] = @ + 1] /\ pc[d] = "read"
        /\ urb' = [urb EXCEPT ![d] = [conn |-> d, seq |-> nextSeq[d], len |-> len]]
        /\ UNCHANGED <<start, pending>>
    BY <1>1 DEF ReadSubmit, Idle
  <2>2. pc'[d] \in {"reply", "take"} /\ \A e \in Conns : e # d => pc'[e] = pc[e]
    BY <1>1 DEF ReadSubmit, TypeOK
  <2>3. CASE c = d
    BY <1>0, <2>1, <2>2, <2>3 DEF TypeOK, ConnMove
  <2>4. CASE c # d
    <3>1. ~TakeOrPark(c)
      BY <2>1, <2>2, <2>4 DEF TakeOrPark, TypeOK
    <3> QED
      BY <1>0, <2>1, <2>2, <2>4, <3>1 DEF TypeOK, ConnMove
  <2> QED
    BY <2>3, <2>4
<1>n. pc'[c] = "take" => ~TakeOrPark(c)
  BY DEF TakeOrPark, TypeOK
<1>2. ASSUME NEW d \in Conns, TakeOrPark(d) PROVE ConnMove(c)
  <2>1. /\ pc[d] = "take" /\ pc'[d] \in {"reply", "read"}
        /\ \A e \in Conns : e # d => pc'[e] = pc[e]
        /\ UNCHANGED <<urb, nextSeq, start>>
    BY <1>2 DEF TakeOrPark, TypeOK
  <2> QED
    BY <1>0, <1>n, <2>1 DEF ConnMove
<1>3. ASSUME NEW d \in Conns, NEW n \in 1 .. MaxSeq, ReadUnlink(d, n) PROVE ConnMove(c)
  <2>1. /\ pc[d] = "read" /\ pc'[d] = "unlink" /\ \A e \in Conns : e # d => pc'[e] = pc[e]
        /\ \A e \in Conns : e # d => urb'[e] = urb[e]
        /\ UNCHANGED <<nextSeq, start>>
    BY <1>3 DEF ReadUnlink, Idle, TypeOK
  <2> QED
    BY <1>0, <1>n, <2>1 DEF ConnMove
<1>4. ASSUME NEW d \in Conns, Attach(d) PROVE ConnMove(c)
  <2>1. /\ pc[d] = "new" /\ pc'[d] = "read" /\ \A e \in Conns : e # d => pc'[e] = pc[e]
        /\ start'[d] = written /\ \A e \in Conns : e # d => start'[e] = start[e]
        /\ UNCHANGED <<urb, nextSeq, written>> /\ q' = <<>>
    BY <1>4 DEF Attach, Reset, TypeOK
  <2> QED
    BY <1>0, <1>n, <2>1 DEF ConnMove
<1>5. ASSUME NEW d \in Conns, Respond(d) \/ RespondUnlink(d) \/ Close(d) PROVE ConnMove(c)
  <2>1. /\ pc'[d] \in {"read", "closed"} /\ \A e \in Conns : e # d => pc'[e] = pc[e]
        /\ UNCHANGED <<urb, nextSeq, start>>
    BY <1>5 DEF Respond, RespondUnlink, Close, TypeOK
  <2> QED
    BY <1>0, <1>n, <2>1 DEF ConnMove
<1>6. ASSUME UNCHANGED <<pc, urb, nextSeq, start>> PROVE ConnMove(c)
  BY <1>0, <1>6, <1>n DEF ConnMove
<1>7. ASSUME NEW d \in Conns, HostGone(d) \/ ReadClearHalt(d) \/ ReadSetConfiguration(d)
      PROVE  ConnMove(c)
  BY <1>6, <1>7 DEF HostGone, ReadClearHalt, ReadSetConfiguration
<1>8. ASSUME NEW t \in Threads, DeviceStep(t) PROVE ConnMove(c)
  BY <1>6, <1>8 DEF DeviceStep, Unlock, Complete, Stall, Write, Match
<1>9. ASSUME UNCHANGED vars PROVE ConnMove(c)
  BY <1>6, <1>9 DEF vars
<1> QED
  BY <1>1, <1>2, <1>3, <1>4, <1>5, <1>7, <1>8, <1>9 DEF Next, ServeStep

\* The URB that is given data comes after all of its connection that have some,
\* and before those that wait.
LEMMA GivesNext ==
    ASSUME TypeOK, LifeInv, NoLostWakeup, OrderInv,
           NEW c \in Conns, NEW n \in Nat, NEW len \in Nat \ {0}, GivesData(c, n, len)
    PROVE  /\ n \in 1 .. (nextSeq[c] - 1)
           /\ \A g \in Given : g.conn = c => g.seq < n
           /\ \A i \in DOMAIN pending' : pending'[i].conn = c => n < pending'[i].seq
           /\ pc'[c] = "take" => n < urb'[c].seq
<1>1. CASE TakeOrPark(c) /\ n = urb[c].seq
  <2>1. pc[c] = "take" /\ pending = <<>> /\ pending' = <<>>
    BY <1>1 DEF TakeOrPark, NoLostWakeup, GivesData
  <2>2. n \in 1 .. (nextSeq[c] - 1)
    BY <1>1, <2>1, InHandBelow DEF InHand
  <2>3. \A g \in Given : g.conn = c => g.seq < n
    BY <1>1, <2>1 DEF OrderInv, GivenFirst
  <2>4. pc'[c] # "take"
    BY <1>1 DEF TakeOrPark, TypeOK
  <2> QED
    BY <2>1, <2>2, <2>3, <2>4
<1>2. ASSUME NEW t \in Threads, Match(t), c = Head(pending).conn, n = Head(pending).seq
      PROVE  /\ n \in 1 .. (nextSeq[c] - 1)
             /\ \A g \in Given : g.conn = c => g.seq < n
             /\ \A i \in DOMAIN pending' : pending'[i].conn = c => n < pending'[i].seq
             /\ pc'[c] = "take" => n < urb'[c].seq
  <2>1. /\ pending \in Seq(Urb) /\ pending # <<>> /\ pending' = Tail(pending)
        /\ UNCHANGED <<pc, urb>>
    BY <1>2 DEF Match, PopParked, TypeOK
  <2>2. /\ 1 \in DOMAIN pending /\ pending[1] = Head(pending)
        /\ \A i \in DOMAIN pending' : 1 < i + 1 /\ i + 1 \in DOMAIN pending /\ pending'[i] = pending[i + 1]
    BY <2>1
  <2>3. n \in 1 .. (nextSeq[c] - 1)
    BY <1>2, <2>2, ParkedBelow
  <2>4. \A g \in Given : g.conn = c => g.seq < n
    BY <1>2, <2>2 DEF OrderInv, GivenFirst
  <2>5. \A i \in DOMAIN pending' : pending'[i].conn = c => n < pending'[i].seq
    BY <1>2, <2>2 DEF OrderInv, ParkedInOrder
  <2>6. pc'[c] = "take" => n < urb'[c].seq
    BY <1>2, <2>1, <2>2 DEF OrderInv, ParkedInOrder
  <2> QED
    BY <2>3, <2>4, <2>5, <2>6
<1> QED
  BY <1>1, <1>2 DEF GivesData

\* The pieces after a step are pieces from before it, and the one it gives.
LEMMA GivenComes ==
    ASSUME DataStep, NEW g \in Given'
    PROVE  \/ g \in Given
           \/ \E c \in Conns, n \in Nat, len \in Nat \ {0} :
                 GivesData(c, n, len) /\ g = Piece(c, n, FrontPiece(len))
<1>1. CASE \/ KeepsData \/ FlushesData \/ \E h \in Given : LosesData(h)
           \/ \E size \in Nat : QueuesData(size)
  BY <1>1 DEF KeepsData, FlushesData, LosesData, QueuesData
<1>2. ASSUME NEW c \in Conns, NEW n \in Nat, NEW len \in Nat \ {0}, GivesData(c, n, len)
      PROVE  g \in Given \/ (GivesData(c, n, len) /\ g = Piece(c, n, FrontPiece(len)))
  BY <1>2 DEF GivesData
<1> QED
  BY <1>1, <1>2 DEF DataStep

LEMMA ParkedOrderMoves ==
    ASSUME TypeOK, TypeOK', LifeInv, ParkedInOrder, [Next]_vars
    PROVE  ParkedInOrder'
<1>0. /\ pending \in Seq(Urb) /\ DOMAIN pending \subseteq Nat /\ DOMAIN pending' \subseteq Nat
      /\ \A i \in DOMAIN pending : pending[i].conn \in Conns
      /\ \A i \in DOMAIN pending : pending[i].seq < nextSeq[pending[i].conn]
  <2>1. pending \in Seq(Urb) /\ pending' \in Seq(Urb)
    BY DEF TypeOK
  <2>2. \A i \in DOMAIN pending :
            pending[i].conn \in Conns /\ pending[i].seq \in 1 .. (nextSeq[pending[i].conn] - 1)
    BY ParkedBelow
  <2>3. \A i \in DOMAIN pending : nextSeq[pending[i].conn] \in Nat
    BY <2>2 DEF TypeOK
  <2> QED
    BY <2>1, <2>2, <2>3
<1>1. \A i \in DOMAIN pending :
          pc'[pending[i].conn] = "take" => pending[i].seq < urb'[pending[i].conn].seq
  <2> SUFFICES ASSUME NEW i \in DOMAIN pending, pc'[pending[i].conn] = "take"
               PROVE  pending[i].seq < urb'[pending[i].conn].seq
    OBVIOUS
  <2>1. ConnMove(pending[i].conn)
    BY <1>0, ConnMoves
  <2> QED
    BY <1>0, <2>1 DEF ConnMove, ParkedInOrder
<1>2. CASE UNCHANGED pending
  BY <1>1, <1>2 DEF ParkedInOrder
<1>3. CASE pending' = <<>>
  BY <1>3 DEF ParkedInOrder
<1>4. CASE Thins(pending', pending)
  <2>1. \A i \in DOMAIN pending' :
            pc'[pending'[i].conn] = "take" => pending'[i].seq < urb'[pending'[i].conn].seq
    BY <1>1, <1>4 DEF Thins
  <2>2. ASSUME NEW i \in DOMAIN pending', NEW j \in DOMAIN pending', i < j,
               pending'[i].conn = pending'[j].conn
        PROVE  pending'[i].seq < pending'[j].seq
    <3>1. PICK m, n \in DOMAIN pending : m < n /\ pending'[i] = pending[m] /\ pending'[j] = pending[n]
      BY <1>4, <2>2 DEF Thins
    <3> QED
      BY <2>2, <3>1 DEF ParkedInOrder
  <2> QED
    BY <2>1, <2>2 DEF ParkedInOrder
<1>5. ASSUME NEW c \in Conns, TakeOrPark(c), pending' = Append(pending, urb[c])
      PROVE  ParkedInOrder'
  <2> DEFINE k == Len(pending) + 1
  <2>1. pc[c] = "take" /\ pc'[c] # "take" /\ urb[c].conn = c /\ urb[c] \in Urb
    BY <1>5 DEF TakeOrPark, LifeInv, OwnUrb, TypeOK
  <2>2. /\ pending'[k] = urb[c]
        /\ \A i \in DOMAIN pending' : i \in DOMAIN pending \/ i = k
        /\ \A i \in DOMAIN pending : pending'[i] = pending[i] /\ i < k
    BY <1>0, <1>5, <2>1
  <2>3. \A i, j \in DOMAIN pending' : i < j => i \in DOMAIN pending
    BY <1>0, <1>5
  <2> HIDE DEF k
  <2>4. \A i \in DOMAIN pending' :
            pc'[pending'[i].conn] = "take" => pending'[i].seq < urb'[pending'[i].conn].seq
    BY <1>1, <2>1, <2>2
  <2>5. ASSUME NEW i \in DOMAIN pending', NEW j \in DOMAIN pending', i < j,
               pending'[i].conn = pending'[j].conn
        PROVE  pending'[i].seq < pending'[j].seq
    <3>1. i \in DOMAIN pending
      BY <2>3, <2>5
    <3>2. CASE j \in DOMAIN pending
      BY <2>2, <2>5, <3>1, <3>2 DEF ParkedInOrder
    <3>3. CASE j = k
      BY <2>1, <2>2, <2>5, <3>1, <3>3 DEF ParkedInOrder
    <3> QED
      BY <2>2, <3>2, <3>3
  <2> QED
    BY <2>4, <2>5 DEF ParkedInOrder
<1> QED
  BY <1>2, <1>3, <1>4, <1>5, ParkedMoves DEF ParkedMove

\* Where the entries of the parked URBs come from.
LEMMA ParkedComes ==
    ASSUME TypeOK, TypeOK', LifeInv, [Next]_vars, NEW i \in DOMAIN pending'
    PROVE  \/ \E m \in DOMAIN pending : pending'[i] = pending[m]
           \/ \E c \in Conns : pc[c] = "take" /\ pending'[i] = urb[c] /\ urb[c].conn = c
<1>0. pending \in Seq(Urb)
  BY DEF TypeOK
<1>1. ASSUME NEW c \in Conns, TakeOrPark(c), pending' = Append(pending, urb[c])
      PROVE  \/ \E m \in DOMAIN pending : pending'[i] = pending[m]
             \/ pc[c] = "take" /\ pending'[i] = urb[c] /\ urb[c].conn = c
  <2>1. pc[c] = "take" /\ urb[c].conn = c /\ urb[c] \in Urb
    BY <1>1 DEF TakeOrPark, LifeInv, OwnUrb, TypeOK
  <2>2. (i \in DOMAIN pending /\ pending'[i] = pending[i]) \/ pending'[i] = urb[c]
    BY <1>0, <1>1, <2>1
  <2> QED
    BY <2>1, <2>2
<1>2. CASE UNCHANGED pending \/ Thins(pending', pending) \/ pending' = <<>>
  BY <1>2 DEF Thins
<1> QED
  BY <1>1, <1>2, ParkedMoves DEF ParkedMove

LEMMA GivenFirstMoves ==
    ASSUME TypeOK, TypeOK', LifeInv, NoLostWakeup, OrderInv, DataStep, [Next]_vars
    PROVE  GivenFirst'
<1> SUFFICES ASSUME NEW g \in Given'
             PROVE  /\ g.seq \in 1 .. (nextSeq'[g.conn] - 1)
                    /\ \A i \in DOMAIN pending' : pending'[i].conn = g.conn => g.seq < pending'[i].seq
                    /\ pc'[g.conn] = "take" => g.seq < urb'[g.conn].seq
  BY DEF GivenFirst
<1>1. CASE g \in Given
  <2>1. g.conn \in Conns /\ nextSeq[g.conn] \in Nat /\ nextSeq'[g.conn] \in Nat
    BY <1>1, GivenType DEF TypeOK
  <2>2. /\ g.seq \in 1 .. (nextSeq[g.conn] - 1)
        /\ \A i \in DOMAIN pending : pending[i].conn = g.conn => g.seq < pending[i].seq
        /\ pc[g.conn] = "take" => g.seq < urb[g.conn].seq
    BY <1>1 DEF OrderInv, GivenFirst
  <2>3. ConnMove(g.conn)
    BY <2>1, ConnMoves
  <2>4. g.seq \in 1 .. (nextSeq'[g.conn] - 1)
    BY <2>1, <2>2, <2>3 DEF ConnMove
  <2>5. pc'[g.conn] = "take" => g.seq < urb'[g.conn].seq
    BY <2>1, <2>2, <2>3 DEF ConnMove
  <2>6. \A i \in DOMAIN pending' : pending'[i].conn = g.conn => g.seq < pending'[i].seq
    <3> SUFFICES ASSUME NEW i \in DOMAIN pending', pending'[i].conn = g.conn
                 PROVE  g.seq < pending'[i].seq
      OBVIOUS
    <3>1. \/ \E m \in DOMAIN pending : pending'[i] = pending[m]
          \/ \E c \in Conns : pc[c] = "take" /\ pending'[i] = urb[c] /\ urb[c].conn = c
      BY ParkedComes
    <3> QED
      BY <2>2, <3>1
  <2> QED
    BY <2>4, <2>5, <2>6
<1>2. ASSUME NEW c \in Conns, NEW n \in Nat, NEW len \in Nat \ {0}, GivesData(c, n, len),
             g = Piece(c, n, FrontPiece(len))
      PROVE  /\ g.seq \in 1 .. (nextSeq'[g.conn] - 1)
             /\ \A i \in DOMAIN pending' : pending'[i].conn = g.conn => g.seq < pending'[i].seq
             /\ pc'[g.conn] = "take" => g.seq < urb'[g.conn].seq
  <2>1. g.conn = c /\ g.seq = n
    BY <1>2 DEF Piece
  <2>2. /\ n \in 1 .. (nextSeq[c] - 1)
        /\ \A i \in DOMAIN pending' : pending'[i].conn = c => n < pending'[i].seq
        /\ pc'[c] = "take" => n < urb'[c].seq
    BY <1>2, GivesNext
  <2>3. nextSeq[c] <= nextSeq'[c] /\ nextSeq[c] \in Nat /\ nextSeq'[c] \in Nat
    BY ConnMoves DEF ConnMove, TypeOK
  <2> QED
    BY <2>1, <2>2, <2>3
<1> QED
  BY <1>1, <1>2, GivenComes

LEMMA StartsMove ==
    ASSUME TypeOK, TypeOK', LifeInv, NoLostWakeup, QueueInOrder, OrderInv, DataStep, [Next]_vars
    PROVE  StartsBelow'
<1>0. Front <= Front' /\ Front \in Nat /\ Front' \in Nat
  BY FrontMoves
<1>1. ASSUME NEW c \in Conns PROVE start'[c] <= Front' /\ (pc'[c] = "new" => nextSeq'[c] = 1)
  <2>1. start[c] <= Front /\ (pc[c] = "new" => nextSeq[c] = 1)
    BY DEF OrderInv, StartsBelow
  <2>2. ConnMove(c)
    BY ConnMoves
  <2>3. start[c] \in Nat /\ start'[c] \in Nat
    BY DEF TypeOK
  <2>4. CASE start'[c] = start[c]
    BY <1>0, <2>1, <2>2, <2>3, <2>4 DEF ConnMove
  <2>5. CASE start'[c] # start[c]
    <3>1. start'[c] = written /\ q' = <<>> /\ written' = written
      BY <2>2, <2>5 DEF ConnMove
    <3>2. Front' = written
      BY <3>1 DEF Front
    <3> QED
      BY <1>0, <2>1, <2>2, <3>1, <3>2 DEF ConnMove
  <2> QED
    BY <2>4, <2>5
<1>2. ASSUME NEW g \in Given' PROVE start'[g.conn] <= g.lo
  <2>1. CASE g \in Given
    <3>1. g.conn \in Conns /\ g.seq \in 1 .. (nextSeq[g.conn] - 1) /\ start[g.conn] <= g.lo
      BY <2>1, GivenType DEF OrderInv, GivenFirst, StartsBelow
    <3>2. pc[g.conn] # "new"
      BY <3>1 DEF OrderInv, StartsBelow
    <3>3. start'[g.conn] = start[g.conn]
      BY <3>1, <3>2, ConnMoves DEF ConnMove
    <3> QED
      BY <3>1, <3>3
  <2>2. ASSUME NEW c \in Conns, NEW n \in Nat, NEW len \in Nat \ {0}, GivesData(c, n, len),
               g = Piece(c, n, FrontPiece(len))
        PROVE  start'[g.conn] <= g.lo
    <3>1. g.conn = c /\ g.lo = Front
      BY <2>2, QueueTake DEF GivesData, Piece
    <3>2. n \in 1 .. (nextSeq[c] - 1)
      BY <2>2, GivesNext
    <3>3. pc[c] # "new"
      BY <3>2 DEF OrderInv, StartsBelow
    <3>4. start'[c] = start[c]
      BY <3>3, ConnMoves DEF ConnMove
    <3> QED
      BY <3>1, <3>4 DEF OrderInv, StartsBelow
  <2> QED
    BY <2>1, <2>2, GivenComes
<1> QED
  BY <1>1, <1>2 DEF StartsBelow

LEMMA DataOrderMoves ==
    ASSUME TypeOK, TypeOK', LifeInv, NoLostWakeup, QueueInOrder, Accounted, OrderInv,
           DataStep, [Next]_vars
    PROVE  DataInUrbOrder'
<1> SUFFICES ASSUME NEW g \in Given', NEW h \in Given', g.conn = h.conn, g.seq < h.seq
             PROVE  g.hi <= h.lo
  BY DEF DataInUrbOrder
<1>1. CASE g \in Given /\ h \in Given
  BY <1>1 DEF OrderInv, DataInUrbOrder
<1>2. ASSUME NEW c \in Conns, NEW n \in Nat, NEW len \in Nat \ {0}, GivesData(c, n, len)
      PROVE  g.hi <= h.lo
  <2> DEFINE p == Piece(c, n, FrontPiece(len))
  <2>1. p.conn = c /\ p.seq = n /\ p.lo = Front
    BY <1>2, QueueTake DEF GivesData, Piece
  <2>2. g \in Given \/ g = p
    BY <1>2 DEF GivesData
  <2>3. h \in Given \/ h = p
    BY <1>2 DEF GivesData
  <2>4. \A x \in Given : x.conn = c => x.seq < n /\ x.seq \in Nat
    BY <1>2, GivesNext, GivenType
  <2> HIDE DEF p
  <2>5. CASE g = p
    BY <2>1, <2>3, <2>4, <2>5
  <2>6. CASE g \in Given /\ h = p
    BY <2>1, <2>6 DEF Accounted
  <2> QED
    BY <1>1, <2>2, <2>3, <2>5, <2>6
<1> QED
  BY <1>1, <1>2, GivenComes

LEMMA OrderInvariant == Spec => [](TypeOK /\ LifeInv /\ DataInv /\ OrderInv)
<1>1. Init => OrderInv
  <2> SUFFICES ASSUME Init PROVE OrderInv
    OBVIOUS
  <2>1. Given = {}
    BY GivenInit
  <2>2. Front = 0
    BY DEF Init, Front
  <2> QED
    BY <2>1, <2>2 DEF Init, OrderInv, ParkedInOrder, GivenFirst, StartsBelow, DataInUrbOrder
<1>2. /\ TypeOK /\ TypeOK' /\ LifeInv /\ LifeInv' /\ DataInv /\ NoLostWakeup /\ OrderInv
      /\ [Next]_vars
      => OrderInv'
  <2> SUFFICES ASSUME TypeOK, TypeOK', LifeInv, LifeInv', DataInv, NoLostWakeup, OrderInv,
                      [Next]_vars
               PROVE  OrderInv'
    OBVIOUS
  <2>1. StallsEmpty /\ QueueInOrder /\ Accounted
    BY DEF DataInv
  <2>2. DataStep
    BY <2>1, DataMoves
  <2>3. ParkedInOrder'
    BY ParkedOrderMoves DEF OrderInv
  <2>4. GivenFirst' /\ StartsBelow' /\ DataInUrbOrder'
    BY <2>1, <2>2, GivenFirstMoves, StartsMove, DataOrderMoves
  <2> QED
    BY <2>3, <2>4 DEF OrderInv
<1> QED
  BY <1>1, <1>2, DataInvariant, WakeupCorrect, PTL DEF Spec

\* Data is given to the URBs of a connection in the order in which its host
\* submitted them, whichever threads complete them (Endpoint._pop_locked takes
\* from the front, and URBs are parked behind those that wait).
THEOREM UrbOrderKept == Spec => []DataInUrbOrder
<1>1. OrderInv => DataInUrbOrder
  BY DEF OrderInv
<1> QED
  BY <1>1, OrderInvariant, PTL

\* A host sees no data written before it attached: reset_io empties the queue,
\* and what other connections' threads took before is theirs.
THEOREM SessionsApart == Spec => []NoDataOfEarlierSession
<1>1. OrderInv => NoDataOfEarlierSession
  BY DEF OrderInv, StartsBelow, NoDataOfEarlierSession
<1> QED
  BY <1>1, OrderInvariant, PTL

-----------------------------------------------------------------------------
(* A device without threads of its own, of which one connection has the    *)
(* endpoint: its code runs in the serve thread only, so that completions   *)
(* come in submission order, and none after its unlink.                    *)

\* There is one connection, and no other thread.
Alone(c) == Conns = {c} /\ Writers = {}

\* One thread only: what it has taken out is completed before it reads on, it
\* has data in hand only while nothing is parked, and a halt leaves nothing.
OneThing(c) ==
    /\ halted => pending = <<>> /\ pc[c] # "take"
    /\ pc[c] = "reply" => pending = <<>>
    /\ pc[c] # "read" => done[c] = <<>> /\ cv # c

LEMMA OneThingMoves ==
    ASSUME NEW c, Alone(c), TypeOK, NoLostWakeup, OneThing(c), [Next]_vars
    PROVE  OneThing(c)'
<1>0. /\ Threads = {c} /\ c \in Conns /\ c \in Threads /\ c # NoThread
      /\ \A d \in Conns : d = c /\ \A t \in Threads : t = c
  BY ThreadAssumption DEF Alone, Threads
<1>1. CASE HostGone(c)
  BY <1>1 DEF HostGone, OneThing
<1>2. CASE Attach(c)
  BY <1>0, <1>2 DEF Attach, Reset, OneThing, TypeOK
<1>3. ASSUME NEW len \in Lens, ReadSubmit(c, len) PROVE OneThing(c)'
  BY <1>0, <1>3 DEF ReadSubmit, StallsAtOnce, Idle, OneThing, TypeOK
<1>4. CASE TakeOrPark(c)
  <2>1. CASE q # <<>>
    <3>1. pending = <<>> /\ pending' = pending /\ pc'[c] = "reply"
      BY <1>0, <1>4, <2>1 DEF TakeOrPark, NoLostWakeup, TypeOK
    <3> QED
      BY <1>0, <1>4, <3>1 DEF TakeOrPark, OneThing
  <2>2. CASE q = <<>>
    <3>1. pc'[c] = "read" /\ ~halted /\ UNCHANGED halted
      BY <1>0, <1>4, <2>2 DEF TakeOrPark, OneThing, TypeOK
    <3> QED
      BY <3>1 DEF OneThing
  <2> QED
    BY <2>1, <2>2
<1>5. CASE Respond(c)
  BY <1>0, <1>5 DEF Respond, OneThing, TypeOK
<1>6. ASSUME NEW n \in 1 .. MaxSeq, ReadUnlink(c, n) PROVE OneThing(c)'
  <2>1. pc'[c] = "unlink" /\ UNCHANGED <<halted, done, cv>> /\ Idle(c)
    BY <1>0, <1>6 DEF ReadUnlink, TypeOK
  <2>2. pending = <<>> => pending' = <<>>
    BY <1>6 DEF ReadUnlink
  <2> QED
    BY <2>1, <2>2 DEF OneThing, Idle
<1>7. CASE RespondUnlink(c)
  BY <1>0, <1>7 DEF RespondUnlink, OneThing, TypeOK
<1>8. CASE ReadClearHalt(c)
  BY <1>8 DEF ReadClearHalt, OneThing
<1>9. CASE ReadSetConfiguration(c)
  BY <1>9 DEF ReadSetConfiguration, Reset, OneThing
<1>10. CASE Close(c)
  BY <1>0, <1>10 DEF Close, Idle, OneThing, TypeOK
<1>11. ASSUME NEW size \in Sizes, Write(c, size) PROVE OneThing(c)'
  BY <1>0, <1>11 DEF Write, RunsDeviceCode, OneThing
<1>12. CASE Match(c)
  BY <1>0, <1>12 DEF Match, OneThing
<1>13. CASE Unlock(c)
  BY <1>0, <1>13 DEF Unlock, OneThing
<1>14. CASE Complete(c)
  BY <1>0, <1>14 DEF Complete, OneThing
<1>15. CASE Stall(c)
  BY <1>0, <1>15 DEF Stall, RunsDeviceCode, OneThing
<1>16. CASE UNCHANGED vars
  BY <1>16 DEF vars, OneThing
<1> QED
  BY <1>0, <1>1, <1>2, <1>3, <1>4, <1>5, <1>6, <1>7, <1>8, <1>9, <1>10, <1>11, <1>12, <1>13,
     <1>14, <1>15, <1>16 DEF Next, ServeStep, DeviceStep

-----------------------------------------------------------------------------
(* Completions in order.                                                   *)

\* The wire of c gets a reply of this kind for URB n.
WireGets(c, kind, n) == \E r \in OnWire : r.kind = kind /\ r.seq = n /\ OnWireBehind(c, r)

LEMMA SendWire ==
    ASSUME TypeOK, NEW u, u.conn \in Conns, u.seq \in Nat, NEW a \in Data, Send(u, a)
    PROVE  wire' = wire \/ WireGets(u.conn, "submit", u.seq)
<1>1. CASE ~alive[u.conn]
  BY <1>1 DEF Send
<1>2. CASE alive[u.conn]
  <2> DEFINE c == u.conn
             r == Reply(u, a)
  <2>1. r \in OnWire /\ r.kind = "submit" /\ r.seq = u.seq
    BY DEF Reply, OnWire, Data
  <2>2. wire' = [wire EXCEPT ![c] = Append(wire[c], r)]
    BY <1>2 DEF Send
  <2> HIDE DEF r
  <2>3. OnWireBehind(c, r)
    BY <2>1, <2>2, WireAppend
  <2> QED
    BY <2>1, <2>3 DEF WireGets
<1> QED
  BY <1>1, <1>2

\* What a completion or an unlink puts on the wire comes last.
LEMMA WireGrows ==
    ASSUME NEW c \in Conns, NEW kind, NEW n, WireGets(c, kind, n)
    PROVE  \E k : /\ k \in DOMAIN wire'[c] /\ k \notin DOMAIN wire[c]
                  /\ wire'[c][k].kind = kind /\ wire'[c][k].seq = n
                  /\ \A i \in DOMAIN wire[c] : i < k /\ i \in DOMAIN wire'[c] /\ wire'[c][i] = wire[c][i]
                  /\ \A i \in DOMAIN wire'[c] : i \in DOMAIN wire[c] \/ i = k
BY DEF WireGets, OnWireBehind

\* What the thread has taken out stands in its order, before what is parked.
DoneInLine(c) ==
    /\ \A i, j \in DOMAIN done[c] : i < j => done[c][i].seq < done[c][j].seq
    /\ \A i \in DOMAIN done[c], j \in DOMAIN pending : done[c][i].seq < pending[j].seq

\* The URB that is completed next is the first of those that wait.
FirstHeld(n) == \A v \in HeldIds : v[2] = n \/ n < v[2]

LEMMA HandIsFirst ==
    ASSUME NEW c, Alone(c), TypeOK, LifeInv, OneThing(c), pc[c] = "reply"
    PROVE  FirstHeld(urb[c].seq)
<1>1. pending = <<>> /\ done[c] = <<>> /\ Conns = {c} /\ Threads = {c}
  BY DEF OneThing, Alone, Threads
<1>2. ParkedIds = {} /\ DoneIds = {}
  BY <1>1 DEF ParkedIds, DoneIds, Ids
<1>3. \A v \in InHandIds : v[2] = urb[c].seq
  BY <1>1 DEF InHandIds, Id
<1> QED
  BY <1>2, <1>3 DEF HeldIds, FirstHeld

LEMMA HeadIsFirst ==
    ASSUME NEW c, Alone(c), TypeOK, OneThing(c), DoneInLine(c), done[c] # <<>>
    PROVE  FirstHeld(Head(done[c]).seq)
<1>1. pc[c] = "read" /\ c \in Conns /\ Conns = {c} /\ Threads = {c}
  BY DEF OneThing, Alone, Threads
<1>2. /\ 1 \in DOMAIN done[c] /\ done[c][1] = Head(done[c])
      /\ \A i \in DOMAIN done[c] : i = 1 \/ 1 < i
  <2>1. done[c] \in Seq(Taken)
    BY <1>1 DEF TypeOK
  <2> QED
    BY <2>1
<1>3. InHandIds = {}
  BY <1>1 DEF InHandIds, InHand
<1>4. \A v \in DoneIds : \E i \in DOMAIN done[c] : v[2] = done[c][i].seq
  BY <1>1 DEF DoneIds, Ids, Id
<1>5. \A v \in ParkedIds : \E i \in DOMAIN pending : v[2] = pending[i].seq
  BY DEF ParkedIds, Ids, Id
<1>6. \A v \in DoneIds : v[2] = done[c][1].seq \/ done[c][1].seq < v[2]
  BY <1>2, <1>4 DEF DoneInLine
<1>7. \A v \in ParkedIds : done[c][1].seq < v[2]
  BY <1>2, <1>5 DEF DoneInLine
<1> QED
  BY <1>2, <1>3, <1>6, <1>7 DEF HeldIds, FirstHeld

\* What a step puts on the wire.
LEMMA WireMoves ==
    ASSUME NEW c, Alone(c), TypeOK, LifeInv, OneThing(c), DoneInLine(c), [Next]_vars
    PROVE  \/ wire' = wire
           \/ \E n : <<c, n>> \in HeldIds /\ FirstHeld(n) /\ WireGets(c, "submit", n)
           \/ pc[c] = "unlink" /\ WireGets(c, "unlink", urb[c].seq)
<1>0. Threads = {c} /\ c \in Conns /\ urb[c].conn = c /\ urb[c] \in Urb /\ answer[c] \in Data
  BY DEF Alone, Threads, TypeOK, LifeInv, OwnUrb
<1>1. CASE Respond(c)
  <2>1. wire' = wire \/ WireGets(c, "submit", urb[c].seq)
    BY <1>0, <1>1, SendWire DEF Respond, Urb
  <2>2. <<c, urb[c].seq>> \in HeldIds
    BY <1>0, <1>1 DEF Respond, HeldIds, InHandIds, InHand, Id
  <2>3. FirstHeld(urb[c].seq)
    BY <1>1, HandIsFirst DEF Respond
  <2> QED
    BY <2>1, <2>2, <2>3
<1>2. CASE Complete(c)
  <2> DEFINE m == Head(done[c])
  <2>1. m \in Taken /\ 1 \in DOMAIN done[c] /\ done[c][1] = m
    BY <1>0, <1>2 DEF Complete, TypeOK
  <2>2. Id(m) \in HeldIds
    BY <1>0, <2>1 DEF HeldIds, DoneIds, Ids
  <2>3. Send(m, m.data) /\ FirstHeld(m.seq)
    BY <1>2, HeadIsFirst DEF Complete
  <2> HIDE DEF m
  <2>4. m.conn = c /\ m.seq \in Nat /\ m.data \in Data
    BY <1>0, <2>1 DEF Taken, Alone
  <2>5. wire' = wire \/ WireGets(c, "submit", m.seq)
    BY <1>0, <2>3, <2>4, SendWire
  <2> QED
    BY <2>2, <2>3, <2>4, <2>5 DEF Id
<1>3. CASE RespondUnlink(c)
  <2> DEFINE r == UnlinkReply(urb[c].seq)
  <2>1. r \in OnWire /\ r.kind = "unlink" /\ r.seq = urb[c].seq
    BY <1>0 DEF UnlinkReply, OnWire, Urb
  <2>2. pc[c] = "unlink" /\ (wire' = wire \/ wire' = [wire EXCEPT ![c] = Append(wire[c], r)])
    BY <1>3 DEF RespondUnlink
  <2> HIDE DEF r
  <2>3. CASE wire' = [wire EXCEPT ![c] = Append(wire[c], r)]
    <3>1. OnWireBehind(c, r)
      BY <1>0, <2>1, <2>3, WireAppend
    <3> QED
      BY <2>1, <2>2, <3>1 DEF WireGets
  <2> QED
    BY <2>2, <2>3
<1>4. ASSUME NEW n \in 1 .. MaxSeq, ReadUnlink(c, n) PROVE wire' = wire
  BY <1>4 DEF ReadUnlink
<1>5. ASSUME NEW len \in Lens, ReadSubmit(c, len) PROVE wire' = wire
  BY <1>5 DEF ReadSubmit
<1>6. ASSUME \/ HostGone(c) \/ Attach(c) \/ TakeOrPark(c) \/ ReadClearHalt(c)
             \/ ReadSetConfiguration(c) \/ Close(c) \/ Match(c) \/ Unlock(c) \/ Stall(c)
             \/ (\E size \in Sizes : Write(c, size)) \/ UNCHANGED vars
      PROVE  wire' = wire
  BY <1>6 DEF HostGone, Attach, TakeOrPark, ReadClearHalt, ReadSetConfiguration, Close,
              Match, Unlock, Stall, Write, vars
<1> QED
  BY <1>0, <1>1, <1>2, <1>3, <1>4, <1>5, <1>6 DEF Alone, Next, ServeStep, DeviceStep

LEMMA DoneLineMoves ==
    ASSUME NEW c, Alone(c), TypeOK, TypeOK', LifeInv, ParkedInOrder, OneThing(c),
           DoneInLine(c), [Next]_vars
    PROVE  DoneInLine(c)'
<1>0. Threads = {c} /\ c \in Conns /\ \A t \in Threads : t = c
  BY DEF Alone, Threads
<1>1. /\ pending \in Seq(Urb) /\ \A i \in DOMAIN pending : pending[i].conn = c
      /\ \A i, j \in DOMAIN pending : i < j => pending[i].seq < pending[j].seq
      /\ done[c] \in Seq(Taken)
  <2>1. pending \in Seq(Urb) /\ done[c] \in Seq(Taken)
    BY <1>0 DEF TypeOK
  <2>2. \A i \in DOMAIN pending : pending[i].conn \in Conns
    BY ParkedBelow
  <2> QED
    BY <2>1, <2>2 DEF Alone, ParkedInOrder
<1>2. CASE UNCHANGED done
  <2>1. ASSUME TakeOrPark(c) PROVE DoneInLine(c)'
    <3>1. done'[c] = <<>>
      BY <1>2, <2>1 DEF TakeOrPark, OneThing
    <3> QED
      BY <3>1 DEF DoneInLine
  <2>2. CASE UNCHANGED pending \/ Thins(pending', pending) \/ pending' = <<>>
    BY <1>2, <2>2 DEF DoneInLine, Thins
  <2> QED
    BY <2>1, <2>2, ParkedMoves DEF ParkedMove, Alone
<1>3. CASE Match(c)
  <2> DEFINE u == Head(pending)
             m == [conn |-> u.conn, seq |-> u.seq, data |-> FrontPiece(u.len)]
             k == Len(done[c]) + 1
  <2>1. /\ pending # <<>> /\ pending' = Tail(pending) /\ done'[c] = Append(done[c], m)
    BY <1>0, <1>3 DEF Match, PopParked, TypeOK
  <2>2. /\ 1 \in DOMAIN pending /\ pending[1] = u
        /\ \A j \in DOMAIN pending' : j + 1 \in DOMAIN pending /\ 1 < j + 1 /\ pending'[j] = pending[j + 1]
    BY <1>1, <2>1
  <2>3. \A j \in DOMAIN pending' : u.seq < pending'[j].seq
    BY <1>1, <2>2
  <2>4. m.seq = u.seq
    OBVIOUS
  <2> HIDE DEF u, m
  <2>5. /\ done'[c][k] = m
        /\ \A i \in DOMAIN done'[c] : i \in DOMAIN done[c] \/ i = k
        /\ \A i \in DOMAIN done[c] : done'[c][i] = done[c][i]
        /\ \A i, j \in DOMAIN done'[c] : i < j => i \in DOMAIN done[c]
    BY <1>1, <2>1
  <2> HIDE DEF k
  <2>6. \A i \in DOMAIN done[c] : done[c][i].seq < m.seq
    BY <2>2, <2>4 DEF DoneInLine
  <2>7. \A i \in DOMAIN done'[c], j \in DOMAIN pending' : done'[c][i].seq < pending'[j].seq
    BY <2>2, <2>3, <2>4, <2>5 DEF DoneInLine
  <2>8. \A i, j \in DOMAIN done'[c] : i < j => done'[c][i].seq < done'[c][j].seq
    BY <2>5, <2>6 DEF DoneInLine
  <2> QED
    BY <2>7, <2>8 DEF DoneInLine
<1>4. CASE Complete(c)
  <2>1. done[c] # <<>> /\ done'[c] = Tail(done[c]) /\ UNCHANGED pending
    BY <1>0, <1>4 DEF Complete, TypeOK
  <2>2. Thins(done'[c], done[c])
    BY <1>1, <2>1, TailThins
  <2> QED
    BY <2>1, <2>2 DEF DoneInLine, Thins
<1>5. CASE Stall(c)
  <2>1. pending' = <<>> /\ done'[c] = Stalls(pending)
    BY <1>0, <1>5 DEF Stall, TypeOK
  <2>2. DOMAIN done'[c] = DOMAIN pending /\ \A i \in DOMAIN pending : done'[c][i].seq = pending[i].seq
    BY <2>1 DEF Stalls
  <2> QED
    BY <1>1, <2>1, <2>2 DEF DoneInLine
<1>6. ASSUME HostGone(c) \/ ServeStep(c) PROVE UNCHANGED done
  BY <1>6 DEF ServeStep, HostGone, Attach, ReadSubmit, TakeOrPark, Respond, ReadUnlink,
              RespondUnlink, ReadClearHalt, ReadSetConfiguration, Close
<1>7. ASSUME (\E size \in Sizes : Write(c, size)) \/ Unlock(c) \/ UNCHANGED vars
      PROVE  UNCHANGED done
  BY <1>7 DEF Write, Unlock, vars
<1> QED
  BY <1>0, <1>2, <1>3, <1>4, <1>5, <1>6, <1>7 DEF Alone, Next, DeviceStep

-----------------------------------------------------------------------------
(* Answers before what waits, and unlinked URBs.                           *)

\* URBs that are answered come before those that are still to be answered.
AnsweredFirst == \A u \in AnsweredIds, v \in HeldIds : u[2] < v[2]

\* An unlinked URB is answered or gone before its unlink is.
UnlinkedGone(c) ==
    /\ \A i \in DOMAIN wire[c] :
          wire[c][i].kind = "unlink" => <<c, wire[c][i].seq>> \in AnsweredIds \cup dropped
    /\ pc[c] = "unlink" => <<c, urb[c].seq>> \in AnsweredIds \cup dropped

\* Completions on the wire are of URBs that are answered.
WireAnswered(c) ==
    \A i \in DOMAIN wire[c] :
        wire[c][i].kind = "submit" => <<c, wire[c][i].seq>> \in AnsweredIds

SerialInv(c) ==
    /\ OneThing(c) /\ DoneInLine(c) /\ AnsweredFirst /\ UnlinkedGone(c) /\ WireAnswered(c)
    /\ AnswersInOrder /\ NoAnswerAfterUnlink

\* Where URBs are that are still to be answered.
HeldOrGone ==
    /\ Submitted = HeldIds \cup AnsweredIds \cup dropped
    /\ HeldIds \cap (AnsweredIds \cup dropped) = {}

LEMMA HeldIs == LifeInv => HeldOrGone
BY DEF LifeInv, SomewhereOnce, HeldIds, HeldOrGone


\* A URB that a step answers was the first of those that waited.
LEMMA FirstIsAnswered ==
    ASSUME NEW c, Alone(c), TypeOK, LifeInv, OneThing(c), DoneInLine(c), [Next]_vars,
           NEW u \in AnsweredIds', u \notin AnsweredIds
    PROVE  FirstHeld(u[2])
<1>1. u \in Urbs /\ u[1] = c /\ c \in Conns
  BY DEF AnsweredIds, Urbs, Alone
<1>2. PICK i \in DOMAIN wire'[c] : wire'[c][i].kind = "submit" /\ wire'[c][i].seq = u[2]
  BY <1>1 DEF AnsweredIds, AnswersOn
<1>3. ~(i \in DOMAIN wire[c] /\ wire[c][i].kind = "submit" /\ wire[c][i].seq = u[2])
  BY <1>1 DEF AnsweredIds, AnswersOn
<1>4. wire' # wire
  BY <1>2, <1>3
<1>5. ASSUME NEW n, WireGets(c, "submit", n) PROVE n = u[2]
  BY <1>1, <1>2, <1>3, <1>5, WireGrows
<1>6. ASSUME NEW n, WireGets(c, "unlink", n) PROVE FALSE
  BY <1>1, <1>2, <1>3, <1>6, WireGrows
<1> QED
  BY <1>4, <1>5, <1>6, WireMoves

LEMMA AnsweredFirstMoves ==
    ASSUME NEW c, Alone(c), TypeOK, TypeOK', LifeInv, LifeInv', OneThing(c), DoneInLine(c),
           AnsweredFirst, [Next]_vars
    PROVE  AnsweredFirst'
<1>0. LifeStep
  BY LifeMoves
<1>1. /\ \A u \in Urbs : u[1] = c /\ u = <<c, u[2]>> /\ u[2] \in Nat
      /\ nextSeq[c] \in Nat /\ Submitted \subseteq Urbs
      /\ \A u \in Urbs : u \in Submitted <=> u[2] < nextSeq[c]
  <2>1. \A u \in Urbs : u[1] = c /\ u = <<c, u[2]>> /\ u[2] \in Nat
    BY BoundAssumption DEF Urbs, Alone
  <2>2. nextSeq[c] \in Nat
    BY DEF Alone, TypeOK
  <2> QED
    BY <2>1, <2>2 DEF Submitted
<1>2. /\ HeldIds' \subseteq Submitted' /\ HeldIds' \cap (AnsweredIds' \cup dropped') = {}
  <2>1. (LifeInv => HeldOrGone)'
    BY HeldIs, PTL
  <2> QED
    BY <2>1 DEF HeldOrGone
<1>3. /\ HeldIds \subseteq Submitted /\ AnsweredIds \subseteq Submitted
      /\ HeldIds \cap AnsweredIds = {}
      /\ Submitted = HeldIds \cup AnsweredIds \cup dropped
  BY HeldIs DEF HeldOrGone
<1> SUFFICES ASSUME NEW u \in AnsweredIds', NEW v \in HeldIds' PROVE u[2] < v[2]
  BY DEF AnsweredFirst
<1>4. AnsweredIds \subseteq AnsweredIds' /\ dropped \subseteq dropped'
  BY <1>0 DEF LifeStep
<1>5. u # v
  BY <1>2
<1>6. CASE v \in Submitted
  <2>1. v \in HeldIds
    BY <1>2, <1>3, <1>4, <1>6
  <2>2. CASE u \in AnsweredIds
    BY <2>1, <2>2 DEF AnsweredFirst
  <2>3. CASE u \notin AnsweredIds
    <3>1. v[2] = u[2] \/ u[2] < v[2]
      BY <2>1, <2>3, FirstIsAnswered DEF FirstHeld
    <3>2. u \in Urbs /\ v \in Urbs
      BY <1>1, <1>6 DEF AnsweredIds
    <3> QED
      BY <1>1, <1>5, <3>1, <3>2
  <2> QED
    BY <2>2, <2>3
<1>7. CASE v \notin Submitted
  <2>1. v \in Urbs /\ AnsweredIds' = AnsweredIds
    BY <1>0, <1>2, <1>7 DEF LifeStep
  <2> QED
    BY <1>1, <1>3, <1>7, <2>1
<1> QED
  BY <1>6, <1>7

LEMMA UnlinkedMoves ==
    ASSUME NEW c, Alone(c), TypeOK, TypeOK', LifeInv, LifeInv', OneThing(c), OneThing(c)',
           DoneInLine(c), UnlinkedGone(c), [Next]_vars
    PROVE  UnlinkedGone(c)'
<1>0. Threads = {c} /\ c \in Conns /\ Conns = {c}
  BY DEF Alone, Threads
<1>1. AnsweredIds \subseteq AnsweredIds' /\ dropped \subseteq dropped'
  <2>1. LifeStep
    BY LifeMoves
  <2> QED
    BY <2>1 DEF LifeStep
<1>2. Submitted' = HeldIds' \cup AnsweredIds' \cup dropped'
  <2>1. (LifeInv => HeldOrGone)'
    BY HeldIs, PTL
  <2> QED
    BY <2>1 DEF HeldOrGone
<1>3. ASSUME NEW i \in DOMAIN wire'[c], wire'[c][i].kind = "unlink"
      PROVE  <<c, wire'[c][i].seq>> \in AnsweredIds' \cup dropped'
  <2>1. CASE i \in DOMAIN wire[c] /\ wire'[c][i] = wire[c][i]
    BY <1>1, <1>3, <2>1 DEF UnlinkedGone
  <2>2. ASSUME NEW kind, NEW n, WireGets(c, kind, n), ~(i \in DOMAIN wire[c] /\ wire'[c][i] = wire[c][i])
        PROVE  kind = "unlink" /\ wire'[c][i].seq = n
    BY <1>0, <1>3, <2>2, WireGrows
  <2> QED
    BY <1>1, <2>1, <2>2, WireMoves DEF UnlinkedGone
<1>4. ASSUME pc'[c] = "unlink" PROVE <<c, urb'[c].seq>> \in AnsweredIds' \cup dropped'
  <2>1. CASE pc[c] = "unlink" /\ urb'[c] = urb[c]
    BY <1>1, <2>1 DEF UnlinkedGone
  <2>2. ASSUME NEW n \in 1 .. MaxSeq, ReadUnlink(c, n)
        PROVE  <<c, urb'[c].seq>> \in AnsweredIds' \cup dropped'
    <3>1. urb'[c].seq = n /\ <<c, n>> \in Submitted'
      BY <1>0, <2>2 DEF ReadUnlink, TypeOK, Submitted, Urbs
    <3>2. DoneIds' = {} /\ InHandIds' = {}
      BY <1>0, <1>4 DEF OneThing, DoneIds, Ids, InHandIds, InHand
    <3>3. <<c, n>> \notin ParkedIds'
      <4>1. CASE UNCHANGED pending /\ \A i \in DOMAIN pending : pending[i].seq # n
        BY <4>1 DEF ParkedIds, Ids, Id
      <4>2. ASSUME NEW i \in DOMAIN pending, pending[i].seq = n, pending' = Without(pending, i)
            PROVE  <<c, n>> \notin ParkedIds'
        <5>1. pending \in Seq(Urb) /\ Apart(pending)
          BY DEF TypeOK, LifeInv
        <5>2. Ids(Without(pending, i)) = Ids(pending) \ {Id(pending[i])}
          BY <5>1, WithoutIds, Zenon
        <5>3. Id(pending[i]) = <<c, n>>
          BY <1>0, <4>2, ParkedBelow DEF Id
        <5>4. ParkedIds' = Ids(pending')
          BY DEF ParkedIds, Ids, Id
        <5> QED
          BY <4>2, <5>2, <5>3, <5>4
      <4> QED
        BY <2>2, <4>1, <4>2 DEF ReadUnlink
    <3> QED
      BY <1>2, <3>1, <3>2, <3>3 DEF HeldIds
  <2>3. ASSUME NEW len \in Lens, ReadSubmit(c, len) PROVE FALSE
    BY <1>0, <1>4, <2>3 DEF ReadSubmit, TypeOK
  <2>4. ASSUME \/ Attach(c) \/ TakeOrPark(c) \/ Respond(c) \/ RespondUnlink(c) \/ Close(c)
        PROVE  FALSE
    BY <1>0, <1>4, <2>4 DEF Attach, TakeOrPark, Respond, RespondUnlink, Close, TypeOK
  <2>5. ASSUME \/ HostGone(c) \/ ReadClearHalt(c) \/ ReadSetConfiguration(c) \/ DeviceStep(c)
               \/ UNCHANGED vars
        PROVE  UNCHANGED <<pc, urb>>
    BY <2>5 DEF HostGone, ReadClearHalt, ReadSetConfiguration, DeviceStep, Write, Match, Unlock,
                Complete, Stall, vars
  <2> QED
    BY <1>0, <1>4, <2>1, <2>2, <2>3, <2>4, <2>5 DEF Next, ServeStep
<1> QED
  BY <1>3, <1>4 DEF UnlinkedGone

LEMMA AnswersMove ==
    ASSUME NEW c, Alone(c), TypeOK, TypeOK', LifeInv, LifeInv', OneThing(c), DoneInLine(c),
           [Next]_vars, AnsweredFirst, UnlinkedGone(c), WireAnswered(c), AnswersInOrder,
           NoAnswerAfterUnlink
    PROVE  WireAnswered(c)' /\ AnswersInOrder' /\ NoAnswerAfterUnlink'
<1>0. c \in Conns /\ (\A d \in Conns : d = c) /\ DOMAIN wire[c] \subseteq Nat
  BY SMTT(20) DEF Alone, TypeOK
<1>1. CASE wire' = wire
  BY <1>1 DEF WireAnswered, AnswersInOrder, NoAnswerAfterUnlink, AnswersOn, AnsweredIds
<1>2. ASSUME NEW kind, NEW n, WireGets(c, kind, n),
             kind = "submit" => <<c, n>> \in HeldIds
      PROVE  WireAnswered(c)' /\ AnswersInOrder' /\ NoAnswerAfterUnlink'
  <2>1. PICK k \in DOMAIN wire'[c] :
            /\ k \notin DOMAIN wire[c] /\ wire'[c][k].kind = kind /\ wire'[c][k].seq = n
            /\ \A i \in DOMAIN wire[c] : i < k /\ i \in DOMAIN wire'[c] /\ wire'[c][i] = wire[c][i]
            /\ \A i \in DOMAIN wire'[c] : i \in DOMAIN wire[c] \/ i = k
    BY <1>0, <1>2, WireGrows
  <2>k. k \in Nat
    BY <1>0, SMTT(20) DEF TypeOK
  <2>2. kind = "submit" => \A i \in AnswersOn(c) : wire[c][i].seq < n
    <3>1. \A i \in AnswersOn(c) : <<c, wire[c][i].seq>> \in AnsweredIds
      BY DEF AnswersOn, WireAnswered
    <3> QED
      BY <1>2, <3>1 DEF AnsweredFirst
  <2>3. kind = "submit" => \A i \in DOMAIN wire[c] : wire[c][i].kind = "unlink" => wire[c][i].seq # n
    BY <1>2, HeldIs DEF UnlinkedGone, HeldOrGone
  <2>4. WireAnswered(c)'
    <3> SUFFICES ASSUME NEW i \in DOMAIN wire'[c], wire'[c][i].kind = "submit"
                 PROVE  <<c, wire'[c][i].seq>> \in AnsweredIds'
      BY DEF WireAnswered
    <3>1. <<c, wire'[c][i].seq>> \in Urbs
      <4>1. CASE i \in DOMAIN wire[c]
        BY <2>1, <4>1 DEF WireAnswered, AnsweredIds
      <4>2. CASE i = k
        BY <1>2, <2>1, <4>2, HeldIs DEF HeldOrGone, Submitted
      <4> QED
        BY <2>1, <4>1, <4>2
    <3> QED
      BY <3>1 DEF AnsweredIds, AnswersOn
  <2>5. AnswersInOrder'
    <3> SUFFICES ASSUME NEW i \in DOMAIN wire'[c], wire'[c][i].kind = "submit",
                        NEW j \in DOMAIN wire'[c], wire'[c][j].kind = "submit", i < j
                 PROVE  wire'[c][i].seq < wire'[c][j].seq
      BY <1>0 DEF AnswersInOrder, AnswersOn
    <3>1. i \in DOMAIN wire[c]
      BY <1>0, <2>k, <2>1
    <3>2. CASE j \in DOMAIN wire[c]
      BY <1>0, <2>1, <3>1, <3>2 DEF AnswersInOrder, AnswersOn
    <3>3. CASE j = k
      BY <2>1, <2>2, <3>1, <3>3 DEF AnswersOn
    <3> QED
      BY <2>1, <3>2, <3>3
  <2>6. NoAnswerAfterUnlink'
    <3> SUFFICES ASSUME NEW i \in DOMAIN wire'[c], wire'[c][i].kind = "unlink",
                        NEW j \in DOMAIN wire'[c], wire'[c][j].kind = "submit", i < j
                 PROVE  wire'[c][i].seq # wire'[c][j].seq
      BY <1>0 DEF NoAnswerAfterUnlink
    <3>1. i \in DOMAIN wire[c]
      BY <1>0, <2>k, <2>1
    <3>2. CASE j \in DOMAIN wire[c]
      BY <1>0, <2>1, <3>1, <3>2 DEF NoAnswerAfterUnlink
    <3>3. CASE j = k
      BY <2>1, <2>3, <3>1, <3>3
    <3> QED
      BY <2>1, <3>2, <3>3
  <2> QED
    BY <2>4, <2>5, <2>6
<1>3. ASSUME NEW n, WireGets(c, "submit", n), <<c, n>> \in HeldIds
      PROVE  WireAnswered(c)' /\ AnswersInOrder' /\ NoAnswerAfterUnlink'
  BY <1>2, <1>3
<1>4. ASSUME NEW n, WireGets(c, "unlink", n)
      PROVE  WireAnswered(c)' /\ AnswersInOrder' /\ NoAnswerAfterUnlink'
  BY <1>2, <1>4
<1> QED
  BY <1>1, <1>3, <1>4, WireMoves

\* The serve thread of the one connection does one thing at a time, in order.
LEMMA SerialInvariant ==
    ASSUME NEW c, Alone(c)
    PROVE  Spec => [](TypeOK /\ LifeInv /\ OrderInv /\ SerialInv(c))
<1>1. Init => SerialInv(c)
  <2> SUFFICES ASSUME Init PROVE SerialInv(c)
    OBVIOUS
  <2>1. c \in Conns /\ c \in Threads /\ c # NoThread /\ Conns = {c} /\ Threads = {c}
    BY ThreadAssumption DEF Alone, Threads
  <2>2. done[c] = <<>> /\ pc[c] = "new" /\ ~halted /\ wire = [d \in Conns |-> <<>>] /\ cv # c
    BY <2>1 DEF Init
  <2>3. \A d \in Conns : DOMAIN wire[d] = {}
    BY <2>2
  <2>4. AnsweredIds = {}
    BY <2>3 DEF AnsweredIds, AnswersOn, Urbs
  <2> QED
    BY <2>1, <2>2, <2>3, <2>4 DEF SerialInv, OneThing, DoneInLine, AnsweredFirst, UnlinkedGone,
       WireAnswered, AnswersInOrder, NoAnswerAfterUnlink, AnswersOn
<1>2. /\ TypeOK /\ TypeOK' /\ LifeInv /\ LifeInv' /\ OrderInv /\ NoLostWakeup /\ SerialInv(c)
      /\ [Next]_vars
      => SerialInv(c)'
  <2> SUFFICES ASSUME TypeOK, TypeOK', LifeInv, LifeInv', OrderInv, NoLostWakeup, SerialInv(c),
                      [Next]_vars
               PROVE  SerialInv(c)'
    OBVIOUS
  <2> USE DEF SerialInv
  <2>1. OneThing(c)'
    BY OneThingMoves
  <2>2. DoneInLine(c)'
    BY DoneLineMoves DEF OrderInv
  <2>3. AnsweredFirst'
    BY AnsweredFirstMoves
  <2>4. UnlinkedGone(c)'
    BY <2>1, UnlinkedMoves
  <2>5. WireAnswered(c)' /\ AnswersInOrder' /\ NoAnswerAfterUnlink'
    BY AnswersMove
  <2> QED
    BY <2>1, <2>2, <2>3, <2>4, <2>5
<1> QED
  BY <1>1, <1>2, OrderInvariant, WakeupCorrect, PTL DEF Spec

\* A device of one connection whose code runs in the serve thread completes URBs
\* in the order in which they were submitted: what `write` and `stall` take out
\* is completed before the next command is read.
THEOREM SerialOrder ==
    ASSUME NEW c, Alone(c)
    PROVE  Spec => []AnswersInOrder
<1>1. SerialInv(c) => AnswersInOrder
  BY DEF SerialInv
<1> QED
  BY <1>1, SerialInvariant, PTL

\* There a URB is not completed after its RET_UNLINK: `cancel` finds it in
\* _pending, or it was answered before (serve_connection, CMD_UNLINK).
THEOREM SerialUnlink ==
    ASSUME NEW c, Alone(c)
    PROVE  Spec => []NoAnswerAfterUnlink
<1>1. SerialInv(c) => NoAnswerAfterUnlink
  BY DEF SerialInv
<1> QED
  BY <1>1, SerialInvariant, PTL
=============================================================================
