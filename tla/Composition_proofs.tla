------------------------- MODULE Composition_proofs -------------------------
(***************************************************************************)
(* Proofs about Composition, for all kinds of functions, added in any      *)
(* order and number: they are numbered, wired and advertised apart, the    *)
(* host reads of each what the device does, and each answers for what the  *)
(* host reads of it.                                                       *)
(***************************************************************************)
EXTENDS Composition, Streams_proofs

-----------------------------------------------------------------------------
(* Functions on a device.  Every function has its interfaces, numbered     *)
(* once; an advertisement is for the device or for one of them.            *)

GroupSet == [kind : Kinds, ifs : Seq(Nat), block : BOOLEAN, string : Nat]
EntrySet == [scope : Nat, compatible : {"WINUSB", "MTP"}]

PartsTyped(d) ==
    /\ DOMAIN d = DOMAIN NewDevice
    /\ d.groups \in Seq(GroupSet)
    /\ d.numIfs \in Nat
    /\ d.msos \in Seq(EntrySet)
    /\ d.strings \in Seq(Nat \X Nat)

\* Interface numbers are given out once, from 0 on.
NumbersApart(d) ==
    /\ \A g \in Groups(d) : \A n \in IfsOf(d, g) : n < d.numIfs
    /\ \A g, h \in Groups(d) : g # h => IfsOf(d, g) \cap IfsOf(d, h) = {}
FirstIsZero(d) ==
    IF d.groups # <<>> /\ d.groups[1].ifs # <<>> THEN d.groups[1].ifs[1] = 0 ELSE d.numIfs = 0

\* An advertisement is for the device or for one of its functions, and is what
\* with a landing page makes the device a 2.1 one.
Advertised(d) ==
    /\ \A i \in DOMAIN d.msos : d.msos[i].scope = 0 \/ d.msos[i].scope \in Groups(d)
    /\ d.bcdUSB = IF d.msos = <<>> /\ d.webusb = {} THEN 2 ELSE 21

DeviceParts(d) == PartsTyped(d) /\ NumbersApart(d) /\ FirstIsZero(d) /\ Advertised(d)

\* Every function of a device has its interfaces once it was added.
Kept(d, state) ==
    /\ DeviceParts(d)
    /\ \A g \in Groups(d) : d.groups[g].ifs # <<>>
    /\ state = "no" => ~d.raised

FunctionsKept == Kept(dev, plugged)

\* The four devices of at most three steps.
Rungs(base, a, b, c) == [n \in 0 .. 3 |-> IF n = 0 THEN base ELSE IF n = 1 THEN a ELSE IF n = 2 THEN b ELSE c]

LEMMA RoutesInTurn ==
    ASSUME NEW d, NEW g, NEW i, NEW n \in 0 .. 3,
           Len(InterfacesOf[d.groups[g].kind][i]) = n
    PROVE  LET a == RouteOne(d, g, i, 1)
               b == RouteOne(a, g, i, 2)
               c == RouteOne(b, g, i, 3)
           IN  RouteEndpoints(d, g, i) = Rungs(d, a, b, c)[n]
<1> DEFINE Op(e, k) == RouteOne(e, g, i, k)
           a == Op(d, 1)
           b == Op(a, 2)
           c == Op(b, 3)
           Step(f) == [k \in 0 .. n |-> IF k = 0 THEN d ELSE Op(f[k - 1], k)]
           routed == CHOOSE f : f = Step(f)
           w == [k \in 0 .. n |-> Rungs(d, a, b, c)[k]]
<1>1. RouteEndpoints(d, g, i) = routed[n] BY DEF RouteEndpoints
<1> HIDE DEF Op
<1>2. \A k \in 0 .. n : Rungs(d, a, b, c)[k] = IF k = 0 THEN d ELSE Op(w[k - 1], k)
  <2> TAKE k \in 0 .. n
  <2> HIDE DEF a, b, c
  <2>1. k \in 0 .. 3 /\ (k # 0 => w[k - 1] = Rungs(d, a, b, c)[k - 1] /\ k - 1 \in 0 .. 2) OBVIOUS
  <2>2. /\ Rungs(d, a, b, c)[0] = d /\ Rungs(d, a, b, c)[1] = a
        /\ Rungs(d, a, b, c)[2] = b /\ Rungs(d, a, b, c)[3] = c BY DEF Rungs
  <2> HIDE DEF w
  <2>3. CASE k = 0 BY <2>2, <2>3
  <2>4. CASE k = 1 BY <2>1, <2>2, <2>4 DEF a
  <2>5. CASE k = 2 BY <2>1, <2>2, <2>5 DEF b
  <2>6. CASE k = 3 BY <2>1, <2>2, <2>6 DEF c
  <2> QED BY <2>1, <2>3, <2>4, <2>5, <2>6
<1>3. w = Step(w) BY <1>2, Zenon
<1>4. routed = Step(routed)
  <2> HIDE DEF Step, w
  <2> QED BY <1>3, Zenon
<1>5. \A k \in 0 .. n : routed[k] = IF k = 0 THEN d ELSE Op(routed[k - 1], k)
  <2> HIDE DEF routed
  <2> QED BY <1>4
<1> HIDE DEF routed, Step, w
<1>6. CASE n = 0
  <2>1. routed[0] = d BY <1>5, <1>6
  <2> QED BY <1>1, <1>6, <2>1 DEF Rungs
<1>7. CASE n = 1
  <2>1. routed[0] = d /\ routed[1] = Op(routed[0], 1) BY <1>5, <1>7
  <2> QED BY <1>1, <1>7, <2>1 DEF Rungs, Op
<1>8. CASE n = 2
  <2>1. routed[0] = d /\ routed[1] = Op(routed[0], 1) /\ routed[2] = Op(routed[1], 2) BY <1>5, <1>8
  <2> QED BY <1>1, <1>8, <2>1 DEF Rungs, Op
<1>9. CASE n = 3
  <2>1. /\ routed[0] = d /\ routed[1] = Op(routed[0], 1)
        /\ routed[2] = Op(routed[1], 2) /\ routed[3] = Op(routed[2], 3) BY <1>5, <1>9
  <2> QED BY <1>1, <1>9, <2>1 DEF Rungs, Op
<1> QED BY <1>6, <1>7, <1>8, <1>9

\* The interfaces of a function, one after another.
LEMMA InterfacesInTurn ==
    ASSUME NEW d, NEW g, NEW n \in 0 .. 3, Len(InterfacesOf[d.groups[g].kind]) = n
    PROVE  LET a == AttachInterface(d, g, 1)
               b == AttachInterface(a, g, 2)
               c == AttachInterface(b, g, 3)
           IN  AttachInterfaces(d, g) = Rungs(d, a, b, c)[n]
<1> DEFINE Op(e, k) == AttachInterface(e, g, k)
           a == Op(d, 1)
           b == Op(a, 2)
           c == Op(b, 3)
           Step(f) == [k \in 0 .. n |-> IF k = 0 THEN d ELSE Op(f[k - 1], k)]
           attached == CHOOSE f : f = Step(f)
           w == [k \in 0 .. n |-> Rungs(d, a, b, c)[k]]
<1>1. AttachInterfaces(d, g) = attached[n] BY DEF AttachInterfaces
<1> HIDE DEF Op
<1>2. \A k \in 0 .. n : Rungs(d, a, b, c)[k] = IF k = 0 THEN d ELSE Op(w[k - 1], k)
  <2> TAKE k \in 0 .. n
  <2> HIDE DEF a, b, c
  <2>1. k \in 0 .. 3 /\ (k # 0 => w[k - 1] = Rungs(d, a, b, c)[k - 1] /\ k - 1 \in 0 .. 2) OBVIOUS
  <2>2. /\ Rungs(d, a, b, c)[0] = d /\ Rungs(d, a, b, c)[1] = a
        /\ Rungs(d, a, b, c)[2] = b /\ Rungs(d, a, b, c)[3] = c BY DEF Rungs
  <2> HIDE DEF w
  <2>3. CASE k = 0 BY <2>2, <2>3
  <2>4. CASE k = 1 BY <2>1, <2>2, <2>4 DEF a
  <2>5. CASE k = 2 BY <2>1, <2>2, <2>5 DEF b
  <2>6. CASE k = 3 BY <2>1, <2>2, <2>6 DEF c
  <2> QED BY <2>1, <2>3, <2>4, <2>5, <2>6
<1>3. w = Step(w) BY <1>2, Zenon
<1>4. attached = Step(attached)
  <2> HIDE DEF Step, w
  <2> QED BY <1>3, Zenon
<1>5. \A k \in 0 .. n : attached[k] = IF k = 0 THEN d ELSE Op(attached[k - 1], k)
  <2> HIDE DEF attached
  <2> QED BY <1>4
<1> HIDE DEF attached, Step, w
<1>6. CASE n = 0
  <2>1. attached[0] = d BY <1>5, <1>6
  <2> QED BY <1>1, <1>6, <2>1 DEF Rungs
<1>7. CASE n = 1
  <2>1. attached[0] = d /\ attached[1] = Op(attached[0], 1) BY <1>5, <1>7
  <2> QED BY <1>1, <1>7, <2>1 DEF Rungs, Op
<1>8. CASE n = 2
  <2>1. attached[0] = d /\ attached[1] = Op(attached[0], 1) /\ attached[2] = Op(attached[1], 2) BY <1>5, <1>8
  <2> QED BY <1>1, <1>8, <2>1 DEF Rungs, Op
<1>9. CASE n = 3
  <2>1. /\ attached[0] = d /\ attached[1] = Op(attached[0], 1)
        /\ attached[2] = Op(attached[1], 2) /\ attached[3] = Op(attached[2], 3) BY <1>5, <1>9
  <2> QED BY <1>1, <1>9, <2>1 DEF Rungs, Op
<1> QED BY <1>6, <1>7, <1>8, <1>9

\* What functions declare: one interface to three, with at most three endpoints.
LEMMA Declared ==
    ASSUME NEW kind \in Kinds
    PROVE  /\ Len(InterfacesOf[kind]) \in 1 .. 3
           /\ \A i \in 1 .. Len(InterfacesOf[kind]) : Len(InterfacesOf[kind][i]) \in 0 .. 3
<1>1. CASE kind = "cdc" BY <1>1 DEF InterfacesOf
<1>2. CASE kind = "uac" BY <1>2 DEF InterfacesOf
<1>3. CASE kind = "uvc" BY <1>3 DEF InterfacesOf
<1>4. CASE kind = "bt" BY <1>4 DEF InterfacesOf
<1>5. CASE kind = "dfu" BY <1>5 DEF InterfacesOf
<1>6. CASE kind = "hid" BY <1>6 DEF InterfacesOf
<1>7. CASE kind = "msc" BY <1>7 DEF InterfacesOf
<1>8. CASE kind = "mtp" BY <1>8 DEF InterfacesOf
<1>9. CASE kind = "raw" BY <1>9 DEF InterfacesOf
<1> QED BY <1>1, <1>2, <1>3, <1>4, <1>5, <1>6, <1>7, <1>8, <1>9, CompositionAssumption

\* What the routing of endpoints and the registration of handlers leave alone.
SameParts(e, d) ==
    /\ DOMAIN e = DOMAIN d /\ e.groups = d.groups /\ e.numIfs = d.numIfs /\ e.msos = d.msos
    /\ e.codes = d.codes /\ e.webusb = d.webusb /\ e.bcdUSB = d.bcdUSB /\ e.strings = d.strings

LEMMA RouteOneKeeps ==
    ASSUME NEW d, DOMAIN d = DOMAIN NewDevice, NEW g, NEW i, NEW k
    PROVE  SameParts(RouteOne(d, g, i, k), d)
<1> DEFINE p == InterfacesOf[d.groups[g].kind][i][k]
           e == AdjustForSpeed(d, d.groups[g].kind, <<g, i, k>>, p)
<1>1. SameParts(e, d) /\ DOMAIN e = DOMAIN NewDevice
  BY DEF AdjustForSpeed, SameParts, NewDevice
<1> HIDE DEF p, e
<1>2. SameParts(RouteEndpoint(e, <<g, i, k>>, p), e)
  <2> DEFINE a == AddressFor(e, p)
             v == Insert(e.addr, <<g, i, k>>, a)
             w == Insert(e.epMap, a, <<g, i, k>>)
  <2>1. SameParts([e EXCEPT !.raised = TRUE], e) BY <1>1 DEF SameParts, NewDevice
  <2> HIDE DEF a, v, w
  <2>2. SameParts([e EXCEPT !.addr = v, !.epMap = w], e) BY <1>1 DEF SameParts, NewDevice
  <2> QED BY <2>1, <2>2 DEF RouteEndpoint, v, w, a
<1>3. SameParts(d, d) BY DEF SameParts
<1>4. SameParts(RouteEndpoint(e, <<g, i, k>>, p), d) BY <1>1, <1>2 DEF SameParts
<1> QED BY <1>3, <1>4 DEF RouteOne, e, p

LEMMA RoutingKeeps ==
    ASSUME NEW d, DOMAIN d = DOMAIN NewDevice, NEW g, NEW i,
           Len(InterfacesOf[d.groups[g].kind][i]) \in 0 .. 3
    PROVE  SameParts(RouteEndpoints(d, g, i), d)
<1> DEFINE a == RouteOne(d, g, i, 1)
           b == RouteOne(a, g, i, 2)
           c == RouteOne(b, g, i, 3)
           n == Len(InterfacesOf[d.groups[g].kind][i])
<1>1. RouteEndpoints(d, g, i) = Rungs(d, a, b, c)[n] BY RoutesInTurn
<1>2. SameParts(d, d) BY DEF SameParts
<1>3. SameParts(a, d) BY RouteOneKeeps
<1> HIDE DEF a
<1>4. SameParts(b, a) BY <1>3, RouteOneKeeps DEF SameParts
<1> HIDE DEF b
<1>5. SameParts(c, b) BY <1>3, <1>4, RouteOneKeeps DEF SameParts
<1> HIDE DEF c
<1>6. SameParts(b, d) /\ SameParts(c, d) BY <1>3, <1>4, <1>5 DEF SameParts
<1> HIDE DEF n
<1>7. CASE n = 0 BY <1>1, <1>2, <1>7 DEF Rungs
<1>8. CASE n = 1 BY <1>1, <1>3, <1>8 DEF Rungs
<1>9. CASE n = 2 BY <1>1, <1>6, <1>9 DEF Rungs
<1>10. CASE n = 3 BY <1>1, <1>6, <1>10 DEF Rungs
<1>11. n \in 0 .. 3 BY DEF n
<1> QED BY <1>7, <1>8, <1>9, <1>10, <1>11

\* An interface of a function takes the next number, whatever becomes of its endpoints.
LEMMA AttachingClaims ==
    ASSUME NEW d, DOMAIN d = DOMAIN NewDevice, ~d.raised,
           d.groups \in Seq(GroupSet), NEW g \in DOMAIN d.groups,
           NEW i \in 1 .. Len(InterfacesOf[d.groups[g].kind])
    PROVE  SameParts(AttachInterface(d, g, i), ClaimInterface(d, g))
<1> DEFINE c == ClaimInterface(d, g)
           e == RouteEndpoints(c, g, i)
<1>1. /\ DOMAIN c = DOMAIN NewDevice
      /\ c.groups = [d.groups EXCEPT ![g].ifs = Append(@, d.numIfs)]
  BY DEF ClaimInterface, NewDevice
<1>2. d.groups[g] \in GroupSet /\ d.groups[g].kind \in Kinds
  <2>1. g \in 1 .. Len(d.groups) OBVIOUS
  <2>2. d.groups[g] \in GroupSet BY <2>1, ElementOfSeq
  <2> QED BY <2>2 DEF GroupSet
<1>3. c.groups[g].kind = d.groups[g].kind BY <1>1, <1>2 DEF GroupSet
<1> HIDE DEF c
<1>4. Len(InterfacesOf[c.groups[g].kind][i]) \in 0 .. 3 BY <1>2, <1>3, Declared
<1>5. SameParts(e, c) BY <1>1, <1>4, RoutingKeeps
<1> HIDE DEF e
<1>6. DOMAIN e = DOMAIN NewDevice BY <1>1, <1>5 DEF SameParts
<1> DEFINE x == OnControl(e, d.numIfs, <<g, i>>)
           y == Insert(e.alts, d.numIfs, <<g, i>>)
           z == e.hooks \cup {<<g, i>>}
<1> HIDE DEF x, y, z
<1>7. SameParts([e EXCEPT !.ctrl = x, !.alts = y, !.hooks = z], e) BY <1>6 DEF SameParts, NewDevice
<1>8. SameParts([e EXCEPT !.ctrl = x, !.alts = y, !.hooks = z], c) BY <1>5, <1>7 DEF SameParts
<1>9. \/ AttachInterface(d, g, i) = e
      \/ AttachInterface(d, g, i) = [e EXCEPT !.ctrl = x, !.alts = y, !.hooks = z]
  BY DEF AttachInterface, c, e, x, y, z
<1> QED BY <1>5, <1>8, <1>9 DEF c

LEMMA OneMore ==
    ASSUME NEW s \in Seq(Nat), NEW n \in Nat
    PROVE  /\ Append(s, n) # <<>> /\ Append(s, n)[1] = IF s = <<>> THEN n ELSE s[1]
           /\ {Append(s, n)[i] : i \in DOMAIN Append(s, n)} = {s[i] : i \in DOMAIN s} \cup {n}
<1> DEFINE t == Append(s, n)
<1>1. /\ Len(s) \in Nat /\ DOMAIN s = 1 .. Len(s) /\ DOMAIN t = 1 .. (Len(s) + 1)
      /\ t[Len(s) + 1] = n /\ \A i \in 1 .. Len(s) : t[i] = s[i]
      /\ t \in Seq(Nat) /\ Len(t) = Len(s) + 1
  BY AppendProperties
<1> HIDE DEF t
<1>2. t # <<>>
  <2>1. 1 \in DOMAIN t BY <1>1
  <2> QED BY <2>1
<1>3. s = <<>> <=> Len(s) = 0 BY EmptySeq
<1>4. t[1] = IF s = <<>> THEN n ELSE s[1]
  <2>1. CASE Len(s) = 0 BY <1>1, <1>3, <2>1
  <2>2. CASE Len(s) # 0
    <3>1. 1 \in 1 .. Len(s) BY <1>1, <2>2
    <3> QED BY <1>1, <1>3, <2>2, <3>1
  <2> QED BY <2>1, <2>2
<1>5. {t[i] : i \in DOMAIN t} = {s[i] : i \in DOMAIN s} \cup {n}
  <2>1. DOMAIN t = DOMAIN s \cup {Len(s) + 1} BY <1>1
  <2>2. \A i \in DOMAIN s : t[i] = s[i] BY <1>1
  <2>3. t[Len(s) + 1] = n BY <1>1
  <2> DEFINE last == Len(s) + 1
  <2> HIDE DEF last
  <2>4. DOMAIN t = DOMAIN s \cup {last} /\ t[last] = n BY <2>1, <2>3 DEF last
  <2> QED BY <2>2, <2>4, Zenon
<1> QED BY <1>2, <1>4, <1>5 DEF t

\* One number more for a function: apart from all that were given out.
LEMMA ClaimingKeeps ==
    ASSUME NEW d, DeviceParts(d), NEW g \in Groups(d), g # 1 => d.groups[1].ifs # <<>>
    PROVE  LET c == ClaimInterface(d, g)
           IN  /\ DeviceParts(c) /\ c.groups[g].ifs # <<>>
               /\ DOMAIN c.groups = DOMAIN d.groups /\ c.groups[g].kind = d.groups[g].kind
               /\ \A h \in Groups(d) : h # g => c.groups[h] = d.groups[h]
<1> DEFINE c == ClaimInterface(d, g)
           n == d.numIfs
           old == d.groups[g].ifs
<1>1. /\ DOMAIN d = DOMAIN NewDevice /\ d.groups \in Seq(GroupSet) /\ n \in Nat
      /\ d.msos \in Seq(EntrySet) /\ d.strings \in Seq(Nat \X Nat)
  BY DEF DeviceParts, PartsTyped
<1>2. /\ DOMAIN c = DOMAIN NewDevice /\ c.numIfs = n + 1
      /\ c.groups = [d.groups EXCEPT ![g] = [d.groups[g] EXCEPT !.ifs = Append(old, n)]]
      /\ c.msos = d.msos /\ c.webusb = d.webusb /\ c.bcdUSB = d.bcdUSB /\ c.strings = d.strings
  BY <1>1 DEF ClaimInterface, NewDevice
<1> HIDE DEF c
<1>3. g \in 1 .. Len(d.groups) /\ DOMAIN d.groups = 1 .. Len(d.groups) BY <1>1 DEF Groups
<1>4. /\ d.groups[g] \in GroupSet /\ d.groups[g].kind \in Kinds /\ old \in Seq(Nat)
  <2>1. d.groups[g] \in GroupSet BY <1>1, <1>3, ElementOfSeq
  <2> QED BY <2>1 DEF GroupSet
<1>5. Append(old, n) \in Seq(Nat) BY <1>1, <1>4
<1> DEFINE r == [d.groups[g] EXCEPT !.ifs = Append(old, n)]
<1>6. r \in GroupSet /\ r.ifs = Append(old, n) /\ r.kind = d.groups[g].kind BY <1>4, <1>5 DEF GroupSet
<1> HIDE DEF r
<1>7. /\ c.groups \in Seq(GroupSet) /\ DOMAIN c.groups = DOMAIN d.groups /\ c.groups[g] = r
      /\ \A h \in Groups(d) : h # g => c.groups[h] = d.groups[h]
  <2>1. c.groups = [d.groups EXCEPT ![g] = r] BY <1>2 DEF r
  <2>2. c.groups \in Seq(GroupSet) BY <1>1, <1>3, <1>6, <2>1, ExceptSeq
  <2> QED BY <1>1, <1>3, <2>1, <2>2 DEF Groups
<1>8. IfsOf(c, g) = IfsOf(d, g) \cup {n} /\ \A h \in Groups(d) : h # g => IfsOf(c, h) = IfsOf(d, h)
  <2>1. {Append(old, n)[i] : i \in DOMAIN Append(old, n)} = {old[i] : i \in DOMAIN old} \cup {n}
    BY <1>1, <1>4, OneMore
  <2>2. IfsOf(c, g) = {r.ifs[i] : i \in DOMAIN r.ifs} BY <1>7 DEF IfsOf
  <2>3. IfsOf(c, g) = IfsOf(d, g) \cup {n} BY <1>6, <2>1, <2>2 DEF IfsOf
  <2>4. \A h \in Groups(d) : h # g => IfsOf(c, h) = IfsOf(d, h) BY <1>7 DEF IfsOf
  <2> QED BY <2>3, <2>4
<1>9. PartsTyped(c) BY <1>1, <1>2, <1>7 DEF PartsTyped
<1>10. NumbersApart(c)
  <2>1. /\ \A h \in Groups(d) : \A x \in IfsOf(d, h) : x < n
        /\ \A h, k \in Groups(d) : h # k => IfsOf(d, h) \cap IfsOf(d, k) = {}
    BY DEF DeviceParts, NumbersApart
  <2>2. Groups(c) = Groups(d) BY <1>7 DEF Groups
  <2>3. ASSUME NEW h \in Groups(d), NEW x \in IfsOf(c, h) PROVE x < n + 1
    <3>1. x \in IfsOf(d, h) \/ x = n BY <1>8
    <3>2. CASE x = n BY <1>1, <3>2
    <3>3. CASE x \in IfsOf(d, h)
      <4>1. h \in 1 .. Len(d.groups) BY <1>3 DEF Groups
      <4>2. d.groups[h] \in GroupSet BY <1>1, <4>1, ElementOfSeq
      <4>3. d.groups[h].ifs \in Seq(Nat) BY <4>2 DEF GroupSet
      <4>4. PICK i \in DOMAIN d.groups[h].ifs : x = d.groups[h].ifs[i] BY <3>3 DEF IfsOf
      <4>5. x \in Nat
        <5>1. i \in 1 .. Len(d.groups[h].ifs) BY <4>3, <4>4
        <5> QED BY <4>3, <4>4, <5>1, ElementOfSeq
      <4> QED BY <1>1, <2>1, <3>3, <4>5
    <3> QED BY <3>1, <3>2, <3>3
  <2>4. ASSUME NEW h \in Groups(d), h # g PROVE n \notin IfsOf(d, h)
    BY <1>1, <2>1
  <2>5. ASSUME NEW h \in Groups(d), NEW k \in Groups(d), h # k
        PROVE  IfsOf(c, h) \cap IfsOf(c, k) = {}
    <3>1. IfsOf(d, h) \cap IfsOf(d, k) = {} BY <2>1, <2>5
    <3>2. CASE h # g /\ k # g BY <1>8, <3>1, <3>2
    <3>3. CASE h = g
      <4>1. n \notin IfsOf(d, k) BY <2>4, <2>5, <3>3
      <4> QED BY <1>8, <2>5, <3>1, <3>3, <4>1
    <3>4. CASE k = g
      <4>1. n \notin IfsOf(d, h) BY <2>4, <2>5, <3>4
      <4> QED BY <1>8, <2>5, <3>1, <3>4, <4>1
    <3> QED BY <3>2, <3>3, <3>4
  <2> QED BY <1>2, <2>2, <2>3, <2>5 DEF NumbersApart
<1>11. r.ifs # <<>> /\ (old # <<>> => r.ifs[1] = old[1]) /\ (old = <<>> => r.ifs[1] = n)
  <2>1. Append(old, n) # <<>> /\ Append(old, n)[1] = IF old = <<>> THEN n ELSE old[1]
    BY <1>1, <1>4, OneMore
  <2> QED BY <1>6, <2>1
<1>12. FirstIsZero(c)
  <2>1. d.groups # <<>> /\ 1 \in Groups(d) BY <1>1, <1>3 DEF Groups
  <2>2. c.groups # <<>> BY <1>3, <1>7
  <2>3. CASE g = 1 BY <1>7, <1>11, <2>1, <2>2, <2>3 DEF DeviceParts, FirstIsZero
  <2>4. CASE g # 1
    <3>1. c.groups[1] = d.groups[1] BY <1>7, <2>1, <2>4
    <3> QED BY <2>1, <2>2, <2>4, <3>1 DEF DeviceParts, FirstIsZero
  <2> QED BY <2>3, <2>4
<1>13. Advertised(c) BY <1>2, <1>7 DEF DeviceParts, Advertised, Groups
<1> QED BY <1>6, <1>7, <1>9, <1>10, <1>11, <1>12, <1>13 DEF DeviceParts, c

\* What the parts are made of.
LEMMA SamePartsKept ==
    ASSUME NEW d, NEW e, SameParts(e, d), DeviceParts(d)
    PROVE  DeviceParts(e)
<1>1. PartsTyped(e) BY DEF SameParts, DeviceParts, PartsTyped
<1>2. NumbersApart(e) BY DEF SameParts, DeviceParts, NumbersApart, IfsOf, Groups
<1>3. FirstIsZero(e) BY DEF SameParts, DeviceParts, FirstIsZero
<1>4. Advertised(e) BY DEF SameParts, DeviceParts, Advertised, Groups
<1> QED BY <1>1, <1>2, <1>3, <1>4 DEF DeviceParts

\* A device that grows by interfaces of its function g.
Grown(e, d, g) ==
    /\ DeviceParts(e) /\ e.groups[g].ifs # <<>>
    /\ DOMAIN e.groups = DOMAIN d.groups /\ e.groups[g].kind = d.groups[g].kind
    /\ \A h \in Groups(d) : h # g => e.groups[h] = d.groups[h]

LEMMA AttachingGrows ==
    ASSUME NEW d, DeviceParts(d), NEW g \in Groups(d), g # 1 => d.groups[1].ifs # <<>>,
           d.raised => d.groups[g].ifs # <<>>,
           NEW i \in 1 .. Len(InterfacesOf[d.groups[g].kind])
    PROVE  Grown(AttachInterface(d, g, i), d, g)
<1>1. CASE d.raised
  <2>1. AttachInterface(d, g, i) = d BY <1>1 DEF AttachInterface
  <2> QED BY <1>1, <2>1 DEF Grown
<1>2. CASE ~d.raised
  <2> DEFINE c == ClaimInterface(d, g)
             e == AttachInterface(d, g, i)
  <2>1. SameParts(e, c)
    <3>1. DOMAIN d = DOMAIN NewDevice /\ d.groups \in Seq(GroupSet) BY DEF DeviceParts, PartsTyped
    <3> QED BY <1>2, <3>1, AttachingClaims DEF Groups
  <2>2. /\ DeviceParts(c) /\ c.groups[g].ifs # <<>>
        /\ DOMAIN c.groups = DOMAIN d.groups /\ c.groups[g].kind = d.groups[g].kind
        /\ \A h \in Groups(d) : h # g => c.groups[h] = d.groups[h]
    BY ClaimingKeeps
  <2> HIDE DEF c, e
  <2>3. DeviceParts(e) BY <2>1, <2>2, SamePartsKept
  <2>4. e.groups = c.groups BY <2>1 DEF SameParts
  <2> QED BY <2>2, <2>3, <2>4 DEF Grown, e
<1> QED BY <1>1, <1>2

LEMMA AttachingAllGrows ==
    ASSUME NEW d, DeviceParts(d), ~d.raised, NEW g \in Groups(d), g # 1 => d.groups[1].ifs # <<>>
    PROVE  Grown(AttachInterfaces(d, g), d, g)
<1> DEFINE kind == d.groups[g].kind
           n == Len(InterfacesOf[kind])
           a == AttachInterface(d, g, 1)
           b == AttachInterface(a, g, 2)
           c == AttachInterface(b, g, 3)
<1>1. n \in 1 .. 3
  <2>1. d.groups \in Seq(GroupSet) BY DEF DeviceParts, PartsTyped
  <2>2. g \in 1 .. Len(d.groups) BY <2>1 DEF Groups
  <2>3. d.groups[g] \in GroupSet BY <2>1, <2>2, ElementOfSeq
  <2>4. kind \in Kinds BY <2>3 DEF GroupSet
  <2> QED BY <2>4, Declared
<1>2. AttachInterfaces(d, g) = Rungs(d, a, b, c)[n]
  <2>1. Len(InterfacesOf[d.groups[g].kind]) \in 0 .. 3 BY <1>1
  <2> QED BY <2>1, InterfacesInTurn
<1> HIDE DEF n
<1>3. Grown(a, d, g)
  <2>1. 1 \in 1 .. n BY <1>1
  <2> QED BY <2>1, AttachingGrows DEF n
<1> HIDE DEF a
<1>4. n \in 2 .. 3 => Grown(b, d, g)
  <2>1. SUFFICES ASSUME n \in 2 .. 3 PROVE Grown(b, d, g) OBVIOUS
  <2>2. 2 \in 1 .. n BY <2>1
  <2>3. Grown(b, a, g)
    <3>1. DeviceParts(a) /\ g \in Groups(a) /\ a.groups[g].ifs # <<>> BY <1>3 DEF Grown, Groups
    <3>2. g # 1 => a.groups[1].ifs # <<>>
      <4>1. 1 \in Groups(d)
        <5>1. d.groups \in Seq(GroupSet) BY DEF DeviceParts, PartsTyped
        <5> QED BY <5>1 DEF Groups
      <4> QED BY <1>3, <4>1 DEF Grown
    <3>3. 2 \in 1 .. Len(InterfacesOf[a.groups[g].kind]) BY <1>3, <2>2 DEF Grown, n
    <3> QED BY <3>1, <3>2, <3>3, AttachingGrows
  <2> HIDE DEF b
  <2> QED BY <1>3, <2>3 DEF Grown, Groups
<1>5. n = 3 => Grown(c, d, g)
  <2>1. SUFFICES ASSUME n = 3 PROVE Grown(c, d, g) OBVIOUS
  <2>2. 3 \in 1 .. n /\ Grown(b, d, g) BY <1>4, <2>1
  <2> HIDE DEF b
  <2>3. Grown(c, b, g)
    <3>1. DeviceParts(b) /\ g \in Groups(b) /\ b.groups[g].ifs # <<>> BY <2>2 DEF Grown, Groups
    <3>2. g # 1 => b.groups[1].ifs # <<>>
      <4>1. 1 \in Groups(d)
        <5>1. d.groups \in Seq(GroupSet) BY DEF DeviceParts, PartsTyped
        <5> QED BY <5>1 DEF Groups
      <4> QED BY <2>2, <4>1 DEF Grown
    <3>3. 3 \in 1 .. Len(InterfacesOf[b.groups[g].kind]) BY <2>2 DEF Grown, n
    <3> QED BY <3>1, <3>2, <3>3, AttachingGrows
  <2> HIDE DEF c
  <2> QED BY <2>2, <2>3 DEF Grown, Groups
<1> HIDE DEF b, c
<1>6. CASE n = 1 BY <1>2, <1>3, <1>6 DEF Rungs
<1>7. CASE n = 2 BY <1>2, <1>4, <1>7 DEF Rungs
<1>8. CASE n = 3 BY <1>2, <1>5, <1>8 DEF Rungs
<1> QED BY <1>1, <1>6, <1>7, <1>8

\* A device with the same functions, interfaces and advertisements.
SameNumbers(e, d) ==
    /\ DOMAIN e = DOMAIN NewDevice /\ e.raised = d.raised
    /\ e.groups \in Seq(GroupSet) /\ DOMAIN e.groups = DOMAIN d.groups
    /\ \A h \in Groups(d) : e.groups[h].ifs = d.groups[h].ifs
    /\ e.numIfs = d.numIfs /\ e.strings \in Seq(Nat \X Nat)
    /\ e.msos = d.msos /\ e.webusb = d.webusb /\ e.bcdUSB = d.bcdUSB

LEMMA SameNumbersKept ==
    ASSUME NEW d, NEW e, SameNumbers(e, d), DeviceParts(d)
    PROVE  DeviceParts(e)
<1>1. Groups(e) = Groups(d) /\ \A h \in Groups(d) : IfsOf(e, h) = IfsOf(d, h)
  BY DEF SameNumbers, Groups, IfsOf
<1>2. PartsTyped(e) BY DEF SameNumbers, DeviceParts, PartsTyped
<1>3. NumbersApart(e)
  <2>1. e.numIfs = d.numIfs BY DEF SameNumbers
  <2> QED BY <1>1, <2>1, Zenon DEF DeviceParts, NumbersApart
<1>4. FirstIsZero(e)
  <2>1. d.groups \in Seq(GroupSet) /\ e.groups \in Seq(GroupSet) BY DEF SameNumbers, DeviceParts, PartsTyped
  <2>2. Len(e.groups) = Len(d.groups) BY <1>1, <2>1 DEF Groups
  <2>3. e.groups = <<>> <=> d.groups = <<>> BY <2>1, <2>2, EmptySeq
  <2>4. d.groups # <<>> => 1 \in Groups(d) BY <2>1, EmptySeq DEF Groups
  <2>5. d.groups # <<>> => e.groups[1].ifs = d.groups[1].ifs BY <2>4 DEF SameNumbers
  <2> QED BY <2>3, <2>5 DEF SameNumbers, DeviceParts, FirstIsZero
<1>5. Advertised(e) BY <1>1 DEF SameNumbers, DeviceParts, Advertised
<1> QED BY <1>2, <1>3, <1>4, <1>5 DEF DeviceParts

LEMMA SameNumbersOfSelf ==
    ASSUME NEW d, DeviceParts(d)
    PROVE  SameNumbers(d, d)
BY DEF DeviceParts, PartsTyped, SameNumbers

LEMMA TripleKeeps ==
    ASSUME NEW d, DeviceParts(d), NEW t
    PROVE  SameNumbers(SetDeviceTriple(d, t), d)
<1>1. SameNumbers([d EXCEPT !.triple = t], d)
  BY DEF DeviceParts, PartsTyped, SameNumbers, NewDevice
<1> QED BY <1>1, SameNumbersOfSelf DEF SetDeviceTriple

\* enable_msos, for the device or for one of its functions.
LEMMA AdvertisingKeeps ==
    ASSUME NEW d, DeviceParts(d), NEW scope \in Nat, scope = 0 \/ scope \in Groups(d),
           NEW compatible \in {"WINUSB", "MTP"}
    PROVE  LET e == EnableMsos(d, scope, compatible)
           IN  DeviceParts(e) /\ e.groups = d.groups /\ e.raised = d.raised
<1> DEFINE e == EnableMsos(d, scope, compatible)
           entry == [scope |-> scope, compatible |-> compatible]
           replaced == [i \in DOMAIN d.msos |-> IF d.msos[i].scope = scope THEN entry ELSE d.msos[i]]
           new == IF \E i \in DOMAIN d.msos : d.msos[i].scope = scope THEN replaced ELSE Append(d.msos, entry)
<1>1. DOMAIN d = DOMAIN NewDevice /\ d.msos \in Seq(EntrySet) BY DEF DeviceParts, PartsTyped
<1>2. entry \in EntrySet /\ entry.scope = scope BY DEF EntrySet
<1> HIDE DEF entry
<1>3. e = [d EXCEPT !.msos = new, !.bcdUSB = 21] BY DEF EnableMsos, entry
<1>4. \A i \in DOMAIN d.msos : d.msos[i] \in EntrySet BY <1>1, ElementOfSeq
<1> DEFINE Covers(m) == /\ m \in Seq(EntrySet) /\ m # <<>>
                        /\ \A i \in DOMAIN m : m[i].scope = 0 \/ m[i].scope \in Groups(d)
<1>5. ASSUME \E i \in DOMAIN d.msos : d.msos[i].scope = scope PROVE Covers(new)
  <2>1. new = replaced BY <1>5
  <2>2. replaced \in Seq(EntrySet)
    <3>1. DOMAIN d.msos = 1 .. Len(d.msos) /\ Len(d.msos) \in Nat BY <1>1
    <3>2. \A i \in DOMAIN d.msos : replaced[i] \in EntrySet BY <1>2, <1>4
    <3>3. replaced = [i \in 1 .. Len(d.msos) |-> replaced[i]] BY <3>1
    <3> HIDE DEF replaced
    <3> QED BY <3>1, <3>2, <3>3, IsASeq
  <2>3. replaced # <<>>
    <3>1. PICK i \in DOMAIN d.msos : TRUE BY <1>5
    <3>2. i \in DOMAIN replaced BY <3>1
    <3> HIDE DEF replaced
    <3> QED BY <3>2
  <2>4. \A i \in DOMAIN replaced : replaced[i].scope = 0 \/ replaced[i].scope \in Groups(d)
    BY <1>2 DEF DeviceParts, Advertised
  <2> HIDE DEF replaced, new
  <2>5. new \in Seq(EntrySet) /\ new # <<>> BY <2>1, <2>2, <2>3
  <2>6. \A i \in DOMAIN new : new[i].scope = 0 \/ new[i].scope \in Groups(d) BY <2>1, <2>4
  <2> QED BY <2>5, <2>6
<1>6. ASSUME ~\E i \in DOMAIN d.msos : d.msos[i].scope = scope PROVE Covers(new)
  <2> DEFINE longer == Append(d.msos, entry)
  <2>1. new = longer BY <1>6
  <2>2. /\ longer \in Seq(EntrySet) /\ longer # <<>>
        /\ DOMAIN longer = 1 .. (Len(d.msos) + 1) /\ Len(d.msos) \in Nat
        /\ longer[Len(d.msos) + 1] = entry /\ \A i \in 1 .. Len(d.msos) : longer[i] = d.msos[i]
    <3>1. /\ longer \in Seq(EntrySet) /\ Len(longer) = Len(d.msos) + 1 /\ Len(d.msos) \in Nat
          /\ longer[Len(d.msos) + 1] = entry /\ \A i \in 1 .. Len(d.msos) : longer[i] = d.msos[i]
      BY <1>1, <1>2, AppendProperties
    <3> HIDE DEF longer
    <3>2. longer # <<>> BY <3>1, EmptySeq
    <3> QED BY <3>1, <3>2
  <2> HIDE DEF longer, new
  <2>3. \A i \in DOMAIN longer : longer[i].scope = 0 \/ longer[i].scope \in Groups(d)
    <3>1. TAKE i \in DOMAIN longer
    <3>2. CASE i = Len(d.msos) + 1 BY <1>2, <2>2, <3>2
    <3>3. CASE i # Len(d.msos) + 1
      <4>1. i \in 1 .. Len(d.msos) BY <2>2, <3>3
      <4>2. i \in DOMAIN d.msos BY <1>1, <4>1
      <4> QED BY <2>2, <4>1, <4>2 DEF DeviceParts, Advertised
    <3> QED BY <3>2, <3>3
  <2>4. /\ new \in Seq(EntrySet) /\ new # <<>>
        /\ \A i \in DOMAIN new : new[i].scope = 0 \/ new[i].scope \in Groups(d)
    BY <2>1, <2>2, <2>3
  <2> QED BY <2>4
<1>7. Covers(new)
  <2> HIDE DEF new
  <2> QED BY <1>5, <1>6
<1> HIDE DEF new, e
<1>8. /\ DOMAIN e = DOMAIN NewDevice /\ e.groups = d.groups /\ e.numIfs = d.numIfs
      /\ e.strings = d.strings /\ e.raised = d.raised /\ e.msos = new /\ e.bcdUSB = 21
  BY <1>1, <1>3 DEF NewDevice
<1>9. PartsTyped(e) BY <1>7, <1>8 DEF DeviceParts, PartsTyped
<1>10. NumbersApart(e) /\ FirstIsZero(e)
  <2>1. Groups(e) = Groups(d) /\ \A h \in Groups(d) : IfsOf(e, h) = IfsOf(d, h)
    BY <1>8 DEF Groups, IfsOf
  <2>2. NumbersApart(e) BY <1>8, <2>1, Zenon DEF DeviceParts, NumbersApart
  <2>3. FirstIsZero(e) BY <1>8 DEF DeviceParts, FirstIsZero
  <2> QED BY <2>2, <2>3
<1>11. Advertised(e) BY <1>7, <1>8 DEF Advertised, Groups
<1> QED BY <1>8, <1>9, <1>10, <1>11 DEF DeviceParts, e

\* A function may be given anything but other numbers.
LEMMA ChangingGroupKeeps ==
    ASSUME NEW d, DeviceParts(d), NEW g \in Groups(d), NEW r \in GroupSet, r.ifs = d.groups[g].ifs,
           NEW strings \in Seq(Nat \X Nat)
    PROVE  LET e == [d EXCEPT !.groups = [@ EXCEPT ![g] = r], !.strings = strings]
           IN  SameNumbers(e, d) /\ e.groups[g] = r
<1> DEFINE x == [d.groups EXCEPT ![g] = r]
<1>1. d.groups \in Seq(GroupSet) /\ DOMAIN d = DOMAIN NewDevice BY DEF DeviceParts, PartsTyped
<1>2. g \in 1 .. Len(d.groups) BY <1>1 DEF Groups
<1>3. /\ x \in Seq(GroupSet) /\ DOMAIN x = DOMAIN d.groups /\ x[g] = r
      /\ \A h \in Groups(d) : x[h].ifs = d.groups[h].ifs
  <2>1. x \in Seq(GroupSet) BY <1>1, <1>2, ExceptSeq
  <2> QED BY <1>1, <1>2, <2>1 DEF Groups
<1> HIDE DEF x
<1>4. SameNumbers([d EXCEPT !.groups = x, !.strings = strings], d)
  BY <1>1, <1>3 DEF SameNumbers, NewDevice
<1>5. [d EXCEPT !.groups = x, !.strings = strings].groups = x BY <1>1 DEF NewDevice
<1> QED BY <1>3, <1>4, <1>5 DEF x

\* _on_added gives a function its label and its driver.
LEMMA OnAddedKeeps ==
    ASSUME NEW d, DeviceParts(d), NEW g \in Groups(d)
    PROVE  LET e == OnAdded(d, g)
           IN  DeviceParts(e) /\ DOMAIN e.groups = DOMAIN d.groups /\ e.raised = d.raised
               /\ \A h \in Groups(d) : e.groups[h].ifs = d.groups[h].ifs
<1> DEFINE kind == d.groups[g].kind
           own == OwnCompatible(kind)
           string == IF Labels(g, kind) = <<>> THEN 0 ELSE Len(d.strings) + 1
           strings == d.strings \o Labels(g, kind)
           r == [d.groups[g] EXCEPT !.string = string]
           e == [d EXCEPT !.groups[g].string = string, !.strings = strings]
<1>1. d.groups \in Seq(GroupSet) /\ DOMAIN d = DOMAIN NewDevice /\ d.strings \in Seq(Nat \X Nat)
  BY DEF DeviceParts, PartsTyped
<1>2. g \in 1 .. Len(d.groups) /\ g \in Nat BY <1>1 DEF Groups
<1>3. d.groups[g] \in GroupSet BY <1>1, <1>2, ElementOfSeq
<1>4. strings \in Seq(Nat \X Nat)
  <2>1. Labels(g, kind) \in Seq(Nat \X Nat)
    <3>1. <<g, 0>> \in Nat \X Nat /\ <<g, 1>> \in Nat \X Nat BY <1>2
    <3>2. <<<<g, 0>>>> \in Seq(Nat \X Nat) /\ <<<<g, 0>>, <<g, 1>>>> \in Seq(Nat \X Nat) BY <3>1
    <3>3. <<>> \in Seq(Nat \X Nat) OBVIOUS
    <3> HIDE DEF kind
    <3> QED BY <3>2, <3>3, Zenon DEF Labels
  <2> QED BY <1>1, <2>1, ConcatProperties
<1>5. string \in Nat BY <1>1
<1> HIDE DEF string, strings
<1>6. r \in GroupSet /\ r.ifs = d.groups[g].ifs BY <1>3, <1>5 DEF GroupSet
<1>7. e = [d EXCEPT !.groups = [@ EXCEPT ![g] = r], !.strings = strings] BY <1>1 DEF NewDevice
<1> HIDE DEF r
<1>8. SameNumbers(e, d) BY <1>4, <1>6, <1>7, ChangingGroupKeeps
<1>9. DeviceParts(e) BY <1>8, SameNumbersKept
<1> HIDE DEF e
<1>10. OnAdded(d, g) = IF kind = "cdc" /\ ~d.composite THEN SetDeviceTriple(e, "cdc")
                       ELSE IF own # <<>> THEN EnableMsos(e, g, own[1]) ELSE e
  BY DEF OnAdded, e, string, strings
<1>11. CASE OnAdded(d, g) = e BY <1>8, <1>9, <1>11 DEF SameNumbers
<1>12. CASE OnAdded(d, g) = SetDeviceTriple(e, "cdc")
  <2>1. SameNumbers(SetDeviceTriple(e, "cdc"), e) BY <1>9, TripleKeeps
  <2>2. DeviceParts(SetDeviceTriple(e, "cdc")) BY <1>9, <2>1, SameNumbersKept
  <2> QED BY <1>8, <1>12, <2>1, <2>2 DEF SameNumbers, Groups
<1>13. CASE own # <<>> /\ OnAdded(d, g) = EnableMsos(e, g, own[1])
  <2>1. own[1] \in {"WINUSB", "MTP"} BY <1>13 DEF OwnCompatible
  <2>2. g \in Groups(e) BY <1>8 DEF SameNumbers, Groups
  <2> HIDE DEF own
  <2>3. DeviceParts(EnableMsos(e, g, own[1])) /\ EnableMsos(e, g, own[1]).groups = e.groups
        /\ EnableMsos(e, g, own[1]).raised = e.raised
    BY <1>2, <1>9, <2>1, <2>2, AdvertisingKeeps
  <2> QED BY <1>8, <1>13, <2>3 DEF SameNumbers
<1> QED BY <1>10, <1>11, <1>12, <1>13

\* Function._attach: a function is there with its interfaces, or the add raised
\* and the application goes no further.
LEMMA AddingKeeps ==
    ASSUME NEW d, DeviceParts(d), ~d.raised, NEW kind \in Kinds,
           \A g \in Groups(d) : d.groups[g].ifs # <<>>
    PROVE  LET e == Attach(d, kind)
           IN  DeviceParts(e) /\ \A g \in Groups(e) : e.groups[g].ifs # <<>>
<1> DEFINE g == Len(d.groups) + 1
           new == [kind |-> kind, ifs |-> <<>>, block |-> FALSE, string |-> 0]
           longer == Append(d.groups, new)
           opened == [d EXCEPT !.groups = longer]
           named == SetDeviceTriple(opened, TripleOf(d, kind))
           all == AttachInterfaces(named, g)
<1>1. /\ DOMAIN d = DOMAIN NewDevice /\ d.groups \in Seq(GroupSet) /\ d.numIfs \in Nat
      /\ d.msos \in Seq(EntrySet) /\ d.strings \in Seq(Nat \X Nat)
  BY DEF DeviceParts, PartsTyped
<1>2. new \in GroupSet /\ new.ifs = <<>> /\ new.kind = kind BY DEF GroupSet
<1> HIDE DEF new
<1>3. /\ longer \in Seq(GroupSet) /\ DOMAIN longer = Groups(d) \cup {g} /\ longer[g] = new
      /\ g \in Nat /\ g > 0 /\ g \notin Groups(d) /\ Groups(d) = 1 .. (g - 1)
      /\ \A h \in Groups(d) : longer[h] = d.groups[h]
  <2>1. /\ longer \in Seq(GroupSet) /\ Len(longer) = Len(d.groups) + 1 /\ Len(d.groups) \in Nat
        /\ longer[Len(d.groups) + 1] = new /\ \A i \in 1 .. Len(d.groups) : longer[i] = d.groups[i]
    BY <1>1, <1>2, AppendProperties
  <2>2. Groups(d) = 1 .. Len(d.groups) BY <1>1 DEF Groups
  <2>3. DOMAIN longer = 1 .. Len(longer) BY <2>1
  <2> HIDE DEF longer
  <2> QED BY <2>1, <2>2, <2>3
<1> HIDE DEF longer, g
<1>4. /\ DOMAIN opened = DOMAIN NewDevice /\ opened.groups = longer /\ opened.numIfs = d.numIfs
      /\ opened.msos = d.msos /\ opened.strings = d.strings /\ opened.raised = d.raised
      /\ opened.webusb = d.webusb /\ opened.bcdUSB = d.bcdUSB
  BY <1>1 DEF NewDevice
<1> HIDE DEF opened
<1>5. DeviceParts(opened)
  <2>1. PartsTyped(opened) BY <1>1, <1>3, <1>4 DEF PartsTyped
  <2>2. /\ Groups(opened) = Groups(d) \cup {g}
        /\ \A h \in Groups(d) : IfsOf(opened, h) = IfsOf(d, h)
        /\ IfsOf(opened, g) = {}
    <3>1. Groups(opened) = Groups(d) \cup {g} BY <1>3, <1>4 DEF Groups
    <3>2. \A h \in Groups(d) : IfsOf(opened, h) = IfsOf(d, h) BY <1>3, <1>4 DEF IfsOf
    <3>3. IfsOf(opened, g) = {} BY <1>2, <1>3, <1>4 DEF IfsOf
    <3> QED BY <3>1, <3>2, <3>3
  <2>3. NumbersApart(opened)
    <3>1. \A h \in Groups(opened) : \A n \in IfsOf(opened, h) : n < opened.numIfs
      BY <1>4, <2>2, Zenon DEF DeviceParts, NumbersApart
    <3>2. ASSUME NEW h \in Groups(opened), NEW k \in Groups(opened), h # k
          PROVE  IfsOf(opened, h) \cap IfsOf(opened, k) = {}
      <4>1. CASE h = g \/ k = g BY <2>2, <4>1
      <4>2. CASE h # g /\ k # g BY <2>2, <3>2, <4>2 DEF DeviceParts, NumbersApart
      <4> QED BY <4>1, <4>2
    <3> QED BY <3>1, <3>2 DEF NumbersApart
  <2>4. FirstIsZero(opened)
    <3>1. longer # <<>> BY <1>3
    <3>2. CASE g = 1
      <4>1. d.groups = <<>>
        <5>1. Len(d.groups) = 0 BY <1>1, <3>2 DEF g
        <5> QED BY <1>1, <5>1, EmptySeq
      <4> QED BY <1>2, <1>3, <1>4, <3>2, <4>1 DEF DeviceParts, FirstIsZero
    <3>3. CASE g # 1
      <4>1. 1 \in Groups(d) BY <1>3, <3>3
      <4>2. d.groups # <<>> /\ d.groups[1].ifs # <<>> BY <1>1, <4>1, EmptySeq DEF Groups
      <4> QED BY <1>3, <1>4, <3>1, <4>1, <4>2 DEF DeviceParts, FirstIsZero
    <3> QED BY <3>2, <3>3
  <2>5. Advertised(opened) BY <1>4, <2>2 DEF DeviceParts, Advertised
  <2> QED BY <2>1, <2>3, <2>4, <2>5 DEF DeviceParts
<1>6. SameNumbers(named, opened) BY <1>5, TripleKeeps
<1>7. DeviceParts(named) BY <1>5, <1>6, SameNumbersKept
<1> HIDE DEF named
<1>8. Grown(all, named, g)
  <2>1. ~named.raised /\ g \in Groups(named) BY <1>3, <1>4, <1>6 DEF SameNumbers, Groups
  <2>2. g # 1 => named.groups[1].ifs # <<>>
    <3>1. SUFFICES ASSUME g # 1 PROVE named.groups[1].ifs # <<>> OBVIOUS
    <3>2. 1 \in Groups(d) BY <1>3, <3>1
    <3> QED BY <1>3, <1>4, <1>6, <3>2 DEF SameNumbers, Groups
  <2> QED BY <1>7, <2>1, <2>2, AttachingAllGrows
<1> HIDE DEF all
<1>9. DeviceParts(all) /\ g \in Groups(all) /\ \A h \in Groups(all) : all.groups[h].ifs # <<>>
  <2>1. Groups(all) = Groups(d) \cup {g} BY <1>3, <1>4, <1>6, <1>8 DEF Grown, SameNumbers, Groups
  <2>2. \A h \in Groups(d) : h \in Groups(named) /\ h # g BY <1>3, <1>4, <1>6 DEF SameNumbers, Groups
  <2>3. \A h \in Groups(d) : all.groups[h].ifs = d.groups[h].ifs
    <3>1. TAKE h \in Groups(d)
    <3>2. all.groups[h] = named.groups[h] BY <1>8, <2>2 DEF Grown
    <3>3. named.groups[h].ifs = opened.groups[h].ifs BY <1>3, <1>4, <1>6 DEF SameNumbers, Groups
    <3> QED BY <1>3, <1>4, <3>2, <3>3
  <2> QED BY <1>8, <2>1, <2>3 DEF Grown
<1> DEFINE blocked == [all EXCEPT !.groups[g].block = TRUE]
<1>10. DeviceParts(blocked) /\ Groups(blocked) = Groups(all)
       /\ \A h \in Groups(all) : blocked.groups[h].ifs = all.groups[h].ifs
  <2> DEFINE r == [all.groups[g] EXCEPT !.block = TRUE]
  <2>1. all.groups \in Seq(GroupSet) /\ DOMAIN all = DOMAIN NewDevice /\ all.strings \in Seq(Nat \X Nat)
    BY <1>9 DEF DeviceParts, PartsTyped
  <2>2. g \in 1 .. Len(all.groups) BY <1>9, <2>1 DEF Groups
  <2>3. all.groups[g] \in GroupSet BY <2>1, <2>2, ElementOfSeq
  <2>4. r \in GroupSet /\ r.ifs = all.groups[g].ifs BY <2>3 DEF GroupSet
  <2>5. blocked = [all EXCEPT !.groups = [@ EXCEPT ![g] = r], !.strings = all.strings] BY <2>1 DEF NewDevice
  <2> HIDE DEF r, blocked
  <2>6. SameNumbers(blocked, all) BY <1>9, <2>1, <2>4, <2>5, ChangingGroupKeeps
  <2>7. DeviceParts(blocked) BY <1>9, <2>6, SameNumbersKept
  <2> QED BY <2>6, <2>7 DEF SameNumbers, Groups
<1> HIDE DEF blocked
<1>11. DeviceParts(OnAdded(blocked, g)) /\ \A h \in Groups(OnAdded(blocked, g)) :
           OnAdded(blocked, g).groups[h].ifs # <<>>
  <2> DEFINE e == OnAdded(blocked, g)
  <2>1. /\ DeviceParts(e) /\ DOMAIN e.groups = DOMAIN blocked.groups
        /\ \A h \in Groups(blocked) : e.groups[h].ifs = blocked.groups[h].ifs
    BY <1>9, <1>10, OnAddedKeeps
  <2> HIDE DEF e
  <2> QED BY <1>9, <1>10, <2>1 DEF Groups, e
<1>12. Attach(d, kind) = IF all.raised THEN all ELSE OnAdded(blocked, g)
  BY DEF Attach, all, named, opened, longer, new, g, blocked
<1> QED BY <1>9, <1>11, <1>12

LEMMA KeptNext == Kept(dev', plugged') => FunctionsKept'
BY DEF FunctionsKept, Kept, DeviceParts, PartsTyped, NumbersApart, FirstIsZero, Advertised, Groups, IfsOf

LEMMA NewDeviceKept == CompositionInit => FunctionsKept
<1> DEFINE d == NewDevice
<1>1. /\ d.groups = <<>> /\ d.numIfs = 0 /\ d.msos = <<>> /\ d.strings = <<>> /\ d.webusb = {}
      /\ d.bcdUSB = 2 /\ d.raised = FALSE /\ DOMAIN d = DOMAIN NewDevice
  BY DEF NewDevice
<1> HIDE DEF d
<1>2. Groups(d) = {} BY <1>1 DEF Groups
<1>3. PartsTyped(d) BY <1>1 DEF PartsTyped
<1>4. NumbersApart(d) /\ FirstIsZero(d) /\ Advertised(d)
  BY <1>1, <1>2 DEF NumbersApart, FirstIsZero, Advertised
<1> QED BY <1>1, <1>2, <1>3, <1>4 DEF CompositionInit, FunctionsKept, Kept, DeviceParts, d

\* Steps that leave functions, numbers and advertisements alone.
LEMMA SameNumbersStep ==
    ASSUME FunctionsKept, plugged = "no", SameNumbers(dev', dev)
    PROVE  Kept(dev', plugged')
<1>1. DeviceParts(dev') BY SameNumbersKept DEF FunctionsKept, Kept
<1>2. \A g \in Groups(dev') : dev'.groups[g].ifs # <<>> BY DEF FunctionsKept, Kept, SameNumbers, Groups
<1>3. ~dev'.raised BY DEF FunctionsKept, Kept, SameNumbers
<1> QED BY <1>1, <1>2, <1>3 DEF Kept

LEMMA FunctionsKeptStep == FunctionsKept /\ [CompositionNext]_compositionVars => FunctionsKept'
<1> SUFFICES ASSUME FunctionsKept, [CompositionNext]_compositionVars PROVE Kept(dev', plugged')
  BY KeptNext
<1>0. /\ DeviceParts(dev) /\ DOMAIN dev = DOMAIN NewDevice /\ dev.groups \in Seq(GroupSet)
      /\ dev.strings \in Seq(Nat \X Nat)
  BY DEF FunctionsKept, Kept, DeviceParts, PartsTyped
<1>1. ASSUME SetComposite PROVE Kept(dev', plugged')
  <2>1. SameNumbers([dev EXCEPT !.composite = TRUE, !.triple = "misc"], dev)
    BY <1>0 DEF SameNumbers, NewDevice
  <2> QED BY <1>1, <2>1, SameNumbersStep DEF SetComposite
<1>2. ASSUME NEW s \in {"full", "high"}, ChangeSpeed(s) PROVE Kept(dev', plugged')
  <2> DEFINE sized == [id \in DOMAIN dev.sized |-> IF <<id[1], id[2]>> \in dev.hooks /\ dev.sized[id] # "any"
                                                  THEN s ELSE dev.sized[id]]
  <2>1. SetSpeed(dev, s) = [dev EXCEPT !.speed = s, !.sized = sized] BY <1>0 DEF SetSpeed, NewDevice
  <2> HIDE DEF sized
  <2>2. SameNumbers([dev EXCEPT !.speed = s, !.sized = sized], dev) BY <1>0 DEF SameNumbers, NewDevice
  <2> QED BY <1>2, <2>1, <2>2, SameNumbersStep DEF ChangeSpeed
<1>3. ASSUME NEW kind \in Kinds, Add(kind) PROVE Kept(dev', plugged')
  <2>1. /\ dev' = Attach(dev, kind) /\ plugged' = IF dev'.raised THEN "failed" ELSE "no"
        /\ ~dev.raised /\ \A g \in Groups(dev) : dev.groups[g].ifs # <<>>
    BY <1>3 DEF Add, FunctionsKept, Kept
  <2>2. DeviceParts(dev') /\ \A g \in Groups(dev') : dev'.groups[g].ifs # <<>>
    BY <1>0, <2>1, AddingKeeps
  <2>3. plugged' = "no" => ~dev'.raised BY <2>1
  <2> QED BY <2>2, <2>3 DEF Kept
<1>4. ASSUME NEW scope \in 0 .. MaxFunctions, NEW compatible \in {"WINUSB", "MTP"},
             Advertise(scope, compatible)
      PROVE  Kept(dev', plugged')
  <2>1. /\ dev' = EnableMsos(dev, scope, compatible) /\ plugged' = "no" /\ ~dev.raised
        /\ scope = 0 \/ scope \in Groups(dev)
    BY <1>4 DEF Advertise, FunctionsKept, Kept
  <2>2. scope \in Nat BY <1>0, <2>1 DEF Groups
  <2>3. DeviceParts(dev') /\ dev'.groups = dev.groups /\ dev'.raised = dev.raised
    BY <1>0, <2>1, <2>2, AdvertisingKeeps
  <2> QED BY <2>1, <2>3 DEF FunctionsKept, Kept, Groups
<1>5. ASSUME NEW code \in {33, 34}, AdvertiseWeb(code) PROVE Kept(dev', plugged')
  <2>1. /\ dev' = [dev EXCEPT !.webusb = {code}, !.bcdUSB = 21] /\ plugged' = "no" /\ ~dev.raised
    BY <1>5 DEF AdvertiseWeb, EnableWebusb, FunctionsKept, Kept
  <2> DEFINE e == [dev EXCEPT !.webusb = {code}, !.bcdUSB = 21]
  <2>2. /\ DOMAIN e = DOMAIN NewDevice /\ e.groups = dev.groups /\ e.numIfs = dev.numIfs
        /\ e.strings = dev.strings /\ e.raised = dev.raised /\ e.msos = dev.msos
        /\ e.webusb # {} /\ e.bcdUSB = 21
    BY <1>0 DEF NewDevice
  <2> HIDE DEF e
  <2>3. Groups(e) = Groups(dev) /\ \A h \in Groups(dev) : IfsOf(e, h) = IfsOf(dev, h)
    BY <2>2 DEF Groups, IfsOf
  <2>4. PartsTyped(e) BY <2>2 DEF FunctionsKept, Kept, DeviceParts, PartsTyped
  <2>5. NumbersApart(e) BY <2>2, <2>3, Zenon DEF FunctionsKept, Kept, DeviceParts, NumbersApart
  <2>6. FirstIsZero(e) BY <2>2 DEF FunctionsKept, Kept, DeviceParts, FirstIsZero
  <2>7. Advertised(e) BY <2>2, <2>3 DEF FunctionsKept, Kept, DeviceParts, Advertised
  <2>8. DeviceParts(e) /\ \A g \in Groups(e) : e.groups[g].ifs # <<>>
    BY <2>2, <2>3, <2>4, <2>5, <2>6, <2>7 DEF DeviceParts, FunctionsKept, Kept
  <2>9. dev' = e BY <2>1 DEF e
  <2> QED BY <2>1, <2>2, <2>8, <2>9 DEF Kept
<1>6. ASSUME SetMsosVendorCodes([v1 |-> 33, v2 |-> 33]) PROVE Kept(dev', plugged')
  <2> DEFINE codes == [v1 |-> 33, v2 |-> 33]
  <2> HIDE DEF codes
  <2>1. dev' = [dev EXCEPT !.codes = codes] /\ plugged = "no" BY <1>6 DEF SetMsosVendorCodes, codes
  <2>2. SameNumbers([dev EXCEPT !.codes = codes], dev) BY <1>0 DEF SameNumbers, NewDevice
  <2> QED BY <2>1, <2>2, SameNumbersStep
<1>7. ASSUME Plug PROVE Kept(dev', plugged')
  <2>1. dev' = dev /\ plugged' # "no" BY <1>7 DEF Plug
  <2> QED BY <2>1 DEF FunctionsKept, Kept
<1>8. ASSUME UNCHANGED compositionVars PROVE Kept(dev', plugged')
  <2>1. dev' = dev /\ plugged' = plugged BY <1>8 DEF compositionVars
  <2> QED BY <2>1 DEF FunctionsKept
<1> QED BY <1>1, <1>2, <1>3, <1>4, <1>5, <1>6, <1>7, <1>8 DEF CompositionNext

\* However functions are added, sized and advertised, every one of a device keeps
\* its interfaces, under numbers that no other has and the first of which is 0.
THEOREM FunctionsAreKept == CompositionSpec => []FunctionsKept
<1>1. CompositionInit => FunctionsKept BY NewDeviceKept
<1>2. FunctionsKept /\ [CompositionNext]_compositionVars => FunctionsKept' BY FunctionsKeptStep
<1> QED BY <1>1, <1>2, PTL DEF CompositionSpec

\* The lowest of some numbers is one of them.
LEMMA LowestIsThere ==
    ASSUME NEW S \in SUBSET Nat, S # {}
    PROVE  LowestOf(S) \in S
<1> DEFINE R == OpToRel(<, Nat)
<1>1. IsWellFoundedOn(R, Nat)
  BY NatLessThanWellFounded
<1> HIDE DEF R
<1>2. PICK x \in S : \A y \in S : ~(<<y, x>> \in R)
  BY <1>1, WFMin
<1>3. \A y \in S : ~(y < x)
  BY <1>2 DEF R, OpToRel
<1>4. \A y \in S : x <= y
  BY <1>3
<1> QED BY <1>4 DEF LowestOf

\* The advertisement for a function is one at most, and in a device of one function
\* every advertisement is for it.
LEMMA EntryOfGroup ==
    ASSUME NEW d, DeviceParts(d), NEW g
    PROVE  /\ MsosEntryForGroup(d, g) \subseteq {"WINUSB", "MTP"}
           /\ \E c : MsosEntryForGroup(d, g) \subseteq {c}
           /\ d.msos # <<>> /\ Groups(d) = {1} => MsosEntryForGroup(d, 1) # {}
<1>1. d.msos \in Seq(EntrySet) BY DEF DeviceParts, PartsTyped
<1>2. /\ DOMAIN d.msos = 1 .. Len(d.msos) /\ Len(d.msos) \in Nat
      /\ \A i \in DOMAIN d.msos : d.msos[i] \in EntrySet
  BY <1>1, ElementOfSeq
<1>3. \A i \in DOMAIN d.msos : d.msos[i].compatible \in {"WINUSB", "MTP"} BY <1>2 DEF EntrySet
<1>4. \A S \in SUBSET (DOMAIN d.msos) : S # {} => LowestOf(S) \in DOMAIN d.msos
  <2> TAKE S \in SUBSET (DOMAIN d.msos)
  <2>1. S \in SUBSET Nat BY <1>2
  <2> QED BY <2>1, LowestIsThere
<1> DEFINE own(h) == {i \in DOMAIN d.msos : d.msos[i].scope = h}
<1>5. \A h : own(h) \in SUBSET (DOMAIN d.msos) OBVIOUS
<1>6. \A h : MsosEntryForGroup(d, h) = IF own(h) # {} THEN {d.msos[LowestOf(own(h))].compatible}
                                       ELSE IF own(0) # {} THEN {d.msos[LowestOf(own(0))].compatible}
                                       ELSE {}
  BY DEF MsosEntryForGroup
<1> HIDE DEF own
<1>7. \A h : own(h) # {} => d.msos[LowestOf(own(h))].compatible \in {"WINUSB", "MTP"} BY <1>3, <1>4, <1>5
<1>8. MsosEntryForGroup(d, g) \subseteq {"WINUSB", "MTP"} BY <1>6, <1>7
<1>9. \E c : MsosEntryForGroup(d, g) \subseteq {c}
  <2>1. CASE own(g) # {} BY <1>6, <2>1
  <2>2. CASE own(g) = {} /\ own(0) # {} BY <1>6, <2>2
  <2>3. CASE own(g) = {} /\ own(0) = {} BY <1>6, <2>3
  <2> QED BY <2>1, <2>2, <2>3
<1>10. ASSUME d.msos # <<>>, Groups(d) = {1} PROVE MsosEntryForGroup(d, 1) # {}
  <2>1. 1 \in DOMAIN d.msos BY <1>1, <1>2, <1>10, EmptySeq
  <2>2. d.msos[1].scope = 0 \/ d.msos[1].scope = 1 BY <1>10, <2>1 DEF DeviceParts, Advertised
  <2>3. own(0) # {} \/ own(1) # {} BY <2>1, <2>2 DEF own
  <2> QED BY <1>6, <2>3
<1> QED BY <1>8, <1>9, <1>10

\* An interface is one function's, so both look-ups find the same advertisement.
LEMMA EntryOfInterface ==
    ASSUME NEW d, DeviceParts(d), NEW g \in Groups(d), NEW ifnum \in IfsOf(d, g)
    PROVE  MsosEntryForInterface(d, ifnum) = MsosEntryForGroup(d, g)
<1>1. 0 \notin Groups(d)
  <2>1. d.groups \in Seq(GroupSet) BY DEF DeviceParts, PartsTyped
  <2> QED BY <2>1 DEF Groups
<1>2. \A i \in DOMAIN d.msos : d.msos[i].scope = 0 \/ d.msos[i].scope \in Groups(d)
  BY DEF DeviceParts, Advertised
<1>3. \A h \in Groups(d) : ifnum \in IfsOf(d, h) => h = g BY DEF DeviceParts, NumbersApart
<1>4. {i \in DOMAIN d.msos : d.msos[i].scope # 0 /\ ifnum \in IfsOf(d, d.msos[i].scope)}
        = {i \in DOMAIN d.msos : d.msos[i].scope = g}
  <2>1. \A i \in DOMAIN d.msos : (d.msos[i].scope # 0 /\ ifnum \in IfsOf(d, d.msos[i].scope))
                                   <=> d.msos[i].scope = g
    BY <1>1, <1>2, <1>3
  <2> QED BY <2>1
<1> QED BY <1>4 DEF MsosEntryForInterface, MsosEntryForGroup

LEMMA OnlyDocument ==
    ASSUME NEW S, NEW doc, NEW is, S = {[doc |-> doc, is |-> is]}
    PROVE  (CHOOSE x \in S : TRUE).is = is
<1> DEFINE v == [doc |-> doc, is |-> is]
<1>1. (CHOOSE x \in {v} : TRUE) \in {v}
  <2> HIDE DEF v
  <2>1. v \in {v} OBVIOUS
  <2> QED BY <2>1, Zenon
<1>2. (CHOOSE x \in {v} : TRUE) = v
  <2> HIDE DEF v
  <2> QED BY <1>1
<1> QED BY <1>2

\* What the BOS leads to, and what the vendor requests fetch.
LEMMA BosIs ==
    ASSUME NEW d
    PROVE  /\ Bos(d) # {} <=> d.webusb # {} \/ d.msos # <<>>
           /\ \A b \in Bos(d) : \/ b.cap = "webusb" /\ b.code \in d.webusb
                                \/ b.cap = "msos2" /\ b.code = d.codes.v2 /\ d.msos # <<>>
<1> DEFINE web == {[cap |-> "webusb", code |-> c] : c \in d.webusb}
           os == {[cap |-> "msos2", code |-> d.codes.v2] : x \in {y \in {1} : d.msos # <<>>}}
<1>1. Bos(d) = web \cup os BY DEF Bos
<1>2. web # {} <=> d.webusb # {} BY Zenon
<1>3. os # {} <=> d.msos # <<>>
  <2>1. CASE d.msos # <<>>
    <3>1. 1 \in {y \in {1} : d.msos # <<>>} BY <2>1
    <3>2. [cap |-> "msos2", code |-> d.codes.v2] \in os BY <3>1
    <3> QED BY <2>1, <3>2
  <2>2. CASE d.msos = <<>>
    <3>1. {y \in {1} : d.msos # <<>>} = {} BY <2>2
    <3> QED BY <2>2, <3>1
  <2> QED BY <2>1, <2>2
<1>4. \A b \in web : b.cap = "webusb" /\ b.code \in d.webusb OBVIOUS
<1>5. \A b \in os : b.cap = "msos2" /\ b.code = d.codes.v2 OBVIOUS
<1> HIDE DEF web, os
<1> QED BY <1>1, <1>2, <1>3, <1>4, <1>5

LEMMA VendorIs ==
    ASSUME NEW d, NEW n
    PROVE  /\ d.msos # <<>> =>
                /\ VendorDescriptor(d, d.codes.v1, 4, n) = {[doc |-> "ids", is |-> MsosSections(d)]}
                /\ VendorDescriptor(d, d.codes.v1, 5, n) =
                       {[doc |-> "properties", is |-> ExtendedProperties(d, n)]}
                /\ VendorDescriptor(d, d.codes.v2, 7, n) = {[doc |-> "set", is |-> Msos2(d)]}
           /\ \A c \in d.webusb : VendorDescriptor(d, c, 2, n) = {[doc |-> "url", is |-> {}]}
BY DEF VendorDescriptor

\* No two functions begin with the same interface.
LEMMA FirstsApart ==
    ASSUME NEW d, DeviceParts(d), \A g \in Groups(d) : d.groups[g].ifs # <<>>
    PROVE  /\ \A g \in Groups(d) : d.groups[g].ifs[1] \in IfsOf(d, g)
           /\ \A g, h \in Groups(d) : d.groups[g].ifs[1] = d.groups[h].ifs[1] => g = h
<1>1. ASSUME NEW g \in Groups(d) PROVE d.groups[g].ifs[1] \in IfsOf(d, g)
  <2>1. d.groups \in Seq(GroupSet) BY DEF DeviceParts, PartsTyped
  <2>2. g \in 1 .. Len(d.groups) BY <2>1 DEF Groups
  <2>3. d.groups[g] \in GroupSet BY <2>1, <2>2, ElementOfSeq
  <2>4. d.groups[g].ifs \in Seq(Nat) BY <2>3 DEF GroupSet
  <2>5. 1 \in DOMAIN d.groups[g].ifs BY <2>4, EmptySeq
  <2> QED BY <2>5 DEF IfsOf
<1>2. ASSUME NEW g \in Groups(d), NEW h \in Groups(d), d.groups[g].ifs[1] = d.groups[h].ifs[1]
      PROVE  g = h
  <2>1. d.groups[g].ifs[1] \in IfsOf(d, g) \cap IfsOf(d, h) BY <1>1, <1>2
  <2> QED BY <2>1 DEF DeviceParts, NumbersApart
<1> QED BY <1>1, <1>2

\* The section of a function has its own Compatible ID, in both sets.
LEMMA SectionOfGroup ==
    ASSUME NEW d, DeviceParts(d), \A h \in Groups(d) : d.groups[h].ifs # <<>>, d.msos # <<>>,
           NEW g \in Groups(d)
    PROVE  /\ {c \in {"WINUSB", "MTP"} : <<d.groups[g].ifs[1], c>> \in MsosSections(d)} = MsosEntryForGroup(d, g)
           /\ {c \in {"WINUSB", "MTP"} : <<d.groups[g].ifs[1], c>> \in Msos2(d)} = MsosEntryForGroup(d, g)
<1> DEFINE IDs == {"WINUSB", "MTP"}
           first == d.groups[g].ifs[1]
           entry == MsosEntryForGroup(d, g)
<1>1. d.groups \in Seq(GroupSet) /\ g \in 1 .. Len(d.groups) /\ Len(d.groups) \in Nat
  <2>1. d.groups \in Seq(GroupSet) BY DEF DeviceParts, PartsTyped
  <2> QED BY <2>1 DEF Groups
<1>2. d.groups # <<>> BY <1>1, EmptySeq
<1>3. entry \subseteq IDs BY EntryOfGroup
<1>4. \A c \in IDs : <<first, c>> \in MsosSections(d) <=> c \in entry
  <2>1. TAKE c \in IDs
  <2>2. ASSUME c \in entry PROVE <<first, c>> \in MsosSections(d)
    <3> DEFINE x == <<g, c>>
    <3>1. x \in {y \in Groups(d) \X IDs : y[2] \in MsosEntryForGroup(d, y[1])} BY <2>2
    <3>2. <<d.groups[x[1]].ifs[1], x[2]>> = <<first, c>> OBVIOUS
    <3> QED BY <1>2, <3>1, <3>2 DEF MsosSections
  <2>3. ASSUME <<first, c>> \in MsosSections(d) PROVE c \in entry
    <3>1. PICK x \in Groups(d) \X IDs : /\ x[2] \in MsosEntryForGroup(d, x[1])
                                        /\ <<first, c>> = <<d.groups[x[1]].ifs[1], x[2]>>
      BY <1>2, <2>3 DEF MsosSections
    <3>2. x[1] \in Groups(d) /\ x[2] = c /\ d.groups[x[1]].ifs[1] = first BY <3>1
    <3>3. x[1] = g BY <3>2, FirstsApart
    <3> QED BY <3>1, <3>2, <3>3
  <2> QED BY <2>2, <2>3
<1>5. {c \in IDs : <<first, c>> \in MsosSections(d)} = entry BY <1>3, <1>4
<1>6. CASE Len(d.groups) > 1
  <2>1. Msos2(d) = MsosSections(d) BY <1>6 DEF Msos2
  <2> QED BY <1>5, <2>1
<1>7. CASE ~(Len(d.groups) > 1)
  <2>1. g = 1 /\ Len(d.groups) = 1
    <3> DEFINE n == Len(d.groups)
    <3> HIDE DEF n
    <3>1. n \in Nat /\ g \in 1 .. n /\ ~(n > 1) BY <1>1, <1>7 DEF n
    <3>2. g = 1 /\ n = 1 BY <3>1
    <3> QED BY <3>2 DEF n
  <2>2. Groups(d) = {1} BY <1>1, <2>1 DEF Groups
  <2>3. MsosEntryForGroup(d, 1) # {} BY <2>2, EntryOfGroup
  <2>4. first = 0 BY <1>2, <2>1 DEF DeviceParts, FirstIsZero
  <2>5. Msos2(d) = {<<0, c>> : c \in entry} BY <1>2, <1>7, <2>1, <2>3 DEF Msos2
  <2> HIDE DEF entry, first
  <2>6. \A c \in IDs : <<first, c>> \in Msos2(d) <=> c \in entry BY <2>4, <2>5
  <2>7. {c \in IDs : <<first, c>> \in Msos2(d)} = entry BY <1>3, <2>6
  <2> QED BY <1>5, <2>7 DEF first, entry
<1> QED BY <1>6, <1>7

\* The three ways to ask for a driver agree while every function of the device
\* has interfaces of its own and every advertisement a function.
LEMMA KeptAgrees == FunctionsKept => MsosAgree
<1> SUFFICES ASSUME FunctionsKept PROVE MsosAgree OBVIOUS
<1>1. DeviceParts(dev) /\ \A g \in Groups(dev) : dev.groups[g].ifs # <<>> BY DEF FunctionsKept, Kept
<1>2. dev.bcdUSB >= 21 <=> Bos(dev) # {}
  <2>1. dev.bcdUSB = IF dev.msos = <<>> /\ dev.webusb = {} THEN 2 ELSE 21 BY <1>1 DEF DeviceParts, Advertised
  <2> QED BY <2>1, BosIs
<1>3. \A b \in Bos(dev) :
          VendorDescriptor(dev, b.code, IF b.cap = "webusb" THEN 2 ELSE 7, 0) =
              {IF b.cap = "webusb" THEN [doc |-> "url", is |-> {}] ELSE [doc |-> "set", is |-> Msos2(dev)]}
  <2> TAKE b \in Bos(dev)
  <2>1. CASE b.cap = "webusb"
    <3>1. b.code \in dev.webusb BY <2>1, BosIs
    <3>2. VendorDescriptor(dev, b.code, 2, 0) = {[doc |-> "url", is |-> {}]} BY <3>1, VendorIs, ZenonT(30)
    <3> QED BY <2>1, <3>2
  <2>2. CASE b.cap # "webusb"
    <3>1. b.code = dev.codes.v2 /\ dev.msos # <<>> BY <2>2, BosIs
    <3>2. VendorDescriptor(dev, b.code, 7, 0) = {[doc |-> "set", is |-> Msos2(dev)]} BY <3>1, VendorIs, Zenon
    <3> QED BY <2>2, <3>2
  <2> QED BY <2>1, <2>2
<1> DEFINE Entry(g) == MsosEntryForGroup(dev, g)
           V1 == CHOOSE c \in StringBytes(dev, MagicIndex) : TRUE
           Code(index) == IF index = 7 THEN dev.codes.v2 ELSE V1
           Ids(index) == (CHOOSE x \in VendorDescriptor(dev, Code(index), index, 0) : TRUE).is
<1>4. ASSUME NEW g \in Groups(dev), dev.msos # <<>>
      PROVE  /\ \A ifnum \in IfsOf(dev, g) :
                    VendorDescriptor(dev, V1, 5, ifnum) =
                        {[doc |-> "properties", is |-> Entry(g) \cap {"WINUSB"}]}
             /\ \A index \in {4, 7} : {c \in {"WINUSB", "MTP"} : <<dev.groups[g].ifs[1], c>> \in Ids(index)}
                                          = Entry(g)
             /\ Cardinality(Entry(g)) <= 1
  <2>1. V1 = dev.codes.v1 BY <1>4 DEF StringBytes
  <2> HIDE DEF V1
  <2>2. Entry(g) \subseteq {"WINUSB", "MTP"} /\ \E c : Entry(g) \subseteq {c} BY <1>1, EntryOfGroup
  <2>3. ASSUME NEW ifnum \in IfsOf(dev, g)
        PROVE  VendorDescriptor(dev, V1, 5, ifnum) =
                   {[doc |-> "properties", is |-> Entry(g) \cap {"WINUSB"}]}
    <3>1. VendorDescriptor(dev, V1, 5, ifnum) =
              {[doc |-> "properties", is |-> ExtendedProperties(dev, ifnum)]}
      BY <1>4, <2>1, VendorIs
    <3>2. MsosEntryForInterface(dev, ifnum) = Entry(g) BY <1>1, EntryOfInterface
    <3>3. Entry(g) \ {"MTP"} = Entry(g) \cap {"WINUSB"}
      <4> HIDE DEF Entry
      <4> QED BY <2>2
    <3>4. ExtendedProperties(dev, ifnum) = Entry(g) \cap {"WINUSB"} BY <3>2, <3>3 DEF ExtendedProperties
    <3> QED BY <3>1, <3>4
  <2>4. Ids(4) = MsosSections(dev)
    <3>1. VendorDescriptor(dev, Code(4), 4, 0) = {[doc |-> "ids", is |-> MsosSections(dev)]}
      <4>1. Code(4) = V1 OBVIOUS
      <4> HIDE DEF Code
      <4>2. VendorDescriptor(dev, dev.codes.v1, 4, 0) = {[doc |-> "ids", is |-> MsosSections(dev)]}
        BY <1>4, VendorIs
      <4> QED BY <2>1, <4>1, <4>2
    <3> HIDE DEF Code
    <3> QED BY <3>1, OnlyDocument
  <2>5. Ids(7) = Msos2(dev)
    <3>1. VendorDescriptor(dev, Code(7), 7, 0) = {[doc |-> "set", is |-> Msos2(dev)]}
      BY <1>4, VendorIs
    <3> HIDE DEF Code
    <3> QED BY <3>1, OnlyDocument
  <2>6. ASSUME NEW index \in {4, 7}
        PROVE  {c \in {"WINUSB", "MTP"} : <<dev.groups[g].ifs[1], c>> \in Ids(index)} = Entry(g)
    <3> HIDE DEF Ids, Code
    <3>1. CASE index = 4
      <4>1. Ids(index) = MsosSections(dev) BY <2>4, <3>1
      <4> QED BY <1>1, <1>4, <4>1, SectionOfGroup
    <3>2. CASE index = 7
      <4>1. Ids(index) = Msos2(dev) BY <2>5, <3>2
      <4> QED BY <1>1, <1>4, <4>1, SectionOfGroup
    <3> QED BY <3>1, <3>2
  <2>7. Cardinality(Entry(g)) <= 1
    <3> HIDE DEF Entry
    <3>1. PICK c : Entry(g) \subseteq {c} BY <2>2
    <3>2. Entry(g) = {} \/ Entry(g) = {c} BY <3>1
    <3>3. Cardinality({}) = 0 /\ Cardinality({c}) = 1 BY FS_EmptySet, FS_Singleton
    <3> QED BY <3>2, <3>3
  <2> HIDE DEF Ids, Code, Entry
  <2> QED BY <2>3, <2>6, <2>7
<1> HIDE DEF Ids
<1> QED BY <1>2, <1>3, <1>4 DEF MsosAgree, Ids

\* However functions are added, and whatever is advertised before, between and
\* after, Windows is told of one driver for each of them by all three ways.
THEOREM DriversAreAgreed == CompositionSpec => []MsosAgree
BY FunctionsAreKept, KeptAgrees, PTL

-----------------------------------------------------------------------------
(* Who answers.  The endpoints of a device are those of the interfaces it  *)
(* has, each at one address of its direction; what it declared is taken,   *)
(* if not by itself.                                                       *)

AllIds(d) ==
    {x \in Groups(d) \X (1 .. 3) \X (1 .. 3) :
        x[2] \in DOMAIN d.groups[x[1]].ifs /\ x[3] <= Len(InterfacesOf[d.groups[x[1]].kind][x[2]])}

\* While an interface is attached it has the first k of its endpoints.
IdsUpTo(d, g, i, k) == {x \in AllIds(d) : x[1] = g /\ x[2] = i => x[3] <= k}

Declaration(d, id) == InterfacesOf[d.groups[id[1]].kind][id[2]][id[3]]

Matched(addr, epMap) ==
    /\ \A id \in DOMAIN addr : addr[id] \in DOMAIN epMap /\ epMap[addr[id]] = id
    /\ \A a \in DOMAIN epMap : epMap[a] \in DOMAIN addr /\ addr[epMap[a]] = a

Wiring(d, ids) ==
    /\ DOMAIN d.addr = ids
    /\ Matched(d.addr, d.epMap)
    /\ \A id \in ids : d.addr[id][2] = Declaration(d, id).dir /\ Address(Declaration(d, id)) \in DOMAIN d.epMap

\* A function has the interfaces that it declares, or the first of them.
Numbered(d) ==
    \A g \in Groups(d) :
        /\ Len(d.groups[g].ifs) <= Len(InterfacesOf[d.groups[g].kind])
        /\ d.groups[g].block => Len(d.groups[g].ifs) = Len(InterfacesOf[d.groups[g].kind])
        /\ \A i, j \in DOMAIN d.groups[g].ifs : d.groups[g].ifs[i] = d.groups[g].ifs[j] => i = j

\* The interfaces of a class have their handlers, and the first interface of the
\* device is the fallback.
HandlerOf(d, g, i) ==
    LET n == d.groups[g].ifs[i]
    IN  /\ n \in DOMAIN d.ctrl /\ d.ctrl[n] = <<g, i>>
        /\ n \in DOMAIN d.alts /\ d.alts[n] = <<g, i>>
Registered(d) ==
    /\ \A g \in Groups(d) : d.groups[g].kind # "raw" => \A i \in DOMAIN d.groups[g].ifs : HandlerOf(d, g, i)
    /\ d.numIfs = 0 => -1 \notin DOMAIN d.ctrl
    /\ (d.groups # <<>> /\ d.groups[1].ifs # <<>> /\ d.groups[1].kind # "raw") =>
           -1 \in DOMAIN d.ctrl /\ d.ctrl[-1] = <<1, 1>>

Wired(d) == Wiring(d, AllIds(d)) /\ Numbered(d) /\ Registered(d)

WiredInv == plugged \in {"no", "yes"} => Wired(dev) /\ \A g \in Groups(dev) : dev.groups[g].block

\* The addresses that an interface describes: audio its constants, the others
\* what they have.
DescribedAt(d, g, i) ==
    IF d.groups[g].kind = "uac"
    THEN {Address(InterfacesOf["uac"][i][k]) : k \in 1 .. Len(InterfacesOf["uac"][i])}
    ELSE {d.addr[<<g, i, k>>] : k \in 1 .. Len(InterfacesOf[d.groups[g].kind][i])}

\* Insert adds one thing to a function.
Extended(h, f, x, v) ==
    /\ DOMAIN h = DOMAIN f \cup {x} /\ h[x] = v
    /\ \A y \in DOMAIN f : y # x => h[y] = f[y]

LEMMA Inserted ==
    ASSUME NEW f, NEW x, NEW v
    PROVE  Extended(Insert(f, x, v), f, x, v)
BY DEF Insert, Extended

LEMMA MatchedInserted ==
    ASSUME NEW addr, NEW epMap, Matched(addr, epMap),
           NEW id, id \notin DOMAIN addr, NEW a, a \notin DOMAIN epMap
    PROVE  Matched(Insert(addr, id, a), Insert(epMap, a, id))
<1> DEFINE f == Insert(addr, id, a)
           h == Insert(epMap, a, id)
<1>0. Extended(f, addr, id, a) /\ Extended(h, epMap, a, id) BY Inserted
<1> HIDE DEF f, h
<1>1. /\ DOMAIN f = DOMAIN addr \cup {id} /\ f[id] = a
      /\ \A y \in DOMAIN addr : y # id => f[y] = addr[y]
  BY <1>0 DEF Extended
<1>2. /\ DOMAIN h = DOMAIN epMap \cup {a} /\ h[a] = id
      /\ \A y \in DOMAIN epMap : y # a => h[y] = epMap[y]
  BY <1>0 DEF Extended
<1>3. ASSUME NEW y \in DOMAIN f PROVE f[y] \in DOMAIN h /\ h[f[y]] = y
  <2>1. CASE y = id BY <1>1, <1>2, <2>1
  <2>2. CASE y # id
    <3>1. y \in DOMAIN addr /\ f[y] = addr[y] BY <1>1, <2>2
    <3>2. addr[y] \in DOMAIN epMap /\ epMap[addr[y]] = y BY <3>1 DEF Matched
    <3>3. addr[y] # a BY <3>2
    <3> QED BY <1>2, <3>1, <3>2, <3>3
  <2> QED BY <2>1, <2>2
<1>4. ASSUME NEW y \in DOMAIN h PROVE h[y] \in DOMAIN f /\ f[h[y]] = y
  <2>1. CASE y = a BY <1>1, <1>2, <2>1
  <2>2. CASE y # a
    <3>1. y \in DOMAIN epMap /\ h[y] = epMap[y] BY <1>2, <2>2
    <3>2. epMap[y] \in DOMAIN addr /\ addr[epMap[y]] = y BY <3>1 DEF Matched
    <3>3. epMap[y] # id BY <3>2
    <3> QED BY <1>1, <3>1, <3>2, <3>3
  <2> QED BY <2>1, <2>2
<1> QED BY <1>3, <1>4 DEF Matched, f, h

\* An endpoint gets an address that no other has: its own, or one beside it.
LEMMA AddressIsFree ==
    ASSUME NEW d, NEW p, Address(p) \in DOMAIN d.epMap => FreeNumbers(d, p.dir) # {}
    PROVE  /\ AddressFor(d, p) \notin DOMAIN d.epMap /\ AddressFor(d, p)[2] = p.dir
           /\ AddressFor(d, p) = Address(p) \/ Address(p) \in DOMAIN d.epMap
<1>1. CASE Address(p) \notin DOMAIN d.epMap BY <1>1 DEF AddressFor, Address
<1>2. CASE Address(p) \in DOMAIN d.epMap
  <2>1. FreeNumbers(d, p.dir) \in SUBSET Nat BY CompositionAssumption DEF FreeNumbers
  <2>2. LowestOf(FreeNumbers(d, p.dir)) \in FreeNumbers(d, p.dir) BY <1>2, <2>1, LowestIsThere
  <2> DEFINE n == LowestOf(FreeNumbers(d, p.dir))
  <2> HIDE DEF n
  <2>3. n \in FreeNumbers(d, p.dir) BY <2>2 DEF n
  <2>4. <<n, p.dir>> \notin DOMAIN d.epMap BY <2>3 DEF FreeNumbers
  <2>5. AddressFor(d, p) = <<n, p.dir>> BY <1>2 DEF AddressFor, n
  <2> QED BY <1>2, <2>4, <2>5
<1> QED BY <1>1, <1>2

\* One more endpoint of an interface, or no address for it.
LEMMA RouteOneWires ==
    ASSUME NEW d, DOMAIN d = DOMAIN NewDevice, NEW g, NEW i, NEW k \in 1 .. 3,
           <<g, i, k>> \in AllIds(d),
           ~d.raised => Wiring(d, IdsUpTo(d, g, i, k - 1))
    PROVE  LET e == RouteOne(d, g, i, k)
           IN  /\ ~e.raised => ~d.raised /\ Wiring(e, IdsUpTo(d, g, i, k))
               /\ e.ctrl = d.ctrl /\ e.alts = d.alts
<1> DEFINE id == <<g, i, k>>
           p == InterfacesOf[d.groups[g].kind][i][k]
           c == AdjustForSpeed(d, d.groups[g].kind, id, p)
           a == AddressFor(c, p)
           e == RouteOne(d, g, i, k)
           S == IdsUpTo(d, g, i, k - 1)
<1>1. CASE d.raised BY <1>1 DEF RouteOne
<1>2. CASE ~d.raised
  <2>1. /\ DOMAIN c = DOMAIN NewDevice /\ c.raised = d.raised /\ c.addr = d.addr /\ c.epMap = d.epMap
        /\ c.groups = d.groups /\ c.ctrl = d.ctrl /\ c.alts = d.alts
    BY DEF AdjustForSpeed, NewDevice
  <2>2. e = IF Address(p) \in DOMAIN c.epMap /\ FreeNumbers(c, p.dir) = {}
            THEN [c EXCEPT !.raised = TRUE]
            ELSE [c EXCEPT !.addr = Insert(@, id, a), !.epMap = Insert(@, a, id)]
    BY <1>2 DEF RouteOne, RouteEndpoint
  <2> HIDE DEF c, e, a
  <2>3. CASE Address(p) \in DOMAIN c.epMap /\ FreeNumbers(c, p.dir) = {}
    <3>1. e = [c EXCEPT !.raised = TRUE] BY <2>2, <2>3
    <3>2. e.raised = TRUE /\ e.ctrl = c.ctrl /\ e.alts = c.alts BY <2>1, <3>1 DEF NewDevice
    <3> QED BY <2>1, <3>2 DEF e
  <2>4. CASE ~(Address(p) \in DOMAIN c.epMap /\ FreeNumbers(c, p.dir) = {})
    <3> DEFINE v == Insert(d.addr, id, a)
               w == Insert(d.epMap, a, id)
    <3>0. Extended(v, d.addr, id, a) /\ Extended(w, d.epMap, a, id) BY Inserted
    <3> HIDE DEF v, w
    <3>1. e = [c EXCEPT !.addr = v, !.epMap = w] BY <2>1, <2>2, <2>4 DEF v, w
    <3>2. /\ e.addr = v /\ e.epMap = w /\ e.groups = d.groups /\ e.ctrl = d.ctrl /\ e.alts = d.alts
      BY <2>1, <3>1 DEF NewDevice
    <3>3. /\ DOMAIN d.addr = S /\ Matched(d.addr, d.epMap)
          /\ \A x \in S : d.addr[x][2] = Declaration(d, x).dir /\ Address(Declaration(d, x)) \in DOMAIN d.epMap
      BY <1>2 DEF Wiring
    <3>4. a \notin DOMAIN d.epMap /\ a[2] = p.dir /\ (a = Address(p) \/ Address(p) \in DOMAIN d.epMap)
      BY <2>1, <2>4, AddressIsFree DEF a
    <3>5. id \notin S /\ IdsUpTo(d, g, i, k) = S \cup {id}
      <4>1. \A x \in AllIds(d) : x[3] \in 1 .. 3 BY DEF AllIds
      <4>2. id \notin S BY DEF IdsUpTo
      <4>3. ASSUME NEW x \in AllIds(d), x[1] = g, x[2] = i PROVE x = <<g, i, x[3]>>
        BY <4>3 DEF AllIds
      <4>4. ASSUME NEW x \in AllIds(d)
            PROVE  (x[1] = g /\ x[2] = i => x[3] <= k) <=> (x[1] = g /\ x[2] = i => x[3] <= k - 1) \/ x = id
        <5>1. CASE x[1] = g /\ x[2] = i
          <6>1. x[3] <= k <=> x[3] <= k - 1 \/ x[3] = k BY <4>1
          <6>2. x[3] = k <=> x = id BY <4>3, <5>1
          <6> QED BY <5>1, <6>1, <6>2
        <5>2. CASE ~(x[1] = g /\ x[2] = i) BY <5>2
        <5> QED BY <5>1, <5>2
      <4>5. IdsUpTo(d, g, i, k) = S \cup {id} BY <4>4 DEF IdsUpTo
      <4> QED BY <4>2, <4>5
    <3>6. Matched(v, w) BY <3>3, <3>4, <3>5, MatchedInserted DEF v, w
    <3>7. DOMAIN v = S \cup {id} /\ v[id] = a /\ \A y \in S : y # id => v[y] = d.addr[y]
      BY <3>0, <3>3 DEF Extended
    <3>8. DOMAIN w = DOMAIN d.epMap \cup {a} BY <3>0 DEF Extended
    <3>9. ASSUME NEW x \in S \cup {id}
          PROVE  v[x][2] = Declaration(d, x).dir /\ Address(Declaration(d, x)) \in DOMAIN w
      <4>1. CASE x = id
        <5>1. Declaration(d, x) = p BY <4>1 DEF Declaration
        <5> QED BY <3>4, <3>7, <3>8, <4>1, <5>1
      <4>2. CASE x # id
        <5>1. x \in S /\ v[x] = d.addr[x] BY <3>7, <3>9, <4>2
        <5> QED BY <3>3, <3>8, <5>1
      <4> QED BY <4>1, <4>2
    <3>10. \A x : Declaration(e, x) = Declaration(d, x) BY <3>2 DEF Declaration
    <3>11. Wiring(e, S \cup {id}) BY <3>2, <3>6, <3>7, <3>9, <3>10 DEF Wiring
    <3> QED BY <1>2, <3>2, <3>5, <3>11 DEF e
  <2> QED BY <2>3, <2>4
<1> QED BY <1>1, <1>2

LEMMA IdsOf ==
    ASSUME NEW d, NEW e, e.groups = d.groups
    PROVE  /\ AllIds(e) = AllIds(d)
           /\ \A g, i, k : IdsUpTo(e, g, i, k) = IdsUpTo(d, g, i, k)
BY Zenon DEF AllIds, IdsUpTo, Groups

\* All endpoints of an interface.
LEMMA RoutingWires ==
    ASSUME NEW d, DOMAIN d = DOMAIN NewDevice, NEW g \in Groups(d), NEW i \in 1 .. 3,
           i \in DOMAIN d.groups[g].ifs, Len(InterfacesOf[d.groups[g].kind][i]) \in 0 .. 3,
           ~d.raised => Wiring(d, IdsUpTo(d, g, i, 0))
    PROVE  LET e == RouteEndpoints(d, g, i)
           IN  /\ ~e.raised => ~d.raised /\ Wiring(e, AllIds(d))
               /\ e.ctrl = d.ctrl /\ e.alts = d.alts
<1> DEFINE a == RouteOne(d, g, i, 1)
           b == RouteOne(a, g, i, 2)
           c == RouteOne(b, g, i, 3)
           n == Len(InterfacesOf[d.groups[g].kind][i])
           Upto(k) == IdsUpTo(d, g, i, k)
           Done(e, k) == /\ ~e.raised => ~d.raised /\ Wiring(e, Upto(k))
                         /\ e.ctrl = d.ctrl /\ e.alts = d.alts
<1>1. RouteEndpoints(d, g, i) = Rungs(d, a, b, c)[n] BY RoutesInTurn
<1>2. n \in 0 .. 3 OBVIOUS
<1>3. ASSUME NEW k \in 1 .. 3, k <= n PROVE <<g, i, k>> \in AllIds(d)
  <2> DEFINE x == <<g, i, k>>
  <2>1. x \in Groups(d) \X (1 .. 3) \X (1 .. 3) OBVIOUS
  <2>2. x[1] = g /\ x[2] = i /\ x[3] = k OBVIOUS
  <2> HIDE DEF x
  <2>3. x \in AllIds(d) BY <1>3, <2>1, <2>2 DEF AllIds, n
  <2> QED BY <2>3 DEF x
<1>4. ASSUME NEW e, NEW k \in 1 .. 3, k <= n, SameParts(e, d), Done(e, k - 1)
      PROVE  Done(RouteOne(e, g, i, k), k) /\ SameParts(RouteOne(e, g, i, k), d)
  <2> DEFINE f == RouteOne(e, g, i, k)
  <2>1. DOMAIN e = DOMAIN NewDevice /\ e.groups = d.groups BY <1>4 DEF SameParts
  <2>2. AllIds(e) = AllIds(d) /\ \A m : IdsUpTo(e, g, i, m) = Upto(m) BY <2>1, IdsOf
  <2>3. <<g, i, k>> \in AllIds(e) BY <1>3, <1>4, <2>2
  <2> HIDE DEF Upto
  <2>4. /\ ~f.raised => ~e.raised /\ Wiring(f, Upto(k))
        /\ f.ctrl = e.ctrl /\ f.alts = e.alts
    <3>1. ~e.raised => Wiring(e, IdsUpTo(e, g, i, k - 1)) BY <1>4, <2>2
    <3>2. /\ ~f.raised => ~e.raised /\ Wiring(f, IdsUpTo(e, g, i, k))
          /\ f.ctrl = e.ctrl /\ f.alts = e.alts
      BY <2>1, <2>3, <3>1, RouteOneWires
    <3> QED BY <2>2, <3>2
  <2>5. SameParts(f, e) BY <2>1, RouteOneKeeps
  <2> HIDE DEF f
  <2>6. SameParts(f, d) BY <1>4, <2>5 DEF SameParts
  <2> QED BY <1>4, <2>4, <2>6 DEF f
<1>5. Upto(n) = AllIds(d)
  <2>1. \A x \in AllIds(d) : x[1] = g /\ x[2] = i => x[3] <= n BY DEF AllIds
  <2> HIDE DEF n
  <2> QED BY <2>1 DEF IdsUpTo
<1> HIDE DEF Upto, n
<1>6. Done(d, 0) /\ SameParts(d, d) BY DEF SameParts, Upto
<1> HIDE DEF Done
<1>7. n >= 1 => Done(a, 1) /\ SameParts(a, d) BY <1>4, <1>6
<1> HIDE DEF a
<1>8. n >= 2 => Done(b, 2) /\ SameParts(b, d)
  <2>1. SUFFICES ASSUME n >= 2 PROVE Done(b, 2) /\ SameParts(b, d) OBVIOUS
  <2>2. n >= 1 /\ 2 \in 1 .. 3 /\ 2 - 1 = 1 BY <1>2, <2>1
  <2>3. SameParts(a, d) /\ Done(a, 2 - 1) BY <1>7, <2>2
  <2> QED BY <1>4, <2>1, <2>2, <2>3
<1> HIDE DEF b
<1>9. n >= 3 => Done(c, 3) /\ SameParts(c, d)
  <2>1. SUFFICES ASSUME n >= 3 PROVE Done(c, 3) /\ SameParts(c, d) OBVIOUS
  <2>2. n >= 2 /\ 3 \in 1 .. 3 /\ 3 - 1 = 2 BY <1>2, <2>1
  <2>3. SameParts(b, d) /\ Done(b, 3 - 1) BY <1>8, <2>2
  <2> QED BY <1>4, <2>1, <2>2, <2>3
<1> HIDE DEF c
<1>10. Done(Rungs(d, a, b, c)[n], n)
  <2>1. CASE n = 0 BY <1>6, <2>1 DEF Rungs
  <2>2. CASE n = 1 BY <1>7, <2>2 DEF Rungs
  <2>3. CASE n = 2 BY <1>8, <2>3 DEF Rungs
  <2>4. CASE n = 3 BY <1>9, <2>4 DEF Rungs
  <2> QED BY <1>2, <2>1, <2>2, <2>3, <2>4
<1> QED BY <1>1, <1>5, <1>10 DEF Done

\* An interface claimed: what changes.
LEMMA ClaimedIs ==
    ASSUME NEW d, DeviceParts(d), NEW g \in Groups(d)
    PROVE  LET c == ClaimInterface(d, g)
           IN  /\ DOMAIN c = DOMAIN NewDevice /\ c.numIfs = d.numIfs + 1 /\ c.raised = d.raised
               /\ c.addr = d.addr /\ c.epMap = d.epMap /\ c.ctrl = d.ctrl /\ c.alts = d.alts
               /\ Groups(c) = Groups(d) /\ d.groups[g].ifs \in Seq(Nat) /\ d.numIfs \in Nat
               /\ c.groups[g].ifs = Append(d.groups[g].ifs, d.numIfs)
               /\ c.groups[g].block = d.groups[g].block /\ c.groups[g].kind = d.groups[g].kind
               /\ \A h \in Groups(d) : h # g => c.groups[h] = d.groups[h]
<1> DEFINE c == ClaimInterface(d, g)
           r == [d.groups[g] EXCEPT !.ifs = Append(d.groups[g].ifs, d.numIfs)]
<1>1. DOMAIN d = DOMAIN NewDevice /\ d.groups \in Seq(GroupSet) /\ d.numIfs \in Nat
  BY DEF DeviceParts, PartsTyped
<1>2. d.groups[g] \in GroupSet
  <2>1. g \in 1 .. Len(d.groups) BY <1>1 DEF Groups
  <2> QED BY <1>1, <2>1, ElementOfSeq
<1>3. /\ r.ifs = Append(d.groups[g].ifs, d.numIfs) /\ r.block = d.groups[g].block
      /\ r.kind = d.groups[g].kind /\ d.groups[g].ifs \in Seq(Nat)
  BY <1>2 DEF GroupSet
<1> HIDE DEF r
<1>4. /\ DOMAIN c = DOMAIN NewDevice /\ c.numIfs = d.numIfs + 1 /\ c.raised = d.raised
      /\ c.addr = d.addr /\ c.epMap = d.epMap /\ c.ctrl = d.ctrl /\ c.alts = d.alts
      /\ c.groups = [d.groups EXCEPT ![g] = r]
  BY <1>1 DEF ClaimInterface, NewDevice, r
<1> HIDE DEF c
<1>5. Groups(c) = Groups(d) /\ c.groups[g] = r /\ \A h \in Groups(d) : h # g => c.groups[h] = d.groups[h]
  BY <1>4 DEF Groups
<1> QED BY <1>1, <1>3, <1>4, <1>5 DEF c

LEMMA LastAppended ==
    ASSUME NEW s \in Seq(Nat), NEW n \in Nat
    PROVE  /\ Len(Append(s, n)) = Len(s) + 1 /\ Len(s) \in Nat /\ DOMAIN s = 1 .. Len(s)
           /\ DOMAIN Append(s, n) = DOMAIN s \cup {Len(s) + 1}
           /\ Append(s, n)[Len(s) + 1] = n /\ \A j \in DOMAIN s : Append(s, n)[j] = s[j]
<1> DEFINE t == Append(s, n)
<1>1. /\ t \in Seq(Nat) /\ Len(t) = Len(s) + 1 /\ Len(s) \in Nat
      /\ t[Len(s) + 1] = n /\ \A j \in 1 .. Len(s) : t[j] = s[j]
  BY AppendProperties
<1>2. DOMAIN s = 1 .. Len(s) OBVIOUS
<1> HIDE DEF t
<1>3. DOMAIN t = 1 .. Len(t) BY <1>1
<1>4. DOMAIN t = DOMAIN s \cup {Len(s) + 1} BY <1>1, <1>2, <1>3
<1> QED BY <1>1, <1>2, <1>4 DEF t

\* The interface claimed is the next of its function, with no endpoint yet.
LEMMA ClaimingWires ==
    ASSUME NEW d, DeviceParts(d), NEW g \in Groups(d), NEW i \in 1 .. 3,
           Len(d.groups[g].ifs) = i - 1, Wiring(d, AllIds(d))
    PROVE  LET c == ClaimInterface(d, g)
           IN  Wiring(c, IdsUpTo(c, g, i, 0)) /\ i \in DOMAIN c.groups[g].ifs
<1> DEFINE c == ClaimInterface(d, g)
           old == d.groups[g].ifs
           n == d.numIfs
<1>1. /\ c.addr = d.addr /\ c.epMap = d.epMap /\ Groups(c) = Groups(d) /\ old \in Seq(Nat) /\ n \in Nat
      /\ c.groups[g].ifs = Append(old, n) /\ c.groups[g].kind = d.groups[g].kind
      /\ \A h \in Groups(d) : h # g => c.groups[h] = d.groups[h]
  BY ClaimedIs
<1> HIDE DEF c, n
<1>2. DOMAIN c.groups[g].ifs = DOMAIN old \cup {i} /\ i \notin DOMAIN old
  <2>1. /\ Len(old) \in Nat /\ DOMAIN old = 1 .. Len(old)
        /\ DOMAIN Append(old, n) = DOMAIN old \cup {Len(old) + 1}
    BY <1>1, LastAppended
  <2>2. Len(old) + 1 = i BY <2>1
  <2> HIDE DEF old
  <2> QED BY <1>1, <2>1, <2>2
<1>3. \A h \in Groups(d) : c.groups[h].kind = d.groups[h].kind BY <1>1
<1>4. \A h \in Groups(d), j \in 1 .. 3 :
          (j \in DOMAIN c.groups[h].ifs /\ ~(h = g /\ j = i)) <=> j \in DOMAIN d.groups[h].ifs
  BY <1>1, <1>2
<1>5. IdsUpTo(c, g, i, 0) = AllIds(d)
  <2>1. \A x \in Groups(d) \X (1 .. 3) \X (1 .. 3) :
            /\ x[1] \in Groups(d) /\ x[2] \in 1 .. 3 /\ x[3] \in 1 .. 3
            /\ (x[1] = g /\ x[2] = i => x[3] <= 0) <=> ~(x[1] = g /\ x[2] = i)
    OBVIOUS
  <2>2. \A x \in Groups(d) \X (1 .. 3) \X (1 .. 3) :
            x \in IdsUpTo(c, g, i, 0) <=> x \in AllIds(d)
    BY <1>1, <1>3, <1>4, <2>1 DEF IdsUpTo, AllIds
  <2>3. /\ IdsUpTo(c, g, i, 0) \subseteq Groups(d) \X (1 .. 3) \X (1 .. 3)
        /\ AllIds(d) \subseteq Groups(d) \X (1 .. 3) \X (1 .. 3)
    BY <1>1 DEF IdsUpTo, AllIds
  <2> QED BY <2>2, <2>3
<1>6. \A x \in AllIds(d) : Declaration(c, x) = Declaration(d, x)
  <2>1. \A x \in AllIds(d) : x[1] \in Groups(d) BY DEF AllIds
  <2> QED BY <1>3, <2>1 DEF Declaration
<1>7. Wiring(c, AllIds(d)) BY <1>1, <1>6 DEF Wiring
<1> QED BY <1>2, <1>5, <1>7 DEF c

LEMMA ClaimingNumbers ==
    ASSUME NEW d, DeviceParts(d), NEW g \in Groups(d), NEW i \in 1 .. 3, ~d.groups[g].block,
           i <= Len(InterfacesOf[d.groups[g].kind]), Len(d.groups[g].ifs) = i - 1, Numbered(d)
    PROVE  LET c == ClaimInterface(d, g)
           IN  Numbered(c) /\ Len(c.groups[g].ifs) = i
<1> DEFINE c == ClaimInterface(d, g)
           old == d.groups[g].ifs
           new == c.groups[g].ifs
           n == d.numIfs
<1>1. /\ Groups(c) = Groups(d) /\ old \in Seq(Nat) /\ n \in Nat
      /\ new = Append(old, n) /\ c.groups[g].kind = d.groups[g].kind
      /\ c.groups[g].block = d.groups[g].block
      /\ \A h \in Groups(d) : h # g => c.groups[h] = d.groups[h]
  BY ClaimedIs
<1>2. /\ Len(new) = i /\ DOMAIN new = DOMAIN old \cup {i} /\ new[i] = n
      /\ \A j \in DOMAIN old : new[j] = old[j]
  <2>1. /\ Len(Append(old, n)) = Len(old) + 1
        /\ DOMAIN Append(old, n) = DOMAIN old \cup {Len(old) + 1}
        /\ Append(old, n)[Len(old) + 1] = n /\ \A j \in DOMAIN old : Append(old, n)[j] = old[j]
    BY <1>1, LastAppended
  <2>2. Len(old) + 1 = i OBVIOUS
  <2> HIDE DEF old, new, n, c
  <2> QED BY <1>1, <2>1, <2>2
<1>3. \A j \in DOMAIN old : old[j] # n
  <2>1. TAKE j \in DOMAIN old
  <2>2. old[j] \in IfsOf(d, g) BY DEF IfsOf
  <2>3. old[j] < n BY <2>2 DEF DeviceParts, NumbersApart
  <2> QED BY <1>1, <2>3
<1>4. \A j, k \in DOMAIN old : old[j] = old[k] => j = k BY DEF Numbered
<1> HIDE DEF old, new, n, c
<1>5. \A j, k \in DOMAIN new : new[j] = new[k] => j = k BY <1>2, <1>3, <1>4
<1>6. ASSUME NEW h \in Groups(d)
      PROVE  /\ Len(c.groups[h].ifs) <= Len(InterfacesOf[c.groups[h].kind])
             /\ c.groups[h].block => Len(c.groups[h].ifs) = Len(InterfacesOf[c.groups[h].kind])
             /\ \A j, k \in DOMAIN c.groups[h].ifs : c.groups[h].ifs[j] = c.groups[h].ifs[k] => j = k
  <2>1. CASE h = g BY <1>1, <1>2, <1>5, <2>1 DEF new
  <2>2. CASE h # g
    <3>1. c.groups[h] = d.groups[h] BY <1>1, <2>2
    <3> QED BY <3>1 DEF Numbered
  <2> QED BY <2>1, <2>2
<1> QED BY <1>1, <1>2, <1>6 DEF Numbered, c, new

\* An endpoint table is not what handlers are kept in: d is the device before the
\* interface was claimed, c with the number claimed, e with its handlers.
LEMMA RegisteringKeeps ==
    ASSUME NEW d, DeviceParts(d), NEW g \in Groups(d), NEW i \in 1 .. 3, Registered(d),
           Len(d.groups[g].ifs) = i - 1, NEW e, e.groups = ClaimInterface(d, g).groups,
           e.numIfs = d.numIfs + 1,
           \/ d.groups[g].kind = "raw" /\ e.ctrl = d.ctrl /\ e.alts = d.alts
           \/ /\ d.groups[g].kind # "raw" /\ e.ctrl = OnControl(d, d.numIfs, <<g, i>>)
              /\ e.alts = Insert(d.alts, d.numIfs, <<g, i>>)
    PROVE  Registered(e)
<1> DEFINE c == ClaimInterface(d, g)
           old == d.groups[g].ifs
           n == d.numIfs
           new == c.groups[g].ifs
<1>1. /\ Groups(c) = Groups(d) /\ old \in Seq(Nat) /\ n \in Nat
      /\ new = Append(old, n) /\ c.groups[g].kind = d.groups[g].kind
      /\ \A h \in Groups(d) : h # g => c.groups[h] = d.groups[h]
  BY ClaimedIs
<1>2. /\ DOMAIN new = DOMAIN old \cup {i} /\ new[i] = n /\ i \notin DOMAIN old
      /\ \A j \in DOMAIN old : new[j] = old[j]
  <2>1. /\ Len(Append(old, n)) = Len(old) + 1 /\ DOMAIN old = 1 .. Len(old) /\ Len(old) \in Nat
        /\ DOMAIN Append(old, n) = DOMAIN old \cup {Len(old) + 1}
        /\ Append(old, n)[Len(old) + 1] = n /\ \A j \in DOMAIN old : Append(old, n)[j] = old[j]
    BY <1>1, LastAppended
  <2>2. Len(old) + 1 = i OBVIOUS
  <2> HIDE DEF old, new, n, c
  <2> QED BY <1>1, <2>1, <2>2
<1> DEFINE Kept2(f, h) == /\ \A m \in DOMAIN h : m # n /\ m # -1 => m \in DOMAIN f /\ f[m] = h[m]
                          /\ -1 \in DOMAIN h => -1 \in DOMAIN f /\ f[-1] = h[-1]
<1>3. Kept2(e.ctrl, d.ctrl) /\ Kept2(e.alts, d.alts)
  <2>1. CASE d.groups[g].kind = "raw"
    <3>1. e.ctrl = d.ctrl /\ e.alts = d.alts BY <2>1
    <3> QED BY <3>1
  <2>2. CASE d.groups[g].kind # "raw"
    <3> DEFINE one == Insert(d.ctrl, n, <<g, i>>)
               two == Insert(one, -1, <<g, i>>)
               alt == Insert(d.alts, n, <<g, i>>)
    <3>1. Extended(one, d.ctrl, n, <<g, i>>) /\ Extended(two, one, -1, <<g, i>>)
          /\ Extended(alt, d.alts, n, <<g, i>>)
      BY Inserted
    <3>2. e.alts = alt /\ (e.ctrl = one \/ (-1 \notin DOMAIN d.ctrl /\ e.ctrl = two))
      BY <2>2 DEF OnControl
    <3> HIDE DEF one, two, alt
    <3>3. n # -1 BY <1>1
    <3>4. Kept2(one, d.ctrl) /\ Kept2(alt, d.alts) BY <3>1, <3>3 DEF Extended
    <3>5. -1 \notin DOMAIN d.ctrl => Kept2(two, d.ctrl) BY <3>1, <3>4 DEF Extended
    <3> QED BY <3>2, <3>4, <3>5
  <2> QED BY <2>1, <2>2
<1>4. d.groups[g].kind # "raw" => /\ n \in DOMAIN e.ctrl /\ e.ctrl[n] = <<g, i>>
                                  /\ n \in DOMAIN e.alts /\ e.alts[n] = <<g, i>>
                                  /\ -1 \notin DOMAIN d.ctrl => -1 \in DOMAIN e.ctrl /\ e.ctrl[-1] = <<g, i>>
  <2> SUFFICES ASSUME d.groups[g].kind # "raw"
               PROVE  /\ n \in DOMAIN e.ctrl /\ e.ctrl[n] = <<g, i>>
                      /\ n \in DOMAIN e.alts /\ e.alts[n] = <<g, i>>
                      /\ -1 \notin DOMAIN d.ctrl => -1 \in DOMAIN e.ctrl /\ e.ctrl[-1] = <<g, i>>
    OBVIOUS
  <2> DEFINE one == Insert(d.ctrl, n, <<g, i>>)
             two == Insert(one, -1, <<g, i>>)
             alt == Insert(d.alts, n, <<g, i>>)
  <2>1. Extended(one, d.ctrl, n, <<g, i>>) /\ Extended(two, one, -1, <<g, i>>)
        /\ Extended(alt, d.alts, n, <<g, i>>)
    BY Inserted
  <2>2. e.alts = alt /\ e.ctrl = IF -1 \in DOMAIN d.ctrl THEN one ELSE two
    BY DEF OnControl
  <2> HIDE DEF one, two, alt
  <2>3. n # -1 BY <1>1
  <2> QED BY <2>1, <2>2, <2>3 DEF Extended
<1>5. Groups(e) = Groups(d) /\ e.groups = c.groups BY <1>1 DEF Groups
<1> HIDE DEF c, new, n
<1>6. ASSUME NEW h \in Groups(d), c.groups[h].kind # "raw", NEW j \in DOMAIN c.groups[h].ifs
      PROVE  LET m == c.groups[h].ifs[j]
             IN  /\ m \in DOMAIN e.ctrl /\ e.ctrl[m] = <<h, j>>
                 /\ m \in DOMAIN e.alts /\ e.alts[m] = <<h, j>>
  <2>1. CASE h = g /\ j = i
    <3>1. c.groups[h].ifs[j] = n /\ d.groups[g].kind # "raw" BY <1>1, <1>2, <1>6, <2>1 DEF new
    <3> QED BY <1>4, <2>1, <3>1
  <2>2. CASE ~(h = g /\ j = i)
    <3> DEFINE m == d.groups[h].ifs[j]
    <3>1. j \in DOMAIN d.groups[h].ifs /\ c.groups[h].ifs[j] = m /\ d.groups[h].kind # "raw"
      <4>1. CASE h = g BY <1>1, <1>2, <1>6, <2>2, <4>1 DEF new
      <4>2. CASE h # g BY <1>1, <1>6, <4>2
      <4> QED BY <4>1, <4>2
    <3>2. m \in DOMAIN d.ctrl /\ d.ctrl[m] = <<h, j>> /\ m \in DOMAIN d.alts /\ d.alts[m] = <<h, j>>
      BY <3>1 DEF Registered, HandlerOf
    <3>3. m \in Nat /\ m < n
      <4>1. m \in IfsOf(d, h) BY <3>1 DEF IfsOf
      <4>2. m < n BY <4>1 DEF DeviceParts, NumbersApart, n
      <4>3. d.groups \in Seq(GroupSet) BY DEF DeviceParts, PartsTyped
      <4>4. h \in 1 .. Len(d.groups) BY <4>3 DEF Groups
      <4>5. d.groups[h] \in GroupSet BY <4>3, <4>4, ElementOfSeq
      <4>6. d.groups[h].ifs \in Seq(Nat) BY <4>5 DEF GroupSet
      <4>7. j \in 1 .. Len(d.groups[h].ifs) BY <3>1, <4>6
      <4> QED BY <4>2, <4>6, <4>7, ElementOfSeq
    <3> HIDE DEF m
    <3>4. m # n /\ m # -1 BY <1>1, <3>3
    <3> QED BY <1>3, <3>1, <3>2, <3>4
  <2> QED BY <2>1, <2>2
<1>7. ASSUME c.groups[1].ifs # <<>>, c.groups[1].kind # "raw"
      PROVE  -1 \in DOMAIN e.ctrl /\ e.ctrl[-1] = <<1, 1>>
  <2>0. 1 \in Groups(d) /\ d.groups # <<>>
    <3>1. d.groups \in Seq(GroupSet) BY DEF DeviceParts, PartsTyped
    <3> QED BY <3>1, EmptySeq DEF Groups
  <2>1. CASE g = 1 /\ i = 1
    <3>1. old = <<>>
      <4>1. Len(old) = 0 BY <2>1
      <4> QED BY <1>1, <4>1, EmptySeq
    <3>2. d.numIfs = 0 BY <2>1, <3>1 DEF DeviceParts, FirstIsZero
    <3>3. -1 \notin DOMAIN d.ctrl BY <3>2 DEF Registered
    <3>4. d.groups[g].kind # "raw" BY <1>1, <1>7, <2>1
    <3> QED BY <1>4, <2>1, <3>3, <3>4
  <2>2. CASE g = 1 /\ i # 1
    <3>1. old # <<>>
      <4>1. Len(old) # 0 BY <2>2
      <4> QED BY <1>1, <4>1, EmptySeq
    <3>2. d.groups[1].kind # "raw" BY <1>1, <1>7, <2>2
    <3>3. -1 \in DOMAIN d.ctrl /\ d.ctrl[-1] = <<1, 1>> BY <2>0, <2>2, <3>1, <3>2 DEF Registered
    <3> QED BY <1>3, <3>3
  <2>3. CASE g # 1
    <3>1. c.groups[1] = d.groups[1] BY <1>1, <2>0, <2>3
    <3>2. -1 \in DOMAIN d.ctrl /\ d.ctrl[-1] = <<1, 1>> BY <1>7, <2>0, <3>1 DEF Registered
    <3> QED BY <1>3, <3>2
  <2> QED BY <2>1, <2>2, <2>3
<1>8. e.numIfs # 0 BY <1>1 DEF n
<1>9. ASSUME NEW h \in Groups(e), e.groups[h].kind # "raw", NEW j \in DOMAIN e.groups[h].ifs
      PROVE  HandlerOf(e, h, j)
  BY <1>5, <1>6, <1>9 DEF HandlerOf
<1>10. e.groups[1].ifs # <<>> /\ e.groups[1].kind # "raw" => -1 \in DOMAIN e.ctrl /\ e.ctrl[-1] = <<1, 1>>
  BY <1>5, <1>7
<1> QED BY <1>8, <1>9, <1>10 DEF Registered

\* What is wired of a device is so by these parts of it.
SameWires(e, d) ==
    /\ e.addr = d.addr /\ e.epMap = d.epMap /\ e.ctrl = d.ctrl /\ e.alts = d.alts /\ e.numIfs = d.numIfs
    /\ Groups(e) = Groups(d)
    /\ \A h \in Groups(d) : e.groups[h].ifs = d.groups[h].ifs /\ e.groups[h].kind = d.groups[h].kind

LEMMA SameWiresKept ==
    ASSUME NEW d, NEW e, SameWires(e, d), d.groups = <<>> => e.groups = <<>>,
           d.groups # <<>> => 1 \in Groups(d)
    PROVE  /\ Wiring(d, AllIds(d)) => Wiring(e, AllIds(e))
           /\ Registered(d) => Registered(e)
           /\ Numbered(d) /\ (\A h \in Groups(d) : e.groups[h].block =>
                  d.groups[h].block \/ Len(d.groups[h].ifs) = Len(InterfacesOf[d.groups[h].kind])) => Numbered(e)
<1>1. AllIds(e) = AllIds(d)
  <2>1. \A x \in Groups(d) \X (1 .. 3) \X (1 .. 3) : x \in AllIds(e) <=> x \in AllIds(d)
    <3>1. TAKE x \in Groups(d) \X (1 .. 3) \X (1 .. 3)
    <3>2. x[1] \in Groups(d) OBVIOUS
    <3> QED BY <3>2 DEF SameWires, AllIds
  <2> QED BY <2>1 DEF AllIds, SameWires
<1>2. Wiring(d, AllIds(d)) => Wiring(e, AllIds(e))
  <2>1. \A x \in AllIds(d) : Declaration(e, x) = Declaration(d, x)
    <3>1. \A x \in AllIds(d) : x[1] \in Groups(d) BY DEF AllIds
    <3> QED BY <3>1 DEF Declaration, SameWires
  <2> QED BY <1>1, <2>1 DEF Wiring, SameWires
<1>3. Registered(d) => Registered(e)
  <2> SUFFICES ASSUME Registered(d) PROVE Registered(e) OBVIOUS
  <2>1. ASSUME NEW h \in Groups(e), e.groups[h].kind # "raw", NEW j \in DOMAIN e.groups[h].ifs
        PROVE  HandlerOf(e, h, j)
    <3>1. /\ h \in Groups(d) /\ d.groups[h].kind # "raw" /\ j \in DOMAIN d.groups[h].ifs
          /\ e.groups[h].ifs = d.groups[h].ifs
      BY <2>1 DEF SameWires
    <3>2. HandlerOf(d, h, j) BY <3>1 DEF Registered
    <3> QED BY <3>1, <3>2 DEF HandlerOf, SameWires
  <2>2. e.numIfs = 0 => -1 \notin DOMAIN e.ctrl BY DEF Registered, SameWires
  <2>3. e.groups # <<>> /\ e.groups[1].ifs # <<>> /\ e.groups[1].kind # "raw" =>
            -1 \in DOMAIN e.ctrl /\ e.ctrl[-1] = <<1, 1>>
    BY DEF Registered, SameWires
  <2> QED BY <2>1, <2>2, <2>3 DEF Registered
<1>4. ASSUME Numbered(d), \A h \in Groups(d) : e.groups[h].block =>
                  d.groups[h].block \/ Len(d.groups[h].ifs) = Len(InterfacesOf[d.groups[h].kind])
      PROVE  Numbered(e)
  <2>1. ASSUME NEW h \in Groups(e)
        PROVE  /\ Len(e.groups[h].ifs) <= Len(InterfacesOf[e.groups[h].kind])
               /\ e.groups[h].block => Len(e.groups[h].ifs) = Len(InterfacesOf[e.groups[h].kind])
               /\ \A i, j \in DOMAIN e.groups[h].ifs : e.groups[h].ifs[i] = e.groups[h].ifs[j] => i = j
    <3>1. h \in Groups(d) /\ e.groups[h].ifs = d.groups[h].ifs /\ e.groups[h].kind = d.groups[h].kind
      BY DEF SameWires
    <3> QED BY <1>4, <3>1 DEF Numbered
  <2> QED BY <2>1 DEF Numbered
<1> QED BY <1>2, <1>3, <1>4

\* One interface attached, unless an endpoint of it found no address.
LEMMA AttachingWires ==
    ASSUME NEW d, DeviceParts(d), NEW g \in Groups(d), NEW i \in 1 .. 3,
           i <= Len(InterfacesOf[d.groups[g].kind]),
           ~d.raised => Wired(d) /\ Len(d.groups[g].ifs) = i - 1 /\ ~d.groups[g].block
    PROVE  LET e == AttachInterface(d, g, i)
           IN  /\ ~e.raised => ~d.raised /\ Wired(e) /\ Len(e.groups[g].ifs) = i /\ ~e.groups[g].block
<1> DEFINE c == ClaimInterface(d, g)
           f == RouteEndpoints(c, g, i)
           e == AttachInterface(d, g, i)
<1>1. CASE d.raised BY <1>1 DEF AttachInterface
<1>2. CASE ~d.raised
  <2> SUFFICES ASSUME ~e.raised
               PROVE  Wired(e) /\ Len(e.groups[g].ifs) = i /\ ~e.groups[g].block
    BY <1>2
  <2>1. /\ Wiring(d, AllIds(d)) /\ Numbered(d) /\ Registered(d)
        /\ Len(d.groups[g].ifs) = i - 1 /\ ~d.groups[g].block
    BY <1>2 DEF Wired
  <2>2. /\ DOMAIN c = DOMAIN NewDevice /\ c.numIfs = d.numIfs + 1 /\ c.raised = d.raised
        /\ c.ctrl = d.ctrl /\ c.alts = d.alts /\ Groups(c) = Groups(d)
        /\ c.groups[g].kind = d.groups[g].kind /\ c.groups[g].block = d.groups[g].block
    BY ClaimedIs
  <2>3. Wiring(c, IdsUpTo(c, g, i, 0)) /\ i \in DOMAIN c.groups[g].ifs BY <2>1, ClaimingWires
  <2>4. Numbered(c) /\ Len(c.groups[g].ifs) = i BY <2>1, ClaimingNumbers
  <2>5. Len(InterfacesOf[c.groups[g].kind][i]) \in 0 .. 3
    <3>1. d.groups \in Seq(GroupSet) BY DEF DeviceParts, PartsTyped
    <3>2. g \in 1 .. Len(d.groups) BY <3>1 DEF Groups
    <3>3. d.groups[g] \in GroupSet BY <3>1, <3>2, ElementOfSeq
    <3>4. d.groups[g].kind \in Kinds BY <3>3 DEF GroupSet
    <3>5. Len(InterfacesOf[d.groups[g].kind]) \in 1 .. 3 BY <3>4, Declared
    <3>6. i \in 1 .. Len(InterfacesOf[d.groups[g].kind]) BY <3>5
    <3> QED BY <2>2, <3>4, <3>6, Declared
  <2> DEFINE groups == ClaimInterface(d, g).groups
  <2>5a. c.groups = groups OBVIOUS
  <2> HIDE DEF c, groups
  <2>6. SameParts(f, c) BY <2>2, <2>5, RoutingKeeps
  <2>7. /\ ~f.raised => Wiring(f, AllIds(c))
        /\ f.ctrl = c.ctrl /\ f.alts = c.alts
    BY <2>2, <2>3, <2>5, RoutingWires
  <2>8. /\ DOMAIN f = DOMAIN NewDevice /\ f.groups = c.groups /\ f.numIfs = c.numIfs
    BY <2>2, <2>6 DEF SameParts
  <2> HIDE DEF f
  <2> DEFINE x == OnControl(f, d.numIfs, <<g, i>>)
             y == Insert(f.alts, d.numIfs, <<g, i>>)
             z == f.hooks \cup {<<g, i>>}
  <2>9. e = IF f.raised \/ d.groups[g].kind = "raw" THEN f
            ELSE [f EXCEPT !.ctrl = x, !.alts = y, !.hooks = z]
    BY <1>2 DEF AttachInterface, c, f
  <2>10. x = OnControl(d, d.numIfs, <<g, i>>) /\ y = Insert(d.alts, d.numIfs, <<g, i>>)
    BY <2>2, <2>7 DEF OnControl
  <2> HIDE DEF x, y, z, e
  <2>11. /\ ~f.raised /\ e.groups = c.groups /\ e.addr = f.addr /\ e.epMap = f.epMap /\ e.numIfs = c.numIfs
         /\ \/ d.groups[g].kind = "raw" /\ e.ctrl = f.ctrl /\ e.alts = f.alts
            \/ d.groups[g].kind # "raw" /\ e.ctrl = x /\ e.alts = y
    <3>1. CASE f.raised BY <2>9, <3>1
    <3>2. CASE ~f.raised /\ d.groups[g].kind = "raw" BY <2>8, <2>9, <3>2
    <3>3. CASE ~f.raised /\ d.groups[g].kind # "raw"
      <4>1. e = [f EXCEPT !.ctrl = x, !.alts = y, !.hooks = z] BY <2>9, <3>3
      <4>2. /\ e.groups = f.groups /\ e.addr = f.addr /\ e.epMap = f.epMap /\ e.numIfs = f.numIfs
            /\ e.ctrl = x /\ e.alts = y
        BY <2>8, <4>1 DEF NewDevice
      <4> QED BY <2>8, <3>3, <4>2
    <3> QED BY <3>1, <3>2, <3>3
  <2>12. Wiring(e, AllIds(e))
    <3>1. AllIds(e) = AllIds(c) BY <2>11, IdsOf
    <3>2. \A id : Declaration(e, id) = Declaration(f, id) BY <2>8, <2>11 DEF Declaration
    <3> QED BY <2>7, <2>11, <3>1, <3>2 DEF Wiring
  <2>13. Numbered(e) BY <2>4, <2>11 DEF Numbered, Groups
  <2>14. Registered(e)
    <3>1. e.groups = ClaimInterface(d, g).groups /\ e.numIfs = d.numIfs + 1
      BY <2>2, <2>5a, <2>11 DEF groups
    <3>2. \/ d.groups[g].kind = "raw" /\ e.ctrl = d.ctrl /\ e.alts = d.alts
          \/ /\ d.groups[g].kind # "raw" /\ e.ctrl = OnControl(d, d.numIfs, <<g, i>>)
             /\ e.alts = Insert(d.alts, d.numIfs, <<g, i>>)
      BY <2>2, <2>7, <2>10, <2>11
    <3> QED BY <2>1, <3>1, <3>2, RegisteringKeeps
  <2> QED BY <2>1, <2>2, <2>4, <2>11, <2>12, <2>13, <2>14 DEF Wired
<1> QED BY <1>1, <1>2

\* A device that has grown grows on.
LEMMA GrowingOn ==
    ASSUME NEW d, DeviceParts(d), NEW g \in Groups(d), g # 1 => d.groups[1].ifs # <<>>,
           NEW e, Grown(e, d, g), NEW i \in 1 .. Len(InterfacesOf[d.groups[g].kind])
    PROVE  Grown(AttachInterface(e, g, i), d, g)
<1> DEFINE f == AttachInterface(e, g, i)
<1>1. DeviceParts(e) /\ g \in Groups(e) /\ e.groups[g].ifs # <<>> BY DEF Grown, Groups
<1>2. g # 1 => e.groups[1].ifs # <<>>
  <2>1. 1 \in Groups(d)
    <3>1. d.groups \in Seq(GroupSet) BY DEF DeviceParts, PartsTyped
    <3> QED BY <3>1 DEF Groups
  <2> QED BY <2>1 DEF Grown
<1>3. i \in 1 .. Len(InterfacesOf[e.groups[g].kind]) BY DEF Grown
<1>4. Grown(f, e, g) BY <1>1, <1>2, <1>3, AttachingGrows
<1> HIDE DEF f
<1>5. Grown(f, d, g) BY <1>4 DEF Grown, Groups
<1> QED BY <1>5 DEF f

\* All interfaces of a function, unless an endpoint found no address.
LEMMA AttachingAllWires ==
    ASSUME NEW d, DeviceParts(d), ~d.raised, NEW g \in Groups(d), g # 1 => d.groups[1].ifs # <<>>,
           Wired(d), d.groups[g].ifs = <<>>, ~d.groups[g].block
    PROVE  LET e == AttachInterfaces(d, g)
           IN  ~e.raised => /\ Wired(e) /\ ~e.groups[g].block
                            /\ Len(e.groups[g].ifs) = Len(InterfacesOf[d.groups[g].kind])
<1> DEFINE n == Len(InterfacesOf[d.groups[g].kind])
           a == AttachInterface(d, g, 1)
           b == AttachInterface(a, g, 2)
           c == AttachInterface(b, g, 3)
           Done(e, k) == ~e.raised => Wired(e) /\ Len(e.groups[g].ifs) = k /\ ~e.groups[g].block
<1>1. n \in 1 .. 3
  <2>1. d.groups \in Seq(GroupSet) BY DEF DeviceParts, PartsTyped
  <2>2. g \in 1 .. Len(d.groups) BY <2>1 DEF Groups
  <2>3. d.groups[g] \in GroupSet BY <2>1, <2>2, ElementOfSeq
  <2>4. d.groups[g].kind \in Kinds BY <2>3 DEF GroupSet
  <2> QED BY <2>4, Declared
<1>2. AttachInterfaces(d, g) = Rungs(d, a, b, c)[n]
  <2>1. Len(InterfacesOf[d.groups[g].kind]) \in 0 .. 3 BY <1>1
  <2> QED BY <2>1, InterfacesInTurn
<1>3. ASSUME NEW e, NEW i \in 1 .. 3, i <= n, Done(e, i - 1), DeviceParts(e), g \in Groups(e),
             e.groups[g].kind = d.groups[g].kind
      PROVE  Done(AttachInterface(e, g, i), i)
  <2>1. i <= Len(InterfacesOf[e.groups[g].kind]) BY <1>3
  <2> QED BY <1>3, <2>1, AttachingWires
<1>4. Done(d, 0) OBVIOUS
<1>5. Grown(a, d, g) /\ Done(a, 1)
  <2>1. 1 \in 1 .. n /\ 1 \in 1 .. 3 /\ 1 <= n /\ 1 - 1 = 0
    <3> HIDE DEF n
    <3> QED BY <1>1
  <2>2. Grown(a, d, g) BY <2>1, AttachingGrows
  <2> HIDE DEF n, Done
  <2> QED BY <1>3, <1>4, <2>1, <2>2
<1> HIDE DEF a, Done
<1>6. n >= 2 => Grown(b, d, g) /\ Done(b, 2)
  <2>1. SUFFICES ASSUME n >= 2 PROVE Grown(b, d, g) /\ Done(b, 2) OBVIOUS
  <2>2. 2 \in 1 .. n /\ 2 \in 1 .. 3 /\ 2 <= n /\ 2 - 1 = 1 BY <1>1, <2>1
  <2>3. Grown(b, d, g) BY <1>5, <2>2, GrowingOn
  <2>4. DeviceParts(a) /\ g \in Groups(a) /\ a.groups[g].kind = d.groups[g].kind BY <1>5 DEF Grown, Groups
  <2> HIDE DEF n
  <2> QED BY <1>3, <1>5, <2>2, <2>3, <2>4
<1> HIDE DEF b
<1>7. n >= 3 => Done(c, 3)
  <2>1. SUFFICES ASSUME n >= 3 PROVE Done(c, 3) OBVIOUS
  <2>2. 3 \in 1 .. 3 /\ 3 <= n /\ 3 - 1 = 2 /\ n >= 2 BY <1>1, <2>1
  <2>3. DeviceParts(b) /\ g \in Groups(b) /\ b.groups[g].kind = d.groups[g].kind
    BY <1>6, <2>2 DEF Grown, Groups
  <2> HIDE DEF n
  <2> QED BY <1>3, <1>6, <2>2, <2>3
<1> HIDE DEF c, n
<1>8. Done(Rungs(d, a, b, c)[n], n)
  <2>1. CASE n = 1 BY <1>5, <2>1 DEF Rungs
  <2>2. CASE n = 2 BY <1>6, <2>2 DEF Rungs
  <2>3. CASE n = 3 BY <1>7, <2>3 DEF Rungs
  <2> QED BY <1>1, <2>1, <2>2, <2>3
<1> QED BY <1>2, <1>8 DEF Done, n

\* A function's group as Attach opens it.
Opened(d, kind) ==
    SetDeviceTriple([d EXCEPT !.groups = Append(@, [kind |-> kind, ifs |-> <<>>, block |-> FALSE, string |-> 0])],
                    TripleOf(d, kind))

LEMMA OpeningIs ==
    ASSUME NEW d, DeviceParts(d), NEW kind \in Kinds
    PROVE  LET e == Opened(d, kind)
               g == Len(d.groups) + 1
           IN  /\ DOMAIN e = DOMAIN NewDevice /\ e.groups \in Seq(GroupSet)
               /\ Groups(e) = Groups(d) \cup {g} /\ g \notin Groups(d) /\ g \in Nat /\ g > 0
               /\ Groups(d) = 1 .. (g - 1)
               /\ \A h \in Groups(d) : e.groups[h] = d.groups[h]
               /\ e.groups[g].kind = kind /\ e.groups[g].ifs = <<>> /\ ~e.groups[g].block
               /\ e.addr = d.addr /\ e.epMap = d.epMap /\ e.ctrl = d.ctrl /\ e.alts = d.alts
               /\ e.numIfs = d.numIfs /\ e.raised = d.raised /\ e.strings = d.strings
               /\ e.msos = d.msos /\ e.webusb = d.webusb /\ e.bcdUSB = d.bcdUSB
<1> DEFINE g == Len(d.groups) + 1
           new == [kind |-> kind, ifs |-> <<>>, block |-> FALSE, string |-> 0]
           longer == Append(d.groups, new)
           opened == [d EXCEPT !.groups = longer]
           t == TripleOf(d, kind)
           e == Opened(d, kind)
<1>1. DOMAIN d = DOMAIN NewDevice /\ d.groups \in Seq(GroupSet) BY DEF DeviceParts, PartsTyped
<1>2. new \in GroupSet /\ new.ifs = <<>> /\ new.kind = kind /\ ~new.block BY DEF GroupSet
<1> HIDE DEF new
<1>3. /\ longer \in Seq(GroupSet) /\ DOMAIN longer = Groups(d) \cup {g} /\ longer[g] = new
      /\ g \in Nat /\ g > 0 /\ g \notin Groups(d) /\ Groups(d) = 1 .. (g - 1)
      /\ \A h \in Groups(d) : longer[h] = d.groups[h]
  <2>1. /\ longer \in Seq(GroupSet) /\ Len(longer) = Len(d.groups) + 1 /\ Len(d.groups) \in Nat
        /\ longer[Len(d.groups) + 1] = new /\ \A i \in 1 .. Len(d.groups) : longer[i] = d.groups[i]
    BY <1>1, <1>2, AppendProperties
  <2>2. Groups(d) = 1 .. Len(d.groups) BY <1>1 DEF Groups
  <2>3. DOMAIN longer = 1 .. Len(longer) BY <2>1
  <2> HIDE DEF longer
  <2> QED BY <2>1, <2>2, <2>3
<1> HIDE DEF longer, g
<1>4. /\ DOMAIN opened = DOMAIN NewDevice /\ opened.groups = longer /\ opened.numIfs = d.numIfs
      /\ opened.msos = d.msos /\ opened.strings = d.strings /\ opened.raised = d.raised
      /\ opened.webusb = d.webusb /\ opened.bcdUSB = d.bcdUSB
      /\ opened.addr = d.addr /\ opened.epMap = d.epMap /\ opened.ctrl = d.ctrl /\ opened.alts = d.alts
  BY <1>1 DEF NewDevice
<1>5. e = SetDeviceTriple(opened, t) BY DEF Opened, longer, new
<1> HIDE DEF opened, t, e
<1>6. e = opened \/ e = [opened EXCEPT !.triple = t] BY <1>5 DEF SetDeviceTriple
<1>7. /\ DOMAIN e = DOMAIN NewDevice /\ e.groups = longer /\ e.numIfs = d.numIfs
      /\ e.msos = d.msos /\ e.strings = d.strings /\ e.raised = d.raised
      /\ e.webusb = d.webusb /\ e.bcdUSB = d.bcdUSB
      /\ e.addr = d.addr /\ e.epMap = d.epMap /\ e.ctrl = d.ctrl /\ e.alts = d.alts
  BY <1>4, <1>6 DEF NewDevice
<1> QED BY <1>2, <1>3, <1>7 DEF e, g, Groups

LEMMA OpeningWires ==
    ASSUME NEW d, DeviceParts(d), NEW kind \in Kinds, Wired(d)
    PROVE  Wired(Opened(d, kind))
<1> DEFINE e == Opened(d, kind)
           g == Len(d.groups) + 1
<1>1. /\ Groups(e) = Groups(d) \cup {g} /\ g \notin Groups(d) /\ g > 0 /\ g \in Nat
      /\ Groups(d) = 1 .. (g - 1)
      /\ \A h \in Groups(d) : e.groups[h] = d.groups[h]
      /\ e.groups[g].kind = kind /\ e.groups[g].ifs = <<>> /\ ~e.groups[g].block
      /\ e.addr = d.addr /\ e.epMap = d.epMap /\ e.ctrl = d.ctrl /\ e.alts = d.alts /\ e.numIfs = d.numIfs
  BY OpeningIs
<1> HIDE DEF e, g
<1>2. AllIds(e) = AllIds(d)
  <2>1. ASSUME NEW x \in AllIds(e) PROVE x \in AllIds(d)
    <3>1. x[1] # g BY <1>1, <2>1 DEF AllIds
    <3>2. x[1] \in Groups(d) BY <1>1, <3>1 DEF AllIds
    <3> QED BY <1>1, <3>2 DEF AllIds
  <2>2. ASSUME NEW x \in AllIds(d) PROVE x \in AllIds(e)
    <3>1. x[1] \in Groups(d) /\ x \in Groups(d) \X (1 .. 3) \X (1 .. 3) BY DEF AllIds
    <3>2. x \in Groups(e) \X (1 .. 3) \X (1 .. 3) BY <1>1, <3>1
    <3> QED BY <1>1, <3>1, <3>2 DEF AllIds
  <2> QED BY <2>1, <2>2
<1>3. Wiring(e, AllIds(e))
  <2>1. \A x \in AllIds(d) : Declaration(e, x) = Declaration(d, x)
    <3>1. \A x \in AllIds(d) : x[1] \in Groups(d) BY DEF AllIds
    <3> QED BY <1>1, <3>1 DEF Declaration
  <2> QED BY <1>1, <1>2, <2>1 DEF Wired, Wiring
<1>4. Numbered(e)
  <2>1. ASSUME NEW h \in Groups(e)
        PROVE  /\ Len(e.groups[h].ifs) <= Len(InterfacesOf[e.groups[h].kind])
               /\ e.groups[h].block => Len(e.groups[h].ifs) = Len(InterfacesOf[e.groups[h].kind])
               /\ \A i, j \in DOMAIN e.groups[h].ifs : e.groups[h].ifs[i] = e.groups[h].ifs[j] => i = j
    <3>1. CASE h = g
      <4>1. Len(InterfacesOf[kind]) \in 1 .. 3 BY Declared
      <4>2. e.groups[h].ifs = <<>> /\ Len(<<>>) = 0 /\ DOMAIN <<>> = {} BY <1>1, <3>1
      <4> QED BY <1>1, <3>1, <4>1, <4>2
    <3>2. CASE h # g BY <1>1, <3>2 DEF Wired, Numbered
    <3> QED BY <3>1, <3>2
  <2> QED BY <2>1 DEF Numbered
<1>5. Registered(e)
  <2>1. ASSUME NEW h \in Groups(e), e.groups[h].kind # "raw", NEW j \in DOMAIN e.groups[h].ifs
        PROVE  HandlerOf(e, h, j)
    <3>1. h # g BY <1>1, <2>1
    <3>2. h \in Groups(d) /\ e.groups[h] = d.groups[h] BY <1>1, <3>1
    <3>3. HandlerOf(d, h, j) BY <2>1, <3>2 DEF Wired, Registered
    <3> QED BY <1>1, <3>2, <3>3 DEF HandlerOf
  <2>2. e.numIfs = 0 => -1 \notin DOMAIN e.ctrl BY <1>1 DEF Wired, Registered
  <2>3. ASSUME e.groups # <<>>, e.groups[1].ifs # <<>>, e.groups[1].kind # "raw"
        PROVE  -1 \in DOMAIN e.ctrl /\ e.ctrl[-1] = <<1, 1>>
    <3>1. g # 1 BY <1>1, <2>3
    <3>2. 1 \in Groups(d) BY <1>1, <3>1
    <3>3. d.groups # <<>> BY <3>2 DEF Groups
    <3> QED BY <1>1, <2>3, <3>2, <3>3 DEF Wired, Registered
  <2> QED BY <2>1, <2>2, <2>3 DEF Registered
<1> QED BY <1>3, <1>4, <1>5 DEF Wired, e

LEMMA OpeningKeeps ==
    ASSUME NEW d, DeviceParts(d), NEW kind \in Kinds,
           \A h \in Groups(d) : d.groups[h].ifs # <<>>
    PROVE  DeviceParts(Opened(d, kind))
<1> DEFINE e == Opened(d, kind)
           g == Len(d.groups) + 1
<1>1. /\ d.groups \in Seq(GroupSet) /\ d.numIfs \in Nat /\ d.msos \in Seq(EntrySet)
      /\ d.strings \in Seq(Nat \X Nat)
  BY DEF DeviceParts, PartsTyped
<1>2. /\ DOMAIN e = DOMAIN NewDevice /\ e.groups \in Seq(GroupSet)
      /\ Groups(e) = Groups(d) \cup {g} /\ g \notin Groups(d) /\ g \in Nat /\ g > 0
      /\ Groups(d) = 1 .. (g - 1)
      /\ \A h \in Groups(d) : e.groups[h] = d.groups[h]
      /\ e.groups[g].ifs = <<>> /\ e.numIfs = d.numIfs /\ e.strings = d.strings
      /\ e.msos = d.msos /\ e.webusb = d.webusb /\ e.bcdUSB = d.bcdUSB
  BY OpeningIs
<1> HIDE DEF e
<1>3. PartsTyped(e) BY <1>1, <1>2 DEF PartsTyped
<1>4. IfsOf(e, g) = {} /\ \A h \in Groups(d) : IfsOf(e, h) = IfsOf(d, h) BY <1>2 DEF IfsOf
<1>5. NumbersApart(e)
  <2> HIDE DEF g
  <2>1. \A h \in Groups(e) : \A n \in IfsOf(e, h) : n < e.numIfs
    BY <1>2, <1>4, Zenon DEF DeviceParts, NumbersApart
  <2>2. ASSUME NEW h \in Groups(e), NEW k \in Groups(e), h # k
        PROVE  IfsOf(e, h) \cap IfsOf(e, k) = {}
    <3>1. CASE h = g \/ k = g BY <1>4, <3>1
    <3>2. CASE h # g /\ k # g BY <1>2, <1>4, <2>2, <3>2 DEF DeviceParts, NumbersApart
    <3> QED BY <3>1, <3>2
  <2> QED BY <2>1, <2>2 DEF NumbersApart
<1>6. FirstIsZero(e)
  <2>1. e.groups # <<>> BY <1>2 DEF Groups
  <2>2. CASE g = 1
    <3>1. Len(d.groups) = 0 BY <1>1, <2>2
    <3>2. d.groups = <<>> BY <1>1, <3>1, EmptySeq
    <3> QED BY <1>2, <2>2, <3>2 DEF DeviceParts, FirstIsZero
  <2>3. CASE g # 1
    <3> HIDE DEF g
    <3>1. 1 \in Groups(d) BY <1>2, <2>3
    <3>2. d.groups # <<>> /\ d.groups[1].ifs # <<>> BY <1>1, <3>1, EmptySeq DEF Groups
    <3> QED BY <1>2, <2>1, <3>1, <3>2 DEF DeviceParts, FirstIsZero
  <2> QED BY <2>2, <2>3
<1>7. Advertised(e) BY <1>2 DEF DeviceParts, Advertised
<1> QED BY <1>3, <1>5, <1>6, <1>7 DEF DeviceParts, e

\* What is called once a function has its interfaces changes no wire.
Alike(e, d) ==
    /\ SameWires(e, d)
    /\ \A h \in Groups(d) : e.groups[h].block = d.groups[h].block

LEMMA AlikeKept ==
    ASSUME NEW d, DeviceParts(d), NEW e, DeviceParts(e), Alike(e, d), Wired(d)
    PROVE  Wired(e)
<1>1. d.groups \in Seq(GroupSet) /\ e.groups \in Seq(GroupSet) BY DEF DeviceParts, PartsTyped
<1>2. DOMAIN e.groups = DOMAIN d.groups BY DEF Alike, SameWires, Groups
<1>3. d.groups = <<>> => e.groups = <<>>
  <2>1. Len(e.groups) = Len(d.groups) BY <1>1, <1>2
  <2> QED BY <1>1, <2>1, EmptySeq
<1>4. d.groups # <<>> => 1 \in Groups(d) BY <1>1, EmptySeq DEF Groups
<1>5. \A h \in Groups(d) : e.groups[h].block => d.groups[h].block BY DEF Alike
<1> QED BY <1>3, <1>4, <1>5, SameWiresKept DEF Alike, Wired

LEMMA TripleAlike ==
    ASSUME NEW d, DeviceParts(d), NEW t
    PROVE  Alike(SetDeviceTriple(d, t), d)
<1>1. DOMAIN d = DOMAIN NewDevice BY DEF DeviceParts, PartsTyped
<1> DEFINE e == [d EXCEPT !.triple = t]
<1>2. /\ e.groups = d.groups /\ e.addr = d.addr /\ e.epMap = d.epMap /\ e.ctrl = d.ctrl /\ e.alts = d.alts
      /\ e.numIfs = d.numIfs
  BY <1>1 DEF NewDevice
<1> HIDE DEF e
<1>3. Alike(e, d) BY <1>2 DEF Alike, SameWires, Groups
<1>4. Alike(d, d) BY DEF Alike, SameWires
<1> QED BY <1>3, <1>4 DEF SetDeviceTriple, e

LEMMA AdvertisingAlike ==
    ASSUME NEW d, DeviceParts(d), NEW scope, NEW compatible
    PROVE  Alike(EnableMsos(d, scope, compatible), d)
<1> DEFINE entry == [scope |-> scope, compatible |-> compatible]
           replaced == [i \in DOMAIN d.msos |-> IF d.msos[i].scope = scope THEN entry ELSE d.msos[i]]
           longer == Append(d.msos, entry)
           e == EnableMsos(d, scope, compatible)
<1>1. DOMAIN d = DOMAIN NewDevice BY DEF DeviceParts, PartsTyped
<1>2. e = [d EXCEPT !.msos = replaced, !.bcdUSB = 21] \/ e = [d EXCEPT !.msos = longer, !.bcdUSB = 21]
  BY <1>1 DEF EnableMsos, NewDevice
<1> HIDE DEF e, replaced, longer
<1>3. /\ e.groups = d.groups /\ e.addr = d.addr /\ e.epMap = d.epMap /\ e.ctrl = d.ctrl /\ e.alts = d.alts
      /\ e.numIfs = d.numIfs
  BY <1>1, <1>2 DEF NewDevice
<1>4. Alike(e, d) BY <1>3 DEF Alike, SameWires, Groups
<1> QED BY <1>4 DEF e

LEMMA OnAddedAlike ==
    ASSUME NEW d, DeviceParts(d), NEW g \in Groups(d)
    PROVE  Alike(OnAdded(d, g), d)
<1> DEFINE kind == d.groups[g].kind
           own == OwnCompatible(kind)
           string == IF Labels(g, kind) = <<>> THEN 0 ELSE Len(d.strings) + 1
           strings == d.strings \o Labels(g, kind)
           r == [d.groups[g] EXCEPT !.string = string]
           x == [d.groups EXCEPT ![g] = r]
           e == [d EXCEPT !.groups[g].string = string, !.strings = strings]
<1>1. d.groups \in Seq(GroupSet) /\ DOMAIN d = DOMAIN NewDevice /\ d.strings \in Seq(Nat \X Nat)
  BY DEF DeviceParts, PartsTyped
<1>2. g \in 1 .. Len(d.groups) /\ g \in Nat BY <1>1 DEF Groups
<1>3. d.groups[g] \in GroupSet BY <1>1, <1>2, ElementOfSeq
<1>4. strings \in Seq(Nat \X Nat)
  <2>1. Labels(g, kind) \in Seq(Nat \X Nat)
    <3>1. <<g, 0>> \in Nat \X Nat /\ <<g, 1>> \in Nat \X Nat BY <1>2
    <3>2. <<<<g, 0>>>> \in Seq(Nat \X Nat) /\ <<<<g, 0>>, <<g, 1>>>> \in Seq(Nat \X Nat) BY <3>1
    <3>3. <<>> \in Seq(Nat \X Nat) OBVIOUS
    <3> HIDE DEF kind
    <3> QED BY <3>2, <3>3, Zenon DEF Labels
  <2> QED BY <1>1, <2>1, ConcatProperties
<1>5. string \in Nat BY <1>1
<1> HIDE DEF string, strings
<1>6. /\ r \in GroupSet /\ r.ifs = d.groups[g].ifs /\ r.kind = d.groups[g].kind
      /\ r.block = d.groups[g].block
  BY <1>3, <1>5 DEF GroupSet
<1>7. e = [d EXCEPT !.groups = [@ EXCEPT ![g] = r], !.strings = strings] BY <1>1 DEF NewDevice
<1>8. e = [d EXCEPT !.groups = x, !.strings = strings] BY <1>7, <1>1 DEF NewDevice
<1>9. DeviceParts(e)
  <2> HIDE DEF r, e
  <2>1. SameNumbers(e, d) BY <1>4, <1>6, <1>7, ChangingGroupKeeps
  <2> QED BY <2>1, SameNumbersKept
<1> HIDE DEF r, x, e
<1>10. /\ e.groups = x /\ e.addr = d.addr /\ e.epMap = d.epMap /\ e.ctrl = d.ctrl /\ e.alts = d.alts
       /\ e.numIfs = d.numIfs
  BY <1>1, <1>8 DEF NewDevice
<1>11. DOMAIN x = DOMAIN d.groups /\ x[g] = r /\ \A h \in Groups(d) : h # g => x[h] = d.groups[h]
  BY DEF x, Groups
<1>12. Alike(e, d)
  <2>1. ASSUME NEW h \in Groups(d)
        PROVE  /\ e.groups[h].ifs = d.groups[h].ifs /\ e.groups[h].kind = d.groups[h].kind
               /\ e.groups[h].block = d.groups[h].block
    BY <1>6, <1>10, <1>11
  <2> QED BY <1>10, <1>11, <2>1 DEF Alike, SameWires, Groups
<1>13. OnAdded(d, g) = IF kind = "cdc" /\ ~d.composite THEN SetDeviceTriple(e, "cdc")
                       ELSE IF own # <<>> THEN EnableMsos(e, g, own[1]) ELSE e
  BY DEF OnAdded, e, string, strings
<1>14. \A f : Alike(f, e) => Alike(f, d) BY <1>12 DEF Alike, SameWires
<1>15. Alike(SetDeviceTriple(e, "cdc"), e) BY <1>9, TripleAlike
<1>16. Alike(EnableMsos(e, g, own[1]), e) BY <1>9, AdvertisingAlike
<1> HIDE DEF own, kind
<1> QED BY <1>12, <1>13, <1>14, <1>15, <1>16

\* Function._attach: the new function is wired as the others are, or the add raised.
LEMMA AddingWires ==
    ASSUME NEW d, DeviceParts(d), ~d.raised, NEW kind \in Kinds,
           \A g \in Groups(d) : d.groups[g].ifs # <<>> /\ d.groups[g].block, Wired(d)
    PROVE  LET e == Attach(d, kind)
           IN  ~e.raised => Wired(e) /\ \A g \in Groups(e) : e.groups[g].block
<1> DEFINE g == Len(d.groups) + 1
           named == Opened(d, kind)
           all == AttachInterfaces(named, g)
           blocked == [all EXCEPT !.groups[g].block = TRUE]
           e == OnAdded(blocked, g)
<1>1. Attach(d, kind) = IF all.raised THEN all ELSE e BY DEF Attach, Opened
<1>2. /\ DOMAIN named = DOMAIN NewDevice /\ named.groups \in Seq(GroupSet)
      /\ Groups(named) = Groups(d) \cup {g} /\ g \notin Groups(d) /\ g \in Nat /\ g > 0
      /\ Groups(d) = 1 .. (g - 1)
      /\ \A h \in Groups(d) : named.groups[h] = d.groups[h]
      /\ named.groups[g].kind = kind /\ named.groups[g].ifs = <<>> /\ ~named.groups[g].block
      /\ named.raised = d.raised
  BY OpeningIs
<1>3. DeviceParts(named) BY OpeningKeeps
<1>4. Wired(named) BY OpeningWires
<1> HIDE DEF named, g
<1>5. g # 1 => named.groups[1].ifs # <<>>
  <2>1. SUFFICES ASSUME g # 1 PROVE named.groups[1].ifs # <<>> OBVIOUS
  <2>2. 1 \in Groups(d) BY <1>2, <2>1
  <2> QED BY <1>2, <2>2
<1>6. Grown(all, named, g) BY <1>2, <1>3, <1>5, AttachingAllGrows
<1>7. ~all.raised => /\ Wired(all) /\ ~all.groups[g].block
                     /\ Len(all.groups[g].ifs) = Len(InterfacesOf[named.groups[g].kind])
  BY <1>2, <1>3, <1>4, <1>5, AttachingAllWires
<1> HIDE DEF all
<1> SUFFICES ASSUME ~all.raised PROVE Wired(e) /\ \A h \in Groups(e) : e.groups[h].block
  BY <1>1
<1>8. /\ DOMAIN all = DOMAIN NewDevice /\ all.groups \in Seq(GroupSet) /\ g \in Groups(all)
      /\ DeviceParts(all) /\ Groups(all) = Groups(d) \cup {g} /\ all.strings \in Seq(Nat \X Nat)
  BY <1>2, <1>6 DEF Grown, DeviceParts, PartsTyped, Groups
<1>9. \A h \in Groups(d) : all.groups[h].block BY <1>2, <1>6 DEF Grown
<1> DEFINE r == [all.groups[g] EXCEPT !.block = TRUE]
           x == [all.groups EXCEPT ![g] = r]
<1>10. g \in 1 .. Len(all.groups)
  <2> HIDE DEF r, x, blocked, e
  <2>1. all.groups \in Seq(GroupSet) /\ g \in DOMAIN all.groups BY <1>8, Zenon DEF Groups
  <2> QED BY <2>1
<1>11. all.groups[g] \in GroupSet BY <1>8, <1>10, ElementOfSeq
<1>12. r \in GroupSet /\ r.ifs = all.groups[g].ifs /\ r.kind = all.groups[g].kind /\ r.block
  BY <1>11 DEF GroupSet
<1>13. blocked = [all EXCEPT !.groups = [@ EXCEPT ![g] = r], !.strings = all.strings]
  BY <1>8 DEF NewDevice
<1>14. blocked = [all EXCEPT !.groups = x] BY <1>8 DEF NewDevice
<1>15. DeviceParts(blocked)
  <2> HIDE DEF r, blocked
  <2>1. SameNumbers(blocked, all) BY <1>8, <1>12, <1>13, ChangingGroupKeeps
  <2> QED BY <1>8, <2>1, SameNumbersKept
<1> HIDE DEF r, x, blocked
<1>16. /\ blocked.groups = x /\ blocked.addr = all.addr /\ blocked.epMap = all.epMap
       /\ blocked.ctrl = all.ctrl /\ blocked.alts = all.alts /\ blocked.numIfs = all.numIfs
  BY <1>8, <1>14 DEF NewDevice
<1>17. DOMAIN x = DOMAIN all.groups /\ x[g] = r /\ \A h \in Groups(all) : h # g => x[h] = all.groups[h]
  BY <1>8 DEF x, Groups
<1>18. SameWires(blocked, all)
  <2>1. ASSUME NEW h \in Groups(all)
        PROVE  blocked.groups[h].ifs = all.groups[h].ifs /\ blocked.groups[h].kind = all.groups[h].kind
    BY <1>12, <1>16, <1>17
  <2> QED BY <1>16, <1>17, <2>1 DEF SameWires, Groups
<1>19. Wired(blocked)
  <2>1. all.groups # <<>>
    <3>1. g \in DOMAIN all.groups BY <1>8, Zenon DEF Groups
    <3> QED BY <3>1
  <2>2. 1 \in Groups(all) BY <1>8, <2>1, EmptySeq DEF Groups
  <2>3. \A h \in Groups(all) : all.groups[h].block \/ Len(all.groups[h].ifs) = Len(InterfacesOf[all.groups[h].kind])
    BY <1>6, <1>7, <1>8, <1>9 DEF Grown
  <2> QED BY <1>7, <1>18, <2>1, <2>2, <2>3, SameWiresKept DEF Wired
<1>20. Groups(blocked) = Groups(all) /\ \A h \in Groups(blocked) : blocked.groups[h].block
  BY <1>8, <1>9, <1>12, <1>16, <1>17 DEF Groups
<1>21. g \in Groups(blocked) BY <1>8, <1>20
<1>22. Alike(e, blocked) /\ DeviceParts(e) BY <1>15, <1>21, OnAddedAlike, OnAddedKeeps
<1> HIDE DEF e
<1>23. Wired(e) BY <1>15, <1>19, <1>22, AlikeKept
<1> QED BY <1>20, <1>22, <1>23 DEF Alike, SameWires

WiredState(d, state) == state \in {"no", "yes"} => Wired(d) /\ \A g \in Groups(d) : d.groups[g].block

LEMMA WiredNext == WiredState(dev', plugged') => WiredInv'
BY DEF WiredInv, WiredState, Wired, Wiring, AllIds, Matched, Numbered, Registered, HandlerOf, Declaration, Groups

LEMMA AlikeStep ==
    ASSUME FunctionsKept, WiredInv, plugged = "no", DeviceParts(dev'), Alike(dev', dev)
    PROVE  WiredState(dev', plugged')
<1>1. Wired(dev) /\ \A g \in Groups(dev) : dev.groups[g].block BY DEF WiredInv
<1>2. Wired(dev') BY <1>1, AlikeKept DEF FunctionsKept, Kept
<1> QED BY <1>1, <1>2 DEF WiredState, Alike, SameWires

LEMMA WiredStep == FunctionsKept /\ FunctionsKept' /\ WiredInv /\ [CompositionNext]_compositionVars => WiredInv'
<1> SUFFICES ASSUME FunctionsKept, FunctionsKept', WiredInv, [CompositionNext]_compositionVars
             PROVE  WiredState(dev', plugged')
  BY WiredNext
<1>0. DeviceParts(dev) /\ DOMAIN dev = DOMAIN NewDevice BY DEF FunctionsKept, Kept, DeviceParts, PartsTyped
<1>00. DeviceParts(dev') BY DEF FunctionsKept, Kept, DeviceParts, PartsTyped, NumbersApart, FirstIsZero, Advertised, Groups, IfsOf
<1>1. ASSUME SetComposite PROVE WiredState(dev', plugged')
  <2> DEFINE e == [dev EXCEPT !.composite = TRUE, !.triple = "misc"]
  <2>1. /\ e.groups = dev.groups /\ e.addr = dev.addr /\ e.epMap = dev.epMap /\ e.ctrl = dev.ctrl
        /\ e.alts = dev.alts /\ e.numIfs = dev.numIfs
    BY <1>0 DEF NewDevice
  <2>2. dev' = e /\ plugged = "no" BY <1>1 DEF SetComposite
  <2> HIDE DEF e
  <2>3. Alike(e, dev) BY <2>1 DEF Alike, SameWires, Groups
  <2> QED BY <1>00, <2>2, <2>3, AlikeStep
<1>2. ASSUME NEW s \in {"full", "high"}, ChangeSpeed(s) PROVE WiredState(dev', plugged')
  <2> DEFINE sized == [id \in DOMAIN dev.sized |-> IF <<id[1], id[2]>> \in dev.hooks /\ dev.sized[id] # "any"
                                                  THEN s ELSE dev.sized[id]]
             e == [dev EXCEPT !.speed = s, !.sized = sized]
  <2>1. SetSpeed(dev, s) = e BY <1>0 DEF SetSpeed, NewDevice
  <2> HIDE DEF sized
  <2>2. /\ e.groups = dev.groups /\ e.addr = dev.addr /\ e.epMap = dev.epMap /\ e.ctrl = dev.ctrl
        /\ e.alts = dev.alts /\ e.numIfs = dev.numIfs
    BY <1>0 DEF NewDevice
  <2>3. dev' = e /\ plugged = "no" BY <1>2, <2>1 DEF ChangeSpeed
  <2> HIDE DEF e
  <2>4. Alike(e, dev) BY <2>2 DEF Alike, SameWires, Groups
  <2> QED BY <1>00, <2>3, <2>4, AlikeStep
<1>3. ASSUME NEW kind \in Kinds, Add(kind) PROVE WiredState(dev', plugged')
  <2>1. /\ dev' = Attach(dev, kind) /\ plugged' = (IF dev'.raised THEN "failed" ELSE "no") /\ plugged = "no"
        /\ ~dev.raised /\ \A g \in Groups(dev) : dev.groups[g].ifs # <<>>
    BY <1>3 DEF Add, FunctionsKept, Kept
  <2>2. Wired(dev) /\ \A g \in Groups(dev) : dev.groups[g].block BY <2>1 DEF WiredInv
  <2>3. ~dev'.raised => Wired(dev') /\ \A g \in Groups(dev') : dev'.groups[g].block
    BY <1>0, <2>1, <2>2, AddingWires
  <2>4. plugged' \in {"no", "yes"} => ~dev'.raised BY <2>1
  <2> QED BY <2>3, <2>4 DEF WiredState
<1>4. ASSUME NEW scope \in 0 .. MaxFunctions, NEW compatible \in {"WINUSB", "MTP"},
             Advertise(scope, compatible)
      PROVE  WiredState(dev', plugged')
  <2>1. dev' = EnableMsos(dev, scope, compatible) /\ plugged = "no" BY <1>4 DEF Advertise
  <2>2. Alike(dev', dev) BY <1>0, <2>1, AdvertisingAlike
  <2> QED BY <1>00, <2>1, <2>2, AlikeStep
<1>5. ASSUME NEW code \in {33, 34}, AdvertiseWeb(code) PROVE WiredState(dev', plugged')
  <2> DEFINE e == [dev EXCEPT !.webusb = {code}, !.bcdUSB = 21]
  <2>1. /\ e.groups = dev.groups /\ e.addr = dev.addr /\ e.epMap = dev.epMap /\ e.ctrl = dev.ctrl
        /\ e.alts = dev.alts /\ e.numIfs = dev.numIfs
    BY <1>0 DEF NewDevice
  <2>2. dev' = e /\ plugged = "no" BY <1>5 DEF AdvertiseWeb, EnableWebusb
  <2> HIDE DEF e
  <2>3. Alike(e, dev) BY <2>1 DEF Alike, SameWires, Groups
  <2> QED BY <1>00, <2>2, <2>3, AlikeStep
<1>6. ASSUME SetMsosVendorCodes([v1 |-> 33, v2 |-> 33]) PROVE WiredState(dev', plugged')
  <2> DEFINE codes == [v1 |-> 33, v2 |-> 33]
             e == [dev EXCEPT !.codes = codes]
  <2>1. dev' = e /\ plugged = "no" BY <1>6 DEF SetMsosVendorCodes
  <2> HIDE DEF codes
  <2>2. /\ e.groups = dev.groups /\ e.addr = dev.addr /\ e.epMap = dev.epMap /\ e.ctrl = dev.ctrl
        /\ e.alts = dev.alts /\ e.numIfs = dev.numIfs
    BY <1>0 DEF NewDevice
  <2> HIDE DEF e
  <2>3. Alike(e, dev) BY <2>2 DEF Alike, SameWires, Groups
  <2> QED BY <1>00, <2>1, <2>3, AlikeStep
<1>7. ASSUME Plug PROVE WiredState(dev', plugged')
  <2>1. dev' = dev /\ plugged = "no" BY <1>7 DEF Plug
  <2> QED BY <2>1 DEF WiredInv, WiredState
<1>8. ASSUME UNCHANGED compositionVars PROVE WiredState(dev', plugged')
  <2>1. dev' = dev /\ plugged' = plugged BY <1>8 DEF compositionVars
  <2> QED BY <2>1 DEF WiredInv, WiredState
<1> QED BY <1>1, <1>2, <1>3, <1>4, <1>5, <1>6, <1>7, <1>8 DEF CompositionNext

LEMMA NewDeviceWired == CompositionInit => WiredInv
<1> DEFINE d == NewDevice
<1>1. /\ d.groups = <<>> /\ d.numIfs = 0 /\ d.addr = <<>> /\ d.epMap = <<>> /\ d.ctrl = <<>> /\ d.alts = <<>>
  BY DEF NewDevice
<1> HIDE DEF d
<1>2. Groups(d) = {} /\ AllIds(d) = {} BY <1>1 DEF Groups, AllIds
<1>3. Wiring(d, AllIds(d)) BY <1>1, <1>2 DEF Wiring, Matched
<1>4. Numbered(d) BY <1>2 DEF Numbered
<1>5. Registered(d) BY <1>1, <1>2 DEF Registered
<1> QED BY <1>2, <1>3, <1>4, <1>5 DEF CompositionInit, WiredInv, Wired, d

\* Once every function was added, each endpoint has one address of its direction, each
\* address one endpoint, and each interface of a class its handlers.
THEOREM PartsAreWired == CompositionSpec => []WiredInv
<1>1. CompositionInit => WiredInv BY NewDeviceWired
<1>2. FunctionsKept /\ FunctionsKept' /\ WiredInv /\ [CompositionNext]_compositionVars => WiredInv' BY WiredStep
<1> QED BY <1>1, <1>2, FunctionsAreKept, PTL DEF CompositionSpec

-----------------------------------------------------------------------------
(* What a walk over the configuration finds: each endpoint under the       *)
(* interface before it.                                                    *)

SaidBy(c) == {<<x.num, x.desc.addr>> : x \in Walked(c)}

\* Every endpoint comes after an interface.
Owned(c) == \A p \in DOMAIN c : c[p].t = "endpoint" => \E q \in 1 .. p : c[q].t = "interface"

\* The last interface up to p.
Owns(c, q, p) == c[q].t = "interface" /\ \A r \in q + 1 .. p : c[r].t # "interface"

LEMMA OwnerIs ==
    ASSUME NEW c, NEW p \in Nat, NEW q \in 1 .. p, Owns(c, q, p)
    PROVE  OwnerAt(c, p) = c[q].num
<1> DEFINE Is(x) == c[x].t = "interface" /\ \A r \in x + 1 .. p : c[r].t # "interface"
<1>1. Is(q) BY DEF Owns
<1>2. ASSUME NEW x \in 1 .. p, Is(x) PROVE x = q
  <2>1. CASE x < q
    <3>1. q \in x + 1 .. p BY <2>1
    <3> QED BY <1>1, <1>2, <3>1
  <2>2. CASE q < x
    <3>1. x \in q + 1 .. p BY <2>2
    <3> QED BY <1>1, <1>2, <3>1
  <2> QED BY <2>1, <2>2
<1>3. OwnerAt(c, p) = c[CHOOSE x \in 1 .. p : Is(x)].num BY DEF OwnerAt
<1> HIDE DEF Is
<1>4. (CHOOSE x \in 1 .. p : Is(x)) = q BY <1>1, <1>2
<1> QED BY <1>3, <1>4

LEMMA OwnerIsThere ==
    ASSUME NEW c, NEW p \in Nat, NEW s \in 1 .. p, c[s].t = "interface"
    PROVE  \E q \in 1 .. p : Owns(c, q, p)
<1> DEFINE S == {k \in 0 .. p : k # p /\ c[p - k].t = "interface"}
<1>1. p - s \in 0 .. p /\ p - s # p /\ p - (p - s) = s OBVIOUS
<1>2. p - s \in S BY <1>1
<1>3. S \subseteq Nat OBVIOUS
<1> HIDE DEF S
<1>4. PICK k \in S : \A m \in S : k <= m BY <1>2, <1>3, LeastIs
<1> DEFINE q == p - k
<1>5. k \in 0 .. p /\ k # p /\ c[q].t = "interface" BY DEF S
<1>6. q \in 1 .. p BY <1>5
<1>7. ASSUME NEW r \in q + 1 .. p, c[r].t = "interface" PROVE FALSE
  <2>1. p - r \in 0 .. p /\ p - r # p /\ p - (p - r) = r /\ p - r < k BY <1>5, <1>6
  <2>2. p - r \in S BY <1>7, <2>1 DEF S
  <2> QED BY <1>4, <1>5, <2>1, <2>2
<1> HIDE DEF q
<1> QED BY <1>5, <1>6, <1>7 DEF Owns

LEMMA ToldIs ==
    ASSUME NEW c
    PROVE  \A x : x \in SaidBy(c) <=> \E p \in DOMAIN c : c[p].t = "endpoint" /\ x = <<OwnerAt(c, p), c[p].addr>>
<1> DEFINE Found(p) == [num |-> OwnerAt(c, p), desc |-> c[p]]
           E == {q \in DOMAIN c : c[q].t = "endpoint"}
<1>1. \A p : Found(p).num = OwnerAt(c, p) /\ Found(p).desc = c[p] OBVIOUS
<1>2. Walked(c) = {Found(p) : p \in E} BY DEF Walked
<1> HIDE DEF Found
<1>3. ASSUME NEW x, x \in SaidBy(c)
      PROVE  \E p \in DOMAIN c : c[p].t = "endpoint" /\ x = <<OwnerAt(c, p), c[p].addr>>
  <2>1. PICK y \in Walked(c) : x = <<y.num, y.desc.addr>> BY <1>3 DEF SaidBy
  <2>2. PICK p \in E : y = Found(p) BY <1>2
  <2>3. x = <<OwnerAt(c, p), c[p].addr>> BY <1>1, <2>1, <2>2
  <2> QED BY <2>3
<1>4. ASSUME NEW x, NEW p \in DOMAIN c, c[p].t = "endpoint", x = <<OwnerAt(c, p), c[p].addr>>
      PROVE  x \in SaidBy(c)
  <2>1. p \in E BY <1>4
  <2>2. Found(p) \in Walked(c) BY <1>2, <2>1
  <2>3. x = <<Found(p).num, Found(p).desc.addr>> BY <1>1, <1>4
  <2> QED BY <2>2, <2>3 DEF SaidBy
<1> QED BY <1>3, <1>4

\* An endpoint keeps its owner when a configuration is longer at either end.
LEMMA OwnerKept ==
    ASSUME NEW c, NEW b, NEW p \in Nat, NEW s \in 1 .. p, b[s].t = "interface", NEW m \in Nat,
           \A r \in 1 .. p : c[m + r] = b[r]
    PROVE  OwnerAt(c, m + p) = OwnerAt(b, p)
<1>1. PICK q \in 1 .. p : Owns(b, q, p) BY OwnerIsThere
<1>2. OwnerAt(b, p) = b[q].num BY <1>1, OwnerIs
<1>3. m + q \in 1 .. (m + p) /\ m + p \in Nat OBVIOUS
<1>4. Owns(c, m + q, m + p)
  <2>1. c[m + q] = b[q] OBVIOUS
  <2>2. ASSUME NEW r \in m + q + 1 .. m + p PROVE c[r].t # "interface"
    <3>1. r - m \in q + 1 .. p /\ r - m \in 1 .. p /\ m + (r - m) = r OBVIOUS
    <3>2. c[m + (r - m)] = b[r - m] BY <3>1
    <3> QED BY <1>1, <3>1, <3>2 DEF Owns
  <2> QED BY <1>1, <2>1, <2>2 DEF Owns
<1>5. OwnerAt(c, m + p) = c[m + q].num BY <1>3, <1>4, OwnerIs
<1> QED BY <1>2, <1>5

LEMMA ToldJoined ==
    ASSUME NEW T, NEW a \in Seq(T), NEW b \in Seq(T), Owned(a), Owned(b)
    PROVE  Owned(a \o b) /\ SaidBy(a \o b) = SaidBy(a) \cup SaidBy(b)
<1> DEFINE c == a \o b
           m == Len(a)
<1>1. /\ m \in Nat /\ Len(b) \in Nat /\ DOMAIN a = 1 .. m /\ DOMAIN b = 1 .. Len(b)
      /\ c \in Seq(T) /\ Len(c) = m + Len(b) /\ DOMAIN c = 1 .. (m + Len(b))
      /\ \A r \in 1 .. m : c[0 + r] = a[r]
      /\ \A r \in 1 .. Len(b) : c[m + r] = b[r]
  <2>1. /\ c \in Seq(T) /\ Len(c) = Len(a) + Len(b)
        /\ \A i \in 1 .. Len(a) : c[i] = a[i]
        /\ \A i \in 1 .. Len(b) : c[Len(a) + i] = b[i]
    OBVIOUS
  <2> HIDE DEF c
  <2>2. \A r \in 1 .. m : 0 + r = r /\ c[r] = a[r] BY <2>1
  <2>3. \A r \in 1 .. m : c[0 + r] = a[r] BY <2>2
  <2>4. \A r \in 1 .. Len(b) : c[m + r] = b[r] BY <2>1
  <2>5. m \in Nat /\ Len(b) \in Nat /\ DOMAIN a = 1 .. m /\ DOMAIN b = 1 .. Len(b) OBVIOUS
  <2>6. DOMAIN c = 1 .. (m + Len(b)) BY <2>1
  <2> QED BY <2>1, <2>3, <2>4, <2>5, <2>6
<1> HIDE DEF c, m
<1>2. ASSUME NEW p \in 1 .. m, a[p].t = "endpoint"
      PROVE  /\ p \in DOMAIN c /\ c[p] = a[p] /\ OwnerAt(c, p) = OwnerAt(a, p)
             /\ \E q \in 1 .. p : c[q].t = "interface"
  <2>1. PICK s \in 1 .. p : a[s].t = "interface" BY <1>1, <1>2 DEF Owned
  <2>2. \A r \in 1 .. p : r \in 1 .. m /\ c[0 + r] = a[r] BY <1>1
  <2>3. 0 + p = p /\ p \in Nat /\ 0 + s = s /\ p \in DOMAIN c /\ 0 \in Nat /\ p \in 1 .. p BY <1>1
  <2>4. \A r \in 1 .. p : c[0 + r] = a[r] BY <2>2
  <2>5. OwnerAt(c, 0 + p) = OwnerAt(a, p) BY ONLY <2>1, <2>3, <2>4, OwnerKept
  <2>6. c[s] = a[s] /\ c[p] = a[p] BY <2>3, <2>4
  <2> QED BY <2>1, <2>3, <2>5, <2>6
<1>3. ASSUME NEW p \in 1 .. Len(b), b[p].t = "endpoint"
      PROVE  /\ m + p \in DOMAIN c /\ c[m + p] = b[p] /\ OwnerAt(c, m + p) = OwnerAt(b, p)
             /\ \E q \in 1 .. (m + p) : c[q].t = "interface"
  <2>1. PICK s \in 1 .. p : b[s].t = "interface" BY <1>1, <1>3 DEF Owned
  <2>2. \A r \in 1 .. p : r \in 1 .. Len(b) /\ c[m + r] = b[r] BY <1>1
  <2>3. p \in Nat /\ m + p \in DOMAIN c /\ m + s \in 1 .. (m + p) /\ m \in Nat /\ p \in 1 .. p BY <1>1
  <2>4. \A r \in 1 .. p : c[m + r] = b[r] BY <2>2
  <2>5. OwnerAt(c, m + p) = OwnerAt(b, p) BY ONLY <2>1, <2>3, <2>4, OwnerKept
  <2>6. c[m + s] = b[s] /\ c[m + p] = b[p] BY <2>3, <2>4
  <2> QED BY <2>1, <2>3, <2>5, <2>6
<1>4. ASSUME NEW p \in DOMAIN c, c[p].t = "endpoint"
      PROVE  \/ p \in 1 .. m /\ a[p].t = "endpoint"
             \/ \E k \in 1 .. Len(b) : p = m + k /\ b[k].t = "endpoint"
  <2>1. CASE p <= m
    <3>1. p \in 1 .. m /\ 0 + p = p BY <1>1, <2>1
    <3> QED BY <1>1, <1>4, <3>1
  <2>2. CASE p > m
    <3>1. p - m \in 1 .. Len(b) /\ m + (p - m) = p BY <1>1, <2>2
    <3> QED BY <1>1, <1>4, <3>1
  <2> QED BY <1>1, <2>1, <2>2
<1>5. Owned(c)
  <2> SUFFICES ASSUME NEW p \in DOMAIN c, c[p].t = "endpoint" PROVE \E q \in 1 .. p : c[q].t = "interface"
    BY DEF Owned
  <2> QED BY <1>2, <1>3, <1>4
<1>6. \A x : x \in SaidBy(c) <=> x \in SaidBy(a) \/ x \in SaidBy(b)
  <2>1. ASSUME NEW x, x \in SaidBy(c) PROVE x \in SaidBy(a) \/ x \in SaidBy(b)
    <3>1. PICK p \in DOMAIN c : c[p].t = "endpoint" /\ x = <<OwnerAt(c, p), c[p].addr>> BY <2>1, ToldIs
    <3>2. CASE p \in 1 .. m /\ a[p].t = "endpoint"
      <4>1. p \in DOMAIN a /\ a[p].t = "endpoint" /\ x = <<OwnerAt(a, p), a[p].addr>> BY <1>1, <1>2, <3>1, <3>2
      <4> QED BY <4>1, ToldIs
    <3>3. CASE \E k \in 1 .. Len(b) : p = m + k /\ b[k].t = "endpoint"
      <4>1. PICK k \in 1 .. Len(b) : p = m + k /\ b[k].t = "endpoint" BY <3>3
      <4>2. k \in DOMAIN b /\ b[k].t = "endpoint" /\ x = <<OwnerAt(b, k), b[k].addr>> BY <1>1, <1>3, <3>1, <4>1
      <4> QED BY <4>2, ToldIs
    <3> QED BY <1>4, <3>1, <3>2, <3>3
  <2>2. ASSUME NEW x, x \in SaidBy(a) PROVE x \in SaidBy(c)
    <3>1. PICK p \in DOMAIN a : a[p].t = "endpoint" /\ x = <<OwnerAt(a, p), a[p].addr>> BY <2>2, ToldIs
    <3>2. p \in DOMAIN c /\ c[p].t = "endpoint" /\ x = <<OwnerAt(c, p), c[p].addr>> BY <1>1, <1>2, <3>1
    <3> QED BY <3>2, ToldIs
  <2>3. ASSUME NEW x, x \in SaidBy(b) PROVE x \in SaidBy(c)
    <3>1. PICK p \in DOMAIN b : b[p].t = "endpoint" /\ x = <<OwnerAt(b, p), b[p].addr>> BY <2>3, ToldIs
    <3>2. m + p \in DOMAIN c /\ c[m + p].t = "endpoint" /\ x = <<OwnerAt(c, m + p), c[m + p].addr>>
      BY <1>1, <1>3, <3>1
    <3> QED BY <3>2, ToldIs
  <2> QED BY <2>1, <2>2, <2>3
<1>7. SaidBy(c) = SaidBy(a) \cup SaidBy(b) BY <1>6
<1> QED BY <1>5, <1>7 DEF c

\* What has no endpoint says nothing.
LEMMA NothingTold ==
    ASSUME NEW c, \A p \in DOMAIN c : c[p].t # "endpoint"
    PROVE  Owned(c) /\ SaidBy(c) = {}
<1>1. Owned(c) BY DEF Owned
<1>2. \A x : x \notin SaidBy(c) BY ToldIs
<1> QED BY <1>1, <1>2

\* Parts that are joined say what each of them says.
LEMMA FlattenTold ==
    ASSUME NEW T, NEW q \in Seq(Seq(T)), \A i \in 1 .. Len(q) : Owned(q[i])
    PROVE  /\ FlattenSeq(q) \in Seq(T) /\ Owned(FlattenSeq(q))
           /\ \A x : x \in SaidBy(FlattenSeq(q)) <=> \E i \in 1 .. Len(q) : x \in SaidBy(q[i])
<1> DEFINE n == Len(q)
<1>1. PICK P : /\ P \in [0 .. n -> Seq(T)] /\ P[0] = <<>>
               /\ \A i \in 1 .. n : P[i] = P[i - 1] \o q[i]
               /\ FlattenSeq(q) = P[n]
  BY FlattenRuns
<1>2. n \in Nat /\ \A i \in 1 .. n : q[i] \in Seq(T) OBVIOUS
<1> HIDE DEF n
<1> DEFINE Before(i) == UNION {SaidBy(q[k]) : k \in 1 .. i}
           G == {i \in 0 .. n : Owned(P[i]) /\ SaidBy(P[i]) = Before(i)}
<1>3. 0 \in G
  <2>1. Owned(<<>>) /\ SaidBy(<<>>) = {}
    <3>1. \A p \in DOMAIN <<>> : <<>>[p].t # "endpoint" OBVIOUS
    <3> QED BY <3>1, NothingTold
  <2>2. Before(0) = {} OBVIOUS
  <2>3. 0 \in 0 .. n /\ P[0] = <<>> BY <1>1, <1>2
  <2> HIDE DEF Before
  <2>4. Owned(P[0]) /\ SaidBy(P[0]) = Before(0) BY <2>1, <2>2, <2>3
  <2> QED BY <2>3, <2>4
<1>4. ASSUME NEW i \in 1 .. n, i - 1 \in G PROVE i \in G
  <2>1. Owned(P[i - 1]) /\ SaidBy(P[i - 1]) = Before(i - 1) BY <1>4
  <2> HIDE DEF G
  <2>2. i - 1 \in 0 .. n /\ i \in 0 .. n /\ q[i] \in Seq(T) /\ Owned(q[i]) BY <1>2 DEF n
  <2>3. P[i - 1] \in Seq(T) BY <1>1, <2>2
  <2>4. P[i] = P[i - 1] \o q[i] BY <1>1
  <2>5. Owned(P[i]) /\ SaidBy(P[i]) = SaidBy(P[i - 1]) \cup SaidBy(q[i]) BY <2>1, <2>2, <2>3, <2>4, ToldJoined
  <2>6. Before(i) = Before(i - 1) \cup SaidBy(q[i])
    <3>1. 1 .. i = (1 .. (i - 1)) \cup {i} BY <1>2
    <3> QED BY <3>1
  <2> HIDE DEF Before
  <2>7. SaidBy(P[i]) = Before(i) BY <2>1, <2>5, <2>6
  <2> QED BY <2>2, <2>5, <2>7 DEF G
<1> HIDE DEF G
<1>5. n \in G
  <2>1. \A i \in 0 .. n : i \in G BY <1>2, <1>3, <1>4, UpTo
  <2> QED BY <1>2, <2>1
<1>6. FlattenSeq(q) \in Seq(T)
  <2>1. n \in 0 .. n BY <1>2
  <2> QED BY <1>1, <2>1
<1>7. Owned(FlattenSeq(q)) /\ SaidBy(FlattenSeq(q)) = Before(n) BY <1>1, <1>5 DEF G
<1>8. \A x : x \in Before(n) <=> \E i \in 1 .. n : x \in SaidBy(q[i]) OBVIOUS
<1> HIDE DEF Before
<1> QED BY <1>6, <1>7, <1>8 DEF n

-----------------------------------------------------------------------------
(* What the block of one interface says.                                   *)

\* A list, whatever its records are.
Listed(b) == b \in Seq(Range(b))

LEMMA ListedIs ==
    ASSUME NEW T, NEW b \in Seq(T)
    PROVE  Listed(b)
<1>1. \A i \in 1 .. Len(b) : b[i] \in Range(b) BY DEF Range
<1>2. Len(b) \in Nat /\ DOMAIN b = 1 .. Len(b) OBVIOUS
<1> DEFINE R == Range(b)
<1>3. \A i \in 1 .. Len(b) : b[i] \in R BY <1>1
<1> HIDE DEF R
<1>4. b \in Seq(R) BY <1>3
<1> QED BY <1>4 DEF Listed, R

LEMMA WiderList ==
    ASSUME NEW b, Listed(b), NEW T, Range(b) \subseteq T
    PROVE  b \in Seq(T)
<1> DEFINE R == Range(b)
<1>1. b \in Seq(R) /\ R \subseteq T BY DEF Listed
<1> HIDE DEF R
<1> QED BY <1>1

\* Records of interface n that name the addresses A and no other.
Says(b, n, A) ==
    /\ Listed(b)
    /\ \A p \in DOMAIN b : /\ b[p].t = "interface" => b[p].num = n
                           /\ b[p].t = "endpoint" => b[p].addr \in A
    /\ \A a \in A : \E p \in DOMAIN b : b[p].t = "endpoint" /\ b[p].addr = a

LEMMA SaysOne ==
    ASSUME NEW x, NEW n
    PROVE  /\ x.t = "interface" /\ x.num = n => Says(<<x>>, n, {})
           /\ x.t = "names" => Says(<<x>>, n, {})
           /\ x.t = "endpoint" => Says(<<x>>, n, {x.addr})
<1> DEFINE b == <<x>>
<1>1. b \in Seq({x}) /\ DOMAIN b = {1} /\ b[1] = x OBVIOUS
<1> HIDE DEF b
<1>2. Listed(b) BY <1>1, ListedIs
<1>3. x.t = "interface" /\ x.num = n => Says(b, n, {}) BY <1>1, <1>2 DEF Says
<1>4. x.t = "names" => Says(b, n, {}) BY <1>1, <1>2 DEF Says
<1>5. x.t = "endpoint" => Says(b, n, {x.addr})
  <2> SUFFICES ASSUME x.t = "endpoint" PROVE Says(b, n, {x.addr}) OBVIOUS
  <2>1. 1 \in DOMAIN b /\ b[1].t = "endpoint" /\ b[1].addr = x.addr BY <1>1
  <2> QED BY <1>1, <1>2, <2>1 DEF Says
<1> QED BY <1>3, <1>4, <1>5 DEF b

LEMMA SaysJoined ==
    ASSUME NEW a, NEW b, NEW n, NEW A, NEW B, Says(a, n, A), Says(b, n, B)
    PROVE  Says(a \o b, n, A \cup B)
<1> DEFINE T == Range(a) \cup Range(b)
           c == a \o b
<1>1. a \in Seq(T) /\ b \in Seq(T) BY WiderList DEF Says
<1> HIDE DEF T
<1>2. /\ c \in Seq(T) /\ Len(c) = Len(a) + Len(b)
      /\ \A i \in 1 .. Len(a) : c[i] = a[i]
      /\ \A i \in 1 .. Len(b) : c[Len(a) + i] = b[i]
  BY <1>1
<1>3. /\ Len(a) \in Nat /\ Len(b) \in Nat /\ DOMAIN a = 1 .. Len(a) /\ DOMAIN b = 1 .. Len(b)
  BY <1>1
<1> HIDE DEF c
<1>4. DOMAIN c = 1 .. (Len(a) + Len(b)) BY <1>2
<1>5. ASSUME NEW p \in DOMAIN c
      PROVE  (\E k \in DOMAIN a : c[p] = a[k]) \/ \E k \in DOMAIN b : c[p] = b[k]
  <2>1. CASE p <= Len(a)
    <3>1. p \in DOMAIN a BY <1>3, <1>4, <2>1
    <3> QED BY <1>2, <1>3, <3>1
  <2>2. CASE p > Len(a)
    <3>1. p - Len(a) \in 1 .. Len(b) /\ Len(a) + (p - Len(a)) = p BY <1>3, <1>4, <2>2
    <3> QED BY <1>2, <1>3, <3>1
  <2> QED BY <1>3, <1>4, <2>1, <2>2
<1>6. (\A k \in DOMAIN a : k \in DOMAIN c /\ c[k] = a[k]) BY <1>2, <1>3, <1>4
<1>7. \A k \in DOMAIN b : Len(a) + k \in DOMAIN c /\ c[Len(a) + k] = b[k] BY <1>2, <1>3, <1>4
<1>8. Listed(c) BY <1>2, ListedIs
<1>9. ASSUME NEW p \in DOMAIN c
      PROVE  (c[p].t = "interface" => c[p].num = n) /\ (c[p].t = "endpoint" => c[p].addr \in A \cup B)
  BY <1>5 DEF Says
<1>10. ASSUME NEW x \in A \cup B PROVE \E p \in DOMAIN c : c[p].t = "endpoint" /\ c[p].addr = x
  BY <1>6, <1>7 DEF Says
<1>11. Says(c, n, A \cup B) BY <1>8, <1>9, <1>10 DEF Says
<1> QED BY <1>11 DEF c

\* The block of an interface, which begins with its record.
Tells(b, n, A) == Listed(b) /\ Owned(b) /\ \A x : x \in SaidBy(b) <=> \E a \in A : x = <<n, a>>

LEMMA SaysTold ==
    ASSUME NEW b, NEW n, NEW A, Says(b, n, A), b # <<>>, b[1].t = "interface"
    PROVE  Tells(b, n, A)
<1>1. DOMAIN b = 1 .. Len(b) /\ Len(b) \in Nat BY DEF Says, Listed
<1>2. Owned(b)
  <2> SUFFICES ASSUME NEW p \in DOMAIN b PROVE \E q \in 1 .. p : b[q].t = "interface" BY DEF Owned
  <2>1. 1 \in 1 .. p BY <1>1
  <2> QED BY <2>1
<1>3. ASSUME NEW p \in DOMAIN b PROVE OwnerAt(b, p) = n
  <2>1. p \in Nat /\ 1 \in 1 .. p BY <1>1
  <2>2. PICK q \in 1 .. p : Owns(b, q, p) BY <2>1, OwnerIsThere
  <2>3. OwnerAt(b, p) = b[q].num BY <2>1, <2>2, OwnerIs
  <2>4. q \in DOMAIN b /\ b[q].t = "interface" BY <1>1, <2>2 DEF Owns
  <2> QED BY <2>3, <2>4 DEF Says
<1>4. ASSUME NEW x PROVE x \in SaidBy(b) <=> \E a \in A : x = <<n, a>>
  <2>1. x \in SaidBy(b) <=> \E p \in DOMAIN b : b[p].t = "endpoint" /\ x = <<OwnerAt(b, p), b[p].addr>>
    BY ToldIs
  <2>2. x \in SaidBy(b) <=> \E p \in DOMAIN b : b[p].t = "endpoint" /\ x = <<n, b[p].addr>>
    BY <1>3, <2>1
  <2> QED BY <2>2 DEF Says
<1> QED BY <1>2, <1>4 DEF Tells, Says

\* The block begins with a record of the interface.
LEMMA HeadedTells ==
    ASSUME NEW h, NEW n, h.t = "interface", h.num = n, NEW b, NEW A, Says(b, n, A)
    PROVE  Tells(<<h>> \o b, n, A)
<1> DEFINE c == <<h>> \o b
<1>1. Says(<<h>>, n, {}) BY SaysOne
<1>2. Says(c, n, {} \cup A) BY <1>1, SaysJoined
<1>3. c # <<>> /\ c[1] = h
  <2> DEFINE T == Range(b) \cup {h}
  <2>1. b \in Seq(T) BY WiderList DEF Says
  <2>2. <<h>> \in Seq(T) /\ Len(<<h>>) = 1 /\ <<h>>[1] = h OBVIOUS
  <2> HIDE DEF T
  <2>3. Len(c) = 1 + Len(b) /\ c[1] = h /\ Len(b) \in Nat BY <2>1, <2>2, ConcatProperties
  <2> QED BY <2>3
<1>4. {} \cup A = A OBVIOUS
<1> HIDE DEF c
<1>5. Tells(c, n, A) BY <1>2, <1>3, <1>4, SaysTold
<1> QED BY <1>5 DEF c

\* Lists are joined whatever their records are.
LEMMA ListsFlattened ==
    ASSUME NEW n \in Nat, NEW q, q = [i \in 1 .. n |-> q[i]], \A i \in 1 .. n : Listed(q[i]) /\ Owned(q[i])
    PROVE  /\ Listed(FlattenSeq(q)) /\ Owned(FlattenSeq(q))
           /\ \A x : x \in SaidBy(FlattenSeq(q)) <=> \E i \in 1 .. n : x \in SaidBy(q[i])
<1> DEFINE T == UNION {Range(q[i]) : i \in 1 .. n}
           U == Seq(T)
<1>1. \A i \in 1 .. n : Range(q[i]) \subseteq T OBVIOUS
<1> HIDE DEF T
<1>2. \A i \in 1 .. n : q[i] \in U BY <1>1, WiderList
<1> HIDE DEF U
<1>3. q \in Seq(U) /\ Len(q) = n BY <1>2
<1>4. q \in Seq(Seq(T)) BY <1>3 DEF U
<1>5. \A i \in 1 .. Len(q) : Owned(q[i]) BY <1>3
<1>6. /\ FlattenSeq(q) \in Seq(T) /\ Owned(FlattenSeq(q))
      /\ \A x : x \in SaidBy(FlattenSeq(q)) <=> \E i \in 1 .. Len(q) : x \in SaidBy(q[i])
  BY <1>4, <1>5, FlattenTold
<1>7. Listed(FlattenSeq(q)) BY <1>6, ListedIs
<1> QED BY <1>3, <1>6, <1>7

LEMMA ListsJoined ==
    ASSUME NEW a, NEW b, Listed(a), Listed(b), Owned(a), Owned(b)
    PROVE  Listed(a \o b) /\ Owned(a \o b) /\ SaidBy(a \o b) = SaidBy(a) \cup SaidBy(b)
<1> DEFINE T == Range(a) \cup Range(b)
<1>1. a \in Seq(T) /\ b \in Seq(T) BY WiderList
<1> HIDE DEF T
<1>2. a \o b \in Seq(T) BY <1>1
<1>3. Owned(a \o b) /\ SaidBy(a \o b) = SaidBy(a) \cup SaidBy(b) BY <1>1, ToldJoined
<1> QED BY <1>2, <1>3, ListedIs

\* Records one after another.
LEMMA RecordsJoined ==
    ASSUME NEW h, NEW k, NEW x
    PROVE  <<h, k>> = <<h>> \o <<k>> /\ <<h, k>> \o <<x>> = <<h, k, x>>
<1> DEFINE S == {h, k, x}
<1>1. <<h>> \in Seq(S) /\ <<k>> \in Seq(S) /\ <<x>> \in Seq(S) /\ <<h, k>> \in Seq(S) /\ <<h, k, x>> \in Seq(S)
  OBVIOUS
<1> HIDE DEF S
<1>2. <<h>> \o <<k>> = <<h, k>>
  <2> DEFINE s == <<h>> \o <<k>>
             t == <<h, k>>
  <2>1. /\ s \in Seq(S) /\ Len(s) = 2
        /\ \A i \in 1 .. 2 : s[i] = IF i <= 1 THEN <<h>>[i] ELSE <<k>>[i - 1]
    BY <1>1, ConcatProperties
  <2>2. t \in Seq(S) /\ Len(t) = 2 /\ t[1] = h /\ t[2] = k BY <1>1
  <2> HIDE DEF s, t
  <2>3. s[1] = <<h>>[1] /\ s[2] = <<k>>[2 - 1] BY <2>1
  <2>4. <<h>>[1] = h /\ <<k>>[2 - 1] = k OBVIOUS
  <2>5. \A i \in 1 .. 2 : s[i] = t[i] BY <2>2, <2>3, <2>4
  <2>6. s = t BY <2>1, <2>2, <2>5, SeqEqual
  <2> QED BY <2>6 DEF s, t
<1>3. <<h, k>> \o <<x>> = <<h, k, x>>
  <2> DEFINE a == <<h, k>>
             y == <<x>>
             s == a \o y
             t == <<h, k, x>>
  <2>1. a \in Seq(S) /\ Len(a) = 2 /\ a[1] = h /\ a[2] = k /\ y \in Seq(S) /\ Len(y) = 1 /\ y[1] = x BY <1>1
  <2> HIDE DEF a, y
  <2>0. /\ a \o y \in Seq(S) /\ Len(a \o y) = Len(a) + Len(y)
        /\ \A i \in 1 .. Len(a) + Len(y) : (a \o y)[i] = IF i <= Len(a) THEN a[i] ELSE y[i - Len(a)]
    BY <2>1, ConcatProperties
  <2>2. /\ s \in Seq(S) /\ Len(s) = 2 + 1
        /\ \A i \in 1 .. 2 + 1 : s[i] = IF i <= 2 THEN a[i] ELSE y[i - 2]
    BY ONLY <2>0, <2>1 DEF s
  <2>3. t \in Seq(S) /\ Len(t) = 3 /\ t[1] = h /\ t[2] = k /\ t[3] = x BY <1>1
  <2> HIDE DEF s, t
  <2>4. Len(s) = 3 /\ s[1] = a[1] /\ s[2] = a[2] /\ s[3] = y[3 - 2] BY <2>2
  <2>5. y[3 - 2] = x BY <2>1
  <2>6. \A i \in 1 .. 3 : s[i] = t[i] BY <2>1, <2>3, <2>4, <2>5
  <2>7. s = t BY <2>2, <2>3, <2>4, <2>6, SeqEqual
  <2> QED BY <2>7 DEF a, s, t, y
<1> QED BY <1>2, <1>3

\* Two records of the interface at its head, or one and what names interfaces.
LEMMA TwiceHeadedTells ==
    ASSUME NEW h, NEW k, NEW n, h.t = "interface", h.num = n, Says(<<k>>, n, {}),
           NEW b, NEW A, Says(b, n, A)
    PROVE  /\ Tells(<<h, k>> \o b, n, A)
           /\ Tells(<<h>> \o <<k>> \o b, n, A)
<1> DEFINE T == Range(b) \cup {h, k}
<1>1. b \in Seq(T) BY WiderList DEF Says
<1>2. h \in T /\ k \in T OBVIOUS
<1> HIDE DEF T
<1>3. <<h>> \in Seq(T) /\ <<k>> \in Seq(T) BY <1>2
<1>4. <<h, k>> = <<h>> \o <<k>> BY RecordsJoined
<1>5. (<<h>> \o <<k>>) \o b = <<h>> \o (<<k>> \o b) BY <1>1, <1>3, ConcatAssociative
<1>6. Says(<<k>> \o b, n, {} \cup A) BY SaysJoined
<1>7. {} \cup A = A OBVIOUS
<1>8. Tells(<<h>> \o (<<k>> \o b), n, A) BY <1>6, <1>7, HeadedTells
<1> QED BY <1>4, <1>5, <1>8

LEMMA RecordsAre ==
    ASSUME NEW d, NEW g, NEW i
    PROVE  /\ \A alt : InterfaceDesc(d, g, i, alt).t = "interface" /\ InterfaceDesc(d, g, i, alt).num = d.groups[g].ifs[i]
           /\ \A id, a : EndpointDesc(d, id, a).t = "endpoint" /\ EndpointDesc(d, id, a).addr = a
           /\ \A n, ifs : Says(Names(g, ifs), n, {})
<1>1. \A alt : InterfaceDesc(d, g, i, alt).t = "interface" /\ InterfaceDesc(d, g, i, alt).num = d.groups[g].ifs[i]
  BY DEF InterfaceDesc
<1>2. \A id, a : EndpointDesc(d, id, a).t = "endpoint" /\ EndpointDesc(d, id, a).addr = a
  BY DEF EndpointDesc
<1>3. ASSUME NEW n, NEW ifs PROVE Says(Names(g, ifs), n, {})
  <2> DEFINE x == [t |-> "names", by |-> "header", of |-> g, ifs |-> ifs, string |-> 0]
  <2>1. x.t = "names" /\ Names(g, ifs) = <<x>> BY DEF Names
  <2> HIDE DEF x
  <2> QED BY <2>1, SaysOne
<1> QED BY <1>1, <1>2, <1>3

\* What an interface declares is a list.
LEMMA DeclaredLists ==
    ASSUME NEW kind \in Kinds, NEW i \in 1 .. Len(InterfacesOf[kind])
    PROVE  DOMAIN InterfacesOf[kind][i] = 1 .. Len(InterfacesOf[kind][i])
<1>1. CASE kind = "cdc" BY <1>1 DEF InterfacesOf
<1>2. CASE kind = "uac" BY <1>2 DEF InterfacesOf
<1>3. CASE kind = "uvc" BY <1>3 DEF InterfacesOf
<1>4. CASE kind = "bt" BY <1>4 DEF InterfacesOf
<1>5. CASE kind = "dfu" BY <1>5 DEF InterfacesOf
<1>6. CASE kind = "hid" BY <1>6 DEF InterfacesOf
<1>7. CASE kind = "msc" BY <1>7 DEF InterfacesOf
<1>8. CASE kind = "mtp" BY <1>8 DEF InterfacesOf
<1>9. CASE kind = "raw" BY <1>9 DEF InterfacesOf
<1> QED BY <1>1, <1>2, <1>3, <1>4, <1>5, <1>6, <1>7, <1>8, <1>9, CompositionAssumption

HasAddresses(d, g, i) == {d.addr[<<g, i, k>>] : k \in 1 .. Len(InterfacesOf[d.groups[g].kind][i])}

LEMMA EndpointsSay ==
    ASSUME NEW d, NEW g, d.groups[g].kind \in Kinds, NEW i \in 1 .. Len(InterfacesOf[d.groups[g].kind]), NEW n
    PROVE  Says(EndpointDescs(d, g, i), n, HasAddresses(d, g, i))
<1> DEFINE m == Len(InterfacesOf[d.groups[g].kind][i])
           x(k) == EndpointDesc(d, <<g, i, k>>, d.addr[<<g, i, k>>])
           A == {d.addr[<<g, i, k>>] : k \in 1 .. m}
           b == EndpointDescs(d, g, i)
<1>0. m \in 0 .. 3 BY Declared
<1>1. m \in Nat /\ DOMAIN InterfacesOf[d.groups[g].kind][i] = 1 .. m
  <2>1. DOMAIN InterfacesOf[d.groups[g].kind][i] = 1 .. m BY DeclaredLists
  <2> HIDE DEF m
  <2>2. m \in Nat BY <1>0
  <2> QED BY <2>1, <2>2
<1>2. b = [k \in 1 .. m |-> x(k)] BY <1>1 DEF EndpointDescs
<1>3. \A k : x(k).t = "endpoint" /\ x(k).addr = d.addr[<<g, i, k>>] BY DEF EndpointDesc
<1> HIDE DEF m, x, b
<1>4. DOMAIN b = 1 .. m /\ \A k \in 1 .. m : b[k] = x(k) BY <1>2
<1>5. Listed(b)
  <2> DEFINE T == {x(k) : k \in 1 .. m}
  <2>1. \A k \in 1 .. m : x(k) \in T OBVIOUS
  <2> HIDE DEF T
  <2>2. b \in Seq(T) BY <1>1, <1>2, <2>1
  <2> QED BY <2>2, ListedIs
<1>6. \A k \in 1 .. m : d.addr[<<g, i, k>>] \in A OBVIOUS
<1>7. \A a \in A : \E k \in 1 .. m : a = d.addr[<<g, i, k>>] OBVIOUS
<1>8. A = HasAddresses(d, g, i) BY DEF HasAddresses, m
<1> HIDE DEF A
<1>9. \A p \in DOMAIN b : b[p].t # "interface" /\ b[p].addr \in A BY <1>3, <1>4, <1>6
<1>10. ASSUME NEW a \in A PROVE \E p \in DOMAIN b : b[p].t = "endpoint" /\ b[p].addr = a
  <2>1. PICK k \in 1 .. m : a = d.addr[<<g, i, k>>] BY <1>7
  <2>2. k \in DOMAIN b /\ b[k].t = "endpoint" /\ b[k].addr = a BY <1>3, <1>4, <2>1
  <2> QED BY <2>2
<1>11. Says(b, n, A) BY <1>5, <1>9, <1>10 DEF Says
<1> QED BY <1>8, <1>11 DEF b

LEMMA BlockTells ==
    ASSUME NEW d, NEW g, d.groups[g].kind \in Kinds, NEW i \in 1 .. Len(InterfacesOf[d.groups[g].kind])
    PROVE  Tells(InterfaceBlock(d, g, i), d.groups[g].ifs[i], DescribedAt(d, g, i))
<1> DEFINE kind == d.groups[g].kind
           n == d.groups[g].ifs[i]
           A == DescribedAt(d, g, i)
           I(alt) == InterfaceDesc(d, g, i, alt)
           E == EndpointDescs(d, g, i)
<1>1. \A alt : I(alt).t = "interface" /\ I(alt).num = n BY RecordsAre
<1>2. Says(E, n, HasAddresses(d, g, i)) BY EndpointsSay
<1>3. kind # "uac" => A = HasAddresses(d, g, i) BY DEF DescribedAt, HasAddresses
<1>4. \A ifs : Says(Names(g, ifs), n, {}) BY RecordsAre
<1>5. \A alt : Says(<<I(alt)>>, n, {}) BY <1>1, SaysOne
<1>6. \A alt : Tells(<<I(alt)>> \o E, n, HasAddresses(d, g, i)) BY <1>1, <1>2, HeadedTells
<1>7. ASSUME kind \in {"uac", "uvc"}, i = 1 PROVE Tells(InterfaceBlock(d, g, i), n, A)
  <2>1. InterfacesOf[kind][1] = <<>> BY <1>7 DEF InterfacesOf
  <2>2. A = {} BY <1>7, <2>1 DEF DescribedAt
  <2>3. \A ifs : Tells(<<I(0)>> \o Names(g, ifs), n, {}) BY <1>1, <1>4, HeadedTells
  <2>4. \E ifs : InterfaceBlock(d, g, i) = <<I(0)>> \o Names(g, ifs)
    <3>1. CASE kind = "uac"
      <4>1. InterfaceBlock(d, g, i) = <<I(0)>> \o Names(g, {n, n + 1, n + 2})
        BY <1>7, <3>1 DEF InterfaceBlock, AudioControlBlock
      <4> QED BY <4>1
    <3>2. CASE kind = "uvc"
      <4>1. InterfaceBlock(d, g, i) = <<I(0)>> \o Names(g, {n, n + 1})
        BY <1>7, <3>2 DEF InterfaceBlock, VideoControlBlock
      <4> QED BY <4>1
    <3> QED BY <1>7, <3>1, <3>2
  <2> HIDE DEF I, A, n
  <2> QED BY <2>2, <2>3, <2>4
<1>8. ASSUME kind = "uac", i # 1 PROVE Tells(InterfaceBlock(d, g, i), n, A)
  <2> DEFINE x == EndpointDesc(d, <<g, i, 1>>, Address(InterfacesOf["uac"][i][1]))
  <2>1. Len(InterfacesOf["uac"][i]) = 1 BY <1>8 DEF InterfacesOf
  <2>2. A = {Address(InterfacesOf["uac"][i][1])} BY <1>8, <2>1 DEF DescribedAt
  <2>3. x.t = "endpoint" /\ x.addr = Address(InterfacesOf["uac"][i][1]) BY DEF EndpointDesc
  <2>4. InterfaceBlock(d, g, i) = <<I(0), I(1), x>> BY <1>8 DEF InterfaceBlock, AudioStreamingBlock
  <2> HIDE DEF x, A, n, I
  <2>5. Says(<<x>>, n, A) BY <2>2, <2>3, SaysOne
  <2>6. Tells(<<I(0), I(1)>> \o <<x>>, n, A) BY <1>1, <1>5, <2>5, TwiceHeadedTells
  <2>7. <<I(0), I(1)>> \o <<x>> = <<I(0), I(1), x>> BY RecordsJoined
  <2> QED BY <2>4, <2>6, <2>7
<1>9. ASSUME kind = "uvc", i = 2 PROVE Tells(InterfaceBlock(d, g, i), n, A)
  <2>1. InterfaceBlock(d, g, i) = <<I(0), I(1)>> \o E BY <1>9 DEF InterfaceBlock, VideoStreamingBlock
  <2>2. A = HasAddresses(d, g, i) BY <1>3, <1>9
  <2> HIDE DEF A, n, I, E
  <2> QED BY <1>1, <1>2, <1>5, <2>1, <2>2, TwiceHeadedTells
<1>10. ASSUME kind = "dfu" PROVE Tells(InterfaceBlock(d, g, i), n, A)
  <2>1. InterfaceBlock(d, g, i) = <<I(0), I(1)>> BY <1>10 DEF InterfaceBlock, DfuBlock
  <2>2. A = {}
    <3>1. i = 1 /\ InterfacesOf["dfu"][1] = <<>> BY <1>10 DEF InterfacesOf
    <3> QED BY <1>10, <3>1 DEF DescribedAt
  <2> HIDE DEF A, n, I
  <2>3. <<I(0), I(1)>> = <<I(0)>> \o <<I(1)>> BY RecordsJoined
  <2> QED BY <1>1, <1>5, <2>1, <2>2, <2>3, HeadedTells
<1>11. ASSUME kind = "cdc", i = 1 PROVE Tells(InterfaceBlock(d, g, i), n, A)
  <2> DEFINE x == [t |-> "names", by |-> "header", of |-> g, ifs |-> {0, 1}, string |-> 0]
  <2>1. InterfaceBlock(d, g, i) = <<I(0)>> \o Names(g, {0, 1}) \o E BY <1>11 DEF InterfaceBlock, CdcCommBlock
  <2>2. A = HasAddresses(d, g, i) BY <1>3, <1>11
  <2>3. Names(g, {0, 1}) = <<x>> BY DEF Names
  <2> HIDE DEF A, n, I, E, x
  <2>4. Says(<<x>>, n, {}) BY <1>4, <2>3
  <2> QED BY <1>1, <1>2, <2>1, <2>2, <2>3, <2>4, TwiceHeadedTells
<1>12. ASSUME kind = "bt", i = 2 PROVE Tells(InterfaceBlock(d, g, i), n, A)
  <2> DEFINE part(alt) == <<I(alt - 1)>> \o E
             q == [alt \in 1 .. 2 |-> part(alt)]
  <2>1. InterfaceBlock(d, g, i) = FlattenSeq(q) BY <1>12 DEF InterfaceBlock, ScoBlock
  <2>2. A = HasAddresses(d, g, i) BY <1>3, <1>12
  <2>3. \A alt \in 1 .. 2 : Tells(part(alt), n, A) BY <1>6, <2>2
  <2> HIDE DEF A, n, part
  <2>4. q = [alt \in 1 .. 2 |-> q[alt]] /\ \A alt \in 1 .. 2 : q[alt] = part(alt) OBVIOUS
  <2> HIDE DEF q
  <2>5. \A alt \in 1 .. 2 : Listed(q[alt]) /\ Owned(q[alt]) BY <2>3, <2>4 DEF Tells
  <2>6. /\ Listed(FlattenSeq(q)) /\ Owned(FlattenSeq(q))
        /\ \A x : x \in SaidBy(FlattenSeq(q)) <=> \E alt \in 1 .. 2 : x \in SaidBy(q[alt])
    BY <2>4, <2>5, ListsFlattened
  <2>7. \A x : \A alt \in 1 .. 2 : x \in SaidBy(q[alt]) <=> \E a \in A : x = <<n, a>> BY <2>3, <2>4 DEF Tells
  <2>8. 1 \in 1 .. 2 OBVIOUS
  <2>9. \A x : x \in SaidBy(FlattenSeq(q)) <=> \E a \in A : x = <<n, a>> BY <2>6, <2>7, <2>8
  <2> QED BY <2>1, <2>6, <2>9 DEF Tells
<1>13. ASSUME kind # "uac", ~(kind = "uvc" /\ i \in {1, 2}), ~(kind = "bt" /\ i = 2), kind # "dfu",
              ~(kind = "cdc" /\ i = 1)
       PROVE  Tells(InterfaceBlock(d, g, i), n, A)
  <2>1. InterfaceBlock(d, g, i) = <<I(0)>> \o E BY <1>13 DEF InterfaceBlock
  <2>2. A = HasAddresses(d, g, i) BY <1>3, <1>13
  <2> HIDE DEF A, n, I, E
  <2> QED BY <1>6, <2>1, <2>2
<1> HIDE DEF A, n
<1> QED BY <1>7, <1>8, <1>9, <1>10, <1>11, <1>12, <1>13 DEF n, A

\* The part of the configuration that is of one function, and the addresses that
\* its interfaces describe.
PartOf(d, g) ==
    Association(d, g) \o FlattenSeq([i \in DOMAIN d.groups[g].ifs |-> InterfaceBlock(d, g, i)])
DescribedIn(d, g, x) ==
    \E i \in DOMAIN d.groups[g].ifs : \E a \in DescribedAt(d, g, i) : x = <<d.groups[g].ifs[i], a>>

LEMMA FunctionTells ==
    ASSUME NEW d, NEW g, d.groups[g].kind \in Kinds, d.groups[g].ifs \in Seq(Nat),
           Len(d.groups[g].ifs) = Len(InterfacesOf[d.groups[g].kind])
    PROVE  /\ Listed(PartOf(d, g)) /\ Owned(PartOf(d, g))
           /\ \A x : x \in SaidBy(PartOf(d, g)) <=> DescribedIn(d, g, x)
<1> DEFINE n == Len(d.groups[g].ifs)
           ifs == d.groups[g].ifs
           q == [i \in DOMAIN d.groups[g].ifs |-> InterfaceBlock(d, g, i)]
           first == Association(d, g)
<1>1. n \in Nat /\ DOMAIN ifs = 1 .. n OBVIOUS
<1>2. \A i \in 1 .. n : Tells(InterfaceBlock(d, g, i), ifs[i], DescribedAt(d, g, i)) BY BlockTells
<1>3. q = [i \in 1 .. n |-> q[i]] /\ \A i \in 1 .. n : q[i] = InterfaceBlock(d, g, i) BY <1>1
<1>4. Listed(first) /\ Owned(first) /\ SaidBy(first) = {}
  <2>1. CASE HasIad(d, g)
    <3> DEFINE x == [t |-> "names", by |-> "association", of |-> g,
                     ifs |-> {ifs[1] + k - 1 : k \in DOMAIN ifs},
                     string |-> IF d.groups[g].kind = "cdc" THEN d.groups[g].string ELSE 0]
    <3>1. first = <<x>> /\ x.t = "names" BY <2>1 DEF Association
    <3> HIDE DEF x, first
    <3>2. <<x>> \in Seq({x}) /\ \A p \in DOMAIN <<x>> : <<x>>[p] = x OBVIOUS
    <3>3. \A p \in DOMAIN <<x>> : <<x>>[p].t # "endpoint" BY <3>1, <3>2
    <3> QED BY <3>1, <3>2, <3>3, NothingTold, ListedIs
  <2>2. CASE ~HasIad(d, g)
    <3>1. first = <<>> BY <2>2 DEF Association
    <3>2. <<>> \in Seq({}) /\ \A p \in DOMAIN <<>> : <<>>[p].t # "endpoint" OBVIOUS
    <3> HIDE DEF first
    <3> QED BY <3>1, <3>2, NothingTold, ListedIs
  <2> QED BY <2>1, <2>2
<1> HIDE DEF n, q, first
<1>5. \A i \in 1 .. n : Listed(q[i]) /\ Owned(q[i]) BY <1>2, <1>3 DEF Tells
<1>6. /\ Listed(FlattenSeq(q)) /\ Owned(FlattenSeq(q))
      /\ \A x : x \in SaidBy(FlattenSeq(q)) <=> \E i \in 1 .. n : x \in SaidBy(q[i])
  BY <1>1, <1>3, <1>5, ListsFlattened
<1>7. /\ Listed(first \o FlattenSeq(q)) /\ Owned(first \o FlattenSeq(q))
      /\ SaidBy(first \o FlattenSeq(q)) = SaidBy(first) \cup SaidBy(FlattenSeq(q))
  BY <1>4, <1>6, ListsJoined
<1>8. ASSUME NEW x
      PROVE  x \in SaidBy(first \o FlattenSeq(q)) <=> \E i \in DOMAIN ifs : \E a \in DescribedAt(d, g, i) : x = <<ifs[i], a>>
  <2>1. x \in SaidBy(first \o FlattenSeq(q)) <=> \E i \in 1 .. n : x \in SaidBy(q[i]) BY <1>4, <1>6, <1>7
  <2>2. \A i \in 1 .. n : x \in SaidBy(q[i]) <=> \E a \in DescribedAt(d, g, i) : x = <<ifs[i], a>>
    BY <1>2, <1>3 DEF Tells
  <2> HIDE DEF ifs
  <2> QED BY <1>1, <2>1, <2>2
<1> QED BY <1>7, <1>8 DEF first, q, PartOf, DescribedIn

\* What the configuration tells of the endpoints: the addresses that each interface
\* describes, and no other.
LEMMA ConfigurationTells ==
    ASSUME NEW d, DeviceParts(d), Numbered(d), \A g \in Groups(d) : d.groups[g].block
    PROVE  /\ Listed(ConfigBytes(d)) /\ Owned(ConfigBytes(d))
           /\ \A x : x \in {<<y.num, y.desc.addr>> : y \in Described(d)} <=>
                  \E g \in Groups(d) : DescribedIn(d, g, x)
<1> DEFINE n == Len(d.groups)
           q == [g \in Groups(d) |-> IF ~d.groups[g].block THEN <<>> ELSE PartOf(d, g)]
<1>1. d.groups \in Seq(GroupSet) BY DEF DeviceParts, PartsTyped
<1>2. n \in Nat /\ Groups(d) = 1 .. n BY <1>1 DEF Groups
<1>3. \A g \in 1 .. n : d.groups[g] \in GroupSet BY <1>1
<1>4. ASSUME NEW g \in 1 .. n
      PROVE  Listed(PartOf(d, g)) /\ Owned(PartOf(d, g)) /\ \A x : x \in SaidBy(PartOf(d, g)) <=> DescribedIn(d, g, x)
  <2>1. d.groups[g].kind \in Kinds /\ d.groups[g].ifs \in Seq(Nat) BY <1>3 DEF GroupSet
  <2>2. Len(d.groups[g].ifs) = Len(InterfacesOf[d.groups[g].kind]) BY <1>2 DEF Numbered
  <2> QED BY <2>1, <2>2, FunctionTells
<1>5. ConfigBytes(d) = FlattenSeq(q) BY DEF ConfigBytes, PartOf
<1> HIDE DEF n
<1>6. q = [g \in 1 .. n |-> q[g]] /\ \A g \in 1 .. n : q[g] = PartOf(d, g) BY <1>2
<1> HIDE DEF q
<1>7. \A g \in 1 .. n : Listed(q[g]) /\ Owned(q[g]) BY <1>4, <1>6
<1>8. /\ Listed(FlattenSeq(q)) /\ Owned(FlattenSeq(q))
      /\ \A x : x \in SaidBy(FlattenSeq(q)) <=> \E g \in 1 .. n : x \in SaidBy(q[g])
  BY <1>2, <1>6, <1>7, ListsFlattened
<1>9. \A x : x \in SaidBy(ConfigBytes(d)) <=> \E g \in Groups(d) : DescribedIn(d, g, x) BY <1>2, <1>4, <1>5, <1>6, <1>8
<1>10. SaidBy(ConfigBytes(d)) = {<<y.num, y.desc.addr>> : y \in Described(d)} BY DEF SaidBy, Described
<1>11. Listed(ConfigBytes(d)) /\ Owned(ConfigBytes(d)) BY <1>5, <1>8
<1> QED BY <1>9, <1>10, <1>11

\* The endpoint of an interface, and what it describes.
LEMMA IdOf ==
    ASSUME NEW d, DeviceParts(d), Numbered(d), NEW g \in Groups(d), NEW i \in DOMAIN d.groups[g].ifs
    PROVE  /\ d.groups[g].kind \in Kinds /\ i \in 1 .. 3 /\ i \in 1 .. Len(InterfacesOf[d.groups[g].kind])
           /\ \A k \in 1 .. Len(InterfacesOf[d.groups[g].kind][i]) : <<g, i, k>> \in AllIds(d)
<1> DEFINE kind == d.groups[g].kind
<1>1. d.groups \in Seq(GroupSet) /\ g \in 1 .. Len(d.groups) BY DEF DeviceParts, PartsTyped, Groups
<1>2. d.groups[g] \in GroupSet BY <1>1, ElementOfSeq
<1>3. kind \in Kinds /\ d.groups[g].ifs \in Seq(Nat) BY <1>2 DEF GroupSet
<1>4. Len(d.groups[g].ifs) <= Len(InterfacesOf[kind]) BY DEF Numbered
<1>5. Len(InterfacesOf[kind]) \in 1 .. 3 BY <1>3, Declared
<1>6. i \in 1 .. Len(InterfacesOf[kind]) /\ i \in 1 .. 3
  <2> DEFINE m == Len(InterfacesOf[kind])
             ifs == d.groups[g].ifs
  <2>1. ifs \in Seq(Nat) /\ i \in DOMAIN ifs /\ Len(ifs) <= m /\ m \in 1 .. 3 BY <1>3, <1>4, <1>5
  <2> HIDE DEF m, ifs
  <2>2. i \in 1 .. m /\ i \in 1 .. 3 BY <2>1
  <2> QED BY <2>2 DEF m
<1>7. Len(InterfacesOf[kind][i]) \in 0 .. 3 BY <1>3, <1>6, Declared
<1>8. ASSUME NEW k \in 1 .. Len(InterfacesOf[kind][i]) PROVE <<g, i, k>> \in AllIds(d)
  <2> DEFINE m == Len(InterfacesOf[kind][i])
  <2>0. k \in 1 .. m /\ m \in 0 .. 3 BY <1>7
  <2> HIDE DEF m
  <2>01. k \in 1 .. 3 /\ k <= m BY <2>0
  <2>1. k \in 1 .. 3 /\ k <= Len(InterfacesOf[kind][i]) BY <2>01 DEF m
  <2> QED BY <1>6, <2>1 DEF AllIds
<1> QED BY <1>3, <1>6, <1>8

\* Audio describes its one endpoint of an interface at the constant address.
LEMMA AudioIs ==
    /\ Len(InterfacesOf["uac"]) = 3 /\ Len(InterfacesOf["uac"][1]) = 0
    /\ Len(InterfacesOf["uac"][2]) = 1 /\ Len(InterfacesOf["uac"][3]) = 1
    /\ InterfacesOf["uac"][2][1].dir = "out" /\ InterfacesOf["uac"][3][1].dir = "in"
    /\ Address(InterfacesOf["uac"][2][1]) = <<1, "out">> /\ Address(InterfacesOf["uac"][3][1]) = <<2, "in">>
BY DEF InterfacesOf, Address, In, Out

\* The endpoint to which the device routes an address that the host was told is on an
\* interface that was said to have it.
LEMMA RoutedToDescribed ==
    ASSUME NEW d, DeviceParts(d), Wired(d), NEW g \in Groups(d), NEW i \in DOMAIN d.groups[g].ifs,
           NEW a \in DescribedAt(d, g, i)
    PROVE  /\ a \in DOMAIN d.epMap
           /\ LET id == d.epMap[a]
              IN  /\ id[1] \in Groups(d) /\ id[2] \in DOMAIN d.groups[id[1]].ifs
                  /\ a \in DescribedAt(d, id[1], id[2])
<1>1. /\ DOMAIN d.addr = AllIds(d) /\ Matched(d.addr, d.epMap)
      /\ \A id \in AllIds(d) : d.addr[id][2] = Declaration(d, id).dir /\ Address(Declaration(d, id)) \in DOMAIN d.epMap
  BY DEF Wired, Wiring
<1>2. Numbered(d) BY DEF Wired
<1>3. a \in DOMAIN d.epMap /\ (d.groups[g].kind # "uac" =>
          \E id \in AllIds(d) : id[1] = g /\ d.epMap[a] = id)
  <2>1. CASE d.groups[g].kind # "uac"
    <3>1. PICK k \in 1 .. Len(InterfacesOf[d.groups[g].kind][i]) : a = d.addr[<<g, i, k>>]
      BY <2>1 DEF DescribedAt
    <3>2. <<g, i, k>> \in AllIds(d) BY <1>2, IdOf
    <3>3. a \in DOMAIN d.epMap /\ d.epMap[a] = <<g, i, k>> BY <1>1, <3>1, <3>2 DEF Matched
    <3> QED BY <3>2, <3>3
  <2>2. CASE d.groups[g].kind = "uac"
    <3>1. PICK k \in 1 .. Len(InterfacesOf["uac"][i]) : a = Address(InterfacesOf["uac"][i][k])
      BY <2>2 DEF DescribedAt
    <3>2. <<g, i, k>> \in AllIds(d) BY <1>2, <2>2, IdOf
    <3>3. Address(Declaration(d, <<g, i, k>>)) = a BY <2>2, <3>1 DEF Declaration
    <3> QED BY <1>1, <2>2, <3>2, <3>3
  <2> QED BY <2>1, <2>2
<1> DEFINE id == d.epMap[a]
<1>4. id \in AllIds(d) /\ d.addr[id] = a BY <1>1, <1>3 DEF Matched
<1> HIDE DEF id
<1>5. /\ id[1] \in Groups(d) /\ id[2] \in DOMAIN d.groups[id[1]].ifs /\ id[2] \in 1 .. 3
      /\ id[3] \in 1 .. 3 /\ id[3] <= Len(InterfacesOf[d.groups[id[1]].kind][id[2]])
      /\ id = <<id[1], id[2], id[3]>>
  BY <1>4 DEF AllIds
<1>6. a \in DescribedAt(d, id[1], id[2])
  <2> DEFINE kind == d.groups[id[1]].kind
  <2>1. CASE kind # "uac"
    <3>1. id[3] \in 1 .. Len(InterfacesOf[kind][id[2]])
      <4>1. kind \in Kinds /\ id[2] \in 1 .. Len(InterfacesOf[kind]) BY <1>2, <1>5, IdOf
      <4>2. Len(InterfacesOf[kind][id[2]]) \in 0 .. 3 BY <4>1, Declared
      <4> QED BY <1>5, <4>2
    <3>2. a = d.addr[<<id[1], id[2], id[3]>>] BY <1>4, <1>5
    <3> QED BY <2>1, <3>1, <3>2 DEF DescribedAt
  <2>2. CASE kind = "uac"
    <3>1. d.groups[g].kind = "uac"
      <4> SUFFICES ASSUME d.groups[g].kind # "uac" PROVE FALSE OBVIOUS
      <4>1. id[1] = g BY <1>3 DEF id
      <4> QED BY <2>2, <4>1
    <3>2. a = <<1, "out">> \/ a = <<2, "in">>
      <4>1. PICK k \in 1 .. Len(InterfacesOf["uac"][i]) : a = Address(InterfacesOf["uac"][i][k])
        BY <3>1 DEF DescribedAt
      <4>2. i \in 1 .. 3 BY <1>2, IdOf
      <4>3. CASE i = 1 BY <4>1, <4>3, AudioIs
      <4>4. CASE i = 2
        <5>1. k = 1 BY <4>1, <4>4, AudioIs
        <5> QED BY <4>1, <4>4, <5>1, AudioIs
      <4>5. CASE i = 3
        <5>1. k = 1 BY <4>1, <4>5, AudioIs
        <5> QED BY <4>1, <4>5, <5>1, AudioIs
      <4> QED BY <4>2, <4>3, <4>4, <4>5
    <3>3. a[2] = InterfacesOf["uac"][id[2]][id[3]].dir BY <1>1, <1>4, <2>2 DEF Declaration
    <3>4. id[2] # 1 /\ id[3] = 1
      <4>1. CASE id[2] = 1 BY <1>5, <2>2, <4>1, AudioIs
      <4>2. CASE id[2] = 2 BY <1>5, <2>2, <4>2, AudioIs
      <4>3. CASE id[2] = 3 BY <1>5, <2>2, <4>3, AudioIs
      <4> QED BY <1>5, <4>1, <4>2, <4>3
    <3>5. CASE id[2] = 2
      <4>1. a[2] = "out" BY <3>3, <3>4, <3>5, AudioIs
      <4>2. a = Address(InterfacesOf["uac"][2][1]) /\ 1 \in 1 .. Len(InterfacesOf["uac"][2])
        <5>1. a = <<1, "out">> BY <3>2, <4>1
        <5> QED BY <5>1, AudioIs
      <4> QED BY <2>2, <3>5, <4>2 DEF DescribedAt
    <3>6. CASE id[2] = 3
      <4>1. a[2] = "in" BY <3>3, <3>4, <3>6, AudioIs
      <4>2. a = Address(InterfacesOf["uac"][3][1]) /\ 1 \in 1 .. Len(InterfacesOf["uac"][3])
        <5>1. a = <<2, "in">> BY <3>2, <4>1
        <5> QED BY <5>1, AudioIs
      <4> QED BY <2>2, <3>6, <4>2 DEF DescribedAt
    <3> QED BY <1>5, <3>4, <3>5, <3>6
  <2> QED BY <2>1, <2>2
<1> QED BY <1>3, <1>5, <1>6 DEF id

\* An interface of a class answers for its number, and number 0 for the device.
LEMMA OwnersAnswer ==
    ASSUME FunctionsKept, WiredInv, plugged = "yes", NEW n, NEW h \in OwnerOf(n)
    PROVE  /\ n \in DOMAIN dev.ctrl /\ dev.ctrl[n] = h
           /\ n \in DOMAIN dev.alts /\ dev.alts[n] = h
           /\ n = 0 => -1 \in DOMAIN dev.ctrl /\ dev.ctrl[-1] = h
<1> DEFINE g == h[1]
           i == h[2]
<1>1. Registered(dev) /\ Numbered(dev) BY DEF WiredInv, Wired
<1>2. /\ g \in Groups(dev) /\ i \in DOMAIN dev.groups[g].ifs /\ dev.groups[g].kind # "raw"
      /\ dev.groups[g].ifs[i] = n /\ h = <<g, i>>
  BY DEF OwnerOf
<1> HIDE DEF g, i
<1>3. HandlerOf(dev, g, i) BY <1>1, <1>2 DEF Registered
<1>4. ASSUME n = 0 PROVE -1 \in DOMAIN dev.ctrl /\ dev.ctrl[-1] = h
  <2>1. DeviceParts(dev) /\ dev.groups \in Seq(GroupSet) BY DEF FunctionsKept, Kept, DeviceParts, PartsTyped
  <2>2. dev.groups # <<>> /\ 1 \in Groups(dev) BY <1>2, <2>1, EmptySeq DEF Groups
  <2>3. dev.groups[1].ifs # <<>> BY <2>2 DEF FunctionsKept, Kept
  <2>4. dev.groups[1].ifs[1] = 0 BY <2>1, <2>2, <2>3 DEF DeviceParts, FirstIsZero
  <2>5. 1 \in DOMAIN dev.groups[1].ifs
    <3>1. dev.groups[1] \in GroupSet BY <2>1, <2>2, ElementOfSeq DEF Groups
    <3>2. dev.groups[1].ifs \in Seq(Nat) BY <3>1 DEF GroupSet
    <3> QED BY <2>3, <3>2, EmptySeq
  <2>6. 0 \in IfsOf(dev, 1) /\ 0 \in IfsOf(dev, g) BY <1>2, <1>4, <2>4, <2>5 DEF IfsOf
  <2>7. g = 1 BY <1>2, <2>1, <2>2, <2>6 DEF DeviceParts, NumbersApart
  <2>8. i = 1 BY <1>1, <1>2, <1>4, <2>2, <2>4, <2>5, <2>7 DEF Numbered
  <2> QED BY <1>1, <1>2, <2>2, <2>3, <2>7, <2>8 DEF Registered
<1> QED BY <1>2, <1>3, <1>4 DEF HandlerOf

LEMMA WiredAnswers == FunctionsKept /\ WiredInv => AnsweredByOwner
<1> DEFINE told == {<<x.num, x.desc.addr>> : x \in Described(dev)}
<1> SUFFICES ASSUME FunctionsKept, WiredInv, plugged = "yes", NEW r \in ControlRequests(dev)
             PROVE  /\ r.type \in {"descriptor", "set_interface", "class"} /\ r.recipient = "interface" =>
                          \A h \in OwnerOf(r.index) : HandleControl(dev, r) = h
                    /\ r.type = "class" /\ r.recipient = "device" =>
                          \A h \in OwnerOf(0) : HandleControl(dev, r) = h
                    /\ r.type = "vendor" /\ r.recipient = "interface" /\ r.index = 0 =>
                          \A h \in OwnerOf(0) : HandleControl(dev, r) = h
                    /\ r.type = "halt" =>
                          LET id == HandleControl(dev, r)
                          IN  <<dev.groups[id[1]].ifs[id[2]], r.index>> \in told
  BY DEF AnsweredByOwner
<1>1. DeviceParts(dev) /\ Wired(dev) /\ Numbered(dev) /\ \A g \in Groups(dev) : dev.groups[g].block
  BY DEF FunctionsKept, Kept, WiredInv, Wired
<1>2. ASSUME r.type \in {"descriptor", "set_interface", "class"}, r.recipient = "interface",
             NEW h \in OwnerOf(r.index)
      PROVE  HandleControl(dev, r) = h
  <2>1. /\ r.index \in DOMAIN dev.ctrl /\ dev.ctrl[r.index] = h
        /\ r.index \in DOMAIN dev.alts /\ dev.alts[r.index] = h
    BY <1>2, OwnersAnswer
  <2> QED BY <1>2, <2>1 DEF HandleControl, StandardRequest, RouteControl
<1>3. ASSUME r.type = "class", r.recipient = "device", NEW h \in OwnerOf(0)
      PROVE  HandleControl(dev, r) = h
  <2>1. -1 \in DOMAIN dev.ctrl /\ dev.ctrl[-1] = h BY <1>3, OwnersAnswer
  <2> QED BY <1>3, <2>1 DEF HandleControl
<1>4. ASSUME r.type = "vendor", r.recipient = "interface", r.index = 0, NEW h \in OwnerOf(0)
      PROVE  HandleControl(dev, r) = h
  <2>1. 0 \in DOMAIN dev.ctrl /\ dev.ctrl[0] = h BY <1>4, OwnersAnswer
  <2>2. VendorDescriptor(dev, r.code, 0, 0) = {} BY DEF VendorDescriptor
  <2> QED BY <1>4, <2>1, <2>2 DEF HandleControl, RouteControl
<1>5. ASSUME r.type = "halt"
      PROVE  LET id == HandleControl(dev, r) IN <<dev.groups[id[1]].ifs[id[2]], r.index>> \in told
  <2> DEFINE id == dev.epMap[r.index]
  <2>1. r.index \in {x.desc.addr : x \in Described(dev)} BY <1>5 DEF ControlRequests
  <2>2. PICK x \in Described(dev) : r.index = x.desc.addr BY <2>1
  <2>3. <<x.num, r.index>> \in told BY <2>2
  <2>4. \A y : y \in told <=> \E g \in Groups(dev) : DescribedIn(dev, g, y) BY <1>1, ConfigurationTells
  <2> HIDE DEF told
  <2>5. PICK g \in Groups(dev) : DescribedIn(dev, g, <<x.num, r.index>>) BY <2>3, <2>4
  <2>6. PICK i \in DOMAIN dev.groups[g].ifs : r.index \in DescribedAt(dev, g, i)
    BY <2>5 DEF DescribedIn
  <2>7. /\ r.index \in DOMAIN dev.epMap /\ id[1] \in Groups(dev) /\ id[2] \in DOMAIN dev.groups[id[1]].ifs
        /\ r.index \in DescribedAt(dev, id[1], id[2])
    BY <1>1, <2>6, RoutedToDescribed
  <2>8. HandleControl(dev, r) = id BY <1>5, <2>7 DEF HandleControl, StandardRequest
  <2> HIDE DEF id
  <2>9. DescribedIn(dev, id[1], <<dev.groups[id[1]].ifs[id[2]], r.index>>) BY <2>7 DEF DescribedIn
  <2>10. <<dev.groups[id[1]].ifs[id[2]], r.index>> \in told BY <2>4, <2>7, <2>9
  <2> QED BY <2>8, <2>10
<1> HIDE DEF told
<1> QED BY <1>2, <1>3, <1>4, <1>5

\* A control request is answered by the interface, the function or the endpoint that
\* it is for, as the host was told in the configuration.
THEOREM OwnersAreAsked == CompositionSpec => []AnsweredByOwner
<1>1. FunctionsKept /\ WiredInv => AnsweredByOwner BY WiredAnswers
<1> QED BY <1>1, FunctionsAreKept, PartsAreWired, PTL

-----------------------------------------------------------------------------
(* What is told besides.  Interface numbers are used up in a row, a packet *)
(* size is for the speed that the device has, a label is its function's,   *)
(* and no two interfaces describe one address once the device is plugged.  *)

InRow(d) ==
    /\ \A g \in Groups(d) : \A k \in DOMAIN d.groups[g].ifs : d.groups[g].ifs[k] = d.groups[g].ifs[1] + k - 1
    /\ \A n \in 0 .. d.numIfs - 1 : \E g \in Groups(d) : n \in IfsOf(d, g)

\* The function that is being attached claimed the last number.
ClaimedLast(d, g) ==
    LET ifs == d.groups[g].ifs IN ifs # <<>> => ifs[Len(ifs)] = d.numIfs - 1

\* While an interface is attached its endpoints are sized and it is not hooked yet.
SizedBut(d, unhooked) ==
    /\ DOMAIN d.addr \subseteq DOMAIN d.sized
    /\ \A id \in DOMAIN d.sized :
          d.sized[id] = "any" \/ (d.sized[id] = d.speed /\ <<id[1], id[2]>> \in d.hooks \cup unhooked)
Sized(d) == SizedBut(d, {})

Labelled(d) ==
    /\ Len(d.strings) <= 2 * Len(d.groups)
    /\ \A g \in Groups(d) :
          LET s == d.groups[g].string
          IN  s # 0 => /\ d.groups[g].kind \in {"cdc", "msc", "dfu"}
                       /\ s \in DOMAIN d.strings /\ d.strings[s] = <<g, 0>>
                       /\ d.groups[g].kind = "dfu" => s + 1 \in DOMAIN d.strings /\ d.strings[s + 1] = <<g, 1>>

TripleRight(d) ==
    /\ d.composite => d.triple = "misc"
    /\ Len(d.groups) = 1 /\ d.groups[1].kind = "uvc" => d.triple = "misc"

Shaped(d) == InRow(d) /\ Sized(d) /\ Labelled(d) /\ TripleRight(d) /\ Len(d.groups) <= MaxFunctions

ShapedState(d, state) == (state \in {"no", "yes"} => Shaped(d)) /\ (state = "yes" => ~EndpointConflict(d))
ShapedInv == ShapedState(dev, plugged)

SameSetUp(e, d) == e.composite = d.composite /\ e.triple = d.triple /\ e.speed = d.speed

LEMMA RouteOneSizes ==
    ASSUME NEW d, DOMAIN d = DOMAIN NewDevice, NEW g, NEW i, NEW k, NEW unhooked,
           d.groups[g].kind = "raw" \/ <<g, i>> \in unhooked, SizedBut(d, unhooked)
    PROVE  LET e == RouteOne(d, g, i, k)
           IN  SizedBut(e, unhooked) /\ SameSetUp(e, d) /\ e.hooks = d.hooks
<1> DEFINE id == <<g, i, k>>
           p == InterfacesOf[d.groups[g].kind][i][k]
           size == IF SpeedAware(d.groups[g].kind, p) THEN d.speed ELSE "any"
           sized == Insert(d.sized, id, size)
           c == AdjustForSpeed(d, d.groups[g].kind, id, p)
           a == AddressFor(c, p)
           e == RouteOne(d, g, i, k)
<1>1. CASE d.raised BY <1>1 DEF RouteOne, SameSetUp
<1>2. CASE ~d.raised
  <2>1. c = [d EXCEPT !.sized = sized] BY DEF AdjustForSpeed
  <2>2. size = "any" \/ (size = d.speed /\ <<g, i>> \in unhooked) BY DEF SpeedAware
  <2>3. Extended(sized, d.sized, id, size) BY Inserted
  <2>4. e = IF Address(p) \in DOMAIN c.epMap /\ FreeNumbers(c, p.dir) = {}
            THEN [c EXCEPT !.raised = TRUE]
            ELSE [c EXCEPT !.addr = Insert(@, id, a), !.epMap = Insert(@, a, id)]
    BY <1>2 DEF RouteOne, RouteEndpoint
  <2> HIDE DEF size, sized, c, e, a
  <2>5. /\ DOMAIN c = DOMAIN NewDevice /\ c.sized = sized /\ c.addr = d.addr /\ c.hooks = d.hooks
        /\ c.speed = d.speed /\ c.composite = d.composite /\ c.triple = d.triple
    BY <2>1 DEF NewDevice
  <2>6. /\ e.sized = sized /\ e.hooks = d.hooks /\ SameSetUp(e, d)
        /\ e.addr = d.addr \/ e.addr = Insert(d.addr, id, a)
    <3>1. CASE Address(p) \in DOMAIN c.epMap /\ FreeNumbers(c, p.dir) = {}
      <4>1. e = [c EXCEPT !.raised = TRUE] BY <2>4, <3>1
      <4> QED BY <2>5, <4>1 DEF NewDevice, SameSetUp
    <3>2. CASE ~(Address(p) \in DOMAIN c.epMap /\ FreeNumbers(c, p.dir) = {})
      <4> DEFINE v == Insert(c.addr, id, a)
                 w == Insert(c.epMap, a, id)
      <4>0. v = Insert(d.addr, id, a) BY <2>5
      <4>1. e = [c EXCEPT !.addr = v, !.epMap = w] BY <2>4, <3>2
      <4> HIDE DEF v, w
      <4> QED BY <2>5, <4>0, <4>1 DEF NewDevice, SameSetUp
    <3> QED BY <3>1, <3>2
  <2>7. DOMAIN e.addr \subseteq DOMAIN d.addr \cup {id}
    <3>1. Extended(Insert(d.addr, id, a), d.addr, id, a) BY Inserted
    <3> QED BY <2>6, <3>1 DEF Extended
  <2>8. DOMAIN e.addr \subseteq DOMAIN e.sized
    BY <2>3, <2>6, <2>7 DEF Extended, SizedBut
  <2>9. ASSUME NEW x \in DOMAIN e.sized
        PROVE  e.sized[x] = "any" \/ (e.sized[x] = e.speed /\ <<x[1], x[2]>> \in e.hooks \cup unhooked)
    <3>1. e.speed = d.speed /\ e.hooks = d.hooks BY <2>6 DEF SameSetUp
    <3>2. CASE x = id
      <4>1. e.sized[x] = size /\ <<x[1], x[2]>> = <<g, i>> BY <2>3, <2>6, <3>2 DEF Extended
      <4> QED BY <2>2, <3>1, <4>1
    <3>3. CASE x # id
      <4>1. x \in DOMAIN d.sized /\ e.sized[x] = d.sized[x] BY <2>3, <2>6, <3>3 DEF Extended
      <4> QED BY <3>1, <4>1 DEF SizedBut
    <3> QED BY <3>2, <3>3
  <2> QED BY <2>6, <2>8, <2>9 DEF SizedBut, e
<1> QED BY <1>1, <1>2

LEMMA RoutingSizes ==
    ASSUME NEW d, DOMAIN d = DOMAIN NewDevice, NEW g, NEW i, NEW unhooked,
           Len(InterfacesOf[d.groups[g].kind][i]) \in 0 .. 3,
           d.groups[g].kind = "raw" \/ <<g, i>> \in unhooked, SizedBut(d, unhooked)
    PROVE  LET e == RouteEndpoints(d, g, i)
           IN  SizedBut(e, unhooked) /\ SameSetUp(e, d) /\ e.hooks = d.hooks
<1> DEFINE a == RouteOne(d, g, i, 1)
           b == RouteOne(a, g, i, 2)
           c == RouteOne(b, g, i, 3)
           n == Len(InterfacesOf[d.groups[g].kind][i])
           Done(e) == SizedBut(e, unhooked) /\ SameSetUp(e, d) /\ e.hooks = d.hooks /\ SameParts(e, d)
<1>1. RouteEndpoints(d, g, i) = Rungs(d, a, b, c)[n] BY RoutesInTurn
<1>2. n \in 0 .. 3 OBVIOUS
<1>3. ASSUME NEW e, NEW k, Done(e) PROVE Done(RouteOne(e, g, i, k))
  <2> DEFINE f == RouteOne(e, g, i, k)
  <2>1. DOMAIN e = DOMAIN NewDevice /\ e.groups = d.groups BY <1>3 DEF SameParts
  <2>2. e.groups[g].kind = "raw" \/ <<g, i>> \in unhooked BY <2>1
  <2>6. SizedBut(e, unhooked) BY <1>3
  <2> HIDE DEF Done, a, b, c, n
  <2>3. SizedBut(f, unhooked) /\ SameSetUp(f, e) /\ f.hooks = e.hooks BY <2>1, <2>2, <2>6, RouteOneSizes
  <2>4. SameParts(f, e) BY <2>1, RouteOneKeeps
  <2> HIDE DEF f
  <2>5. Done(f) BY <1>3, <2>3, <2>4 DEF SameSetUp, SameParts, Done
  <2> QED BY <2>5 DEF f
<1>4. Done(d) BY DEF SameSetUp, SameParts
<1> HIDE DEF n, Done
<1>5. Done(a) BY <1>3, <1>4
<1> HIDE DEF a
<1>6. Done(b) BY <1>3, <1>5
<1> HIDE DEF b
<1>7. Done(c) BY <1>3, <1>6
<1> HIDE DEF c
<1>8. Done(Rungs(d, a, b, c)[n])
  <2>1. CASE n = 0 BY <1>4, <2>1 DEF Rungs
  <2>2. CASE n = 1 BY <1>5, <2>2 DEF Rungs
  <2>3. CASE n = 2 BY <1>6, <2>3 DEF Rungs
  <2>4. CASE n = 3 BY <1>7, <2>4 DEF Rungs
  <2> QED BY <1>2, <2>1, <2>2, <2>3, <2>4
<1> QED BY <1>1, <1>8 DEF Done

LEMMA AttachingSizes ==
    ASSUME NEW d, DeviceParts(d), NEW g \in Groups(d), NEW i \in 1 .. Len(InterfacesOf[d.groups[g].kind]),
           ~d.raised => Sized(d)
    PROVE  LET e == AttachInterface(d, g, i)
           IN  SameSetUp(e, d) /\ (~e.raised => Sized(e))
<1> DEFINE c == ClaimInterface(d, g)
           f == RouteEndpoints(c, g, i)
           e == AttachInterface(d, g, i)
<1>1. CASE d.raised BY <1>1 DEF AttachInterface, SameSetUp
<1>2. CASE ~d.raised
  <2> DEFINE kind == d.groups[g].kind
             unhooked == IF kind = "raw" THEN {} ELSE {<<g, i>>}
  <2>1. DOMAIN d = DOMAIN NewDevice BY DEF DeviceParts, PartsTyped
  <2>2. /\ DOMAIN c = DOMAIN NewDevice /\ c.raised = d.raised /\ c.addr = d.addr /\ c.groups[g].kind = kind
    BY ClaimedIs
  <2>3. c.sized = d.sized /\ c.speed = d.speed /\ c.hooks = d.hooks /\ SameSetUp(c, d)
    BY <2>1 DEF ClaimInterface, NewDevice, SameSetUp
  <2>4. Len(InterfacesOf[kind][i]) \in 0 .. 3
    <3>1. d.groups \in Seq(GroupSet) BY DEF DeviceParts, PartsTyped
    <3>2. g \in 1 .. Len(d.groups) BY <3>1 DEF Groups
    <3>3. d.groups[g] \in GroupSet BY <3>1, <3>2, ElementOfSeq
    <3>4. kind \in Kinds BY <3>3 DEF GroupSet
    <3> QED BY <3>4, Declared
  <2>5. c.groups[g].kind = "raw" \/ <<g, i>> \in unhooked BY <2>2
  <2>6. SizedBut(c, unhooked) BY <1>2, <2>2, <2>3 DEF Sized, SizedBut
  <2> HIDE DEF c, unhooked
  <2>7. SizedBut(f, unhooked) /\ SameSetUp(f, c) /\ f.hooks = c.hooks BY <2>2, <2>4, <2>5, <2>6, RoutingSizes
  <2>8. SameParts(f, c) BY <2>2, <2>4, RoutingKeeps
  <2>9. DOMAIN f = DOMAIN NewDevice BY <2>2, <2>8 DEF SameParts
  <2> HIDE DEF f
  <2> DEFINE x == OnControl(f, d.numIfs, <<g, i>>)
             y == Insert(f.alts, d.numIfs, <<g, i>>)
             z == f.hooks \cup {<<g, i>>}
  <2>10. e = IF f.raised \/ kind = "raw" THEN f ELSE [f EXCEPT !.ctrl = x, !.alts = y, !.hooks = z]
    BY <1>2 DEF AttachInterface, c, f
  <2> HIDE DEF x, y, e, kind
  <2>11. CASE f.raised
    <3>1. e = f BY <2>10, <2>11
    <3> QED BY <2>3, <2>7, <2>11, <3>1 DEF SameSetUp, e
  <2>12. CASE ~f.raised /\ kind = "raw"
    <3>1. e = f /\ unhooked = {} BY <2>10, <2>12 DEF unhooked
    <3> QED BY <2>3, <2>7, <3>1 DEF SameSetUp, Sized, e
  <2>13. CASE ~f.raised /\ kind # "raw"
    <3>1. e = [f EXCEPT !.ctrl = x, !.alts = y, !.hooks = z] /\ unhooked = {<<g, i>>}
      BY <2>10, <2>13 DEF unhooked
    <3> HIDE DEF z
    <3>2. e.hooks = z /\ e.sized = f.sized /\ e.addr = f.addr /\ e.speed = f.speed /\ SameSetUp(e, f)
      BY <2>9, <3>1 DEF NewDevice, SameSetUp
    <3>3. e.hooks = f.hooks \cup unhooked BY <3>1, <3>2 DEF z
    <3>4. Sized(e) BY <2>7, <3>2, <3>3 DEF Sized, SizedBut
    <3> QED BY <2>3, <2>7, <3>2, <3>4 DEF SameSetUp, e
  <2> QED BY <2>11, <2>12, <2>13
<1> QED BY <1>1, <1>2

\* A number claimed follows the last one.
LEMMA ClaimingRow ==
    ASSUME NEW d, DeviceParts(d), NEW g \in Groups(d), InRow(d), ClaimedLast(d, g)
    PROVE  LET c == ClaimInterface(d, g) IN InRow(c) /\ ClaimedLast(c, g)
<1> DEFINE c == ClaimInterface(d, g)
           n == d.numIfs
           s == d.groups[g].ifs
           t == Append(s, n)
<1>1. /\ c.numIfs = n + 1 /\ Groups(c) = Groups(d) /\ s \in Seq(Nat) /\ n \in Nat /\ c.groups[g].ifs = t
      /\ \A h \in Groups(d) : h # g => c.groups[h] = d.groups[h]
  BY ClaimedIs
<1> HIDE DEF c, n
<1>2. /\ Len(t) = Len(s) + 1 /\ Len(s) \in Nat /\ DOMAIN s = 1 .. Len(s)
      /\ DOMAIN t = DOMAIN s \cup {Len(s) + 1}
      /\ t[Len(s) + 1] = n /\ \A j \in DOMAIN s : t[j] = s[j]
  BY <1>1, LastAppended
<1>3. s # <<>> => s[Len(s)] = n - 1 BY DEF ClaimedLast, n
<1>4. \A k \in DOMAIN s : s[k] = s[1] + k - 1 BY DEF InRow
<1>5. s = <<>> <=> Len(s) = 0
  <2> HIDE DEF s
  <2> QED BY <1>1, EmptySeq
<1> HIDE DEF t
<1>6. \A k \in DOMAIN t : t[k] = t[1] + k - 1
  <2>1. TAKE k \in DOMAIN t
  <2>2. CASE Len(s) = 0
    <3>1. k = 1 /\ t[1] = n BY <1>2, <2>2
    <3> QED BY <1>1, <3>1
  <2>3. CASE Len(s) # 0
    <3> HIDE DEF s
    <3>1. 1 \in DOMAIN s /\ Len(s) \in DOMAIN s /\ t[1] = s[1] BY <1>2, <2>3
    <3>2. s[1] \in Nat BY <1>1, <1>2, <3>1, ElementOfSeq
    <3>3. n - 1 = s[1] + Len(s) - 1 BY <1>3, <1>4, <1>5, <2>3, <3>1
    <3>4. CASE k \in DOMAIN s BY <1>2, <1>4, <3>1, <3>4
    <3>5. CASE k = Len(s) + 1
      <4>1. t[k] = n /\ t[1] = s[1] BY <1>2, <3>1, <3>5
      <4>0. n \in Nat /\ Len(s) \in Nat /\ s[1] \in Nat BY <1>1, <1>2, <3>2
      <4>2. n = s[1] + Len(s) BY ONLY <4>0, <3>3
      <4>3. s[1] + Len(s) = s[1] + k - 1 BY ONLY <4>0, <3>5
      <4> QED BY <4>1, <4>2, <4>3
    <3> QED BY <1>2, <3>4, <3>5
  <2> QED BY <2>2, <2>3
<1>7. ASSUME NEW m \in 0 .. c.numIfs - 1 PROVE \E h \in Groups(c) : m \in IfsOf(c, h)
  <2>1. CASE m = n
    <3>1. Len(s) + 1 \in DOMAIN t /\ t[Len(s) + 1] = n BY <1>2
    <3>2. n \in IfsOf(c, g) BY <1>1, <3>1 DEF IfsOf
    <3> QED BY <1>1, <2>1, <3>2
  <2>2. CASE m # n
    <3>1. m \in 0 .. n - 1 BY <1>1, <2>2
    <3>2. PICK h \in Groups(d) : m \in IfsOf(d, h) BY <3>1 DEF InRow, n
    <3>3. CASE h # g
      <4>1. m \in IfsOf(c, h) BY <1>1, <3>2, <3>3 DEF IfsOf
      <4> QED BY <1>1, <4>1
    <3>4. CASE h = g
      <4>1. PICK j \in DOMAIN s : m = s[j] BY <3>2, <3>4 DEF IfsOf
      <4>2. j \in DOMAIN t /\ t[j] = m BY <1>2, <4>1
      <4>3. m \in IfsOf(c, g) BY <1>1, <4>2 DEF IfsOf
      <4> QED BY <1>1, <4>3
    <3> QED BY <3>3, <3>4
  <2> QED BY <2>1, <2>2
<1>8. ASSUME NEW h \in Groups(c)
      PROVE  \A k \in DOMAIN c.groups[h].ifs : c.groups[h].ifs[k] = c.groups[h].ifs[1] + k - 1
  <2>1. CASE h = g BY <1>1, <1>6, <2>1
  <2>2. CASE h # g BY <1>1, <2>2 DEF InRow
  <2> QED BY <2>1, <2>2
<1>9. InRow(c) BY <1>7, <1>8 DEF InRow
<1>10. t[Len(t)] = c.numIfs - 1 BY <1>1, <1>2
<1>11. ClaimedLast(c, g) BY <1>1, <1>10 DEF ClaimedLast
<1> QED BY <1>9, <1>11 DEF c

\* Numbers alone make a row.
LEMMA RowKept ==
    ASSUME NEW d, NEW e, InRow(d), e.numIfs = d.numIfs, Groups(e) = Groups(d),
           \A h \in Groups(d) : e.groups[h].ifs = d.groups[h].ifs
    PROVE  InRow(e) /\ \A g \in Groups(d) : ClaimedLast(d, g) => ClaimedLast(e, g)
<1>1. \A h \in Groups(d) : IfsOf(e, h) = IfsOf(d, h) BY DEF IfsOf
<1>2. InRow(e) BY <1>1 DEF InRow
<1>3. ASSUME NEW g \in Groups(d), ClaimedLast(d, g) PROVE ClaimedLast(e, g) BY <1>3 DEF ClaimedLast
<1> QED BY <1>2, <1>3

\* What attaching interfaces to function g leaves as it was, and what it keeps right.
AttachedRight(e, d, g) ==
    /\ SameSetUp(e, d) /\ e.strings = d.strings
    /\ ~e.raised => Sized(e)
    /\ InRow(e) /\ ClaimedLast(e, g)

LEMMA AttachingShapes ==
    ASSUME NEW d, DeviceParts(d), NEW g \in Groups(d), NEW i \in 1 .. Len(InterfacesOf[d.groups[g].kind]),
           ~d.raised => Sized(d), InRow(d), ClaimedLast(d, g)
    PROVE  AttachedRight(AttachInterface(d, g, i), d, g)
<1> DEFINE c == ClaimInterface(d, g)
           e == AttachInterface(d, g, i)
<1>1. CASE d.raised BY <1>1 DEF AttachInterface, AttachedRight, SameSetUp
<1>2. CASE ~d.raised
  <2>1. DOMAIN d = DOMAIN NewDevice /\ d.groups \in Seq(GroupSet) BY DEF DeviceParts, PartsTyped
  <2>2. c.strings = d.strings BY <2>1 DEF ClaimInterface, NewDevice
  <2>3. Groups(c) = Groups(d) BY ClaimedIs
  <2>4. InRow(c) /\ ClaimedLast(c, g) BY ClaimingRow
  <2>5. SameParts(e, c) BY <1>2, <2>1, AttachingClaims DEF Groups
  <2>6. SameSetUp(e, d) /\ (~e.raised => Sized(e)) BY AttachingSizes
  <2> HIDE DEF c, e
  <2>7. e.numIfs = c.numIfs /\ Groups(e) = Groups(c) /\ e.strings = c.strings
        /\ \A h \in Groups(c) : e.groups[h].ifs = c.groups[h].ifs
    BY <2>5 DEF SameParts, Groups
  <2>8. InRow(e) /\ \A h \in Groups(c) : ClaimedLast(c, h) => ClaimedLast(e, h)
    BY <2>4, <2>7, RowKept
  <2>9. ClaimedLast(e, g) BY <2>3, <2>4, <2>8
  <2>10. e.strings = d.strings BY <2>2, <2>7
  <2> QED BY <2>6, <2>8, <2>9, <2>10 DEF AttachedRight, e
<1> QED BY <1>1, <1>2

LEMMA AttachingAllShapes ==
    ASSUME NEW d, DeviceParts(d), ~d.raised, NEW g \in Groups(d), g # 1 => d.groups[1].ifs # <<>>,
           Sized(d), InRow(d), d.groups[g].ifs = <<>>
    PROVE  AttachedRight(AttachInterfaces(d, g), d, g)
<1> DEFINE n == Len(InterfacesOf[d.groups[g].kind])
           a == AttachInterface(d, g, 1)
           b == AttachInterface(a, g, 2)
           c == AttachInterface(b, g, 3)
           Done(e) == AttachedRight(e, d, g)
<1>1. n \in 1 .. 3
  <2>1. d.groups \in Seq(GroupSet) BY DEF DeviceParts, PartsTyped
  <2>2. g \in 1 .. Len(d.groups) BY <2>1 DEF Groups
  <2>3. d.groups[g] \in GroupSet BY <2>1, <2>2, ElementOfSeq
  <2>4. d.groups[g].kind \in Kinds BY <2>3 DEF GroupSet
  <2> QED BY <2>4, Declared
<1>2. AttachInterfaces(d, g) = Rungs(d, a, b, c)[n]
  <2>1. Len(InterfacesOf[d.groups[g].kind]) \in 0 .. 3 BY <1>1
  <2> QED BY <2>1, InterfacesInTurn
<1>3. ASSUME NEW e, NEW i \in 1 .. n, Done(e), DeviceParts(e), g \in Groups(e),
             e.groups[g].kind = d.groups[g].kind
      PROVE  Done(AttachInterface(e, g, i))
  <2> DEFINE f == AttachInterface(e, g, i)
  <2>1. i \in 1 .. Len(InterfacesOf[e.groups[g].kind]) BY <1>3
  <2>2. (~e.raised => Sized(e)) /\ InRow(e) /\ ClaimedLast(e, g) BY <1>3 DEF AttachedRight
  <2> HIDE DEF Done, a, b, c, n
  <2>3. AttachedRight(f, e, g) BY <1>3, <2>1, <2>2, AttachingShapes
  <2> HIDE DEF f
  <2>4. AttachedRight(f, d, g)
    <3>1. AttachedRight(e, d, g) BY <1>3 DEF Done
    <3> QED BY <2>3, <3>1 DEF AttachedRight, SameSetUp
  <2> QED BY <2>4 DEF Done, f
<1>4. Done(d) BY DEF AttachedRight, SameSetUp, ClaimedLast
<1>5. Grown(a, d, g) /\ Done(a)
  <2>1. 1 \in 1 .. n
    <3> HIDE DEF n
    <3> QED BY <1>1
  <2>2. Grown(a, d, g) BY <2>1, AttachingGrows
  <2> HIDE DEF n, Done
  <2> QED BY <1>3, <1>4, <2>1, <2>2
<1> HIDE DEF a, Done
<1>6. n >= 2 => Grown(b, d, g) /\ Done(b)
  <2>1. SUFFICES ASSUME n >= 2 PROVE Grown(b, d, g) /\ Done(b) OBVIOUS
  <2>2. 2 \in 1 .. n BY <1>1, <2>1
  <2>3. Grown(b, d, g) BY <1>5, <2>2, GrowingOn
  <2>4. DeviceParts(a) /\ g \in Groups(a) /\ a.groups[g].kind = d.groups[g].kind BY <1>5 DEF Grown, Groups
  <2> HIDE DEF n
  <2> QED BY <1>3, <1>5, <2>2, <2>3, <2>4
<1> HIDE DEF b
<1>7. n >= 3 => Done(c)
  <2>1. SUFFICES ASSUME n >= 3 PROVE Done(c) OBVIOUS
  <2>2. 3 \in 1 .. n /\ n >= 2 BY <1>1, <2>1
  <2>3. DeviceParts(b) /\ g \in Groups(b) /\ b.groups[g].kind = d.groups[g].kind
    BY <1>6, <2>2 DEF Grown, Groups
  <2> HIDE DEF n
  <2> QED BY <1>3, <1>6, <2>2, <2>3
<1> HIDE DEF c, n
<1>8. Done(Rungs(d, a, b, c)[n])
  <2>1. CASE n = 1 BY <1>5, <2>1 DEF Rungs
  <2>2. CASE n = 2 BY <1>6, <2>2 DEF Rungs
  <2>3. CASE n = 3 BY <1>7, <2>3 DEF Rungs
  <2> QED BY <1>1, <2>1, <2>2, <2>3
<1> QED BY <1>2, <1>8 DEF Done

LEMMA ShortLists ==
    ASSUME NEW L, NEW x \in L, NEW y \in L
    PROVE  /\ <<x>> \in Seq(L) /\ Len(<<x>>) = 1 /\ <<x>>[1] = x
           /\ <<x, y>> \in Seq(L) /\ Len(<<x, y>>) = 2 /\ <<x, y>>[1] = x /\ <<x, y>>[2] = y
OBVIOUS

\* Labels go to the end of the strings.
LEMMA LabelsAdded ==
    ASSUME NEW strings \in Seq(Nat \X Nat), NEW g \in Nat, NEW kind
    PROVE  LET s == strings \o Labels(g, kind)
               n == Len(strings)
           IN  /\ n \in Nat /\ Len(s) \in Nat /\ Len(s) <= n + 2
               /\ \A i \in DOMAIN strings : i \in DOMAIN s /\ s[i] = strings[i]
               /\ Labels(g, kind) # <<>> =>
                      /\ kind \in {"cdc", "msc", "dfu"}
                      /\ n + 1 \in DOMAIN s /\ s[n + 1] = <<g, 0>>
                      /\ kind = "dfu" => n + 2 \in DOMAIN s /\ s[n + 2] = <<g, 1>>
<1> DEFINE L == Nat \X Nat
           labels == Labels(g, kind)
           s == strings \o labels
           n == Len(strings)
<1>1. <<g, 0>> \in L /\ <<g, 1>> \in L OBVIOUS
<1>2. /\ kind \in {"cdc", "msc"} => labels = <<<<g, 0>>>>
      /\ kind = "dfu" => labels = <<<<g, 0>>, <<g, 1>>>>
      /\ kind \notin {"cdc", "msc", "dfu"} => labels = <<>>
  BY DEF Labels
<1> DEFINE a == <<g, 0>>
           b == <<g, 1>>
<1>3. kind \in {"cdc", "msc"} => labels = <<a>> BY <1>2
<1>4. kind = "dfu" => labels = <<a, b>> BY <1>2
<1>5. a \in L /\ b \in L BY <1>1
<1> HIDE DEF a, b, labels
<1>6. /\ labels \in Seq(L) /\ Len(labels) \in 0 .. 2
      /\ labels # <<>> => kind \in {"cdc", "msc", "dfu"} /\ Len(labels) >= 1 /\ labels[1] = a
      /\ kind = "dfu" => Len(labels) = 2 /\ labels[2] = b
  <2> HIDE DEF L
  <2>0. /\ <<a>> \in Seq(L) /\ Len(<<a>>) = 1 /\ <<a>>[1] = a
        /\ <<a, b>> \in Seq(L) /\ Len(<<a, b>>) = 2 /\ <<a, b>>[1] = a /\ <<a, b>>[2] = b
    BY <1>5, ShortLists
  <2>1. CASE kind \in {"cdc", "msc"}
    <3>1. labels \in Seq(L) /\ Len(labels) = 1 /\ labels[1] = a BY <1>3, <2>0, <2>1
    <3> QED BY <2>1, <3>1
  <2>2. CASE kind = "dfu"
    <3>1. labels \in Seq(L) /\ Len(labels) = 2 /\ labels[1] = a /\ labels[2] = b BY <1>4, <2>0, <2>2
    <3> QED BY <2>2, <3>1
  <2>3. CASE kind \notin {"cdc", "msc", "dfu"} BY <1>2, <2>3
  <2> QED BY <2>1, <2>2, <2>3
<1> HIDE DEF L
<1>7. strings \in Seq(L) BY DEF L
<1>8. /\ s \in Seq(L) /\ Len(s) = n + Len(labels) /\ n \in Nat
      /\ \A i \in 1 .. Len(s) : s[i] = IF i <= n THEN strings[i] ELSE labels[i - n]
  BY <1>6, <1>7, ConcatProperties
<1>9. DOMAIN strings = 1 .. n BY <1>7
<1> HIDE DEF s
<1>10. DOMAIN s = 1 .. Len(s) BY <1>8
<1> HIDE DEF n
<1>11. \A i \in DOMAIN strings : i \in DOMAIN s /\ s[i] = strings[i] BY <1>6, <1>8, <1>9, <1>10
<1>12. ASSUME labels # <<>> PROVE n + 1 \in DOMAIN s /\ s[n + 1] = a
  <2>1. n + 1 \in 1 .. Len(s) BY <1>6, <1>8, <1>12
  <2>2. s[n + 1] = labels[1] BY <1>8, <2>1
  <2> QED BY <1>6, <1>10, <1>12, <2>1, <2>2
<1>13. ASSUME kind = "dfu" PROVE n + 2 \in DOMAIN s /\ s[n + 2] = b
  <2>0. Len(labels) = 2 /\ Len(s) = n + Len(labels) /\ n \in Nat BY <1>6, <1>8, <1>13
  <2>1. n + 2 \in 1 .. Len(s) BY <2>0
  <2>2. s[n + 2] = labels[2] BY <1>8, <2>1
  <2> QED BY <1>6, <1>10, <1>13, <2>1, <2>2
<1>14. n \in Nat /\ Len(s) \in Nat /\ Len(s) <= n + 2 BY <1>6, <1>8
<1> QED BY <1>6, <1>11, <1>12, <1>13, <1>14 DEF a, b, s, n, labels

\* What _on_added changes of all that.
SameSizes(e, d) ==
    e.addr = d.addr /\ e.sized = d.sized /\ e.hooks = d.hooks /\ e.speed = d.speed /\ e.composite = d.composite

LEMMA OnAddedIs ==
    ASSUME NEW d, DeviceParts(d), NEW g \in Groups(d)
    PROVE  LET e == OnAdded(d, g)
               kind == d.groups[g].kind
           IN  /\ SameSizes(e, d)
               /\ e.triple = d.triple \/ (kind = "cdc" /\ ~d.composite)
               /\ e.strings = d.strings \o Labels(g, kind)
               /\ e.groups[g].string = IF Labels(g, kind) = <<>> THEN 0 ELSE Len(d.strings) + 1
               /\ \A h \in Groups(d) : h # g => e.groups[h] = d.groups[h]
<1> DEFINE kind == d.groups[g].kind
           own == OwnCompatible(kind)
           string == IF Labels(g, kind) = <<>> THEN 0 ELSE Len(d.strings) + 1
           strings == d.strings \o Labels(g, kind)
           r == [d.groups[g] EXCEPT !.string = string]
           x == [d.groups EXCEPT ![g] = r]
           e == [d EXCEPT !.groups[g].string = string, !.strings = strings]
           f == OnAdded(d, g)
           t == [e EXCEPT !.triple = "cdc"]
           entry == [scope |-> g, compatible |-> own[1]]
           replaced == [i \in DOMAIN e.msos |-> IF e.msos[i].scope = g THEN entry ELSE e.msos[i]]
           longer == Append(e.msos, entry)
<1>1. d.groups \in Seq(GroupSet) /\ DOMAIN d = DOMAIN NewDevice BY DEF DeviceParts, PartsTyped
<1>2. d.groups[g] \in GroupSet
  <2>1. g \in 1 .. Len(d.groups) BY <1>1 DEF Groups
  <2> QED BY <1>1, <2>1, ElementOfSeq
<1>3. \/ f = e
      \/ f = [e EXCEPT !.triple = "cdc"] /\ kind = "cdc" /\ ~e.composite
      \/ f = [e EXCEPT !.msos = replaced, !.bcdUSB = 21]
      \/ f = [e EXCEPT !.msos = longer, !.bcdUSB = 21]
  <2>1. f = IF kind = "cdc" /\ ~d.composite THEN SetDeviceTriple(e, "cdc")
            ELSE IF own # <<>> THEN EnableMsos(e, g, own[1]) ELSE e
    BY DEF OnAdded
  <2>2. \/ EnableMsos(e, g, own[1]) = [e EXCEPT !.msos = replaced, !.bcdUSB = 21]
        \/ EnableMsos(e, g, own[1]) = [e EXCEPT !.msos = longer, !.bcdUSB = 21]
    <3>1. DOMAIN e = DOMAIN NewDevice BY <1>1 DEF NewDevice
    <3> HIDE DEF e
    <3> QED BY <3>1 DEF EnableMsos, NewDevice
  <2>3. SetDeviceTriple(e, "cdc") = IF e.composite THEN e ELSE [e EXCEPT !.triple = "cdc"]
    BY DEF SetDeviceTriple
  <2> HIDE DEF e, f, own, kind, replaced, longer
  <2> QED BY <2>1, <2>2, <2>3
<1>4. e = [d EXCEPT !.groups = x, !.strings = strings] BY <1>1 DEF NewDevice
<1>5. r.string = string BY <1>2 DEF GroupSet
<1> HIDE DEF string, strings, r, own, kind
<1>6. x[g] = r /\ \A h \in Groups(d) : h # g => x[h] = d.groups[h] BY DEF Groups
<1> HIDE DEF x, e
<1>7. /\ DOMAIN e = DOMAIN NewDevice /\ SameSizes(e, d) /\ e.triple = d.triple /\ e.strings = strings
      /\ e.groups = x
  BY <1>1, <1>4 DEF NewDevice, SameSizes
<1> HIDE DEF f, replaced, longer, entry
<1>8. /\ SameSizes(f, e) /\ (f.triple = e.triple \/ (kind = "cdc" /\ ~e.composite))
      /\ f.strings = e.strings /\ f.groups = e.groups
  BY <1>3, <1>7 DEF NewDevice, SameSizes
<1>9. SameSizes(f, d) /\ (f.triple = d.triple \/ (kind = "cdc" /\ ~d.composite)) BY <1>3, <1>7, <1>8 DEF SameSizes, NewDevice
<1> QED BY <1>5, <1>6, <1>7, <1>8, <1>9 DEF f, kind, string, strings

LEMMA BlockedIs ==
    ASSUME NEW d, DeviceParts(d), NEW g \in Groups(d)
    PROVE  LET e == [d EXCEPT !.groups[g].block = TRUE]
           IN  /\ DeviceParts(e) /\ Groups(e) = Groups(d) /\ SameSizes(e, d) /\ e.triple = d.triple
               /\ e.strings = d.strings /\ e.numIfs = d.numIfs
               /\ e.groups[g].ifs = d.groups[g].ifs /\ e.groups[g].kind = d.groups[g].kind
               /\ \A h \in Groups(d) : h # g => e.groups[h] = d.groups[h]
<1> DEFINE r == [d.groups[g] EXCEPT !.block = TRUE]
           x == [d.groups EXCEPT ![g] = r]
           e == [d EXCEPT !.groups[g].block = TRUE]
<1>1. d.groups \in Seq(GroupSet) /\ DOMAIN d = DOMAIN NewDevice /\ d.strings \in Seq(Nat \X Nat)
  BY DEF DeviceParts, PartsTyped
<1>2. d.groups[g] \in GroupSet
  <2>1. g \in 1 .. Len(d.groups) BY <1>1 DEF Groups
  <2> QED BY <1>1, <2>1, ElementOfSeq
<1>3. r \in GroupSet /\ r.ifs = d.groups[g].ifs /\ r.kind = d.groups[g].kind BY <1>2 DEF GroupSet
<1>4. e = [d EXCEPT !.groups = [@ EXCEPT ![g] = r], !.strings = d.strings] BY <1>1 DEF NewDevice
<1>5. e = [d EXCEPT !.groups = x] BY <1>1 DEF NewDevice
<1>6. DeviceParts(e)
  <2> HIDE DEF r, e
  <2>1. SameNumbers(e, d) BY <1>1, <1>3, <1>4, ChangingGroupKeeps
  <2> QED BY <2>1, SameNumbersKept
<1> HIDE DEF r
<1>7. DOMAIN x = DOMAIN d.groups /\ x[g] = r /\ \A h \in Groups(d) : h # g => x[h] = d.groups[h] BY DEF Groups
<1> HIDE DEF x, e
<1>8. /\ SameSizes(e, d) /\ e.triple = d.triple /\ e.strings = d.strings /\ e.numIfs = d.numIfs /\ e.groups = x
  BY <1>1, <1>5 DEF NewDevice, SameSizes
<1> QED BY <1>3, <1>6, <1>7, <1>8 DEF Groups, e

LEMMA OpeningShapes ==
    ASSUME NEW d, DeviceParts(d), NEW kind \in Kinds
    PROVE  LET e == Opened(d, kind)
           IN  SameSizes(e, d) /\ e.triple = IF d.composite THEN d.triple ELSE TripleOf(d, kind)
<1> DEFINE new == [kind |-> kind, ifs |-> <<>>, block |-> FALSE, string |-> 0]
           longer == Append(d.groups, new)
           t == TripleOf(d, kind)
           e == Opened(d, kind)
           c == [d EXCEPT !.groups = longer]
<1>1. DOMAIN d = DOMAIN NewDevice BY DEF DeviceParts, PartsTyped
<1>2. e = SetDeviceTriple(c, t) BY DEF Opened
<1> HIDE DEF new, longer, t, e
<1>3. DOMAIN c = DOMAIN NewDevice /\ SameSizes(c, d) /\ c.triple = d.triple /\ c.composite = d.composite
  BY <1>1 DEF NewDevice, SameSizes
<1> HIDE DEF c
<1>4. CASE c.composite
  <2>1. e = c BY <1>2, <1>4 DEF SetDeviceTriple
  <2> QED BY <1>3, <1>4, <2>1 DEF e, t
<1>5. CASE ~c.composite
  <2>1. e = [c EXCEPT !.triple = t] BY <1>2, <1>5 DEF SetDeviceTriple
  <2>2. SameSizes(e, c) /\ e.triple = t BY <1>3, <2>1 DEF NewDevice, SameSizes
  <2> QED BY <1>3, <1>5, <2>2 DEF SameSizes, e, t
<1> QED BY <1>4, <1>5

\* The labels of the functions before, and those of the new one.
LEMMA AddingLabels ==
    ASSUME NEW d, DeviceParts(d), Labelled(d), NEW kind, NEW g \in Nat, g > 0,
           Groups(d) = 1 .. (g - 1), NEW e, DeviceParts(e), Groups(e) = Groups(d) \cup {g},
           e.groups[g].kind = kind, e.strings = d.strings \o Labels(g, kind),
           e.groups[g].string = IF Labels(g, kind) = <<>> THEN 0 ELSE Len(d.strings) + 1,
           \A h \in Groups(d) : e.groups[h] = d.groups[h]
    PROVE  Labelled(e)
<1> DEFINE n == Len(d.strings)
           s == d.strings \o Labels(g, kind)
<1>1. /\ d.groups \in Seq(GroupSet) /\ e.groups \in Seq(GroupSet) /\ d.strings \in Seq(Nat \X Nat)
  BY DEF DeviceParts, PartsTyped
<1>2. Len(d.groups) = g - 1 /\ Len(e.groups) = g
  <2>1. DOMAIN d.groups = 1 .. (g - 1) /\ DOMAIN e.groups = 1 .. g BY DEF Groups
  <2> QED BY <1>1, <2>1
<1>3. /\ n \in Nat /\ Len(s) \in Nat /\ Len(s) <= n + 2
      /\ \A i \in DOMAIN d.strings : i \in DOMAIN s /\ s[i] = d.strings[i]
      /\ Labels(g, kind) # <<>> =>
             /\ kind \in {"cdc", "msc", "dfu"}
             /\ n + 1 \in DOMAIN s /\ s[n + 1] = <<g, 0>>
             /\ kind = "dfu" => n + 2 \in DOMAIN s /\ s[n + 2] = <<g, 1>>
  BY <1>1, LabelsAdded
<1>4. e.strings = s OBVIOUS
<1>5. n <= 2 * (g - 1) BY <1>2 DEF Labelled
<1> HIDE DEF s, n
<1>6. Len(e.strings) <= 2 * Len(e.groups) BY <1>2, <1>3, <1>4, <1>5
<1> DEFINE Right(h) ==
               LET x == e.groups[h].string
               IN  x # 0 => /\ e.groups[h].kind \in {"cdc", "msc", "dfu"}
                            /\ x \in DOMAIN e.strings /\ e.strings[x] = <<h, 0>>
                            /\ e.groups[h].kind = "dfu" => x + 1 \in DOMAIN e.strings /\ e.strings[x + 1] = <<h, 1>>
<1>7. ASSUME NEW h \in Groups(d) PROVE Right(h)
  <2>1. e.groups[h] = d.groups[h] BY <1>7
  <2> SUFFICES ASSUME d.groups[h].string # 0 PROVE Right(h) BY <2>1
  <2>2. /\ d.groups[h].kind \in {"cdc", "msc", "dfu"}
        /\ d.groups[h].string \in DOMAIN d.strings /\ d.strings[d.groups[h].string] = <<h, 0>>
        /\ d.groups[h].kind = "dfu" => /\ d.groups[h].string + 1 \in DOMAIN d.strings
                                       /\ d.strings[d.groups[h].string + 1] = <<h, 1>>
    BY <1>7 DEF Labelled
  <2> QED BY <1>3, <1>4, <2>1, <2>2
<1>8. Right(g)
  <2>1. CASE Labels(g, kind) = <<>>
    <3>1. e.groups[g].string = 0 BY <2>1
    <3> QED BY <3>1
  <2>2. CASE Labels(g, kind) # <<>>
    <3>1. e.groups[g].string = n + 1 BY <2>2 DEF n
    <3>2. n + 1 + 1 = n + 2 BY <1>3
    <3> QED BY <1>3, <1>4, <2>2, <3>1, <3>2
  <2> QED BY <2>1, <2>2
<1>9. \A h \in Groups(e) : Right(h) BY <1>7, <1>8
<1> QED BY <1>6, <1>9 DEF Labelled

\* Function._attach.
LEMMA AddingShapes ==
    ASSUME NEW d, DeviceParts(d), ~d.raised, NEW kind \in Kinds,
           \A h \in Groups(d) : d.groups[h].ifs # <<>>, Shaped(d), Len(d.groups) < MaxFunctions
    PROVE  LET e == Attach(d, kind) IN ~e.raised => Shaped(e)
<1> DEFINE g == Len(d.groups) + 1
           named == Opened(d, kind)
           all == AttachInterfaces(named, g)
           blocked == [all EXCEPT !.groups[g].block = TRUE]
           e == OnAdded(blocked, g)
<1>1. Attach(d, kind) = IF all.raised THEN all ELSE e BY DEF Attach, Opened
<1>2. /\ named.groups \in Seq(GroupSet)
      /\ Groups(named) = Groups(d) \cup {g} /\ g \notin Groups(d) /\ g \in Nat /\ g > 0
      /\ Groups(d) = 1 .. (g - 1)
      /\ \A h \in Groups(d) : named.groups[h] = d.groups[h]
      /\ named.groups[g].kind = kind /\ named.groups[g].ifs = <<>>
      /\ named.raised = d.raised /\ named.strings = d.strings /\ named.numIfs = d.numIfs
  BY OpeningIs
<1>3. DeviceParts(named) BY OpeningKeeps
<1>4. SameSizes(named, d) /\ named.triple = IF d.composite THEN d.triple ELSE TripleOf(d, kind)
  BY OpeningShapes
<1>4a. Len(d.groups) = g - 1 /\ g <= MaxFunctions
  <2>1. d.groups \in Seq(GroupSet) BY DEF DeviceParts, PartsTyped
  <2>2. Len(d.groups) \in Nat BY <2>1
  <2> QED BY <2>2, CompositionAssumption
<1> HIDE DEF named, g
<1>5. g # 1 => named.groups[1].ifs # <<>>
  <2>1. SUFFICES ASSUME g # 1 PROVE named.groups[1].ifs # <<>> OBVIOUS
  <2>2. 1 \in Groups(d) BY <1>2, <2>1
  <2> QED BY <1>2, <2>2
<1>6. Sized(named) BY <1>4 DEF Shaped, Sized, SizedBut, SameSizes
<1>7. InRow(named)
  <2>1. \A h \in Groups(d) : IfsOf(named, h) = IfsOf(d, h) BY <1>2 DEF IfsOf
  <2>2. \A n \in 0 .. named.numIfs - 1 : \E h \in Groups(named) : n \in IfsOf(named, h)
    BY <1>2, <2>1 DEF Shaped, InRow
  <2>3. ASSUME NEW h \in Groups(named)
        PROVE  \A k \in DOMAIN named.groups[h].ifs : named.groups[h].ifs[k] = named.groups[h].ifs[1] + k - 1
    <3>1. CASE h = g
      <4>1. DOMAIN named.groups[h].ifs = {} BY <1>2, <3>1
      <4> QED BY <4>1
    <3>2. CASE h # g BY <1>2, <3>2 DEF Shaped, InRow
    <3> QED BY <3>1, <3>2
  <2> QED BY <2>2, <2>3 DEF InRow
<1>8. g \in Groups(named) BY <1>2
<1>9. Grown(all, named, g) BY <1>2, <1>3, <1>5, <1>8, AttachingAllGrows
<1>10. AttachedRight(all, named, g) BY <1>2, <1>3, <1>5, <1>6, <1>7, <1>8, AttachingAllShapes
<1> HIDE DEF all
<1> SUFFICES ASSUME ~all.raised PROVE Shaped(e) BY <1>1
<1>11. DeviceParts(all) /\ g \in Groups(all) /\ Groups(all) = Groups(named) /\ all.groups[g].kind = kind
       /\ \A h \in Groups(d) : all.groups[h] = d.groups[h]
  BY <1>2, <1>8, <1>9 DEF Grown, Groups
<1>12. /\ DeviceParts(blocked) /\ Groups(blocked) = Groups(all) /\ SameSizes(blocked, all)
       /\ blocked.triple = all.triple /\ blocked.strings = all.strings /\ blocked.numIfs = all.numIfs
       /\ blocked.groups[g].ifs = all.groups[g].ifs /\ blocked.groups[g].kind = all.groups[g].kind
       /\ \A h \in Groups(all) : h # g => blocked.groups[h] = all.groups[h]
  BY <1>11, BlockedIs
<1> HIDE DEF blocked
<1>13. g \in Groups(blocked) /\ blocked.groups[g].kind = kind BY <1>11, <1>12
<1>14. /\ SameSizes(e, blocked)
       /\ e.triple = blocked.triple \/ (kind = "cdc" /\ ~blocked.composite)
       /\ e.strings = blocked.strings \o Labels(g, kind)
       /\ e.groups[g].string = IF Labels(g, kind) = <<>> THEN 0 ELSE Len(blocked.strings) + 1
       /\ \A h \in Groups(blocked) : h # g => e.groups[h] = blocked.groups[h]
  BY <1>12, <1>13, OnAddedIs
<1>15. DeviceParts(e) /\ SameWires(e, blocked)
  BY <1>12, <1>13, OnAddedKeeps, OnAddedAlike DEF Alike
<1> HIDE DEF e
<1>16. Groups(e) = Groups(d) \cup {g} /\ e.groups[g].kind = kind
       /\ \A h \in Groups(d) : e.groups[h] = d.groups[h]
  BY <1>2, <1>11, <1>12, <1>13, <1>14, <1>15 DEF SameWires
<1>17. Labelled(e)
  <2>1. blocked.strings = d.strings BY <1>2, <1>10, <1>12 DEF AttachedRight
  <2>2. e.strings = d.strings \o Labels(g, kind) BY <1>14, <2>1
  <2>3. e.groups[g].string = IF Labels(g, kind) = <<>> THEN 0 ELSE Len(d.strings) + 1 BY <1>14, <2>1
  <2>4. Labelled(d) BY DEF Shaped
  <2> QED BY <1>2, <1>15, <1>16, <2>2, <2>3, <2>4, AddingLabels
<1>18. Sized(e) BY <1>10, <1>12, <1>14 DEF AttachedRight, Sized, SizedBut, SameSizes
<1>19. InRow(e)
  <2>1. e.numIfs = all.numIfs /\ Groups(e) = Groups(all) BY <1>12, <1>15 DEF SameWires
  <2>2. \A h \in Groups(all) : e.groups[h].ifs = all.groups[h].ifs BY <1>12, <1>15 DEF SameWires
  <2>3. InRow(all) BY <1>10 DEF AttachedRight
  <2> QED BY <2>1, <2>2, <2>3, RowKept
<1>20. e.groups \in Seq(GroupSet) /\ Len(e.groups) = g
  <2>1. e.groups \in Seq(GroupSet) BY <1>15 DEF DeviceParts, PartsTyped
  <2>2. DOMAIN e.groups = 1 .. g BY <1>2, <1>16 DEF Groups
  <2> QED BY <1>2, <2>1, <2>2
<1>21. TripleRight(e)
  <2>1. e.composite = d.composite BY <1>4, <1>10, <1>12, <1>14 DEF SameSizes, AttachedRight, SameSetUp
  <2>2. e.triple = named.triple \/ (kind = "cdc" /\ ~d.composite)
    BY <1>4, <1>10, <1>12, <1>14 DEF SameSizes, AttachedRight, SameSetUp
  <2>3. ASSUME e.composite PROVE e.triple = "misc" BY <1>4, <2>1, <2>2, <2>3 DEF Shaped, TripleRight
  <2>4. ASSUME Len(e.groups) = 1, e.groups[1].kind = "uvc" PROVE e.triple = "misc"
    <3>1. g = 1 /\ kind = "uvc" BY <1>16, <1>20, <2>4
    <3>2. CASE d.composite BY <2>1, <2>3, <3>2
    <3>3. CASE ~d.composite BY <1>4, <2>2, <3>1, <3>3 DEF TripleOf
    <3> QED BY <3>2, <3>3
  <2> QED BY <2>3, <2>4 DEF TripleRight
<1>22. Len(e.groups) <= MaxFunctions BY <1>4a, <1>20
<1> QED BY <1>17, <1>18, <1>19, <1>21, <1>22 DEF Shaped

\* Fields that the shape is about.
SameShape(e, d) ==
    /\ e.groups = d.groups /\ e.numIfs = d.numIfs /\ e.strings = d.strings
    /\ SameSizes(e, d) /\ (e.triple = d.triple \/ e.triple = "misc")

LEMMA ShapeKept ==
    ASSUME NEW d, Shaped(d), NEW e, SameShape(e, d)
    PROVE  Shaped(e)
<1>1. Groups(e) = Groups(d) /\ \A h \in Groups(d) : IfsOf(e, h) = IfsOf(d, h) BY DEF SameShape, Groups, IfsOf
<1>2. InRow(e) BY <1>1 DEF SameShape, Shaped, InRow
<1>3. Sized(e) BY DEF SameShape, SameSizes, Shaped, Sized, SizedBut
<1>4. Labelled(e) BY <1>1 DEF SameShape, Shaped, Labelled
<1>5. TripleRight(e) BY DEF SameShape, SameSizes, Shaped, TripleRight
<1> QED BY <1>2, <1>3, <1>4, <1>5 DEF SameShape, Shaped

LEMMA ShapedStep == FunctionsKept /\ ShapedInv /\ [CompositionNext]_compositionVars => ShapedInv'
<1> SUFFICES ASSUME FunctionsKept, ShapedInv, [CompositionNext]_compositionVars
             PROVE  ShapedState(dev', plugged')
  BY DEF ShapedInv
<1>0. DeviceParts(dev) /\ DOMAIN dev = DOMAIN NewDevice BY DEF FunctionsKept, Kept, DeviceParts, PartsTyped
<1>01. plugged = "no" => Shaped(dev) BY DEF ShapedInv, ShapedState
<1>02. ASSUME NEW e, dev' = e, plugged = "no", plugged' = plugged, Shaped(e) PROVE ShapedState(dev', plugged')
  BY <1>02 DEF ShapedState
<1>1. ASSUME SetComposite PROVE ShapedState(dev', plugged')
  <2> DEFINE e == [dev EXCEPT !.composite = TRUE, !.triple = "misc"]
  <2>1. /\ e.groups = dev.groups /\ e.numIfs = dev.numIfs /\ e.strings = dev.strings /\ e.addr = dev.addr
        /\ e.sized = dev.sized /\ e.speed = dev.speed /\ e.hooks = dev.hooks /\ e.composite
        /\ e.triple = "misc"
    BY <1>0 DEF NewDevice
  <2>2. dev' = e /\ plugged = "no" /\ plugged' = plugged BY <1>1 DEF SetComposite
  <2> HIDE DEF e
  <2>3. Groups(e) = Groups(dev) /\ \A h \in Groups(dev) : IfsOf(e, h) = IfsOf(dev, h) BY <2>1 DEF Groups, IfsOf
  <2>4. Shaped(dev) BY <1>01, <2>2
  <2>5. InRow(e) /\ Labelled(e) BY <2>1, <2>3, <2>4 DEF Shaped, InRow, Labelled
  <2>6. Sized(e) BY <2>1, <2>4 DEF Shaped, Sized, SizedBut
  <2>7. TripleRight(e) /\ Len(e.groups) <= MaxFunctions BY <2>1, <2>4 DEF Shaped, TripleRight
  <2> QED BY <1>02, <2>2, <2>5, <2>6, <2>7 DEF Shaped
<1>2. ASSUME NEW s \in {"full", "high"}, ChangeSpeed(s) PROVE ShapedState(dev', plugged')
  <2> DEFINE sized == [id \in DOMAIN dev.sized |-> IF <<id[1], id[2]>> \in dev.hooks /\ dev.sized[id] # "any"
                                                  THEN s ELSE dev.sized[id]]
             e == [dev EXCEPT !.speed = s, !.sized = sized]
  <2>1. SetSpeed(dev, s) = e BY <1>0 DEF SetSpeed, NewDevice
  <2>2. DOMAIN sized = DOMAIN dev.sized /\ \A id \in DOMAIN sized :
            sized[id] = IF <<id[1], id[2]>> \in dev.hooks /\ dev.sized[id] # "any" THEN s ELSE dev.sized[id]
    OBVIOUS
  <2> HIDE DEF sized
  <2>3. /\ e.groups = dev.groups /\ e.numIfs = dev.numIfs /\ e.strings = dev.strings /\ e.addr = dev.addr
        /\ e.sized = sized /\ e.speed = s /\ e.hooks = dev.hooks /\ e.composite = dev.composite
        /\ e.triple = dev.triple
    BY <1>0 DEF NewDevice
  <2>4. dev' = e /\ plugged = "no" /\ plugged' = plugged BY <1>2, <2>1 DEF ChangeSpeed
  <2> HIDE DEF e
  <2>5. Groups(e) = Groups(dev) /\ \A h \in Groups(dev) : IfsOf(e, h) = IfsOf(dev, h) BY <2>3 DEF Groups, IfsOf
  <2>6. Shaped(dev) BY <1>01, <2>4
  <2>7. InRow(e) /\ Labelled(e) BY <2>3, <2>5, <2>6 DEF Shaped, InRow, Labelled
  <2>8. Sized(e)
    <3>1. DOMAIN e.addr \subseteq DOMAIN e.sized BY <2>2, <2>3, <2>6 DEF Shaped, Sized, SizedBut
    <3>2. ASSUME NEW id \in DOMAIN e.sized
          PROVE  e.sized[id] = "any" \/ (e.sized[id] = e.speed /\ <<id[1], id[2]>> \in e.hooks \cup {})
      <4>1. \/ dev.sized[id] = "any"
            \/ dev.sized[id] = dev.speed /\ <<id[1], id[2]>> \in dev.hooks
        BY <2>2, <2>3, <2>6 DEF Shaped, Sized, SizedBut
      <4>2. e.sized[id] = IF <<id[1], id[2]>> \in dev.hooks /\ dev.sized[id] # "any" THEN s ELSE dev.sized[id]
        BY <2>2, <2>3
      <4> QED BY <2>3, <4>1, <4>2
    <3> QED BY <3>1, <3>2 DEF Sized, SizedBut
  <2>9. TripleRight(e) /\ Len(e.groups) <= MaxFunctions BY <2>3, <2>6 DEF Shaped, TripleRight
  <2> QED BY <1>02, <2>4, <2>7, <2>8, <2>9 DEF Shaped
<1>3. ASSUME NEW kind \in Kinds, Add(kind) PROVE ShapedState(dev', plugged')
  <2>1. /\ dev' = Attach(dev, kind) /\ plugged' = (IF dev'.raised THEN "failed" ELSE "no") /\ plugged = "no"
        /\ ~dev.raised /\ (\A g \in Groups(dev) : dev.groups[g].ifs # <<>>) /\ Len(dev.groups) < MaxFunctions
    BY <1>3 DEF Add, FunctionsKept, Kept
  <2>2. Shaped(dev) BY <1>01, <2>1
  <2>3. ~dev'.raised => Shaped(dev') BY <1>0, <2>1, <2>2, AddingShapes
  <2> QED BY <2>1, <2>3 DEF ShapedState
<1>4. ASSUME NEW e, dev' = e, plugged = "no", plugged' = plugged, SameShape(e, dev)
      PROVE  ShapedState(dev', plugged')
  BY <1>01, <1>02, <1>4, ShapeKept
<1>5. ASSUME NEW scope \in 0 .. MaxFunctions, NEW compatible \in {"WINUSB", "MTP"},
             Advertise(scope, compatible)
      PROVE  ShapedState(dev', plugged')
  <2> DEFINE entry == [scope |-> scope, compatible |-> compatible]
             replaced == [i \in DOMAIN dev.msos |-> IF dev.msos[i].scope = scope THEN entry ELSE dev.msos[i]]
             longer == Append(dev.msos, entry)
             e == EnableMsos(dev, scope, compatible)
  <2>1. e = [dev EXCEPT !.msos = replaced, !.bcdUSB = 21] \/ e = [dev EXCEPT !.msos = longer, !.bcdUSB = 21]
    BY <1>0 DEF EnableMsos, NewDevice
  <2>2. dev' = e /\ plugged = "no" /\ plugged' = plugged BY <1>5 DEF Advertise
  <2> HIDE DEF e, replaced, longer
  <2>3. SameShape(e, dev) BY <1>0, <2>1 DEF NewDevice, SameShape, SameSizes
  <2> QED BY <1>4, <2>2, <2>3
<1>6. ASSUME NEW code \in {33, 34}, AdvertiseWeb(code) PROVE ShapedState(dev', plugged')
  <2> DEFINE e == [dev EXCEPT !.webusb = {code}, !.bcdUSB = 21]
  <2>1. SameShape(e, dev) BY <1>0 DEF NewDevice, SameShape, SameSizes
  <2>2. dev' = e /\ plugged = "no" /\ plugged' = plugged BY <1>6 DEF AdvertiseWeb, EnableWebusb
  <2> HIDE DEF e
  <2> QED BY <1>4, <2>1, <2>2
<1>7. ASSUME SetMsosVendorCodes([v1 |-> 33, v2 |-> 33]) PROVE ShapedState(dev', plugged')
  <2> DEFINE codes == [v1 |-> 33, v2 |-> 33]
             e == [dev EXCEPT !.codes = codes]
  <2>1. dev' = e /\ plugged = "no" /\ plugged' = plugged BY <1>7 DEF SetMsosVendorCodes
  <2> HIDE DEF codes
  <2>2. SameShape(e, dev) BY <1>0 DEF NewDevice, SameShape, SameSizes
  <2> HIDE DEF e
  <2> QED BY <1>4, <2>1, <2>2
<1>8. ASSUME Plug PROVE ShapedState(dev', plugged')
  <2>1. dev' = dev /\ plugged = "no" /\ plugged' = IF EndpointConflict(dev) THEN "refused" ELSE "yes"
    BY <1>8 DEF Plug
  <2>2. Shaped(dev') BY <1>01, <2>1
  <2>3. plugged' = "yes" => ~EndpointConflict(dev') BY <2>1
  <2> QED BY <2>2, <2>3 DEF ShapedState
<1>9. ASSUME UNCHANGED compositionVars PROVE ShapedState(dev', plugged')
  <2>1. dev' = dev /\ plugged' = plugged BY <1>9 DEF compositionVars
  <2>2. ShapedState(dev, plugged) BY DEF ShapedInv
  <2> QED BY <2>1, <2>2
<1> QED BY <1>1, <1>2, <1>3, <1>5, <1>6, <1>7, <1>8, <1>9 DEF CompositionNext

LEMMA NewDeviceShaped == CompositionInit => ShapedInv
<1> DEFINE d == NewDevice
<1>1. /\ d.groups = <<>> /\ d.numIfs = 0 /\ d.addr = <<>> /\ d.sized = <<>> /\ d.strings = <<>>
      /\ d.composite = FALSE
  BY DEF NewDevice
<1> HIDE DEF d
<1>2. Groups(d) = {} /\ Len(d.groups) = 0 /\ Len(d.strings) = 0 BY <1>1 DEF Groups
<1>3. InRow(d) BY <1>1, <1>2 DEF InRow
<1>4. Sized(d)
  <2>1. DOMAIN d.addr = {} /\ DOMAIN d.sized = {} BY <1>1
  <2> QED BY <2>1 DEF Sized, SizedBut
<1>5. Labelled(d) /\ TripleRight(d) BY <1>1, <1>2 DEF Labelled, TripleRight
<1>6. Len(d.groups) <= MaxFunctions BY <1>2, CompositionAssumption
<1>7. Shaped(d) BY <1>3, <1>4, <1>5, <1>6 DEF Shaped
<1> QED BY <1>7 DEF CompositionInit, ShapedInv, ShapedState, d

\* Interface numbers follow one another within a function and over the device, a
\* packet size is that of the speed last set, a label is found under the index that its
\* function keeps, and a device that was plugged has no two interfaces at one address.
THEOREM PartsAreShaped == CompositionSpec => []ShapedInv
<1>1. CompositionInit => FunctionsKept /\ ShapedInv BY NewDeviceKept, NewDeviceShaped
<1>2. FunctionsKept /\ ShapedInv /\ [CompositionNext]_compositionVars => (FunctionsKept /\ ShapedInv)'
  BY FunctionsKeptStep, ShapedStep
<1> QED BY <1>1, <1>2, PTL DEF CompositionSpec

-----------------------------------------------------------------------------
(* The records of a configuration, whatever they say.                      *)

LEMMA RangeJoined ==
    ASSUME NEW a, NEW b, Listed(a), Listed(b)
    PROVE  Listed(a \o b) /\ Range(a \o b) = Range(a) \cup Range(b)
<1> DEFINE T == Range(a) \cup Range(b)
           c == a \o b
<1>1. a \in Seq(T) /\ b \in Seq(T) BY WiderList
<1> HIDE DEF T
<1>2. /\ c \in Seq(T) /\ Len(c) = Len(a) + Len(b)
      /\ \A i \in 1 .. Len(a) : c[i] = a[i]
      /\ \A i \in 1 .. Len(b) : c[Len(a) + i] = b[i]
  BY <1>1
<1>3. Len(a) \in Nat /\ Len(b) \in Nat /\ DOMAIN a = 1 .. Len(a) /\ DOMAIN b = 1 .. Len(b) BY <1>1
<1> HIDE DEF c
<1>4. DOMAIN c = 1 .. (Len(a) + Len(b)) BY <1>2
<1>5. ASSUME NEW p \in DOMAIN c
      PROVE  (\E k \in DOMAIN a : c[p] = a[k]) \/ \E k \in DOMAIN b : c[p] = b[k]
  <2>1. CASE p <= Len(a)
    <3>1. p \in DOMAIN a BY <1>3, <1>4, <2>1
    <3> QED BY <1>2, <1>3, <3>1
  <2>2. CASE p > Len(a)
    <3>1. p - Len(a) \in 1 .. Len(b) /\ Len(a) + (p - Len(a)) = p BY <1>3, <1>4, <2>2
    <3> QED BY <1>2, <1>3, <3>1
  <2> QED BY <1>3, <1>4, <2>1, <2>2
<1>6. \A k \in DOMAIN a : k \in DOMAIN c /\ c[k] = a[k] BY <1>2, <1>3, <1>4
<1>7. \A k \in DOMAIN b : Len(a) + k \in DOMAIN c /\ c[Len(a) + k] = b[k] BY <1>2, <1>3, <1>4
<1>8. Range(c) = Range(a) \cup Range(b)
  <2>1. ASSUME NEW x \in Range(c) PROVE x \in Range(a) \/ x \in Range(b)
    <3>1. PICK p \in DOMAIN c : x = c[p] BY <2>1 DEF Range
    <3> QED BY <1>5, <3>1 DEF Range
  <2>2. ASSUME NEW x \in Range(a) PROVE x \in Range(c)
    <3>1. PICK k \in DOMAIN a : x = a[k] BY <2>2 DEF Range
    <3> QED BY <1>6, <3>1 DEF Range
  <2>3. ASSUME NEW x \in Range(b) PROVE x \in Range(c)
    <3>1. PICK k \in DOMAIN b : x = b[k] BY <2>3 DEF Range
    <3>2. Len(a) + k \in DOMAIN c /\ c[Len(a) + k] = x BY <1>7, <3>1
    <3> QED BY <3>2 DEF Range
  <2> QED BY <2>1, <2>2, <2>3
<1>9. Listed(c) BY <1>2, ListedIs
<1> QED BY <1>8, <1>9 DEF c

LEMMA RangeFlattened ==
    ASSUME NEW n \in Nat, NEW q, q = [i \in 1 .. n |-> q[i]], \A i \in 1 .. n : Listed(q[i])
    PROVE  /\ Listed(FlattenSeq(q))
           /\ \A x : x \in Range(FlattenSeq(q)) <=> \E i \in 1 .. n : x \in Range(q[i])
<1> DEFINE T == UNION {Range(q[i]) : i \in 1 .. n}
           U == Seq(T)
<1>1. \A i \in 1 .. n : Range(q[i]) \subseteq T OBVIOUS
<1> HIDE DEF T
<1>2. \A i \in 1 .. n : q[i] \in U BY <1>1, WiderList
<1> HIDE DEF U
<1>3. q \in Seq(U) /\ Len(q) = n BY <1>2
<1>4. q \in Seq(Seq(T)) BY <1>3 DEF U
<1>5. PICK P : /\ P \in [0 .. n -> Seq(T)] /\ P[0] = <<>>
               /\ \A i \in 1 .. n : P[i] = P[i - 1] \o q[i]
               /\ FlattenSeq(q) = P[n]
  <2>1. \E P : /\ P \in [0 .. Len(q) -> Seq(T)] /\ P[0] = <<>>
               /\ \A i \in 1 .. Len(q) : P[i] = P[i - 1] \o q[i]
               /\ FlattenSeq(q) = P[Len(q)]
    BY <1>4, FlattenRuns
  <2> QED BY <1>3, <2>1
<1> DEFINE G == {i \in 0 .. n : \A x : x \in Range(P[i]) <=> \E k \in 1 .. i : x \in Range(q[k])}
<1>6. 0 \in G
  <2>1. Range(P[0]) = {} BY <1>5 DEF Range
  <2>2. 0 \in 0 .. n OBVIOUS
  <2> QED BY <2>1, <2>2
<1>7. ASSUME NEW i \in 1 .. n, i - 1 \in G PROVE i \in G
  <2>1. \A x : x \in Range(P[i - 1]) <=> \E k \in 1 .. (i - 1) : x \in Range(q[k]) BY <1>7
  <2> HIDE DEF G
  <2>2. i - 1 \in 0 .. n /\ i \in 0 .. n OBVIOUS
  <2>3. Listed(P[i - 1]) /\ P[i] = P[i - 1] \o q[i] BY <1>5, <2>2, ListedIs
  <2>4. Range(P[i]) = Range(P[i - 1]) \cup Range(q[i]) BY <2>3, RangeJoined
  <2>5. 1 .. i = (1 .. (i - 1)) \cup {i} OBVIOUS
  <2>6. \A x : x \in Range(P[i]) <=> \E k \in 1 .. i : x \in Range(q[k]) BY <2>1, <2>4, <2>5
  <2> QED BY <2>2, <2>6 DEF G
<1> HIDE DEF G
<1>8. \A i \in 0 .. n : i \in G BY <1>6, <1>7, UpTo
<1>9. n \in G BY <1>8
<1>10. Listed(FlattenSeq(q))
  <2>1. n \in 0 .. n OBVIOUS
  <2>2. P[n] \in Seq(T) BY <1>5, <2>1
  <2> QED BY <1>5, <2>2, ListedIs
<1> QED BY <1>5, <1>9, <1>10 DEF G

\* The record of an association or a header.
NamesRecord(by, g, ifs, string) == [t |-> "names", by |-> by, of |-> g, ifs |-> ifs, string |-> string]

\* What may be in the block of an interface.
Alternates(kind, i) == kind = "uac" \/ (kind \in {"uvc", "bt"} /\ i = 2) \/ kind = "dfu"
HeaderOf(d, g, i) ==
    LET n == d.groups[g].ifs[i]
    IN  CASE d.groups[g].kind = "uac" -> {n, n + 1, n + 2}
          [] d.groups[g].kind = "uvc" -> {n, n + 1}
          [] OTHER -> {0, 1}
AddressTold(d, id) ==
    IF d.groups[id[1]].kind = "uac" THEN Address(InterfacesOf["uac"][id[2]][id[3]]) ELSE d.addr[id]
InBlock(d, g, i, x) ==
    \/ x = InterfaceDesc(d, g, i, 0)
    \/ x = InterfaceDesc(d, g, i, 1) /\ Alternates(d.groups[g].kind, i)
    \/ x = NamesRecord("header", g, HeaderOf(d, g, i), 0) /\ d.groups[g].kind \in {"uac", "uvc", "cdc"} /\ i = 1
    \/ \E k \in 1 .. Len(InterfacesOf[d.groups[g].kind][i]) : x = EndpointDesc(d, <<g, i, k>>, AddressTold(d, <<g, i, k>>))

\* A block made of two others.
BlockOf(b, d, g, i) == Listed(b) /\ \A x \in Range(b) : InBlock(d, g, i, x)

LEMMA BlockOfOne ==
    ASSUME NEW d, NEW g, NEW i, NEW x, InBlock(d, g, i, x)
    PROVE  BlockOf(<<x>>, d, g, i) /\ Range(<<x>>) = {x}
<1> DEFINE b == <<x>>
<1>1. b \in Seq({x}) /\ DOMAIN b = {1} /\ b[1] = x OBVIOUS
<1> HIDE DEF b
<1>2. Range(b) = {x} BY <1>1 DEF Range
<1>3. Listed(b) BY <1>1, ListedIs
<1> QED BY <1>2, <1>3 DEF BlockOf, b

LEMMA BlockOfJoined ==
    ASSUME NEW d, NEW g, NEW i, NEW a, NEW b, BlockOf(a, d, g, i), BlockOf(b, d, g, i)
    PROVE  BlockOf(a \o b, d, g, i) /\ Range(a \o b) = Range(a) \cup Range(b)
<1>1. Listed(a \o b) /\ Range(a \o b) = Range(a) \cup Range(b) BY RangeJoined DEF BlockOf
<1> QED BY <1>1 DEF BlockOf

LEMMA BlockOfLonger ==
    ASSUME NEW d, NEW g, NEW i, NEW x, NEW a, NEW b, BlockOf(a, d, g, i), BlockOf(b, d, g, i), x \in Range(a)
    PROVE  BlockOf(a \o b, d, g, i) /\ x \in Range(a \o b)
<1>1. Listed(a \o b) /\ Range(a \o b) = Range(a) \cup Range(b) BY RangeJoined DEF BlockOf
<1> QED BY <1>1 DEF BlockOf

LEMMA EndpointsFit ==
    ASSUME NEW d, NEW g, d.groups[g].kind \in Kinds, NEW i \in 1 .. Len(InterfacesOf[d.groups[g].kind]),
           d.groups[g].kind # "uac"
    PROVE  BlockOf(EndpointDescs(d, g, i), d, g, i)
<1> DEFINE m == Len(InterfacesOf[d.groups[g].kind][i])
           x(k) == EndpointDesc(d, <<g, i, k>>, d.addr[<<g, i, k>>])
           b == EndpointDescs(d, g, i)
<1>1. Listed(b) BY EndpointsSay DEF Says
<1>2. DOMAIN InterfacesOf[d.groups[g].kind][i] = 1 .. m BY DeclaredLists
<1>3. b = [k \in 1 .. m |-> x(k)] BY <1>2 DEF EndpointDescs
<1>4. ASSUME NEW k \in 1 .. m PROVE InBlock(d, g, i, x(k))
  <2>1. AddressTold(d, <<g, i, k>>) = d.addr[<<g, i, k>>] BY DEF AddressTold
  <2> QED BY <2>1 DEF InBlock
<1> HIDE DEF m, x, b
<1>5. \A y \in Range(b) : InBlock(d, g, i, y) BY <1>3, <1>4 DEF Range
<1> QED BY <1>1, <1>5 DEF BlockOf, b

LEMMA BlockFits ==
    ASSUME NEW d, NEW g, d.groups[g].kind \in Kinds, NEW i \in 1 .. Len(InterfacesOf[d.groups[g].kind])
    PROVE  /\ BlockOf(InterfaceBlock(d, g, i), d, g, i)
           /\ InterfaceDesc(d, g, i, 0) \in Range(InterfaceBlock(d, g, i))
<1> DEFINE kind == d.groups[g].kind
           n == d.groups[g].ifs[i]
           I(alt) == InterfaceDesc(d, g, i, alt)
           E == EndpointDescs(d, g, i)
           Fits(b) == BlockOf(b, d, g, i)
           Good(b) == Fits(b) /\ I(0) \in Range(b)
<1>1. Fits(<<I(0)>>) /\ Range(<<I(0)>>) = {I(0)} BY BlockOfOne DEF InBlock
<1>2. kind # "uac" => Fits(E) BY EndpointsFit
<1>3. ASSUME NEW a, NEW b, Good(a), Fits(b) PROVE Good(a \o b)
  <2>1. BlockOf(a, d, g, i) /\ BlockOf(b, d, g, i) /\ I(0) \in Range(a) BY <1>3
  <2> HIDE DEF I
  <2>2. BlockOf(a \o b, d, g, i) /\ I(0) \in Range(a \o b) BY <2>1, BlockOfLonger
  <2> QED BY <2>2
<1>4. Good(<<I(0)>>) BY <1>1
<1>5. kind # "uac" => Good(<<I(0)>> \o E) BY <1>2, <1>3, <1>4
<1>6. Alternates(kind, i) => Fits(<<I(1)>>)
  <2> SUFFICES ASSUME Alternates(kind, i) PROVE Fits(<<I(1)>>) OBVIOUS
  <2>1. InBlock(d, g, i, I(1)) BY DEF InBlock
  <2> QED BY <2>1, BlockOfOne
<1>7. Alternates(kind, i) => Good(<<I(0), I(1)>>)
  <2> SUFFICES ASSUME Alternates(kind, i) PROVE Good(<<I(0), I(1)>>) OBVIOUS
  <2>1. Good(<<I(0)>> \o <<I(1)>>) BY <1>3, <1>4, <1>6
  <2> HIDE DEF I, Good
  <2>2. <<I(0), I(1)>> = <<I(0)>> \o <<I(1)>> BY RecordsJoined
  <2> QED BY <2>1, <2>2
<1>8. kind \in {"uac", "uvc", "cdc"} /\ i = 1 => Fits(Names(g, HeaderOf(d, g, i)))
  <2> SUFFICES ASSUME kind \in {"uac", "uvc", "cdc"}, i = 1 PROVE Fits(Names(g, HeaderOf(d, g, i))) OBVIOUS
  <2>1. Names(g, HeaderOf(d, g, i)) = <<NamesRecord("header", g, HeaderOf(d, g, i), 0)>> BY DEF Names, NamesRecord
  <2>2. InBlock(d, g, i, NamesRecord("header", g, HeaderOf(d, g, i), 0)) BY DEF InBlock
  <2> QED BY <2>1, <2>2, BlockOfOne
<1>9. kind \in {"uac", "uvc", "cdc"} /\ i = 1 => Good(<<I(0)>> \o Names(g, HeaderOf(d, g, i)))
  <2> HIDE DEF I, Good, Fits
  <2> QED BY <1>3, <1>4, <1>8
<1>10. ASSUME kind = "uac", i = 1 PROVE Good(InterfaceBlock(d, g, i))
  <2>1. HeaderOf(d, g, i) = {n, n + 1, n + 2} BY <1>10 DEF HeaderOf
  <2>2. InterfaceBlock(d, g, i) = <<I(0)>> \o Names(g, {n, n + 1, n + 2})
    BY <1>10 DEF InterfaceBlock, AudioControlBlock
  <2> HIDE DEF Good, I
  <2> QED BY <1>9, <1>10, <2>1, <2>2
<1>11. ASSUME kind = "uvc", i = 1 PROVE Good(InterfaceBlock(d, g, i))
  <2>1. HeaderOf(d, g, i) = {n, n + 1} BY <1>11 DEF HeaderOf
  <2>2. InterfaceBlock(d, g, i) = <<I(0)>> \o Names(g, {n, n + 1})
    BY <1>11 DEF InterfaceBlock, VideoControlBlock
  <2> HIDE DEF Good, I
  <2> QED BY <1>9, <1>11, <2>1, <2>2
<1>12. ASSUME kind = "uac", i # 1 PROVE Good(InterfaceBlock(d, g, i))
  <2> DEFINE x == EndpointDesc(d, <<g, i, 1>>, Address(InterfacesOf["uac"][i][1]))
  <2>1. 1 \in 1 .. Len(InterfacesOf[kind][i]) BY <1>12 DEF InterfacesOf
  <2>2. InterfaceBlock(d, g, i) = <<I(0), I(1), x>> BY <1>12 DEF InterfaceBlock, AudioStreamingBlock
  <2>3. InBlock(d, g, i, x)
    <3>1. AddressTold(d, <<g, i, 1>>) = Address(InterfacesOf["uac"][i][1]) BY <1>12 DEF AddressTold
    <3> QED BY <2>1, <3>1 DEF InBlock
  <2>4. Fits(<<x>>) BY <2>3, BlockOfOne
  <2>5. Alternates(kind, i) BY <1>12 DEF Alternates
  <2> HIDE DEF x, I, Good, Fits
  <2>6. Good(<<I(0), I(1)>> \o <<x>>) BY <1>3, <1>7, <2>4, <2>5
  <2>7. <<I(0), I(1)>> \o <<x>> = <<I(0), I(1), x>> BY RecordsJoined
  <2> QED BY <2>2, <2>6, <2>7
<1>13. ASSUME kind = "uvc", i = 2 PROVE Good(InterfaceBlock(d, g, i))
  <2>1. InterfaceBlock(d, g, i) = <<I(0), I(1)>> \o E BY <1>13 DEF InterfaceBlock, VideoStreamingBlock
  <2>2. Alternates(kind, i) BY <1>13 DEF Alternates
  <2> HIDE DEF I, E, Good, Fits
  <2> QED BY <1>2, <1>3, <1>7, <1>13, <2>1, <2>2
<1>14. ASSUME kind = "dfu" PROVE Good(InterfaceBlock(d, g, i))
  <2>1. InterfaceBlock(d, g, i) = <<I(0), I(1)>> BY <1>14 DEF InterfaceBlock, DfuBlock
  <2>2. Alternates(kind, i) BY <1>14 DEF Alternates
  <2> HIDE DEF I, Good, Fits
  <2> QED BY <1>7, <2>1, <2>2
<1>15. ASSUME kind = "cdc", i = 1 PROVE Good(InterfaceBlock(d, g, i))
  <2>1. HeaderOf(d, g, i) = {0, 1} BY <1>15 DEF HeaderOf
  <2>2. InterfaceBlock(d, g, i) = <<I(0)>> \o Names(g, {0, 1}) \o E
    BY <1>15 DEF InterfaceBlock, CdcCommBlock
  <2> HIDE DEF Good, I, E, Fits
  <2> QED BY <1>2, <1>3, <1>9, <1>15, <2>1, <2>2
<1>16. ASSUME kind = "bt", i = 2 PROVE Good(InterfaceBlock(d, g, i))
  <2> DEFINE part(alt) == <<I(alt - 1)>> \o E
             q == [alt \in 1 .. 2 |-> part(alt)]
  <2>1. InterfaceBlock(d, g, i) = FlattenSeq(q) BY <1>16 DEF InterfaceBlock, ScoBlock
  <2>2. Alternates(kind, i) BY <1>16 DEF Alternates
  <2>3. part(1) = <<I(0)>> \o E /\ part(2) = <<I(1)>> \o E OBVIOUS
  <2> HIDE DEF part
  <2>4. Good(part(1))
    <3> HIDE DEF Good
    <3> QED BY <1>5, <1>16, <2>3
  <2>5. Fits(part(2))
    <3>1. Fits(<<I(1)>> \o E) BY <1>2, <1>6, <1>16, <2>2, BlockOfJoined
    <3> HIDE DEF Fits
    <3> QED BY <2>3, <3>1
  <2>6. q = [alt \in 1 .. 2 |-> q[alt]] /\ \A alt \in 1 .. 2 : q[alt] = part(alt) OBVIOUS
  <2> HIDE DEF q
  <2>7. Fits(q[1]) /\ Fits(q[2]) /\ I(0) \in Range(q[1])
    <3>1. q[1] = part(1) /\ q[2] = part(2) BY <2>6
    <3> QED BY <2>4, <2>5, <3>1
  <2>8. \A alt \in 1 .. 2 : Listed(q[alt]) BY <2>7 DEF BlockOf
  <2>9. /\ Listed(FlattenSeq(q))
        /\ \A x : x \in Range(FlattenSeq(q)) <=> \E alt \in 1 .. 2 : x \in Range(q[alt])
    BY <2>6, <2>8, RangeFlattened
  <2>10. Good(FlattenSeq(q))
    <3> HIDE DEF I
    <3> QED BY <2>7, <2>9 DEF BlockOf
  <2> HIDE DEF Good
  <2> QED BY <2>1, <2>10
<1>17. ASSUME kind # "uac", ~(kind = "uvc" /\ i \in {1, 2}), ~(kind = "bt" /\ i = 2), kind # "dfu",
              ~(kind = "cdc" /\ i = 1)
       PROVE  Good(InterfaceBlock(d, g, i))
  <2>1. InterfaceBlock(d, g, i) = <<I(0)>> \o E BY <1>17 DEF InterfaceBlock
  <2> HIDE DEF I, E, Good
  <2> QED BY <1>5, <1>17, <2>1
<1>18. Good(InterfaceBlock(d, g, i))
  <2> HIDE DEF Good
  <2> QED BY <1>10, <1>11, <1>12, <1>13, <1>14, <1>15, <1>16, <1>17
<1> QED BY <1>18

\* A record of the configuration is the association of a function or in the block of
\* one of its interfaces, and each interface has its record.
LEMMA RecordsOfDevice ==
    ASSUME NEW d, DeviceParts(d), Numbered(d), \A g \in Groups(d) : d.groups[g].block
    PROVE  /\ \A x \in Range(ConfigBytes(d)) : \E g \in Groups(d) :
                  \/ HasIad(d, g) /\ x \in Range(Association(d, g))
                  \/ \E i \in DOMAIN d.groups[g].ifs : InBlock(d, g, i, x)
           /\ \A g \in Groups(d) : \A i \in DOMAIN d.groups[g].ifs :
                  InterfaceDesc(d, g, i, 0) \in Range(ConfigBytes(d))
<1> DEFINE n == Len(d.groups)
           q == [g \in Groups(d) |-> IF ~d.groups[g].block THEN <<>> ELSE PartOf(d, g)]
           InPart(g, x) == \/ HasIad(d, g) /\ x \in Range(Association(d, g))
                           \/ \E i \in DOMAIN d.groups[g].ifs : InBlock(d, g, i, x)
<1>1. d.groups \in Seq(GroupSet) BY DEF DeviceParts, PartsTyped
<1>2. n \in Nat /\ Groups(d) = 1 .. n BY <1>1 DEF Groups
<1>3. \A g \in 1 .. n : d.groups[g] \in GroupSet BY <1>1
<1>4. ASSUME NEW g \in 1 .. n
      PROVE  /\ Listed(PartOf(d, g))
             /\ \A x \in Range(PartOf(d, g)) : InPart(g, x)
             /\ \A i \in DOMAIN d.groups[g].ifs : InterfaceDesc(d, g, i, 0) \in Range(PartOf(d, g))
  <2> DEFINE ifs == d.groups[g].ifs
             m == Len(ifs)
             p == [i \in DOMAIN ifs |-> InterfaceBlock(d, g, i)]
             first == Association(d, g)
  <2>1. d.groups[g].kind \in Kinds /\ ifs \in Seq(Nat) BY <1>3 DEF GroupSet
  <2>2. m = Len(InterfacesOf[d.groups[g].kind]) BY <1>2 DEF Numbered
  <2>3. m \in Nat /\ DOMAIN ifs = 1 .. m BY <2>1
  <2>4. \A i \in 1 .. m : /\ BlockOf(InterfaceBlock(d, g, i), d, g, i)
                          /\ InterfaceDesc(d, g, i, 0) \in Range(InterfaceBlock(d, g, i))
    BY <2>1, <2>2, BlockFits
  <2>5. p = [i \in 1 .. m |-> p[i]] /\ \A i \in 1 .. m : p[i] = InterfaceBlock(d, g, i) BY <2>3
  <2>6. PartOf(d, g) = first \o FlattenSeq(p) BY DEF PartOf
  <2>7. Listed(first) /\ (Range(first) # {} => HasIad(d, g))
    <3>1. CASE HasIad(d, g)
      <4> DEFINE x == [t |-> "names", by |-> "association", of |-> g,
                       ifs |-> {d.groups[g].ifs[1] + k - 1 : k \in DOMAIN d.groups[g].ifs},
                       string |-> IF d.groups[g].kind = "cdc" THEN d.groups[g].string ELSE 0]
      <4>1. first = <<x>> BY <3>1 DEF Association
      <4> HIDE DEF x, first
      <4>2. <<x>> \in Seq({x}) OBVIOUS
      <4> QED BY <3>1, <4>1, <4>2, ListedIs
    <3>2. CASE ~HasIad(d, g)
      <4>1. first = <<>> BY <3>2 DEF Association
      <4>2. <<>> \in Seq({}) /\ Range(<<>>) = {} BY DEF Range
      <4> HIDE DEF first
      <4> QED BY <4>1, <4>2, ListedIs
    <3> QED BY <3>1, <3>2
  <2> HIDE DEF m, p, first
  <2>8. \A i \in 1 .. m : Listed(p[i]) BY <2>4, <2>5 DEF BlockOf
  <2>9. /\ Listed(FlattenSeq(p))
        /\ \A x : x \in Range(FlattenSeq(p)) <=> \E i \in 1 .. m : x \in Range(p[i])
    BY <2>3, <2>5, <2>8, RangeFlattened
  <2>10. Listed(PartOf(d, g)) /\ Range(PartOf(d, g)) = Range(first) \cup Range(FlattenSeq(p))
    BY <2>6, <2>7, <2>9, RangeJoined
  <2>11. ASSUME NEW x \in Range(PartOf(d, g)) PROVE InPart(g, x)
    <3>1. CASE x \in Range(first) BY <2>7, <3>1 DEF first
    <3>2. CASE x \in Range(FlattenSeq(p))
      <4>1. PICK i \in 1 .. m : x \in Range(p[i]) BY <2>9, <3>2
      <4>2. InBlock(d, g, i, x) BY <2>4, <2>5, <4>1 DEF BlockOf
      <4> QED BY <2>3, <4>2
    <3> QED BY <2>10, <3>1, <3>2
  <2>12. ASSUME NEW i \in DOMAIN ifs PROVE InterfaceDesc(d, g, i, 0) \in Range(PartOf(d, g))
    <3>1. i \in 1 .. m BY <2>3
    <3>2. InterfaceDesc(d, g, i, 0) \in Range(p[i]) BY <2>4, <2>5, <3>1
    <3> QED BY <2>9, <2>10, <3>1, <3>2
  <2> QED BY <2>10, <2>11, <2>12
<1>5. ConfigBytes(d) = FlattenSeq(q) BY DEF ConfigBytes, PartOf
<1> HIDE DEF n, InPart
<1>6. q = [g \in 1 .. n |-> q[g]] /\ \A g \in 1 .. n : q[g] = PartOf(d, g) BY <1>2
<1> HIDE DEF q
<1>7. \A g \in 1 .. n : Listed(q[g]) BY <1>4, <1>6
<1>8. \A x : x \in Range(FlattenSeq(q)) <=> \E g \in 1 .. n : x \in Range(q[g])
  BY <1>2, <1>6, <1>7, RangeFlattened
<1>9. \A x \in Range(ConfigBytes(d)) : \E g \in Groups(d) : InPart(g, x) BY <1>2, <1>4, <1>5, <1>6, <1>8
<1>10. \A g \in Groups(d) : \A i \in DOMAIN d.groups[g].ifs :
           InterfaceDesc(d, g, i, 0) \in Range(ConfigBytes(d))
  BY <1>2, <1>4, <1>5, <1>6, <1>8
<1> QED BY <1>9, <1>10 DEF InPart

-----------------------------------------------------------------------------
(* A device that could be plugged.                                         *)

Pluggable(d) ==
    /\ DeviceParts(d) /\ Wired(d) /\ Shaped(d) /\ ~EndpointConflict(d)
    /\ \A g \in Groups(d) : d.groups[g].block /\ d.groups[g].ifs # <<>>

LEMMA PartsOfDevice ==
    ASSUME NEW d, Pluggable(d), NEW g \in Groups(d)
    PROVE  /\ d.groups \in Seq(GroupSet) /\ d.groups[g].ifs \in Seq(Nat) /\ d.groups[g].kind \in Kinds
           /\ d.groups[g].string \in Nat
           /\ Len(d.groups[g].ifs) = Len(InterfacesOf[d.groups[g].kind])
           /\ DOMAIN d.groups[g].ifs = 1 .. Len(InterfacesOf[d.groups[g].kind])
           /\ 1 \in DOMAIN d.groups[g].ifs
           /\ Numbered(d)
<1>1. d.groups \in Seq(GroupSet) BY DEF Pluggable, DeviceParts, PartsTyped
<1>2. g \in 1 .. Len(d.groups) BY <1>1 DEF Groups
<1>3. d.groups[g] \in GroupSet BY <1>1, <1>2, ElementOfSeq
<1>4. d.groups[g].ifs \in Seq(Nat) /\ d.groups[g].kind \in Kinds /\ d.groups[g].string \in Nat BY <1>3 DEF GroupSet
<1>5. Numbered(d) BY DEF Pluggable, Wired
<1>6. Len(d.groups[g].ifs) = Len(InterfacesOf[d.groups[g].kind]) BY <1>5 DEF Numbered, Pluggable
<1>7. DOMAIN d.groups[g].ifs = 1 .. Len(InterfacesOf[d.groups[g].kind]) BY <1>4, <1>6
<1>8. 1 \in DOMAIN d.groups[g].ifs BY <1>4, EmptySeq DEF Pluggable
<1> QED BY <1>1, <1>4, <1>5, <1>6, <1>7, <1>8

\* What the records say.
LEMMA RecordsSay ==
    ASSUME NEW d, NEW g, NEW i
    PROVE  /\ \A alt : LET x == InterfaceDesc(d, g, i, alt)
                       IN  /\ x.t = "interface" /\ x.num = d.groups[g].ifs[i] /\ x.alt = alt
                           /\ x.class = ClassOf(d.groups[g].kind, i)
           /\ \A by, ifs, s : LET x == NamesRecord(by, g, ifs, s)
                              IN  x.t = "names" /\ x.by = by /\ x.ifs = ifs /\ x.of = g /\ x.string = s
           /\ \A id, a : LET x == EndpointDesc(d, id, a)
                         IN  x.t = "endpoint" /\ x.addr = a /\ x.size = d.sized[id]
<1>1. ASSUME NEW alt
      PROVE  LET x == InterfaceDesc(d, g, i, alt)
             IN  /\ x.t = "interface" /\ x.num = d.groups[g].ifs[i] /\ x.alt = alt
                 /\ x.class = ClassOf(d.groups[g].kind, i)
  BY DEF InterfaceDesc
<1>2. ASSUME NEW by, NEW ifs, NEW s
      PROVE  LET x == NamesRecord(by, g, ifs, s)
             IN  x.t = "names" /\ x.by = by /\ x.ifs = ifs /\ x.of = g /\ x.string = s
  BY DEF NamesRecord
<1>3. ASSUME NEW id, NEW a
      PROVE  LET x == EndpointDesc(d, id, a)
             IN  x.t = "endpoint" /\ x.addr = a /\ x.size = d.sized[id]
  BY DEF EndpointDesc
<1> QED BY <1>1, <1>2, <1>3

RowOf(d, g) == {d.groups[g].ifs[1] + k - 1 : k \in DOMAIN d.groups[g].ifs}
LabelOf(d, g) == IF d.groups[g].kind = "cdc" THEN d.groups[g].string ELSE 0

LEMMA AssociationIs ==
    ASSUME NEW d, NEW g, HasIad(d, g), NEW x \in Range(Association(d, g))
    PROVE  x = NamesRecord("association", g, RowOf(d, g), LabelOf(d, g))
<1> DEFINE y == NamesRecord("association", g, RowOf(d, g), LabelOf(d, g))
<1>1. Association(d, g) = <<y>> BY DEF Association, NamesRecord, RowOf, LabelOf
<1> HIDE DEF y
<1>2. <<y>> \in Seq({y}) /\ DOMAIN <<y>> = {1} /\ <<y>>[1] = y OBVIOUS
<1>3. PICK k \in DOMAIN <<y>> : x = <<y>>[k] BY <1>1 DEF Range
<1> QED BY <1>2, <1>3 DEF y

\* A record of the configuration is of one of these forms.
EndpointRecord(d, g, i, x) ==
    \E k \in 1 .. Len(InterfacesOf[d.groups[g].kind][i]) : x = EndpointDesc(d, <<g, i, k>>, AddressTold(d, <<g, i, k>>))
InterfaceRecord(d, g, i, x) ==
    \/ x = InterfaceDesc(d, g, i, 0)
    \/ x = InterfaceDesc(d, g, i, 1) /\ Alternates(d.groups[g].kind, i)

LEMMA ThreeRecords ==
    ASSUME NEW d, Pluggable(d), NEW x \in Range(ConfigBytes(d))
    PROVE  /\ x.t = "endpoint" => \E g \in Groups(d) : \E i \in DOMAIN d.groups[g].ifs : EndpointRecord(d, g, i, x)
           /\ x.t = "interface" => \E g \in Groups(d) : \E i \in DOMAIN d.groups[g].ifs : InterfaceRecord(d, g, i, x)
           /\ x.t = "names" => \E g \in Groups(d) :
                  \/ HasIad(d, g) /\ x = NamesRecord("association", g, RowOf(d, g), LabelOf(d, g))
                  \/ x = NamesRecord("header", g, HeaderOf(d, g, 1), 0) /\ d.groups[g].kind \in {"uac", "uvc", "cdc"}
<1>1. DeviceParts(d) /\ Numbered(d) /\ \A g \in Groups(d) : d.groups[g].block BY DEF Pluggable, Wired
<1>2. PICK g \in Groups(d) : \/ HasIad(d, g) /\ x \in Range(Association(d, g))
                             \/ \E i \in DOMAIN d.groups[g].ifs : InBlock(d, g, i, x)
  BY <1>1, RecordsOfDevice
<1>3. CASE HasIad(d, g) /\ x \in Range(Association(d, g))
  <2>1. x = NamesRecord("association", g, RowOf(d, g), LabelOf(d, g)) BY <1>3, AssociationIs
  <2>2. x.t = "names" BY <2>1 DEF NamesRecord
  <2>3. x.t # "endpoint" /\ x.t # "interface" BY <2>2
  <2> QED BY <1>3, <2>1, <2>3
<1>4. CASE \E i \in DOMAIN d.groups[g].ifs : InBlock(d, g, i, x)
  <2>1. PICK i \in DOMAIN d.groups[g].ifs : InBlock(d, g, i, x) BY <1>4
  <2>2. CASE InterfaceRecord(d, g, i, x)
    <3>1. x.t = "interface" BY <2>2, RecordsSay DEF InterfaceRecord
    <3>2. x.t # "endpoint" /\ x.t # "names" BY <3>1
    <3> QED BY <2>2, <3>2
  <2>3. CASE x = NamesRecord("header", g, HeaderOf(d, g, i), 0) /\ d.groups[g].kind \in {"uac", "uvc", "cdc"} /\ i = 1
    <3>1. x.t = "names" BY <2>3 DEF NamesRecord
    <3>2. x.t # "endpoint" /\ x.t # "interface" BY <3>1
    <3> QED BY <2>3, <3>2
  <2>4. CASE EndpointRecord(d, g, i, x)
    <3>1. x.t = "endpoint" BY <2>4, RecordsSay DEF EndpointRecord
    <3>2. x.t # "names" /\ x.t # "interface" BY <3>1
    <3> QED BY <2>4, <3>2
  <2> QED BY <2>1, <2>2, <2>3, <2>4 DEF InBlock, InterfaceRecord, EndpointRecord
<1> QED BY <1>2, <1>3, <1>4

\* What is described is an endpoint record of the configuration.
LEMMA DescribedIs ==
    ASSUME NEW d, NEW x \in Described(d)
    PROVE  x.desc \in Range(ConfigBytes(d)) /\ x.desc.t = "endpoint"
<1> DEFINE c == ConfigBytes(d)
           E == {q \in DOMAIN c : c[q].t = "endpoint"}
<1>1. PICK p \in E : x = [num |-> OwnerAt(c, p), desc |-> c[p]] BY DEF Described, Walked
<1>2. x.desc = c[p] BY <1>1
<1> QED BY <1>1, <1>2 DEF Range

LEMMA SizesTold ==
    ASSUME NEW d, Pluggable(d), NEW x \in Described(d)
    PROVE  x.desc.size \in {d.speed, "any"}
<1> DEFINE y == x.desc
<1>1. y \in Range(ConfigBytes(d)) /\ y.t = "endpoint" BY DescribedIs
<1> HIDE DEF y
<1>2. PICK g \in Groups(d) : \E i \in DOMAIN d.groups[g].ifs : EndpointRecord(d, g, i, y) BY <1>1, ThreeRecords
<1>3. PICK i \in DOMAIN d.groups[g].ifs : EndpointRecord(d, g, i, y) BY <1>2
<1>4. PICK k \in 1 .. Len(InterfacesOf[d.groups[g].kind][i]) :
          y = EndpointDesc(d, <<g, i, k>>, AddressTold(d, <<g, i, k>>))
  BY <1>3 DEF EndpointRecord
<1>5. y.size = d.sized[<<g, i, k>>] BY <1>4, RecordsSay
<1>6. DeviceParts(d) /\ Numbered(d) /\ DOMAIN d.addr = AllIds(d) BY DEF Pluggable, Wired, Wiring
<1>7. <<g, i, k>> \in DOMAIN d.addr BY <1>6, IdOf
<1>8. SizedBut(d, {}) BY DEF Pluggable, Shaped, Sized
<1>9. d.sized[<<g, i, k>>] \in {d.speed, "any"} BY <1>7, <1>8 DEF SizedBut
<1> QED BY <1>5, <1>9 DEF y

\* Interface numbers tell functions and their interfaces apart.
LEMMA NumbersTell ==
    ASSUME NEW d, Pluggable(d), NEW g \in Groups(d), NEW h \in Groups(d),
           NEW i \in DOMAIN d.groups[g].ifs, NEW j \in DOMAIN d.groups[h].ifs, d.groups[g].ifs[i] = d.groups[h].ifs[j]
    PROVE  g = h /\ i = j
<1>1. NumbersApart(d) /\ Numbered(d) BY DEF Pluggable, DeviceParts, Wired
<1>2. d.groups[g].ifs[i] \in IfsOf(d, g) /\ d.groups[h].ifs[j] \in IfsOf(d, h) BY DEF IfsOf
<1>3. g = h BY <1>1, <1>2 DEF NumbersApart
<1> QED BY <1>1, <1>3 DEF Numbered

ToldOf(d) == {<<x.num, x.desc.addr>> : x \in Described(d)}

\* An address of which a host was told leads to an endpoint of the interface that
\* was said to have it.
LEMMA RoutedToTeller ==
    ASSUME NEW d, Pluggable(d), NEW x \in Described(d)
    PROVE  /\ x.desc.addr \in DOMAIN d.epMap
           /\ LET id == d.epMap[x.desc.addr]
              IN  /\ id[1] \in Groups(d) /\ id[2] \in DOMAIN d.groups[id[1]].ifs
                  /\ d.groups[id[1]].ifs[id[2]] = x.num
<1> DEFINE a == x.desc.addr
           id == d.epMap[a]
           told == ToldOf(d)
<1>1. DeviceParts(d) /\ Wired(d) /\ Numbered(d) /\ \A g \in Groups(d) : d.groups[g].block BY DEF Pluggable, Wired
<1>2. <<x.num, a>> \in told BY DEF ToldOf
<1>3. \A y : y \in told <=> \E g \in Groups(d) : DescribedIn(d, g, y) BY <1>1, ConfigurationTells DEF ToldOf
<1> HIDE DEF a, told
<1>4. PICK g \in Groups(d) : DescribedIn(d, g, <<x.num, a>>) BY <1>2, <1>3
<1>5. PICK i \in DOMAIN d.groups[g].ifs : a \in DescribedAt(d, g, i) BY <1>4 DEF DescribedIn
<1>6. /\ a \in DOMAIN d.epMap /\ id[1] \in Groups(d) /\ id[2] \in DOMAIN d.groups[id[1]].ifs
      /\ a \in DescribedAt(d, id[1], id[2])
  BY <1>1, <1>5, RoutedToDescribed
<1> DEFINE n == d.groups[id[1]].ifs[id[2]]
<1> HIDE DEF id
<1>7. DescribedIn(d, id[1], <<n, a>>) BY <1>6 DEF DescribedIn
<1> HIDE DEF n
<1>8. <<n, a>> \in told BY <1>3, <1>6, <1>7
<1>9. PICK y \in Described(d) : <<n, a>> = <<y.num, y.desc.addr>> BY <1>8 DEF told, ToldOf
<1>10. y.num = n /\ y.desc.addr = a /\ x.desc.addr = a BY <1>9 DEF a
<1>11. ~EndpointConflict(d) BY DEF Pluggable
<1>12. y.num = x.num BY <1>10, <1>11 DEF EndpointConflict
<1>13. n = x.num BY <1>10, <1>12
<1> QED BY <1>6, <1>13 DEF a, id, n

\* No endpoint is left without a description, and the address told is its own.
LEMMA EndpointsTold ==
    ASSUME NEW d, Pluggable(d), NEW id \in DOMAIN d.addr
    PROVE  /\ AddressTold(d, id) = d.addr[id]
           /\ \E x \in Described(d) : x.desc.addr = d.addr[id]
<1> DEFINE told == ToldOf(d)
           kind == d.groups[id[1]].kind
           n == d.groups[id[1]].ifs[id[2]]
<1>1. DeviceParts(d) /\ Wired(d) /\ Numbered(d) /\ \A g \in Groups(d) : d.groups[g].block BY DEF Pluggable, Wired
<1>2. \A y : y \in told <=> \E g \in Groups(d) : DescribedIn(d, g, y) BY <1>1, ConfigurationTells DEF ToldOf
<1>3. DOMAIN d.addr = AllIds(d) /\ Matched(d.addr, d.epMap) BY <1>1 DEF Wired, Wiring
<1>4. /\ id[1] \in Groups(d) /\ id[2] \in DOMAIN d.groups[id[1]].ifs /\ id[2] \in 1 .. 3
      /\ id[3] \in 1 .. 3 /\ id[3] <= Len(InterfacesOf[kind][id[2]])
      /\ id = <<id[1], id[2], id[3]>>
  BY <1>3 DEF AllIds
<1>5. kind \in Kinds /\ id[2] \in 1 .. Len(InterfacesOf[kind]) BY <1>1, <1>4, IdOf
<1> HIDE DEF told, n
<1>6. ASSUME NEW a \in DescribedAt(d, id[1], id[2]) PROVE \E x \in Described(d) : x.num = n /\ x.desc.addr = a
  <2>1. DescribedIn(d, id[1], <<n, a>>) BY <1>4 DEF DescribedIn, n
  <2>2. <<n, a>> \in told BY <1>2, <1>4, <2>1
  <2>3. PICK y \in Described(d) : <<n, a>> = <<y.num, y.desc.addr>> BY <2>2 DEF told, ToldOf
  <2> QED BY <2>3
<1>7. CASE kind # "uac"
  <2>1. id[3] \in 1 .. Len(InterfacesOf[kind][id[2]])
    <3>1. Len(InterfacesOf[kind][id[2]]) \in 0 .. 3 BY <1>5, Declared
    <3> QED BY <1>4, <3>1
  <2>2. d.addr[<<id[1], id[2], id[3]>>] \in DescribedAt(d, id[1], id[2]) BY <1>7, <2>1 DEF DescribedAt
  <2>3. AddressTold(d, id) = d.addr[id] BY <1>7 DEF AddressTold
  <2> QED BY <1>4, <1>6, <2>2, <2>3
<1>8. CASE kind = "uac"
  <2> DEFINE a == Address(InterfacesOf["uac"][id[2]][1])
  <2>1. id[2] \in {2, 3} /\ id[3] = 1 /\ Len(InterfacesOf["uac"][id[2]]) = 1
    <3>1. id[2] # 1 BY <1>4, <1>8, AudioIs
    <3>2. id[2] \in {2, 3} BY <1>4, <3>1
    <3>3. Len(InterfacesOf["uac"][id[2]]) = 1 BY <3>2, AudioIs
    <3> QED BY <1>4, <1>8, <3>2, <3>3
  <2>2. 1 \in 1 .. Len(InterfacesOf["uac"][id[2]]) BY <2>1
  <2>3. a \in DescribedAt(d, id[1], id[2]) BY <1>8, <2>2 DEF DescribedAt
  <2>4. AddressTold(d, id) = a BY <1>8, <2>1 DEF AddressTold
  <2> HIDE DEF a
  <2>5. PICK x \in Described(d) : x.num = n /\ x.desc.addr = a BY <1>6, <2>3
  <2> DEFINE to == d.epMap[a]
  <2>6. /\ a \in DOMAIN d.epMap /\ to[1] \in Groups(d) /\ to[2] \in DOMAIN d.groups[to[1]].ifs
        /\ d.groups[to[1]].ifs[to[2]] = n
    BY <2>5, RoutedToTeller
  <2>7. to \in AllIds(d) /\ d.addr[to] = a BY <1>3, <2>6 DEF Matched
  <2> HIDE DEF to
  <2>8. to[1] = id[1] /\ to[2] = id[2] BY <1>4, <2>6, NumbersTell DEF n
  <2>9. to[3] \in 1 .. 3 /\ to[3] <= Len(InterfacesOf[d.groups[to[1]].kind][to[2]]) /\ to = <<to[1], to[2], to[3]>>
    BY <2>7 DEF AllIds
  <2>10. Len(InterfacesOf[d.groups[to[1]].kind][to[2]]) = 1 BY <1>8, <2>1, <2>8
  <2>11. to[3] = 1 BY <2>9, <2>10
  <2>12. to = id BY <1>4, <2>1, <2>8, <2>9, <2>11
  <2> QED BY <2>5, <2>7, <2>12, <2>4
<1> QED BY <1>7, <1>8

\* An association names the interfaces of its function, and so do the headers of
\* audio and video, and of the CDC function that was added first.
LEMMA HeadersTold ==
    ASSUME NEW d, Pluggable(d), NEW x \in Range(ConfigBytes(d)), x.t = "names"
    PROVE  \/ x.ifs = IfsOf(d, x.of)
           \/ x.by = "header" /\ d.groups[x.of].kind = "cdc" /\ x.of # 1
<1>1. PICK g \in Groups(d) :
          \/ HasIad(d, g) /\ x = NamesRecord("association", g, RowOf(d, g), LabelOf(d, g))
          \/ x = NamesRecord("header", g, HeaderOf(d, g, 1), 0) /\ d.groups[g].kind \in {"uac", "uvc", "cdc"}
  BY ThreeRecords
<1>2. x.of = g BY <1>1, RecordsSay
<1> DEFINE ifs == d.groups[g].ifs
<1>3. /\ ifs \in Seq(Nat) /\ 1 \in DOMAIN ifs /\ DOMAIN ifs = 1 .. Len(InterfacesOf[d.groups[g].kind])
      /\ d.groups \in Seq(GroupSet)
  BY PartsOfDevice
<1>4. \A k \in DOMAIN ifs : ifs[k] = ifs[1] + k - 1 BY DEF Pluggable, Shaped, InRow
<1>5. ifs[1] \in Nat
  <2>1. ifs \in Seq(Nat) /\ 1 \in DOMAIN ifs BY <1>3
  <2> HIDE DEF ifs
  <2> QED BY <2>1, ElementOfSeq
<1>6. IfsOf(d, g) = RowOf(d, g) BY <1>4 DEF IfsOf, RowOf
<1>7. CASE x = NamesRecord("association", g, RowOf(d, g), LabelOf(d, g))
  <2>1. x.ifs = RowOf(d, g) BY <1>7 DEF NamesRecord
  <2> QED BY <1>2, <1>6, <2>1
<1>8. CASE x = NamesRecord("header", g, HeaderOf(d, g, 1), 0) /\ d.groups[g].kind \in {"uac", "uvc", "cdc"}
  <2> DEFINE n == ifs[1]
             D == DOMAIN ifs
  <2>1. x.ifs = HeaderOf(d, g, 1) /\ x.by = "header" BY <1>8 DEF NamesRecord
  <2>2. RowOf(d, g) = {n + k - 1 : k \in D} BY DEF RowOf
  <2>3. n \in Nat BY <1>5
  <2>4. CASE d.groups[g].kind = "uac"
    <3>1. D = 1 .. 3 BY <1>3, <2>4, AudioIs
    <3>2. HeaderOf(d, g, 1) = {n, n + 1, n + 2} BY <2>4 DEF HeaderOf
    <3> HIDE DEF n, D
    <3>3. {n + k - 1 : k \in D} = {n, n + 1, n + 2} BY <2>3, <3>1
    <3> QED BY <1>2, <1>6, <2>1, <2>2, <3>2, <3>3
  <2>5. CASE d.groups[g].kind = "uvc"
    <3>0. Len(InterfacesOf["uvc"]) = 2 BY DEF InterfacesOf
    <3>1. D = 1 .. 2 BY <1>3, <2>5, <3>0
    <3>2. HeaderOf(d, g, 1) = {n, n + 1} BY <2>5 DEF HeaderOf
    <3> HIDE DEF n, D
    <3>3. {n + k - 1 : k \in D} = {n, n + 1} BY <2>3, <3>1
    <3> QED BY <1>2, <1>6, <2>1, <2>2, <3>2, <3>3
  <2>6. CASE d.groups[g].kind = "cdc" /\ g = 1
    <3>0. Len(InterfacesOf["cdc"]) = 2 BY DEF InterfacesOf
    <3>1. D = 1 .. 2 BY <1>3, <2>6, <3>0
    <3>2. HeaderOf(d, g, 1) = {0, 1} BY <2>6 DEF HeaderOf
    <3>3. n = 0
      <4>1. FirstIsZero(d) /\ d.groups[1].ifs # <<>> BY <2>6 DEF Pluggable, DeviceParts
      <4>2. d.groups # <<>> BY <1>3 DEF Groups
      <4> QED BY <2>6, <4>1, <4>2 DEF FirstIsZero
    <3> HIDE DEF n, D
    <3>4. {n + k - 1 : k \in D} = {0, 1} BY <3>1, <3>3
    <3> QED BY <1>2, <1>6, <2>1, <2>2, <3>2, <3>4
  <2> QED BY <1>2, <1>8, <2>1, <2>4, <2>5, <2>6
<1> QED BY <1>1, <1>7, <1>8

\* A label is what the function was labelled with, unless Windows takes its number
\* for the Microsoft string.
LEMMA StringIs ==
    ASSUME NEW d, Pluggable(d), 2 * MaxFunctions < MagicIndex, NEW s \in DOMAIN d.strings
    PROVE  (CHOOSE x \in StringBytes(d, s) : TRUE) = d.strings[s]
<1> DEFINE m == Len(d.groups)
           l == Len(d.strings)
<1>1. d.groups \in Seq(GroupSet) /\ d.strings \in Seq(Nat \X Nat) BY DEF Pluggable, DeviceParts, PartsTyped
<1>2. m \in Nat /\ l \in Nat /\ DOMAIN d.strings = 1 .. l BY <1>1
<1>3. l <= 2 * m /\ m <= MaxFunctions BY DEF Pluggable, Shaped, Labelled
<1> HIDE DEF m, l
<1>4. MaxFunctions \in Nat /\ MagicIndex = 238 BY CompositionAssumption DEF MagicIndex
<1>5. s \in 1 .. l BY <1>2
<1>6. s # MagicIndex BY <1>2, <1>3, <1>4, <1>5
<1>7. StringBytes(d, s) = {d.strings[s]} BY <1>6 DEF StringBytes
<1> QED BY <1>7

LEMMA LabelsTold ==
    ASSUME NEW d, Pluggable(d), 2 * MaxFunctions < MagicIndex, NEW x \in Range(ConfigBytes(d)),
           x.t \in {"names", "interface"}, x.string # 0
    PROVE  LET label == CHOOSE y \in StringBytes(d, x.string) : TRUE
           IN  IF x.t = "names" THEN label = <<x.of, 0>>
               ELSE x.num = d.groups[label[1]].ifs[1] /\ x.alt = label[2]
<1>1. Labelled(d) BY DEF Pluggable, Shaped
<1>2. CASE x.t = "names"
  <2>1. PICK g \in Groups(d) :
          \/ HasIad(d, g) /\ x = NamesRecord("association", g, RowOf(d, g), LabelOf(d, g))
          \/ x = NamesRecord("header", g, HeaderOf(d, g, 1), 0) /\ d.groups[g].kind \in {"uac", "uvc", "cdc"}
    BY <1>2, ThreeRecords
  <2>2. x.of = g /\ x.string = LabelOf(d, g)
    <3>1. x.of = g /\ (x.string = LabelOf(d, g) \/ x.string = 0) BY <2>1 DEF NamesRecord
    <3> QED BY <3>1
  <2>3. x.string = d.groups[g].string BY <2>2 DEF LabelOf
  <2>4. x.string \in DOMAIN d.strings /\ d.strings[x.string] = <<g, 0>> BY <1>1, <2>3 DEF Labelled
  <2>5. (CHOOSE y \in StringBytes(d, x.string) : TRUE) = <<g, 0>> BY <2>4, StringIs
  <2> QED BY <1>2, <2>2, <2>5
<1>3. CASE x.t = "interface"
  <2>1. PICK g \in Groups(d) : \E i \in DOMAIN d.groups[g].ifs : InterfaceRecord(d, g, i, x)
    BY <1>3, ThreeRecords
  <2>2. PICK i \in DOMAIN d.groups[g].ifs : InterfaceRecord(d, g, i, x) BY <2>1
  <2>3. PICK alt \in {0, 1} : x = InterfaceDesc(d, g, i, alt) /\ (alt = 1 => Alternates(d.groups[g].kind, i))
    BY <2>2 DEF InterfaceRecord
  <2> DEFINE s == d.groups[g].string
  <2>4. x.string = IF s = 0 \/ i # 1 THEN 0
                   ELSE IF d.groups[g].kind = "dfu" THEN s + alt ELSE s
    BY <2>3 DEF InterfaceDesc
  <2>5. s # 0 /\ i = 1 BY <2>4
  <2>6. s \in Nat BY PartsOfDevice
  <2>7. /\ d.groups[g].kind \in {"cdc", "msc", "dfu"}
        /\ s \in DOMAIN d.strings /\ d.strings[s] = <<g, 0>>
        /\ d.groups[g].kind = "dfu" => s + 1 \in DOMAIN d.strings /\ d.strings[s + 1] = <<g, 1>>
    BY <1>1, <2>5 DEF Labelled
  <2> HIDE DEF s
  <2>8. x.string \in DOMAIN d.strings /\ d.strings[x.string] = <<g, alt>>
    <3>1. CASE alt = 0
      <4>1. x.string = s BY <2>4, <2>5, <2>6, <3>1
      <4> QED BY <2>7, <3>1, <4>1
    <3>2. CASE alt = 1
      <4>1. d.groups[g].kind = "dfu" BY <2>3, <2>5, <2>7, <3>2 DEF Alternates
      <4>2. x.string = s + 1 BY <2>4, <2>5, <3>2, <4>1
      <4> QED BY <2>7, <3>2, <4>1, <4>2
    <3> QED BY <3>1, <3>2
  <2>9. (CHOOSE y \in StringBytes(d, x.string) : TRUE) = <<g, alt>> BY <2>8, StringIs
  <2>10. x.num = d.groups[g].ifs[1] /\ x.alt = alt BY <2>3, <2>5, RecordsSay
  <2>11. x.t # "names" BY <1>3
  <2> DEFINE label == CHOOSE y \in StringBytes(d, x.string) : TRUE
  <2>12. label = <<g, alt>> BY <2>9
  <2> HIDE DEF label
  <2>13. label[1] = g /\ label[2] = alt BY <2>12
  <2>14. IF x.t = "names" THEN label = <<x.of, 0>> ELSE x.num = d.groups[label[1]].ifs[1] /\ x.alt = label[2]
    BY <2>10, <2>11, <2>13
  <2> QED BY <2>14 DEF label
<1> QED BY <1>2, <1>3

-----------------------------------------------------------------------------
(* The list of a device's interfaces.                                      *)

FirstsOf(d) == {x \in Range(ConfigBytes(d)) : x.t = "interface" /\ x.alt = 0}
BelowIn(d, m) == {x \in FirstsOf(d) : x.num < m}

\* Each interface has one record that is its first alternate setting.
LEMMA FirstsAre ==
    ASSUME NEW d, Pluggable(d)
    PROVE  \A x : x \in FirstsOf(d) <=>
               \E g \in Groups(d) : \E i \in DOMAIN d.groups[g].ifs : x = InterfaceDesc(d, g, i, 0)
<1>1. ASSUME NEW x \in FirstsOf(d)
      PROVE  \E g \in Groups(d) : \E i \in DOMAIN d.groups[g].ifs : x = InterfaceDesc(d, g, i, 0)
  <2>1. x \in Range(ConfigBytes(d)) /\ x.t = "interface" /\ x.alt = 0 BY DEF FirstsOf
  <2>2. PICK g \in Groups(d) : \E i \in DOMAIN d.groups[g].ifs : InterfaceRecord(d, g, i, x)
    BY <2>1, ThreeRecords
  <2>3. PICK i \in DOMAIN d.groups[g].ifs : InterfaceRecord(d, g, i, x) BY <2>2
  <2>4. InterfaceDesc(d, g, i, 1).alt = 1 BY DEF InterfaceDesc
  <2>5. x = InterfaceDesc(d, g, i, 0) BY <2>1, <2>3, <2>4 DEF InterfaceRecord
  <2> QED BY <2>5
<1>2. ASSUME NEW g \in Groups(d), NEW i \in DOMAIN d.groups[g].ifs
      PROVE  InterfaceDesc(d, g, i, 0) \in FirstsOf(d)
  <2>1. DeviceParts(d) /\ Numbered(d) /\ \A h \in Groups(d) : d.groups[h].block BY DEF Pluggable, Wired
  <2>2. InterfaceDesc(d, g, i, 0) \in Range(ConfigBytes(d)) BY <2>1, RecordsOfDevice
  <2>3. InterfaceDesc(d, g, i, 0).t = "interface" /\ InterfaceDesc(d, g, i, 0).alt = 0 BY DEF InterfaceDesc
  <2> QED BY <2>2, <2>3 DEF FirstsOf
<1> QED BY <1>1, <1>2

\* Their numbers are those of the device's interfaces, each once.
LEMMA FirstsNumbered ==
    ASSUME NEW d, Pluggable(d)
    PROVE  /\ d.numIfs \in Nat
           /\ \A x \in FirstsOf(d) : x.num \in 0 .. d.numIfs - 1
           /\ \A x, y \in FirstsOf(d) : x.num = y.num => x = y
           /\ \A n \in 0 .. d.numIfs - 1 : \E x \in FirstsOf(d) : x.num = n
<1>1. d.numIfs \in Nat BY DEF Pluggable, DeviceParts, PartsTyped
<1>2. ASSUME NEW x \in FirstsOf(d) PROVE x.num \in 0 .. d.numIfs - 1
  <2>1. PICK g \in Groups(d) : \E i \in DOMAIN d.groups[g].ifs : x = InterfaceDesc(d, g, i, 0) BY FirstsAre
  <2>2. PICK i \in DOMAIN d.groups[g].ifs : x = InterfaceDesc(d, g, i, 0) BY <2>1
  <2>3. x.num = d.groups[g].ifs[i] BY <2>2, RecordsSay
  <2> DEFINE ifs == d.groups[g].ifs
  <2>4. ifs \in Seq(Nat) /\ i \in DOMAIN ifs BY PartsOfDevice
  <2>5. x.num \in IfsOf(d, g) BY <2>3 DEF IfsOf
  <2>6. x.num < d.numIfs BY <2>5 DEF Pluggable, DeviceParts, NumbersApart
  <2>7. x.num = ifs[i] BY <2>3
  <2> HIDE DEF ifs
  <2>8. x.num \in Nat BY <2>4, <2>7
  <2> QED BY <1>1, <2>6, <2>8
<1>3. ASSUME NEW x \in FirstsOf(d), NEW y \in FirstsOf(d), x.num = y.num PROVE x = y
  <2>1. PICK g \in Groups(d) : \E i \in DOMAIN d.groups[g].ifs : x = InterfaceDesc(d, g, i, 0) BY FirstsAre
  <2>2. PICK i \in DOMAIN d.groups[g].ifs : x = InterfaceDesc(d, g, i, 0) BY <2>1
  <2>3. PICK h \in Groups(d) : \E j \in DOMAIN d.groups[h].ifs : y = InterfaceDesc(d, h, j, 0) BY FirstsAre
  <2>4. PICK j \in DOMAIN d.groups[h].ifs : y = InterfaceDesc(d, h, j, 0) BY <2>3
  <2>5. d.groups[g].ifs[i] = d.groups[h].ifs[j] BY <1>3, <2>2, <2>4, RecordsSay
  <2>6. g = h /\ i = j BY <2>5, NumbersTell
  <2> QED BY <2>2, <2>4, <2>6
<1>4. ASSUME NEW n \in 0 .. d.numIfs - 1 PROVE \E x \in FirstsOf(d) : x.num = n
  <2>1. PICK g \in Groups(d) : n \in IfsOf(d, g) BY DEF Pluggable, Shaped, InRow
  <2>2. PICK i \in DOMAIN d.groups[g].ifs : n = d.groups[g].ifs[i] BY <2>1 DEF IfsOf
  <2>3. InterfaceDesc(d, g, i, 0) \in FirstsOf(d) BY FirstsAre
  <2>4. InterfaceDesc(d, g, i, 0).num = n BY <2>2, RecordsSay
  <2> QED BY <2>3, <2>4
<1> QED BY <1>1, <1>2, <1>3, <1>4

\* So many interfaces have a number below m.
LEMMA BelowCounted ==
    ASSUME NEW d, Pluggable(d), NEW m \in 0 .. d.numIfs
    PROVE  Cardinality(BelowIn(d, m)) = m
<1> DEFINE F == FirstsOf(d)
           T == BelowIn(d, m)
           S == 0 .. m - 1
           Record(n) == CHOOSE x \in F : x.num = n
           f == [n \in S |-> Record(n)]
<1>1. /\ d.numIfs \in Nat
      /\ \A x \in F : x.num \in 0 .. d.numIfs - 1
      /\ \A x, y \in F : x.num = y.num => x = y
      /\ \A n \in 0 .. d.numIfs - 1 : \E x \in F : x.num = n
  BY FirstsNumbered
<1>2. m \in Nat /\ m <= d.numIfs BY <1>1
<1>3. T = {x \in F : x.num < m} BY DEF BelowIn
<1> HIDE DEF F, T
<1>4. \A n \in S : Record(n) \in F /\ Record(n).num = n BY <1>1, <1>2
<1> HIDE DEF Record
<1>5. \A n \in S : n < m BY <1>2
<1>6. f \in [S -> T] BY <1>3, <1>4, <1>5
<1>7. ASSUME NEW j \in S, NEW k \in S, f[j] = f[k] PROVE j = k
  <2>1. Record(j) = Record(k) BY <1>7
  <2> QED BY <1>4, <2>1
<1>8. ASSUME NEW x \in T PROVE \E n \in S : f[n] = x
  <2>1. x \in F /\ x.num < m /\ x.num \in 0 .. d.numIfs - 1 BY <1>1, <1>3
  <2>2. x.num \in S BY <1>1, <1>2, <2>1
  <2>3. Record(x.num) = x BY <1>1, <1>4, <2>1, <2>2
  <2> QED BY <2>2, <2>3
<1>9. DOMAIN f = S OBVIOUS
<1> HIDE DEF f, S
<1>10. f \in Injection(S, T) BY <1>6, <1>7, <1>9 DEF Injection, IsInjective
<1>11. f \in Surjection(S, T) BY <1>6, <1>8 DEF Surjection
<1>12. ExistsBijection(S, T) BY <1>10, <1>11 DEF ExistsBijection, Bijection
<1>13. IsFiniteSet(S) /\ Cardinality(S) = m
  <2>1. 0 \in Int /\ m - 1 \in Int BY <1>2
  <2>2. /\ IsFiniteSet(0 .. m - 1)
        /\ Cardinality(0 .. m - 1) = IF 0 > m - 1 THEN 0 ELSE (m - 1) - 0 + 1
    BY <2>1, FS_Interval
  <2>3. (IF 0 > m - 1 THEN 0 ELSE (m - 1) - 0 + 1) = m BY <1>2
  <2> QED BY <2>2, <2>3 DEF S
<1>14. Cardinality(T) = Cardinality(S) BY <1>12, <1>13, FS_Bijection
<1> QED BY <1>13, <1>14 DEF T

\* The class of an interface is at the place that its number gives it.
LEMMA TriplesTold ==
    ASSUME NEW d, Pluggable(d), NEW g \in Groups(d), NEW i \in DOMAIN d.groups[g].ifs
    PROVE  InterfaceTriples(d)[d.groups[g].ifs[i] + 1] = {ClassOf(d.groups[g].kind, i)}
<1> DEFINE F == FirstsOf(d)
           n == d.groups[g].ifs[i]
           x == InterfaceDesc(d, g, i, 0)
           All == {y.num : y \in F}
           Count(y) == Cardinality({z \in F : z.num < y.num})
           Classes(k) == {y.class : y \in {z \in F : Count(z) = k - 1}}
<1>1. InterfaceTriples(d) = [k \in 1 .. Cardinality(All) |-> Classes(k)] BY DEF InterfaceTriples, FirstsOf
<1>2. /\ d.numIfs \in Nat
      /\ \A y \in F : y.num \in 0 .. d.numIfs - 1
      /\ \A y, z \in F : y.num = z.num => y = z
      /\ \A m \in 0 .. d.numIfs - 1 : \E y \in F : y.num = m
  BY FirstsNumbered
<1>3. x \in F BY FirstsAre
<1>4. x.num = n /\ x.class = ClassOf(d.groups[g].kind, i) BY RecordsSay
<1>5. \A m \in 0 .. d.numIfs : Cardinality({z \in F : z.num < m}) = m BY BelowCounted DEF BelowIn
<1> HIDE DEF F, x
<1>6. \A y \in F : Count(y) = y.num BY <1>2, <1>5
<1>7. All = 0 .. d.numIfs - 1 BY <1>2
<1>8. Cardinality(All) = d.numIfs
  <2>1. 0 \in Int /\ d.numIfs - 1 \in Int BY <1>2
  <2>2. Cardinality(0 .. d.numIfs - 1) = IF 0 > d.numIfs - 1 THEN 0 ELSE (d.numIfs - 1) - 0 + 1
    BY <2>1, FS_Interval
  <2>3. (IF 0 > d.numIfs - 1 THEN 0 ELSE (d.numIfs - 1) - 0 + 1) = d.numIfs BY <1>2
  <2> QED BY <1>7, <2>2, <2>3
<1> HIDE DEF Count, All, n
<1>9. n \in 0 .. d.numIfs - 1 BY <1>2, <1>3, <1>4
<1>10. n + 1 \in 1 .. Cardinality(All) BY <1>2, <1>8, <1>9
<1>11. (n + 1) - 1 = n BY <1>2, <1>9
<1>12. {z \in F : Count(z) = (n + 1) - 1} = {x} BY <1>2, <1>3, <1>4, <1>6, <1>11
<1>13. Classes(n + 1) = {ClassOf(d.groups[g].kind, i)} BY <1>4, <1>12
<1> HIDE DEF Classes
<1>14. InterfaceTriples(d)[n + 1] = Classes(n + 1) BY <1>1, <1>10
<1> QED BY <1>13, <1>14 DEF n

-----------------------------------------------------------------------------
\* What a host is told is right, once the device is plugged.
LEMMA PluggedIsPluggable ==
    ASSUME FunctionsKept, WiredInv, ShapedInv, plugged = "yes"
    PROVE  Pluggable(dev)
<1>1. DeviceParts(dev) /\ \A g \in Groups(dev) : dev.groups[g].ifs # <<>> BY DEF FunctionsKept, Kept
<1>2. Wired(dev) /\ \A g \in Groups(dev) : dev.groups[g].block BY DEF WiredInv
<1>3. Shaped(dev) /\ ~EndpointConflict(dev) BY DEF ShapedInv, ShapedState
<1> QED BY <1>1, <1>2, <1>3 DEF Pluggable

LEMMA ToldRight == FunctionsKept /\ WiredInv /\ ShapedInv /\ 2 * MaxFunctions < MagicIndex => RoutedAsDescribed
<1> DEFINE descs == Range(ConfigBytes(dev))
<1> SUFFICES ASSUME FunctionsKept, WiredInv, ShapedInv, 2 * MaxFunctions < MagicIndex, plugged = "yes"
             PROVE  /\ PipesRouted(Described(dev))
                    /\ HeadersNameAll(descs)
                    /\ LabelsFit(descs)
                    /\ ListedAsDescribed(InterfaceTriples(dev))
                    /\ dev.composite \/ (Len(dev.groups) = 1 /\ HasIad(dev, 1)) => dev.triple = "misc"
  BY DEF RoutedAsDescribed
<1>1. Pluggable(dev) BY PluggedIsPluggable
<1>2. PipesRouted(Described(dev))
  <2>1. ASSUME NEW x \in Described(dev)
        PROVE  /\ x.desc.addr \in DOMAIN dev.epMap
               /\ LET id == dev.epMap[x.desc.addr] IN dev.groups[id[1]].ifs[id[2]] = x.num
               /\ x.desc.size \in {dev.speed, "any"}
    BY <1>1, RoutedToTeller, SizesTold
  <2>2. ASSUME NEW id \in DOMAIN dev.addr
        PROVE  /\ dev.addr[id] \in DOMAIN dev.epMap /\ dev.epMap[dev.addr[id]] = id
               /\ dev.groups[id[1]].block => \E x \in Described(dev) : x.desc.addr = dev.addr[id]
    <3>1. Matched(dev.addr, dev.epMap) BY <1>1 DEF Pluggable, Wired, Wiring
    <3>2. \E x \in Described(dev) : x.desc.addr = dev.addr[id] BY <1>1, EndpointsTold
    <3> QED BY <3>1, <3>2 DEF Matched
  <2> QED BY <2>1, <2>2 DEF PipesRouted
<1>3. HeadersNameAll(descs) BY <1>1, HeadersTold DEF HeadersNameAll, NamesOwn, IsUnion
<1>4. LabelsFit(descs) BY <1>1, LabelsTold DEF LabelsFit
<1>5. ListedAsDescribed(InterfaceTriples(dev)) BY <1>1, TriplesTold DEF ListedAsDescribed
<1>6. ASSUME dev.composite \/ (Len(dev.groups) = 1 /\ HasIad(dev, 1)) PROVE dev.triple = "misc"
  <2>1. TripleRight(dev) BY <1>1 DEF Pluggable, Shaped
  <2> QED BY <1>6, <2>1 DEF TripleRight, HasIad
<1> QED BY <1>2, <1>3, <1>4, <1>5, <1>6

\* What a host is told of a device and what the device does agree: its pipes, what
\* names its interfaces, its labels, the list of its interfaces and its class.  No
\* label may have the index of the string that Windows asks for.
THEOREM PartsAreDescribed ==
    ASSUME 2 * MaxFunctions < MagicIndex
    PROVE  CompositionSpec => []RoutedAsDescribed
<1>1. FunctionsKept /\ WiredInv /\ ShapedInv => RoutedAsDescribed BY ToldRight
<1> QED BY <1>1, FunctionsAreKept, PartsAreWired, PartsAreShaped, PTL

-----------------------------------------------------------------------------
(* The drivers of a host, which walk over the configuration.               *)

RoleOf(x) == <<x.type, x.addr[2]>>

WalkOne(driver, s, x) ==
    CASE x.t = "interface" -> [s EXCEPT !.inside = IsInside(driver, @, x)]
      [] x.t = "endpoint" /\ s.inside /\ Uses(driver, x.type, x.addr[2]) ->
            [s EXCEPT !.pipes = Insert(@, RoleOf(x), x.addr)]
      [] OTHER -> s

WalkStart(driver) == [inside |-> FALSE, pipes |-> Defaults[driver]]
WalkStates(R, A) == [inside : BOOLEAN, pipes : UNION {[D -> A] : D \in SUBSET R}]

LEMMA InsertTyped ==
    ASSUME NEW R, NEW A, NEW f \in UNION {[D -> A] : D \in SUBSET R}, NEW r \in R, NEW a \in A
    PROVE  Insert(f, r, a) \in UNION {[D -> A] : D \in SUBSET R}
<1>1. PICK D \in SUBSET R : f \in [D -> A] OBVIOUS
<1> DEFINE E == D \cup {r}
           h == Insert(f, r, a)
<1>2. E \in SUBSET R OBVIOUS
<1>3. h \in [E -> A] BY <1>1 DEF Insert
<1> HIDE DEF E, h
<1> QED BY <1>2, <1>3 DEF h

LEMMA WalkOneTyped ==
    ASSUME NEW R, NEW A, NEW driver, NEW s \in WalkStates(R, A), NEW x, RoleOf(x) \in R, x.addr \in A
    PROVE  WalkOne(driver, s, x) \in WalkStates(R, A)
<1> DEFINE F == UNION {[D -> A] : D \in SUBSET R}
           T == [inside : BOOLEAN, pipes : F]
<1>1. s \in T BY DEF WalkStates
<1>2. s.pipes \in F BY <1>1
<1>3. Insert(s.pipes, RoleOf(x), x.addr) \in F BY <1>2, InsertTyped
<1>4. \A i : IsInside(driver, i, x) \in BOOLEAN BY DEF IsInside
<1> HIDE DEF F
<1>5. [s EXCEPT !.inside = IsInside(driver, @, x)] \in T BY <1>1, <1>4
<1>6. [s EXCEPT !.pipes = Insert(@, RoleOf(x), x.addr)] \in T BY <1>1, <1>3
<1> HIDE DEF T
<1>7. WalkOne(driver, s, x) \in T BY <1>1, <1>5, <1>6 DEF WalkOne
<1> QED BY <1>7 DEF T, F, WalkStates

\* What a driver found when it has walked over so many records.
Walks(P, driver, c) ==
    /\ P[0] = WalkStart(driver)
    /\ \A i \in 1 .. Len(c) : P[i] = WalkOne(driver, P[i - 1], c[i])

LEMMA WalkTyped ==
    ASSUME NEW driver \in DOMAIN DriverClass, NEW c, Listed(c)
    PROVE  \E R, A : /\ WalkStart(driver) \in WalkStates(R, A)
                     /\ \A i \in 1 .. Len(c) : RoleOf(c[i]) \in R /\ c[i].addr \in A
<1> DEFINE def == Defaults[driver]
           R == DOMAIN def \cup {RoleOf(c[i]) : i \in 1 .. Len(c)}
           A == {def[r] : r \in DOMAIN def} \cup {c[i].addr : i \in 1 .. Len(c)}
           F == UNION {[D -> A] : D \in SUBSET R}
<1>1. def = [r \in DOMAIN def |-> def[r]]
  <2>1. driver \in {"hid", "bt", "msc", "mtp"} BY DEF DriverClass
  <2> QED BY <2>1 DEF Defaults
<1> HIDE DEF def
<1>2. def \in [DOMAIN def -> A] BY <1>1
<1>3. DOMAIN def \in SUBSET R OBVIOUS
<1>4. \A i \in 1 .. Len(c) : RoleOf(c[i]) \in R /\ c[i].addr \in A OBVIOUS
<1> HIDE DEF R, A
<1>5. def \in F BY <1>2, <1>3
<1> HIDE DEF F
<1>6. [inside |-> FALSE, pipes |-> def] \in [inside : BOOLEAN, pipes : F] BY <1>5
<1>7. WalkStart(driver) \in WalkStates(R, A) BY <1>6 DEF WalkStart, WalkStates, def, F
<1> QED BY <1>4, <1>7

LEMMA DiscoverWalks ==
    ASSUME NEW d, NEW driver \in DOMAIN DriverClass, Listed(ConfigBytes(d))
    PROVE  \E P : Walks(P, driver, ConfigBytes(d)) /\ Discover(d, driver) = P[Len(ConfigBytes(d))].pipes
<1> DEFINE c == ConfigBytes(d)
           n == Len(c)
           base == WalkStart(driver)
           Body(g) == [t \in SUBSET (DOMAIN c) |->
                          IF t = {} THEN base ELSE WalkOne(driver, g[t \ {Max(t)}], c[Max(t)])]
           iter == CHOOSE g : g = Body(g)
<1>1. Discover(d, driver) = iter[DOMAIN c].pipes
  BY DEF Discover, FoldLeft, MapThenFoldSet, WalkOne, RoleOf, WalkStart
<1>2. n \in Nat /\ DOMAIN c = 1 .. n BY DEF Listed
<1>3. PICK R, A : /\ base \in WalkStates(R, A)
                  /\ \A i \in 1 .. n : RoleOf(c[i]) \in R /\ c[i].addr \in A
  BY WalkTyped
<1> DEFINE Y == WalkStates(R, A)
           step == [p \in (1 .. n) \X Y |-> WalkOne(driver, p[2], c[p[1]])]
<1> HIDE DEF c, base
<1>4. \A s \in Y : \A i \in 1 .. n : WalkOne(driver, s, c[i]) \in Y BY <1>3, WalkOneTyped
<1> HIDE DEF Y, n
<1>5. step \in [(1 .. n) \X Y -> Y] BY <1>4
<1>6. base \in Y BY <1>3 DEF Y
<1>7. PICK f : FoldsTo(f, n, Y, base, step)
  <2> HIDE DEF step
  <2> QED BY <1>2, <1>5, <1>6, FoldRuns
<1>8. f = Body(f)
  <2>1. ASSUME NEW t \in SUBSET (1 .. n), t # {}
        PROVE  f[t] = WalkOne(driver, f[t \ {Max(t)}], c[Max(t)])
    <3>1. Max(t) \in 1 .. n BY <1>2, <2>1, MaxIn
    <3>2. f[t] = step[<<Max(t), f[t \ {Max(t)}]>>] /\ f[t \ {Max(t)}] \in Y
      BY <1>7, <2>1 DEF FoldsTo
    <3> QED BY <3>1, <3>2
  <2> QED BY <1>2, <1>7, <2>1 DEF FoldsTo
<1>9. iter = Body(iter) BY <1>8
<1> DEFINE P == [i \in 0 .. n |-> iter[1 .. i]]
<1>10. \A t \in SUBSET (1 .. n) : iter[t] = IF t = {} THEN base ELSE WalkOne(driver, iter[t \ {Max(t)}], c[Max(t)])
  BY <1>2, <1>9
<1> HIDE DEF iter
<1>11. P[0] = base /\ P[n] = iter[DOMAIN c]
  <2>1. 1 .. 0 = {} /\ {} \in SUBSET (1 .. n) OBVIOUS
  <2>2. iter[{}] = base BY <1>10, <2>1
  <2> QED BY <1>2, <2>1, <2>2
<1>12. ASSUME NEW i \in 1 .. n PROVE P[i] = WalkOne(driver, P[i - 1], c[i])
  <2>1. /\ 1 .. i \in SUBSET (1 .. n) /\ 1 .. i # {}
        /\ Max(1 .. i) = i /\ (1 .. i) \ {i} = 1 .. (i - 1)
    BY <1>2, UpToIs
  <2>2. iter[1 .. i] = WalkOne(driver, iter[(1 .. i) \ {Max(1 .. i)}], c[Max(1 .. i)]) BY <1>10, <2>1, Zenon
  <2>3. P[i] = iter[1 .. i] /\ P[i - 1] = iter[1 .. (i - 1)] BY <1>2
  <2> QED BY <2>1, <2>2, <2>3
<1>13. Walks(P, driver, c) BY <1>11, <1>12 DEF Walks, base, n
<1> HIDE DEF P
<1>14. Discover(d, driver) = P[n].pipes BY <1>1, <1>11 DEF c
<1> QED BY <1>13, <1>14 DEF c, n

\* A record that the walk takes: a pipe that the driver uses, of an interface that
\* it opens.
Taken(driver, c, p) ==
    /\ c[p].t = "endpoint" /\ Uses(driver, c[p].type, c[p].addr[2])
    /\ \E q \in 1 .. p : Owns(c, q, p) /\ IsInside(driver, FALSE, c[q])

InsideAt(driver, c, i) == \E q \in 1 .. i : Owns(c, q, i) /\ IsInside(driver, FALSE, c[q])

LEMMA OwnsNext ==
    ASSUME NEW c, NEW i \in Nat, i # 0
    PROVE  /\ c[i].t = "interface" => \A q \in 1 .. i : Owns(c, q, i) <=> q = i
           /\ c[i].t # "interface" => \A q \in 1 .. i : Owns(c, q, i) <=> q \in 1 .. i - 1 /\ Owns(c, q, i - 1)
<1>1. ASSUME c[i].t = "interface", NEW q \in 1 .. i PROVE Owns(c, q, i) <=> q = i
  <2>1. CASE q = i
    <3>1. q + 1 .. i = {} BY <2>1
    <3> QED BY <1>1, <2>1, <3>1 DEF Owns
  <2>2. CASE q # i
    <3>1. i \in q + 1 .. i BY <2>2
    <3> QED BY <1>1, <2>2, <3>1 DEF Owns
  <2> QED BY <2>1, <2>2
<1>2. ASSUME c[i].t # "interface", NEW q \in 1 .. i
      PROVE  Owns(c, q, i) <=> q \in 1 .. i - 1 /\ Owns(c, q, i - 1)
  <2>1. CASE q = i BY <1>2, <2>1 DEF Owns
  <2>2. CASE q # i
    <3>1. q \in 1 .. i - 1 /\ q + 1 .. i = (q + 1 .. i - 1) \cup {i} BY <2>2
    <3> QED BY <1>2, <3>1 DEF Owns
  <2> QED BY <2>1, <2>2
<1> QED BY <1>1, <1>2

LEMMA InsideNext ==
    ASSUME NEW driver, NEW c, NEW i \in Nat, i # 0
    PROVE  /\ c[i].t = "interface" => (InsideAt(driver, c, i) <=> IsInside(driver, FALSE, c[i]))
           /\ c[i].t # "interface" => (InsideAt(driver, c, i) <=> InsideAt(driver, c, i - 1))
<1>1. ASSUME c[i].t = "interface" PROVE InsideAt(driver, c, i) <=> IsInside(driver, FALSE, c[i])
  <2>1. i \in 1 .. i OBVIOUS
  <2>2. \A q \in 1 .. i : Owns(c, q, i) <=> q = i BY <1>1, OwnsNext
  <2> QED BY <2>1, <2>2 DEF InsideAt
<1>2. ASSUME c[i].t # "interface" PROVE InsideAt(driver, c, i) <=> InsideAt(driver, c, i - 1)
  <2>1. \A q \in 1 .. i : Owns(c, q, i) <=> q \in 1 .. i - 1 /\ Owns(c, q, i - 1) BY <1>2, OwnsNext
  <2>2. \A q \in 1 .. i - 1 : q \in 1 .. i OBVIOUS
  <2> QED BY <2>1, <2>2 DEF InsideAt
<1> QED BY <1>1, <1>2

\* The pipe of a role is the last that was taken: if all of them have address a, it
\* is a.
Gathered(driver, c, s, i, r, a) ==
    /\ s.inside \in BOOLEAN /\ (s.inside <=> InsideAt(driver, c, i))
    /\ (\E p \in 1 .. i : Taken(driver, c, p) /\ RoleOf(c[p]) = r) => r \in DOMAIN s.pipes /\ s.pipes[r] = a

LEMMA GatheredNext ==
    ASSUME NEW driver, NEW c, NEW i \in Nat, i # 0, NEW s, DOMAIN s = {"inside", "pipes"}, NEW r, NEW a,
           Gathered(driver, c, s, i - 1, r, a),
           Taken(driver, c, i) /\ RoleOf(c[i]) = r => c[i].addr = a
    PROVE  Gathered(driver, c, WalkOne(driver, s, c[i]), i, r, a)
<1> DEFINE x == c[i]
           new == WalkOne(driver, s, x)
           Found(m) == \E p \in 1 .. m : Taken(driver, c, p) /\ RoleOf(c[p]) = r
           Here == Taken(driver, c, i) /\ RoleOf(c[i]) = r
<1>1. /\ s.inside \in BOOLEAN /\ (s.inside <=> InsideAt(driver, c, i - 1))
      /\ Found(i - 1) => r \in DOMAIN s.pipes /\ s.pipes[r] = a
  BY DEF Gathered
<1>2. Found(i) <=> Found(i - 1) \/ Here
  <2>1. 1 .. i = (1 .. i - 1) \cup {i} OBVIOUS
  <2> QED BY <2>1
<1>3. Taken(driver, c, i) <=> x.t = "endpoint" /\ Uses(driver, x.type, x.addr[2]) /\ InsideAt(driver, c, i)
  BY DEF Taken, InsideAt
<1> HIDE DEF Found, x
<1>4. CASE x.t = "interface"
  <2>1. new = [s EXCEPT !.inside = IsInside(driver, @, x)] BY <1>4 DEF WalkOne
  <2>2. IsInside(driver, s.inside, x) = IsInside(driver, FALSE, x) /\ IsInside(driver, FALSE, x) \in BOOLEAN
    BY DEF IsInside
  <2>3. InsideAt(driver, c, i) <=> IsInside(driver, FALSE, x) BY <1>4, InsideNext DEF x
  <2> HIDE DEF new
  <2>4. new.inside = IsInside(driver, FALSE, x) /\ new.pipes = s.pipes BY <2>1, <2>2
  <2>5. ~Taken(driver, c, i) BY <1>3, <1>4
  <2>6. Found(i) <=> Found(i - 1) BY <1>2, <2>5
  <2>7. Found(i) => r \in DOMAIN new.pipes /\ new.pipes[r] = a BY <1>1, <2>4, <2>6
  <2>8. new.inside \in BOOLEAN /\ (new.inside <=> InsideAt(driver, c, i)) BY <2>2, <2>3, <2>4
  <2> QED BY <2>7, <2>8 DEF Gathered, new, x, Found
<1>5. CASE x.t = "endpoint" /\ s.inside /\ Uses(driver, x.type, x.addr[2])
  <2>1. new = [s EXCEPT !.pipes = Insert(@, RoleOf(x), x.addr)] BY <1>5 DEF WalkOne
  <2> HIDE DEF new
  <2>2. new.inside = s.inside /\ new.pipes = Insert(s.pipes, RoleOf(x), x.addr) BY <2>1
  <2>3. InsideAt(driver, c, i) <=> InsideAt(driver, c, i - 1) BY <1>5, InsideNext DEF x
  <2>4. Taken(driver, c, i) BY <1>1, <1>3, <1>5, <2>3
  <2>5. new.inside \in BOOLEAN /\ (new.inside <=> InsideAt(driver, c, i)) BY <1>1, <2>2, <2>3
  <2>6. Extended(new.pipes, s.pipes, RoleOf(x), x.addr) BY <2>2, Inserted
  <2>7. CASE RoleOf(x) = r
    <3>1. x.addr = a BY <2>4, <2>7 DEF x
    <3>2. r \in DOMAIN new.pipes /\ new.pipes[r] = a BY <2>6, <2>7, <3>1 DEF Extended
    <3> QED BY <2>5, <3>2 DEF Gathered, new, x
  <2>8. CASE RoleOf(x) # r
    <3>1. Found(i) <=> Found(i - 1) BY <1>2, <2>8 DEF x
    <3>2. Found(i) => r \in DOMAIN new.pipes /\ new.pipes[r] = a BY <1>1, <2>6, <2>8, <3>1 DEF Extended
    <3> QED BY <2>5, <3>2 DEF Gathered, new, x, Found
  <2> QED BY <2>7, <2>8
<1>6. CASE x.t # "interface" /\ ~(x.t = "endpoint" /\ s.inside /\ Uses(driver, x.type, x.addr[2]))
  <2>1. new = s BY <1>6 DEF WalkOne
  <2> HIDE DEF new
  <2>2. InsideAt(driver, c, i) <=> InsideAt(driver, c, i - 1) BY <1>6, InsideNext DEF x
  <2>3. ~Taken(driver, c, i) BY <1>1, <1>3, <1>6, <2>2
  <2>4. Found(i) <=> Found(i - 1) BY <1>2, <2>3
  <2>5. Found(i) => r \in DOMAIN new.pipes /\ new.pipes[r] = a BY <1>1, <2>1, <2>4
  <2>6. new.inside \in BOOLEAN /\ (new.inside <=> InsideAt(driver, c, i)) BY <1>1, <2>1, <2>2
  <2> QED BY <2>5, <2>6 DEF Gathered, new, x, Found
<1> QED BY <1>4, <1>5, <1>6

LEMMA WalkFinds ==
    ASSUME NEW d, NEW driver \in DOMAIN DriverClass, Listed(ConfigBytes(d)), NEW r, NEW a,
           \A p \in DOMAIN ConfigBytes(d) :
               Taken(driver, ConfigBytes(d), p) /\ RoleOf(ConfigBytes(d)[p]) = r => ConfigBytes(d)[p].addr = a,
           \E p \in DOMAIN ConfigBytes(d) : Taken(driver, ConfigBytes(d), p) /\ RoleOf(ConfigBytes(d)[p]) = r
    PROVE  Discover(d, driver)[r] = a
<1> DEFINE c == ConfigBytes(d)
           n == Len(c)
<1>1. n \in Nat /\ DOMAIN c = 1 .. n BY DEF Listed
<1>2. PICK P : Walks(P, driver, c) /\ Discover(d, driver) = P[n].pipes BY DiscoverWalks
<1>3. P[0] = WalkStart(driver) /\ \A i \in 1 .. n : P[i] = WalkOne(driver, P[i - 1], c[i]) BY <1>2 DEF Walks
<1> DEFINE G == {i \in 0 .. n : DOMAIN P[i] = {"inside", "pipes"} /\ Gathered(driver, c, P[i], i, r, a)}
<1>4. \A p \in 1 .. n : Taken(driver, c, p) /\ RoleOf(c[p]) = r => c[p].addr = a BY <1>1
<1>5. \E p \in 1 .. n : Taken(driver, c, p) /\ RoleOf(c[p]) = r BY <1>1
<1> HIDE DEF c, n
<1>6. 0 \in G
  <2>1. DOMAIN P[0] = {"inside", "pipes"} /\ P[0].inside = FALSE BY <1>3 DEF WalkStart
  <2>2. 1 .. 0 = {} /\ 0 \in 0 .. n BY <1>1
  <2>3. ~InsideAt(driver, c, 0) BY <2>2 DEF InsideAt
  <2>4. P[0].inside \in BOOLEAN /\ (P[0].inside <=> InsideAt(driver, c, 0)) BY <2>1, <2>3
  <2>5. Gathered(driver, c, P[0], 0, r, a) BY <2>2, <2>4 DEF Gathered
  <2> QED BY <2>1, <2>2, <2>5
<1>7. ASSUME NEW i \in 1 .. n, i - 1 \in G PROVE i \in G
  <2>1. i \in Nat /\ i # 0 /\ i \in 0 .. n BY <1>1
  <2>2. DOMAIN P[i - 1] = {"inside", "pipes"} /\ Gathered(driver, c, P[i - 1], i - 1, r, a) BY <1>7
  <2>3. P[i] = WalkOne(driver, P[i - 1], c[i]) BY <1>3
  <2>4. Gathered(driver, c, WalkOne(driver, P[i - 1], c[i]), i, r, a) BY <1>4, <2>1, <2>2, GatheredNext
  <2>5. DOMAIN WalkOne(driver, P[i - 1], c[i]) = {"inside", "pipes"} BY <2>2 DEF WalkOne
  <2> QED BY <2>1, <2>3, <2>4, <2>5
<1> HIDE DEF G
<1>8. \A i \in 0 .. n : i \in G BY <1>1, <1>6, <1>7, UpTo
<1>9. n \in 0 .. n BY <1>1
<1>10. Gathered(driver, c, P[n], n, r, a) BY <1>8, <1>9 DEF G
<1>11. P[n].pipes[r] = a BY <1>5, <1>10 DEF Gathered
<1> QED BY <1>2, <1>11 DEF c, n

SameRole(kind, i, k, j, m) ==
    /\ InterfacesOf[kind][i][k].type = InterfacesOf[kind][j][m].type
    /\ InterfacesOf[kind][i][k].dir = InterfacesOf[kind][j][m].dir

\* The types and directions of what the kinds that drivers open declare.
LEMMA RolesApart ==
    ASSUME NEW kind \in DOMAIN DriverClass,
           NEW i \in 1 .. Len(InterfacesOf[kind]), NEW k \in 1 .. Len(InterfacesOf[kind][i]),
           NEW j \in 1 .. Len(InterfacesOf[kind]), NEW m \in 1 .. Len(InterfacesOf[kind][j]),
           Uses(kind, InterfacesOf[kind][i][k].type, InterfacesOf[kind][i][k].dir)
    PROVE  (kind = "bt" => i = 1) /\ (SameRole(kind, i, k, j, m) => i = j /\ k = m)
<1>1. CASE kind = "hid" BY <1>1 DEF InterfacesOf, In, Out, Uses, SameRole
<1>2. CASE kind = "msc" BY <1>2 DEF InterfacesOf, In, Out, Uses, SameRole
<1>3. CASE kind = "mtp" BY <1>3 DEF InterfacesOf, In, Out, Uses, SameRole
<1>4. CASE kind = "bt"
  <2> DEFINE first == <<In(1, "interrupt"), Out(2, "bulk"), In(2, "bulk")>>
             second == <<Out(3, "iso"), In(3, "iso")>>
             all == InterfacesOf[kind]
  <2>1. all = <<first, second>> BY <1>4 DEF InterfacesOf
  <2>2. /\ Len(first) = 3 /\ first[1].type = "interrupt" /\ first[2].type = "bulk" /\ first[3].type = "bulk"
        /\ first[2].dir = "out" /\ first[3].dir = "in"
        /\ Len(second) = 2 /\ second[1].type = "iso" /\ second[2].type = "iso"
    BY DEF In, Out
  <2>3. Uses(kind, all[i][k].type, all[i][k].dir) /\ i \in 1 .. Len(all) /\ k \in 1 .. Len(all[i])
        /\ j \in 1 .. Len(all) /\ m \in 1 .. Len(all[j])
    OBVIOUS
  <2> HIDE DEF first, second, all
  <2>4. Len(all) = 2 /\ all[1] = first /\ all[2] = second BY <2>1
  <2>5. all[i][k].type # "iso" BY <1>4, <2>3 DEF Uses
  <2>6. i = 1
    <3>1. i = 1 \/ i = 2 BY <2>3, <2>4
    <3>2. ASSUME i = 2 PROVE FALSE
      <4>1. k \in 1 .. 2 BY <2>2, <2>3, <2>4, <3>2
      <4> QED BY <2>2, <2>4, <2>5, <3>2, <4>1
    <3> QED BY <3>1, <3>2
  <2>7. ASSUME SameRole(kind, i, k, j, m) PROVE i = j /\ k = m
    <3>0. all[i][k].type = all[j][m].type /\ all[i][k].dir = all[j][m].dir BY <2>7 DEF SameRole, all
    <3>1. j = 1
      <4>1. j = 1 \/ j = 2 BY <2>3, <2>4
      <4>2. ASSUME j = 2 PROVE FALSE
        <5>1. m \in 1 .. 2 BY <2>2, <2>3, <2>4, <4>2
        <5> QED BY <2>2, <2>4, <2>5, <3>0, <4>2, <5>1
      <4> QED BY <4>1, <4>2
    <3>2. k \in 1 .. 3 /\ m \in 1 .. 3 BY <2>2, <2>3, <2>4, <2>6, <3>1
    <3>3. first[k].type = first[m].type /\ first[k].dir = first[m].dir BY <2>4, <2>6, <3>0, <3>1
    <3> QED BY <2>2, <2>6, <3>1, <3>2, <3>3
  <2> QED BY <2>6, <2>7 DEF all
<1> QED BY <1>1, <1>2, <1>3, <1>4 DEF DriverClass

LEMMA ClassesApart ==
    ASSUME NEW kind \in DOMAIN DriverClass, NEW other \in DOMAIN InterfacesOf,
           NEW i \in 1 .. Len(InterfacesOf[other])
    PROVE  ClassOf(other, i) = DriverClass[kind] <=> other = kind
<1>1. kind \in {"hid", "bt", "msc", "mtp"} BY DEF DriverClass
<1>2. CASE other = "cdc"
  <2>1. i = 1 \/ i = 2 BY <1>2 DEF InterfacesOf
  <2>2. ClassOf(other, i) \in {"communications", "cdc data"}
    <3> DEFINE s == <<"communications", "cdc data">>
    <3>1. s[1] = "communications" /\ s[2] = "cdc data" OBVIOUS
    <3>2. ClassOf(other, i) = s[i] BY <1>2 DEF ClassOf
    <3> HIDE DEF s
    <3> QED BY <2>1, <3>1, <3>2
  <2>3. DriverClass[kind] \in {"hid", "wireless", "storage", "image"} BY <1>1 DEF DriverClass
  <2> QED BY <1>1, <1>2, <2>2, <2>3
<1>3. CASE other # "cdc"
  <2>1. other \in {"uac", "uvc", "bt", "dfu", "hid", "msc", "mtp", "raw"} BY <1>3 DEF InterfacesOf
  <2> QED BY <1>1, <1>3, <2>1 DEF ClassOf, DriverClass
<1> QED BY <1>2, <1>3

\* Audio has no pipe that a driver uses.
LEMMA AudioIsNotUsed ==
    ASSUME NEW kind \in DOMAIN DriverClass, NEW dir,
           NEW i \in 1 .. Len(InterfacesOf["uac"]), NEW k \in 1 .. Len(InterfacesOf["uac"][i])
    PROVE  ~Uses(kind, InterfacesOf["uac"][i][k].type, dir)
<1>1. InterfacesOf["uac"][i][k].type = "iso"
  BY DEF InterfacesOf, In, Out
<1> QED BY <1>1 DEF Uses, DriverClass

\* An endpoint record that the configuration has belongs to an endpoint of the
\* interface whose record is before it.
LEMMA OwnerOfRecord ==
    ASSUME NEW d, Pluggable(d), NEW p \in DOMAIN ConfigBytes(d), ConfigBytes(d)[p].t = "endpoint"
    PROVE  \E id \in AllIds(d) :
               /\ ConfigBytes(d)[p] = EndpointDesc(d, id, d.addr[id])
               /\ \A q \in 1 .. p : Owns(ConfigBytes(d), q, p) => InterfaceRecord(d, id[1], id[2], ConfigBytes(d)[q])
<1> DEFINE c == ConfigBytes(d)
           x == c[p]
<1>1. DeviceParts(d) /\ Numbered(d) /\ Wired(d) /\ \A g \in Groups(d) : d.groups[g].block BY DEF Pluggable, Wired
<1>2. DOMAIN d.addr = AllIds(d) /\ Matched(d.addr, d.epMap) BY <1>1 DEF Wired, Wiring
<1>3. Listed(c) BY <1>1, ConfigurationTells
<1>4. p \in 1 .. Len(c) /\ Len(c) \in Nat /\ DOMAIN c = 1 .. Len(c) BY <1>3 DEF Listed
<1>5. \A q \in DOMAIN c : c[q] \in Range(c) BY DEF Range
<1>6. PICK g \in Groups(d) : \E i \in DOMAIN d.groups[g].ifs : EndpointRecord(d, g, i, x) BY <1>5, ThreeRecords
<1>7. PICK i \in DOMAIN d.groups[g].ifs : EndpointRecord(d, g, i, x) BY <1>6
<1>8. PICK k \in 1 .. Len(InterfacesOf[d.groups[g].kind][i]) :
          x = EndpointDesc(d, <<g, i, k>>, AddressTold(d, <<g, i, k>>))
  BY <1>7 DEF EndpointRecord
<1> DEFINE id == <<g, i, k>>
           a == d.addr[id]
<1>9. id \in AllIds(d) BY <1>1, IdOf
<1>10. AddressTold(d, id) = a BY <1>2, <1>9, EndpointsTold
<1>11. x = EndpointDesc(d, id, a) BY <1>8, <1>10
<1>12. x.addr = a BY <1>11, RecordsSay
<1> DEFINE y == [num |-> OwnerAt(c, p), desc |-> x]
<1>13. y \in Described(d) BY DEF Described, Walked
<1>14. y.desc.addr = a /\ y.num = OwnerAt(c, p) BY <1>12
<1> HIDE DEF y, c, x
<1>15. a \in DOMAIN d.epMap /\ d.epMap[a] = id BY <1>2, <1>9 DEF Matched
<1>16. d.groups[g].ifs[i] = OwnerAt(c, p)
  <2>1. LET to == d.epMap[a] IN d.groups[to[1]].ifs[to[2]] = OwnerAt(c, p) BY <1>13, <1>14, RoutedToTeller
  <2> QED BY <1>15, <2>1
<1>17. ASSUME NEW q \in 1 .. p, Owns(c, q, p) PROVE InterfaceRecord(d, g, i, c[q])
  <2>1. q \in DOMAIN c BY <1>4
  <2>2. c[q] \in Range(ConfigBytes(d)) /\ c[q].t = "interface" BY <1>5, <1>17, <2>1 DEF c, Owns
  <2>3. PICK h \in Groups(d) : \E j \in DOMAIN d.groups[h].ifs : InterfaceRecord(d, h, j, c[q])
    BY <2>2, ThreeRecords
  <2>4. PICK j \in DOMAIN d.groups[h].ifs : InterfaceRecord(d, h, j, c[q]) BY <2>3
  <2>5. c[q].num = d.groups[h].ifs[j] BY <2>4, RecordsSay DEF InterfaceRecord
  <2>6. c[q].num = OwnerAt(c, p)
    <3>1. p \in Nat BY <1>4
    <3> QED BY <1>17, <3>1, OwnerIs
  <2> HIDE DEF id, a
  <2>7. d.groups[h].ifs[j] = d.groups[g].ifs[i] BY <1>16, <2>5, <2>6
  <2>8. h = g /\ j = i BY <2>7, NumbersTell
  <2> QED BY <2>4, <2>8
<1> QED BY <1>9, <1>11, <1>17 DEF c, x

LEMMA InterfaceSays ==
    ASSUME NEW d, NEW g, NEW i, NEW x, InterfaceRecord(d, g, i, x)
    PROVE  x.class = ClassOf(d.groups[g].kind, i) /\ (~Alternates(d.groups[g].kind, i) => x.alt = 0)
<1>1. \A alt : InterfaceDesc(d, g, i, alt).class = ClassOf(d.groups[g].kind, i) /\ InterfaceDesc(d, g, i, alt).alt = alt
  BY DEF InterfaceDesc
<1>2. CASE x = InterfaceDesc(d, g, i, 0) BY <1>1, <1>2
<1>3. CASE x = InterfaceDesc(d, g, i, 1) /\ Alternates(d.groups[g].kind, i) BY <1>1, <1>3
<1> QED BY <1>2, <1>3 DEF InterfaceRecord

LEMMA EndpointSays ==
    ASSUME NEW d, NEW id, NEW a, NEW x, x = EndpointDesc(d, id, a)
    PROVE  x.addr = a /\ x.type = Declaration(d, id).type
<1> DEFINE type == InterfacesOf[d.groups[id[1]].kind][id[2]][id[3]].type
<1>1. type = Declaration(d, id).type BY DEF Declaration
<1>2. x = [t |-> "endpoint", addr |-> a, size |-> d.sized[id], type |-> type] BY DEF EndpointDesc
<1> HIDE DEF type
<1>3. x.addr = a /\ x.type = type BY <1>2
<1> QED BY <1>1, <1>3

LEMMA PartsOfId ==
    ASSUME NEW d, Pluggable(d), NEW id \in AllIds(d)
    PROVE  /\ id[1] \in Groups(d) /\ id = <<id[1], id[2], id[3]>>
           /\ d.groups[id[1]].kind \in DOMAIN InterfacesOf
           /\ id[2] \in 1 .. Len(InterfacesOf[d.groups[id[1]].kind])
           /\ id[3] \in 1 .. Len(InterfacesOf[d.groups[id[1]].kind][id[2]])
           /\ d.addr[id][2] = Declaration(d, id).dir
<1> DEFINE kind == d.groups[id[1]].kind
<1>1. DeviceParts(d) /\ Numbered(d) /\ Wiring(d, AllIds(d)) BY DEF Pluggable, Wired
<1>2. /\ id[1] \in Groups(d) /\ id[2] \in DOMAIN d.groups[id[1]].ifs
      /\ id[3] \in 1 .. 3 /\ id[3] <= Len(InterfacesOf[kind][id[2]])
      /\ id = <<id[1], id[2], id[3]>>
  BY DEF AllIds
<1>3. kind \in Kinds /\ id[2] \in 1 .. Len(InterfacesOf[kind]) BY <1>1, <1>2, IdOf
<1>4. Len(InterfacesOf[kind][id[2]]) \in 0 .. 3 BY <1>3, Declared
<1> DEFINE m == Len(InterfacesOf[kind][id[2]])
<1> HIDE DEF m
<1>5. id[3] \in 1 .. m BY <1>2, <1>4 DEF m
<1>6. DOMAIN InterfacesOf = {"cdc", "uac", "uvc", "bt", "dfu", "hid", "msc", "mtp", "raw"} BY DEF InterfacesOf
<1>7. kind \in DOMAIN InterfacesOf BY <1>3, <1>6, CompositionAssumption
<1>8. d.addr[id][2] = Declaration(d, id).dir BY <1>1 DEF Wiring
<1> QED BY <1>2, <1>3, <1>5, <1>7, <1>8 DEF m

\* What the walk of a driver takes: an endpoint of a function of its kind.
LEMMA TakenIs ==
    ASSUME NEW d, Pluggable(d), NEW kind \in DOMAIN DriverClass, NEW p \in DOMAIN ConfigBytes(d),
           Taken(kind, ConfigBytes(d), p)
    PROVE  \E id \in AllIds(d) :
               /\ d.groups[id[1]].kind = kind
               /\ ConfigBytes(d)[p].addr = d.addr[id]
               /\ RoleOf(ConfigBytes(d)[p]) = <<Declaration(d, id).type, Declaration(d, id).dir>>
<1> DEFINE c == ConfigBytes(d)
<1>1. c[p].t = "endpoint" /\ \E q \in 1 .. p : Owns(c, q, p) /\ IsInside(kind, FALSE, c[q]) BY DEF Taken
<1>2. PICK q \in 1 .. p : Owns(c, q, p) /\ IsInside(kind, FALSE, c[q]) BY <1>1
<1>3. PICK id \in AllIds(d) :
          c[p] = EndpointDesc(d, id, d.addr[id]) /\ InterfaceRecord(d, id[1], id[2], c[q])
  BY <1>1, <1>2, OwnerOfRecord
<1> HIDE DEF c
<1>4. c[q].class = ClassOf(d.groups[id[1]].kind, id[2]) BY <1>3, InterfaceSays
<1>5. ClassOf(d.groups[id[1]].kind, id[2]) = DriverClass[kind] BY <1>2, <1>4 DEF IsInside
<1>6. d.groups[id[1]].kind = kind
  <2> DEFINE other == d.groups[id[1]].kind
             i == id[2]
  <2>1. other \in DOMAIN InterfacesOf /\ i \in 1 .. Len(InterfacesOf[other]) /\ ClassOf(other, i) = DriverClass[kind]
    BY <1>5, PartsOfId
  <2> HIDE DEF other, i
  <2>2. other = kind BY <2>1, ClassesApart
  <2> QED BY <2>2 DEF other
<1>7. c[p].addr = d.addr[id] /\ c[p].type = Declaration(d, id).type BY <1>3, EndpointSays
<1>8. d.addr[id][2] = Declaration(d, id).dir BY PartsOfId
<1>9. RoleOf(c[p]) = <<Declaration(d, id).type, Declaration(d, id).dir>> BY <1>7, <1>8 DEF RoleOf
<1> QED BY <1>6, <1>7, <1>9 DEF c

\* It takes each that the driver uses.
LEMMA UsedIsTaken ==
    ASSUME NEW d, Pluggable(d), NEW kind \in DOMAIN DriverClass, NEW id \in AllIds(d),
           d.groups[id[1]].kind = kind, Uses(kind, Declaration(d, id).type, Declaration(d, id).dir)
    PROVE  \E p \in DOMAIN ConfigBytes(d) :
               /\ Taken(kind, ConfigBytes(d), p)
               /\ RoleOf(ConfigBytes(d)[p]) = <<Declaration(d, id).type, Declaration(d, id).dir>>
<1> DEFINE c == ConfigBytes(d)
<1>1. DeviceParts(d) /\ Numbered(d) /\ Wiring(d, AllIds(d)) /\ \A g \in Groups(d) : d.groups[g].block
  BY DEF Pluggable, Wired
<1>2. DOMAIN d.addr = AllIds(d) /\ Matched(d.addr, d.epMap) BY <1>1 DEF Wiring
<1>3. PICK x \in Described(d) : x.desc.addr = d.addr[id] BY <1>2, EndpointsTold
<1>4. PICK p \in DOMAIN c : c[p].t = "endpoint" /\ x.desc = c[p]
  <2> DEFINE E == {q \in DOMAIN c : c[q].t = "endpoint"}
  <2>1. PICK p \in E : x = [num |-> OwnerAt(c, p), desc |-> c[p]] BY DEF Described, Walked
  <2>2. x.desc = c[p] BY <2>1
  <2> QED BY <2>2
<1>5. PICK to \in AllIds(d) :
          /\ c[p] = EndpointDesc(d, to, d.addr[to])
          /\ \A q \in 1 .. p : Owns(c, q, p) => InterfaceRecord(d, to[1], to[2], c[q])
  BY <1>4, OwnerOfRecord
<1>6. Listed(c) /\ Owned(c) BY <1>1, ConfigurationTells
<1> HIDE DEF c
<1>7. c[p].addr = d.addr[to] /\ c[p].type = Declaration(d, to).type BY <1>5, EndpointSays
<1>8. to = id
  <2>1. d.addr[to] = d.addr[id] BY <1>3, <1>4, <1>7
  <2>2. d.epMap[d.addr[to]] = to /\ d.epMap[d.addr[id]] = id BY <1>2 DEF Matched
  <2> QED BY <2>1, <2>2
<1>9. c[p].addr[2] = Declaration(d, id).dir /\ c[p].type = Declaration(d, id).type BY <1>7, <1>8, PartsOfId
<1>10. p \in Nat BY <1>6 DEF Listed
<1>11. PICK q \in 1 .. p : Owns(c, q, p)
  <2>1. PICK s \in 1 .. p : c[s].t = "interface" BY <1>4, <1>6 DEF Owned
  <2> QED BY <1>10, <2>1, OwnerIsThere
<1>12. InterfaceRecord(d, id[1], id[2], c[q]) BY <1>5, <1>8, <1>11
<1>13. c[q].class = DriverClass[kind]
  <2>1. c[q].class = ClassOf(d.groups[id[1]].kind, id[2]) BY <1>12, InterfaceSays
  <2> QED BY <2>1, PartsOfId, ClassesApart
<1>14. ASSUME kind = "bt" PROVE c[q].alt = 0
  <2> DEFINE i == id[2]
             k == id[3]
  <2>1. kind \in DOMAIN InterfacesOf /\ i \in 1 .. Len(InterfacesOf[kind]) /\ k \in 1 .. Len(InterfacesOf[kind][i])
    BY PartsOfId
  <2>2. Uses(kind, InterfacesOf[kind][i][k].type, InterfacesOf[kind][i][k].dir) BY DEF Declaration
  <2> HIDE DEF i, k
  <2>3. i = 1 BY <1>14, <2>1, <2>2, RolesApart
  <2>4. ~Alternates(d.groups[id[1]].kind, i) BY <1>14, <2>3 DEF Alternates
  <2> QED BY <1>12, <2>4, InterfaceSays DEF i
<1>15. Taken(kind, c, p) BY <1>4, <1>9, <1>11, <1>13, <1>14 DEF Taken, IsInside
<1> QED BY <1>9, <1>15 DEF c, RoleOf

\* So the pipe of a role is that of the one function of the driver's kind.
LEMMA PipeFound ==
    ASSUME NEW d, Pluggable(d), NEW kind \in DOMAIN DriverClass, NEW g \in Groups(d),
           {h \in Groups(d) : d.groups[h].kind = kind} = {g},
           NEW id \in EndpointsOf(d, g), Uses(kind, Declaration(d, id).type, Declaration(d, id).dir)
    PROVE  Discover(d, kind)[<<Declaration(d, id).type, Declaration(d, id).dir>>] = d.addr[id]
<1> DEFINE c == ConfigBytes(d)
           r == <<Declaration(d, id).type, Declaration(d, id).dir>>
<1>1. DeviceParts(d) /\ Numbered(d) /\ Wiring(d, AllIds(d)) /\ \A h \in Groups(d) : d.groups[h].block
  BY DEF Pluggable, Wired
<1>2. id \in AllIds(d) /\ id[1] = g BY <1>1 DEF Wiring, EndpointsOf
<1>3. d.groups[g].kind = kind OBVIOUS
<1>4. \E p \in DOMAIN c : Taken(kind, c, p) /\ RoleOf(c[p]) = r BY <1>2, <1>3, UsedIsTaken
<1>5. ASSUME NEW p \in DOMAIN c, Taken(kind, c, p), RoleOf(c[p]) = r PROVE c[p].addr = d.addr[id]
  <2>1. PICK to \in AllIds(d) :
            /\ d.groups[to[1]].kind = kind /\ c[p].addr = d.addr[to]
            /\ RoleOf(c[p]) = <<Declaration(d, to).type, Declaration(d, to).dir>>
    BY <1>5, TakenIs
  <2>2. to[1] \in Groups(d) /\ to = <<to[1], to[2], to[3]>> /\ id = <<id[1], id[2], id[3]>> BY <1>2, PartsOfId
  <2>3. to[1] = g BY <2>1, <2>2
  <2> DEFINE i == id[2]
             k == id[3]
             j == to[2]
             m == to[3]
  <2>4. /\ i \in 1 .. Len(InterfacesOf[kind]) /\ k \in 1 .. Len(InterfacesOf[kind][i])
        /\ j \in 1 .. Len(InterfacesOf[kind]) /\ m \in 1 .. Len(InterfacesOf[kind][j])
    BY <1>2, <1>3, <2>1, PartsOfId
  <2>5. Declaration(d, id) = InterfacesOf[kind][i][k] /\ Declaration(d, to) = InterfacesOf[kind][j][m]
    BY <1>2, <1>3, <2>3 DEF Declaration
  <2>6. Uses(kind, InterfacesOf[kind][i][k].type, InterfacesOf[kind][i][k].dir) BY <2>5
  <2>7. SameRole(kind, i, k, j, m) BY <1>5, <2>1, <2>5 DEF SameRole
  <2> HIDE DEF i, j, k, m
  <2>8. i = j /\ k = m BY <2>4, <2>6, <2>7, RolesApart
  <2>9. to = id BY <1>2, <2>2, <2>3, <2>8 DEF i, j, k, m
  <2> QED BY <2>1, <2>9
<1>6. Listed(c) BY <1>1, ConfigurationTells
<1> HIDE DEF r
<1>7. Discover(d, kind)[r] = d.addr[id] BY <1>4, <1>5, <1>6, WalkFinds
<1> QED BY <1>7 DEF r

LEMMA FoundRight == FunctionsKept /\ WiredInv /\ ShapedInv => DriversFindPipes
<1> SUFFICES ASSUME FunctionsKept, WiredInv, ShapedInv, plugged = "yes",
                    NEW kind \in DOMAIN DriverClass, NEW g \in Groups(dev),
                    {h \in Groups(dev) : dev.groups[h].kind = kind} = {g},
                    NEW id \in EndpointsOf(dev, g)
             PROVE  LET p == InterfacesOf[kind][id[2]][id[3]]
                    IN  Uses(kind, p.type, p.dir) => Discover(dev, kind)[<<p.type, p.dir>>] = dev.addr[id]
  BY DEF DriversFindPipes
<1>1. Pluggable(dev) BY PluggedIsPluggable
<1>2. dev.groups[g].kind = kind /\ id[1] = g BY DEF EndpointsOf
<1>3. InterfacesOf[kind][id[2]][id[3]] = Declaration(dev, id) BY <1>2 DEF Declaration
<1> DEFINE p == InterfacesOf[kind][id[2]][id[3]]
<1>4. p = Declaration(dev, id) BY <1>3
<1> HIDE DEF p
<1>5. Uses(kind, p.type, p.dir) => Discover(dev, kind)[<<p.type, p.dir>>] = dev.addr[id] BY <1>1, <1>4, PipeFound
<1> QED BY <1>5 DEF p

\* A driver that opens a device with one function of its class uses the pipes of that
\* function, wherever the core has moved them and whatever was added around it.
THEOREM PipesAreFound == CompositionSpec => []DriversFindPipes
BY FoundRight, FunctionsAreKept, PartsAreWired, PartsAreShaped, PTL
=============================================================================
