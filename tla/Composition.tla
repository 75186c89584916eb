---------------------------- MODULE Composition ----------------------------
(***************************************************************************)
(* How functions become one device (usbip/function.py, Function._attach;   *)
(* usbip/device.py, the composition primitives, Microsoft OS descriptors,  *)
(* the checks of plug and the routing of control requests).                *)
(*                                                                         *)
(* Every class asks for the endpoint addresses it would have alone; the    *)
(* device moves the ones that are taken.  What a host is told (descriptors)*)
(* and what the device does (its maps of endpoints and of handlers) are    *)
(* made at different times from different state: the module is about their *)
(* agreement, for functions added in any order and combination.            *)
(*                                                                         *)
(* The drivers of usbip/classes/host read the same descriptors to find     *)
(* their pipes.                                                            *)
(*                                                                         *)
(* What it abstracts: a descriptor is a record of what it names, interface *)
(* numbers, classes and addresses; a packet size is the speed it was       *)
(* chosen for; of the alternate settings of an interface two are kept.     *)
(***************************************************************************)
EXTENDS Integers, Sequences, FiniteSets, SequencesExt

CONSTANTS
    Kinds,        \* the kinds of functions that may be added
    MaxFunctions, \* bound: functions on the device
    MaxAdverts,   \* bound: advertisements while the application makes its own
    LastNumber    \* the highest endpoint number, 15 in the code

ASSUME CompositionAssumption ==
    /\ Kinds \subseteq {"cdc", "uac", "uvc", "bt", "dfu", "hid", "msc", "mtp", "raw"}
    /\ MaxFunctions \in Nat /\ LastNumber \in Nat

VARIABLES
    dev,      \* the device, see NewDevice
    plugged   \* "no", "yes", "refused" by plug, or "failed" when an add raised

compositionVars == <<dev, plugged>>

-----------------------------------------------------------------------------
(* What the bundled classes declare, interface by interface.               *)

In(n, type) == [num |-> n, dir |-> "in", type |-> type]
Out(n, type) == [num |-> n, dir |-> "out", type |-> type]

InterfacesOf ==
    [cdc   |-> <<<<In(2, "interrupt")>>, <<In(1, "bulk"), Out(1, "bulk")>>>>,
     uac   |-> <<<<>>, <<Out(1, "iso")>>, <<In(2, "iso")>>>>,
     uvc   |-> <<<<>>, <<In(1, "iso")>>>>,
     bt    |-> <<<<In(1, "interrupt"), Out(2, "bulk"), In(2, "bulk")>>,
                 <<Out(3, "iso"), In(3, "iso")>>>>,
     dfu   |-> <<<<>>>>,
     hid   |-> <<<<In(1, "interrupt"), Out(1, "interrupt")>>>>,
     msc   |-> <<<<In(2, "bulk"), Out(1, "bulk")>>>>,
     mtp   |-> <<<<Out(1, "bulk"), In(1, "bulk"), In(2, "interrupt")>>>>,
     raw   |-> <<<<In(1, "bulk")>>>>]   \* add_group, claim_interface, add_endpoint

\* bInterfaceClass of a kind's interfaces; CDC's second is a data interface.
ClassOf(kind, i) ==
    IF kind = "cdc" THEN <<"communications", "cdc data">>[i]
    ELSE [uac |-> "audio", uvc |-> "video", bt |-> "wireless", dfu |-> "application",
          hid |-> "hid", msc |-> "storage", mtp |-> "image", raw |-> "vendor"][kind]

\* Endpoints that adjust_for_speed sizes.
SpeedAware(kind, p) == \/ kind \in {"cdc", "msc", "mtp"} /\ p.type = "bulk"
                       \/ kind \in {"uac", "uvc"} /\ p.type = "iso"

\* The class triple that a function asks for.
TripleOf(d, kind) ==
    CASE kind = "uvc" -> "misc"
      [] kind = "bt"  -> "wireless"
      [] OTHER        -> d.triple

\* The Compatible ID that a class enables for itself when it is added.
OwnCompatible(kind) == CASE kind = "dfu" -> <<"WINUSB">>
                         [] kind = "mtp" -> <<"MTP">>
                         [] OTHER        -> <<>>

-----------------------------------------------------------------------------
(* The device.  An endpoint is named <<group, interface, position>>.       *)

NewDevice ==
    [composite |-> FALSE, triple |-> "none", speed |-> "full",
     groups |-> <<>>,   \* kind, interface numbers, and whether it has its block
     numIfs |-> 0,      \* interfaces claimed
     addr   |-> <<>>,   \* endpoint -> the address it has now
     sized  |-> <<>>,   \* endpoint -> the speed its packet size is for
     epMap  |-> <<>>,   \* address -> endpoint
     ctrl   |-> <<>>,   \* interface number, or -1 for the fallback -> handler
     alts   |-> <<>>,   \* interface number -> handler of SET_INTERFACE
     hooks  |-> {},     \* interfaces that hear of a change of speed
     msos   |-> <<>>,   \* advertisements: scope (0 is the device) and Compatible ID
     codes  |-> [v1 |-> 32, v2 |-> 33],  \* their vendor requests
     webusb |-> {},     \* the vendor request for the landing page, if there is one
     bcdUSB |-> 2,      \* 2.0, or 2.1 when there is a BOS to fetch
     strings |-> <<>>,  \* index -> what it labels
     raised |-> FALSE]  \* an add ended with an exception

Insert(f, x, v) == [y \in DOMAIN f \cup {x} |-> IF y = x THEN v ELSE f[y]]

Address(p) == <<p.num, p.dir>>
FreeNumbers(d, dir) == {n \in 1 .. LastNumber : <<n, dir>> \notin DOMAIN d.epMap}
LowestOf(S) == CHOOSE n \in S : \A m \in S : n <= m

\* The declared address if it is free, else the lowest free number.
AddressFor(d, p) ==
    IF Address(p) \notin DOMAIN d.epMap THEN Address(p)
    ELSE <<LowestOf(FreeNumbers(d, p.dir)), p.dir>>

RouteEndpoint(d, id, p) ==
    IF Address(p) \in DOMAIN d.epMap /\ FreeNumbers(d, p.dir) = {}
    THEN [d EXCEPT !.raised = TRUE]
    ELSE LET a == AddressFor(d, p)
         IN  [d EXCEPT !.addr = Insert(@, id, a), !.epMap = Insert(@, a, id)]

AdjustForSpeed(d, kind, id, p) ==
    [d EXCEPT !.sized = Insert(@, id, IF SpeedAware(kind, p) THEN d.speed ELSE "any")]

ClaimInterface(d, g) ==
    [d EXCEPT !.numIfs = @ + 1, !.groups[g].ifs = Append(@, d.numIfs)]

\* Mutant: the last interface that is added answers for the device.
FallbackIsNewest(d, ifnum, h) == Insert(Insert(d.ctrl, ifnum, h), -1, h)

\* on_control; the device's first interface is also the fallback.
OnControl(d, ifnum, h) ==
    IF -1 \in DOMAIN d.ctrl THEN Insert(d.ctrl, ifnum, h) ELSE Insert(Insert(d.ctrl, ifnum, h), -1, h)

\* The endpoints of an interface, one after another until one finds no address.
RouteOne(d, g, i, k) ==
    LET p == InterfacesOf[d.groups[g].kind][i][k]
    IN  IF d.raised THEN d
        ELSE RouteEndpoint(AdjustForSpeed(d, d.groups[g].kind, <<g, i, k>>, p), <<g, i, k>>, p)

RouteEndpoints(d, g, i) ==
    LET last == Len(InterfacesOf[d.groups[g].kind][i])
        routed[k \in 0 .. last] == IF k = 0 THEN d ELSE RouteOne(routed[k - 1], g, i, k)
    IN  routed[last]

\* One interface of group g: claimed, sized, routed, registered.
AttachInterface(d, g, i) ==
    LET e == RouteEndpoints(ClaimInterface(d, g), g, i)
    IN  IF d.raised THEN d
        ELSE IF e.raised \/ d.groups[g].kind = "raw" THEN e
        ELSE [e EXCEPT !.ctrl = OnControl(e, d.numIfs, <<g, i>>),
                        !.alts = Insert(@, d.numIfs, <<g, i>>), !.hooks = @ \cup {<<g, i>>}]

\* All of them, in their order.
AttachInterfaces(d, g) ==
    LET last == Len(InterfacesOf[d.groups[g].kind])
        attached[i \in 0 .. last] == IF i = 0 THEN d ELSE AttachInterface(attached[i - 1], g, i)
    IN  attached[last]

SetDeviceTriple(d, t) == IF d.composite THEN d ELSE [d EXCEPT !.triple = t]

\* enable_msos: an advertisement of the same scope is replaced.
EnableMsos(d, scope, compatible) ==
    LET entry == [scope |-> scope, compatible |-> compatible]
    IN  IF \E i \in DOMAIN d.msos : d.msos[i].scope = scope
        THEN [d EXCEPT !.msos = [i \in DOMAIN @ |-> IF @[i].scope = scope THEN entry ELSE @[i]],
                       !.bcdUSB = 21]
        ELSE [d EXCEPT !.msos = Append(@, entry), !.bcdUSB = 21]

EnableWebusb(d, code) == [d EXCEPT !.webusb = {code}, !.bcdUSB = 21]

\* What a class labels: CDC its first interface and its association, mass
\* storage its interface, DFU each alternate setting.
Labels(g, kind) ==
    CASE kind \in {"cdc", "msc"} -> <<<<g, 0>>>>
      [] kind = "dfu"            -> <<<<g, 0>>, <<g, 1>>>>
      [] OTHER                   -> <<>>

\* _on_added: CDC alone names itself in the device descriptor; DFU and MTP
\* advertise a driver for their own interfaces.
OnAdded(d, g) ==
    LET kind == d.groups[g].kind
        own  == OwnCompatible(kind)
        e    == [d EXCEPT !.groups[g].string = IF Labels(g, kind) = <<>> THEN 0 ELSE Len(d.strings) + 1,
                          !.strings = @ \o Labels(g, kind)]
    IN  IF kind = "cdc" /\ ~d.composite THEN SetDeviceTriple(e, "cdc")
        ELSE IF own # <<>> THEN EnableMsos(e, g, own[1])
        ELSE e

\* Function._attach.
Attach(d, kind) ==
    LET g == Len(d.groups) + 1
        opened == [d EXCEPT !.groups = Append(@, [kind |-> kind, ifs |-> <<>>, block |-> FALSE, string |-> 0])]
        named == SetDeviceTriple(opened, TripleOf(d, kind))
        all == AttachInterfaces(named, g)
    IN  IF all.raised THEN all
        ELSE OnAdded([all EXCEPT !.groups[g].block = TRUE], g)

\* set_speed sizes the interfaces that are there.
SetSpeed(d, s) ==
    [d EXCEPT !.speed = s,
              !.sized = [id \in DOMAIN @ |-> IF <<id[1], id[2]>> \in d.hooks /\ @[id] # "any"
                                             THEN s ELSE @[id]]]

-----------------------------------------------------------------------------
(* What the host is told.                                                  *)

Groups(d) == DOMAIN d.groups
IfsOf(d, g) == {d.groups[g].ifs[i] : i \in DOMAIN d.groups[g].ifs}
EndpointsOf(d, g) == {id \in DOMAIN d.addr : id[1] = g}

\* association_descriptor.
HasIad(d, g) == d.groups[g].kind = "uvc" \/ (d.groups[g].kind = "cdc" /\ d.composite)

Association(d, g) ==
    IF HasIad(d, g)
    THEN <<[t |-> "names", by |-> "association", of |-> g,
            ifs |-> {d.groups[g].ifs[1] + k - 1 : k \in DOMAIN d.groups[g].ifs},
            string |-> IF d.groups[g].kind = "cdc" THEN d.groups[g].string ELSE 0]>>
    ELSE <<>>

\* The records of a descriptor: an interface's alternate setting, an endpoint,
\* and what names interfaces of a function.
InterfaceDesc(d, g, i, alt) ==
    [t |-> "interface", num |-> d.groups[g].ifs[i], alt |-> alt,
     class |-> ClassOf(d.groups[g].kind, i),
     string |-> IF d.groups[g].string = 0 \/ i # 1 THEN 0
                ELSE IF d.groups[g].kind = "dfu" THEN d.groups[g].string + alt ELSE d.groups[g].string]
EndpointDesc(d, id, addr) ==
    [t |-> "endpoint", addr |-> addr, size |-> d.sized[id],
     type |-> InterfacesOf[d.groups[id[1]].kind][id[2]][id[3]].type]
Names(g, ifs) == <<[t |-> "names", by |-> "header", of |-> g, ifs |-> ifs, string |-> 0]>>

\* The endpoints of an interface, at the addresses that they have.
EndpointDescs(d, g, i) ==
    [k \in DOMAIN InterfacesOf[d.groups[g].kind][i] |-> EndpointDesc(d, <<g, i, k>>, d.addr[<<g, i, k>>])]

\* The blocks that classes make of their own: the headers of audio and video
\* count on from their interface's number, CDC's Union says 0 and 1; audio
\* describes the addresses of its constants EP_SPK and EP_MIC.
AudioControlBlock(d, g, i) ==
    LET n == d.groups[g].ifs[i] IN <<InterfaceDesc(d, g, i, 0)>> \o Names(g, {n, n + 1, n + 2})
AudioStreamingBlock(d, g, i) ==
    <<InterfaceDesc(d, g, i, 0), InterfaceDesc(d, g, i, 1),
      EndpointDesc(d, <<g, i, 1>>, Address(InterfacesOf["uac"][i][1]))>>
VideoControlBlock(d, g, i) ==
    LET n == d.groups[g].ifs[i] IN <<InterfaceDesc(d, g, i, 0)>> \o Names(g, {n, n + 1})
VideoStreamingBlock(d, g, i) ==
    <<InterfaceDesc(d, g, i, 0), InterfaceDesc(d, g, i, 1)>> \o EndpointDescs(d, g, i)
ScoBlock(d, g, i) ==
    FlattenSeq([alt \in 1 .. 2 |-> <<InterfaceDesc(d, g, i, alt - 1)>> \o EndpointDescs(d, g, i)])
DfuBlock(d, g, i) == <<InterfaceDesc(d, g, i, 0), InterfaceDesc(d, g, i, 1)>>
CdcCommBlock(d, g, i) ==
    <<InterfaceDesc(d, g, i, 0)>> \o Names(g, {0, 1}) \o EndpointDescs(d, g, i)

\* Interface.descriptor_block, or the override of a class.
InterfaceBlock(d, g, i) ==
    CASE d.groups[g].kind = "uac" /\ i = 1 -> AudioControlBlock(d, g, i)
      [] d.groups[g].kind = "uac" /\ i # 1 -> AudioStreamingBlock(d, g, i)
      [] d.groups[g].kind = "uvc" /\ i = 1 -> VideoControlBlock(d, g, i)
      [] d.groups[g].kind = "uvc" /\ i = 2 -> VideoStreamingBlock(d, g, i)
      [] d.groups[g].kind = "bt" /\ i = 2  -> ScoBlock(d, g, i)
      [] d.groups[g].kind = "dfu"          -> DfuBlock(d, g, i)
      [] d.groups[g].kind = "cdc" /\ i = 1 -> CdcCommBlock(d, g, i)
      [] OTHER -> <<InterfaceDesc(d, g, i, 0)>> \o EndpointDescs(d, g, i)

\* The configuration: the blocks of the groups, rendered when it is asked for.
ConfigBytes(d) ==
    FlattenSeq([g \in Groups(d) |->
        IF ~d.groups[g].block THEN <<>>
        ELSE Association(d, g) \o FlattenSeq([i \in DOMAIN d.groups[g].ifs |-> InterfaceBlock(d, g, i)])])

\* Walking it, an endpoint belongs to the interface before it.
OwnerAt(cfg, p) ==
    cfg[CHOOSE q \in 1 .. p : cfg[q].t = "interface" /\ \A r \in q + 1 .. p : cfg[r].t # "interface"].num
Walked(cfg) ==
    {[num |-> OwnerAt(cfg, p), desc |-> cfg[p]] : p \in {q \in DOMAIN cfg : cfg[q].t = "endpoint"}}
Described(d) == Walked(ConfigBytes(d))

\* interface_triples: the class of every interface in the order of the numbers,
\* for the list of exported devices.
InterfaceTriples(d) ==
    LET first == {desc \in Range(ConfigBytes(d)) : desc.t = "interface" /\ desc.alt = 0}
    IN  [k \in 1 .. Cardinality({desc.num : desc \in first}) |->
            {desc.class : desc \in {x \in first : Cardinality({y \in first : y.num < x.num}) = k - 1}}]

\* The advertisement for a group: its own, else the device's.
MsosEntryForGroup(d, g) ==
    LET own == {i \in DOMAIN d.msos : d.msos[i].scope = g}
        all == {i \in DOMAIN d.msos : d.msos[i].scope = 0}
    IN  IF own # {} THEN {d.msos[LowestOf(own)].compatible}
        ELSE IF all # {} THEN {d.msos[LowestOf(all)].compatible}
        ELSE {}

\* Mutant: the first entry that covers the interface is taken, scoped or not.
MsosFirstCovers(d, ifnum) ==
    LET all == {i \in DOMAIN d.msos : \/ d.msos[i].scope = 0
                                      \/ ifnum \in IfsOf(d, d.msos[i].scope)}
    IN  IF all # {} THEN {d.msos[LowestOf(all)].compatible} ELSE {}

\* The advertisement for an interface, looked up for the extended properties.
MsosEntryForInterface(d, ifnum) ==
    LET own == {i \in DOMAIN d.msos : d.msos[i].scope # 0 /\ ifnum \in IfsOf(d, d.msos[i].scope)}
        all == {i \in DOMAIN d.msos : d.msos[i].scope = 0}
    IN  IF own # {} THEN {d.msos[LowestOf(own)].compatible}
        ELSE IF all # {} THEN {d.msos[LowestOf(all)].compatible}
        ELSE {}

\* The sections of the Microsoft OS 1.0 Compatible ID descriptor, first interface
\* and ID; a device without groups is one section.
MsosSections(d) ==
    IF d.groups = <<>> THEN {<<0, c>> : c \in MsosEntryForGroup(d, 0)}
    ELSE {<<d.groups[x[1]].ifs[1], x[2]>> :
             x \in {y \in Groups(d) \X {"WINUSB", "MTP"} : y[2] \in MsosEntryForGroup(d, y[1])}}

\* The Microsoft OS 1.0 extended properties of an interface: a GUID for WinUSB.
ExtendedProperties(d, ifnum) == MsosEntryForInterface(d, ifnum) \ {"MTP"}

\* The Microsoft OS 2.0 set: flat for one function, else scoped by subsets.
Msos2(d) ==
    IF Len(d.groups) > 1 THEN MsosSections(d)
    ELSE IF d.groups # <<>> /\ MsosEntryForGroup(d, 1) # {}
         THEN {<<0, c>> : c \in MsosEntryForGroup(d, 1)}
         ELSE {<<0, d.msos[1].compatible>>}

\* _string_bytes: a label, or the magic string from which Windows learns the
\* vendor request of the 1.0 documents.
MagicIndex == 238
StringBytes(d, index) ==
    IF index = MagicIndex /\ d.msos # <<>> THEN {d.codes.v1}
    ELSE IF index \in DOMAIN d.strings THEN {d.strings[index]}
    ELSE {}

\* The BOS: which capabilities, and the vendor request that each leads to.
Bos(d) ==
    {[cap |-> "webusb", code |-> c] : c \in d.webusb} \cup
    {[cap |-> "msos2", code |-> d.codes.v2] : x \in {y \in {1} : d.msos # <<>>}}

\* _winusb_vendor, then the WebUSB landing page: the document a vendor request
\* asks for by its code and wIndex, none if it is not one of the core's.
VendorDescriptor(d, code, index, ifnum) ==
    CASE d.msos # <<>> /\ code = d.codes.v1 /\ index = 4 -> {[doc |-> "ids", is |-> MsosSections(d)]}
      [] d.msos # <<>> /\ code = d.codes.v1 /\ index = 5 ->
            {[doc |-> "properties", is |-> ExtendedProperties(d, ifnum)]}
      [] d.msos # <<>> /\ code = d.codes.v2 /\ index = 7 -> {[doc |-> "set", is |-> Msos2(d)]}
      [] code \in d.webusb /\ index = 2 -> {[doc |-> "url", is |-> {}]}
      [] OTHER -> {}

-----------------------------------------------------------------------------
(* The host's drivers.  Each walks the configuration for interfaces of its *)
(* class and takes the pipes that it finds under them.                     *)

DriverClass == [hid |-> "hid", bt |-> "wireless", msc |-> "storage", mtp |-> "image"]

Defaults ==
    [hid |-> [x \in {<<"interrupt", "in">>} |-> <<1, "in">>],
     bt  |-> [x \in {<<"interrupt", "in">>, <<"bulk", "in">>, <<"bulk", "out">>} |->
                 IF x[1] = "interrupt" THEN <<1, "in">> ELSE <<2, x[2]>>],
     msc |-> [x \in {<<"bulk", "in">>, <<"bulk", "out">>} |-> <<1, x[2]>>],
     mtp |-> [x \in {<<"interrupt", "in">>, <<"bulk", "in">>, <<"bulk", "out">>} |->
                 IF x[1] = "interrupt" THEN <<2, "in">> ELSE <<1, x[2]>>]]

\* The pipes that a driver uses, by type and direction.
Uses(driver, type, dir) ==
    CASE driver = "hid" -> type = "interrupt"
      [] driver = "msc" -> type = "bulk"
      [] OTHER          -> type = "bulk" \/ (type = "interrupt" /\ dir = "in")

\* Mutant: once an interface of the class was seen, every later pipe is taken.
StaysInside(driver, inside, desc) == inside \/ desc.class = DriverClass[driver]

\* Bluetooth looks at alternate setting 0 only.
IsInside(driver, inside, desc) ==
    desc.class = DriverClass[driver] /\ (driver = "bt" => desc.alt = 0)

\* _discover: the last pipe of a role wins.
Discover(d, driver) ==
    LET Walk(s, desc) ==
            CASE desc.t = "interface" -> [s EXCEPT !.inside = IsInside(driver, @, desc)]
              [] desc.t = "endpoint" /\ s.inside /\ Uses(driver, desc.type, desc.addr[2]) ->
                    [s EXCEPT !.pipes = Insert(@, <<desc.type, desc.addr[2]>>, desc.addr)]
              [] OTHER -> s
    IN  FoldLeft(Walk, [inside |-> FALSE, pipes |-> Defaults[driver]], ConfigBytes(d)).pipes

-----------------------------------------------------------------------------
(* plug.                                                                   *)

\* Mutant: an interface is compared with the next one only.
ConflictOfNeighbours(d) ==
    \E x, y \in Described(d) : x.desc.addr = y.desc.addr /\ y.num = x.num + 1

\* _check_endpoint_conflicts: two interfaces describe one address.
EndpointConflict(d) ==
    \E x, y \in Described(d) : x.desc.addr = y.desc.addr /\ x.num # y.num

-----------------------------------------------------------------------------
(* Control requests, once the device is plugged: who answers.  None changes *)
(* what this module keeps of the device.                                    *)

Nobody == <<0, 0>>
Core == <<-1, -1>>

\* The handler of an interface, else the fallback, else nobody.
RouteControl(d, ifnum) ==
    IF ifnum \in DOMAIN d.ctrl THEN d.ctrl[ifnum]
    ELSE IF -1 \in DOMAIN d.ctrl THEN d.ctrl[-1]
    ELSE Nobody

\* What the core answers itself, a class descriptor or an alternate setting of an
\* interface, a halt of an endpoint, and class or vendor requests.
ControlRequests(d) ==
    [type : {"standard", "descriptor", "set_interface", "class"}, recipient : {"interface"},
     code : {0}, index : 0 .. d.numIfs] \cup
    [type : {"class"}, recipient : {"device"}, code : {0}, index : {0}] \cup
    [type : {"vendor"}, recipient : {"device", "interface"}, code : {32, 33}, index : {0, 2, 4, 5, 7}] \cup
    [type : {"halt"}, recipient : {"endpoint"}, code : {0}, index : {x.desc.addr : x \in Described(d)}]

\* _standard.  A request to an endpoint that is not there is acknowledged.
StandardRequest(d, r) ==
    CASE r.type = "descriptor" -> RouteControl(d, r.index)
      [] r.type = "set_interface" /\ r.index \in DOMAIN d.alts -> d.alts[r.index]
      [] r.type = "halt" /\ r.index \in DOMAIN d.epMap -> d.epMap[r.index]
      [] OTHER -> Core

\* _handle_control.
HandleControl(d, r) ==
    CASE r.type \in {"standard", "descriptor", "set_interface", "halt"} -> StandardRequest(d, r)
      [] r.type = "vendor" /\ VendorDescriptor(d, r.code, r.index, 0) # {} -> Core
      [] OTHER -> IF r.recipient = "interface" THEN RouteControl(d, r.index)
                  ELSE IF -1 \in DOMAIN d.ctrl THEN d.ctrl[-1] ELSE Core

-----------------------------------------------------------------------------
CompositionInit == dev = NewDevice /\ plugged = "no"

\* The application sets up the device before it plugs it, and does not go on
\* after an exception.
SetComposite ==
    /\ plugged = "no"
    /\ dev' = [dev EXCEPT !.composite = TRUE, !.triple = "misc"]
    /\ UNCHANGED plugged

ChangeSpeed(s) ==
    /\ plugged = "no"
    /\ dev' = SetSpeed(dev, s)
    /\ UNCHANGED plugged

Add(kind) ==
    /\ plugged = "no"
    /\ Len(dev.groups) < MaxFunctions
    /\ dev' = Attach(dev, kind)
    /\ plugged' = IF dev'.raised THEN "failed" ELSE "no"

Advertise(scope, compatible) ==
    /\ plugged = "no"
    /\ scope = 0 \/ scope \in Groups(dev)
    /\ Len(dev.msos) + Cardinality(dev.webusb) < MaxAdverts
    /\ dev' = EnableMsos(dev, scope, compatible)
    /\ UNCHANGED plugged

\* WebUSB under a code that the Microsoft requests have too, or one of its own.
AdvertiseWeb(code) ==
    /\ plugged = "no"
    /\ Len(dev.msos) + Cardinality(dev.webusb) < MaxAdverts
    /\ dev' = EnableWebusb(dev, code)
    /\ UNCHANGED plugged

SetMsosVendorCodes(codes) ==
    /\ plugged = "no" /\ dev.groups = <<>>      \* bound: before anything is added
    /\ dev' = [dev EXCEPT !.codes = codes]
    /\ UNCHANGED plugged

Plug ==
    /\ plugged = "no"
    /\ plugged' = IF EndpointConflict(dev) THEN "refused" ELSE "yes"
    /\ UNCHANGED dev

CompositionNext ==
    \/ SetComposite
    \/ \E s \in {"full", "high"} : ChangeSpeed(s)
    \/ \E kind \in Kinds : Add(kind)
    \/ \E scope \in 0 .. MaxFunctions, compatible \in {"WINUSB", "MTP"} : Advertise(scope, compatible)
    \/ \E code \in {33, 34} : AdvertiseWeb(code)
    \/ SetMsosVendorCodes([v1 |-> 33, v2 |-> 33])
    \/ Plug

CompositionSpec == CompositionInit /\ [][CompositionNext]_compositionVars

-----------------------------------------------------------------------------
(* Properties.                                                             *)

\* The endpoint that an interface describes at an address is the one to which
\* the device routes its URBs, sized for the reported speed; none is shadowed by a
\* later function or left without a description.
PipesRouted(described) ==
    /\ \A x \in described :
          /\ x.desc.addr \in DOMAIN dev.epMap
          /\ LET id == dev.epMap[x.desc.addr] IN dev.groups[id[1]].ifs[id[2]] = x.num
          /\ x.desc.size \in {dev.speed, "any"}
    /\ \A id \in DOMAIN dev.addr :
          /\ dev.addr[id] \in DOMAIN dev.epMap /\ dev.epMap[dev.addr[id]] = id
          /\ dev.groups[id[1]].block => \E x \in described : x.desc.addr = dev.addr[id]

\* A record that names a function's interfaces names them all and no other.
NamesOwn(desc) == desc.ifs = IfsOf(dev, desc.of)

IsUnion(desc) == desc.by = "header" /\ dev.groups[desc.of].kind = "cdc"

\* Every association names its own function, and so does every header but CDC's
\* Union, which does in the function that was added first (UnionsNameOwn).
HeadersNameAll(descs) ==
    \A desc \in descs : desc.t = "names" => NamesOwn(desc) \/ (IsUnion(desc) /\ desc.of # 1)

\* A label is that of the function, the interface or the setting that refers to it.
LabelsFit(descs) ==
    \A desc \in descs : desc.t \in {"names", "interface"} /\ desc.string # 0 =>
        LET label == CHOOSE x \in StringBytes(dev, desc.string) : TRUE
        IN  IF desc.t = "names" THEN label = <<desc.of, 0>>
            ELSE desc.num = dev.groups[label[1]].ifs[1] /\ desc.alt = label[2]

\* The list of exported devices has the class of each interface in its place.
ListedAsDescribed(triples) ==
    (\A g \in Groups(dev) : dev.groups[g].block) =>
        \A g \in Groups(dev) : \A i \in DOMAIN dev.groups[g].ifs :
            triples[dev.groups[g].ifs[i] + 1] = {ClassOf(dev.groups[g].kind, i)}

\* In a device that could be plugged what a host is told and what the device does
\* agree, in whatever order functions are added, labelled and sized and the speed
\* is set; a device that is composite, or whose one function has an association,
\* has the class triple of such a device.
RoutedAsDescribed ==
    plugged = "yes" =>
        LET descs == Range(ConfigBytes(dev))
        IN  /\ PipesRouted(Described(dev))
            /\ HeadersNameAll(descs)
            /\ LabelsFit(descs)
            /\ ListedAsDescribed(InterfaceTriples(dev))
            /\ dev.composite \/ (Len(dev.groups) = 1 /\ HasIad(dev, 1)) => dev.triple = "misc"

\* What CDCACM says of its Union: it binds the pair of the function that it is
\* in, and a host that goes by it pairs the right interfaces.
UnionsNameOwn ==
    plugged = "yes" =>
        \A desc \in Range(ConfigBytes(dev)) : desc.t = "names" /\ IsUnion(desc) => NamesOwn(desc)

\* A driver that opens a device with one function of its class uses that
\* function's pipes, all of them, wherever the core has moved them and whatever
\* was added around it.
DriversFindPipes ==
    plugged = "yes" =>
        \A kind \in DOMAIN DriverClass :
            \A g \in Groups(dev) : {h \in Groups(dev) : dev.groups[h].kind = kind} = {g} =>
                LET pipes == Discover(dev, kind)
                IN  \A id \in EndpointsOf(dev, g) :
                        LET p == InterfacesOf[kind][id[2]][id[3]]
                        IN  Uses(kind, p.type, p.dir) => pipes[<<p.type, p.dir>>] = dev.addr[id]

\* The three ways in which Windows asks for a driver agree, each begun where
\* Windows begins: the Compatible ID of a function's section, the properties of
\* each of its interfaces, and the Microsoft OS 2.0 set that the BOS leads to;
\* none is that of another function.  A BOS is announced in bcdUSB, and what it
\* leads to is what it says.
MsosAgree ==
    /\ dev.bcdUSB >= 21 <=> Bos(dev) # {}
    /\ \A b \in Bos(dev) :
          VendorDescriptor(dev, b.code, IF b.cap = "webusb" THEN 2 ELSE 7, 0) =
              {IF b.cap = "webusb" THEN [doc |-> "url", is |-> {}] ELSE [doc |-> "set", is |-> Msos2(dev)]}
    /\ \A g \in Groups(dev) : dev.msos # <<>> /\ dev.groups[g].block =>
          LET entry == MsosEntryForGroup(dev, g)
              first == dev.groups[g].ifs[1]
              V1    == CHOOSE c \in StringBytes(dev, MagicIndex) : TRUE
              Ids(index) == (CHOOSE x \in VendorDescriptor(dev, IF index = 7 THEN dev.codes.v2 ELSE V1,
                                                          index, 0) : TRUE).is
          IN  /\ \A ifnum \in IfsOf(dev, g) :
                     VendorDescriptor(dev, V1, 5, ifnum) =
                         {[doc |-> "properties", is |-> entry \cap {"WINUSB"}]}
              /\ \A index \in {4, 7} : {c \in {"WINUSB", "MTP"} : <<first, c>> \in Ids(index)} = entry
              /\ Cardinality(entry) <= 1

\* A request to an interface of a class is answered by that interface, one to the
\* device by the first interface, one to an endpoint by the one that the host was
\* told has that address; only Microsoft requests are the core's.
OwnerOf(ifnum) ==
    {h \in Groups(dev) \X (1 .. 3) :
        /\ dev.groups[h[1]].kind # "raw"
        /\ h[2] \in DOMAIN dev.groups[h[1]].ifs /\ dev.groups[h[1]].ifs[h[2]] = ifnum}

AnsweredByOwner ==
    plugged = "yes" =>
        LET told == {<<x.num, x.desc.addr>> : x \in Described(dev)}
        IN  \A r \in ControlRequests(dev) :
                /\ r.type \in {"descriptor", "set_interface", "class"} /\ r.recipient = "interface" =>
                      \A h \in OwnerOf(r.index) : HandleControl(dev, r) = h
                /\ r.type = "class" /\ r.recipient = "device" =>
                      \A h \in OwnerOf(0) : HandleControl(dev, r) = h
                /\ r.type = "vendor" /\ r.recipient = "interface" /\ r.index = 0 =>
                      \A h \in OwnerOf(0) : HandleControl(dev, r) = h
                /\ r.type = "halt" =>
                      LET id == HandleControl(dev, r)
                      IN  <<dev.groups[id[1]].ifs[id[2]], r.index>> \in told
=============================================================================
