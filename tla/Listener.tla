------------------------------ MODULE Listener ------------------------------
(***************************************************************************)
(* Exporting devices on one address (usbip/transport.py: _Listener,        *)
(* _listener_for, _drop_listener, USBIP.serve and USBIP.stop), and the     *)
(* hosts that look a device up and import it (serve_handshake,             *)
(* _resolve_busid and open of usbip/host.py).                              *)
(*                                                                         *)
(* Each device is plugged and unplugged by a thread of the application, in *)
(* the steps between which the code holds no lock; when `serial` the       *)
(* application has one such thread for all devices.  Each device has a     *)
(* transport of its own, or, when `shared`, all use the process-wide one   *)
(* (default_transport): they differ in whose `_listener` is overwritten.   *)
(*                                                                         *)
(* External, as the code meets it: the operating system keeps a listening  *)
(* socket bound to its port while its descriptor is open or a thread is    *)
(* blocked in accept() on it, and refuses to bind the port meanwhile.      *)
(***************************************************************************)
EXTENDS Integers, Sequences, FiniteSets

CONSTANTS
    Devices,     \* the devices of the process; a device's VID/PID is its own
    Openers,     \* hosts calling usbip.host.open(vid, pid)
    NoDevice,
    MaxDevices,  \* MAX_DEVICES
    MaxPlugs,    \* bound: calls of plug
    Applications \* the kinds of application: <<serial, shared>>

ASSUME BoundAssumption == MaxDevices \in Nat \ {0} /\ MaxPlugs \in Nat
ASSUME DeviceAssumption == NoDevice \notin Devices
ASSUME ApplicationAssumption == Applications \subseteq BOOLEAN \X BOOLEAN

VARIABLES
    serial,      \* one application thread plugs and unplugs all devices
    shared,      \* all devices have one transport object
    table,       \* _listeners[(host, port)]: the listener's number, or 0
    listeners,   \* the listeners made so far: their devices, next_devnum, socks
    sockets,     \* the sockets bound so far: listener, fd open, accept thread
    pc,          \* per device: where its plug or unplug is
    lst,         \* per device: the listener its plug or unplug works with
    ref,         \* per transport: USBIP._listener, or 0
    hasTransport, \* per device: device._transport is set
    busid,       \* per device: the n of "1-n", or 0 before the first plug
    devnum,      \* per device
    plugs,       \* number of calls of plug
    opener,      \* per host: where it is
    want,        \* per host: the device whose VID/PID it asks for
    target,      \* per host: the busid it has looked up
    handle       \* per host: the device it has imported

listenerVars == <<serial, shared, table, listeners, sockets, pc, lst, ref, hasTransport, busid,
                  devnum, plugs, opener, want, target, handle>>

hostVars == <<opener, want, target, handle>>

Transport(d) == IF shared THEN "default" ELSE d
Transports   == {Transport(d) : d \in Devices}

Elements(s) == {s[i] : i \in DOMAIN s}

ExportedOn(l) == Elements(listeners[l].devices)

NewListener == [devices |-> <<>>, nextDevnum |-> 2, socks |-> {}]

\* The port is taken.
Bound(s) == sockets[s].open \/ sockets[s].acceptor = "blocked"
PortTaken == \E s \in DOMAIN sockets : Bound(s)

ListenerInit(apps) ==
    /\ \E app \in apps : serial = app[1] /\ shared = app[2]
    /\ table = 0
    /\ listeners = <<>>
    /\ sockets = <<>>
    /\ pc = [d \in Devices |-> "idle"]
    /\ lst = [d \in Devices |-> 0]
    /\ ref = [t \in Transports |-> 0]
    /\ hasTransport = [d \in Devices |-> FALSE]
    /\ busid = [d \in Devices |-> 0]
    /\ devnum = [d \in Devices |-> 0]
    /\ plugs = 0
    /\ opener = [h \in Openers |-> "idle"]
    /\ want = [h \in Openers |-> NoDevice]
    /\ target = [h \in Openers |-> 0]
    /\ handle = [h \in Openers |-> NoDevice]

\* The application may begin a call.
MayCall(d) == pc[d] = "idle" /\ (serial => \A e \in Devices : pc[e] = "idle")

-----------------------------------------------------------------------------
(* plug: USBIP.serve.                                                      *)

\* _listener_for: the listener of the address is found or made.
PlugDevice(d) ==
    /\ MayCall(d) /\ ~hasTransport[d]
    /\ plugs < MaxPlugs
    /\ plugs' = plugs + 1
    /\ hasTransport' = [hasTransport EXCEPT ![d] = TRUE]
    /\ IF table # 0
       THEN UNCHANGED <<table, listeners>>
       ELSE /\ listeners' = Append(listeners, NewListener)
            /\ table' = Len(listeners) + 1
    /\ lst' = [lst EXCEPT ![d] = table']
    /\ ref' = [ref EXCEPT ![Transport(d)] = table']
    /\ pc' = [pc EXCEPT ![d] = "register"]
    /\ UNCHANGED <<sockets, busid, devnum, hostVars>>

\* Mutant: the device number is the number of devices, as the busid is.
DevnumByCount(l) == Len(listeners[l].devices) + 2

\* next_devnum.
NextDevnum(l) == listeners[l].nextDevnum

\* Mutant: a device is named anew each time it is plugged.
NamedByPlace(d, n) == n + 1

\* The busid a device gets as the one after n others: it keeps the one it has.
BusidFor(d, n) == IF busid[d] = 0 THEN n + 1 ELSE busid[d]

IsFull(l) == Len(listeners[l].devices) >= MaxDevices

\* register, under the listener's lock; a listener that is full refuses.
Register(d) ==
    LET l == lst[d]
        n == Len(listeners[l].devices)
    IN  /\ pc[d] = "register"
        /\ IF IsFull(l)
           THEN /\ pc' = [pc EXCEPT ![d] = "idle"]
                /\ UNCHANGED <<listeners, busid, devnum>>
           ELSE /\ busid' = [busid EXCEPT ![d] = BusidFor(d, n)]
                /\ devnum' = [devnum EXCEPT ![d] = NextDevnum(l)]
                /\ listeners' = [listeners EXCEPT ![l].devices = Append(@, d),
                                                  ![l].nextDevnum = @ + 1]
                /\ pc' = [pc EXCEPT ![d] = IF n = 0 THEN "bind" ELSE "idle"]
        /\ UNCHANGED <<table, sockets, lst, ref, hasTransport, plugs, hostVars>>

\* bind and listen, by the device that came first.
Bind(d) ==
    /\ pc[d] = "bind"
    /\ \/ /\ ~PortTaken
          /\ sockets' = Append(sockets, [listener |-> lst[d], open |-> TRUE,
                                         acceptor |-> "none"])
          /\ pc' = [pc EXCEPT ![d] = "publish"]
       \/ /\ PortTaken
          /\ pc' = [pc EXCEPT ![d] = "undo"]
          /\ UNCHANGED sockets
    /\ UNCHANGED <<table, listeners, lst, ref, hasTransport, busid, devnum, plugs, hostVars>>

\* The socket joins the listener's, and the accept thread starts.
Publish(d) ==
    /\ pc[d] = "publish"
    /\ LET s == CHOOSE s \in DOMAIN sockets :
                    sockets[s].listener = lst[d] /\ sockets[s].acceptor = "none"
       IN  /\ listeners' = [listeners EXCEPT ![lst[d]].socks = @ \cup {s}]
           /\ sockets' = [sockets EXCEPT ![s].acceptor = "running"]
    /\ pc' = [pc EXCEPT ![d] = "idle"]
    /\ UNCHANGED <<table, lst, ref, hasTransport, busid, devnum, plugs, hostVars>>

\* `del` of entry i of a list.
Without(s, i) == SubSeq(s, 1, i - 1) \o SubSeq(s, i + 1, Len(s))

\* devices.remove(dev), if it is there: the first such entry goes.
RemoveDevice(l, d) ==
    LET devs == listeners[l].devices
    IN  IF d \in ExportedOn(l)
        THEN Without(devs, CHOOSE i \in DOMAIN devs : devs[i] = d /\ \A j \in 1 .. (i - 1) : devs[j] # d)
        ELSE devs

\* The bind failed: the device is unregistered and the listener dropped.
Undo(d) ==
    /\ pc[d] = "undo"
    /\ listeners' = [listeners EXCEPT ![lst[d]].devices = RemoveDevice(lst[d], d)]
    /\ pc' = [pc EXCEPT ![d] = "undoDrop"]
    /\ UNCHANGED <<table, sockets, lst, ref, hasTransport, busid, devnum, plugs, hostVars>>

-----------------------------------------------------------------------------
(* unplug: USBIP.stop.                                                     *)

\* The transport's listener is looked at; without one there is nothing to do.
Unplug(d) ==
    /\ MayCall(d) /\ hasTransport[d]
    /\ lst' = [lst EXCEPT ![d] = ref[Transport(d)]]
    /\ \/ /\ ref[Transport(d)] = 0
          /\ hasTransport' = [hasTransport EXCEPT ![d] = FALSE]
          /\ UNCHANGED pc
       \/ /\ ref[Transport(d)] # 0
          /\ pc' = [pc EXCEPT ![d] = "unregister"]
          /\ UNCHANGED hasTransport
    /\ UNCHANGED <<table, listeners, sockets, ref, busid, devnum, plugs, hostVars>>

\* Mutant: the listener is dropped whoever is left on it.
DropAnyway(devs) == TRUE

\* unregister returns True when nobody is left.
LastOneOut(devs) == devs = <<>>

\* unregister, under the listener's lock: the last one out closes the shop.
Unregister(d) ==
    /\ pc[d] = "unregister"
    /\ listeners' = [listeners EXCEPT ![lst[d]].devices = RemoveDevice(lst[d], d)]
    /\ \/ /\ LastOneOut(RemoveDevice(lst[d], d))
          /\ pc' = [pc EXCEPT ![d] = "drop"]
          /\ UNCHANGED hasTransport
       \/ /\ ~LastOneOut(RemoveDevice(lst[d], d))
          /\ pc' = [pc EXCEPT ![d] = "idle"]
          /\ hasTransport' = [hasTransport EXCEPT ![d] = FALSE]
    /\ UNCHANGED <<table, sockets, lst, ref, busid, devnum, plugs, hostVars>>

\* _drop_listener takes the listener off the table, if it is still there ...
Drop(d) ==
    /\ pc[d] \in {"drop", "undoDrop"}
    /\ table' = IF table = lst[d] THEN 0 ELSE table
    /\ pc' = [pc EXCEPT ![d] = IF @ = "drop" THEN "close" ELSE "undoClose"]
    /\ UNCHANGED <<listeners, sockets, lst, ref, hasTransport, busid, devnum, plugs, hostVars>>

\* ... and closes its sockets.  unplug then forgets the listener and the
\* transport, which a plug whose bind failed does not.
CloseListener(d) ==
    /\ pc[d] \in {"close", "undoClose"}
    /\ sockets' = [s \in DOMAIN sockets |->
                     IF s \in listeners[lst[d]].socks
                     THEN [sockets[s] EXCEPT !.open = FALSE] ELSE sockets[s]]
    /\ listeners' = [listeners EXCEPT ![lst[d]].socks = {}]
    /\ pc' = [pc EXCEPT ![d] = "idle"]
    /\ IF pc[d] = "close"
       THEN /\ ref' = [ref EXCEPT ![Transport(d)] = 0]
            /\ hasTransport' = [hasTransport EXCEPT ![d] = FALSE]
       ELSE UNCHANGED <<ref, hasTransport>>
    /\ UNCHANGED <<table, lst, busid, devnum, plugs, hostVars>>

-----------------------------------------------------------------------------
(* The accept thread of a socket, and the hosts it serves.                 *)

appVars == <<table, listeners, pc, lst, ref, hasTransport, busid, devnum, plugs>>

\* accept() blocks on an open socket, and ends the loop on a closed one.
EnterAccept(s) ==
    /\ sockets[s].acceptor = "running"
    /\ sockets' = [sockets EXCEPT ![s].acceptor = IF sockets[s].open THEN "blocked" ELSE "ended"]
    /\ UNCHANGED <<appVars, hostVars>>

\* accept() returns a connection, which serves a snapshot of the devices.
Accepted(s) ==
    /\ sockets[s].acceptor = "blocked"
    /\ sockets' = [sockets EXCEPT ![s].acceptor = "running"]

Snapshot(s) == listeners[sockets[s].listener].devices

\* _resolve_busid: the device is looked up in the list of exported devices.
LookUp(h, d, s) ==
    LET devs == Snapshot(s)
    IN  /\ opener[h] = "idle"
        /\ Accepted(s)
        /\ \/ /\ d \in Elements(devs)
              /\ target' = [target EXCEPT ![h] = busid[d]]
              /\ opener' = [opener EXCEPT ![h] = "found"]
           \/ /\ d \notin Elements(devs) /\ Len(devs) <= 1     \* "1-1"
              /\ target' = [target EXCEPT ![h] = 1]
              /\ opener' = [opener EXCEPT ![h] = "guessed"]
           \/ /\ d \notin Elements(devs) /\ Len(devs) > 1      \* NotFound
              /\ UNCHANGED <<target, opener>>
        /\ want' = [want EXCEPT ![h] = d]
        /\ UNCHANGED <<handle, appVars>>

\* The port does not answer: the list cannot be had, and "1-1" is guessed.
LookUpFails(h, d) ==
    /\ opener[h] = "idle"
    /\ ~PortTaken
    /\ target' = [target EXCEPT ![h] = 1]
    /\ opener' = [opener EXCEPT ![h] = "guessed"]
    /\ want' = [want EXCEPT ![h] = d]
    /\ UNCHANGED <<sockets, handle, appVars>>

\* serve_handshake: the first device of the snapshot with the busid.
ImportedBy(devs, bus) ==
    IF \E d \in Elements(devs) : busid[d] = bus
    THEN devs[CHOOSE i \in DOMAIN devs : /\ busid[devs[i]] = bus
                                        /\ \A j \in 1 .. (i - 1) : busid[devs[j]] # bus]
    ELSE NoDevice

\* The host has the busid it is going to import.
Resolved(h) == opener[h] \in {"found", "guessed"}

\* open imports on a connection of its own, and takes the device only when its
\* VID/PID is the one it asked for.
ImportDevice(h, s) ==
    LET d == ImportedBy(Snapshot(s), target[h])
    IN  /\ Resolved(h)
        /\ Accepted(s)
        /\ IF d # NoDevice /\ d = want[h]
           THEN /\ handle' = [handle EXCEPT ![h] = d]
                /\ opener' = [opener EXCEPT ![h] = "opened"]
           ELSE /\ opener' = [opener EXCEPT ![h] = "idle"]
                /\ UNCHANGED handle
        /\ UNCHANGED <<want, target, appVars>>

\* The port does not answer any more: connect raises.
ConnectFails(h) ==
    /\ Resolved(h)
    /\ ~PortTaken
    /\ opener' = [opener EXCEPT ![h] = "idle"]
    /\ UNCHANGED <<sockets, want, target, handle, appVars>>

CloseHandle(h) ==
    /\ opener[h] = "opened"
    /\ opener' = [opener EXCEPT ![h] = "idle"]
    /\ handle' = [handle EXCEPT ![h] = NoDevice]
    /\ UNCHANGED <<sockets, want, target, appVars>>

-----------------------------------------------------------------------------
AppStep(d) ==
    PlugDevice(d) \/ Register(d) \/ Bind(d) \/ Publish(d) \/ Undo(d)
    \/ Unplug(d) \/ Unregister(d) \/ Drop(d) \/ CloseListener(d)

HostStep(h) ==
    \/ \E s \in DOMAIN sockets : ImportDevice(h, s) \/ \E d \in Devices : LookUp(h, d, s)
    \/ (\E d \in Devices : LookUpFails(h, d)) \/ ConnectFails(h)
    \/ CloseHandle(h)

ListenerNext ==
    /\ \/ \E d \in Devices : AppStep(d)
       \/ \E s \in DOMAIN sockets : EnterAccept(s)
       \/ \E h \in Openers : HostStep(h)
    /\ UNCHANGED <<serial, shared>>

ListenerSpec == ListenerInit(Applications) /\ [][ListenerNext]_listenerVars

-----------------------------------------------------------------------------
(* Properties.                                                             *)

ListenerType == [devices : Seq(Devices), nextDevnum : Nat, socks : SUBSET Nat]
SocketType == [listener : Nat, open : BOOLEAN, acceptor : {"none", "running", "blocked", "ended"}]

\* Every variable has its type, and a listener takes no more than MaxDevices.
ListenerTypeOK ==
    /\ <<serial, shared>> \in Applications
    /\ table \in 0 .. Len(listeners)
    /\ listeners \in Seq(ListenerType)
    /\ \A l \in DOMAIN listeners : Len(listeners[l].devices) <= MaxDevices
    /\ sockets \in Seq(SocketType)
    /\ pc \in [Devices -> {"idle", "register", "bind", "publish", "undo", "undoDrop",
                           "undoClose", "unregister", "drop", "close"}]
    /\ lst \in [Devices -> 0 .. Len(listeners)]
    /\ ref \in [Transports -> 0 .. Len(listeners)]
    /\ hasTransport \in [Devices -> BOOLEAN]
    /\ busid \in [Devices -> Nat]
    /\ devnum \in [Devices -> Nat]
    /\ plugs \in 0 .. MaxPlugs
    /\ opener \in [Openers -> {"idle", "found", "guessed", "opened"}]
    /\ want \in [Openers -> Devices \cup {NoDevice}]
    /\ target \in [Openers -> Nat]
    /\ handle \in [Openers -> Devices \cup {NoDevice}]

\* The device numbers of a listener's devices differ, however often devices
\* are plugged and unplugged: a host tells devices apart by them.
DevnumsUnique ==
    \A l \in DOMAIN listeners : \A d, e \in ExportedOn(l) : devnum[d] = devnum[e] => d = e

\* No call of plug or unplug is in progress.
Quiet == \A d \in Devices : pc[d] = "idle"

\* With no call in progress, what a listener exports are plugged devices; and
\* with one application thread it is the listener of the address, whose socket
\* is open: unplugging a device leaves the rest served and itself nowhere to
\* be imported, and a plug that failed leaves nothing behind.  (Several threads
\* break the second part: a plug that has found the listener registers on it
\* after the last one out has dropped it.)
ExportedIsServed ==
    Quiet => \A l \in DOMAIN listeners :
        /\ \A d \in ExportedOn(l) : hasTransport[d]
        /\ serial /\ ExportedOn(l) # {} =>
              /\ l = table
              /\ \E s \in listeners[l].socks : sockets[s].open /\ sockets[s].acceptor # "ended"

\* A host that found its device in the list imports that very device, if it is
\* still or again exported when the import is served and shares its name with no
\* other: whatever was unplugged and plugged in between, on this listener or a
\* new one, the device still has the busid that was looked up.
LookedUpIsOpened ==
    [][\A h \in Openers : \A s \in DOMAIN sockets :
         /\ opener[h] = "found" /\ ImportDevice(h, s)
         /\ want[h] \in Elements(Snapshot(s))
         /\ \A d \in Elements(Snapshot(s)) : busid[d] = busid[want[h]] => d = want[h]
         => handle'[h] = want[h]]_listenerVars

\* Each device is named by its own busid.
BusidsUnique ==
    \A l \in DOMAIN listeners : \A d, e \in ExportedOn(l) : busid[d] = busid[e] => d = e

=============================================================================
