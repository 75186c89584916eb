-------------------------- MODULE Listener_proofs ---------------------------
(***************************************************************************)
(* Proofs about the listener of an address: device numbers differ, what is *)
(* exported is plugged and, with one application thread, served, and a     *)
(* device that was looked up is opened; for every set of devices and of    *)
(* hosts and any number of plugs.  Threads that plug devices on one transport object *)
(* are left out: they overwrite each other's `_listener`, so that an       *)
(* unplug can leave its device exported.                                   *)
(***************************************************************************)
EXTENDS Listener, SequenceTheorems, TLAPS

-----------------------------------------------------------------------------
(* Where devices are exported.                                             *)

\* The device that came first binds the listener's socket.
Binding == {"bind", "publish", "undo"}

\* A device is exported where its transport says, and only between its plug
\* and its unplug.
OnOwnListener ==
    \A l \in DOMAIN listeners : \A d \in ExportedOn(l) :
        /\ hasTransport[d] /\ ref[Transport(d)] = l
        /\ pc[d] \in {"idle", "unregister"} \cup Binding
        /\ pc[d] # "idle" => lst[d] = l

\* No device stands twice in a listener's list.
Once(s) == \A i, j \in DOMAIN s : s[i] = s[j] => i = j

OnceEach == \A l \in DOMAIN listeners : Once(listeners[l].devices)

\* The numbers of a listener's devices are below the next.
Numbered ==
    \A l \in DOMAIN listeners : \A d \in ExportedOn(l) : devnum[d] < listeners[l].nextDevnum

\* A call in progress has its listener, which is its transport's; and one of
\* them at a time binds it.
Calls ==
    /\ \A d \in Devices :
          /\ pc[d] # "idle" => lst[d] \in DOMAIN listeners
          /\ pc[d] \in {"register", "unregister"} => ref[Transport(d)] = lst[d]
          /\ pc[d] = "register" => hasTransport[d]
          /\ pc[d] \in Binding => \A l \in DOMAIN listeners : lst[d] = l => d \in ExportedOn(l)
    /\ \A d, e \in Devices : pc[d] \in Binding /\ pc[e] \in Binding /\ lst[d] = lst[e] => d = e

-----------------------------------------------------------------------------
(* Sockets.                                                                *)

\* A listener's sockets are its own, and published; one that is bound and not
\* yet published is open.
SocketsOwned ==
    /\ \A l \in DOMAIN listeners : \A s \in listeners[l].socks :
          s \in DOMAIN sockets /\ sockets[s].listener = l /\ sockets[s].acceptor # "none"
    /\ \A s \in DOMAIN sockets : sockets[s].acceptor = "none" => sockets[s].open
    /\ \A d \in Devices : pc[d] = "publish" =>
          \E s \in DOMAIN sockets : sockets[s].listener = lst[d] /\ sockets[s].acceptor = "none"

\* A listener has a socket that hosts can connect to.
Served(l) == \E s \in listeners[l].socks : sockets[s].open /\ sockets[s].acceptor # "ended"

\* With one application thread: one call at a time; only the listener of the
\* address exports devices, and it is served unless its socket is being bound;
\* the last one out leaves nobody behind.
OneThread ==
    /\ \A d, e \in Devices : pc[d] # "idle" /\ pc[e] # "idle" => d = e
    /\ \A l \in DOMAIN listeners : ExportedOn(l) # {} =>
          /\ l = table
          /\ (\A d \in Devices : pc[d] \notin Binding) => Served(l)
    /\ \A d \in Devices :
          /\ pc[d] = "register" => lst[d] = table
          /\ pc[d] \in {"close", "undoClose"} => table # lst[d]
    /\ \A d \in Devices : \A l \in DOMAIN listeners :
          /\ pc[d] \in Binding /\ lst[d] = l => ExportedOn(l) = {d}
          /\ pc[d] \in {"drop", "undoDrop"} /\ lst[d] = l => ExportedOn(l) = {}
          /\ pc[d] \in {"drop", "close"} /\ shared => ExportedOn(l) = {}

\* The applications that are reasoned about: threads share no transport.
Sane == serial \/ ~shared

ListenerInv ==
    /\ OnOwnListener /\ OnceEach /\ Numbered /\ DevnumsUnique /\ Calls /\ SocketsOwned
    /\ serial => OneThread

-----------------------------------------------------------------------------
(* The lists of devices.                                                   *)

\* Where the entries of Without(s, i) stand in s.
At(i, k) == IF k < i THEN k ELSE k + 1

\* `del` of entry i leaves the others, in their order.
LEMMA WithoutEntries ==
    ASSUME NEW S, NEW s \in Seq(S), NEW i \in DOMAIN s
    PROVE  /\ Without(s, i) \in Seq(S) /\ Len(Without(s, i)) = Len(s) - 1
           /\ \A k \in 1 .. (Len(s) - 1) : Without(s, i)[k] = s[At(i, k)]
<1> DEFINE before == SubSeq(s, 1, i - 1)
           after == SubSeq(s, i + 1, Len(s))
<1>1. Len(s) \in Nat /\ i \in 1 .. Len(s)
  OBVIOUS
<1>2. before \in Seq(S) /\ Len(before) = i - 1 /\ \A k \in 1 .. (i - 1) : before[k] = s[k]
  BY <1>1
<1>3. /\ after \in Seq(S) /\ Len(after) = Len(s) - i
      /\ \A k \in 1 .. (Len(s) - i) : after[k] = s[i + k]
  BY <1>1
<1> HIDE DEF before, after
<1>4. /\ before \o after \in Seq(S)
      /\ Len(before \o after) = Len(s) - 1
      /\ \A k \in 1 .. (Len(s) - 1) :
            (before \o after)[k] = IF k < i THEN before[k] ELSE after[k - (i - 1)]
  <2>1. /\ before \o after \in Seq(S)
        /\ Len(before \o after) = Len(before) + Len(after)
        /\ \A k \in 1 .. Len(before) + Len(after) : (before \o after)[k] =
              IF k <= Len(before) THEN before[k] ELSE after[k - Len(before)]
    BY <1>2, <1>3, ConcatProperties
  <2>2. Len(before) = i - 1 /\ Len(before) + Len(after) = Len(s) - 1
    BY <1>1, <1>2, <1>3
  <2>3. \A k \in 1 .. (Len(s) - 1) : k <= i - 1 <=> k < i
    BY <1>1
  <2> QED
    BY <2>1, <2>2, <2>3
<1>5. Without(s, i) = before \o after
  BY DEF Without, before, after
<1>6. ASSUME NEW k \in 1 .. (Len(s) - 1) PROVE (before \o after)[k] = s[At(i, k)]
  <2>1. CASE k < i
    BY <1>1, <1>2, <1>4, <2>1 DEF At
  <2>2. CASE ~(k < i)
    <3>1. k - (i - 1) \in 1 .. (Len(s) - i) /\ i + (k - (i - 1)) = k + 1
      BY <1>1, <2>2
    <3> QED
      BY <1>3, <1>4, <2>2, <3>1 DEF At
  <2> QED
    BY <2>1, <2>2
<1> QED
  BY <1>4, <1>5, <1>6

\* In a list that has no entry twice, that removes the entry.
LEMMA WithoutElements ==
    ASSUME NEW S, NEW s \in Seq(S), NEW i \in DOMAIN s, Once(s)
    PROVE  Elements(Without(s, i)) = Elements(s) \ {s[i]} /\ Once(Without(s, i))
<1> DEFINE w == Without(s, i)
<1>1. Len(s) \in Nat /\ DOMAIN s = 1 .. Len(s) /\ i \in 1 .. Len(s)
  OBVIOUS
<1>2. DOMAIN w = 1 .. (Len(s) - 1) /\ \A k \in DOMAIN w : w[k] = s[At(i, k)]
  <2>1. /\ w \in Seq(S) /\ Len(w) = Len(s) - 1
        /\ \A k \in 1 .. (Len(s) - 1) : w[k] = s[At(i, k)]
    BY WithoutEntries
  <2>2. DOMAIN w = 1 .. Len(w)
    BY <2>1
  <2> QED
    BY <2>1, <2>2
<1> HIDE DEF w
<1>3. \A k \in DOMAIN w : At(i, k) \in DOMAIN s /\ At(i, k) # i
  BY <1>1, <1>2 DEF At
<1>4. \A k, l \in DOMAIN w : At(i, k) = At(i, l) => k = l
  BY <1>1, <1>2 DEF At
<1>5. ASSUME NEW j \in DOMAIN s, j # i PROVE \E k \in DOMAIN w : At(i, k) = j
  <2>1. CASE j < i
    <3>1. j \in DOMAIN w /\ At(i, j) = j
      BY <1>1, <1>2, <2>1 DEF At
    <3> QED
      BY <3>1
  <2>2. CASE ~(j < i)
    <3>1. j - 1 \in DOMAIN w /\ At(i, j - 1) = j
      BY <1>1, <1>2, <1>5, <2>2 DEF At
    <3> QED
      BY <3>1
  <2> QED
    BY <2>1, <2>2
<1>6. Elements(w) \subseteq Elements(s) \ {s[i]}
  BY <1>2, <1>3 DEF Elements, Once
<1>7. Elements(s) \ {s[i]} \subseteq Elements(w)
  BY <1>2, <1>5 DEF Elements
<1>8. Once(w)
  BY <1>2, <1>3, <1>4 DEF Once
<1> QED
  BY <1>6, <1>7, <1>8 DEF w

LEMMA EmptyList ==
    ASSUME NEW S, NEW s \in Seq(S) PROVE s = <<>> <=> Elements(s) = {}
<1>1. DOMAIN s = 1 .. Len(s) /\ Len(s) \in Nat /\ (s = <<>> <=> Len(s) = 0)
  OBVIOUS
<1>2. ASSUME Len(s) # 0 PROVE s[1] \in Elements(s)
  BY <1>1, <1>2 DEF Elements
<1>3. ASSUME NEW x \in Elements(s) PROVE Len(s) # 0
  BY <1>1 DEF Elements
<1> QED
  BY <1>1, <1>2, <1>3

LEMMA AppendElements ==
    ASSUME NEW S, NEW s \in Seq(S), NEW d \in S
    PROVE  /\ Append(s, d) \in Seq(S) /\ Len(Append(s, d)) = Len(s) + 1
           /\ Elements(Append(s, d)) = Elements(s) \cup {d}
           /\ Once(s) /\ d \notin Elements(s) => Once(Append(s, d))
<1> DEFINE a == Append(s, d)
           n == Len(s) + 1
<1>1. /\ a \in Seq(S) /\ Len(a) = n /\ DOMAIN a = DOMAIN s \cup {n} /\ n \notin DOMAIN s
      /\ a[n] = d /\ \A i \in DOMAIN s : a[i] = s[i]
  OBVIOUS
<1> HIDE DEF a, n
<1>2. Elements(a) = Elements(s) \cup {d}
  BY <1>1 DEF Elements
<1>3. Once(s) /\ d \notin Elements(s) => Once(a)
  BY <1>1 DEF Once, Elements
<1> QED
  BY <1>1, <1>2, <1>3 DEF a, n

\* What a listener is made of.
LEMMA ListenerIs ==
    ASSUME ListenerTypeOK, NEW l \in DOMAIN listeners
    PROVE  /\ listeners[l].devices \in Seq(Devices) /\ listeners[l].nextDevnum \in Nat
           /\ listeners[l].socks \in SUBSET Nat /\ listeners[l] \in ListenerType
           /\ Len(listeners[l].devices) <= MaxDevices /\ Len(listeners[l].devices) \in Nat
           /\ ExportedOn(l) \subseteq Devices
<1>1. listeners \in Seq(ListenerType) /\ Len(listeners[l].devices) <= MaxDevices
  BY DEF ListenerTypeOK
<1>2. listeners[l] \in ListenerType
  BY <1>1
<1>3. listeners[l].devices \in Seq(Devices)
  BY <1>2 DEF ListenerType
<1> QED
  BY <1>1, <1>2, <1>3 DEF ListenerType, ExportedOn, Elements

\* `remove` takes a device off its listener's list.
LEMMA RemoveIs ==
    ASSUME ListenerTypeOK, OnceEach, NEW l \in DOMAIN listeners, NEW d
    PROVE  LET s == RemoveDevice(l, d)
           IN  /\ s \in Seq(Devices) /\ Len(s) <= MaxDevices
               /\ Elements(s) = ExportedOn(l) \ {d} /\ Once(s)
               /\ s = <<>> <=> Elements(s) = {}
<1> DEFINE devs == listeners[l].devices
           s == RemoveDevice(l, d)
<1>1. /\ devs \in Seq(Devices) /\ Len(devs) <= MaxDevices /\ Len(devs) \in Nat
      /\ Once(devs) /\ ExportedOn(l) = Elements(devs)
  BY ListenerIs DEF OnceEach, ExportedOn
<1>2. CASE d \notin ExportedOn(l)
  <2>1. s = devs
    BY <1>2 DEF RemoveDevice
  <2> HIDE DEF s, devs
  <2>2. devs = <<>> <=> Elements(devs) = {}
    BY <1>1, EmptyList
  <2>3. s \in Seq(Devices) /\ Elements(s) = ExportedOn(l) \ {d} /\ Len(s) <= MaxDevices /\ Once(s)
    BY <1>1, <1>2, <2>1
  <2> QED
    BY <2>1, <2>2, <2>3 DEF s
<1>3. CASE d \in ExportedOn(l)
  <2> DEFINE First(i) == devs[i] = d /\ \A j \in 1 .. (i - 1) : devs[j] # d
             k == CHOOSE i \in DOMAIN devs : First(i)
  <2>1. PICK i \in DOMAIN devs : devs[i] = d
    BY <1>1, <1>3 DEF Elements
  <2>2. First(i)
    BY <1>1, <2>1 DEF Once
  <2>3. k \in DOMAIN devs /\ devs[k] = d
    BY <2>2
  <2>4. s = Without(devs, k)
    BY <1>3 DEF RemoveDevice
  <2> HIDE DEF k, devs, s
  <2>5. /\ Without(devs, k) \in Seq(Devices) /\ Len(Without(devs, k)) = Len(devs) - 1
        /\ Elements(Without(devs, k)) = Elements(devs) \ {devs[k]} /\ Once(Without(devs, k))
    BY <1>1, <2>3, WithoutEntries, WithoutElements
  <2>6. s = <<>> <=> Elements(s) = {}
    BY <2>4, <2>5, EmptyList
  <2>7. Len(devs) - 1 <= MaxDevices
    BY <1>1, BoundAssumption
  <2>8. s \in Seq(Devices) /\ Elements(s) = ExportedOn(l) \ {d} /\ Len(s) <= MaxDevices /\ Once(s)
    BY <1>1, <2>3, <2>4, <2>5, <2>7
  <2> QED
    BY <2>6, <2>8 DEF s
<1> QED
  BY <1>2, <1>3

\* One listener changes.
Changes(l, devs, n, socks) ==
    /\ DOMAIN listeners' = DOMAIN listeners /\ Len(listeners') = Len(listeners)
    /\ listeners'[l].devices = devs /\ listeners'[l].nextDevnum = n /\ listeners'[l].socks = socks
    /\ \A k \in DOMAIN listeners : k # l => listeners'[k] = listeners[k]

ListenersOK ==
    /\ listeners \in Seq(ListenerType)
    /\ \A l \in DOMAIN listeners : Len(listeners[l].devices) <= MaxDevices

LEMMA ListenerChanges ==
    ASSUME ListenerTypeOK, NEW l \in DOMAIN listeners, NEW r \in ListenerType,
           Len(r.devices) <= MaxDevices, listeners' = [listeners EXCEPT ![l] = r]
    PROVE  ListenersOK' /\ Changes(l, r.devices, r.nextDevnum, r.socks)
<1>1. listeners \in Seq(ListenerType)
  BY DEF ListenerTypeOK
<1>2. /\ listeners' \in Seq(ListenerType) /\ DOMAIN listeners' = DOMAIN listeners
      /\ Len(listeners') = Len(listeners) /\ listeners'[l] = r
      /\ \A k \in DOMAIN listeners : k # l => listeners'[k] = listeners[k]
  BY <1>1
<1>3. \A k \in DOMAIN listeners' : Len(listeners'[k].devices) <= MaxDevices
  BY <1>2 DEF ListenerTypeOK
<1> QED
  BY <1>2, <1>3 DEF Changes, ListenersOK

\* The devices on a listener's list change.
LEMMA DevicesChange ==
    ASSUME ListenerTypeOK, NEW l \in DOMAIN listeners, NEW devs \in Seq(Devices), Len(devs) <= MaxDevices,
           listeners' = [listeners EXCEPT ![l].devices = devs]
    PROVE  ListenersOK' /\ Changes(l, devs, listeners[l].nextDevnum, listeners[l].socks)
<1> DEFINE r == [listeners[l] EXCEPT !.devices = devs]
<1>1. /\ r \in ListenerType /\ r.devices = devs /\ r.nextDevnum = listeners[l].nextDevnum
      /\ r.socks = listeners[l].socks
  BY ListenerIs DEF ListenerType
<1>2. listeners' = [listeners EXCEPT ![l] = r]
  OBVIOUS
<1> HIDE DEF r
<1> QED
  BY <1>1, <1>2, ListenerChanges

\* A listener's sockets change.
LEMMA SocksChange ==
    ASSUME ListenerTypeOK, NEW l \in DOMAIN listeners, NEW socks \in SUBSET Nat,
           listeners' = [listeners EXCEPT ![l].socks = socks]
    PROVE  ListenersOK' /\ Changes(l, listeners[l].devices, listeners[l].nextDevnum, socks)
<1> DEFINE r == [listeners[l] EXCEPT !.socks = socks]
<1>1. /\ r \in ListenerType /\ r.devices = listeners[l].devices
      /\ r.nextDevnum = listeners[l].nextDevnum /\ r.socks = socks
  BY ListenerIs DEF ListenerType
<1>2. listeners' = [listeners EXCEPT ![l] = r]
  OBVIOUS
<1> HIDE DEF r
<1>3. Len(r.devices) <= MaxDevices
  BY <1>1, ListenerIs
<1> QED
  BY <1>1, <1>2, <1>3, ListenerChanges

\* A device joins a listener's list.
LEMMA DeviceJoins ==
    ASSUME ListenerTypeOK, NEW d \in Devices, lst[d] \in DOMAIN listeners, ~IsFull(lst[d]),
           listeners' = [listeners EXCEPT ![lst[d]].devices = Append(@, d),
                                          ![lst[d]].nextDevnum = @ + 1]
    PROVE  LET l == lst[d]
           IN  ListenersOK' /\ Changes(l, Append(listeners[l].devices, d),
                                       listeners[l].nextDevnum + 1, listeners[l].socks)
<1> DEFINE l == lst[d]
           devs == Append(listeners[l].devices, d)
           n == listeners[l].nextDevnum + 1
           r == [listeners[l] EXCEPT !.devices = devs, !.nextDevnum = n]
<1>1. devs \in Seq(Devices) /\ Len(devs) = Len(listeners[l].devices) + 1
  BY ListenerIs, AppendElements
<1>2. Len(devs) <= MaxDevices
  BY <1>1, ListenerIs, BoundAssumption DEF IsFull
<1> USE DEF l
<1>3. n \in Nat
  BY ListenerIs
<1>4. listeners' = [listeners EXCEPT ![l] = r]
  OBVIOUS
<1> HIDE DEF devs, n
<1>6. r \in ListenerType
  BY <1>1, <1>3, ListenerIs DEF ListenerType
<1>7. r.devices = devs /\ r.nextDevnum = n /\ r.socks = listeners[l].socks
  BY ListenerIs DEF ListenerType
<1> HIDE DEF r, l
<1>5. ListenersOK' /\ Changes(l, r.devices, r.nextDevnum, r.socks)
  BY <1>2, <1>4, <1>6, <1>7, ListenerChanges DEF l
<1> QED
  BY <1>5, <1>7 DEF devs, n, l

\* A listener is made.
LEMMA ListenerMade ==
    ASSUME ListenerTypeOK, NEW n, n = Len(listeners) + 1, listeners' = Append(listeners, NewListener)
    PROVE  /\ ListenersOK' /\ Len(listeners') = n
           /\ DOMAIN listeners' = DOMAIN listeners \cup {n}
           /\ \A k \in DOMAIN listeners : listeners'[k] = listeners[k]
           /\ listeners'[n] = NewListener
           /\ ExportedOn(n)' = {}
<1>1. NewListener \in ListenerType /\ Len(NewListener.devices) = 0 /\ NewListener.devices = <<>>
  BY DEF NewListener, ListenerType
<1> HIDE DEF NewListener
<1>2. /\ listeners \in Seq(ListenerType)
      /\ \A l \in DOMAIN listeners : Len(listeners[l].devices) <= MaxDevices
  BY DEF ListenerTypeOK
<1>3. /\ listeners' \in Seq(ListenerType) /\ Len(listeners') = n
      /\ DOMAIN listeners' = DOMAIN listeners \cup {n}
      /\ \A k \in DOMAIN listeners : listeners'[k] = listeners[k]
      /\ listeners'[n] = NewListener
  BY <1>1, <1>2
<1>4. \A l \in DOMAIN listeners' : Len(listeners'[l].devices) <= MaxDevices
  BY <1>1, <1>2, <1>3, BoundAssumption
<1>5. ExportedOn(n)' = {}
  BY <1>1, <1>3, EmptyList DEF ExportedOn, Elements
<1> QED
  BY <1>3, <1>4, <1>5 DEF ListenersOK

-----------------------------------------------------------------------------
(* Types.                                                                  *)

LEMMA TypeInit == ListenerInit(Applications) => ListenerTypeOK
<1> SUFFICES ASSUME ListenerInit(Applications) PROVE ListenerTypeOK
  OBVIOUS
<1>1. PICK app \in Applications : serial = app[1] /\ shared = app[2]
  BY DEF ListenerInit
<1>2. <<serial, shared>> \in Applications
  BY <1>1, ApplicationAssumption
<1>3. listeners = <<>> /\ sockets = <<>> /\ Len(listeners) = 0
  BY DEF ListenerInit
<1>4. listeners \in Seq(ListenerType) /\ sockets \in Seq(SocketType)
  BY <1>3
<1>5. \A l \in DOMAIN listeners : Len(listeners[l].devices) <= MaxDevices
  BY <1>3
<1> QED
  BY <1>2, <1>3, <1>4, <1>5, BoundAssumption DEF ListenerInit, ListenerTypeOK

LEMMA TransportsAre ==
    ASSUME UNCHANGED shared
    PROVE  /\ Transports' = Transports
           /\ \A d : Transport(d)' = Transport(d)
           /\ \A d \in Devices : Transport(d) \in Transports
BY DEF Transport, Transports

\* What a removal leaves on the list.
LEMMA Removed ==
    ASSUME ListenerTypeOK, OnceEach, NEW d \in Devices, lst[d] \in DOMAIN listeners,
           listeners' = [listeners EXCEPT ![lst[d]].devices = RemoveDevice(lst[d], d)]
    PROVE  LET l == lst[d]
           IN  /\ ListenersOK'
               /\ Changes(l, RemoveDevice(l, d), listeners[l].nextDevnum, listeners[l].socks)
<1> DEFINE s == RemoveDevice(lst[d], d)
<1>1. s \in Seq(Devices) /\ Len(s) <= MaxDevices
  BY RemoveIs
<1> HIDE DEF s
<1>2. listeners' = [listeners EXCEPT ![lst[d]].devices = s]
  BY DEF s
<1>3. ListenersOK' /\ Changes(lst[d], s, listeners[lst[d]].nextDevnum, listeners[lst[d]].socks)
  BY <1>1, <1>2, DevicesChange
<1> QED
  BY <1>3 DEF s

\* A device whose socket is bound finds it.
Unpublished(d, s) == s \in DOMAIN sockets /\ sockets[s].listener = lst[d] /\ sockets[s].acceptor = "none"

LEMMA PublishIs ==
    ASSUME ListenerTypeOK, Calls, SocketsOwned, NEW d \in Devices, Publish(d)
    PROVE  \E s \in DOMAIN sockets :
              /\ Unpublished(d, s) /\ sockets[s] \in SocketType
              /\ sockets' = [sockets EXCEPT ![s].acceptor = "running"]
              /\ ListenersOK'
              /\ Changes(lst[d], listeners[lst[d]].devices, listeners[lst[d]].nextDevnum,
                         listeners[lst[d]].socks \cup {s})
<1> DEFINE s == CHOOSE s \in DOMAIN sockets :
                   sockets[s].listener = lst[d] /\ sockets[s].acceptor = "none"
<1>1. pc[d] = "publish" /\ lst[d] \in DOMAIN listeners
  BY DEF Publish, Calls
<1>2. \E k \in DOMAIN sockets : sockets[k].listener = lst[d] /\ sockets[k].acceptor = "none"
  BY <1>1 DEF SocketsOwned
<1>3. Unpublished(d, s)
  BY <1>2 DEF Unpublished
<1>4. /\ listeners' = [listeners EXCEPT ![lst[d]].socks = @ \cup {s}]
      /\ sockets' = [sockets EXCEPT ![s].acceptor = "running"]
  BY DEF Publish
<1> HIDE DEF s
<1>5. s \in Nat /\ sockets[s] \in SocketType
  BY <1>3 DEF ListenerTypeOK, Unpublished
<1>6. listeners[lst[d]].socks \cup {s} \in SUBSET Nat
  BY <1>1, <1>5, ListenerIs
<1>7. /\ ListenersOK'
      /\ Changes(lst[d], listeners[lst[d]].devices, listeners[lst[d]].nextDevnum,
                 listeners[lst[d]].socks \cup {s})
  BY <1>1, <1>4, <1>6, SocksChange
<1> QED
  BY <1>3, <1>4, <1>5, <1>7 DEF Unpublished

\* A step that leaves the listeners' number alone keeps the types of what
\* points at listeners.
HostsOK ==
    /\ opener \in [Openers -> {"idle", "found", "guessed", "opened"}]
    /\ want \in [Openers -> Devices \cup {NoDevice}]
    /\ target \in [Openers -> Nat]
    /\ handle \in [Openers -> Devices \cup {NoDevice}]

LEMMA TypeApp ==
    ASSUME ListenerTypeOK, OnceEach, Calls, SocketsOwned, UNCHANGED <<serial, shared>>,
           NEW d \in Devices, AppStep(d)
    PROVE  ListenerTypeOK'
<1> USE BoundAssumption
<1>0. /\ pc[d] # "idle" => lst[d] \in DOMAIN listeners
      /\ Transports' = Transports /\ Transport(d) \in Transports
      /\ Len(listeners) \in Nat /\ DOMAIN listeners = 1 .. Len(listeners)
  BY TransportsAre DEF Calls, ListenerTypeOK
<1>1. CASE PlugDevice(d)
  <2>1. CASE table # 0
    BY <1>0, <1>1, <2>1 DEF PlugDevice, ListenerTypeOK, hostVars
  <2>2. CASE table = 0
    <3>1. table' = Len(listeners) + 1 /\ ListenersOK' /\ Len(listeners') = Len(listeners) + 1
      BY <1>1, <2>2, ListenerMade DEF PlugDevice
    <3>2. /\ lst' = [lst EXCEPT ![d] = table'] /\ ref' = [ref EXCEPT ![Transport(d)] = table']
          /\ UNCHANGED <<sockets, busid, devnum, opener, want, target, handle>>
          /\ plugs' = plugs + 1 /\ plugs < MaxPlugs
          /\ hasTransport' = [hasTransport EXCEPT ![d] = TRUE] /\ pc' = [pc EXCEPT ![d] = "register"]
      BY <1>1 DEF PlugDevice, hostVars
    <3> QED
      BY <1>0, <3>1, <3>2 DEF ListenerTypeOK, ListenersOK
  <2> QED
    BY <2>1, <2>2
<1>2. CASE Register(d)
  <2>0. lst[d] \in DOMAIN listeners /\ pc[d] = "register"
    BY <1>0, <1>2 DEF Register
  <2>1. CASE IsFull(lst[d])
    <3>1. /\ pc' = [pc EXCEPT ![d] = "idle"]
          /\ UNCHANGED <<listeners, busid, devnum, table, sockets, lst, ref, hasTransport, plugs,
                         opener, want, target, handle>>
      BY <1>2, <2>1 DEF Register, hostVars
    <3> QED
      BY <1>0, <3>1 DEF ListenerTypeOK
  <2>2. CASE ~IsFull(lst[d])
    <3>1. ListenersOK' /\ Len(listeners') = Len(listeners)
      BY <1>2, <2>0, <2>2, DeviceJoins DEF Register, Changes
    <3>2. Len(listeners[lst[d]].devices) \in Nat /\ NextDevnum(lst[d]) \in Nat
      BY <2>0, ListenerIs DEF NextDevnum
    <3>3. busid' \in [Devices -> Nat] /\ devnum' \in [Devices -> Nat]
      <4>1. PICK b \in Nat : busid' = [busid EXCEPT ![d] = b]
        BY <1>2, <2>2, <3>2, SMTT(20) DEF Register, BusidFor, ListenerTypeOK
      <4>2. devnum' = [devnum EXCEPT ![d] = NextDevnum(lst[d])]
        BY <1>2, <2>2 DEF Register
      <4> QED
        BY <3>2, <4>1, <4>2 DEF ListenerTypeOK
    <3>4. pc' = [pc EXCEPT ![d] = "bind"] \/ pc' = [pc EXCEPT ![d] = "idle"]
      BY <1>2, <2>2 DEF Register
    <3>5. UNCHANGED <<table, sockets, lst, ref, hasTransport, plugs, opener, want, target, handle>>
      BY <1>2 DEF Register, hostVars
    <3> QED
      BY <1>0, <3>1, <3>3, <3>4, <3>5 DEF ListenerTypeOK, ListenersOK
  <2> QED
    BY <2>1, <2>2
<1>3. CASE Bind(d)
  <2>1. [listener |-> lst[d], open |-> TRUE, acceptor |-> "none"] \in SocketType
    BY <1>0 DEF ListenerTypeOK, SocketType
  <2>2. sockets' \in Seq(SocketType)
    <3> DEFINE x == [listener |-> lst[d], open |-> TRUE, acceptor |-> "none"]
    <3>1. sockets' = Append(sockets, x) \/ sockets' = sockets
      BY <1>3 DEF Bind
    <3>2. sockets \in Seq(SocketType) /\ x \in SocketType
      BY <2>1 DEF ListenerTypeOK
    <3> HIDE DEF x
    <3> QED
      BY <3>1, <3>2
  <2> QED
    <3>1. pc' = [pc EXCEPT ![d] = "publish"] \/ pc' = [pc EXCEPT ![d] = "undo"]
      BY <1>3 DEF Bind
    <3>2. UNCHANGED <<table, listeners, lst, ref, hasTransport, busid, devnum, plugs,
                      opener, want, target, handle>>
      BY <1>3 DEF Bind, hostVars
    <3> QED
      BY <1>0, <2>2, <3>1, <3>2 DEF ListenerTypeOK
<1>4. CASE Publish(d)
  <2>1. PICK s \in DOMAIN sockets :
              /\ sockets[s] \in SocketType
              /\ sockets' = [sockets EXCEPT ![s].acceptor = "running"]
              /\ ListenersOK' /\ Len(listeners') = Len(listeners)
    BY <1>4, PublishIs DEF Changes
  <2>2. [sockets[s] EXCEPT !.acceptor = "running"] \in SocketType
    BY <2>1 DEF SocketType
  <2>3. sockets' \in Seq(SocketType)
    BY <2>1, <2>2 DEF ListenerTypeOK
  <2> QED
    BY <1>0, <1>4, <2>1, <2>3 DEF Publish, ListenerTypeOK, ListenersOK, hostVars
<1>5. CASE Undo(d)
  <2>1. ListenersOK' /\ Len(listeners') = Len(listeners)
    BY <1>0, <1>5, Removed DEF Undo, Changes
  <2> QED
    BY <1>0, <1>5, <2>1 DEF Undo, ListenerTypeOK, ListenersOK, hostVars
<1>6. CASE Unplug(d)
  BY <1>0, <1>6 DEF Unplug, ListenerTypeOK, hostVars
<1>7. CASE Unregister(d)
  <2>1. ListenersOK' /\ Len(listeners') = Len(listeners)
    BY <1>0, <1>7, Removed DEF Unregister, Changes
  <2>2. /\ pc' = [pc EXCEPT ![d] = "drop"] \/ pc' = [pc EXCEPT ![d] = "idle"]
        /\ hasTransport' = hasTransport \/ hasTransport' = [hasTransport EXCEPT ![d] = FALSE]
        /\ UNCHANGED <<table, sockets, lst, ref, busid, devnum, plugs, opener, want, target, handle>>
    BY <1>7 DEF Unregister, hostVars
  <2> QED
    BY <1>0, <2>1, <2>2 DEF ListenerTypeOK, ListenersOK
<1>8. CASE Drop(d)
  BY <1>0, <1>8 DEF Drop, ListenerTypeOK, hostVars
<1>9. CASE CloseListener(d)
  <2>1. ListenersOK' /\ Len(listeners') = Len(listeners)
    <3>1. listeners' = [listeners EXCEPT ![lst[d]].socks = {}] /\ lst[d] \in DOMAIN listeners
      BY <1>0, <1>9 DEF CloseListener
    <3>2. {} \in SUBSET Nat
      OBVIOUS
    <3>3. /\ ListenersOK'
          /\ Changes(lst[d], listeners[lst[d]].devices, listeners[lst[d]].nextDevnum, {})
      BY <3>1, <3>2, SocksChange
    <3> QED
      BY <3>3 DEF Changes
  <2>2. sockets' \in Seq(SocketType)
    <3>1. sockets \in Seq(SocketType) /\ DOMAIN sockets = 1 .. Len(sockets) /\ Len(sockets) \in Nat
      BY DEF ListenerTypeOK
    <3>2. \A s \in DOMAIN sockets : [sockets[s] EXCEPT !.open = FALSE] \in SocketType
      <4> SUFFICES ASSUME NEW s \in DOMAIN sockets
                   PROVE  [sockets[s] EXCEPT !.open = FALSE] \in SocketType
        OBVIOUS
      <4>1. sockets[s] \in SocketType
        BY <3>1
      <4> QED
        BY <4>1 DEF SocketType
    <3>3. sockets' \in [1 .. Len(sockets) -> SocketType]
      BY <1>9, <3>1, <3>2 DEF CloseListener
    <3> QED
      BY <3>1, <3>3, SeqDef
  <2> QED
    <3>1. /\ pc' = [pc EXCEPT ![d] = "idle"]
          /\ ref' = ref \/ ref' = [ref EXCEPT ![Transport(d)] = 0]
          /\ hasTransport' = hasTransport \/ hasTransport' = [hasTransport EXCEPT ![d] = FALSE]
          /\ UNCHANGED <<table, lst, busid, devnum, plugs, opener, want, target, handle>>
      <4>1. /\ pc' = [pc EXCEPT ![d] = "idle"]
            /\ UNCHANGED <<table, lst, busid, devnum, plugs, opener, want, target, handle>>
        BY <1>9 DEF CloseListener, hostVars
      <4>2. /\ ref' = ref \/ ref' = [ref EXCEPT ![Transport(d)] = 0]
            /\ hasTransport' = hasTransport \/ hasTransport' = [hasTransport EXCEPT ![d] = FALSE]
        BY <1>9, Zenon DEF CloseListener
      <4> QED
        BY <4>1, <4>2
    <3>2. ref' \in [Transports -> 0 .. Len(listeners)] /\ hasTransport' \in [Devices -> BOOLEAN]
      <4>1. ref \in [Transports -> 0 .. Len(listeners)] /\ hasTransport \in [Devices -> BOOLEAN]
        BY DEF ListenerTypeOK
      <4>2. 0 \in 0 .. Len(listeners)
        BY <1>0
      <4>3. ref' \in [Transports -> 0 .. Len(listeners)]
        BY <1>0, <3>1, <4>1, <4>2
      <4>4. hasTransport' \in [Devices -> BOOLEAN]
        BY <3>1, <4>1
      <4> QED
        BY <4>3, <4>4
    <3>3. UNCHANGED <<table, lst, busid, devnum, plugs, opener, want, target, handle>>
      BY <3>1
    <3>4. pc' \in [Devices -> {"idle", "register", "bind", "publish", "undo", "undoDrop",
                             "undoClose", "unregister", "drop", "close"}]
      BY <3>1 DEF ListenerTypeOK
    <3>5. /\ table' \in 0 .. Len(listeners') /\ lst' \in [Devices -> 0 .. Len(listeners')]
          /\ ref' \in [Transports' -> 0 .. Len(listeners')]
      BY <1>0, <2>1, <3>2, <3>3 DEF ListenerTypeOK
    <3>6. HostsOK'
      BY <3>3 DEF ListenerTypeOK, HostsOK
    <3>7. busid' \in [Devices -> Nat] /\ devnum' \in [Devices -> Nat] /\ plugs' \in 0 .. MaxPlugs
      BY <3>3 DEF ListenerTypeOK
    <3>8. <<serial, shared>>' \in Applications
      BY DEF ListenerTypeOK
    <3> QED
      BY <2>1, <2>2, <3>2, <3>4, <3>5, <3>6, <3>7, <3>8, Zenon DEF ListenerTypeOK, ListenersOK, HostsOK
<1> QED
  BY <1>1, <1>2, <1>3, <1>4, <1>5, <1>6, <1>7, <1>8, <1>9 DEF AppStep

\* The accept thread of a socket moves on; nothing else of the application does.
Moves(s) ==
    /\ s \in DOMAIN sockets /\ sockets[s].acceptor \in {"running", "blocked"}
    /\ \/ sockets' = [sockets EXCEPT ![s].acceptor = "running"]
       \/ sockets' = [sockets EXCEPT ![s].acceptor = "blocked"]
       \/ ~sockets[s].open /\ sockets' = [sockets EXCEPT ![s].acceptor = "ended"]
    /\ UNCHANGED appVars

LEMMA MovesIs ==
    ASSUME ListenerTypeOK, NEW s \in DOMAIN sockets, EnterAccept(s) \/ (Accepted(s) /\ UNCHANGED appVars)
    PROVE  Moves(s)
BY DEF Moves, EnterAccept, Accepted

LEMMA TypeMoves ==
    ASSUME ListenerTypeOK, NEW s, Moves(s), UNCHANGED <<serial, shared>>, HostsOK'
    PROVE  ListenerTypeOK'
<1>1. sockets[s] \in SocketType
  BY DEF ListenerTypeOK, Moves
<1>2. /\ [sockets[s] EXCEPT !.acceptor = "running"] \in SocketType
      /\ [sockets[s] EXCEPT !.acceptor = "blocked"] \in SocketType
      /\ [sockets[s] EXCEPT !.acceptor = "ended"] \in SocketType
  BY <1>1 DEF SocketType
<1>3. sockets' \in Seq(SocketType)
  <2>1. sockets \in Seq(SocketType) /\ s \in DOMAIN sockets
    BY DEF Moves, ListenerTypeOK
  <2>2. \E x \in SocketType : sockets' = [sockets EXCEPT ![s] = x]
    BY <1>2 DEF Moves
  <2> QED
    BY <2>1, <2>2
<1> QED
  BY <1>3, TransportsAre DEF Moves, ListenerTypeOK, HostsOK, appVars

-----------------------------------------------------------------------------
(* The invariant, action by action.                                        *)

\* What a change of one listener does to the lists.
LEMMA Exports ==
    ASSUME NEW l \in DOMAIN listeners, NEW devs, NEW n, NEW socks, Changes(l, devs, n, socks)
    PROVE  /\ DOMAIN listeners' = DOMAIN listeners
           /\ ExportedOn(l)' = Elements(devs)
           /\ \A k \in DOMAIN listeners : k # l =>
                 ExportedOn(k)' = ExportedOn(k) /\ listeners'[k] = listeners[k]
           /\ listeners'[l].socks = socks /\ listeners'[l].nextDevnum = n
           /\ listeners'[l].devices = devs
BY DEF Changes, ExportedOn

LEMMA Apart ==
    \A d, e \in Devices : Transport(d) = Transport(e) => d = e \/ shared
BY DEF Transport

LEMMA InvInit == ListenerInit(Applications) => ListenerInv
<1> SUFFICES ASSUME ListenerInit(Applications) PROVE ListenerInv
  OBVIOUS
<1>1. /\ DOMAIN listeners = {} /\ DOMAIN sockets = {} /\ table = 0
      /\ \A d \in Devices : pc[d] = "idle"
  BY DEF ListenerInit
<1> QED
  BY <1>1 DEF ListenerInv, OnOwnListener, OnceEach, Numbered, DevnumsUnique, Calls, SocketsOwned,
              OneThread, Binding

LEMMA InvUnplug ==
    ASSUME ListenerTypeOK, ListenerInv, UNCHANGED <<serial, shared>>, NEW d \in Devices, Unplug(d)
    PROVE  ListenerInv'
<1>1. /\ pc[d] = "idle" /\ (serial => \A e \in Devices : pc[e] = "idle") /\ hasTransport[d]
      /\ lst' = [lst EXCEPT ![d] = ref[Transport(d)]]
      /\ UNCHANGED <<table, listeners, sockets, ref, busid, devnum>>
  BY DEF Unplug, MayCall
<1>2. \/ /\ ref[Transport(d)] = 0 /\ hasTransport' = [hasTransport EXCEPT ![d] = FALSE] /\ pc' = pc
      \/ /\ ref[Transport(d)] # 0 /\ hasTransport' = hasTransport /\ pc' = [pc EXCEPT ![d] = "unregister"]
  BY DEF Unplug
<1>3. /\ \A l \in DOMAIN listeners : ExportedOn(l)' = ExportedOn(l) /\ ExportedOn(l) \subseteq Devices
      /\ \A l \in DOMAIN listeners : l # 0
      /\ ref[Transport(d)] # 0 => ref[Transport(d)] \in DOMAIN listeners
      /\ \A e : Transport(e)' = Transport(e)
  BY <1>1, ListenerIs, TransportsAre, SMTT(20) DEF ExportedOn, ListenerTypeOK
<1>4. /\ lst'[d] = ref[Transport(d)] /\ \A e \in Devices : e # d => lst'[e] = lst[e]
      /\ \A e \in Devices : e # d => pc'[e] = pc[e] /\ hasTransport'[e] = hasTransport[e]
      /\ \/ ref[Transport(d)] = 0 /\ pc'[d] = "idle"
         \/ ref[Transport(d)] # 0 /\ hasTransport'[d] /\ pc'[d] = "unregister"
  BY <1>1, <1>2 DEF ListenerTypeOK
<1>5. OnOwnListener'
  BY <1>1, <1>3, <1>4 DEF ListenerInv, OnOwnListener, Binding
<1>6. OnceEach' /\ Numbered' /\ DevnumsUnique'
  BY <1>1, <1>3 DEF ListenerInv, OnceEach, Numbered, DevnumsUnique
<1>7. Calls'
  BY <1>1, <1>3, <1>4 DEF ListenerInv, Calls, Binding
<1>8. SocketsOwned'
  BY <1>1, <1>3, <1>4 DEF ListenerInv, SocketsOwned
<1>9. ASSUME serial PROVE OneThread'
  BY <1>1, <1>3, <1>4, <1>9 DEF ListenerInv, OneThread, Served, Binding
<1> QED
  BY <1>5, <1>6, <1>7, <1>8, <1>9 DEF ListenerInv

LEMMA InvPlug ==
    ASSUME ListenerTypeOK, ListenerInv, Sane, UNCHANGED <<serial, shared>>, NEW d \in Devices, PlugDevice(d)
    PROVE  ListenerInv'
<1>1. /\ pc[d] = "idle" /\ (serial => \A e \in Devices : pc[e] = "idle") /\ ~hasTransport[d]
      /\ UNCHANGED <<sockets, busid, devnum>>
      /\ lst' = [lst EXCEPT ![d] = table'] /\ ref' = [ref EXCEPT ![Transport(d)] = table']
      /\ hasTransport' = [hasTransport EXCEPT ![d] = TRUE] /\ pc' = [pc EXCEPT ![d] = "register"]
  BY DEF PlugDevice, MayCall
<1>2. PICK l : l = table'
  OBVIOUS
<1>3. /\ l \in DOMAIN listeners' /\ DOMAIN listeners \subseteq DOMAIN listeners'
      /\ \A k \in DOMAIN listeners :
            /\ listeners'[k] = listeners[k] /\ ExportedOn(k)' = ExportedOn(k)
            /\ ExportedOn(k) \subseteq Devices /\ k # 0
      /\ \A k \in DOMAIN listeners' : k \notin DOMAIN listeners =>
            /\ table = 0 /\ ExportedOn(k)' = {} /\ listeners'[k] = NewListener
      /\ table # 0 => l = table
  <2>1. CASE table # 0
    <3>1. l = table /\ listeners' = listeners /\ table \in DOMAIN listeners
      BY <1>2, <2>1 DEF PlugDevice, ListenerTypeOK
    <3> QED
      BY <2>1, <3>1, ListenerIs, SMTT(20) DEF ExportedOn, ListenerTypeOK
  <2>2. CASE table = 0
    <3>1. l = Len(listeners) + 1 /\ listeners' = Append(listeners, NewListener)
      BY <1>2, <2>2 DEF PlugDevice
    <3>2. /\ DOMAIN listeners' = DOMAIN listeners \cup {l} /\ listeners'[l] = NewListener
          /\ \A k \in DOMAIN listeners : listeners'[k] = listeners[k]
          /\ ExportedOn(l)' = {}
      BY <3>1, ListenerMade
    <3> QED
      BY <2>2, <3>1, <3>2, ListenerIs, SMTT(20) DEF ExportedOn, ListenerTypeOK
  <2> QED
    BY <2>1, <2>2
<1>4. /\ lst'[d] = l /\ pc'[d] = "register" /\ hasTransport'[d] /\ ref'[Transport(d)] = l
      /\ \A e \in Devices : e # d =>
            lst'[e] = lst[e] /\ pc'[e] = pc[e] /\ hasTransport'[e] = hasTransport[e]
      /\ \A t \in Transports : t # Transport(d) => ref'[t] = ref[t]
      /\ \A e : Transport(e)' = Transport(e)
      /\ \A e \in Devices : Transport(e) \in Transports
  BY <1>1, <1>2, TransportsAre DEF ListenerTypeOK
<1>5. \A k \in DOMAIN listeners : d \notin ExportedOn(k)
  BY <1>1 DEF ListenerInv, OnOwnListener
<1>6. ASSUME NEW k \in DOMAIN listeners, NEW e \in ExportedOn(k) PROVE ref'[Transport(e)] = k
  <2>1. e \in Devices /\ e # d /\ ref[Transport(e)] = k
    BY <1>3, <1>5 DEF ListenerInv, OnOwnListener
  <2>2. CASE shared
    <3>1. k = table
      BY <2>2 DEF Sane, ListenerInv, OneThread
    <3> QED
      BY <1>3, <1>4, <2>1, <2>2, <3>1 DEF Transport
  <2>3. CASE ~shared
    BY <1>4, <2>1, <2>3, Apart
  <2> QED
    BY <2>2, <2>3
<1>7. OnOwnListener'
  BY <1>3, <1>4, <1>5, <1>6 DEF ListenerInv, OnOwnListener, Binding
<1>8. OnceEach'
  BY <1>3, <1>1 DEF ListenerInv, OnceEach, Once, NewListener
<1>9. Numbered' /\ DevnumsUnique'
  BY <1>1, <1>3 DEF ListenerInv, Numbered, DevnumsUnique
<1>10. Calls'
  <2>1. \A e \in Devices : e # d /\ ~shared => ref'[Transport(e)] = ref[Transport(e)]
    BY <1>4, Apart
  <2>2. shared => \A e \in Devices : pc[e] = "idle"
    BY <1>1 DEF Sane
  <2> QED
    BY <1>3, <1>4, <2>1, <2>2 DEF ListenerInv, Calls, Binding
<1>11. SocketsOwned'
  BY <1>1, <1>3, <1>4 DEF ListenerInv, SocketsOwned, NewListener
<1>12. ASSUME serial PROVE OneThread'
  <2>1. \A k \in DOMAIN listeners' : ExportedOn(k)' # {} => k \in DOMAIN listeners
    BY <1>3
  <2>2. \A k \in DOMAIN listeners : ExportedOn(k) # {} => k = table /\ Served(k)
    BY <1>1, <1>12 DEF ListenerInv, OneThread, Binding
  <2>3. \A k \in DOMAIN listeners : Served(k) => Served(k)'
    BY <1>1, <1>3 DEF Served
  <2> QED
    BY <1>1, <1>2, <1>3, <1>4, <1>12, <2>1, <2>2, <2>3 DEF OneThread, Binding
<1> QED
  BY <1>7, <1>8, <1>9, <1>10, <1>11, <1>12 DEF ListenerInv

LEMMA InvRegister ==
    ASSUME ListenerTypeOK, ListenerInv, UNCHANGED <<serial, shared>>, NEW d \in Devices, Register(d)
    PROVE  ListenerInv'
<1>1. /\ pc[d] = "register" /\ UNCHANGED <<table, sockets, lst, ref, hasTransport>>
      /\ \A e : Transport(e)' = Transport(e)
  BY TransportsAre DEF Register
<1>2. PICK l \in DOMAIN listeners : l = lst[d]
  BY <1>1 DEF ListenerInv, Calls
<1>3. hasTransport[d] /\ ref[Transport(d)] = l /\ \A k \in DOMAIN listeners : d \notin ExportedOn(k)
  BY <1>1, <1>2 DEF ListenerInv, Calls, OnOwnListener, Binding
<1>4. CASE IsFull(l)
  <2>1. UNCHANGED <<listeners, devnum>> /\ pc' = [pc EXCEPT ![d] = "idle"]
    BY <1>2, <1>4 DEF Register
  <2>2. pc'[d] = "idle" /\ \A e \in Devices : e # d => pc'[e] = pc[e]
    BY <2>1 DEF ListenerTypeOK
  <2>3. /\ \A k \in DOMAIN listeners : ExportedOn(k)' = ExportedOn(k) /\ ExportedOn(k) \subseteq Devices
    BY <2>1, ListenerIs DEF ExportedOn
  <2>4. OnOwnListener'
    BY <1>1, <1>3, <2>1, <2>2, <2>3 DEF ListenerInv, OnOwnListener, Binding
  <2>5. OnceEach' /\ Numbered' /\ DevnumsUnique'
    BY <2>1, <2>3 DEF ListenerInv, OnceEach, Numbered, DevnumsUnique
  <2>6. Calls' /\ SocketsOwned'
    BY <1>1, <2>1, <2>2, <2>3 DEF ListenerInv, Calls, SocketsOwned, Binding
  <2>7. ASSUME serial PROVE OneThread'
    BY <1>1, <2>1, <2>2, <2>3, <2>7 DEF ListenerInv, OneThread, Served, Binding
  <2> QED
    BY <2>4, <2>5, <2>6, <2>7 DEF ListenerInv
<1>5. CASE ~IsFull(l)
  <2> DEFINE n == listeners[l].nextDevnum
  <2>1. /\ listeners' = [listeners EXCEPT ![lst[d]].devices = Append(@, d),
                                          ![lst[d]].nextDevnum = @ + 1]
        /\ devnum' = [devnum EXCEPT ![d] = n]
        /\ pc' = [pc EXCEPT ![d] = IF listeners[l].devices = <<>> THEN "bind" ELSE "idle"]
    <3>1. Len(listeners[l].devices) = 0 <=> listeners[l].devices = <<>>
      BY ListenerIs
    <3> QED
      BY <1>2, <1>5, <3>1 DEF Register, NextDevnum
  <2>2. Changes(l, Append(listeners[l].devices, d), n + 1, listeners[l].socks)
    BY <1>2, <1>5, <2>1, DeviceJoins
  <2>3. /\ DOMAIN listeners' = DOMAIN listeners
        /\ ExportedOn(l)' = ExportedOn(l) \cup {d}
        /\ \A k \in DOMAIN listeners : k # l =>
              ExportedOn(k)' = ExportedOn(k) /\ listeners'[k] = listeners[k]
        /\ listeners'[l].socks = listeners[l].socks /\ listeners'[l].nextDevnum = n + 1
        /\ Once(listeners'[l].devices)
    <3>1. /\ Elements(Append(listeners[l].devices, d)) = ExportedOn(l) \cup {d}
          /\ Once(Append(listeners[l].devices, d))
      BY <1>3, ListenerIs, AppendElements DEF ExportedOn, ListenerInv, OnceEach
    <3> QED
      BY <2>2, <3>1, Exports
  <2>4. /\ n \in Nat /\ devnum'[d] = n /\ devnum \in [Devices -> Nat]
        /\ \A e \in Devices : e # d => devnum'[e] = devnum[e] /\ pc'[e] = pc[e]
        /\ \/ ExportedOn(l) = {} /\ pc'[d] = "bind"
           \/ ExportedOn(l) # {} /\ pc'[d] = "idle"
    <3>1. listeners[l].devices = <<>> <=> ExportedOn(l) = {}
      BY ListenerIs, EmptyList DEF ExportedOn
    <3> QED
      BY <2>1, <3>1, ListenerIs DEF ListenerTypeOK
  <2>5. \A k \in DOMAIN listeners : ExportedOn(k) \subseteq Devices
    BY ListenerIs
  <2> HIDE DEF n
  <2>6. OnOwnListener'
    BY <1>1, <1>2, <1>3, <2>3, <2>4, <2>5 DEF ListenerInv, OnOwnListener, Binding
  <2>7. OnceEach'
    BY <2>3 DEF ListenerInv, OnceEach
  <2>8. \A k \in DOMAIN listeners : \A e \in ExportedOn(k) :
            e # d /\ devnum'[e] = devnum[e] /\ devnum[e] \in Nat
    BY <1>3, <2>4, <2>5
  <2>9. \A e \in ExportedOn(l) : devnum[e] < n
    BY DEF ListenerInv, Numbered, n
  <2>10. Numbered'
    BY <2>3, <2>4, <2>8, <2>9 DEF ListenerInv, Numbered
  <2>11. DevnumsUnique'
    BY <2>3, <2>4, <2>8, <2>9 DEF ListenerInv, DevnumsUnique
  <2>12. \A e \in Devices : pc[e] \in Binding /\ lst[e] = l => e \in ExportedOn(l)
    BY DEF ListenerInv, Calls
  <2>13. Calls'
    BY <1>1, <1>2, <2>3, <2>4, <2>12 DEF ListenerInv, Calls, Binding
  <2>14. SocketsOwned'
    BY <1>1, <2>3, <2>4 DEF ListenerInv, SocketsOwned
  <2>15. ASSUME serial PROVE OneThread'
    <3>1. l = table /\ (\A e \in Devices : e # d => pc[e] = "idle")
      BY <1>1, <1>2, <2>15 DEF ListenerInv, OneThread
    <3>2. \A k \in DOMAIN listeners : Served(k) => Served(k)'
      BY <1>1, <2>3 DEF Served
    <3>3. \A k \in DOMAIN listeners : ExportedOn(k) # {} => k = table /\ Served(k)
      BY <1>1, <2>15, <3>1 DEF ListenerInv, OneThread, Binding
    <3> QED
      BY <1>1, <1>2, <2>3, <2>4, <3>1, <3>2, <3>3 DEF OneThread, Binding
  <2> QED
    BY <2>6, <2>7, <2>10, <2>11, <2>13, <2>14, <2>15 DEF ListenerInv
<1> QED
  BY <1>4, <1>5

LEMMA InvBind ==
    ASSUME ListenerTypeOK, ListenerInv, UNCHANGED <<serial, shared>>, NEW d \in Devices, Bind(d)
    PROVE  ListenerInv'
<1>1. /\ pc[d] = "bind" /\ UNCHANGED <<table, listeners, lst, ref, hasTransport, devnum>>
      /\ \A e : Transport(e)' = Transport(e)
      /\ DOMAIN sockets = 1 .. Len(sockets) /\ Len(sockets) \in Nat
      /\ \A k \in DOMAIN listeners : ExportedOn(k)' = ExportedOn(k) /\ ExportedOn(k) \subseteq Devices
  BY TransportsAre, ListenerIs, SMTT(20) DEF Bind, ExportedOn, ListenerTypeOK
<1>2. \/ /\ pc' = [pc EXCEPT ![d] = "undo"] /\ sockets' = sockets
      \/ /\ pc' = [pc EXCEPT ![d] = "publish"]
         /\ sockets' = Append(sockets, [listener |-> lst[d], open |-> TRUE, acceptor |-> "none"])
  BY DEF Bind
<1>3. /\ \A e \in Devices : e # d => pc'[e] = pc[e]
      /\ \A s \in DOMAIN sockets : s \in DOMAIN sockets' /\ sockets'[s] = sockets[s]
      /\ \A s \in DOMAIN sockets' : s \in DOMAIN sockets
            \/ sockets'[s] = [listener |-> lst[d], open |-> TRUE, acceptor |-> "none"]
      /\ \/ pc'[d] = "undo"
         \/ pc'[d] = "publish" /\ \E s \in DOMAIN sockets' :
               sockets'[s] = [listener |-> lst[d], open |-> TRUE, acceptor |-> "none"]
  <2>1. CASE pc' = [pc EXCEPT ![d] = "undo"] /\ sockets' = sockets
    BY <2>1 DEF ListenerTypeOK
  <2>2. CASE /\ pc' = [pc EXCEPT ![d] = "publish"]
             /\ sockets' = Append(sockets, [listener |-> lst[d], open |-> TRUE, acceptor |-> "none"])
    <3> DEFINE x == [listener |-> lst[d], open |-> TRUE, acceptor |-> "none"]
               n == Len(sockets) + 1
    <3>1. sockets \in Seq(SocketType)
      BY DEF ListenerTypeOK
    <3> HIDE DEF x
    <3>2. /\ DOMAIN Append(sockets, x) = DOMAIN sockets \cup {n} /\ Append(sockets, x)[n] = x
          /\ \A s \in DOMAIN sockets : Append(sockets, x)[s] = sockets[s]
      BY <1>1, <3>1
    <3>3. sockets' = Append(sockets, x) /\ pc' = [pc EXCEPT ![d] = "publish"]
      BY <2>2 DEF x
    <3>4. pc'[d] = "publish" /\ \A e \in Devices : e # d => pc'[e] = pc[e]
      BY <3>3 DEF ListenerTypeOK
    <3> QED
      BY <3>2, <3>3, <3>4 DEF x
  <2> QED
    BY <1>2, <2>1, <2>2
<1>4. OnOwnListener'
  BY <1>1, <1>3 DEF ListenerInv, OnOwnListener, Binding
<1>5. OnceEach' /\ Numbered' /\ DevnumsUnique'
  BY <1>1 DEF ListenerInv, OnceEach, Numbered, DevnumsUnique
<1>6. Calls'
  BY <1>1, <1>3 DEF ListenerInv, Calls, Binding
<1>7. SocketsOwned'
  BY <1>1, <1>3 DEF ListenerInv, SocketsOwned
<1>8. ASSUME serial PROVE OneThread'
  <2>1. \A k \in DOMAIN listeners : ExportedOn(k) # {} => k = table
    BY <1>8 DEF ListenerInv, OneThread
  <2> QED
    BY <1>1, <1>3, <1>8, <2>1 DEF ListenerInv, OneThread, Binding
<1> QED
  BY <1>4, <1>5, <1>6, <1>7, <1>8 DEF ListenerInv

LEMMA InvPublish ==
    ASSUME ListenerTypeOK, ListenerInv, UNCHANGED <<serial, shared>>, NEW d \in Devices, Publish(d)
    PROVE  ListenerInv'
<1>1. /\ pc[d] = "publish" /\ UNCHANGED <<table, lst, ref, hasTransport, devnum>>
      /\ \A e : Transport(e)' = Transport(e)
      /\ pc'[d] = "idle" /\ \A e \in Devices : e # d => pc'[e] = pc[e]
  BY TransportsAre DEF Publish, ListenerTypeOK
<1>2. PICK l \in DOMAIN listeners : l = lst[d]
  BY <1>1 DEF ListenerInv, Calls
<1>3. PICK s \in DOMAIN sockets :
         /\ Unpublished(d, s) /\ sockets[s] \in SocketType
         /\ sockets' = [sockets EXCEPT ![s].acceptor = "running"]
         /\ Changes(l, listeners[l].devices, listeners[l].nextDevnum, listeners[l].socks \cup {s})
  BY <1>2, PublishIs DEF ListenerInv
<1>4. /\ DOMAIN listeners' = DOMAIN listeners
      /\ \A k \in DOMAIN listeners :
            /\ ExportedOn(k)' = ExportedOn(k) /\ ExportedOn(k) \subseteq Devices
            /\ listeners'[k].nextDevnum = listeners[k].nextDevnum
            /\ listeners'[k].devices = listeners[k].devices
            /\ k # l => listeners'[k].socks = listeners[k].socks
      /\ listeners'[l].socks = listeners[l].socks \cup {s}
  BY <1>3, Exports, ListenerIs DEF ExportedOn
<1>5. /\ DOMAIN sockets' = DOMAIN sockets
      /\ \A t \in DOMAIN sockets :
            /\ t # s => sockets'[t] = sockets[t]
            /\ sockets'[t].open = sockets[t].open /\ sockets'[t].listener = sockets[t].listener
      /\ sockets'[s].acceptor = "running"
      /\ sockets[s].listener = l /\ sockets[s].acceptor = "none" /\ sockets[s].open
  <2>1. sockets[s].listener = l /\ sockets[s].acceptor = "none" /\ sockets[s].open
    BY <1>2, <1>3 DEF Unpublished, ListenerInv, SocketsOwned
  <2> QED
    BY <1>3, <2>1 DEF ListenerTypeOK, SocketType
<1>6. OnOwnListener'
  BY <1>1, <1>4 DEF ListenerInv, OnOwnListener, Binding
<1>7. OnceEach' /\ Numbered' /\ DevnumsUnique'
  BY <1>1, <1>4 DEF ListenerInv, OnceEach, Numbered, DevnumsUnique
<1>8. Calls'
  BY <1>1, <1>4 DEF ListenerInv, Calls, Binding
<1>9. SocketsOwned'
  <2>1. \A e \in Devices : e # d /\ pc[e] = "publish" => lst[e] # l
    BY <1>1, <1>2 DEF ListenerInv, Calls, Binding
  <2> QED
    BY <1>1, <1>4, <1>5, <2>1 DEF ListenerInv, SocketsOwned
<1>10. ASSUME serial PROVE OneThread'
  <2>1. ExportedOn(l) = {d} /\ l = table /\ \A e \in Devices : e # d => pc[e] = "idle"
    <3>1. ExportedOn(l) = {d} /\ \A e \in Devices : e # d => pc[e] = "idle"
      BY <1>1, <1>2, <1>10 DEF ListenerInv, OneThread, Binding
    <3> QED
      BY <1>10, <3>1 DEF ListenerInv, OneThread
  <2>2. Served(l)'
    BY <1>4, <1>5 DEF Served
  <2>3. \A k \in DOMAIN listeners : ExportedOn(k) # {} => k = l
    BY <1>10, <2>1 DEF ListenerInv, OneThread
  <2> QED
    BY <1>1, <1>4, <2>1, <2>2, <2>3 DEF OneThread, Binding
<1> QED
  BY <1>6, <1>7, <1>8, <1>9, <1>10 DEF ListenerInv

\* What Undo and Unregister do to the lists.
LEMMA Leaves ==
    ASSUME ListenerTypeOK, ListenerInv, NEW d \in Devices, NEW l \in DOMAIN listeners, l = lst[d],
           listeners' = [listeners EXCEPT ![lst[d]].devices = RemoveDevice(lst[d], d)]
    PROVE  /\ DOMAIN listeners' = DOMAIN listeners
           /\ ExportedOn(l)' = ExportedOn(l) \ {d}
           /\ \A k \in DOMAIN listeners :
                 /\ k # l => ExportedOn(k)' = ExportedOn(k) /\ listeners'[k] = listeners[k]
                 /\ ExportedOn(k) \subseteq Devices
           /\ listeners'[l].socks = listeners[l].socks
           /\ listeners'[l].nextDevnum = listeners[l].nextDevnum
           /\ Once(listeners'[l].devices)
           /\ LastOneOut(RemoveDevice(lst[d], d)) <=> ExportedOn(l)' = {}
<1>0. PICK s : s = RemoveDevice(lst[d], d)
  OBVIOUS
<1>1. Elements(s) = ExportedOn(l) \ {d} /\ Once(s) /\ (s = <<>> <=> Elements(s) = {})
  BY <1>0, RemoveIs DEF ListenerInv
<1>2. Changes(l, s, listeners[l].nextDevnum, listeners[l].socks)
  BY <1>0, Removed DEF ListenerInv
<1>3. /\ DOMAIN listeners' = DOMAIN listeners /\ ExportedOn(l)' = Elements(s)
      /\ \A k \in DOMAIN listeners : k # l =>
            ExportedOn(k)' = ExportedOn(k) /\ listeners'[k] = listeners[k]
      /\ listeners'[l].socks = listeners[l].socks
      /\ listeners'[l].nextDevnum = listeners[l].nextDevnum
      /\ listeners'[l].devices = s
  BY <1>2 DEF Changes, ExportedOn
<1>4. LastOneOut(RemoveDevice(lst[d], d)) <=> s = <<>>
  BY <1>0 DEF LastOneOut
<1> QED
  BY <1>1, <1>3, <1>4, ListenerIs

\* A device that leaves its listener is exported nowhere.
LEMMA LeavesAll ==
    ASSUME ListenerInv, NEW d \in Devices, NEW l \in DOMAIN listeners, l = lst[d], pc[d] # "idle"
    PROVE  \A k \in DOMAIN listeners : k # l => d \notin ExportedOn(k)
BY DEF ListenerInv, OnOwnListener

LEMMA InvUndo ==
    ASSUME ListenerTypeOK, ListenerInv, UNCHANGED <<serial, shared>>, NEW d \in Devices, Undo(d)
    PROVE  ListenerInv'
<1>1. /\ pc[d] = "undo" /\ UNCHANGED <<table, sockets, lst, ref, hasTransport, devnum>>
      /\ \A e : Transport(e)' = Transport(e)
      /\ pc'[d] = "undoDrop" /\ \A e \in Devices : e # d => pc'[e] = pc[e]
  BY TransportsAre DEF Undo, ListenerTypeOK
<1>2. PICK l \in DOMAIN listeners : l = lst[d]
  BY <1>1 DEF ListenerInv, Calls
<1>3. listeners' = [listeners EXCEPT ![lst[d]].devices = RemoveDevice(lst[d], d)]
  BY DEF Undo
<1>4. /\ DOMAIN listeners' = DOMAIN listeners
      /\ ExportedOn(l)' = ExportedOn(l) \ {d}
      /\ \A k \in DOMAIN listeners :
            /\ k # l => ExportedOn(k)' = ExportedOn(k) /\ listeners'[k] = listeners[k]
            /\ ExportedOn(k) \subseteq Devices
      /\ listeners'[l].socks = listeners[l].socks
      /\ listeners'[l].nextDevnum = listeners[l].nextDevnum
      /\ Once(listeners'[l].devices)
  BY <1>2, <1>3, Leaves
<1>5. \A k \in DOMAIN listeners : k # l => d \notin ExportedOn(k)
  BY <1>1, <1>2, LeavesAll
<1>6. OnOwnListener'
  BY <1>1, <1>4, <1>5 DEF ListenerInv, OnOwnListener, Binding
<1>7. OnceEach'
  BY <1>4 DEF ListenerInv, OnceEach
<1>8. Numbered' /\ DevnumsUnique'
  BY <1>1, <1>4 DEF ListenerInv, Numbered, DevnumsUnique
<1>9. Calls'
  BY <1>1, <1>2, <1>4 DEF ListenerInv, Calls, Binding
<1>10. SocketsOwned'
  BY <1>1, <1>4 DEF ListenerInv, SocketsOwned
<1>11. ASSUME serial PROVE OneThread'
  <2>1. ExportedOn(l) = {d} /\ \A e \in Devices : e # d => pc[e] = "idle"
    BY <1>1, <1>2, <1>11 DEF ListenerInv, OneThread, Binding
  <2>2. \A k \in DOMAIN listeners : ExportedOn(k) # {} => k = l
    <3>1. \A k \in DOMAIN listeners : ExportedOn(k) # {} => k = table
      BY <1>11 DEF ListenerInv, OneThread
    <3> QED
      BY <2>1, <3>1
  <2>3. \A k \in DOMAIN listeners : ExportedOn(k)' = {}
    BY <1>4, <2>1, <2>2
  <2> QED
    BY <1>1, <1>4, <2>1, <2>3 DEF OneThread, Binding
<1> QED
  BY <1>6, <1>7, <1>8, <1>9, <1>10, <1>11 DEF ListenerInv

LEMMA InvUnregister ==
    ASSUME ListenerTypeOK, ListenerInv, UNCHANGED <<serial, shared>>, NEW d \in Devices, Unregister(d)
    PROVE  ListenerInv'
<1>1. /\ pc[d] = "unregister" /\ UNCHANGED <<table, sockets, lst, ref, devnum>>
      /\ \A e : Transport(e)' = Transport(e)
  BY TransportsAre DEF Unregister
<1>2. PICK l \in DOMAIN listeners : l = lst[d]
  BY <1>1 DEF ListenerInv, Calls
<1>3. listeners' = [listeners EXCEPT ![lst[d]].devices = RemoveDevice(lst[d], d)]
  BY DEF Unregister
<1>4. /\ DOMAIN listeners' = DOMAIN listeners
      /\ ExportedOn(l)' = ExportedOn(l) \ {d}
      /\ \A k \in DOMAIN listeners :
            /\ k # l => ExportedOn(k)' = ExportedOn(k) /\ listeners'[k] = listeners[k]
            /\ ExportedOn(k) \subseteq Devices
      /\ listeners'[l].socks = listeners[l].socks
      /\ listeners'[l].nextDevnum = listeners[l].nextDevnum
      /\ Once(listeners'[l].devices)
      /\ LastOneOut(RemoveDevice(lst[d], d)) <=> ExportedOn(l)' = {}
  BY <1>2, <1>3, Leaves
<1>5. \A k \in DOMAIN listeners : k # l => d \notin ExportedOn(k)
  BY <1>1, <1>2, LeavesAll
<1>6. /\ \A e \in Devices : e # d => pc'[e] = pc[e] /\ hasTransport'[e] = hasTransport[e]
      /\ \/ pc'[d] = "drop" /\ ExportedOn(l)' = {}
         \/ pc'[d] = "idle"
  <2>1. \/ /\ LastOneOut(RemoveDevice(lst[d], d))
           /\ pc' = [pc EXCEPT ![d] = "drop"] /\ hasTransport' = hasTransport
        \/ pc' = [pc EXCEPT ![d] = "idle"] /\ hasTransport' = [hasTransport EXCEPT ![d] = FALSE]
    BY DEF Unregister
  <2> QED
    BY <1>4, <2>1 DEF ListenerTypeOK
<1>7. OnOwnListener'
  BY <1>1, <1>4, <1>5, <1>6 DEF ListenerInv, OnOwnListener, Binding
<1>8. OnceEach'
  BY <1>4 DEF ListenerInv, OnceEach
<1>9. Numbered' /\ DevnumsUnique'
  BY <1>1, <1>4 DEF ListenerInv, Numbered, DevnumsUnique
<1>10. Calls'
  BY <1>1, <1>2, <1>4, <1>6 DEF ListenerInv, Calls, Binding
<1>11. SocketsOwned'
  BY <1>1, <1>4, <1>6 DEF ListenerInv, SocketsOwned
<1>12. ASSUME serial PROVE OneThread'
  <2>1. \A e \in Devices : e # d => pc[e] = "idle"
    BY <1>1, <1>12 DEF ListenerInv, OneThread
  <2>2. \A k \in DOMAIN listeners : ExportedOn(k)' # {} => ExportedOn(k) # {}
    BY <1>4
  <2>3. \A k \in DOMAIN listeners : ExportedOn(k) # {} => k = table /\ Served(k)
    BY <1>1, <1>12, <2>1 DEF ListenerInv, OneThread, Binding
  <2>4. \A k \in DOMAIN listeners : Served(k) => Served(k)'
    BY <1>1, <1>4 DEF Served
  <2>5. ASSUME shared, ExportedOn(l)' = {}, NEW k \in DOMAIN listeners PROVE ExportedOn(k)' = {}
    <3>1. SUFFICES ASSUME k # l, NEW e \in ExportedOn(k) PROVE FALSE
      BY <1>4, <2>5
    <3>2. ref[Transport(e)] = k /\ ref[Transport(d)] = l
      BY <1>1, <1>2 DEF ListenerInv, OnOwnListener, Calls
    <3> QED
      BY <2>5, <3>1, <3>2 DEF Transport
  <2> QED
    BY <1>1, <1>2, <1>4, <1>6, <2>1, <2>2, <2>3, <2>4, <2>5 DEF OneThread, Binding
<1> QED
  BY <1>7, <1>8, <1>9, <1>10, <1>11, <1>12 DEF ListenerInv

LEMMA InvDrop ==
    ASSUME ListenerTypeOK, ListenerInv, UNCHANGED <<serial, shared>>, NEW d \in Devices, Drop(d)
    PROVE  ListenerInv'
<1>1. /\ pc[d] \in {"drop", "undoDrop"} /\ UNCHANGED <<listeners, sockets, lst, ref, hasTransport, devnum>>
      /\ \A e : Transport(e)' = Transport(e)
      /\ \A e \in Devices : e # d => pc'[e] = pc[e]
      /\ \/ pc[d] = "drop" /\ pc'[d] = "close"
         \/ pc[d] = "undoDrop" /\ pc'[d] = "undoClose"
      /\ table' = IF table = lst[d] THEN 0 ELSE table
      /\ \A k \in DOMAIN listeners :
            ExportedOn(k)' = ExportedOn(k) /\ ExportedOn(k) \subseteq Devices /\ k # 0
  BY TransportsAre, ListenerIs, SMTT(20) DEF Drop, ListenerTypeOK, ExportedOn
<1>2. PICK l \in DOMAIN listeners : l = lst[d]
  BY <1>1 DEF ListenerInv, Calls
<1>3. OnOwnListener'
  BY <1>1 DEF ListenerInv, OnOwnListener, Binding
<1>4. OnceEach' /\ Numbered' /\ DevnumsUnique'
  BY <1>1 DEF ListenerInv, OnceEach, Numbered, DevnumsUnique
<1>5. Calls'
  BY <1>1 DEF ListenerInv, Calls, Binding
<1>6. SocketsOwned'
  BY <1>1 DEF ListenerInv, SocketsOwned
<1>7. ASSUME serial PROVE OneThread'
  <2>1. ExportedOn(l) = {} /\ \A e \in Devices : e # d => pc[e] = "idle"
    BY <1>1, <1>2, <1>7 DEF ListenerInv, OneThread
  <2>2. \A k \in DOMAIN listeners : ExportedOn(k) # {} => k = table /\ k = table' /\ Served(k)
    <3>1. \A k \in DOMAIN listeners : ExportedOn(k) # {} => k = table /\ Served(k)
      BY <1>1, <1>7, <2>1 DEF ListenerInv, OneThread, Binding
    <3> QED
      BY <1>1, <1>2, <2>1, <3>1
  <2>3. table' # l
    BY <1>1, <1>2
  <2>4. \A k \in DOMAIN listeners : Served(k)' = Served(k)
    BY <1>1 DEF Served
  <2>5. pc[d] = "drop" /\ shared => \A k \in DOMAIN listeners : ExportedOn(k) = {}
    BY <1>7 DEF ListenerInv, OneThread
  <2> QED
    BY <1>1, <1>2, <2>1, <2>2, <2>3, <2>4, <2>5 DEF OneThread, Binding
<1> QED
  BY <1>3, <1>4, <1>5, <1>6, <1>7 DEF ListenerInv

LEMMA InvClose ==
    ASSUME ListenerTypeOK, ListenerInv, Sane, UNCHANGED <<serial, shared>>, NEW d \in Devices, CloseListener(d)
    PROVE  ListenerInv'
<1>1. /\ pc[d] \in {"close", "undoClose"} /\ UNCHANGED <<table, lst, devnum>>
      /\ \A e : Transport(e)' = Transport(e)
      /\ pc'[d] = "idle" /\ \A e \in Devices : e # d => pc'[e] = pc[e]
      /\ \A k \in DOMAIN listeners : ExportedOn(k) \subseteq Devices
  BY TransportsAre, ListenerIs DEF CloseListener, ListenerTypeOK
<1>2. PICK l \in DOMAIN listeners : l = lst[d]
  BY <1>1 DEF ListenerInv, Calls
<1>3. /\ DOMAIN listeners' = DOMAIN listeners
      /\ \A k \in DOMAIN listeners :
            /\ ExportedOn(k)' = ExportedOn(k)
            /\ listeners'[k].nextDevnum = listeners[k].nextDevnum
            /\ listeners'[k].devices = listeners[k].devices
            /\ k # l => listeners'[k].socks = listeners[k].socks
      /\ listeners'[l].socks = {}
  <2>1. listeners' = [listeners EXCEPT ![l].socks = {}] /\ {} \in SUBSET Nat
    BY <1>2 DEF CloseListener
  <2>2. Changes(l, listeners[l].devices, listeners[l].nextDevnum, {})
    BY <2>1, SocksChange
  <2> QED
    BY <2>2, Exports DEF ExportedOn
<1>4. /\ DOMAIN sockets' = DOMAIN sockets
      /\ \A t \in DOMAIN sockets :
            /\ sockets'[t].acceptor = sockets[t].acceptor /\ sockets'[t].listener = sockets[t].listener
            /\ t \notin listeners[l].socks => sockets'[t].open = sockets[t].open
  <2>1. sockets' = [s \in DOMAIN sockets |->
                      IF s \in listeners[l].socks
                      THEN [sockets[s] EXCEPT !.open = FALSE] ELSE sockets[s]]
    BY <1>2 DEF CloseListener
  <2>2. \A t \in DOMAIN sockets : sockets[t] \in SocketType
    BY DEF ListenerTypeOK
  <2> QED
    BY <2>1, <2>2 DEF SocketType
<1>5. /\ \A e \in Devices : e # d => hasTransport'[e] = hasTransport[e]
      /\ pc[d] = "undoClose" => ref' = ref
      /\ \A t \in Transports : t # Transport(d) => ref'[t] = ref[t]
      /\ \A e \in Devices : Transport(e) \in Transports
  BY TransportsAre DEF CloseListener, ListenerTypeOK
<1>6. \A k \in DOMAIN listeners : d \notin ExportedOn(k)
  BY <1>1 DEF ListenerInv, OnOwnListener, Binding
<1>7. \A k \in DOMAIN listeners : \A e \in ExportedOn(k) : ref'[Transport(e)] = ref[Transport(e)]
  <2>1. CASE shared /\ pc[d] = "close"
    BY <2>1 DEF Sane, ListenerInv, OneThread
  <2>2. CASE ~(shared /\ pc[d] = "close")
    BY <1>1, <1>5, <1>6, <2>2, Apart
  <2> QED
    BY <2>1, <2>2
<1>8. OnOwnListener'
  BY <1>1, <1>3, <1>5, <1>6, <1>7 DEF ListenerInv, OnOwnListener, Binding
<1>9. OnceEach' /\ Numbered' /\ DevnumsUnique'
  BY <1>1, <1>3 DEF ListenerInv, OnceEach, Numbered, DevnumsUnique
<1>10. Calls'
  <2>1. ASSUME NEW e \in Devices, pc[e] # "idle", e # d
        PROVE  ref'[Transport(e)] = ref[Transport(e)]
    <3>1. ~shared
      BY <1>1, <2>1 DEF Sane, ListenerInv, OneThread
    <3> QED
      BY <1>5, <2>1, <3>1, Apart
  <2> QED
    BY <1>1, <1>3, <1>5, <2>1 DEF ListenerInv, Calls, Binding
<1>11. SocketsOwned'
  <2>1. \A t \in DOMAIN sockets : sockets[t].acceptor = "none" => t \notin listeners[l].socks
    BY DEF ListenerInv, SocketsOwned
  <2> QED
    BY <1>1, <1>3, <1>4, <2>1 DEF ListenerInv, SocketsOwned
<1>12. ASSUME serial PROVE OneThread'
  <2>1. table # l /\ \A e \in Devices : e # d => pc[e] = "idle"
    BY <1>1, <1>2, <1>12 DEF ListenerInv, OneThread
  <2>2. \A k \in DOMAIN listeners : ExportedOn(k) # {} => k = table /\ Served(k)
    BY <1>1, <1>12, <2>1 DEF ListenerInv, OneThread, Binding
  <2>3. ASSUME NEW k \in DOMAIN listeners, k # l, Served(k) PROVE Served(k)'
    <3>1. PICK t \in listeners[k].socks : sockets[t].open /\ sockets[t].acceptor # "ended"
      BY <2>3 DEF Served
    <3>2. t \in DOMAIN sockets /\ t \notin listeners[l].socks
      BY <2>3, <3>1 DEF ListenerInv, SocketsOwned
    <3> QED
      BY <1>3, <1>4, <2>3, <3>1, <3>2 DEF Served
  <2> QED
    BY <1>1, <1>3, <2>1, <2>2, <2>3 DEF OneThread, Binding
<1> QED
  BY <1>8, <1>9, <1>10, <1>11, <1>12 DEF ListenerInv

LEMMA InvMoves ==
    ASSUME ListenerTypeOK, ListenerInv, UNCHANGED <<serial, shared>>, NEW s, Moves(s)
    PROVE  ListenerInv'
<1>1. /\ UNCHANGED <<table, listeners, pc, lst, ref, hasTransport, devnum>>
      /\ \A e : Transport(e)' = Transport(e)
      /\ \A k \in DOMAIN listeners : ExportedOn(k)' = ExportedOn(k)
  BY TransportsAre DEF Moves, appVars, ExportedOn
<1>2. /\ DOMAIN sockets' = DOMAIN sockets
      /\ \A t \in DOMAIN sockets :
            /\ sockets'[t].open = sockets[t].open /\ sockets'[t].listener = sockets[t].listener
            /\ sockets'[t].acceptor = "none" <=> sockets[t].acceptor = "none"
            /\ sockets[t].open /\ sockets[t].acceptor # "ended" => sockets'[t].acceptor # "ended"
  <2>1. /\ sockets[s] \in SocketType /\ s \in DOMAIN sockets /\ sockets \in Seq(SocketType)
        /\ sockets[s].acceptor \in {"running", "blocked"}
    BY DEF Moves, ListenerTypeOK
  <2>2. PICK a : /\ sockets' = [sockets EXCEPT ![s].acceptor = a]
                 /\ a \in {"running", "blocked"} \/ (a = "ended" /\ ~sockets[s].open)
    BY DEF Moves
  <2> QED
    BY <2>1, <2>2 DEF SocketType
<1>3. \A k \in DOMAIN listeners : Served(k) => Served(k)'
  BY <1>1, <1>2 DEF Served, ListenerInv, SocketsOwned
<1>4. OnOwnListener' /\ OnceEach' /\ Numbered' /\ DevnumsUnique' /\ Calls'
  BY <1>1 DEF ListenerInv, OnOwnListener, OnceEach, Numbered, DevnumsUnique, Calls
<1>5. SocketsOwned'
  BY <1>1, <1>2 DEF ListenerInv, SocketsOwned
<1>6. ASSUME serial PROVE OneThread'
  BY <1>1, <1>3, <1>6 DEF ListenerInv, OneThread
<1> QED
  BY <1>4, <1>5, <1>6 DEF ListenerInv

-----------------------------------------------------------------------------
(* The theorems.                                                           *)

\* Threads share no transport.
OwnTransports == <<FALSE, TRUE>> \notin Applications

LEMMA SaneApplications == OwnTransports /\ ListenerTypeOK => Sane
BY ApplicationAssumption DEF OwnTransports, ListenerTypeOK, Sane

\* What a step of a host does to the application, and to itself.
LEMMA HostMoves ==
    ASSUME ListenerTypeOK, NEW h \in Openers, HostStep(h)
    PROVE  /\ HostsOK'
           /\ (\E s \in DOMAIN sockets : Moves(s)) \/ UNCHANGED <<sockets, appVars>>
<1>0. HostsOK /\ busid \in [Devices -> Nat]
  BY DEF ListenerTypeOK, HostsOK
<1>1. CASE \E s \in DOMAIN sockets : ImportDevice(h, s)
  <2>1. PICK s \in DOMAIN sockets : ImportDevice(h, s)
    BY <1>1
  <2>2. Moves(s)
    BY <2>1, MovesIs DEF ImportDevice
  <2>3. /\ UNCHANGED <<want, target>>
        /\ handle' = handle \/ handle' = [handle EXCEPT ![h] = want[h]]
        /\ opener' = [opener EXCEPT ![h] = "opened"] \/ opener' = [opener EXCEPT ![h] = "idle"]
    BY <2>1 DEF ImportDevice
  <2> QED
    BY <1>0, <2>2, <2>3 DEF HostsOK
<1>2. CASE \E s \in DOMAIN sockets : \E d \in Devices : LookUp(h, d, s)
  <2>1. PICK s \in DOMAIN sockets, d \in Devices : LookUp(h, d, s)
    BY <1>2
  <2>2. Moves(s)
    BY <2>1, MovesIs DEF LookUp
  <2>3. /\ handle' = handle /\ want' = [want EXCEPT ![h] = d]
        /\ \/ target' = target \/ target' = [target EXCEPT ![h] = busid[d]]
           \/ target' = [target EXCEPT ![h] = 1]
        /\ \/ opener' = opener \/ opener' = [opener EXCEPT ![h] = "found"]
           \/ opener' = [opener EXCEPT ![h] = "guessed"]
    BY <2>1 DEF LookUp
  <2> QED
    BY <1>0, <2>2, <2>3 DEF HostsOK
<1>3. CASE ConnectFails(h)
  BY <1>0, <1>3 DEF ConnectFails, HostsOK
<1>4. CASE CloseHandle(h)
  BY <1>0, <1>4 DEF CloseHandle, HostsOK
<1>5. CASE \E d \in Devices : LookUpFails(h, d)
  BY <1>0, <1>5 DEF LookUpFails, HostsOK
<1> QED
  BY <1>1, <1>2, <1>3, <1>4, <1>5 DEF HostStep

LEMMA ListenerStep ==
    ASSUME OwnTransports, ListenerTypeOK, ListenerInv, [ListenerNext]_listenerVars
    PROVE  ListenerTypeOK' /\ ListenerInv'
<1>0. /\ Sane
      /\ OnceEach /\ Calls /\ SocketsOwned
  BY SaneApplications DEF ListenerInv
<1>1. ASSUME UNCHANGED listenerVars PROVE ListenerTypeOK' /\ ListenerInv'
  <2>1. UNCHANGED <<serial, shared, table, listeners, sockets, pc, lst, ref, hasTransport, busid,
                    devnum, plugs, opener, want, target, handle>>
    BY <1>1 DEF listenerVars
  <2>2. ListenerTypeOK'
    BY <2>1, TransportsAre DEF ListenerTypeOK
  <2>3. /\ OnOwnListener' = OnOwnListener /\ OnceEach' = OnceEach /\ Numbered' = Numbered
        /\ DevnumsUnique' = DevnumsUnique
    BY <2>1 DEF OnOwnListener, OnceEach, Numbered, DevnumsUnique, ExportedOn, Transport
  <2>4. Calls' = Calls /\ SocketsOwned' = SocketsOwned /\ OneThread' = OneThread
    BY <2>1 DEF Calls, SocketsOwned, OneThread, Served, ExportedOn, Transport
  <2> QED
    BY <2>1, <2>2, <2>3, <2>4 DEF ListenerInv
<1>2. ASSUME NEW d \in Devices, AppStep(d), UNCHANGED <<serial, shared>>
      PROVE  ListenerTypeOK' /\ ListenerInv'
  <2>1. ListenerTypeOK'
    BY <1>0, <1>2, TypeApp
  <2>2. ListenerInv'
    BY <1>0, <1>2, InvPlug, InvRegister, InvBind, InvPublish, InvUndo, InvUnplug, InvUnregister,
       InvDrop, InvClose DEF AppStep
  <2> QED
    BY <2>1, <2>2
<1>3. ASSUME NEW s \in DOMAIN sockets, EnterAccept(s), UNCHANGED <<serial, shared>>
      PROVE  ListenerTypeOK' /\ ListenerInv'
  <2>1. Moves(s)
    BY <1>3, MovesIs
  <2>2. HostsOK'
    BY <1>3 DEF EnterAccept, hostVars, ListenerTypeOK, HostsOK
  <2> QED
    BY <1>3, <2>1, <2>2, TypeMoves, InvMoves
<1>4. ASSUME NEW h \in Openers, HostStep(h), UNCHANGED <<serial, shared>>
      PROVE  ListenerTypeOK' /\ ListenerInv'
  <2>1. HostsOK'
    BY <1>4, HostMoves
  <2>2. ASSUME NEW s \in DOMAIN sockets, Moves(s) PROVE ListenerTypeOK' /\ ListenerInv'
    BY <1>4, <2>1, <2>2, TypeMoves, InvMoves
  <2>3. ASSUME UNCHANGED <<sockets, appVars>> PROVE ListenerTypeOK' /\ ListenerInv'
    <3>1. UNCHANGED <<serial, shared, table, listeners, sockets, pc, lst, ref, hasTransport, busid,
                      devnum, plugs>>
      BY <1>4, <2>3 DEF appVars
    <3>2. ListenerTypeOK'
      BY <2>1, <3>1, TransportsAre DEF ListenerTypeOK, HostsOK
    <3>3. /\ OnOwnListener' = OnOwnListener /\ OnceEach' = OnceEach /\ Numbered' = Numbered
          /\ DevnumsUnique' = DevnumsUnique
      BY <3>1 DEF OnOwnListener, OnceEach, Numbered, DevnumsUnique, ExportedOn, Transport
    <3>4. Calls' = Calls /\ SocketsOwned' = SocketsOwned /\ OneThread' = OneThread
      BY <3>1 DEF Calls, SocketsOwned, OneThread, Served, ExportedOn, Transport
    <3> QED
      BY <3>1, <3>2, <3>3, <3>4 DEF ListenerInv
  <2> QED
    BY <1>4, <2>2, <2>3, HostMoves
<1> QED
  BY <1>1, <1>2, <1>3, <1>4 DEF ListenerNext

\* Every variable keeps its type, and a listener its capacity.
THEOREM ListenerTyped == ASSUME OwnTransports PROVE ListenerSpec => [](ListenerTypeOK /\ ListenerInv)
<1>1. ListenerInit(Applications) => ListenerTypeOK /\ ListenerInv
  BY TypeInit, InvInit
<1>2. (ListenerTypeOK /\ ListenerInv) /\ [ListenerNext]_listenerVars => (ListenerTypeOK /\ ListenerInv)'
  BY ListenerStep
<1> QED
  BY <1>1, <1>2, PTL DEF ListenerSpec

\* However often devices are plugged and unplugged, and by how many threads,
\* the device numbers of a listener's devices differ (register counts
\* next_devnum up and never reuses a number).
THEOREM NumbersDiffer == ASSUME OwnTransports PROVE ListenerSpec => []DevnumsUnique
<1>1. ListenerTypeOK /\ ListenerInv => DevnumsUnique
  BY DEF ListenerInv
<1> QED
  BY <1>1, ListenerTyped, PTL

\* When no call of plug or unplug is in progress, everything exported is
\* plugged, and with one application thread it is on the listener of the
\* address and an open socket is accepting for it: the last one out closes
\* the shop and nobody else does.
THEOREM ServedWhenQuiet == ASSUME OwnTransports PROVE ListenerSpec => []ExportedIsServed
<1>1. ListenerTypeOK /\ ListenerInv => ExportedIsServed
  <2> SUFFICES ASSUME ListenerTypeOK, ListenerInv, Quiet, NEW l \in DOMAIN listeners
               PROVE  /\ \A d \in ExportedOn(l) : hasTransport[d]
                      /\ serial /\ ExportedOn(l) # {} => l = table /\ Served(l)
    BY DEF ExportedIsServed, Served
  <2>1. \A d \in ExportedOn(l) : hasTransport[d]
    BY DEF ListenerInv, OnOwnListener
  <2>2. ASSUME serial, ExportedOn(l) # {} PROVE l = table /\ Served(l)
    BY <2>2 DEF ListenerInv, OneThread, Quiet, Binding
  <2> QED
    BY <2>1, <2>2
<1> QED
  BY <1>1, ListenerTyped, PTL

-----------------------------------------------------------------------------
(* Names.                                                                  *)

\* What is exported has a name, and a host that found its device in a list has
\* the device's name.
Named == \A l \in DOMAIN listeners : \A d \in ExportedOn(l) : busid[d] # 0

HasItsName(h) ==
    want[h] \in Devices /\ busid[want[h]] # 0 /\ target[h] = busid[want[h]]

Found == \A h \in Openers : opener[h] = "found" => HasItsName(h)

\* A socket has its listener.
Listening == \A s \in DOMAIN sockets : sockets[s].listener \in DOMAIN listeners

\* A device keeps its name, and one that joins a list has got one.
NamesLast ==
    /\ DOMAIN listeners \subseteq DOMAIN listeners'
    /\ \A e \in Devices : busid[e] # 0 => busid'[e] = busid[e]
    /\ \A k \in DOMAIN listeners' : \A e \in ExportedOn(k)' :
          busid'[e] # 0 \/ (k \in DOMAIN listeners /\ e \in ExportedOn(k))

LEMMA AppKeepsNames ==
    ASSUME ListenerTypeOK, ListenerInv, NEW d \in Devices, AppStep(d) PROVE NamesLast
<1>0. pc[d] # "idle" => lst[d] \in DOMAIN listeners
  BY DEF ListenerInv, Calls
<1>1. CASE PlugDevice(d)
  <2>1. busid' = busid
    BY <1>1 DEF PlugDevice
  <2>2. /\ DOMAIN listeners \subseteq DOMAIN listeners'
        /\ \A k \in DOMAIN listeners' :
              ExportedOn(k)' = {} \/ (k \in DOMAIN listeners /\ ExportedOn(k)' = ExportedOn(k))
    <3>1. CASE table # 0
      BY <1>1, <3>1 DEF PlugDevice, ExportedOn
    <3>2. CASE table = 0
      <4>1. PICK n : n = Len(listeners) + 1
        OBVIOUS
      <4>2. listeners' = Append(listeners, NewListener)
        BY <1>1, <3>2 DEF PlugDevice
      <4>3. /\ DOMAIN listeners' = DOMAIN listeners \cup {n} /\ ExportedOn(n)' = {}
            /\ \A k \in DOMAIN listeners : listeners'[k] = listeners[k]
        BY <4>1, <4>2, ListenerMade
      <4> QED
        BY <4>3 DEF ExportedOn
    <3> QED
      BY <3>1, <3>2
  <2> QED
    BY <2>1, <2>2 DEF NamesLast
<1>2. CASE Register(d)
  <2>0. lst[d] \in DOMAIN listeners
    BY <1>0, <1>2 DEF Register
  <2>1. CASE IsFull(lst[d])
    BY <1>2, <2>1 DEF Register, ExportedOn, NamesLast
  <2>2. CASE ~IsFull(lst[d])
    <3>1. PICK l \in DOMAIN listeners : l = lst[d]
      BY <2>0
    <3>2. listeners[l].devices \in Seq(Devices) /\ Len(listeners[l].devices) \in Nat
      BY ListenerIs
    <3>3. busid' = [busid EXCEPT ![d] = BusidFor(d, Len(listeners[l].devices))]
      BY <1>2, <2>2, <3>1 DEF Register
    <3>4. /\ busid'[d] # 0
          /\ busid[d] # 0 => busid'[d] = busid[d]
          /\ \A e \in Devices : e # d => busid'[e] = busid[e]
      BY <3>2, <3>3 DEF BusidFor, ListenerTypeOK
    <3>5. Changes(l, Append(listeners[l].devices, d), listeners[l].nextDevnum + 1,
                  listeners[l].socks)
      BY <1>2, <2>0, <2>2, <3>1, DeviceJoins DEF Register
    <3>6. /\ DOMAIN listeners' = DOMAIN listeners
          /\ ExportedOn(l)' = Elements(Append(listeners[l].devices, d))
          /\ \A k \in DOMAIN listeners : k # l => ExportedOn(k)' = ExportedOn(k)
      BY <3>5, Exports
    <3>7. ExportedOn(l)' = ExportedOn(l) \cup {d}
      BY <3>2, <3>6, AppendElements DEF ExportedOn
    <3> QED
      BY <3>4, <3>6, <3>7 DEF NamesLast
  <2> QED
    BY <2>1, <2>2
<1>3. CASE Bind(d) \/ Unplug(d) \/ Drop(d)
  <2>1. UNCHANGED <<listeners, busid>>
    BY <1>3 DEF Bind, Unplug, Drop
  <2> QED
    BY <2>1 DEF NamesLast, ExportedOn
<1>4. CASE Publish(d)
  <2>1. PICK l \in DOMAIN listeners : l = lst[d]
    BY <1>0, <1>4 DEF Publish
  <2>2. PICK socks : Changes(l, listeners[l].devices, listeners[l].nextDevnum, socks)
    BY <1>4, <2>1, PublishIs DEF ListenerInv
  <2>3. busid' = busid
    BY <1>4 DEF Publish
  <2> QED
    BY <2>2, <2>3, Exports DEF NamesLast, ExportedOn
<1>5. CASE Undo(d) \/ Unregister(d)
  <2>1. PICK l \in DOMAIN listeners : l = lst[d]
    BY <1>0, <1>5 DEF Undo, Unregister
  <2>2. /\ listeners' = [listeners EXCEPT ![lst[d]].devices = RemoveDevice(lst[d], d)]
        /\ busid' = busid
    BY <1>5 DEF Undo, Unregister
  <2>3. /\ DOMAIN listeners' = DOMAIN listeners /\ ExportedOn(l)' = ExportedOn(l) \ {d}
        /\ \A k \in DOMAIN listeners : k # l => ExportedOn(k)' = ExportedOn(k)
    BY <2>1, <2>2, Leaves
  <2> QED
    BY <2>2, <2>3 DEF NamesLast
<1>6. CASE CloseListener(d)
  <2>1. PICK l \in DOMAIN listeners : l = lst[d]
    BY <1>0, <1>6 DEF CloseListener
  <2>2. listeners' = [listeners EXCEPT ![l].socks = {}] /\ {} \in SUBSET Nat /\ busid' = busid
    BY <1>6, <2>1 DEF CloseListener
  <2>3. Changes(l, listeners[l].devices, listeners[l].nextDevnum, {})
    BY <2>2, SocksChange
  <2> QED
    BY <2>2, <2>3, Exports DEF NamesLast, ExportedOn
<1> QED
  BY <1>1, <1>2, <1>3, <1>4, <1>5, <1>6 DEF AppStep

\* The sockets that are bound keep their listener, and a new one has the caller's.
LEMMA SocketsKeepListeners ==
    ASSUME ListenerTypeOK, ListenerInv, Listening, [ListenerNext]_listenerVars
    PROVE  \A s \in DOMAIN sockets' : sockets'[s].listener \in DOMAIN listeners
<1>0. /\ sockets \in Seq(SocketType)
      /\ \A d \in Devices : pc[d] # "idle" => lst[d] \in DOMAIN listeners
  BY DEF ListenerTypeOK, ListenerInv, Calls
<1>1. CASE UNCHANGED sockets
  BY <1>1 DEF Listening
<1>2. ASSUME NEW s \in DOMAIN sockets, NEW a, sockets' = [sockets EXCEPT ![s].acceptor = a]
      PROVE  \A t \in DOMAIN sockets' : sockets'[t].listener \in DOMAIN listeners
  <2>1. DOMAIN sockets' = DOMAIN sockets
    BY <1>2
  <2>2. \A t \in DOMAIN sockets : sockets'[t].listener = sockets[t].listener
    <3>1. sockets[s] \in SocketType
      BY <1>0
    <3>2. [sockets[s] EXCEPT !.acceptor = a].listener = sockets[s].listener
      BY <3>1 DEF SocketType
    <3> QED
      BY <1>2, <3>2
  <2> QED
    BY <2>1, <2>2 DEF Listening
<1>3. ASSUME NEW d \in Devices, Bind(d), ~UNCHANGED sockets
      PROVE  \A t \in DOMAIN sockets' : sockets'[t].listener \in DOMAIN listeners
  <2> DEFINE x == [listener |-> lst[d], open |-> TRUE, acceptor |-> "none"]
  <2>1. sockets' = Append(sockets, x) /\ lst[d] \in DOMAIN listeners
    BY <1>0, <1>3 DEF Bind
  <2>2. x.listener = lst[d]
    OBVIOUS
  <2> HIDE DEF x
  <2>3. \A t \in DOMAIN sockets' : sockets'[t] = x \/ (t \in DOMAIN sockets /\ sockets'[t] = sockets[t])
    BY <1>0, <2>1
  <2> QED
    BY <2>1, <2>2, <2>3 DEF Listening
<1>4. ASSUME NEW d \in Devices, CloseListener(d)
      PROVE  \A t \in DOMAIN sockets' : sockets'[t].listener \in DOMAIN listeners
  <2>1. DOMAIN sockets' = DOMAIN sockets
    BY <1>4 DEF CloseListener
  <2>2. ASSUME NEW t \in DOMAIN sockets PROVE sockets'[t].listener = sockets[t].listener
    <3>1. sockets[t] \in SocketType
      BY <1>0
    <3>2. [sockets[t] EXCEPT !.open = FALSE].listener = sockets[t].listener
      BY <3>1 DEF SocketType
    <3>3. sockets'[t] = [sockets[t] EXCEPT !.open = FALSE] \/ sockets'[t] = sockets[t]
      BY <1>4 DEF CloseListener
    <3> QED
      BY <3>2, <3>3
  <2> QED
    BY <2>1, <2>2 DEF Listening
<1>5. ASSUME NEW d \in Devices, Publish(d)
      PROVE  \E s \in DOMAIN sockets : sockets' = [sockets EXCEPT ![s].acceptor = "running"]
  BY <1>5, PublishIs DEF ListenerInv
<1>6. ASSUME NEW d \in Devices, AppStep(d), ~Bind(d), ~Publish(d), ~CloseListener(d)
      PROVE  UNCHANGED sockets
  BY <1>6 DEF AppStep, PlugDevice, Register, Undo, Unplug, Unregister, Drop
<1>7. ASSUME NEW s \in DOMAIN sockets, EnterAccept(s)
      PROVE  \E a : sockets' = [sockets EXCEPT ![s].acceptor = a]
  BY <1>7 DEF EnterAccept
<1>8. ASSUME NEW h \in Openers, HostStep(h), ~UNCHANGED sockets
      PROVE  \E s \in DOMAIN sockets : sockets' = [sockets EXCEPT ![s].acceptor = "running"]
  BY <1>8 DEF HostStep, ImportDevice, LookUp, LookUpFails, ConnectFails, CloseHandle, Accepted
<1>9. ASSUME NEW d \in Devices, AppStep(d)
      PROVE  \A t \in DOMAIN sockets' : sockets'[t].listener \in DOMAIN listeners
  BY <1>1, <1>2, <1>3, <1>4, <1>5, <1>6, <1>9
<1> QED
  BY <1>1, <1>2, <1>7, <1>8, <1>9 DEF ListenerNext, listenerVars

LEMMA FoundStep ==
    ASSUME ListenerTypeOK, ListenerInv, Listening, Named, Found, [ListenerNext]_listenerVars
    PROVE  Listening' /\ Named' /\ Found'
<1>0. \A s \in DOMAIN sockets' : sockets'[s].listener \in DOMAIN listeners
  BY SocketsKeepListeners
<1>1. CASE UNCHANGED <<listeners, busid, opener, want, target>>
  <2>1. \A k : ExportedOn(k)' = ExportedOn(k)
    BY <1>1 DEF ExportedOn
  <2> QED
    BY <1>0, <1>1, <2>1 DEF Listening, Named, Found, HasItsName
<1>2. ASSUME NEW d \in Devices, AppStep(d) PROVE Listening' /\ Named' /\ Found'
  <2>1. NamesLast
    BY <1>2, AppKeepsNames
  <2>2. UNCHANGED <<opener, want, target>>
    BY <1>2 DEF AppStep, PlugDevice, Register, Bind, Publish, Undo, Unplug, Unregister, Drop,
                CloseListener, hostVars
  <2>3. \A k \in DOMAIN listeners : ExportedOn(k) \subseteq Devices
    BY ListenerIs
  <2>4. Named'
    BY <2>1, <2>3 DEF Named, NamesLast
  <2>5. Found'
    BY <2>1, <2>2 DEF Found, HasItsName, NamesLast
  <2>6. Listening'
    BY <1>0, <2>1 DEF Listening, NamesLast
  <2> QED
    BY <2>4, <2>5, <2>6
<1>3. ASSUME NEW h \in Openers, HostStep(h) PROVE Listening' /\ Named' /\ Found'
  <2>1. UNCHANGED <<listeners, busid>>
    BY <1>3 DEF HostStep, ImportDevice, LookUp, LookUpFails, ConnectFails, CloseHandle, appVars
  <2>2. Listening' /\ Named'
    BY <1>0, <2>1 DEF Listening, Named, ExportedOn
  <2>3. CASE UNCHANGED <<want, target>> /\ (opener' = [opener EXCEPT ![h] = "idle"]
                                          \/ opener' = [opener EXCEPT ![h] = "opened"])
    BY <2>1, <2>2, <2>3 DEF Found, HasItsName, ListenerTypeOK
  <2>4. ASSUME NEW d \in Devices, NEW s \in DOMAIN sockets, LookUp(h, d, s) PROVE Found'
    <3>1. /\ want' = [want EXCEPT ![h] = d]
          /\ \/ /\ d \in Elements(Snapshot(s))
                /\ target' = [target EXCEPT ![h] = busid[d]]
                /\ opener' = [opener EXCEPT ![h] = "found"]
             \/ target' = [target EXCEPT ![h] = 1] /\ opener' = [opener EXCEPT ![h] = "guessed"]
             \/ opener[h] = "idle" /\ UNCHANGED <<target, opener>>
      BY <2>4 DEF LookUp
    <3>2. d \in Elements(Snapshot(s)) => busid[d] # 0
      <4>1. sockets[s].listener \in DOMAIN listeners
        BY DEF Listening
      <4> QED
        BY <4>1 DEF Named, ExportedOn, Snapshot
    <3>3. \A k \in Openers : k # h =>
             opener'[k] = opener[k] /\ want'[k] = want[k] /\ target'[k] = target[k]
      BY <3>1 DEF ListenerTypeOK
    <3>4. opener'[h] = "found" => want'[h] = d /\ target'[h] = busid[d] /\ busid[d] # 0
      BY <3>1, <3>2 DEF ListenerTypeOK
    <3> QED
      BY <2>1, <3>3, <3>4 DEF Found, HasItsName
  <2>5. ASSUME NEW d \in Devices, LookUpFails(h, d) PROVE Found'
    <3>1. /\ opener'[h] = "guessed"
          /\ \A k \in Openers : k # h =>
                opener'[k] = opener[k] /\ want'[k] = want[k] /\ target'[k] = target[k]
      BY <2>5 DEF LookUpFails, ListenerTypeOK
    <3> QED
      BY <2>1, <3>1 DEF Found, HasItsName
  <2>6. ASSUME NEW s \in DOMAIN sockets, ImportDevice(h, s)
        PROVE  UNCHANGED <<want, target>> /\ (opener' = [opener EXCEPT ![h] = "idle"]
                                          \/ opener' = [opener EXCEPT ![h] = "opened"])
    BY <2>6 DEF ImportDevice
  <2>7. ASSUME ConnectFails(h) \/ CloseHandle(h)
        PROVE  UNCHANGED <<want, target>> /\ opener' = [opener EXCEPT ![h] = "idle"]
    BY <2>7 DEF ConnectFails, CloseHandle
  <2> QED
    BY <1>3, <2>2, <2>3, <2>4, <2>5, <2>6, <2>7 DEF HostStep
<1>4. ASSUME NEW s \in DOMAIN sockets, EnterAccept(s)
      PROVE  UNCHANGED <<listeners, busid, opener, want, target>>
  BY <1>4 DEF EnterAccept, appVars, hostVars
<1> QED
  BY <1>1, <1>2, <1>3, <1>4 DEF ListenerNext, listenerVars

\* The list of the import holds the device, under a name of its own: that is
\* the device the server picks.
LEMMA PicksIt ==
    ASSUME ListenerTypeOK, OnceEach, NEW s \in DOMAIN sockets,
           sockets[s].listener \in DOMAIN listeners, NEW d \in Elements(Snapshot(s)),
           \A e \in Elements(Snapshot(s)) : busid[e] = busid[d] => e = d
    PROVE  ImportedBy(Snapshot(s), busid[d]) = d
<1> DEFINE devs == Snapshot(s)
           First(i) == /\ busid[devs[i]] = busid[d]
                       /\ \A j \in 1 .. (i - 1) : busid[devs[j]] # busid[d]
           k == CHOOSE i \in DOMAIN devs : First(i)
<1>1. Once(devs) /\ devs \in Seq(Devices)
  BY ListenerIs DEF OnceEach, Snapshot
<1>2. PICK i \in DOMAIN devs : devs[i] = d
  BY DEF Elements
<1>3. ASSUME NEW j \in 1 .. (i - 1) PROVE busid[devs[j]] # busid[d]
  <2>1. j \in DOMAIN devs /\ j # i
    BY <1>1, <1>2
  <2>2. devs[j] # d /\ devs[j] \in Elements(devs)
    BY <1>1, <1>2, <2>1 DEF Once, Elements
  <2> QED
    BY <2>2
<1>4. First(i)
  BY <1>2, <1>3
<1>5. k \in DOMAIN devs /\ busid[devs[k]] = busid[d]
  BY <1>4
<1>6. ImportedBy(devs, busid[d]) = devs[k]
  BY DEF ImportedBy
<1>7. devs[k] \in Elements(devs)
  BY <1>5 DEF Elements
<1> HIDE DEF k
<1> QED
  BY <1>5, <1>6, <1>7

\* A host that found its device in the list of what is exported imports that
\* device whenever the import is served and the device is exported there under
\* a name that no other has, whatever was unplugged and plugged since (register
\* names a device once, and the import compares names).
THEOREM LookedUpOpens == ASSUME OwnTransports PROVE ListenerSpec => LookedUpIsOpened
<1> DEFINE Inv == ListenerTypeOK /\ ListenerInv /\ Listening /\ Named /\ Found
<1>1. ListenerInit(Applications) => Listening /\ Named /\ Found
  BY DEF ListenerInit, Listening, Named, Found
<1>2. (Listening /\ Named /\ Found) /\ (ListenerTypeOK /\ ListenerInv) /\ [ListenerNext]_listenerVars
      => (Listening /\ Named /\ Found)'
  BY FoundStep
<1>3. Inv => \A h \in Openers : \A s \in DOMAIN sockets :
         /\ opener[h] = "found" /\ ImportDevice(h, s)
         /\ want[h] \in Elements(Snapshot(s))
         /\ \A d \in Elements(Snapshot(s)) : busid[d] = busid[want[h]] => d = want[h]
         => handle'[h] = want[h]
  <2> SUFFICES ASSUME Inv, NEW h \in Openers, NEW s \in DOMAIN sockets,
                      opener[h] = "found", ImportDevice(h, s), want[h] \in Elements(Snapshot(s)),
                      \A d \in Elements(Snapshot(s)) : busid[d] = busid[want[h]] => d = want[h]
               PROVE  handle'[h] = want[h]
    OBVIOUS
  <2>1. target[h] = busid[want[h]] /\ want[h] \in Devices
    BY DEF Found, HasItsName
  <2>2. sockets[s].listener \in DOMAIN listeners
    BY DEF Listening
  <2>3. ImportedBy(Snapshot(s), target[h]) = want[h]
    BY <2>1, <2>2, PicksIt DEF ListenerInv
  <2>4. want[h] # NoDevice
    BY <2>1, DeviceAssumption
  <2>5. handle' = [handle EXCEPT ![h] = want[h]]
    BY <2>3, <2>4 DEF ImportDevice
  <2> QED
    BY <2>5 DEF ListenerTypeOK
<1>4. ListenerSpec => [](Listening /\ Named /\ Found)
  BY <1>1, <1>2, ListenerTyped, PTL DEF ListenerSpec
<1> QED
  BY <1>3, <1>4, ListenerTyped, PTL DEF LookedUpIsOpened
=============================================================================
