# usbip-python: a verification project

TLA+ models of `usbip-python`, a pure Python implementation of USB/IP: programs
define virtual USB devices, export them over TCP, and the kernel of a host (or
the library's own host side) imports and drives them. The models are
translated from the code under `src/usbip`; TLC checks them on small
instances, TLAPS proves the theorems listed below for all of them.

Contents: [the system](#the-system), [the modules](#the-modules),
[the runs](#the-runs), [what the violations show](#what-the-violations-show),
[the proofs](#the-proofs), [observations](#observations),
[what is not modelled](#what-is-not-modelled), [plan](#plan).

## The system

| Part | Source | State | Operations | Hard part |
|---|---|---|---|---|
| IN endpoint | `device.py` `Endpoint` | `_q` (data), `_pending` (parked URBs), `halted`, lock `_cv` | `write`, `take_or_park`, `cancel`, `stall`, `clear_halt`, `reset` | met by the serve thread of every connection and by the device's own threads; URBs leave `_pending` under the lock and are completed outside it |
| OUT endpoint | `device.py` `Endpoint` | `_q` | `_put_out`, `read` | a timed wait |
| serve loop | `protocol.py` `serve_connection` | the socket and its write lock | read a URB, `handle_urb`, unlink, respond, close | never blocks; replies come from any thread; a connection may outlive its host |
| listener | `transport.py` `_Listener`, `USBIP` | the registry by address, the exported devices, `next_devnum`, the sockets | `serve`, `stop`, `connect`, the accept thread | registry, device list and sockets are changed under different locks; a blocked `accept` |
| host | `host.py` | the handle | `list_devices`, `_resolve_busid`, `open`, transfers | look-up and import are two connections |
| control endpoint | `device.py` `_handle_control`, `_standard` | `config`, handlers per interface | the standard requests, class requests | resets I/O on SET_CONFIGURATION; halts |
| isochronous pacing | `device.py` `_iso_deadline`, `_pace_*` | a heap of completions, a deadline per endpoint | schedule, run, cancel | its own thread and a clock |
| composition | `device.py`, `function.py` | groups, interface numbers, the endpoint map | `add`, `claim_interface`, `route_endpoint` | relocation of addresses |
| mass storage | `classes/device/msc.py`, `classes/host/msc.py` | `_write`, sense data per unit, the store | command blocks, data phases, statuses, halts, reset | host and device must agree on phase at every step |
| MTP | `classes/device/mtp.py`, `classes/host/mtp.py` | handles and objects, the session, the pending data phase, the reservation | some thirty operations | stable handles over a store that others change; copies that fail half way |
| wire codec | `protocol.py` | the two byte streams of a connection | read and write a header, data, packet descriptors, a device list | nothing on the wire says where a message ends; a connection ends anywhere |
| descriptors | `core.py`, `device.py`, `classes/device/*.py` | rendered from the composition when asked | configuration, strings, Microsoft OS 1.0 and 2.0, BOS, WebUSB | three descriptions of one thing, made from different state |
| DFU, CDC-ACM, HID, Bluetooth, UAC, UVC | `classes/device/*.py` | small state machines and buffers | class requests, data, packets | states over re-attachment; packet framing |
| host drivers | `classes/host/*.py` | the pipes they found | search the configuration, parse report descriptors | functions side by side; values whose sign and length are inferred |
| readers | `classes/host/extras/*.py`, `examples/uvc_device.py` | a cached sector; a bit reader | FAT, MP4 tables, JPEG scans | entries across boundaries, run-length tables, bit positions |
| applications | `examples/*.py` | a console's line, a target's file, typing threads | callbacks of the classes | threads that outlive a host |
| capture, log | `pcap.py`, `grouplog.py` | a file; none | | |

How they interact. A *listener* accepts a connection and gives it a *serve
thread*, which performs the handshake (the host picks a device by its busid),
calls `reset_io` and then reads URBs. A URB for an OUT endpoint runs the
class's `on_out` in the serve thread; one for an IN endpoint takes queued data
or is *parked* with a callback; one for endpoint 0 runs the control handlers.
Whoever calls `Endpoint.write` later, the serve thread from within a handler or
a thread of the device, completes the parked URBs. `CMD_UNLINK` takes a parked
URB back. The classes keep their state in the interface object, which outlives
every connection.

What makes each part correct:

- *endpoint*: every URB is answered exactly once or dropped on purpose; bytes
  are neither lost, repeated nor reordered; no completion follows its unlink;
  no stall of the stream with data and URBs both waiting; one host's data is
  not given to the next.
- *listener*: each device has its own name and number; what is plugged is
  served and what is unplugged is not; the last one out frees the port.
- *host*: `open` imports the device that was looked up, whatever is plugged
  between its two connections.
- *mass storage*: host and device agree on the phase; a write that passed is
  stored where it was meant; nothing reaches a protected unit; sense data is
  the unit's own.
- *pacing*: no stream is faster than real time and each keeps its order, as long
  as two threads do not meet in the endpoint's clock; no completion waits past
  its time for want of a wake-up, and each is delivered once or dropped.
- *wire*: neither side ever takes something else for a header; what was put in
  a packet's slot is read from it.
- *composition*: what a host is told of endpoints, interfaces, labels and
  drivers is what the device does, and the drivers find their own pipes.
- *classes*: what is sent in transfers of any size arrives whole and in order,
  whatever hosts left behind: firmware, lines, packets, frames, samples, keys.
- *readers*: a report descriptor, a volume, a clip and a scan are read as they
  were written.
- *MTP*: a handle names one object for good; moves lose nothing that the
  model has seen; data goes to what was reserved for it; responses belong to their transaction.

## The modules

| Module | Models | Composed of |
|---|---|---|
| `Endpoint` | one IN endpoint, the serve threads of its connections, the device's threads, the host's unlinks | |
| `UrbLife` | the abstract promise: a URB is unborn, held, then answered or dropped, and stays so | `Endpoint` and `Pacing` implement it (`LifeSpec`, `IsoLifeSpec`) |
| `Endpoint_proofs` | theorems of `Endpoint`: types and wake-ups, that it implements `UrbLife`, bytes, order, halts and sessions, and what holds besides for a device without threads of its own | extends `Endpoint` |
| `Pacing` | the pacer's heap, thread and clock, with the hosts whose isochronous URBs it completes | |
| `Pacing_proofs` | theorems of `Pacing` | extends `Pacing` |
| `Listener` | plugging, unplugging, accepting, looking up, importing | |
| `Listener_proofs` | theorems of `Listener` | extends `Listener` |
| `BulkOnly` | the mass storage interface and the host driver, joined by the bulk-IN queue and the halts | |
| `BulkOnly_proofs` | theorems of `BulkOnly` | extends `BulkOnly` |
| `MtpStorage` | the MTP object model over directories: operators on a record, no variables | |
| `Mtp` | the MTP interface and a host that runs transactions | extends `MtpStorage` |
| `Mtp_proofs` | theorems of `Mtp`, and lemmas about the operators of `MtpStorage` | extends `Mtp` |
| `Wire` | both byte streams of a connection and what each side reads off them | |
| `Composition` | a device made of functions, its descriptors, the routing of requests, the drivers' search | |
| `Composition_proofs` | theorems of `Composition` | extends `Composition` and, for its lemmas, `Streams_proofs` |
| `Report`, `Hid` | report descriptors, written and parsed; keyboards that type | |
| `Dfu`, `CdcConsole`, `Bluetooth`, `Video`, `Audio` | one bundled class each, with the application or the host that makes it interesting | |
| `Classes_proofs` | theorems of `Video`, `Dfu`, `Audio` and `Hid` | extends them |
| `Echo` | the OUT endpoint's queue and an application that echoes | |
| `Streams_proofs` | theorems of `Wire`, `Bluetooth` and `Echo`, and lemmas about sums, loops, streams made of pieces, and the codec | extends them |
| `FatFs`, `Clip`, `Jpeg` | readers of volumes, MP4 tables and JPEG scans, with what writes them (external) | |
| `Sessions` | `Listener` and the thirteen modules from `Wire` on, which share no state, side by side | extends them |
| `MCPrograms` | `Endpoint` for two kinds of device, one that writes from threads of its own and one whose code runs in handlers only | extends `Endpoint` |
| `MCIsoDisk` | `Pacing` and `BulkOnly`, which share no state, side by side, with their fairness | extends them |
| `MCEndpoint`, `MCPacing`, `MCListener`, `MCBulkOnly`, `MCComposition`, `MCMtp`, `MCSessions` | instances for TLC | |

Each module's properties stand at its end. An operator whose comment begins
with "Mutant" is a plausible bug of the definition that follows it; it is not
part of the model and is used to see that a property would notice. The type
invariants of `Endpoint`, `Pacing`, `Listener`, `BulkOnly` and `Mtp` are proved.

### Endpoint

Variables `q`, `pending`, `halted`, `cv` are the attributes of the endpoint;
`done[t]` are the URBs that thread `t` has popped in `write` or `stall` and not
yet completed (the local list `done`, or `parked`); `pc[c]`, `urb[c]`,
`answer[c]` are the serve thread of connection `c`, `wire[c]` what it has
written. A blob of data is an interval of byte numbers, so that a byte's
identity is kept when it is split over URBs.

| Action | Code |
|---|---|
| `Write`, `Match`, `Unlock`, `Complete` | `Endpoint.write`: append, one turn of the loop, the end of the `with`, one completion |
| `Stall` | `Endpoint.stall` under the lock; `Complete` answers what it took |
| `ReadSubmit`, `TakeOrPark`, `Respond` | `handle_urb`: the test of `halted` (without the lock), `take_or_park` (with it), the answer of `serve_connection` |
| `ReadUnlink`, `RespondUnlink` | `cancel_urb`, `write_ret_unlink` |
| `ReadClearHalt`, `ReadSetConfiguration` | CLEAR_FEATURE and SET_CONFIGURATION as far as the endpoint is concerned |
| `Attach`, `HostGone`, `Close` | handshake done and `reset_io`; the host leaves; the loop ends |

Two threads interleave at every release of the lock. A reply is one step,
because `respond` holds the connection's own lock while it writes.

### Listener

One action per section of `serve` and `stop` between which no lock is held:
`PlugDevice` (the listener is looked up), `Register`, `Bind`, `Publish`, `Undo`;
`Unplug`, `Unregister`, `Drop`, `CloseListener`; `EnterAccept` and the accept
of a connection; `LookUp`, `LookUpFails`, `ImportDevice`, `ConnectFails`,
`CloseHandle` of a host. `opener` says whether a host has found its device in
the list, or guesses `1-1` because the list cannot be had or is too short
(`_resolve_busid`); `busid` is what a device was named when it was first
plugged (`BusidFor`), `hasTransport` that its `_transport` is set.
External: a listening socket stays bound while its descriptor is open or a
thread is blocked in `accept` on it. `serial` and `shared` are the kinds of
application: one thread for all devices or one per device, one transport for
all or one each.

### BulkOnly

A step is one URB with the whole handler that it starts: the code of the
interface runs in the serve thread and the host's driver waits for each
transfer. `SendCbw`, `DataIn`, `DataOut`, `ClearHalt`, `ReadCsw` are the host's
driver with `HandleCbw`, `Dispatch`, `RecvWrite` on the device's side;
`ResetRecovery` is what an operating system does when it gives up; `Reattach`
is another host. Data is a length, and a value per block.

### MtpStorage and Mtp

`MtpStorage` keeps file trees (a function from paths to nodes), the two maps
`handleOf` and `objects`, and an identity for each node ever made. Its
operators are the methods of the class of that name, with the example's
`FilesystemStore` (makedirs, open, rename, rmtree with their failures) below.
`Mtp` adds the interface: `SendCommand` (one command container and the whole of
`on_out`), `SendData`, `Receive`, and hosts that leave and attach, and the
application adding a file behind the model's back. As in the code, whether a
container is a command or data depends only on whether data is awaited.

### Pacing

`heap` is `_pace_q`, a set of entries that are numbered in the order of their
arrival; `pacer` and `wake` are the pacer thread and the end of its wait,
`hand` the entry that it has popped and delivers after it has let the lock go;
`calls` are the serve threads that are in `_iso_deadline` or `_pace_schedule`.
How long a URB plays is reckoned from the packets (`PacketTime`), not from the
interval that the code adds to the deadline (`Interval`), so that a wrong
interval shows. `raced` is a history variable: the endpoints for which two
threads have scheduled at once.

| Action | Code |
|---|---|
| `Submit` | `handle_urb` on a paced endpoint calls `_iso_deadline`, which reads the clock |
| `Compare`, `Raise`, `Load`, `Store`, `Return` | `_iso_deadline`, which takes no lock: each read and each write of `ep.iso_deadline` by itself |
| `PaceSchedule` | `_pace_schedule`, under the pacer's lock |
| `Unlink` | `cancel_urb` with `pace_cancel`, and the answer to the unlink |
| `PacerIdles`, `PacerSleeps`, `PacerWakes`, `PacerPops`, `PacerDelivers` | the loop of `_pace_run`, cut where it waits and where it lets the lock go |
| `Attach`, `HostGone`, `Close` | as in `Endpoint`, whoever else has imported the device; `reset_io` touches neither clock nor heap |
| `Tick` | the clock goes on, by any number of steps between two others |

### Wire

`toDev` and `toHost` are sequences of tokens: a header, a data byte that names
its request, packet and place, or a packet descriptor. `Serve` is `read_cmd`
(`ReadCmd`) with what `serve_connection` does of it, `Answer` is `write_ret`
from any thread in any order, `ReadReply` is the reading half of the client's
functions, and `HostGone(k)` ends the connection with the last `k` tokens lost.

### Composition

`dev` is the record of what `USBDevice` keeps: groups with their interfaces,
the endpoint map, the handlers, labels, speed, Microsoft OS and WebUSB entries.
`Add(kind)` is `Function._attach` for one of the bundled classes, from its
interface numbers to `_on_added`; `ConfigBytes` renders the configuration as a
sequence of records; `Plug` makes the check of `_check_endpoint_conflicts`.
`HandleControl` says who answers a request, `VendorDescriptor` which document
a vendor request gets, `Discover` which pipes a host driver takes.

### The classes and the applications behind them

- `Report`: `Declare` emits one item as the builder does and lets the host's
  parser read it; `DeclareCanned` does so for a whole canned descriptor.
- `Hid`: `Type` is one report of a typing thread, `Reset` the attachment of a
  host, which in `boot_keyboard` starts another thread.
- `Dfu`: `SendBlock`, `SendEnd`, `Poll` and `ReadBlock` are a host that goes by
  the book, `Stray` and `SetAlt` one that does not, `Vanish` and `CutShort` the
  end of a connection between and inside requests; `Dnload` and `DoUpload` are
  the function, `TargetWrite` and `FinishDownload` the example's `FileTarget`.
- `CdcConsole`: `Receive` is `on_out` with the console's `on_rx`, character by
  character; `SetControlLineState` opens and closes the port.
- `Bluetooth`: `OnOut(n)` is a bulk transfer of the next `n` bytes.
- `Video`, `Audio`: `OnIso`, `MicIso` and `SpkIso` are one packet of an
  isochronous transfer; `VideoAlt`, `MicAlt` and `SpkAlt` start and stop the
  stream. `NewHost` shows that the camera resets nothing.
- `Echo`: `EchoRead` and `EchoWrite` are the application's main thread, with a
  packet in its hand in between; `PutOut`, `AskIn`, `EchoReset` the serve thread.

### The readers

`FatFs`, `Clip` and `Jpeg` start from what was written (a volume, a clip, a
scan, laid out by the format's definition) and take one file, frame or unit
at a time; the reader's own state (the cached sector, the index, the bit
position and the predictions) goes from one step to the next. Sectors, bytes
and blocks are smaller than in life so that the boundaries fall inside short
inputs; the arithmetic is that of the code with these sizes as parameters.

## The runs

All runs check for errors of evaluation besides their properties. Deadlock is
not checked: each model may stop when its bounds are used up or when the host
has gone, and the code waits for ever in these states.

| Run | Instance | Shows |
|---|---|---|
| `endpoint_concurrent` | 1 connection, 3 URBs; a device with 2 writer threads (symmetric) that make 2 writes of 2 bytes for URBs of length 1, or one without, that writes 0 and 3 bytes from handlers for URBs of lengths 1 and 2 | no lost wake-up, data matched in order and bytes accounted for in every interleaving, at most one URB slips past a halt; the device whose code runs in the serve thread keeps the stronger promises too: nothing after RET_UNLINK, answers in order |
| `endpoint_hosts` | 2 connections at once or in turn, 1 writer, 1 URB each, 2 writes, fairness | isolation of data between hosts, the refinement of `UrbLife` over colliding sequence numbers (each URB in one place, answered or dropped once), completion of what was popped |
| `iso_and_disk` | pacing: 2 connections at once or in turn, 2 endpoints with intervals of 1 and 2 microframes, 2 URBs, fairness; mass storage: 2 units, one protected, 2 blocks, 3 commands of every kind, resets, re-attachments, fairness | the pacer oversleeps nothing, `UrbLife` is implemented, what is scheduled is delivered, and where threads have not met no stream is faster than real time and order is kept; phases stay in step, residue, sense and status tell the truth, writes land where they are meant and never on a protected unit, commands finish |
| `mtp_objects` | 2 stores, 2 names, depth 2, 4 transactions, a file that appears | handles and objects match, a handle names one thing for good, reservations are kept, a move loses nothing that the snapshot has |
| `device_parts` | the fourteen modules of `Sessions`, each driven on its own | see the next table |
| `endpoint_unlink_race`, `iso_race`, `composition_union`, `listener_busid`, `msc_stale_write`, `mtp_desync`, `mtp_move` | the smallest instance | see the next section |

The parts of `device_parts`:

| Part | Bounds | Property |
|---|---|---|
| `Listener` | 3 devices, room for 2, 3 plugs, 1 host, three kinds of application | `DevnumsUnique`, `ExportedIsServed`, `LookedUpIsOpened` |
| `Wire` | 3 exported devices, 3 requests of every kind with up to 2 packets, unlinks, a connection cut at every token | `StaysInStep` |
| `Report` | 4 items of any kind with the values at which an item grows, and the canned descriptors | `FieldsAsDeclared` |
| `Composition` | 3 functions of 9 kinds in any order, one advertisement, 4 endpoint numbers (15 in the code) so that they run out | `RoutedAsDescribed`, `AnsweredByOwner`, `MsosAgree`, `DriversFindPipes` |
| `Hid` | a text of 4 characters, one without a key, one twice; 2 threads | `TypedTextArrives` |
| `Dfu` | 2 targets of 4 bytes, blocks of 2, block numbers modulo 3, images that fit and do not | `DownloadReadsBack` |
| `CdcConsole` | packets of 1 to 3 characters, 7 characters in all, lines shorter than 4 | `LinesTapTheirKeys` |
| `Bluetooth` | 3 packets with payloads of 0, 1 and 3 bytes, transfers of 1 to 9 bytes | `PacketsReassembled` |
| `Video` | 2 formats of 3 and 5 bytes, packets of 1 to 9, 3 frames in a stream | `FramesWhole` |
| `Audio` | packets of 0, 1 and 4 samples, a file of 3, 4 samples in a stream | `SoundContinuous` |
| `Echo` | 4 packets of up to 2 bytes, 2 IN URBs at a time | `EchoedInOrder` |
| `FatFs` | FAT12, 16 and 32, sectors of 4 and 5 bytes, blocks of 5 and 8, clusters of 1 and 2 sectors, with and without a partition, chains in any order over clusters 2 to 5 | `FilesReadBack` |
| `Clip` | 6 kinds of chunks, frames of 1 and 2 bytes, every form of the tables | `ClipPlaysInOrder` |
| `Jpeg` | bytes of 4 bits, blocks of 20 coefficients, up to 3 units of 1 or 2 blocks in 1 or 2 components, restarts after none, 1 or 2 units | `BlocksReadBack` |

Why the bounds are enough. The endpoint's hazards need two threads that
complete, a URB that comes between and a chunk that is longer than a URB: three
URBs and two writes of two bytes have all of these at once. Two connections
with one URB each already have the same sequence number twice. The pacer's need
two entries in the heap of which the later pushed is due first, an endpoint that
pauses, a host that leaves with an entry queued, and two threads that meet in the
clock of one endpoint or follow each other there: two endpoints of different
intervals, two hosts and two URBs. The listener's names go wrong with three
devices and as many plugs, which also plug a device anew between a look-up and
an import; its limit of 16 is a constant that is reached at two. Interchangeable
threads are declared symmetric in `endpoint_concurrent` only, whose properties
are invariants. Three commands are one that
leaves something behind, one that meets it and one that looks at the result.
Four MTP transactions are a session, a reservation, an operation that disturbs
it and the use of it; the other store has a directory where a copied file would
go, so that a copy fails after it has begun, and, once that is deleted, one that
succeeds. In `device_parts`, three functions are one moved by a first and one
after it; three requests are one that leaves the stream out of step, one that is
misread and one that shows it; a line too long needs four characters and its
end, and two more show that nothing of it is left; the sizes of packets, blocks,
sectors and bytes are small enough that every alignment of them occurs.

`Sessions` and `MCIsoDisk` explore their parts one at a time (`driven`), since
none reads another's variables: the listener knows devices only by name, the
classes hold no reference to each other, and the pacer has URBs of its own.
What joins them, the numbering of interfaces
and the routing of requests, is in `Composition`; the endpoint under each of
them is in `Endpoint`. Each part has a specification of its own (`ListenerSpec`,
`DfuSpec`, ...) with which it can be run alone.

Fairness. `Endpoint!FairSpec` lets every thread go on with what it has begun
(a thread that holds the lock releases it, one that has popped URBs completes
them, a serve thread answers): these are straight-line code with nothing to
wait for but the lock, so weak fairness of each thread's own steps is what the
operating system's scheduler gives. `Pacing!FairPacingSpec` assumes that the
pacer thread is scheduled and that the clock goes on; an early return from its
wait is allowed and needs no fairness. Nothing is assumed of the host, which may
never send anything, nor of the device's code, which may never write.
`BulkOnly!FairSpec` assumes that a host goes on with a command it has begun.
`iso_and_disk` assumes of each of its parts what that part's fair specification
does (`IsoDiskFairness`).
The others are checked for safety only.

## What the violations show

Each of these runs checks one sentence of the project's own documentation
against the code, and TLC finds a counterexample.

- `endpoint_unlink_race`: `cancel` promises that an unlinked URB is never
  completed. A writer thread pops the parked URB, the serve thread handles the
  unlink and answers it, the writer completes the URB. Devices that write from
  a thread of their own (HID, CDC-ACM, Bluetooth) are exposed.
- `iso_race`: each isochronous completion is scheduled for the time its packets
  really take. `_iso_deadline` adds to `ep.iso_deadline` without a lock, and each
  connection has a serve thread: both load the clock before either stores it, one
  addition is lost, and two URBs are delivered at one time.
- `composition_union`: Linux pairs the interfaces of a serial port by its Union
  descriptor. That always says 0 and 1 (`cdc_acm.py:50`), which are interfaces of
  another function when the port was not added first.
- `listener_busid`: each device has its own busid, `1-1`, `1-2`, ... in plug
  order. After an unplug the next device gets a name that is in use.
- `msc_stale_write`: a re-attach behaves like a fresh plug. A write whose data
  was on its way is still waited for.
- `mtp_desync`: command, optional data, response. A refused operation is
  answered at its command, its data is taken for another command and answered
  again, and the host reads answers of earlier transactions from then on.
- `mtp_move`: a move to another storage is a copy and a delete, and files may be
  dropped into a store at any time. `_copy_tree` copies what the last snapshot has,
  the removal takes the tree as it is: a file dropped into a directory since is
  deleted with it and copied nowhere.

## The proofs

Each theorem is proved for every value of its module's constants (any sets of
connections, threads, endpoints, devices, units, images; any sizes and bounds)
from the module's named assumptions, which TLC evaluates on every run. Some
have a hypothesis besides, which the theorem states: `Alone(c)` in
`Endpoint_proofs`, `OwnTransports` in `Listener_proofs`, `HaveInterfaces` in
`Streams_proofs`, a bound on the number of labels in `Composition_proofs`.

| Module | Theorem | Says |
|---|---|---|
| `Endpoint_proofs` | `TypeCorrect` | `Spec => []TypeOK` |
| | `WakeupCorrect` | `Spec => []NoLostWakeup` |
| | `LifeRefined` | `Spec => LifeSpec`: the endpoint implements `UrbLife` |
| | `HaltTight` | `Spec => []OneLateUrbPerHalt` |
| | `BytesKept` | `Spec => []BytesConserved` |
| | `UrbOrderKept` | `Spec => []DataInUrbOrder` |
| | `SessionsApart` | `Spec => []NoDataOfEarlierSession` |
| | `SerialOrder` | with `Alone(c)`: `Spec => []AnswersInOrder` |
| | `SerialUnlink` | with `Alone(c)`: `Spec => []NoAnswerAfterUnlink` |
| `Pacing_proofs` | `NoOversleeping` | `PacingSpec => []NeverOversleeps` |
| | `DueApart` | `PacingSpec => []QueuedApart`: on an endpoint where no two threads have scheduled at once, queued completions are due in order, apart by the time they play |
| | `RealTime` | `PacingSpec => []NeverFasterThanRealTime`, which is about such endpoints |
| | `InOrder` | `PacingSpec => []IsoInOrder`, likewise |
| | `IsoLifeRefined` | `PacingSpec => IsoLifeSpec`: the pacer implements `UrbLife` |
| `Listener_proofs` | `ListenerTyped` | with `OwnTransports`: `ListenerSpec => [](ListenerTypeOK /\ ListenerInv)` |
| | `NumbersDiffer` | with `OwnTransports`: `ListenerSpec => []DevnumsUnique` |
| | `ServedWhenQuiet` | with `OwnTransports`: `ListenerSpec => []ExportedIsServed` |
| | `LookedUpOpens` | with `OwnTransports`: `ListenerSpec => LookedUpIsOpened`, an action property |
| `BulkOnly_proofs` | `BulkTyped` | `Spec => [](TypeOK /\ BulkInv)` |
| | `NeverOutOfStep` | `Spec => []InStep` |
| | `TruthTold` | `Spec => []ToldTheTruth` |
| | `WritesLand` | `Spec => WritesLandWhereMeant`, an action property |
| `Mtp_proofs` | `MtpTyped` | `Spec => []TypeOK`, which says that each store stays a tree |
| | `HandlesMatch` | `Spec => []HandlesMatchObjects` |
| | `HandlesAreStable` | `Spec => HandlesStable`, an action property |
| | `MovesKeep` | `Spec => MoveKeepsListed`, an action property: files that the snapshot has, and all files when the move is within a store |
| `Streams_proofs` | `BytesInStep` | with `HaveInterfaces`: `WireSpec => []StaysInStep` |
| | `ReassembledInOrder` | `BtSpec => []PacketsReassembled` |
| | `EchoIsInOrder` | `EchoSpec => []EchoedInOrder` |
| `Composition_proofs` | `FunctionsAreKept` | `CompositionSpec => []FunctionsKept`: interfaces are numbered once, from 0 on |
| | `DriversAreAgreed` | `CompositionSpec => []MsosAgree` |
| | `PartsAreWired` | `CompositionSpec => []WiredInv`: the maps of endpoints and handlers are those of the functions |
| | `OwnersAreAsked` | `CompositionSpec => []AnsweredByOwner` |
| | `PartsAreShaped` | `CompositionSpec => []ShapedInv`: numbers in a row, sizes of the speed, labels where functions keep them, no conflict once plugged |
| | `PartsAreDescribed` | with `2 * MaxFunctions < MagicIndex`: `CompositionSpec => []RoutedAsDescribed`, which excepts the Union of a serial port that was not added first |
| | `PipesAreFound` | `CompositionSpec => []DriversFindPipes` |
| `Classes_proofs` | `FramesArriveWhole` | `VideoSpec => []FramesWhole` |
| | `DownloadsStored` | `DfuSpec => [](DfuTypes /\ FilesKept)`: what was downloaded is in its target |
| | `DownloadsReadBack` | `DfuSpec => []DownloadReadsBack` |
| | `SoundIsContinuous` | `AudioSpec => []SoundContinuous` |
| | `TypedTextIsSeen` | `HidSpec => []TypedTextArrives` |

`Endpoint_proofs`. The first two are inductive. The lemmas that a step preserves `TypeOK`
have one step for each action (`TypeServe` for those of a serve thread and the
host, `TypeDevice` for those of `write` and `stall`), and helper lemmas say what
`FrontPiece`, `AfterFrontPiece`, `Without` and `Send` return. `NoLostWakeup`
claims nothing while a thread holds the lock, which is the time the loop of
`write` needs; it rests on the loop's stopping only when one side is empty
(`Unlock`), on `take_or_park` parking only when there is no data, and on
`NoThread` being no thread, so that a writer in its loop does hold the lock.

For `LifeRefined`: the code never says that a URB is in one place: it says
it by moving URBs between `_pending`, a local list and the wire. `LifeInv` says
it outright. Every submitted URB is parked, popped, in the hand of its serve
thread, answered or dropped, and in one of these only (`SomewhereOnce`); a
thread's hand holds a URB of its own connection (`OwnUrb`); and no list has a
URB twice (`DoneApart`, `WireApart`, and `Apart` of `pending`). The sequence
number alone does not tell URBs apart, as two connections use the same numbers:
a URB's name is the pair of both (`Id`). Each action is then one of three kinds
of step, a submission, an answer or a drop, or it moves URBs without a change
of fate (`LifeStep`), and `LifeRefined` maps these to the steps of `UrbLife`.

Its part about data: `OnlyLateUrb` says what is on a halted endpoint, and is
what `HaltTight` needs: nothing but URBs whose threads had read `halted` before.
`DataInv` accounts for bytes: the queue is one interval that ends at what was
written last (`QueueInOrder`), and every byte before it, since the last reset,
stands in exactly one piece of one URB, wherever that is, or is lost with its
host (`Accounted`); the steps that touch data give, queue, flush or lose it
(`DataStep`). `OrderInv` adds that URBs are parked in the order of submission, that
those given data come before those that wait (`GivenFirst`), and that an
attached host's first byte is not after the queue's front (`StartsBelow`).

Its last part is about one connection. `AnswersInOrder` and `NoAnswerAfterUnlink`
do not hold of devices with threads of their own: `endpoint_unlink_race` shows one broken,
the first of the observations below the other. `Alone(c)` is the device that the
promise is made for, one connection and no writers, as in the run
"serial" program of `endpoint_concurrent`. Its invariant `SerialInv` says that the one thread does one
thing at a time, that what it popped is in line before what is parked
(`DoneInLine`), that all that is answered comes before all that waits
(`AnsweredFirst`), and that an unlinked URB is answered or gone before the reply
to the unlink is written (`UnlinkedGone`).

`Pacing_proofs`. `RealTime` is not inductive: an entry that is delivered adds
its playing time to what its stream has played, and only its deadline says that
this is not too much. Deadlines are right only where serve threads take turns:
`raced` has the endpoints where two have been in `_iso_deadline` or
`_pace_schedule` at once (`CallsApart`), and of these nothing is claimed
(`iso_race` shows why). Of the others the invariant `PaceInv` says that a
queued entry is due no later than the endpoint's deadline clock and no earlier
than all before it, and itself, have played (`InSchedule`), that entries are due
apart by their playing time (`QueuedApart`), and, since other endpoints go on and
the pacer delivers between any two steps of `_iso_deadline`, what the thread in it
knows at each of them (`KnowsDeadline`): which of the clock it read and the
deadline is behind, that what it loaded is still the deadline, and that what it
returns leaves room for its packets (`LeavesRoom`). The entry in the pacer's hand
is due and comes before the rest (`HandIsDue`); with these a delivery leaves the
entries behind it in schedule. What the code adds to the deadline is the time
that the packets play (`IntervalIsTrue`), which is positive (`DurPositive`).
`InOrder` adds `OrderInv`: what a host has on the wire was submitted before what
is queued for it on the same endpoint, both before what its thread is
scheduling, and queued entries are numbered in the order of their URBs.
`IsoLifeRefined` needs no such premise; it has its own `SomewhereOnce`, over the
threads' calls, the heap, the hand and the wire (`HeldIds`).

`Listener_proofs`. The last device out closes the listener because it finds the
list of devices empty; that this is right takes all of `ListenerInv`: a device
is exported only on its own transport's listener and between its plug and its
unplug (`OnOwnListener`), once (`OnceEach`), with a number below the next
(`Numbered`); a call in progress has its listener, and one call at a time binds
it (`Calls`); a listener's sockets are its own (`SocketsOwned`). For one
application thread `OneThread` says besides that only the listener of the
address exports devices and is served. `OwnTransports` excludes the
applications in which several threads plug through one `USBIP` object: they
overwrite each other's `_listener` (`transport.py`, `serve`), and a device may
then stay on a listener that nobody refers to. The repository has no such
application, and the three kinds of the run satisfy the hypothesis.
`LookedUpOpens` rests on names: what is exported has one (`Named`), no step of
the application takes a name from a device (`NamesLast`), and so the name that a
host has found in a list is still that of its device (`Found`), however often the
device was unplugged and plugged, on this listener or another, before the import
is served.

`BulkOnly_proofs`. `BulkInv` is the protocol, written down as the relation of
the two sides at each phase of the host's driver: what is in the bulk-IN queue,
which endpoint is halted, and whether a write is in progress, while data comes in
(`InPhase`), goes out (`OutPhase`), a halt is cleared (`ClearPhase`) or the status
is read (`CswPhase`). The same phases hold for a host that follows one that left
in the middle of a write, except that its first command may be swallowed as
that write's data (`Swallowed`); after a reset that the host gave up with, nothing
is claimed of the phase, but a write reported as passed is still in the store
(`Written`), and none is ever on a protected unit or out of range (`Allowed`).

`Mtp_proofs`. The invariant `IInv` says of the stores and the snapshot
(`StoreInv`) that each store is a tree whose nodes have identities of their own,
below `born` (`FsInv`), that handles are below `next` and apart (`HandlesInv`),
and that the objects are the handles turned round, with the parent of each
among them (`ObjectsInv`). None of the properties is inductive without it:
that two paths never share a handle (`HandlesMatchObjects`) is what keeps a
handle with its file, and a file's identity is what tells a file that moved from
one that was made in its place. `IInv` says besides that the reservation of
SendObjectInfo, if it is still there, is what was made last (`Reservation`), and
keeps the bound on depth (`NotTooDeep` looks at a command, its data comes later).
TLC checked it on the instance of `mtp_objects` before it was proved, and found
the one case in which the history variable `reserved` had been wrong.

The proof goes up in four layers. *Paths*: what replacing the beginning of a
path does (`MovedIs`, `MovedFront`), that the walk's order is total
(`WalkedBefore`), and so that `Rank` numbers a set of paths without gaps or
repetitions, which is what makes fresh handles differ. *Stores*: every operation
that adds only adds (`Grew`: what is there keeps its identity and kind, what is
new has a new identity), also a copy that fails half way (`CopyIs`, by induction
over its steps); a removal takes a subtree; a rename is a bijection between
what was there and what is there after it, but for one file that it may
overwrite (`From`, `FromIs`). *Snapshots*: a rescan after a change in which
every node has its old handle or is new (`Carried`) makes a snapshot that is in
order and in which handles name what they named (`Stable`); renaming moves the
handles along with their nodes (`MoveCarried`). *The interface*: what a handler
of a command or of data leaves (`Dispatched`, `Completed`), and each step of the
specification. `MovesKeep` follows a file through `Move`: across stores the
copy of what the snapshot has is there before the source goes (`FileSurvives`);
within a store a rename takes all there is. That the snapshot is what the stores
hold is no hypothesis: what it has is still in the stores after any failure and
addition (`ObjectsInv`). A file that the snapshot does not have is lost by a move to
another store, as `mtp_move` shows.

`StorageAssumption` asks for a first store and a name that sorts last (the name
that the id of a storage reads as); `MtpAssumption` for finite trees at the
start.

`Streams_proofs`. *Wire*: a stream is a row of pieces, one message each, told
apart only by where each ends (`LaidOut`); `Holds` says that it is all of them,
`Begins` that it is a beginning, as a connection that breaks leaves it.
`WireInv` says that what is on its way to the device are the bytes of the
requests that it has not read (`Ahead`), and what is on its way to the host are
replies, in some order (`Behind`). Reading is then one lemma for each side: from
a stream that starts with a message, `read_cmd` takes that message, cuts its
data at its descriptors into the host's slots and leaves the rest (`ReadWhole`),
or, if the stream ends inside it, takes all of it (`ReadShort`), and so does the
host (`ReplyRead`). They rest on what the codec computes over a sequence of any
length: the sums of lengths (`TotalIs`), a payload that is gathered and cut
again (`CutHolds`), the loop over a device list (`ListRead`). These are
inductions over data, done by the least number at which they would fail
(`UpTo`). `HaveInterfaces` leaves out a device without interfaces, whose record
in the device list says that it has one: a host that reads it is out of step
(see the observations). *Bluetooth*: `BtInv` says that some number of packets
has been delivered, that what the dongle keeps and what is still to be sent are
the rest of them, and that what it keeps is shorter than the next (`FedTo`,
`KeptIsShort`). A turn of its loop delivers one packet and keeps that true, for
a header and a length that came in pieces too (`TakeOneKeeps`); the loop, of
which nothing says how often it turns, is `EndlessTurns`. `PayloadAssumption`
asks that a packet's length fits its two bytes, as it does for a packet that can
be written down. *Echo*: what the host received, what is queued for it, what the
application holds and what it has to read, in this order, are what that host
sent, behind what was held when it came (`InOrder`); a URB that takes a part of
the front packet leaves the rest in front (`GivenIs`), and so does a write that
meets any number of waiting URBs (`MatchAllKeeps`).

`Composition_proofs`. A function is attached as `RouteEndpoints` and `AttachInterfaces` say, of which no class takes
more than three turns (`RoutesInTurn`, `InterfacesInTurn`, from `Declared`).
`FunctionsKept` is what this leaves: interface numbers belong to one function
each and count from 0 (`NumbersApart`, `FirstIsZero`), an advertisement is for
the device or for a function on it, and `bcdUSB` announces a BOS exactly when
there is one (`Advertised`). That the three answers to Windows agree follows
from it: the entry for an interface is the one for its function
(`EntryOfInterface`), and a section of the Compatible ID descriptors belongs to
the one function whose first interface it names (`SectionOfGroup`).
`CompositionAssumption` says that the kinds are those of the module. `WiredInv`
says of the maps that are made meanwhile: each endpoint has one address, of its
direction, and each address in use one endpoint (`Wiring`), and each interface
of a class has its handler, the first the device's too (`Registered`). What the
host reads is another matter, since the configuration is rendered when it is
asked for: each block says the addresses of its interface (`BlockTells`, one
case for each way in which a class makes its own), an endpoint stays with its
interface when blocks are joined (`ToldJoined`, `FlattenTold`), and so the
configuration tells of every function's addresses and no other
(`ConfigurationTells`). Audio, which says the addresses of its constants
wherever it was moved, is the one case in which this is not what the maps say;
the address leads to an interface that described it all the same
(`RoutedToDescribed`).

`ShapedInv` is what `RoutedAsDescribed` needs besides: the interface numbers of a
function are a row and all numbers are used (`InRow`), a packet size is for the
speed that is reported or does not depend on it (`Sized`), a label stands under
the index that its function keeps (`Labelled`), and `plug` found no conflict.
While a function is attached the last number claimed is its own
(`ClaimedLast`), and an interface whose endpoints are sized has no hook yet
(`SizedBut`), which is why a change of speed cannot be let in between. Of the
configuration it takes the form of each record (`RecordsOfDevice`,
`ThreeRecords`). An address that was told then leads to the interface that told
it: the one it leads to told it too, and two that told one address would be a
conflict (`RoutedToTeller`); for audio this is what shows that its constants are
the addresses it has (`EndpointsTold`). The list of exported interfaces counts,
for each, the interfaces with a lower number, which is its number, by a bijection
(`BelowCounted`). `PartsAreDescribed` leaves out devices of 119 functions and
more, each of which may have two labels: a label with the index 238 is hidden by
the string that Windows asks for (see the observations).

`PipesAreFound` is about the drivers' walk over the configuration, a fold. Its
states are numbered (`DiscoverWalks`), and after each record it is inside an
interface of its class just when the last interface record was one, and has as
the pipe of a role the last endpoint of that role that it took (`GatheredNext`,
`WalkFinds`). What it takes belongs to a function of its kind, since no other has
its class (`TakenIs`, from `OwnerOfRecord`); it takes every endpoint that it uses
(`UsedIsTaken`; for Bluetooth those are in alternate setting 0); and no two
endpoints of one function have the same role (`RolesApart`).

`Classes_proofs`. *Video*: what a host has put together of a frame is as much of
the camera's frame in hand as has been sent (`ViewerInv`, for a host that
follows the stream, `CameraInv` for the frame itself); the frame identifier
tells it where the next begins, whatever it missed before it joined. *Dfu*:
`JobInv` says of a host in the middle of a download that the target holds
exactly the blocks accepted so far, over whatever was there before, and
`FilesKept` that a target with a whole image holds that and no more. `UploadInv`
follows the blocks back. It has an exception that the proof brought to light, of
the longest image that a download can send (`Endless`; see the observations):
its upload never ends, so that `DownloadReadsBack`, of uploads that end, is true
of it too. *Audio*: `AudioInv` adds to the property that the file is read on
from just behind the last sound that was heard, so that silence and stops
between do not matter; `MicSourceIs` says what one packet takes of a file that
may end inside it. A packet longer than the file gets less than it has room for,
since the source rewinds once; the sound is continuous all the same. *Hid*:
`HidInv` counts the steps that a thread has left (`StillToDo`). When only one
thread has typed since the host came, the reports in the pipe and those that the
host has read are the next ones of that thread, from the report on at which the
host came (`OneTypistSeen`), which may be the release of a key that it never saw
pressed. When several type into each other nothing is said of the order; that no
key stays down in the end holds all the same, since the report that was queued
last has keys down only while some thread has a step left (`NewestComesUp`).
`HidAssumption` says that the text is a sequence.

What is model-checked only. Liveness (`TakenIsCompleted`, `ScheduledIsDelivered`,
`CommandFinishes`) is outside what TLAPS proves. The readers (`FatFs`, `Clip`,
`Jpeg`), the walk of a host over a report descriptor (`Report`) and the loop of
`CdcConsole` are proved nowhere: what a fold or a recursive function computes for
every input is an induction over data, which the provers do only where its
formula is written out as a set of numbers, one operator at a time, as in
`Streams_proofs` and for the walk of `PipesAreFound`. Of `Mtp` the theorems speak
of the stores; that a host's transactions stay in step with the device's is not
true (`mtp_desync`).

## Observations

Behaviour seen while modelling that no run has as a violation. The endpoint and
the listener:

- Two threads that write, or a writer and the serve thread, can put completions
  on the wire in the opposite of the order in which they popped them
  (`device.py:121`), although `write` is documented to complete in FIFO order
  (`device.py:104`). `AnswersInOrder` is checked for devices without writers.
- After the last unplug the accept thread is still blocked on the socket, which
  keeps the port bound (Linux): a connect succeeds and the next plug fails
  (`transport.py:87`), although the last one out is documented to close the
  listener (`doc/pages/device/multi-device.md:143`). `Listener` has this
  behaviour (`PortTaken`).
- A serve thread whose host has left may still park URBs after the next host's
  reset, in front of that host's, and data goes to the dead connection
  (`protocol.py:254`). `Endpoint` has this behaviour; `BytesConserved` counts
  such data as lost.
- With several threads that plug and unplug on one address, a device can
  register on a listener that another thread is about to drop; it is then
  exported nowhere (`transport.py:168`). The second part of `ExportedIsServed`
  is stated for one application thread for that reason.
- A stall between the test of `halted` and `take_or_park` leaves one URB
  parked on the halted endpoint (`device.py:772`). `OneLateUrbPerHalt` is
  what remains true.
- SET_CONFIGURATION drops parked URBs without an answer (`device.py:899`).
- A packet that an application has read and not yet written back when a host
  leaves reaches the next one (`examples/vendor_device.py`); `EchoedInOrder`
  allows for that one.

The wire and what a device says of itself:

- A connection that ends inside the data of a request leaves an empty transfer
  (`protocol.py:141`), which the class handles as such: in DFU it ends the
  download (`dfu.py:178`). Inside packet descriptors it raises `struct.error`.
- A URB with packets sent to an endpoint that is not isochronous leaves both
  sides out of step; `client_submit` does not compare sequence numbers.
- A device without interfaces makes a device list unreadable from there on.
- The descriptors of UAC name their endpoints by constants (`uac.py:276`);
  when they had to move, `plug` refuses the device.
- A device with so many labels that one has the index 238 hides it behind the
  Microsoft string (`device.py:708`).
- With two HID functions, `HIDDriver` mixes the pipes of both (`host/hid.py:166`);
  `DriversFindPipes` is stated for one function of a class.

The classes:

- An MTP session, a pending data phase and a reservation outlive their host
  (`mtp.py:516`): the next host's OpenSession is answered "already open".
- MTP is read-only when its first store is (`mtp.py:281`); others are not asked.
- Files that an application adds to a store are not seen before the next
  operation that writes.
- A WRITE of zero blocks gets no status (`msc.py:357`).
- DFU accepts a download in `dfuERROR`; block numbers wrap at 65536. An image of
  exactly 65536 full blocks is stored, but its upload never ends: block 65536 is
  asked for as block 0, which is full again (`dfu.py:199`). The other images that
  a download can send come back (`DownloadsReadBack`). A short count of the example's unbuffered write is not looked at
  (`examples/dfu_device.py:63`).
- The state of a CDC port outlives a host that leaves DTR set (`cdc_acm.py:87`):
  no close is reported, no open for the next, and the console keeps its line. A
  character of several bytes that is cut by a packet is dropped
  (`examples/cdc_hid_device.py:137`).
- The camera streams on for the next host, and PROBE, not only COMMIT, changes
  the format of a running stream.
- HID report counts over 255 are truncated and maxima from 32768 read as
  negative, since items are never longer than two bytes (`hid.py:85`); the
  protocol and the idle rate outlive a host; two threads of `boot_keyboard`
  type into each other when a host attaches twice.
- The FAT reader keeps its cached sector when the disk is written through the
  same driver, and does not verify the checksums of long names.

## What is not modelled

- *Bytes of structures and wording*: headers, the fields of descriptors that
  nothing reads back, SCSI pages, PTP data sets, logs and debug output. They are
  layouts, covered by the repository's tests.
- *Packet capture and the event log*: output only.
- *ISO 9660 and H.264*: adapters to third-party libraries and an external
  decoder; the inverse transform and colour arithmetic of the JPEG example.
- *Examples* that only put bundled classes together, and the image file behind
  the mass storage example.
- Within the modelled parts: replies to endpoint 0 and to OUT URBs in `Endpoint`
  (they do not touch the endpoint); the synchronous path of `handle_urb`
  (`_take_in`), which no server in the repository uses; the loopback transport;
  `set_busid`; MTP's data to the host and events, and containers split over
  several URBs; values that a class stores and gives back (idle rate, volume).

## Plan

1. (done) `Endpoint`, `UrbLife`, `Endpoint_proofs`: the data path and its
   threads.
2. (done) `Listener`: exporting and importing.
3. (done) `BulkOnly`: the class with the strictest protocol.
4. (done) `MtpStorage`, `Mtp`: the class with the largest state.
5. (done) `Pacing`, `Pacing_proofs`: the pacer, its refinement of `UrbLife`, and
   its clock and order for all instances.
6. (done) `Wire`, `Composition`: the connection's bytes; a device and what it
   says of itself.
7. (done) `Report`, `Hid`, `Dfu`, `CdcConsole`, `Bluetooth`, `Video`, `Audio`,
   `Echo`, `FatFs`, `Clip`, `Jpeg`: the classes, their applications and readers.
8. (done) Proofs of `Endpoint` and `Pacing`, with both refinements of `UrbLife`;
   of `Listener`, `BulkOnly`, `Video`, `Dfu` and `Audio`.
9. (done) Proofs of `Mtp`: the walk, copies, renames and rescans for all trees;
   handles, their stability, and moves. Proofs of `Wire`, `Bluetooth`, `Echo`,
   `Hid` and of what `Composition` wires, describes, advertises and answers.
10. MTP's containers split over transfers, its events, and a second store that is
   read-only; `set_busid` in `Listener`.
