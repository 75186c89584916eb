------------------------------- MODULE Pacing -------------------------------
(***************************************************************************)
(* The isochronous pacer of an exported device (usbip/device.py,           *)
(* set_iso_pacing): a completion is given the time at which real hardware  *)
(* would be done with its packets, queued in a heap, and delivered by one  *)
(* thread that sleeps until the earliest deadline.                         *)
(*                                                                         *)
(* What the module keeps of the code's concurrency:                        *)
(*   - each connection has a serve thread, and they run side by side;      *)
(*   - _iso_deadline takes no lock: each of its reads and writes of        *)
(*     ep.iso_deadline is a step of its own;                               *)
(*   - _pace_cv protects the heap; the pacer waits on it with or without a *)
(*     timeout, and responds after it has let it go, with the entry it     *)
(*     popped in its hand;                                                 *)
(*   - time passes between any two steps, so that every thread may be late *)
(*     by any amount.                                                      *)
(*                                                                         *)
(* What it abstracts: a tick is a microframe (125 us); what a URB carries  *)
(* is left to Video and Audio.                                             *)
(***************************************************************************)
EXTENDS Integers, Sequences, FiniteSets

CONSTANTS
    Conns,      \* connections that may ever import the device
    Eps,        \* isochronous endpoints
    BInterval,  \* per endpoint: bInterval
    Speed,      \* the link's speed, "full" or "high"
    PacketCounts, \* numbers of packets a URB may have
    MaxUrbs,    \* bound: URBs submitted, by all hosts
    MaxSubmit   \* bound: the last time at which a host submits a URB

ASSUME SpeedAssumption == Speed \in {"full", "high"} /\ BInterval \in [Eps -> 0 .. 16]
ASSUME CountAssumption == PacketCounts \subseteq Nat \ {0}
ASSUME BoundAssumption == MaxUrbs \in Nat /\ MaxSubmit \in Nat

\* The microframes from one poll of a high-speed endpoint to the next, by its
\* bInterval, as the host's controller counts them.
Microframes == <<1, 2, 4, 8, 16, 32, 64, 128, 256, 512, 1024, 2048, 4096, 8192, 16384, 32768>>

ASSUME PowerAssumption == \A n \in 1 .. 16 : 2 ^ (n - 1) = Microframes[n]

VARIABLES
    now,       \* time.monotonic()
    deadline,  \* per endpoint: iso_deadline
    heap,      \* _pace_q, a set of entries
    seqNo,     \* _pace_seq: the number of the next entry
    pacer,     \* where the pacer thread is
    wake,      \* when the pacer's wait times out, 0 when it does not sleep
    hand,      \* what the pacer has popped and not delivered: no entry or one
    calls,     \* the URBs whose serve thread is in _iso_deadline or _pace_schedule
    pc,        \* per connection: where its serve thread is
    unlinked,  \* per connection: the sequence numbers the host has unlinked
    alive,     \* per connection: the host has not gone away
    nextSeq,   \* per connection: the next sequence number the host uses
    wire,      \* per connection: the replies written to its socket, in order
    dropped,   \* history: URBs that left without an answer
    played,    \* history: per endpoint, the time at which its stream last started
               \* from idle, and what has been delivered since takes to play
    raced      \* history: the endpoints that two threads have scheduled for at once

paceVars == <<deadline, heap, seqNo, pacer, wake, hand>>
connVars == <<pc, unlinked, alive, nextSeq>>
history == <<played, raced>>
pacingVars == <<now, paceVars, calls, connVars, wire, dropped, history>>

-----------------------------------------------------------------------------
(* Time.                                                                   *)

\* `ep.interval or 1`.
Bint(ep) == IF BInterval[ep] = 0 THEN 1 ELSE BInterval[ep]

\* Mutant: every packet is one (micro)frame apart, as those of the bundled
\* classes are.
IntervalOfOne(ep) == IF Speed = "high" THEN 1 ELSE 8

\* `frame`, the code's ticks between two packets: 2^(bInterval-1) microframes
\* at high speed, bInterval frames of eight microframes at full speed.
Interval(ep) == IF Speed = "high" THEN 2 ^ (Bint(ep) - 1) ELSE 8 * Bint(ep)

\* How long the sound or picture in one packet plays: till the host polls the
\* endpoint again.  This is what the classes fill their packets by (uac.py,
\* _iso_mps: the samples of a microframe, or of a frame).
PacketTime(ep) == IF Speed = "high" THEN Microframes[Bint(ep)] ELSE 8 * Bint(ep)

-----------------------------------------------------------------------------
(* The heap: entries are ordered by deadline, then by number.              *)

Before(e, f) == e.at < f.at \/ (e.at = f.at /\ e.no < f.no)

\* Mutant: the newest entry comes first.
TopIsNewest(e) == e \in heap /\ \A f \in heap : f.no <= e.no

\* e is _pace_q[0].
IsTop(e) == e \in heap /\ \A f \in heap \ {e} : Before(e, f)

\* What the pacer has still to deliver.
Queued == heap \cup hand

Id(e) == <<e.conn, e.seq>>
Ids(S) == {Id(e) : e \in S}

\* Mutants: a push wakes the pacer never; only when it waits without a timeout.
NotifyNobody == UNCHANGED <<pacer, wake>>
NotifyIdleOnly == IF pacer \in {"absent", "idle"} THEN pacer' = "look" /\ wake' = 0
                                                  ELSE UNCHANGED <<pacer, wake>>

\* _pace_cv.notify, or the start of the thread.
Notify == IF pacer \in {"absent", "idle", "asleep"} THEN pacer' = "look" /\ wake' = 0
                                                    ELSE UNCHANGED <<pacer, wake>>

\* pace_cancel keeps the entries of other sequence numbers; it does not look
\* at whose they are.
PaceCancel(n) == {e \in heap : e.seq # n}

-----------------------------------------------------------------------------
(* The socket of a connection.                                             *)

Reply(e) == [seq |-> e.seq, ep |-> e.ep]

\* `respond`: the reply is written, or swallowed when the host is gone.
Send(e) ==
    IF alive[e.conn]
    THEN /\ wire' = [wire EXCEPT ![e.conn] = Append(@, Reply(e))]
         /\ UNCHANGED dropped
    ELSE /\ dropped' = dropped \cup {Id(e)}
         /\ UNCHANGED wire

-----------------------------------------------------------------------------
PacingInit ==
    /\ now = 0
    /\ deadline = [ep \in Eps |-> 0]
    /\ heap = {}
    /\ seqNo = 0
    /\ pacer = "absent"
    /\ wake = 0
    /\ hand = {}
    /\ calls = {}
    /\ pc = [c \in Conns |-> "new"]
    /\ unlinked = [c \in Conns |-> {}]
    /\ alive = [c \in Conns |-> FALSE]
    /\ nextSeq = [c \in Conns |-> 1]
    /\ wire = [c \in Conns |-> <<>>]
    /\ dropped = {}
    /\ played = [ep \in Eps |-> 0]
    /\ raced = {}

(***************************************************************************)
(* The serve thread and its host.                                          *)
(***************************************************************************)

\* The serve thread waits in read_cmd.
Reading(c) == pc[c] = "read" /\ \A k \in calls : k.conn # c

\* A host imports the device, whoever else has.  reset_io empties no heap and
\* resets no deadline: what another host left is still paced.
Attach(c) ==
    /\ pc[c] = "new"
    /\ pc' = [pc EXCEPT ![c] = "read"]
    /\ alive' = [alive EXCEPT ![c] = TRUE]
    /\ UNCHANGED <<now, paceVars, calls, unlinked, nextSeq, wire, dropped, history>>

HostGone(c) ==
    /\ alive[c]
    /\ alive' = [alive EXCEPT ![c] = FALSE]
    /\ UNCHANGED <<now, paceVars, calls, pc, unlinked, nextSeq, wire, dropped, history>>

Close(c) ==
    /\ Reading(c)
    /\ ~alive[c]
    /\ pc' = [pc EXCEPT ![c] = "closed"]
    /\ UNCHANGED <<now, paceVars, calls, unlinked, alive, nextSeq, wire, dropped, history>>

\* An endpoint with nothing scheduled and nothing being scheduled.
IdleEp(ep) == \A x \in Queued \cup calls : x.ep # ep

\* An isochronous URB is read; handle_urb calls _iso_deadline, which reads the
\* clock.
Submit(c, ep, npkts) ==
    /\ Reading(c)
    /\ seqNo + Cardinality(calls) < MaxUrbs /\ now <= MaxSubmit
    /\ calls' = calls \cup {[conn |-> c, seq |-> nextSeq[c], ep |-> ep, npkts |-> npkts,
                             step |-> "compare", val |-> now]}
    /\ nextSeq' = [nextSeq EXCEPT ![c] = @ + 1]
    /\ played' = IF IdleEp(ep) THEN [played EXCEPT ![ep] = now] ELSE played
    /\ raced' = IF \E k \in calls : k.ep = ep THEN raced \cup {ep} ELSE raced
    /\ UNCHANGED <<now, paceVars, pc, unlinked, alive, wire, dropped>>

(***************************************************************************)
(* _iso_deadline: the thread's local value is the time, later what it has  *)
(* loaded, then what it returns; 0 while it keeps none.                    *)
(***************************************************************************)

Goes(k, step, val) == calls' = (calls \ {k}) \cup {[k EXCEPT !.step = step, !.val = val]}

\* Mutant: a deadline that has passed is not brought up to now.
NeverBehind(k) == FALSE

\* `if ep.iso_deadline < now'.
IsBehind(k) == deadline[k.ep] < k.val

Compare(k) ==
    /\ k.step = "compare"
    /\ IF IsBehind(k) THEN Goes(k, "raise", k.val) ELSE Goes(k, "load", 0)
    /\ UNCHANGED <<now, paceVars, connVars, wire, dropped, history>>

\* The first transfer, or one after a gap: the deadline is brought up to now.
Raise(k) ==
    /\ k.step = "raise"
    /\ deadline' = [deadline EXCEPT ![k.ep] = k.val]
    /\ Goes(k, "load", 0)
    /\ UNCHANGED <<now, heap, seqNo, pacer, wake, hand, connVars, wire, dropped, history>>

\* `ep.iso_deadline += frame * npkts' loads ...
Load(k) ==
    /\ k.step = "load"
    /\ Goes(k, "store", deadline[k.ep])
    /\ UNCHANGED <<now, paceVars, connVars, wire, dropped, history>>

\* ... and stores.
Store(k) ==
    /\ k.step = "store"
    /\ deadline' = [deadline EXCEPT ![k.ep] = k.val + Interval(k.ep) * k.npkts]
    /\ Goes(k, "return", 0)
    /\ UNCHANGED <<now, heap, seqNo, pacer, wake, hand, connVars, wire, dropped, history>>

\* `return ep.iso_deadline' loads it again.
Return(k) ==
    /\ k.step = "return"
    /\ Goes(k, "push", deadline[k.ep])
    /\ UNCHANGED <<now, paceVars, connVars, wire, dropped, history>>

\* _pace_schedule pushes one entry and wakes the pacer; handle_urb returns
\* None.
PaceSchedule(k) ==
    /\ k.step = "push"
    /\ heap' = heap \cup {[at |-> k.val, no |-> seqNo, conn |-> k.conn, seq |-> k.seq,
                           ep |-> k.ep, dur |-> PacketTime(k.ep) * k.npkts]}
    /\ seqNo' = seqNo + 1
    /\ calls' = calls \ {k}
    /\ Notify
    /\ UNCHANGED <<now, deadline, hand, connVars, wire, dropped, history>>

\* CMD_UNLINK, for a URB the host has no answer for.  RET_UNLINK, which the
\* serve thread writes next, is left out: a completion the pacer has in its
\* hand may follow it.
Unlink(c, n) ==
    /\ Reading(c)
    /\ n < nextSeq[c] /\ n \notin unlinked[c]
    /\ \A i \in DOMAIN wire[c] : wire[c][i].seq # n
    /\ heap' = PaceCancel(n)
    /\ dropped' = dropped \cup Ids(heap \ PaceCancel(n))
    /\ unlinked' = [unlinked EXCEPT ![c] = @ \cup {n}]
    /\ UNCHANGED <<now, deadline, seqNo, pacer, wake, hand, calls, pc, alive, nextSeq, wire, history>>

(***************************************************************************)
(* The pacer thread, _pace_run.                                            *)
(***************************************************************************)

\* The heap is empty: wait for a push.
PacerIdles ==
    /\ pacer = "look"
    /\ heap = {}
    /\ pacer' = "idle"
    /\ UNCHANGED <<now, deadline, heap, seqNo, wake, hand, calls, connVars, wire, dropped, history>>

\* The earliest deadline is still to come: wait for it, or for a push.
PacerSleeps ==
    /\ pacer = "look"
    /\ \E e \in heap :
          /\ IsTop(e)
          /\ e.at > now
          /\ wake' = e.at
    /\ pacer' = "asleep"
    /\ UNCHANGED <<now, deadline, heap, seqNo, hand, calls, connVars, wire, dropped, history>>

PacerWakes ==
    /\ pacer = "asleep"
    /\ now >= wake
    /\ pacer' = "look"
    /\ wake' = 0
    /\ UNCHANGED <<now, deadline, heap, seqNo, hand, calls, connVars, wire, dropped, history>>

\* Mutant: everything that is due is popped, and one entry answered.
PacerPopsAllDue ==
    /\ pacer = "look"
    /\ \E e \in heap :
          /\ IsTop(e)
          /\ e.at <= now
          /\ hand' = {e}
          /\ heap' = {f \in heap : f.at > now}
    /\ pacer' = "deliver"
    /\ UNCHANGED <<now, deadline, seqNo, wake, calls, connVars, wire, dropped, history>>

\* The earliest deadline has passed: the entry is popped ...
PacerPops ==
    /\ pacer = "look"
    /\ \E e \in heap :
          /\ IsTop(e)
          /\ e.at <= now
          /\ hand' = {e}
          /\ heap' = heap \ {e}
    /\ pacer' = "deliver"
    /\ UNCHANGED <<now, deadline, seqNo, wake, calls, connVars, wire, dropped, history>>

\* ... and answered once the lock is free.
PacerDelivers ==
    /\ pacer = "deliver"
    /\ \E e \in hand : /\ Send(e)
                       /\ played' = [played EXCEPT ![e.ep] = @ + e.dur]
    /\ hand' = {}
    /\ pacer' = "look"
    /\ UNCHANGED <<now, deadline, heap, seqNo, wake, calls, connVars, raced>>

\* Bound: time stops once no deadline is ahead and no host submits any more.
Tick ==
    /\ now < MaxSubmit \/ \E e \in heap : e.at > now
    /\ now' = now + 1
    /\ UNCHANGED <<paceVars, calls, connVars, wire, dropped, history>>

-----------------------------------------------------------------------------
Pacer == PacerIdles \/ PacerSleeps \/ PacerWakes \/ PacerPops \/ PacerDelivers

Call(k) == Compare(k) \/ Raise(k) \/ Load(k) \/ Store(k) \/ Return(k) \/ PaceSchedule(k)

PacingNext ==
    \/ \E c \in Conns :
          \/ Attach(c) \/ HostGone(c) \/ Close(c)
          \/ \E ep \in Eps, npkts \in PacketCounts : Submit(c, ep, npkts)
          \/ \E n \in 1 .. MaxUrbs : Unlink(c, n)
    \/ \E k \in calls : Call(k)
    \/ Pacer
    \/ Tick

PacingSpec == PacingInit /\ [][PacingNext]_pacingVars

-----------------------------------------------------------------------------
(* Properties.                                                             *)

\* `respond` and `urb` stand for the connection, the sequence number and the
\* endpoint; how long the packets play is history.
Entry == [at : Nat, no : Nat, conn : Conns, seq : Nat, ep : Eps, dur : Nat]

Scheduling == [conn : Conns, seq : Nat, ep : Eps, npkts : PacketCounts,
               step : {"compare", "raise", "load", "store", "return", "push"}, val : Nat]

\* Every variable of the pacer has its type; queued entries are numbered
\* apart, and below the next number; a serve thread is in one call at most.
PacerTypeOK ==
    /\ now \in Nat /\ seqNo \in Nat /\ wake \in Nat
    /\ deadline \in [Eps -> Nat] /\ played \in [Eps -> Nat]
    /\ heap \subseteq Entry /\ hand \subseteq Entry /\ calls \subseteq Scheduling
    /\ raced \subseteq Eps
    /\ \A k, l \in calls : k.conn = l.conn => k = l
    /\ \A e \in Queued : e.no < seqNo
    /\ \A e, f \in Queued : e.no = f.no => e = f
    /\ pacer \in {"absent", "look", "idle", "asleep", "deliver"}
    /\ pc \in [Conns -> {"new", "read", "closed"}]
    /\ unlinked \in [Conns -> SUBSET Nat] /\ nextSeq \in [Conns -> Nat] /\ alive \in [Conns -> BOOLEAN]

\* The pacer never oversleeps: it waits without a timeout only when nothing
\* is queued, and its timeout is no later than any deadline in the heap,
\* whatever was pushed or cancelled while it slept.
NeverOversleeps ==
    /\ pacer \in {"absent", "idle"} => heap = {}
    /\ pacer = "asleep" => \A e \in heap : wake <= e.at

AnswersOn(c, ep) == {i \in DOMAIN wire[c] : wire[c][i].ep = ep}

PlaysNoFaster(ep) == played[ep] <= now

\* A stream is never faster than real time, unless two connections' threads
\* have scheduled for its endpoint at the same moment: from the moment it
\* starts from idle at least as much time has passed as what was delivered
\* takes to play.  Cancelled URBs, a late pacer, a change of host and hosts
\* that take turns at the endpoint let no stream catch up; threads that meet
\* in _iso_deadline do (StaysRealTime).
NeverFasterThanRealTime == \A ep \in Eps \ raced : PlaysNoFaster(ep)

\* What set_iso_pacing promises: each completion is scheduled for the time
\* its packets would really take, and every stream stays real time.
StaysRealTime == \A ep \in Eps : PlaysNoFaster(ep)

\* The completions of an endpoint reach a host in the order of its URBs,
\* unless two connections' threads have scheduled for the endpoint at the same
\* moment: a deadline that one stores may take back what the other has added.
IsoInOrder ==
    \A c \in Conns, ep \in Eps \ raced : \A i, j \in AnswersOn(c, ep) :
        i < j => wire[c][i].seq < wire[c][j].seq

\* The pacer implements UrbLife: a URB is held from when it is read until it is
\* answered, once, or dropped, whatever the threads do meanwhile.
Urbs == Conns \X (1 .. MaxUrbs)
AnsweredIds == {u \in Urbs : \E ep \in Eps : \E i \in AnswersOn(u[1], ep) : wire[u[1]][i].seq = u[2]}

StatusOf(u) ==
    IF u[2] >= nextSeq[u[1]] THEN "unborn"
    ELSE IF u \in Ids(Queued \cup calls) THEN "held"
    ELSE IF u \in AnsweredIds THEN "answered"
    ELSE IF u \in dropped THEN "dropped"
    ELSE "forgotten"

Status == [u \in Urbs |-> StatusOf(u)]

Life == INSTANCE UrbLife WITH status <- Status

IsoLifeSpec == Life!Spec

PacerFairness == WF_pacingVars(Pacer) /\ WF_pacingVars(Tick)

FairPacingSpec == PacingSpec /\ PacerFairness

\* Liveness, for a pacer that is scheduled and a clock that goes on: every
\* completion that is scheduled leaves the pacer.
ScheduledIsDelivered ==
    \A n \in 0 .. (MaxUrbs - 1) :
        (\E e \in Queued : e.no = n) ~> ~(\E e \in Queued : e.no = n)
=============================================================================
