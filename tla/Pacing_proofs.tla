--------------------------- MODULE Pacing_proofs ----------------------------
(***************************************************************************)
(* Proofs about the isochronous pacer: the pacer never oversleeps, and, as *)
(* long as no two threads schedule for one endpoint at the same moment, no *)
(* stream is faster than real time and completions come in order; no URB   *)
(* is forgotten or completed twice, whatever the threads do.  For every    *)
(* set of hosts and endpoints, every service interval and any number of    *)
(* URBs.                                                                   *)
(***************************************************************************)
EXTENDS Pacing, TLAPS

\* The pacer's hand holds one entry while it delivers and none otherwise; the
\* entry is due, has left the heap, and is ahead of its endpoint's in it.
HandIsDue ==
    /\ pacer = "deliver" <=> hand # {}
    /\ \A e, f \in hand : e = f
    /\ \A e \in hand : /\ e.at <= now /\ e \notin heap
                       /\ \A f \in heap : e.ep = f.ep /\ e.ep \notin raced => Before(e, f)

\* Threads schedule for an endpoint one at a time, unless they have raced.
CallsApart == \A k, l \in calls : k.ep = l.ep /\ k.ep \notin raced => k = l

\* A queued entry is due no later than its endpoint's deadline, and no earlier
\* than when all that was delivered, and it, have played.
InSchedule ==
    \A e \in Queued : e.ep \notin raced =>
        /\ e.dur >= 1
        /\ e.at <= deadline[e.ep]
        /\ played[e.ep] + e.dur <= e.at

\* Two URBs of an endpoint that are queued together are due in the order of
\* their submission, and apart by the time the later one plays, also when
\* they are of two hosts.
QueuedApart ==
    \A e, f \in Queued : e.ep = f.ep /\ e.ep \notin raced /\ e.no < f.no => e.at + f.dur <= f.at

\* How long a URB that is being scheduled plays.
Dur(k) == PacketTime(k.ep) * k.npkts

\* At time t all that was delivered of k's endpoint, all that is queued and
\* k's packets will have played.
LeavesRoom(k, t) ==
    /\ played[k.ep] + Dur(k) <= t
    /\ \A e \in Queued : e.ep = k.ep => e.at + Dur(k) <= t

\* What a thread in _iso_deadline knows of the endpoint's deadline.
KnowsDeadline(k) ==
    /\ k.step = "compare" => played[k.ep] <= k.val \/ played[k.ep] <= deadline[k.ep]
    /\ k.step = "raise" => deadline[k.ep] < k.val /\ played[k.ep] <= k.val
    /\ k.step = "load" => played[k.ep] <= deadline[k.ep]
    /\ k.step = "store" => k.val = deadline[k.ep] /\ played[k.ep] <= deadline[k.ep]
    /\ k.step = "return" => LeavesRoom(k, deadline[k.ep])
    /\ k.step = "push" => k.val <= deadline[k.ep] /\ LeavesRoom(k, k.val)

CallsInSchedule == \A k \in calls : k.ep \notin raced => KnowsDeadline(k)

Schedule == InSchedule /\ QueuedApart /\ CallsInSchedule /\ NeverFasterThanRealTime

PaceInv == PacerTypeOK /\ HandIsDue /\ CallsApart /\ NeverOversleeps /\ Schedule

-----------------------------------------------------------------------------
(* Time.                                                                   *)

\* The code's service interval is the time between two polls, and positive.
LEMMA IntervalIsTrue ==
    ASSUME NEW ep \in Eps PROVE Interval(ep) = PacketTime(ep) /\ PacketTime(ep) \in Nat \ {0}
<1>1. Bint(ep) \in 1 .. 16
  BY SpeedAssumption DEF Bint
<1>2. 8 * Bint(ep) \in Nat \ {0}
  BY <1>1
<1>3. \A n \in 1 .. 16 : Microframes[n] \in Nat \ {0}
  BY DEF Microframes
<1> QED
  BY <1>1, <1>2, <1>3, PowerAssumption DEF Interval, PacketTime

\* Packets take a positive number of microframes.
LEMMA DurPositive ==
    ASSUME NEW k \in Scheduling
    PROVE  Dur(k) \in Nat \ {0} /\ Interval(k.ep) * k.npkts = Dur(k)
<1>1. k.npkts \in Nat \ {0} /\ k.ep \in Eps
  BY CountAssumption DEF Scheduling
<1>2. \A i, j \in Nat \ {0} : i * j \in Nat \ {0}
  OBVIOUS
<1> QED
  BY <1>1, <1>2, IntervalIsTrue DEF Dur

-----------------------------------------------------------------------------
(* The invariant.                                                          *)

LEMMA PaceInit == PacingInit => PaceInv
BY DEF PacingInit, PaceInv, PacerTypeOK, HandIsDue, CallsApart, Schedule, InSchedule, QueuedApart,
       CallsInSchedule, NeverOversleeps, NeverFasterThanRealTime, PlaysNoFaster, Queued

\* Queued entries after a step are queued entries before it, the clocks go on
\* and nothing is delivered: the schedule still holds.
LEMMA ScheduleKept ==
    ASSUME PaceInv, now' \in Nat, now <= now', Queued' \subseteq Queued,
           UNCHANGED <<deadline, calls, played, raced>>
    PROVE  Schedule' /\ CallsApart'
<1>1. InSchedule' /\ QueuedApart' /\ CallsApart'
  BY DEF PaceInv, Schedule, InSchedule, QueuedApart, CallsApart
<1>2. CallsInSchedule'
  BY DEF PaceInv, Schedule, CallsInSchedule, KnowsDeadline, LeavesRoom, Dur
<1>3. NeverFasterThanRealTime'
  BY DEF PaceInv, Schedule, NeverFasterThanRealTime, PlaysNoFaster, PacerTypeOK
<1> QED
  BY <1>1, <1>2, <1>3 DEF Schedule

\* A URB is read: its endpoint was idle, and a stream starts, or something is
\* queued and ends no earlier than what was delivered, or two threads race.
LEMMA SubmitKeeps ==
    ASSUME PaceInv, NEW c \in Conns, NEW ep \in Eps, NEW npkts \in PacketCounts, Submit(c, ep, npkts)
    PROVE  PaceInv'
<1> DEFINE k == [conn |-> c, seq |-> nextSeq[c], ep |-> ep, npkts |-> npkts,
                 step |-> "compare", val |-> now]
<1>1. /\ calls' = calls \cup {k}
      /\ raced' = IF \E l \in calls : l.ep = ep THEN raced \cup {ep} ELSE raced
      /\ played' = IF IdleEp(ep) THEN [played EXCEPT ![ep] = now] ELSE played
      /\ nextSeq' = [nextSeq EXCEPT ![c] = @ + 1]
      /\ UNCHANGED <<now, deadline, heap, seqNo, pacer, wake, hand, pc, unlinked, alive>>
  BY DEF Submit, paceVars
<1>2. PacerTypeOK /\ \A l \in calls : l.conn # c
  BY DEF Submit, Reading, PaceInv
<1>3. k \in Scheduling /\ k.ep = ep /\ k.step = "compare" /\ k.val = now /\ k.conn = c
  BY <1>2 DEF Scheduling, PacerTypeOK
<1> HIDE DEF k
<1>4. Queued' = Queued /\ raced \subseteq raced' /\ (ep \notin raced' => \A l \in calls : l.ep # ep)
  BY <1>1 DEF Queued
<1>5. PacerTypeOK'
  BY <1>1, <1>2, <1>3, <1>4 DEF PacerTypeOK
<1>6. HandIsDue' /\ NeverOversleeps'
  BY <1>1, <1>4 DEF PaceInv, HandIsDue, NeverOversleeps
<1>7. CallsApart'
  BY <1>1, <1>3, <1>4 DEF PaceInv, CallsApart
<1>8. \A p \in Eps : p # ep => played'[p] = played[p]
  BY <1>1, <1>2 DEF PacerTypeOK
<1>9. (\E x \in Queued \cup calls : x.ep = ep) => played' = played
  BY <1>1 DEF IdleEp
<1>10. (\A e \in Queued : e.ep \in Eps) /\ (\A l \in calls : l.ep \in Eps)
  BY <1>2 DEF PacerTypeOK, Entry, Scheduling, Queued
<1>11. InSchedule'
  <2> SUFFICES ASSUME NEW e \in Queued, e.ep \notin raced
               PROVE  e.dur >= 1 /\ e.at <= deadline[e.ep] /\ played'[e.ep] + e.dur <= e.at
    BY <1>1, <1>4 DEF InSchedule
  <2>1. played'[e.ep] = played[e.ep]
    BY <1>8, <1>9, <1>10
  <2> QED
    BY <2>1 DEF PaceInv, Schedule, InSchedule
<1>12. QueuedApart'
  BY <1>4 DEF PaceInv, Schedule, QueuedApart
<1>13. ASSUME NEW l \in calls', l.ep \notin raced' PROVE KnowsDeadline(l)'
  <2>1. CASE l \in calls
    <3>1. played'[l.ep] = played[l.ep]
      BY <1>8, <1>9, <1>10, <2>1
    <3>2. KnowsDeadline(l)
      BY <1>4, <1>13, <2>1 DEF PaceInv, Schedule, CallsInSchedule
    <3> QED
      BY <1>1, <1>4, <3>1, <3>2 DEF KnowsDeadline, LeavesRoom, Dur
  <2>2. CASE l = k
    <3>1. ep \notin raced /\ ep \notin raced'
      BY <1>3, <1>4, <1>13, <2>2
    <3>2. CASE IdleEp(ep)
      <4>1. played'[ep] = now /\ now \in Nat
        BY <1>1, <1>2, <3>2 DEF PacerTypeOK
      <4> QED
        BY <1>3, <2>2, <4>1 DEF KnowsDeadline
    <3>3. CASE ~IdleEp(ep)
      <4>1. PICK e \in Queued : e.ep = ep
        BY <1>4, <3>1, <3>3 DEF IdleEp
      <4>2. e.dur >= 1 /\ e.at <= deadline[ep] /\ played[ep] + e.dur <= e.at
        BY <3>1, <4>1 DEF PaceInv, Schedule, InSchedule
      <4>3. e.dur \in Nat /\ e.at \in Nat /\ deadline[ep] \in Nat /\ played[ep] \in Nat
        BY <1>2, <4>1 DEF PacerTypeOK, Entry, Queued
      <4>4. played'[ep] <= deadline'[ep]
        BY <1>1, <3>3, <4>2, <4>3
      <4> QED
        BY <1>3, <2>2, <4>4 DEF KnowsDeadline
    <3> QED
      BY <3>2, <3>3
  <2> QED
    BY <1>1, <2>1, <2>2
<1>14. NeverFasterThanRealTime'
  <2> SUFFICES ASSUME NEW p \in Eps \ raced' PROVE played'[p] <= now
    BY <1>1 DEF NeverFasterThanRealTime, PlaysNoFaster
  <2>1. played[p] <= now
    BY <1>4 DEF PaceInv, Schedule, NeverFasterThanRealTime, PlaysNoFaster
  <2> QED
    BY <1>1, <1>2, <2>1 DEF PacerTypeOK
<1> QED
  BY <1>5, <1>6, <1>7, <1>11, <1>12, <1>13, <1>14 DEF PaceInv, Schedule, CallsInSchedule

\* A thread goes on in _iso_deadline: it alone moves the endpoint's deadline,
\* which never falls, and what it then knows holds; or two threads race.
LEMMA GoesKeeps ==
    ASSUME PaceInv, NEW k \in calls, NEW step, NEW val \in Nat, NEW dl \in Nat,
           step \in {"compare", "raise", "load", "store", "return", "push"},
           Goes(k, step, val), deadline' = [deadline EXCEPT ![k.ep] = dl],
           k.ep \notin raced => deadline[k.ep] <= dl /\ KnowsDeadline([k EXCEPT !.step = step, !.val = val])',
           UNCHANGED <<now, heap, seqNo, pacer, wake, hand, connVars, history>>
    PROVE  PaceInv'
<1> DEFINE m == [k EXCEPT !.step = step, !.val = val]
<1>1. PacerTypeOK /\ k \in Scheduling
  BY DEF PaceInv, PacerTypeOK
<1>2. m \in Scheduling /\ m.ep = k.ep /\ m.conn = k.conn
  BY <1>1 DEF Scheduling
<1>3. calls' = (calls \ {k}) \cup {m} /\ Queued' = Queued /\ (k.ep \notin raced => KnowsDeadline(m)')
  BY DEF Goes, Queued
<1> HIDE DEF m
<1>4. \A p \in Eps : p # k.ep => deadline'[p] = deadline[p]
  BY <1>1 DEF PacerTypeOK
<1>5. deadline' \in [Eps -> Nat] /\ k.ep \in Eps /\ deadline'[k.ep] = dl
  BY <1>1 DEF PacerTypeOK, Scheduling
<1>6. UNCHANGED <<now, heap, seqNo, pacer, wake, hand, pc, unlinked, alive, nextSeq, played, raced>>
  BY DEF connVars, history
<1>7. PacerTypeOK'
  BY <1>1, <1>2, <1>3, <1>5, <1>6 DEF PacerTypeOK
<1>8. HandIsDue' /\ NeverOversleeps' /\ QueuedApart' /\ NeverFasterThanRealTime'
  BY <1>3, <1>6 DEF PaceInv, HandIsDue, NeverOversleeps, Schedule, QueuedApart, NeverFasterThanRealTime,
                    PlaysNoFaster
<1>9. CallsApart'
  BY <1>2, <1>3, <1>6 DEF PaceInv, CallsApart
<1>10. InSchedule'
  <2> SUFFICES ASSUME NEW e \in Queued, e.ep \notin raced PROVE e.at <= deadline'[e.ep]
    BY <1>3, <1>6 DEF PaceInv, Schedule, InSchedule
  <2>1. e.at <= deadline[e.ep] /\ e.at \in Nat /\ deadline[e.ep] \in Nat /\ e.ep \in Eps
    BY <1>1 DEF PaceInv, Schedule, InSchedule, PacerTypeOK, Entry, Queued
  <2> QED
    BY <1>4, <1>5, <2>1
<1>11. ASSUME NEW l \in calls', l.ep \notin raced PROVE KnowsDeadline(l)'
  <2>1. CASE l = m
    BY <1>2, <1>3, <1>11, <2>1
  <2>2. CASE l \in calls /\ l # k
    <3>1. l.ep # k.ep /\ l.ep \in Eps
      BY <1>1, <1>11, <2>2 DEF PaceInv, CallsApart, PacerTypeOK, Scheduling
    <3>2. KnowsDeadline(l)
      BY <1>11, <2>2 DEF PaceInv, Schedule, CallsInSchedule
    <3> QED
      BY <1>3, <1>4, <1>6, <3>1, <3>2 DEF KnowsDeadline, LeavesRoom, Dur
  <2> QED
    BY <1>3, <2>1, <2>2
<1> QED
  BY <1>6, <1>7, <1>8, <1>9, <1>10, <1>11 DEF PaceInv, Schedule, CallsInSchedule

LEMMA CallKeeps ==
    ASSUME PaceInv, NEW k \in calls,
           Compare(k) \/ Raise(k) \/ Load(k) \/ Store(k) \/ Return(k)
    PROVE  PaceInv'
<1>1. PacerTypeOK /\ k \in Scheduling
  BY DEF PaceInv, PacerTypeOK
<1>2. k.ep \in Eps /\ k.val \in Nat /\ deadline[k.ep] \in Nat /\ played[k.ep] \in Nat
  BY <1>1 DEF Scheduling, PacerTypeOK
<1>3. deadline = [deadline EXCEPT ![k.ep] = deadline[k.ep]]
  BY <1>1 DEF PacerTypeOK
<1>a. ASSUME deadline' = deadline
       PROVE  deadline' = [deadline EXCEPT ![k.ep] = deadline[k.ep]] /\ deadline[k.ep] <= deadline[k.ep]
  BY <1>2, <1>3, <1>a
<1>4. k.ep \notin raced => KnowsDeadline(k)
  BY DEF PaceInv, Schedule, CallsInSchedule
<1>5. UNCHANGED <<now, heap, seqNo, pacer, wake, hand, connVars, history>>
  BY DEF Compare, Raise, Load, Store, Return, paceVars
<1>6. Queued' = Queued /\ played' = played
  BY <1>5 DEF Queued, history
<1>7. ASSUME NEW step, NEW val
      PROVE  [k EXCEPT !.step = step, !.val = val].step = step /\
             [k EXCEPT !.step = step, !.val = val].val = val /\
             [k EXCEPT !.step = step, !.val = val].ep = k.ep /\
             [k EXCEPT !.step = step, !.val = val].npkts = k.npkts
  BY <1>1 DEF Scheduling
<1>8. CASE Compare(k)
  <2>1. CASE IsBehind(k)
    <3>1. Goes(k, "raise", k.val) /\ deadline' = deadline /\ k.step = "compare"
      BY <1>8, <2>1 DEF Compare, paceVars
    <3>2. k.ep \notin raced => KnowsDeadline([k EXCEPT !.step = "raise", !.val = k.val])'
      BY <1>2, <1>4, <1>6, <1>7, <2>1, <3>1 DEF KnowsDeadline, IsBehind
    <3> QED
      BY <1>2, <1>3, <1>5, <1>a, <3>1, <3>2, GoesKeeps
  <2>2. CASE ~IsBehind(k)
    <3>1. Goes(k, "load", 0) /\ deadline' = deadline /\ k.step = "compare"
      BY <1>8, <2>2 DEF Compare, paceVars
    <3>2. k.ep \notin raced => KnowsDeadline([k EXCEPT !.step = "load", !.val = 0])'
      BY <1>2, <1>4, <1>6, <1>7, <2>2, <3>1 DEF KnowsDeadline, IsBehind
    <3> QED
      BY <1>2, <1>3, <1>5, <1>a, <3>1, <3>2, GoesKeeps
  <2> QED
    BY <2>1, <2>2
<1>9. CASE Raise(k)
  <2>1. Goes(k, "load", 0) /\ deadline' = [deadline EXCEPT ![k.ep] = k.val] /\ k.step = "raise"
    BY <1>9 DEF Raise
  <2>2. deadline'[k.ep] = k.val
    BY <1>1, <1>2, <2>1 DEF PacerTypeOK
  <2>3. k.ep \notin raced => KnowsDeadline([k EXCEPT !.step = "load", !.val = 0])'
    BY <1>2, <1>4, <1>6, <1>7, <2>1, <2>2 DEF KnowsDeadline
  <2>4. k.ep \notin raced => deadline[k.ep] <= k.val
    BY <1>2, <1>4, <2>1 DEF KnowsDeadline
  <2> QED
    BY <1>2, <1>5, <2>1, <2>3, <2>4, GoesKeeps
<1>10. CASE Load(k)
  <2>1. Goes(k, "store", deadline[k.ep]) /\ deadline' = deadline /\ k.step = "load"
    BY <1>10 DEF Load, paceVars
  <2>2. k.ep \notin raced => KnowsDeadline([k EXCEPT !.step = "store", !.val = deadline[k.ep]])'
    BY <1>2, <1>4, <1>6, <1>7, <2>1 DEF KnowsDeadline
  <2> QED
    BY <1>2, <1>3, <1>5, <1>a, <2>1, <2>2, GoesKeeps
<1>11. CASE Store(k)
  <2> DEFINE dl == k.val + Dur(k)
  <2>0. Dur(k) \in Nat \ {0} /\ Interval(k.ep) * k.npkts = Dur(k)
    BY <1>1, DurPositive
  <2>1. Goes(k, "return", 0) /\ deadline' = [deadline EXCEPT ![k.ep] = dl] /\ k.step = "store"
    BY <1>11, <2>0 DEF Store
  <2>2. deadline'[k.ep] = dl /\ dl \in Nat
    BY <1>1, <1>2, <2>0, <2>1 DEF PacerTypeOK
  <2>3. k.ep \notin raced => k.val = deadline[k.ep] /\ played[k.ep] <= deadline[k.ep]
    BY <1>4, <2>1 DEF KnowsDeadline
  <2>4. k.ep \notin raced => LeavesRoom(k, dl)
    <3> SUFFICES ASSUME k.ep \notin raced PROVE LeavesRoom(k, dl)
      OBVIOUS
    <3>1. ASSUME NEW e \in Queued, e.ep = k.ep PROVE e.at + Dur(k) <= dl
      <4>1. e.at <= deadline[k.ep] /\ e.at \in Nat
        BY <1>1, <3>1 DEF PaceInv, Schedule, InSchedule, PacerTypeOK, Entry, Queued
      <4> QED
        BY <1>2, <2>0, <2>3, <4>1
    <3>2. played[k.ep] + Dur(k) <= dl
      BY <1>2, <2>0, <2>3
    <3> QED
      BY <3>1, <3>2 DEF LeavesRoom
  <2>5. k.ep \notin raced => KnowsDeadline([k EXCEPT !.step = "return", !.val = 0])'
    <3>1. Dur([k EXCEPT !.step = "return", !.val = 0])' = Dur(k)
      BY <1>7 DEF Dur
    <3> HIDE DEF dl
    <3>2. k.ep \notin raced => LeavesRoom([k EXCEPT !.step = "return", !.val = 0], deadline[k.ep])'
      BY <1>6, <1>7, <2>2, <2>4, <3>1 DEF LeavesRoom
    <3> QED
      BY <1>7, <3>2 DEF KnowsDeadline
  <2>6. k.ep \notin raced => deadline[k.ep] <= dl
    BY <1>2, <2>0, <2>3
  <2> HIDE DEF dl
  <2> QED
    BY <1>2, <1>5, <2>1, <2>2, <2>5, <2>6, GoesKeeps
<1>12. CASE Return(k)
  <2>1. Goes(k, "push", deadline[k.ep]) /\ deadline' = deadline /\ k.step = "return"
    BY <1>12 DEF Return, paceVars
  <2>2. k.ep \notin raced => KnowsDeadline([k EXCEPT !.step = "push", !.val = deadline[k.ep]])'
    <3>1. Dur([k EXCEPT !.step = "push", !.val = deadline[k.ep]])' = Dur(k)
      BY <1>7 DEF Dur
    <3> QED
      BY <1>2, <1>4, <1>6, <1>7, <2>1, <3>1 DEF KnowsDeadline, LeavesRoom
  <2> QED
    BY <1>2, <1>3, <1>5, <1>a, <2>1, <2>2, GoesKeeps
<1> QED
  BY <1>8, <1>9, <1>10, <1>11, <1>12

\* The completion is queued: there is room for it behind the endpoint's others.
LEMMA PushKeeps ==
    ASSUME PaceInv, NEW k \in calls, PaceSchedule(k)
    PROVE  PaceInv'
<1> DEFINE entry == [at |-> k.val, no |-> seqNo, conn |-> k.conn, seq |-> k.seq, ep |-> k.ep,
                     dur |-> Dur(k)]
<1>1. /\ k.step = "push"
      /\ heap' = heap \cup {entry} /\ seqNo' = seqNo + 1 /\ calls' = calls \ {k}
      /\ UNCHANGED <<now, deadline, hand, pc, unlinked, alive, nextSeq, played, raced>>
  BY DEF PaceSchedule, Dur, connVars, history
<1>2. /\ pacer \in {"absent", "idle", "asleep"} => pacer' = "look" /\ wake' = 0
      /\ pacer \notin {"absent", "idle", "asleep"} => pacer' = pacer /\ wake' = wake
  BY DEF PaceSchedule, Notify
<1>3. PacerTypeOK /\ k \in Scheduling
  BY DEF PaceInv, PacerTypeOK
<1>4. Dur(k) \in Nat \ {0}
  BY <1>3, DurPositive
<1>5. /\ entry \in Entry /\ Queued' = Queued \cup {entry}
      /\ entry.ep = k.ep /\ entry.at = k.val /\ entry.dur = Dur(k) /\ entry.no = seqNo
  BY <1>1, <1>3, <1>4 DEF Entry, Scheduling, PacerTypeOK, Queued
<1> HIDE DEF entry
<1>6. \A e \in Queued : e \in Entry /\ e.no < seqNo
  BY <1>3 DEF PacerTypeOK, Queued
<1>7. k.ep \notin raced => k.val <= deadline[k.ep] /\ LeavesRoom(k, k.val)
  BY <1>1 DEF PaceInv, Schedule, CallsInSchedule, KnowsDeadline
<1>8. PacerTypeOK'
  <2>1. seqNo' \in Nat /\ wake' \in Nat /\ pacer' \in {"absent", "look", "idle", "asleep", "deliver"}
    BY <1>1, <1>2, <1>3 DEF PacerTypeOK
  <2>2. heap' \subseteq Entry /\ hand' \subseteq Entry /\ calls' \subseteq Scheduling
    BY <1>1, <1>3, <1>5 DEF PacerTypeOK
  <2>3. \A e \in Queued' : e.no < seqNo'
    BY <1>1, <1>3, <1>5, <1>6 DEF PacerTypeOK, Entry
  <2>4. \A e, f \in Queued' : e.no = f.no => e = f
    BY <1>3, <1>5, <1>6 DEF PacerTypeOK, Entry
  <2> QED
    BY <1>1, <1>3, <2>1, <2>2, <2>3, <2>4 DEF PacerTypeOK
<1>9. HandIsDue'
  <2>1. ASSUME NEW e \in hand PROVE e # entry /\ (e.ep = k.ep /\ e.ep \notin raced => Before(e, entry))
    <3>1. e \in Queued /\ e \in Entry /\ e.no < seqNo
      BY <1>6 DEF Queued
    <3>2. e.ep = k.ep /\ e.ep \notin raced => e.at < k.val
      BY <1>3, <1>4, <1>7, <3>1 DEF LeavesRoom, Entry, Scheduling
    <3> QED
      BY <1>3, <1>5, <3>1, <3>2 DEF Before, PacerTypeOK
  <2> QED
    BY <1>1, <1>2, <1>5, <2>1 DEF PaceInv, HandIsDue
<1>10. CallsApart'
  BY <1>1 DEF PaceInv, CallsApart
<1>11. NeverOversleeps'
  BY <1>1, <1>2, <1>3 DEF PacerTypeOK, NeverOversleeps
<1>12. InSchedule'
  <2> SUFFICES ASSUME NEW e \in Queued', e.ep \notin raced
               PROVE  e.dur >= 1 /\ e.at <= deadline[e.ep] /\ played[e.ep] + e.dur <= e.at
    BY <1>1 DEF InSchedule
  <2>1. CASE e = entry
    BY <1>4, <1>5, <1>7, <2>1 DEF LeavesRoom
  <2>2. CASE e \in Queued
    BY <2>2 DEF PaceInv, Schedule, InSchedule
  <2> QED
    BY <1>5, <2>1, <2>2
<1>13. QueuedApart'
  <2> SUFFICES ASSUME NEW e \in Queued', NEW f \in Queued', e.ep = f.ep, e.ep \notin raced, e.no < f.no
               PROVE  e.at + f.dur <= f.at
    BY <1>1 DEF QueuedApart
  <2>1. e \in Queued
    <3>1. f.no <= seqNo /\ f.no \in Nat
      BY <1>3, <1>5, <1>6 DEF PacerTypeOK, Entry
    <3> QED
      BY <1>3, <1>5, <3>1 DEF PacerTypeOK
  <2>2. CASE f \in Queued
    BY <2>1, <2>2 DEF PaceInv, Schedule, QueuedApart
  <2>3. CASE f = entry
    BY <1>5, <1>7, <2>1, <2>3 DEF LeavesRoom
  <2> QED
    BY <1>5, <2>2, <2>3
<1>14. ASSUME NEW l \in calls', l.ep \notin raced PROVE KnowsDeadline(l)'
  <2>1. l \in calls /\ l.ep # k.ep
    BY <1>1, <1>14 DEF PaceInv, CallsApart
  <2>2. KnowsDeadline(l)
    BY <1>14, <2>1 DEF PaceInv, Schedule, CallsInSchedule
  <2>3. LeavesRoom(l, deadline[l.ep])' <=> LeavesRoom(l, deadline[l.ep])
    BY <1>1, <1>5, <2>1 DEF LeavesRoom, Dur
  <2>4. LeavesRoom(l, l.val)' <=> LeavesRoom(l, l.val)
    BY <1>1, <1>5, <2>1 DEF LeavesRoom, Dur
  <2> QED
    BY <1>1, <2>2, <2>3, <2>4 DEF KnowsDeadline
<1>15. NeverFasterThanRealTime'
  BY <1>1 DEF PaceInv, Schedule, NeverFasterThanRealTime, PlaysNoFaster
<1> QED
  BY <1>1, <1>8, <1>9, <1>10, <1>11, <1>12, <1>13, <1>14, <1>15 DEF PaceInv, Schedule, CallsInSchedule

\* The entry in the hand is the oldest of its endpoint.
LEMMA HandIsOldest ==
    ASSUME PaceInv, NEW e \in hand, NEW f \in heap, e.ep = f.ep, e.ep \notin raced
    PROVE  e.no < f.no
<1>1. Before(e, f) /\ e \in Entry /\ f \in Entry /\ (e.no = f.no => e = f) /\ e # f
  BY DEF PaceInv, HandIsDue, PacerTypeOK, Queued
<1>2. f.no < e.no => f.at + e.dur <= e.at
  BY DEF PaceInv, Schedule, QueuedApart, Queued
<1>3. e.dur >= 1
  BY DEF PaceInv, Schedule, InSchedule, Queued
<1> QED
  BY <1>1, <1>2, <1>3 DEF Before, Entry

\* A completion is delivered: what is queued and scheduled of its endpoint
\* leaves room for it.
LEMMA DeliverKeeps == ASSUME PaceInv, PacerDelivers PROVE PaceInv'
<1>1. PICK x \in hand : hand = {x} /\ played' = [played EXCEPT ![x.ep] = @ + x.dur]
  BY DEF PacerDelivers, PaceInv, HandIsDue
<1>2. /\ pacer = "deliver" /\ pacer' = "look" /\ hand' = {}
      /\ UNCHANGED <<now, deadline, heap, seqNo, wake, calls, pc, unlinked, alive, nextSeq, raced>>
  BY DEF PacerDelivers, connVars
<1>3. PacerTypeOK /\ x \in Entry /\ x.at <= now /\ x \in Queued /\ x \notin heap
  BY DEF PaceInv, PacerTypeOK, HandIsDue, Queued
<1>4. played' \in [Eps -> Nat] /\ Queued' = heap /\ heap \subseteq Queued
  BY <1>1, <1>2, <1>3 DEF PacerTypeOK, Entry, Queued
<1>5. PacerTypeOK' /\ HandIsDue' /\ NeverOversleeps' /\ CallsApart'
  BY <1>2, <1>3, <1>4 DEF PaceInv, PacerTypeOK, HandIsDue, NeverOversleeps, CallsApart, Queued
<1>6. QueuedApart'
  BY <1>2, <1>4 DEF PaceInv, Schedule, QueuedApart
<1>7. \A p \in Eps : p # x.ep => played'[p] = played[p]
  BY <1>1, <1>3 DEF PacerTypeOK
<1>8. x.ep \in Eps /\ played'[x.ep] = played[x.ep] + x.dur
  BY <1>1, <1>3 DEF PacerTypeOK, Entry
<1>9. x.ep \notin raced => /\ x.dur >= 1 /\ x.at <= deadline[x.ep]
                           /\ played[x.ep] + x.dur <= x.at
  BY <1>3 DEF PaceInv, Schedule, InSchedule
<1>10. /\ x.at \in Nat /\ x.dur \in Nat /\ now \in Nat
       /\ \A p \in Eps : played[p] \in Nat /\ deadline[p] \in Nat
  BY <1>3 DEF PacerTypeOK, Entry
<1>11. InSchedule'
  <2> SUFFICES ASSUME NEW f \in heap, f.ep \notin raced
               PROVE  f.dur >= 1 /\ f.at <= deadline[f.ep] /\ played'[f.ep] + f.dur <= f.at
    BY <1>2, <1>4 DEF InSchedule
  <2>1. f \in Entry /\ f.dur >= 1 /\ f.at <= deadline[f.ep] /\ played[f.ep] + f.dur <= f.at
    BY <1>3, <1>4 DEF PaceInv, Schedule, InSchedule, PacerTypeOK
  <2>2. CASE f.ep = x.ep
    <3>1. x.at + f.dur <= f.at
      BY <1>3, <1>4, <2>2, HandIsOldest DEF PaceInv, Schedule, QueuedApart
    <3> QED
      BY <1>8, <1>9, <1>10, <2>1, <2>2, <3>1 DEF Entry
  <2>3. CASE f.ep # x.ep
    BY <1>7, <2>1, <2>3 DEF Entry
  <2> QED
    BY <2>2, <2>3
<1>12. ASSUME NEW k \in calls, k.ep \notin raced PROVE KnowsDeadline(k)'
  <2>1. KnowsDeadline(k) /\ k \in Scheduling /\ Dur(k) \in Nat /\ Dur(k)' = Dur(k)
    BY <1>3, <1>12, DurPositive DEF PaceInv, Schedule, CallsInSchedule, PacerTypeOK, Dur
  <2>2. ASSUME NEW t, LeavesRoom(k, t), t \in Nat PROVE LeavesRoom(k, t)'
    <3>1. CASE k.ep = x.ep
      <4>1. x.at + Dur(k) <= t
        BY <1>3, <2>2, <3>1 DEF LeavesRoom
      <4>2. played'[k.ep] + Dur(k) <= t
        BY <1>8, <1>9, <1>10, <1>12, <2>1, <2>2, <3>1, <4>1
      <4> QED
        BY <1>4, <2>1, <2>2, <4>2 DEF LeavesRoom
    <3>2. CASE k.ep # x.ep
      BY <1>4, <1>7, <2>1, <2>2, <3>2 DEF LeavesRoom, Scheduling
    <3> QED
      BY <3>1, <3>2
  <2>3. k.ep = x.ep => played'[k.ep] <= deadline[k.ep]
    BY <1>8, <1>9, <1>10, <1>12
  <2>4. k.ep # x.ep => played'[k.ep] = played[k.ep]
    BY <1>7, <2>1 DEF Scheduling
  <2>5. played'[k.ep] \in Nat /\ deadline[k.ep] \in Nat /\ k.val \in Nat /\ k.ep \in Eps
    BY <1>4, <1>10, <2>1 DEF Scheduling
  <2>6. k.step = "return" => LeavesRoom(k, deadline[k.ep])'
    BY <1>2, <2>1, <2>2, <2>5 DEF KnowsDeadline
  <2>7. k.step = "push" => LeavesRoom(k, k.val)'
    BY <2>1, <2>2, <2>5 DEF KnowsDeadline
  <2> QED
    BY <1>2, <2>1, <2>3, <2>4, <2>5, <2>6, <2>7 DEF KnowsDeadline
<1>13. NeverFasterThanRealTime'
  <2> SUFFICES ASSUME NEW p \in Eps \ raced PROVE played'[p] <= now
    BY <1>2 DEF NeverFasterThanRealTime, PlaysNoFaster
  <2>1. played[p] <= now
    BY DEF PaceInv, Schedule, NeverFasterThanRealTime, PlaysNoFaster
  <2> QED
    BY <1>3, <1>7, <1>8, <1>9, <1>10, <2>1
<1> QED
  BY <1>2, <1>5, <1>6, <1>11, <1>12, <1>13 DEF PaceInv, Schedule, CallsInSchedule

\* Every step keeps the invariant.
LEMMA PaceStep == PaceInv /\ [PacingNext]_pacingVars => PaceInv'
<1> SUFFICES ASSUME PaceInv, [PacingNext]_pacingVars PROVE PaceInv'
  OBVIOUS
<1>t. PacerTypeOK
  BY DEF PaceInv
<1>1. ASSUME UNCHANGED <<now, paceVars, calls, history, unlinked, nextSeq>>,
             pc' \in [Conns -> {"new", "read", "closed"}], alive' \in [Conns -> BOOLEAN]
      PROVE  PaceInv'
  <2>1. PacerTypeOK' /\ HandIsDue' /\ NeverOversleeps' /\ Queued' = Queued
    BY <1>1 DEF PaceInv, PacerTypeOK, HandIsDue, NeverOversleeps, paceVars, history, Queued
  <2>2. Schedule' /\ CallsApart'
    BY <1>1, <1>t, <2>1, ScheduleKept DEF paceVars, history, PacerTypeOK
  <2> QED
    BY <2>1, <2>2 DEF PaceInv
<1>2. ASSUME NEW c \in Conns, Attach(c) \/ HostGone(c) \/ Close(c) PROVE PaceInv'
  <2>1. pc' \in [Conns -> {"new", "read", "closed"}] /\ alive' \in [Conns -> BOOLEAN]
    BY <1>2, <1>t DEF Attach, HostGone, Close, PacerTypeOK
  <2> QED
    BY <1>1, <1>2, <2>1 DEF Attach, HostGone, Close
<1>3. ASSUME NEW c \in Conns, NEW ep \in Eps, NEW npkts \in PacketCounts, Submit(c, ep, npkts)
      PROVE  PaceInv'
  BY <1>3, SubmitKeeps
<1>c. ASSUME NEW k \in calls, Call(k) PROVE PaceInv'
  BY <1>c, CallKeeps, PushKeeps DEF Call
<1>4. ASSUME NEW c \in Conns, NEW n \in 1 .. MaxUrbs, Unlink(c, n) PROVE PaceInv'
  <2>1. /\ heap' \subseteq heap /\ hand' = hand
        /\ UNCHANGED <<now, deadline, seqNo, pacer, wake, calls, pc, alive, nextSeq, played, raced>>
        /\ unlinked' = [unlinked EXCEPT ![c] = @ \cup {n}]
    BY <1>4 DEF Unlink, PaceCancel, history
  <2>2. PacerTypeOK' /\ Queued' \subseteq Queued
    BY <1>t, <2>1 DEF PacerTypeOK, Queued
  <2>3. HandIsDue' /\ NeverOversleeps'
    BY <2>1 DEF PaceInv, HandIsDue, NeverOversleeps
  <2>4. Schedule' /\ CallsApart'
    BY <1>t, <2>1, <2>2, ScheduleKept DEF PacerTypeOK
  <2> QED
    BY <2>2, <2>3, <2>4 DEF PaceInv
<1>5. ASSUME PacerIdles \/ PacerSleeps \/ PacerWakes PROVE PaceInv'
  <2>1. UNCHANGED <<now, deadline, heap, seqNo, hand, calls, connVars, wire, dropped, history>>
    BY <1>5 DEF PacerIdles, PacerSleeps, PacerWakes
  <2>2. /\ pacer # "deliver" /\ pacer' \in {"look", "idle", "asleep"} /\ wake' \in Nat
        /\ pacer' = "idle" => heap = {}
        /\ pacer' = "asleep" => \A e \in heap : wake' <= e.at
    <3>1. CASE PacerSleeps
      <4>1. PICK e \in heap : IsTop(e) /\ wake' = e.at
        BY <3>1 DEF PacerSleeps
      <4>2. \A f \in heap : e.at <= f.at /\ e.at \in Nat
        BY <1>t, <4>1 DEF IsTop, Before, PacerTypeOK, Entry
      <4> QED
        BY <3>1, <4>1, <4>2 DEF PacerSleeps
    <3>2. CASE PacerIdles \/ PacerWakes
      BY <1>t, <3>2 DEF PacerIdles, PacerWakes, PacerTypeOK
    <3> QED
      BY <1>5, <3>1, <3>2
  <2>3. PacerTypeOK' /\ Queued' = Queued
    BY <1>t, <2>1, <2>2 DEF PacerTypeOK, connVars, history, Queued
  <2>4. HandIsDue' /\ NeverOversleeps'
    BY <2>1, <2>2 DEF PaceInv, HandIsDue, NeverOversleeps, history
  <2>5. Schedule' /\ CallsApart'
    BY <1>t, <2>1, <2>3, ScheduleKept DEF PacerTypeOK, history
  <2> QED
    BY <2>3, <2>4, <2>5 DEF PaceInv
<1>6. ASSUME PacerPops PROVE PaceInv'
  <2>1. PICK e \in heap : IsTop(e) /\ e.at <= now /\ hand' = {e} /\ heap' = heap \ {e}
    BY <1>6 DEF PacerPops
  <2>2. /\ pacer = "look" /\ pacer' = "deliver"
        /\ UNCHANGED <<now, deadline, seqNo, wake, calls, connVars, history>>
    BY <1>6 DEF PacerPops
  <2>3. PacerTypeOK' /\ Queued' \subseteq Queued
    BY <1>t, <2>1, <2>2 DEF PacerTypeOK, connVars, history, Queued
  <2>4. HandIsDue' /\ NeverOversleeps'
    BY <2>1, <2>2 DEF HandIsDue, NeverOversleeps, IsTop, history
  <2>5. Schedule' /\ CallsApart'
    BY <1>t, <2>2, <2>3, ScheduleKept DEF PacerTypeOK, history
  <2> QED
    BY <2>3, <2>4, <2>5 DEF PaceInv
<1>7. ASSUME PacerDelivers PROVE PaceInv'
  BY <1>7, DeliverKeeps
<1>8. ASSUME Tick PROVE PaceInv'
  <2>1. now' = now + 1 /\ UNCHANGED <<paceVars, calls, connVars, history>>
    BY <1>8 DEF Tick
  <2>2. PacerTypeOK' /\ HandIsDue' /\ NeverOversleeps' /\ Queued' = Queued
    BY <1>t, <2>1 DEF PaceInv, PacerTypeOK, HandIsDue, NeverOversleeps, paceVars, connVars, history,
                      Entry, Queued
  <2>3. Schedule' /\ CallsApart'
    BY <1>t, <2>1, <2>2, ScheduleKept DEF PacerTypeOK, paceVars, history
  <2> QED
    BY <2>2, <2>3 DEF PaceInv
<1>9. CASE UNCHANGED pacingVars
  BY <1>1, <1>9, <1>t DEF pacingVars, connVars, PacerTypeOK
<1> QED
  BY <1>2, <1>3, <1>c, <1>4, <1>5, <1>6, <1>7, <1>8, <1>9 DEF PacingNext, Pacer

LEMMA PaceInvariant == PacingSpec => []PaceInv
<1>1. PacingInit => PaceInv
  BY PaceInit
<1>2. PaceInv /\ [PacingNext]_pacingVars => PaceInv'
  BY PaceStep
<1> QED
  BY <1>1, <1>2, PTL DEF PacingSpec

\* Whatever is pushed, popped and cancelled while the pacer waits, its wait
\* ends no later than the earliest deadline (device.py, _pace_run).
THEOREM NoOversleeping == PacingSpec => []NeverOversleeps
BY PaceInvariant, PTL DEF PaceInv

\* Completions of an endpoint that are queued together are due in the order of
\* their submission, apart by the time they play, unless two threads have
\* scheduled for the endpoint at the same moment (device.py, _iso_deadline).
THEOREM DueApart == PacingSpec => []QueuedApart
BY PaceInvariant, PTL DEF PaceInv, Schedule

\* No stream is delivered faster than it plays, for any hosts, intervals and
\* packets, unless two threads have scheduled for its endpoint at the same
\* moment (device.py, _iso_deadline and _pace_run).
THEOREM RealTime == PacingSpec => []NeverFasterThanRealTime
BY PaceInvariant, PTL DEF PaceInv, Schedule

-----------------------------------------------------------------------------
(* The order of completions.                                               *)

Answer == [seq : Nat, ep : Eps]

\* What is on a wire precedes, in its host's numbering, what its serve thread
\* is scheduling and, for endpoints whose threads have not raced, what is queued
\* for the same endpoint; what is queued is numbered in the order in which its
\* host submitted it.
OrderInv ==
    /\ wire \in [Conns -> Seq(Answer)]
    /\ \A x \in Queued \cup calls : x.seq < nextSeq[x.conn]
    /\ \A e \in Queued, k \in calls : e.conn = k.conn => e.seq < k.seq
    /\ \A e, f \in Queued : e.conn = f.conn /\ e.no < f.no => e.seq < f.seq
    /\ \A c \in Conns : \A i \in DOMAIN wire[c] :
          /\ wire[c][i].seq < nextSeq[c]
          /\ \A k \in calls : k.conn = c => wire[c][i].seq < k.seq
          /\ \A e \in Queued : e.conn = c /\ e.ep = wire[c][i].ep /\ e.ep \notin raced
                               => wire[c][i].seq < e.seq
    /\ IsoInOrder

LEMMA OrderInit == PacingInit => OrderInv
<1> SUFFICES ASSUME PacingInit PROVE OrderInv
  OBVIOUS
<1>1. <<>> \in Seq(Answer) /\ wire \in [Conns -> Seq(Answer)]
  BY DEF PacingInit
<1>2. \A c \in Conns : DOMAIN wire[c] = {}
  BY DEF PacingInit
<1> QED
  BY <1>1, <1>2 DEF PacingInit, OrderInv, Queued, IsoInOrder, AnswersOn

\* The URB x has been read and not yet queued.
Calling(x, S) == \E k \in S : k.conn = x.conn /\ k.seq = x.seq

\* Steps that neither read a URB, nor queue nor send one, keep the order.
LEMMA OrderKept ==
    ASSUME OrderInv, Queued' \subseteq Queued, \A k \in calls' : Calling(k, calls),
           raced' = raced, UNCHANGED <<wire, nextSeq>>
    PROVE  OrderInv'
<1>1. \A x \in Queued' \cup calls' : x.seq < nextSeq[x.conn]
  BY DEF OrderInv, Calling
<1>2. \A e \in Queued', k \in calls' : e.conn = k.conn => e.seq < k.seq
  BY DEF OrderInv, Calling
<1>3. \A c \in Conns : \A i \in DOMAIN wire[c] : \A k \in calls' : k.conn = c => wire[c][i].seq < k.seq
  BY DEF OrderInv, Calling
<1> QED
  BY <1>1, <1>2, <1>3 DEF OrderInv, IsoInOrder, AnswersOn

\* A URB is read: its number is above all of its connection's.
LEMMA SubmitInOrder ==
    ASSUME PaceInv, OrderInv, NEW c \in Conns, NEW ep \in Eps, NEW npkts \in PacketCounts,
           Submit(c, ep, npkts)
    PROVE  OrderInv'
<1>t. PacerTypeOK
  BY DEF PaceInv
<1>1. PICK x : x.conn = c /\ x.seq = nextSeq[c] /\ calls' = calls \cup {x}
  BY DEF Submit
<1>2. /\ wire' = wire /\ nextSeq' = [nextSeq EXCEPT ![c] = @ + 1] /\ Queued' = Queued
      /\ raced \subseteq raced' /\ \A k \in calls : k.conn # c
  BY DEF Submit, Reading, paceVars, Queued
<1>3. \A d \in Conns : nextSeq[d] \in Nat /\ nextSeq'[d] \in Nat /\ nextSeq[d] <= nextSeq'[d]
  BY <1>t, <1>2 DEF PacerTypeOK
<1>4. \A y \in Queued \cup calls : y.conn \in Conns /\ y.seq \in Nat
  BY <1>t DEF PacerTypeOK, Queued, Entry, Scheduling
<1>5. \A y \in Queued' \cup calls' : y.seq < nextSeq'[y.conn]
  <2>1. ASSUME NEW y \in Queued \cup calls PROVE y.seq < nextSeq'[y.conn]
    BY <1>3, <1>4 DEF OrderInv
  <2>2. x.seq < nextSeq'[x.conn]
    BY <1>t, <1>1, <1>2 DEF PacerTypeOK
  <2> QED
    BY <1>1, <1>2, <2>1, <2>2
<1>6. \A e \in Queued', k \in calls' : e.conn = k.conn => e.seq < k.seq
  BY <1>1, <1>2 DEF OrderInv
<1>7. \A d \in Conns : \A i \in DOMAIN wire[d] : wire[d][i].seq \in Nat
  <2>1. ASSUME NEW d \in Conns, NEW i \in DOMAIN wire[d] PROVE wire[d][i] \in Answer
    BY DEF OrderInv
  <2> QED
    BY <2>1 DEF Answer
<1>8. ASSUME NEW d \in Conns, NEW i \in DOMAIN wire[d]
      PROVE  /\ wire[d][i].seq < nextSeq'[d]
             /\ \A k \in calls' : k.conn = d => wire[d][i].seq < k.seq
  <2>1. wire[d][i].seq < nextSeq[d]
    BY DEF OrderInv
  <2>2. wire[d][i].seq < nextSeq'[d]
    BY <1>3, <1>7, <2>1
  <2>3. x.conn = d => wire[d][i].seq < x.seq
    BY <1>1, <2>1
  <2> QED
    BY <1>1, <2>2, <2>3 DEF OrderInv
<1>9. IsoInOrder'
  BY <1>2 DEF OrderInv, IsoInOrder, AnswersOn
<1>10. /\ \A e, f \in Queued : e.conn = f.conn /\ e.no < f.no => e.seq < f.seq
       /\ \A d \in Conns : \A i \in DOMAIN wire[d] : \A e \in Queued :
             e.conn = d /\ e.ep = wire[d][i].ep /\ e.ep \notin raced' => wire[d][i].seq < e.seq
  BY <1>2 DEF OrderInv
<1> QED
  BY <1>2, <1>5, <1>6, <1>8, <1>9, <1>10 DEF OrderInv

\* A URB is queued: those of its connection that are, were submitted before it.
LEMMA PushInOrder ==
    ASSUME PaceInv, OrderInv, NEW k \in calls, PaceSchedule(k)
    PROVE  OrderInv'
<1>t. PacerTypeOK
  BY DEF PaceInv
<1>1. PICK x : /\ x.conn = k.conn /\ x.seq = k.seq /\ x.no = seqNo /\ x.ep = k.ep
               /\ Queued' = Queued \cup {x}
  BY DEF PaceSchedule, Queued
<1>2. calls' = calls \ {k} /\ wire' = wire /\ nextSeq' = nextSeq /\ raced' = raced
  BY DEF PaceSchedule, connVars, history
<1>3. \A e \in Queued : e \in Entry /\ e.no < seqNo
  BY <1>t DEF PacerTypeOK, Queued
<1>4. \A l \in calls' : l.conn # k.conn
  BY <1>t, <1>2 DEF PacerTypeOK
<1>5. \A y \in Queued' \cup calls' : y.seq < nextSeq'[y.conn]
  BY <1>1, <1>2 DEF OrderInv
<1>6. \A e \in Queued', l \in calls' : e.conn = l.conn => e.seq < l.seq
  BY <1>1, <1>2, <1>4 DEF OrderInv
<1>7. \A e, f \in Queued' : e.conn = f.conn /\ e.no < f.no => e.seq < f.seq
  <2>1. ASSUME NEW f \in Queued PROVE ~(x.no < f.no)
    BY <1>t, <1>1, <1>3 DEF PacerTypeOK, Entry
  <2>2. ASSUME NEW e \in Queued, e.conn = x.conn PROVE e.seq < x.seq
    BY <1>1, <2>2 DEF OrderInv
  <2>3. ~(x.no < x.no)
    BY <1>t, <1>1 DEF PacerTypeOK
  <2> QED
    BY <1>1, <2>1, <2>2, <2>3 DEF OrderInv
<1>8. ASSUME NEW d \in Conns, NEW i \in DOMAIN wire[d]
      PROVE  /\ wire[d][i].seq < nextSeq[d]
             /\ \A l \in calls' : l.conn = d => wire[d][i].seq < l.seq
             /\ \A e \in Queued' : e.conn = d /\ e.ep = wire[d][i].ep /\ e.ep \notin raced
                                   => wire[d][i].seq < e.seq
  <2>1. x.conn = d => wire[d][i].seq < x.seq
    BY <1>1 DEF OrderInv
  <2> QED
    BY <1>1, <1>2, <2>1 DEF OrderInv
<1>9. IsoInOrder'
  BY <1>2 DEF OrderInv, IsoInOrder, AnswersOn
<1> QED
  BY <1>2, <1>5, <1>6, <1>7, <1>8, <1>9 DEF OrderInv

\* A completion is sent: what is queued of its endpoint was submitted after it.
LEMMA DeliverInOrder == ASSUME PaceInv, OrderInv, PacerDelivers PROVE OrderInv'
<1>t. PacerTypeOK
  BY DEF PaceInv
<1>1. PICK x \in hand : hand = {x} /\ Send(x)
  BY DEF PacerDelivers, PaceInv, HandIsDue
<1>2. /\ heap' = heap /\ hand' = {} /\ nextSeq' = nextSeq /\ Queued' \subseteq Queued
      /\ calls' = calls /\ raced' = raced
  BY DEF PacerDelivers, connVars, Queued
<1>3. \A k \in calls : Calling(k, calls)
  BY DEF Calling
<1>4. CASE ~alive[x.conn]
  BY <1>1, <1>2, <1>3, <1>4, OrderKept DEF Send
<1>5. CASE alive[x.conn]
  <2> DEFINE c == x.conn
             r == [seq |-> x.seq, ep |-> x.ep]
  <2>1. x \in Entry /\ x \in Queued /\ c \in Conns /\ r \in Answer
    BY <1>t DEF PacerTypeOK, Queued, Entry, Answer
  <2>2. wire' = [wire EXCEPT ![c] = Append(wire[c], r)]
    BY <1>1, <1>5 DEF Send, Reply
  <2>3. wire[c] \in Seq(Answer)
    BY <2>1 DEF OrderInv
  <2>4. wire' \in [Conns -> Seq(Answer)]
    BY <2>1, <2>2, <2>3 DEF OrderInv
  <2>5. ASSUME NEW d \in Conns, NEW i \in DOMAIN wire'[d]
        PROVE  \/ i \in DOMAIN wire[d] /\ wire'[d][i] = wire[d][i]
               \/ d = c /\ i = Len(wire[c]) + 1 /\ wire'[d][i] = r
    <3>1. CASE d = c
      BY <2>1, <2>2, <2>3, <3>1 DEF OrderInv
    <3>2. CASE d # c
      BY <2>2, <3>2 DEF OrderInv
    <3> QED
      BY <3>1, <3>2
  <2>6. ASSUME NEW e \in Queued', e.conn = c, e.ep = x.ep, e.ep \notin raced PROVE x.seq < e.seq
    <3>1. e \in heap /\ e \in Queued
      BY <1>2 DEF Queued
    <3>2. x.no < e.no
      BY <2>6, <3>1, HandIsOldest
    <3> QED
      BY <2>1, <2>6, <3>1, <3>2 DEF OrderInv
  <2>7. x.seq < nextSeq[c] /\ \A k \in calls : k.conn = c => x.seq < k.seq
    BY <2>1 DEF OrderInv
  <2>8. \A d \in Conns : \A i \in DOMAIN wire'[d] :
           /\ wire'[d][i].seq < nextSeq[d]
           /\ \A k \in calls : k.conn = d => wire'[d][i].seq < k.seq
           /\ \A e \in Queued' : e.conn = d /\ e.ep = wire'[d][i].ep /\ e.ep \notin raced
                                 => wire'[d][i].seq < e.seq
    BY <1>2, <2>5, <2>6, <2>7 DEF OrderInv
  <2>9. IsoInOrder'
    <3> SUFFICES ASSUME NEW d \in Conns, NEW ep \in Eps \ raced, NEW i \in AnswersOn(d, ep)',
                        NEW j \in AnswersOn(d, ep)', i < j
                 PROVE  wire'[d][i].seq < wire'[d][j].seq
      BY <1>2 DEF IsoInOrder
    <3>1. i \in DOMAIN wire'[d] /\ j \in DOMAIN wire'[d]
      BY DEF AnswersOn
    <3>2. wire'[d][i].ep = ep /\ wire'[d][j].ep = ep
      BY DEF AnswersOn
    <3>3. wire[d] \in Seq(Answer)
      BY DEF OrderInv
    <3>4. CASE j \in DOMAIN wire[d] /\ wire'[d][j] = wire[d][j]
      <4>1. i \in DOMAIN wire[d] /\ wire'[d][i] = wire[d][i]
        BY <2>5, <3>1, <3>3, <3>4
      <4> QED
        BY <3>2, <3>4, <4>1 DEF OrderInv, IsoInOrder, AnswersOn
    <3>5. CASE d = c /\ j = Len(wire[c]) + 1 /\ wire'[d][j] = r
      <4>1. i \in DOMAIN wire[d] /\ wire'[d][i] = wire[d][i]
        BY <2>5, <3>1, <3>3, <3>5
      <4>2. wire[d][i].ep = x.ep /\ x.ep \notin raced
        BY <3>2, <3>5, <4>1
      <4> QED
        BY <2>1, <3>5, <4>1, <4>2 DEF OrderInv
    <3> QED
      BY <2>5, <3>1, <3>4, <3>5
  <2>10. /\ \A y \in Queued' \cup calls' : y.seq < nextSeq'[y.conn]
         /\ \A e \in Queued', k \in calls' : e.conn = k.conn => e.seq < k.seq
         /\ \A e, f \in Queued' : e.conn = f.conn /\ e.no < f.no => e.seq < f.seq
    BY <1>2 DEF OrderInv
  <2> QED
    BY <1>2, <2>4, <2>8, <2>9, <2>10 DEF OrderInv
<1> QED
  BY <1>4, <1>5

\* A thread in _iso_deadline stays with its URB.
LEMMA GoesOn ==
    ASSUME PacerTypeOK, NEW k \in calls, Compare(k) \/ Raise(k) \/ Load(k) \/ Store(k) \/ Return(k)
    PROVE  /\ \A l \in calls' : Calling(l, calls)
           /\ \A l \in calls : Calling(l, calls')
           /\ UNCHANGED <<heap, hand, nextSeq, wire, dropped, raced>>
<1>1. PICK step, val : Goes(k, step, val)
  BY DEF Compare, Raise, Load, Store, Return
<1>2. k \in Scheduling
  BY DEF PacerTypeOK
<1>3. /\ [k EXCEPT !.step = step, !.val = val].conn = k.conn
      /\ [k EXCEPT !.step = step, !.val = val].seq = k.seq
  BY <1>2 DEF Scheduling
<1>4. (\A l \in calls' : Calling(l, calls)) /\ (\A l \in calls : Calling(l, calls'))
  BY <1>1, <1>3 DEF Goes, Calling
<1>5. UNCHANGED <<heap, hand, nextSeq, wire, dropped, raced>>
  BY DEF Compare, Raise, Load, Store, Return, paceVars, connVars, history
<1> QED
  BY <1>4, <1>5

LEMMA OrderStep == PaceInv /\ OrderInv /\ [PacingNext]_pacingVars => OrderInv'
<1> SUFFICES ASSUME PaceInv, OrderInv, [PacingNext]_pacingVars PROVE OrderInv'
  OBVIOUS
<1>t. PacerTypeOK
  BY DEF PaceInv
<1>0. ASSUME UNCHANGED <<calls, raced, wire, nextSeq>>, Queued' \subseteq Queued PROVE OrderInv'
  <2>1. \A k \in calls' : Calling(k, calls)
    BY <1>0 DEF Calling
  <2> QED
    BY <1>0, <2>1, OrderKept
<1>1. ASSUME NEW c \in Conns, NEW ep \in Eps, NEW npkts \in PacketCounts, Submit(c, ep, npkts)
      PROVE  OrderInv'
  BY <1>1, SubmitInOrder
<1>2. ASSUME NEW k \in calls, Call(k) PROVE OrderInv'
  <2>1. CASE PaceSchedule(k)
    BY <2>1, PushInOrder
  <2>2. CASE Compare(k) \/ Raise(k) \/ Load(k) \/ Store(k) \/ Return(k)
    <3>1. /\ \A l \in calls' : Calling(l, calls)
          /\ UNCHANGED <<heap, hand, nextSeq, wire, raced>>
      BY <1>t, <2>2, GoesOn
    <3>2. Queued' \subseteq Queued
      BY <3>1 DEF Queued
    <3> QED
      BY <3>1, <3>2, OrderKept
  <2> QED
    BY <1>2, <2>1, <2>2 DEF Call
<1>3. ASSUME PacerPops PROVE OrderInv'
  BY <1>0, <1>3 DEF PacerPops, Queued, connVars, history
<1>4. ASSUME PacerIdles \/ PacerSleeps \/ PacerWakes \/ Tick PROVE OrderInv'
  BY <1>0, <1>4 DEF PacerIdles, PacerSleeps, PacerWakes, Tick, Queued, connVars, paceVars, history
<1>5. ASSUME NEW c \in Conns, NEW n \in 1 .. MaxUrbs, Unlink(c, n) PROVE OrderInv'
  BY <1>0, <1>5 DEF Unlink, PaceCancel, Queued, history
<1>6. ASSUME NEW c \in Conns, Attach(c) \/ HostGone(c) \/ Close(c) PROVE OrderInv'
  BY <1>0, <1>6 DEF Attach, HostGone, Close, Queued, paceVars, history
<1>7. CASE UNCHANGED pacingVars
  BY <1>0, <1>7 DEF pacingVars, Queued, connVars, paceVars, history
<1>8. ASSUME PacerDelivers PROVE OrderInv'
  BY <1>8, DeliverInOrder
<1> QED
  BY <1>1, <1>2, <1>3, <1>4, <1>5, <1>6, <1>7, <1>8 DEF PacingNext, Pacer

\* The completions of an endpoint reach each host in the order of its URBs,
\* whatever else is paced, cancelled and left over, unless two threads have
\* scheduled for the endpoint at the same moment (device.py, _pace_run).
THEOREM InOrder == PacingSpec => []IsoInOrder
<1>1. PacingInit => OrderInv
  BY OrderInit
<1>2. PaceInv /\ OrderInv /\ [PacingNext]_pacingVars => OrderInv'
  BY OrderStep
<1>3. OrderInv => IsoInOrder
  BY DEF OrderInv
<1> QED
  BY <1>1, <1>2, <1>3, PaceInvariant, PTL DEF PacingSpec

-----------------------------------------------------------------------------
(* The pacer implements UrbLife.                                           *)

\* The URBs that the code holds: on their way into the pacer, or in it.
HeldIds == Ids(Queued \cup calls)

\* A host has submitted the URB.
Born(u) == u[2] < nextSeq[u[1]]

\* A URB that was submitted is held, answered or dropped, and nothing else is.
SomewhereOnce ==
    \A u \in Urbs :
        /\ Born(u) <=> u \in HeldIds \cup AnsweredIds \cup dropped
        /\ u \in HeldIds => u \notin AnsweredIds \cup dropped
        /\ u \in AnsweredIds => u \notin dropped

\* What a step does to the URBs: it takes one in, drops some that are held,
\* answers one that is, or nothing.
SchedulesUrb(c) ==
    /\ nextSeq' = [nextSeq EXCEPT ![c] = nextSeq[c] + 1]
    /\ HeldIds' = HeldIds \cup {<<c, nextSeq[c]>>}
    /\ AnsweredIds' = AnsweredIds /\ dropped' = dropped

DropsUrbs(S) ==
    /\ S \subseteq HeldIds /\ HeldIds' = HeldIds \ S /\ dropped' = dropped \cup S
    /\ AnsweredIds' = AnsweredIds /\ nextSeq' = nextSeq

AnswersUrb(v) ==
    /\ v \in HeldIds /\ HeldIds' = HeldIds \ {v}
    /\ \A u \in Urbs : u \in AnsweredIds' <=> u \in AnsweredIds \/ u = v
    /\ dropped' = dropped /\ nextSeq' = nextSeq

KeepsUrbs ==
    /\ HeldIds' = HeldIds /\ AnsweredIds' = AnsweredIds
    /\ dropped' = dropped /\ nextSeq' = nextSeq

UrbStep ==
    \/ KeepsUrbs
    \/ \E c \in Conns : SchedulesUrb(c)
    \/ \E S \in SUBSET HeldIds : DropsUrbs(S)
    \/ \E v \in HeldIds : AnswersUrb(v)

\* Queued entries are of different URBs, and of none that is being scheduled.
LEMMA EntriesApart ==
    ASSUME PaceInv, OrderInv, NEW e \in Queued, NEW f \in Queued \cup calls, Id(e) = Id(f)
    PROVE  e = f
<1>1. e.conn = f.conn /\ e.seq = f.seq
  BY DEF Id
<1>2. e \in Entry /\ e.seq \in Nat
  BY DEF PaceInv, PacerTypeOK, Queued, Entry
<1>3. f \notin calls
  BY <1>1, <1>2 DEF OrderInv
<1>4. f \in Queued /\ f \in Entry /\ (e.no = f.no => e = f)
  BY <1>3 DEF PaceInv, PacerTypeOK, Queued
<1>5. ~(e.no < f.no) /\ ~(f.no < e.no)
  BY <1>1, <1>2, <1>4 DEF OrderInv, Entry
<1> QED
  BY <1>2, <1>4, <1>5 DEF Entry

\* Taking entries out of the queue takes their URBs out.
LEMMA TakenOut ==
    ASSUME PaceInv, OrderInv, NEW S \in SUBSET Queued
    PROVE  Ids((Queued \ S) \cup calls) = HeldIds \ Ids(S) /\ Ids(S) \subseteq HeldIds
<1>1. \A e \in S, f \in (Queued \ S) \cup calls : Id(e) # Id(f)
  <2> SUFFICES ASSUME NEW e \in S, NEW f \in (Queued \ S) \cup calls, Id(e) = Id(f) PROVE FALSE
    OBVIOUS
  <2>1. e \in Queued /\ f \in Queued \cup calls
    OBVIOUS
  <2>2. e = f
    BY <2>1, EntriesApart
  <2>3. f \in calls
    BY <2>2
  <2> QED
    BY <2>1, <2>2, <2>3 DEF PaceInv, PacerTypeOK, OrderInv, Queued, Entry
<1> QED
  BY <1>1 DEF Ids, HeldIds

\* The wire is all that tells which URBs are answered.
LEMMA AnsweredKept == ASSUME wire' = wire PROVE AnsweredIds' = AnsweredIds
BY DEF AnsweredIds, AnswersOn

LEMMA UrbMoves == ASSUME PaceInv, OrderInv, [PacingNext]_pacingVars PROVE UrbStep
<1>t. PacerTypeOK
  BY DEF PaceInv
<1>1. ASSUME NEW c \in Conns, NEW ep \in Eps, NEW npkts \in PacketCounts, Submit(c, ep, npkts)
      PROVE  SchedulesUrb(c)
  <2>1. PICK x : x.conn = c /\ x.seq = nextSeq[c] /\ calls' = calls \cup {x} /\ Queued' = Queued
    BY <1>1 DEF Submit, Queued, paceVars
  <2>2. HeldIds' = HeldIds \cup {<<c, nextSeq[c]>>}
    BY <2>1 DEF HeldIds, Ids, Id
  <2>3. wire' = wire /\ dropped' = dropped /\ nextSeq' = [nextSeq EXCEPT ![c] = nextSeq[c] + 1]
    BY <1>1 DEF Submit
  <2> QED
    BY <2>2, <2>3, AnsweredKept DEF SchedulesUrb
<1>2. ASSUME NEW c \in Conns, NEW n \in 1 .. MaxUrbs, Unlink(c, n)
      PROVE  DropsUrbs(Ids(heap \ PaceCancel(n)))
  <2> DEFINE S == heap \ PaceCancel(n)
  <2>1. /\ heap' = PaceCancel(n) /\ hand' = hand /\ wire' = wire /\ nextSeq' = nextSeq
        /\ calls' = calls
        /\ dropped' = dropped \cup Ids(S)
    BY <1>2 DEF Unlink
  <2>2. S \in SUBSET Queued
    BY DEF Queued
  <2>3. hand \cap S = {}
    BY DEF PaceInv, HandIsDue
  <2>4. Queued' = Queued \ S
    BY <2>1, <2>3 DEF Queued, PaceCancel
  <2> HIDE DEF S
  <2>5. Ids((Queued \ S) \cup calls) = HeldIds \ Ids(S) /\ Ids(S) \subseteq HeldIds
    BY <2>2, TakenOut
  <2>6. HeldIds' = HeldIds \ Ids(S)
    BY <2>1, <2>4, <2>5 DEF HeldIds, Ids, Id
  <2>7. DropsUrbs(Ids(S))
    BY <2>1, <2>5, <2>6, AnsweredKept DEF DropsUrbs
  <2> QED
    BY <2>7 DEF S
<1>3. ASSUME PacerDelivers PROVE \E v \in HeldIds : AnswersUrb(v) \/ DropsUrbs({v})
  <2>1. PICK x \in hand : hand = {x} /\ Send(x)
    BY <1>3 DEF PacerDelivers, PaceInv, HandIsDue
  <2>2. heap' = heap /\ hand' = {} /\ nextSeq' = nextSeq /\ calls' = calls
    BY <1>3 DEF PacerDelivers, connVars
  <2>3. x \notin heap /\ x \in Entry
    BY <1>t DEF PaceInv, HandIsDue, PacerTypeOK
  <2>4. Queued' = Queued \ {x} /\ {x} \in SUBSET Queued
    BY <2>1, <2>2, <2>3 DEF Queued
  <2>5. Ids((Queued \ {x}) \cup calls) = HeldIds \ Ids({x}) /\ Ids({x}) \subseteq HeldIds
    BY <2>4, TakenOut
  <2>6. HeldIds' = HeldIds \ {Id(x)} /\ Id(x) \in HeldIds
    BY <2>2, <2>4, <2>5 DEF HeldIds, Ids, Id
  <2>7. CASE ~alive[x.conn]
    <3>1. wire' = wire /\ dropped' = dropped \cup {Id(x)}
      BY <2>1, <2>7 DEF Send
    <3> QED
      BY <2>2, <2>6, <3>1, AnsweredKept DEF DropsUrbs
  <2>8. CASE alive[x.conn]
    <3> DEFINE c == x.conn
               r == [seq |-> x.seq, ep |-> x.ep]
               k == Len(wire[c]) + 1
    <3>1. wire' = [wire EXCEPT ![c] = Append(wire[c], r)] /\ dropped' = dropped
      BY <2>1, <2>8 DEF Send, Reply
    <3>2. r \in Answer /\ c \in Conns /\ wire[c] \in Seq(Answer) /\ wire \in [Conns -> Seq(Answer)]
      BY <2>3 DEF Entry, Answer, OrderInv
    <3>3. r.seq = x.seq /\ r.ep = x.ep
      OBVIOUS
    <3> HIDE DEF r
    <3>4. \A d \in Conns : d # c => wire'[d] = wire[d]
      BY <3>1, <3>2
    <3>5. /\ DOMAIN wire'[c] = DOMAIN wire[c] \cup {k} /\ wire'[c][k] = r
          /\ \A i \in DOMAIN wire[c] : wire'[c][i] = wire[c][i]
      BY <3>1, <3>2
    <3> HIDE DEF k
    <3>6. ASSUME NEW u \in Urbs PROVE u \in AnsweredIds' <=> u \in AnsweredIds \/ u = Id(x)
      <4>1. u[1] \in Conns /\ u = <<u[1], u[2]>> /\ Id(x) = <<c, x.seq>>
        BY DEF Urbs, Id
      <4>2. CASE u[1] # c
        BY <3>4, <4>1, <4>2 DEF AnsweredIds, AnswersOn
      <4>3. CASE u[1] = c
        <5>1. x.ep \in Eps
          BY <2>3 DEF Entry
        <5>2. u = Id(x) <=> x.seq = u[2]
          BY <4>1, <4>3
        <5>3. /\ u \in AnsweredIds <=>
                   \E i \in DOMAIN wire[c] : wire[c][i].ep \in Eps /\ wire[c][i].seq = u[2]
              /\ u \in AnsweredIds' <=>
                   \E i \in DOMAIN wire'[c] : wire'[c][i].ep \in Eps /\ wire'[c][i].seq = u[2]
          BY <4>3 DEF AnsweredIds, AnswersOn
        <5> QED
          BY <3>3, <3>5, <5>1, <5>2, <5>3
      <4> QED
        BY <4>2, <4>3
    <3> QED
      BY <2>2, <2>6, <3>1, <3>6 DEF AnswersUrb
  <2> QED
    BY <2>6, <2>7, <2>8
<1>k. ASSUME HeldIds' = HeldIds, UNCHANGED <<wire, nextSeq, dropped>> PROVE KeepsUrbs
  BY <1>k, AnsweredKept DEF KeepsUrbs
<1>4. ASSUME Queued' = Queued, UNCHANGED <<calls, wire, nextSeq, dropped>> PROVE KeepsUrbs
  <2>1. HeldIds' = HeldIds
    BY <1>4 DEF HeldIds, Ids, Id
  <2> QED
    BY <1>4, <1>k, <2>1
<1>5. ASSUME PacerPops PROVE KeepsUrbs
  <2>1. Queued' = Queued
    <3>1. hand = {}
      BY <1>5 DEF PacerPops, PaceInv, HandIsDue
    <3> QED
      BY <1>5, <3>1 DEF PacerPops, Queued
  <2> QED
    BY <1>4, <1>5, <2>1 DEF PacerPops, connVars
<1>6. ASSUME PacerIdles \/ PacerSleeps \/ PacerWakes \/ Tick PROVE KeepsUrbs
  BY <1>4, <1>6 DEF PacerIdles, PacerSleeps, PacerWakes, Tick, Queued, connVars, paceVars
<1>7. ASSUME NEW c \in Conns, Attach(c) \/ HostGone(c) \/ Close(c) PROVE KeepsUrbs
  BY <1>4, <1>7 DEF Attach, HostGone, Close, Queued, paceVars
<1>8. ASSUME UNCHANGED pacingVars PROVE KeepsUrbs
  BY <1>4, <1>8 DEF pacingVars, Queued, connVars, paceVars
<1>9. ASSUME NEW c \in Conns, NEW n \in 1 .. MaxUrbs, Unlink(c, n) PROVE UrbStep
  BY <1>2, <1>9 DEF UrbStep, DropsUrbs
<1>10. ASSUME PacerDelivers PROVE UrbStep
  BY <1>3, <1>10 DEF UrbStep
<1>11. ASSUME NEW k \in calls, Call(k) PROVE KeepsUrbs
  <2>1. CASE PaceSchedule(k)
    <3>1. PICK x : Id(x) = Id(k) /\ Queued' = Queued \cup {x}
      BY <2>1 DEF PaceSchedule, Queued, Id
    <3>2. calls' = calls \ {k} /\ UNCHANGED <<wire, nextSeq, dropped>>
      BY <2>1 DEF PaceSchedule, connVars
    <3>3. HeldIds' = HeldIds
      BY <3>1, <3>2 DEF HeldIds, Ids, Id
    <3> QED
      BY <1>k, <3>2, <3>3
  <2>2. CASE Compare(k) \/ Raise(k) \/ Load(k) \/ Store(k) \/ Return(k)
    <3>1. /\ \A l \in calls' : Calling(l, calls)
          /\ \A l \in calls : Calling(l, calls')
          /\ UNCHANGED <<heap, hand, nextSeq, wire, dropped>>
      BY <1>t, <2>2, GoesOn
    <3>2. Queued' = Queued
      BY <3>1 DEF Queued
    <3>3. /\ \A l \in calls' : \E m \in calls : Id(l) = Id(m)
          /\ \A l \in calls : \E m \in calls' : Id(l) = Id(m)
      BY <3>1 DEF Calling, Id
    <3>4. HeldIds' = HeldIds
      BY <3>2, <3>3 DEF HeldIds, Ids, Id
    <3> QED
      BY <1>k, <3>1, <3>4
  <2> QED
    BY <1>11, <2>1, <2>2 DEF Call
<1> QED
  BY <1>1, <1>5, <1>6, <1>7, <1>8, <1>9, <1>10, <1>11 DEF PacingNext, Pacer, UrbStep

\* What has become of a URB, read off the place it is in.
Fate(u) ==
    IF ~Born(u) THEN "unborn"
    ELSE IF u \in HeldIds THEN "held"
    ELSE IF u \in AnsweredIds THEN "answered"
    ELSE IF u \in dropped THEN "dropped"
    ELSE "forgotten"

LEMMA StatusIsFate == PacerTypeOK => Status = [u \in Urbs |-> Fate(u)]
<1> SUFFICES ASSUME PacerTypeOK, NEW u \in Urbs PROVE StatusOf(u) = Fate(u)
  BY DEF Status
<1>1. u[2] >= nextSeq[u[1]] <=> ~Born(u)
  BY BoundAssumption DEF Urbs, PacerTypeOK, Born
<1> QED
  BY <1>1 DEF StatusOf, Fate, HeldIds

\* Such a step keeps URBs in one place and is one of UrbLife, or shows nothing.
LEMMA UrbStepLives ==
    ASSUME PacerTypeOK, PacerTypeOK', SomewhereOnce, UrbStep
    PROVE  SomewhereOnce' /\ [Life!Next]_Status
<1>0. Status = [u \in Urbs |-> Fate(u)] /\ Status' = [u \in Urbs |-> Fate(u)']
  <2>1. (PacerTypeOK => Status = [u \in Urbs |-> Fate(u)])'
    BY StatusIsFate, PTL
  <2> QED
    BY <2>1, StatusIsFate
<1>1. \A u \in Urbs : u[1] \in Conns /\ u[2] \in Nat /\ u = <<u[1], u[2]>> /\ nextSeq[u[1]] \in Nat
  BY BoundAssumption DEF Urbs, PacerTypeOK
<1>2. CASE KeepsUrbs
  <2>1. SomewhereOnce'
    BY <1>2 DEF KeepsUrbs, SomewhereOnce, Born
  <2>2. \A u \in Urbs : Fate(u)' = Fate(u)
    BY <1>2 DEF KeepsUrbs, Fate, Born
  <2>3. Status' = Status
    BY <1>0, <2>2
  <2> QED
    BY <2>1, <2>3
<1>3. ASSUME NEW c \in Conns, SchedulesUrb(c) PROVE SomewhereOnce' /\ [Life!Next]_Status
  <2>v. PICK v : v = <<c, nextSeq[c]>>
    OBVIOUS
  <2>1. ASSUME NEW u \in Urbs, u # v PROVE Born(u)' <=> Born(u)
    <3>1. CASE u[1] = c
      <4>1. u[2] # nextSeq[c] /\ nextSeq'[u[1]] = nextSeq[u[1]] + 1
        BY <1>1, <1>3, <2>v, <2>1, <3>1 DEF SchedulesUrb, PacerTypeOK
      <4> QED
        BY <1>1, <3>1, <4>1 DEF Born
    <3>2. CASE u[1] # c
      BY <1>1, <1>3, <3>2 DEF SchedulesUrb, PacerTypeOK, Born
    <3> QED
      BY <3>1, <3>2
  <2>2. v \in Urbs => ~Born(v) /\ Born(v)'
    BY <1>3, <2>v DEF SchedulesUrb, PacerTypeOK, Born
  <2>3. /\ HeldIds' = HeldIds \cup {v} /\ AnsweredIds' = AnsweredIds /\ dropped' = dropped
    BY <1>3, <2>v DEF SchedulesUrb
  <2>4. SomewhereOnce'
    BY <2>1, <2>2, <2>3 DEF SomewhereOnce
  <2>5. \A u \in Urbs : u # v => Fate(u)' = Fate(u)
    BY <2>1, <2>3 DEF Fate
  <2>6. v \in Urbs => Fate(v) = "unborn" /\ Fate(v)' = "held"
    BY <2>2, <2>3 DEF Fate, SomewhereOnce
  <2>7. CASE v \in Urbs
    <3>1. Life!Submit(v)
      BY <1>0, <2>5, <2>6, <2>7 DEF Life!Submit
    <3> QED
      BY <2>4, <2>7, <3>1 DEF Life!Next
  <2>8. CASE v \notin Urbs
    <3>1. Status' = Status
      BY <1>0, <2>5, <2>8
    <3> QED
      BY <2>4, <3>1
  <2> QED
    BY <2>7, <2>8
<1>4. ASSUME NEW S \in SUBSET HeldIds, DropsUrbs(S) PROVE SomewhereOnce' /\ [Life!Next]_Status
  <2>1. SomewhereOnce'
    BY <1>4 DEF DropsUrbs, SomewhereOnce, Born
  <2>2. \A u \in Urbs : u \notin S => Fate(u)' = Fate(u)
    BY <1>4 DEF DropsUrbs, Fate, Born
  <2>3. \A u \in Urbs : u \in S => Fate(u) = "held" /\ Fate(u)' = "dropped"
    BY <1>4 DEF DropsUrbs, Fate, Born, SomewhereOnce
  <2>4. Life!Drop(S \cap Urbs)
    BY <1>0, <2>2, <2>3 DEF Life!Drop
  <2> QED
    BY <2>1, <2>4 DEF Life!Next
<1>5. ASSUME NEW v \in HeldIds, AnswersUrb(v) PROVE SomewhereOnce' /\ [Life!Next]_Status
  <2>1. SomewhereOnce'
    BY <1>5 DEF AnswersUrb, SomewhereOnce, Born
  <2>2. \A u \in Urbs : u # v => Fate(u)' = Fate(u)
    BY <1>5 DEF AnswersUrb, Fate, Born
  <2>3. v \in Urbs => Fate(v) = "held" /\ Fate(v)' = "answered"
    BY <1>5 DEF AnswersUrb, Fate, Born, SomewhereOnce
  <2>4. CASE v \in Urbs
    <3>1. Life!Answer(v)
      BY <1>0, <2>2, <2>3, <2>4 DEF Life!Answer
    <3> QED
      BY <2>1, <2>4, <3>1 DEF Life!Next
  <2>5. CASE v \notin Urbs
    <3>1. Status' = Status
      BY <1>0, <2>2, <2>5
    <3> QED
      BY <2>1, <3>1
  <2> QED
    BY <2>4, <2>5
<1> QED
  BY <1>2, <1>3, <1>4, <1>5 DEF UrbStep

\* The pacer implements UrbLife: a URB that was read is held until it is
\* answered, once, or dropped, whatever hosts come and go, unlink and submit
\* while it sleeps (device.py, _pace_schedule, _pace_run and pace_cancel).
THEOREM IsoLifeRefined == PacingSpec => IsoLifeSpec
<1>1. PacingInit => SomewhereOnce /\ Life!Init
  <2> SUFFICES ASSUME PacingInit PROVE SomewhereOnce /\ Life!Init
    OBVIOUS
  <2>1. \A u \in Urbs : u[1] \in Conns /\ u[2] \in Nat \ {0} /\ nextSeq[u[1]] = 1
    BY BoundAssumption DEF Urbs, PacingInit
  <2>2. HeldIds = {} /\ dropped = {} /\ \A c \in Conns : DOMAIN wire[c] = {}
    BY DEF PacingInit, HeldIds, Ids, Queued
  <2>3. AnsweredIds = {}
    BY <2>1, <2>2 DEF AnsweredIds, AnswersOn
  <2>4. \A u \in Urbs : ~Born(u)
    BY <2>1 DEF Born
  <2>5. SomewhereOnce
    BY <2>2, <2>3, <2>4 DEF SomewhereOnce
  <2>6. \A u \in Urbs : StatusOf(u) = "unborn"
    BY <2>1 DEF StatusOf
  <2> QED
    BY <2>5, <2>6 DEF Life!Init, Status
<1>2. /\ PaceInv /\ PaceInv' /\ OrderInv /\ SomewhereOnce /\ [PacingNext]_pacingVars
      => SomewhereOnce' /\ [Life!Next]_Status
  <2>1. (PaceInv => PacerTypeOK) /\ (PaceInv' => PacerTypeOK')
    BY DEF PaceInv
  <2> QED
    BY <2>1, UrbMoves, UrbStepLives
<1> QED
  BY <1>1, <1>2, OrderInit, OrderStep, PaceInvariant, PTL DEF PacingSpec, IsoLifeSpec, Life!Spec
=============================================================================
