---------------------------- MODULE Streams_proofs ----------------------------
(***************************************************************************)
(* Proofs about what is put together from parts and read back.             *)
(*                                                                         *)
(* The connection (Wire.tla): for every list of exported devices, every    *)
(* length and any number of requests, host and device stay in step.  What  *)
(* the codec computes over a sequence of any length, sums, gathered        *)
(* payloads, the loop over the device list, is proved by the least number  *)
(* at which it would fail.                                                 *)
(*                                                                         *)
(* The packets that a dongle reassembles (Bluetooth.tla), by what its      *)
(* loop does in each turn, and the bytes that an echo gives back           *)
(* (Echo.tla): what is kept, queued and held, in this order, is what there *)
(* is to deliver.                                                          *)
(***************************************************************************)
EXTENDS Wire, Bluetooth, Echo, SequenceTheorems, FiniteSetTheorems,
        WellFoundedInduction, TLAPS

-----------------------------------------------------------------------------
(* Loops.                                                                  *)

\* A set of numbers that is not empty has a least.
LEMMA LeastIs ==
    ASSUME NEW T, T \subseteq Nat, T # {}
    PROVE  \E n \in T : \A m \in T : n <= m
<1> DEFINE R == OpToRel(<, Nat)
<1>1. IsWellFoundedOn(R, Nat)
  BY NatLessThanWellFounded
<1> HIDE DEF R
<1>2. PICK n \in T : \A m \in T : ~(<<m, n>> \in R)
  BY <1>1, WFMin
<1>3. \A m \in T : ~(m < n)
  BY <1>2 DEF R, OpToRel
<1> QED
  BY <1>2, <1>3

\* What holds at the start and goes on from each number to the next one holds
\* at all numbers.
LEMMA UpTo ==
    ASSUME NEW n \in Nat, NEW G, 0 \in G, \A i \in 1 .. n : i - 1 \in G => i \in G
    PROVE  \A i \in 0 .. n : i \in G
<1> DEFINE No == {i \in 0 .. n : i \notin G}
<1> SUFFICES ASSUME No # {} PROVE FALSE
  OBVIOUS
<1>1. PICK i \in No : \A j \in No : i <= j
  <2>1. No \subseteq Nat
    OBVIOUS
  <2> HIDE DEF No
  <2> QED
    BY <2>1, LeastIs
<1>2. i \in 1 .. n /\ i - 1 \in 0 .. n /\ ~(i <= i - 1)
  OBVIOUS
<1>3. i - 1 \in G
  BY <1>1, <1>2
<1> QED
  BY <1>2, <1>3

\* The largest of the numbers up to n.
LEMMA MaxIs ==
    ASSUME NEW s, s \subseteq Nat, NEW n \in s, \A i \in s : i <= n
    PROVE  Max(s) = n
<1>1. \A i \in s : i \in Nat
  OBVIOUS
<1>2. \A y \in s : n >= y
  BY <1>1
<1>3. \A x \in s : (\A y \in s : x >= y) => x = n
  BY <1>1, <1>2
<1> QED
  BY <1>2, <1>3, Zenon DEF Max

\* The library's fold over the numbers up to n.
FoldsTo(f, n, Y, base, step) ==
    /\ f \in [SUBSET (1 .. n) -> Y]
    /\ f[{}] = base
    /\ \A s \in SUBSET (1 .. n) : s # {} => f[s] = step[<<Max(s), f[s \ {Max(s)}]>>]

LEMMA FoldRuns ==
    ASSUME NEW n \in Nat, NEW Y, NEW base \in Y, NEW step \in [(1 .. n) \X Y -> Y]
    PROVE  \E f : FoldsTo(f, n, Y, base, step)
<1> DEFINE G == {m \in 0 .. n : \E f : FoldsTo(f, m, Y, base, step)}
<1>1. 0 \in G
  <2> DEFINE f == [s \in SUBSET (1 .. 0) |-> base]
  <2>1. \A s \in SUBSET (1 .. 0) : s = {}
    OBVIOUS
  <2>2. FoldsTo(f, 0, Y, base, step)
    BY <2>1 DEF FoldsTo
  <2> QED
    BY <2>2
<1>2. ASSUME NEW m \in 1 .. n, m - 1 \in G PROVE m \in G
  <2>1. PICK f : FoldsTo(f, m - 1, Y, base, step)
    BY <1>2
  <2> DEFINE e == [s \in SUBSET (1 .. m) |-> IF m \in s THEN step[<<m, f[s \ {m}]>>] ELSE f[s]]
  <2>2. \A s \in SUBSET (1 .. m) : s \ {m} \in SUBSET (1 .. m - 1)
    OBVIOUS
  <2>3. \A s \in SUBSET (1 .. m) : m \notin s => s \in SUBSET (1 .. m - 1)
    OBVIOUS
  <2>4. \A s \in SUBSET (1 .. m - 1) : s \in SUBSET (1 .. m) /\ m \notin s /\ f[s] \in Y /\ e[s] = f[s]
    BY <2>1 DEF FoldsTo
  <2>5. \A y \in Y : \A i \in 1 .. m : step[<<i, y>>] \in Y
    OBVIOUS
  <2>6. e \in [SUBSET (1 .. m) -> Y]
    <3> SUFFICES ASSUME NEW s \in SUBSET (1 .. m)
                 PROVE  (IF m \in s THEN step[<<m, f[s \ {m}]>>] ELSE f[s]) \in Y
      OBVIOUS
    <3> QED
      BY <2>2, <2>3, <2>4, <2>5
  <2>7. ASSUME NEW s \in SUBSET (1 .. m), s # {}
        PROVE  e[s] = step[<<Max(s), e[s \ {Max(s)}]>>]
    <3>1. CASE m \in s
      <4>1. Max(s) = m
        <5>1. s \subseteq Nat /\ \A i \in s : i <= m
          OBVIOUS
        <5> QED
          BY <3>1, <5>1, MaxIs, Zenon
      <4>2. e[s] = step[<<m, f[s \ {m}]>>] /\ e[s \ {m}] = f[s \ {m}]
        BY <2>2, <2>4, <3>1
      <4> QED
        BY <4>1, <4>2
    <3>2. CASE m \notin s
      <4>1. s \in SUBSET (1 .. m - 1) /\ e[s] = f[s]
        BY <2>3, <2>4, <3>2
      <4> DEFINE x == Max(s)
      <4> HIDE DEF x
      <4>2. s \ {x} \in SUBSET (1 .. m - 1)
        BY <4>1
      <4>3. e[s \ {x}] = f[s \ {x}]
        BY <2>4, <4>2
      <4>4. f[s] = step[<<x, f[s \ {x}]>>]
        BY <2>1, <2>7, <4>1 DEF FoldsTo, x
      <4>5. e[s] = step[<<x, e[s \ {x}]>>]
        BY <4>1, <4>3, <4>4
      <4> QED
        BY <4>5 DEF x
    <3> QED
      BY <3>1, <3>2
  <2>8. e[{}] = base
    <3>1. {} \in SUBSET (1 .. m - 1)
      OBVIOUS
    <3> QED
      BY <2>1, <2>4, <3>1 DEF FoldsTo
  <2> HIDE DEF e
  <2>9. FoldsTo(e, m, Y, base, step)
    BY <2>6, <2>7, <2>8 DEF FoldsTo
  <2> QED
    BY <2>9
<1> HIDE DEF G
<1>3. \A m \in 0 .. n : m \in G
  BY <1>1, <1>2, UpTo
<1> QED
  BY <1>3 DEF G

\* A loop over the numbers up to n.
LoopsTo(P, n, Y, base, step) ==
    /\ P \in [0 .. n -> Y]
    /\ P[0] = base
    /\ \A i \in 1 .. n : P[i] = step[<<i, P[i - 1]>>]

LEMMA MaxIn ==
    ASSUME NEW n \in Nat, NEW s \in SUBSET (1 .. n), s # {}
    PROVE  Max(s) \in s
<1> DEFINE T == {k \in 0 .. n : n - k \in s}
<1>1. T \subseteq Nat /\ T # {}
  <2>1. PICK i \in s : TRUE
    OBVIOUS
  <2>2. i \in 1 .. n /\ n - i \in 0 .. n /\ n - (n - i) = i
    BY <2>1
  <2>3. n - i \in T
    BY <2>2
  <2>4. T \subseteq Nat
    OBVIOUS
  <2> QED
    BY <2>3, <2>4
<1>2. PICK k \in T : \A j \in T : k <= j
  <2> HIDE DEF T
  <2> QED
    BY <1>1, LeastIs
<1>3. n - k \in s /\ k \in 0 .. n
  BY <1>2
<1>4. ASSUME NEW i \in s PROVE i <= n - k
  <2>1. i \in 1 .. n /\ n - i \in 0 .. n /\ n - (n - i) = i
    OBVIOUS
  <2>2. n - i \in T
    BY <2>1
  <2> HIDE DEF T
  <2>3. k <= n - i
    BY <1>2, <2>2
  <2> QED
    BY <1>3, <2>1, <2>3
<1>6. s \subseteq Nat
  OBVIOUS
<1> DEFINE m == n - k
<1> HIDE DEF m
<1>7. Max(s) = m
  BY <1>3, <1>4, <1>6, MaxIs, Zenon DEF m
<1> QED
  BY <1>3, <1>7 DEF m

LEMMA UpToIs ==
    ASSUME NEW n \in Nat, NEW i \in 1 .. n
    PROVE  /\ 1 .. i \in SUBSET (1 .. n) /\ 1 .. i # {} /\ 1 .. (i - 1) \in SUBSET (1 .. n)
           /\ Max(1 .. i) = i /\ (1 .. i) \ {i} = 1 .. (i - 1)
<1>1. 1 .. i \subseteq Nat /\ i \in 1 .. i /\ \A k \in 1 .. i : k <= i
  OBVIOUS
<1>2. Max(1 .. i) = i
  BY <1>1, MaxIs, Zenon
<1> QED
  BY <1>2

LEMMA LoopRuns ==
    ASSUME NEW n \in Nat, NEW Y, NEW base \in Y, NEW step \in [(1 .. n) \X Y -> Y]
    PROVE  \E P : LoopsTo(P, n, Y, base, step)
<1>1. PICK f : FoldsTo(f, n, Y, base, step)
  BY FoldRuns
<1> DEFINE P == [i \in 0 .. n |-> f[1 .. i]]
<1>2. P \in [0 .. n -> Y]
  <2>1. \A i \in 0 .. n : 1 .. i \in SUBSET (1 .. n)
    OBVIOUS
  <2> QED
    BY <1>1, <2>1 DEF FoldsTo
<1>3. P[0] = base
  <2>1. 1 .. 0 = {}
    OBVIOUS
  <2> QED
    BY <1>1, <2>1 DEF FoldsTo
<1>4. ASSUME NEW i \in 1 .. n PROVE P[i] = step[<<i, P[i - 1]>>]
  <2>1. /\ 1 .. i \in SUBSET (1 .. n) /\ 1 .. i # {}
        /\ Max(1 .. i) = i /\ (1 .. i) \ {i} = 1 .. (i - 1)
    BY UpToIs
  <2>2. f[1 .. i] = step[<<Max(1 .. i), f[(1 .. i) \ {Max(1 .. i)}]>>]
    BY <1>1, <2>1, Zenon DEF FoldsTo
  <2>3. P[i] = f[1 .. i] /\ P[i - 1] = f[1 .. (i - 1)]
    OBVIOUS
  <2> QED
    BY <2>1, <2>2, <2>3
<1> QED
  BY <1>2, <1>3, <1>4 DEF LoopsTo

-----------------------------------------------------------------------------
(* Sums.                                                                   *)

LEMMA TotalRuns ==
    ASSUME NEW s \in Seq(Nat)
    PROVE  \E P \in [0 .. Len(s) -> Nat] :
              /\ P[0] = 0 /\ \A i \in 1 .. Len(s) : P[i] = P[i - 1] + s[i]
              /\ Total(s) = P[Len(s)]
<1> DEFINE n == Len(s)
           step == [p \in (1 .. n) \X Nat |-> p[2] + s[p[1]]]
           Body(g) == [t \in SUBSET (DOMAIN s) |->
                          IF t = {} THEN 0 ELSE g[t \ {Max(t)}] + s[Max(t)]]
           iter == CHOOSE g : g = Body(g)
<1>1. n \in Nat /\ DOMAIN s = 1 .. n /\ \A i \in 1 .. n : s[i] \in Nat
  OBVIOUS
<1>2. Total(s) = iter[DOMAIN s]
  BY DEF Total, FoldLeft, MapThenFoldSet
<1>3. PICK f : FoldsTo(f, n, Nat, 0, step)
  <2>1. step \in [(1 .. n) \X Nat -> Nat]
    BY <1>1
  <2>2. n \in Nat /\ 0 \in Nat
    BY <1>1
  <2> HIDE DEF step, n
  <2> QED
    BY <2>1, <2>2, FoldRuns
<1>4. f = Body(f)
  <2>1. ASSUME NEW t \in SUBSET (1 .. n), t # {}
        PROVE  f[t] = f[t \ {Max(t)}] + s[Max(t)]
    <3>1. Max(t) \in 1 .. n
      BY <2>1, <1>1, MaxIn
    <3>2. f[t] = step[<<Max(t), f[t \ {Max(t)}]>>] /\ f[t \ {Max(t)}] \in Nat
      BY <1>3, <2>1 DEF FoldsTo
    <3> QED
      BY <3>1, <3>2
  <2> QED
    BY <1>1, <1>3, <2>1 DEF FoldsTo
<1>5. iter = Body(iter)
  BY <1>4
<1> DEFINE P == [i \in 0 .. n |-> iter[1 .. i]]
<1>6. \A t \in SUBSET (1 .. n) : iter[t] = IF t = {} THEN 0 ELSE iter[t \ {Max(t)}] + s[Max(t)]
  BY <1>1, <1>5
<1>7. P[0] = 0 /\ P[n] = iter[DOMAIN s] /\ DOMAIN P = 0 .. n
  <2>1. 1 .. 0 = {} /\ {} \in SUBSET (1 .. n)
    OBVIOUS
  <2>2. iter[{}] = 0
    BY <1>6, <2>1
  <2> HIDE DEF iter
  <2> QED
    BY <1>1, <2>1, <2>2
<1>8. ASSUME NEW i \in 1 .. n PROVE P[i] = P[i - 1] + s[i]
  <2>1. /\ 1 .. i \in SUBSET (1 .. n) /\ 1 .. i # {}
        /\ Max(1 .. i) = i /\ (1 .. i) \ {i} = 1 .. (i - 1)
    BY <1>1, UpToIs
  <2> HIDE DEF iter
  <2>2. iter[1 .. i] = iter[(1 .. i) \ {Max(1 .. i)}] + s[Max(1 .. i)]
    BY <1>6, <2>1, Zenon
  <2>3. P[i] = iter[1 .. i] /\ P[i - 1] = iter[1 .. (i - 1)]
    BY <1>1
  <2> QED
    BY <2>1, <2>2, <2>3
<1> HIDE DEF iter, P
<1>9. P \in [0 .. n -> Nat]
  <2> DEFINE G == {i \in 0 .. n : P[i] \in Nat}
  <2>1. 0 \in G
    BY <1>1, <1>7
  <2>2. ASSUME NEW i \in 1 .. n, i - 1 \in G PROVE i \in G
    BY <1>1, <1>8, <2>2
  <2> HIDE DEF G
  <2>3. \A i \in 0 .. n : i \in G
    BY <1>1, <2>1, <2>2, UpTo
  <2>4. \A i \in 0 .. n : P[i] \in Nat
    BY <2>3 DEF G
  <2>5. P = [i \in 0 .. n |-> P[i]]
    BY DEF P
  <2> QED
    BY <2>4, <2>5
<1> QED
  BY <1>2, <1>7, <1>8, <1>9

\* The beginning of a sequence.
LEMMA BeginningIs ==
    ASSUME NEW T, NEW s \in Seq(T), NEW n \in 0 .. Len(s)
    PROVE  /\ SubSeq(s, 1, n) \in Seq(T) /\ Len(SubSeq(s, 1, n)) = n
           /\ \A i \in 1 .. n : SubSeq(s, 1, n)[i] = s[i]
<1>1. Len(s) \in Nat /\ n \in Nat /\ n <= Len(s)
  OBVIOUS
<1>2. \A i \in 1 .. n : s[i] \in T
  BY <1>1, ElementOfSeq
<1> QED
  BY <1>1, <1>2, SubSeqProperties

\* The sums of the beginnings of a sequence of numbers.
LEMMA TotalIs ==
    ASSUME NEW s \in Seq(Nat)
    PROVE  /\ Total(s) \in Nat
           /\ \A i \in 0 .. Len(s) : Total(SubSeq(s, 1, i)) \in Nat
           /\ Total(SubSeq(s, 1, 0)) = 0
           /\ \A i \in 1 .. Len(s) :
                 Total(SubSeq(s, 1, i)) = Total(SubSeq(s, 1, i - 1)) + s[i]
           /\ Total(SubSeq(s, 1, Len(s))) = Total(s)
<1>1. PICK P \in [0 .. Len(s) -> Nat] :
              /\ P[0] = 0 /\ \A i \in 1 .. Len(s) : P[i] = P[i - 1] + s[i]
              /\ Total(s) = P[Len(s)]
  BY TotalRuns
<1>2. ASSUME NEW n \in 0 .. Len(s) PROVE Total(SubSeq(s, 1, n)) = P[n]
  <2> DEFINE t == SubSeq(s, 1, n)
  <2>1. t \in Seq(Nat) /\ Len(t) = n /\ \A i \in 1 .. n : t[i] = s[i]
    BY BeginningIs
  <2> HIDE DEF t
  <2>2. PICK Q \in [0 .. Len(t) -> Nat] :
              /\ Q[0] = 0 /\ \A i \in 1 .. Len(t) : Q[i] = Q[i - 1] + t[i]
              /\ Total(t) = Q[Len(t)]
    BY <2>1, TotalRuns
  <2> DEFINE G == {i \in 0 .. n : Q[i] = P[i]}
  <2>3. 0 \in G
    BY <1>1, <2>2
  <2>4. ASSUME NEW i \in 1 .. n, i - 1 \in G PROVE i \in G
    <3>1. i \in 1 .. Len(s) /\ i \in 1 .. Len(t) /\ Q[i - 1] = P[i - 1]
      BY <2>1, <2>4
    <3>2. Q[i] = P[i]
      BY <1>1, <2>1, <2>2, <3>1
    <3> QED
      BY <3>2
  <2> HIDE DEF G
  <2>5. \A i \in 0 .. n : i \in G
    <3>1. n \in Nat
      OBVIOUS
    <3> QED
      BY <2>3, <2>4, <3>1, UpTo
  <2>6. n \in G
    BY <2>5
  <2> QED
    BY <2>1, <2>2, <2>6 DEF G, t
<1>3. 0 \in 0 .. Len(s) /\ Len(s) \in 0 .. Len(s) /\ \A i \in 0 .. Len(s) : P[i] \in Nat
  OBVIOUS
<1>4. ASSUME NEW i \in 1 .. Len(s)
      PROVE  Total(SubSeq(s, 1, i)) = Total(SubSeq(s, 1, i - 1)) + s[i]
  <2>1. i \in 0 .. Len(s) /\ i - 1 \in 0 .. Len(s)
    OBVIOUS
  <2>2. Total(SubSeq(s, 1, i)) = P[i] /\ Total(SubSeq(s, 1, i - 1)) = P[i - 1]
    BY <1>2, <2>1
  <2> QED
    BY <1>1, <2>2
<1>5. Total(s) \in Nat /\ Total(SubSeq(s, 1, 0)) = 0 /\ Total(SubSeq(s, 1, Len(s))) = Total(s)
  BY <1>1, <1>2, <1>3
<1>6. \A i \in 0 .. Len(s) : Total(SubSeq(s, 1, i)) \in Nat
  BY <1>2, <1>3
<1> QED
  BY <1>4, <1>5, <1>6

\* The sum of one number.
LEMMA TotalOfOne ==
    ASSUME NEW k \in Nat
    PROVE  Total(<<k>>) = k
<1> DEFINE s == <<k>>
<1>1. s \in Seq(Nat) /\ Len(s) = 1 /\ s[1] = k
  OBVIOUS
<1> HIDE DEF s
<1>2. /\ Total(SubSeq(s, 1, 0)) = 0 /\ Total(SubSeq(s, 1, Len(s))) = Total(s)
      /\ \A i \in 1 .. Len(s) : Total(SubSeq(s, 1, i)) = Total(SubSeq(s, 1, i - 1)) + s[i]
  BY <1>1, TotalIs
<1>3. Total(SubSeq(s, 1, 1)) = Total(SubSeq(s, 1, 0)) + k
  BY <1>1, <1>2
<1> QED
  BY <1>1, <1>2, <1>3 DEF s

-----------------------------------------------------------------------------
(* Streams: pieces one after the other, of which the last may be missing.  *)

\* at[i] is where the pieces up to the i-th end.
LaidOut(s, q, at) ==
    /\ at \in [0 .. Len(q) -> Int]
    /\ at[0] = 0 /\ \A i \in 1 .. Len(q) : at[i] = at[i - 1] + Len(q[i])
    /\ Len(s) <= at[Len(q)]
    /\ \A i \in 1 .. Len(q) : \A j \in 1 .. Len(q[i]) :
          at[i - 1] + j <= Len(s) => s[at[i - 1] + j] = q[i][j]

\* A beginning of the pieces, and all of them.
Begins(s, q) == \E at : LaidOut(s, q, at)
Holds(s, q) == \E at : LaidOut(s, q, at) /\ Len(s) = at[Len(q)]

LEMMA HoldsNone == Holds(<<>>, <<>>)
<1> DEFINE at == [i \in 0 .. 0 |-> 0]
<1>1. LaidOut(<<>>, <<>>, at) /\ Len(<<>>) = at[Len(<<>>)]
  BY DEF LaidOut
<1> QED
  BY <1>1 DEF Holds

LEMMA LaidUp ==
    ASSUME NEW s, NEW T, NEW q \in Seq(Seq(T)), NEW at, LaidOut(s, q, at)
    PROVE  \A i \in 1 .. Len(q) :
              /\ 0 <= at[i - 1] /\ at[i] = at[i - 1] + Len(q[i]) /\ at[i] <= at[Len(q)]
              /\ at[i - 1] \in Int /\ at[i] \in Int
<1> DEFINE n == Len(q)
<1>1. n \in Nat /\ \A i \in 1 .. n : Len(q[i]) \in Nat
  OBVIOUS
<1>2. /\ at \in [0 .. n -> Int] /\ at[0] = 0
      /\ \A i \in 1 .. n : at[i] = at[i - 1] + Len(q[i])
  BY DEF LaidOut
<1> HIDE DEF n
<1> DEFINE Up == {i \in 0 .. n : 0 <= at[i]}
           Down == {i \in 0 .. n : at[n - i] <= at[n]}
<1>3. \A i \in 0 .. n : i \in Up
  <2>1. 0 \in Up
    BY <1>1, <1>2
  <2>2. ASSUME NEW i \in 1 .. n, i - 1 \in Up PROVE i \in Up
    <3>1. i \in 0 .. n /\ at[i] = at[i - 1] + Len(q[i]) /\ 0 <= at[i - 1] /\ Len(q[i]) \in Nat
      BY <1>1, <1>2, <2>2
    <3>2. at[i] \in Int /\ at[i - 1] \in Int
      BY <1>1, <1>2, <3>1
    <3> QED
      BY <3>1, <3>2
  <2> HIDE DEF Up
  <2> QED
    BY <1>1, <2>1, <2>2, UpTo
<1>4. \A i \in 0 .. n : i \in Down
  <2>1. 0 \in Down
    BY <1>1, <1>2
  <2>2. ASSUME NEW i \in 1 .. n, i - 1 \in Down PROVE i \in Down
    <3> DEFINE k == n - i
    <3>1. k \in 0 .. n /\ k + 1 \in 1 .. n /\ n - (i - 1) = k + 1 /\ (k + 1) - 1 = k /\ i \in 0 .. n
      BY <1>1
    <3>2. at[k + 1] <= at[n]
      BY <2>2, <3>1
    <3> HIDE DEF k
    <3>3. /\ at[k + 1] = at[k] + Len(q[k + 1]) /\ Len(q[k + 1]) \in Nat
          /\ at[k] \in Int /\ at[k + 1] \in Int /\ at[n] \in Int
      BY <1>1, <1>2, <3>1
    <3>4. at[k] <= at[n]
      BY <3>2, <3>3
    <3> QED
      BY <3>1, <3>4 DEF k
  <2> HIDE DEF Down
  <2> QED
    BY <1>1, <2>1, <2>2, UpTo
<1> SUFFICES ASSUME NEW i \in 1 .. n
             PROVE  /\ 0 <= at[i - 1] /\ at[i] = at[i - 1] + Len(q[i]) /\ at[i] <= at[n]
                    /\ at[i - 1] \in Int /\ at[i] \in Int
  BY DEF n
<1>5. i - 1 \in Up /\ n - i \in Down /\ n - (n - i) = i /\ i \in 0 .. n /\ i - 1 \in 0 .. n
  <2>1. i - 1 \in 0 .. n /\ n - i \in 0 .. n /\ n - (n - i) = i /\ i \in 0 .. n
    BY <1>1
  <2> HIDE DEF Up, Down
  <2> QED
    BY <1>3, <1>4, <2>1
<1> QED
  BY <1>2, <1>5

LEMMA HoldsMore ==
    ASSUME NEW T, NEW s \in Seq(T), NEW q \in Seq(Seq(T)), NEW x \in Seq(T), Holds(s, q)
    PROVE  Holds(s \o x, Append(q, x))
<1>1. PICK at : LaidOut(s, q, at) /\ Len(s) = at[Len(q)]
  BY DEF Holds
<1> DEFINE n == Len(q)
           r == Append(q, x)
           t == s \o x
           to == [i \in 0 .. n + 1 |-> IF i = n + 1 THEN at[n] + Len(x) ELSE at[i]]
<1>2. /\ n \in Nat /\ Len(r) = n + 1 /\ \A i \in 1 .. n : r[i] = q[i]
      /\ r[n + 1] = x /\ Len(s) \in Nat /\ Len(x) \in Nat
      /\ \A i \in 1 .. n : Len(q[i]) \in Nat
  BY AppendProperties
<1>3. /\ Len(t) = Len(s) + Len(x)
      /\ \A i \in 1 .. Len(s) : t[i] = s[i]
      /\ \A j \in 1 .. Len(x) : t[Len(s) + j] = x[j]
  <2>1. Len(t) = Len(s) + Len(x)
    BY ConcatProperties
  <2>2. \A i \in 1 .. Len(s) + Len(x) : t[i] = IF i <= Len(s) THEN s[i] ELSE x[i - Len(s)]
    BY ConcatProperties
  <2> HIDE DEF t
  <2>3. ASSUME NEW j \in 1 .. Len(x) PROVE t[Len(s) + j] = x[j]
    <3>1. Len(s) + j \in 1 .. Len(s) + Len(x) /\ ~(Len(s) + j <= Len(s)) /\ Len(s) + j - Len(s) = j
      BY <1>2
    <3> QED
      BY <2>2, <3>1
  <2> QED
    BY <1>2, <2>1, <2>2, <2>3
<1>4. at \in [0 .. n -> Int] /\ at[n] = Len(s)
  BY <1>1 DEF LaidOut
<1>9. \A i \in 1 .. n : /\ 0 <= at[i - 1] /\ at[i] = at[i - 1] + Len(q[i]) /\ at[i] <= at[n]
                       /\ at[i - 1] \in Int /\ at[i] \in Int
  <2>1. LaidOut(s, q, at)
    BY <1>1
  <2> QED
    BY <2>1, LaidUp
<1> HIDE DEF r, t, n
<1>5. to \in [0 .. n + 1 -> Int] /\ to[n + 1] = Len(t) /\ \A i \in 0 .. n : to[i] = at[i]
  BY <1>2, <1>3, <1>4
<1>6. to[0] = 0 /\ \A i \in 1 .. n + 1 : to[i] = to[i - 1] + Len(r[i])
  <2>1. at[0] = 0 /\ \A i \in 1 .. n : at[i] = at[i - 1] + Len(q[i])
    BY <1>1 DEF LaidOut, n
  <2> HIDE DEF to
  <2>2. ASSUME NEW i \in 1 .. n PROVE to[i] = to[i - 1] + Len(r[i])
    <3>1. i \in 0 .. n /\ i - 1 \in 0 .. n
      BY <1>2
    <3>2. to[i] = at[i] /\ to[i - 1] = at[i - 1] /\ r[i] = q[i]
      BY <1>2, <1>5, <3>1
    <3> QED
      BY <2>1, <3>2
  <2>3. to[n + 1] = to[n] + Len(r[n + 1])
    <3>1. n \in 0 .. n
      BY <1>2
    <3>2. to[n] = at[n] /\ to[n + 1] = Len(t) /\ r[n + 1] = x
      BY <1>2, <1>5, <3>1
    <3> QED
      BY <1>3, <1>4, <3>2
  <2>4. 0 \in 0 .. n /\ (n + 1) - 1 = n /\ \A i \in 1 .. n + 1 : i = n + 1 \/ i \in 1 .. n
    BY <1>2
  <2> QED
    BY <1>5, <2>1, <2>2, <2>3, <2>4
<1>7. ASSUME NEW i \in 1 .. n + 1, NEW j \in 1 .. Len(r[i]), to[i - 1] + j <= Len(t)
      PROVE  t[to[i - 1] + j] = r[i][j]
  <2> HIDE DEF to
  <2>1. CASE i = n + 1
    <3>1. to[i - 1] = Len(s) /\ r[i] = x
      BY <1>2, <1>4, <1>5, <2>1
    <3> QED
      BY <1>3, <1>7, <3>1
  <2>2. CASE i # n + 1
    <3>1. i \in 1 .. n /\ i - 1 \in 0 .. n /\ r[i] = q[i] /\ to[i - 1] = at[i - 1]
      <4>1. n \in Nat
        BY <1>2
      <4>2. i \in 1 .. n /\ i - 1 \in 0 .. n
        BY <2>2, <4>1
      <4> QED
        BY <1>2, <1>5, <4>2
    <3>2. at[i - 1] + j \in 1 .. Len(s)
      <4>1. /\ 0 <= at[i - 1] /\ at[i] = at[i - 1] + Len(q[i]) /\ at[i] <= at[n]
            /\ at[i - 1] \in Int /\ at[i] \in Int
        BY <1>9, <3>1
      <4>2. j \in 1 .. Len(q[i]) /\ Len(q[i]) \in Nat /\ j \in Int
        BY <1>2, <3>1
      <4>3. Len(s) \in Int /\ at[i] <= Len(s)
        BY <1>2, <1>4, <4>1
      <4> QED
        BY <4>1, <4>2, <4>3, SMTT(20)
    <3>3. s[at[i - 1] + j] = q[i][j]
      BY <1>1, <1>2, <1>7, <3>1, <3>2 DEF LaidOut, n
    <3> QED
      BY <1>3, <3>1, <3>2, <3>3
  <2> QED
    BY <2>1, <2>2
<1>8. LaidOut(t, r, to)
  <2> HIDE DEF to
  <2> QED
    BY <1>2, <1>3, <1>5, <1>6, <1>7 DEF LaidOut
<1> QED
  BY <1>2, <1>5, <1>8 DEF Holds, t, r

LEMMA HoldsBegins == ASSUME NEW s, NEW q, Holds(s, q) PROVE Begins(s, q)
  BY DEF Holds, Begins

LEMMA BeginsLess ==
    ASSUME NEW T, NEW s \in Seq(T), NEW q \in Seq(Seq(T)), Begins(s, q), NEW k \in 0 .. Len(s)
    PROVE  Begins(SubSeq(s, 1, k), q)
<1>1. PICK at : LaidOut(s, q, at)
  BY DEF Begins
<1> DEFINE t == SubSeq(s, 1, k)
<1>2. Len(t) = k /\ \A i \in 1 .. k : t[i] = s[i]
  BY BeginningIs
<1>3. \A i \in 1 .. Len(q) : /\ 0 <= at[i - 1] /\ at[i - 1] \in Int /\ Len(q[i]) \in Nat
  BY <1>1, LaidUp
<1>4. at \in [0 .. Len(q) -> Int] /\ Len(q) \in Nat /\ Len(s) \in Nat
  BY <1>1 DEF LaidOut
<1> HIDE DEF t
<1>5. Len(t) <= at[Len(q)]
  <2>1. Len(s) <= at[Len(q)] /\ at[Len(q)] \in Int
    BY <1>1, <1>4 DEF LaidOut
  <2> QED
    BY <1>2, <1>4, <2>1
<1>6. ASSUME NEW i \in 1 .. Len(q), NEW j \in 1 .. Len(q[i]), at[i - 1] + j <= Len(t)
      PROVE  t[at[i - 1] + j] = q[i][j]
  <2>1. at[i - 1] + j \in 1 .. k /\ at[i - 1] + j <= Len(s)
    <3>1. 0 <= at[i - 1] /\ at[i - 1] \in Int /\ Len(q[i]) \in Nat
      BY <1>3
    <3> QED
      BY <1>2, <1>4, <1>6, <3>1
  <2>2. s[at[i - 1] + j] = q[i][j]
    BY <1>1, <2>1 DEF LaidOut
  <2> QED
    BY <1>2, <2>1, <2>2
<1>7. LaidOut(t, q, at)
  <2>1. at[0] = 0 /\ \A i \in 1 .. Len(q) : at[i] = at[i - 1] + Len(q[i])
    BY <1>1 DEF LaidOut
  <2> QED
    BY <1>4, <1>5, <1>6, <2>1 DEF LaidOut
<1> QED
  BY <1>7 DEF Begins, t

LEMMA HeadOf ==
    ASSUME NEW T, NEW s \in Seq(T), NEW q \in Seq(Seq(T)), Begins(s, q), s # <<>>,
           \A i \in 1 .. Len(q) : Len(q[i]) > 0
    PROVE  q # <<>> /\ Head(s) = q[1][1]
<1>1. PICK at : LaidOut(s, q, at)
  BY DEF Begins
<1>2. Len(s) \in Nat \ {0} /\ Len(q) \in Nat /\ Head(s) = s[1]
  BY EmptySeq
<1>3. at[0] = 0 /\ Len(s) <= at[Len(q)]
  BY <1>1 DEF LaidOut
<1>4. Len(q) # 0
  BY <1>2, <1>3
<1>5. 1 \in 1 .. Len(q) /\ Len(q[1]) > 0 /\ Len(q[1]) \in Nat
  BY <1>2, <1>4
<1>6. 1 \in 1 .. Len(q[1]) /\ at[1 - 1] + 1 = 1 /\ at[1 - 1] + 1 <= Len(s)
  BY <1>2, <1>3, <1>5
<1>7. s[at[1 - 1] + 1] = q[1][1]
  BY <1>1, <1>5, <1>6 DEF LaidOut
<1>8. q # <<>>
  BY <1>4
<1> QED
  BY <1>2, <1>6, <1>7, <1>8

LEMMA FromIs ==
    ASSUME NEW T, NEW s \in Seq(T), NEW n \in 0 .. Len(s)
    PROVE  /\ From(s, n) \in Seq(T) /\ Len(From(s, n)) = Len(s) - n
           /\ \A i \in 1 .. Len(s) - n : From(s, n)[i] = s[n + i]
<1>1. Len(s) \in Nat /\ n \in Nat /\ n <= Len(s)
  OBVIOUS
<1>2. n + 1 \in Int /\ Len(s) \in Int /\ \A i \in n + 1 .. Len(s) : s[i] \in T
  BY <1>1
<1> DEFINE u == SubSeq(s, n + 1, Len(s))
<1>3. /\ u \in Seq(T) /\ Len(u) = IF n + 1 <= Len(s) THEN Len(s) - (n + 1) + 1 ELSE 0
      /\ \A i \in 1 .. Len(s) - (n + 1) + 1 : u[i] = s[n + 1 + i - 1]
  BY <1>2, SubSeqProperties
<1> HIDE DEF u
<1>4. Len(u) = Len(s) - n /\ Len(s) - (n + 1) + 1 = Len(s) - n
  BY <1>1, <1>3
<1>5. \A i \in 1 .. Len(s) - n : n + 1 + i - 1 = n + i
  BY <1>1
<1> QED
  BY <1>3, <1>4, <1>5 DEF u, From

LEMMA RestOf ==
    ASSUME NEW T, NEW s \in Seq(T), NEW q \in Seq(Seq(T)), q # <<>>
    PROVE  /\ Begins(s, q) /\ Len(s) >= Len(q[1]) =>
                /\ SubSeq(s, 1, Len(q[1])) = q[1]
                /\ Begins(From(s, Len(q[1])), Tail(q))
           /\ Holds(s, q) =>
                /\ Len(s) >= Len(q[1])
                /\ Holds(From(s, Len(q[1])), Tail(q))
<1> DEFINE r == Tail(q)
           d == Len(q[1])
           t == From(s, d)
           n == Len(q)
<1>1. /\ n \in Nat \ {0} /\ q[1] \in Seq(T) /\ d \in Nat /\ Len(s) \in Nat /\ 1 \in 1 .. n
      /\ Len(r) = n - 1 /\ \A i \in 1 .. n - 1 : r[i] = q[i + 1]
      /\ \A i \in 1 .. n : Len(q[i]) \in Nat
  BY EmptySeq, HeadTailProperties
<1> HIDE DEF r, n
<1>2. ASSUME NEW at, LaidOut(s, q, at), Len(s) >= d
      PROVE  /\ SubSeq(s, 1, d) = q[1]
             /\ \E to : LaidOut(t, r, to) /\ (Len(s) = at[n] => Len(t) = to[Len(r)])
  <2> DEFINE to == [i \in 0 .. n - 1 |-> at[i + 1] - d]
  <2>1. /\ at \in [0 .. n -> Int] /\ at[0] = 0
        /\ \A i \in 1 .. n : at[i] = at[i - 1] + Len(q[i])
        /\ Len(s) <= at[n]
    BY <1>2 DEF LaidOut, n
  <2>2. \A i \in 1 .. n : /\ 0 <= at[i - 1] /\ at[i] = at[i - 1] + Len(q[i]) /\ at[i] <= at[n]
                          /\ at[i - 1] \in Int /\ at[i] \in Int
    BY <1>2, LaidUp DEF n
  <2>3. at[1] = d
    <3>1. at[1] = at[1 - 1] + Len(q[1]) /\ 1 - 1 = 0
      BY <1>1, <2>1
    <3> QED
      BY <1>1, <2>1, <3>1
  <2>4. SubSeq(s, 1, d) = q[1]
    <3>1. d \in 0 .. Len(s)
      BY <1>1, <1>2
    <3>2. /\ SubSeq(s, 1, d) \in Seq(T) /\ Len(SubSeq(s, 1, d)) = d
          /\ \A i \in 1 .. d : SubSeq(s, 1, d)[i] = s[i]
      BY <3>1, BeginningIs
    <3>3. ASSUME NEW i \in 1 .. d PROVE s[i] = q[1][i]
      <4>1. at[1 - 1] + i = i /\ i <= Len(s)
        BY <1>1, <1>2, <2>1
      <4>2. s[at[1 - 1] + i] = q[1][i]
        BY <1>1, <1>2, <4>1 DEF LaidOut, n
      <4> QED
        BY <4>1, <4>2
    <3> QED
      BY <1>1, <3>2, <3>3, SeqEqual
  <2>5. t \in Seq(T) /\ Len(t) = Len(s) - d /\ \A i \in 1 .. Len(s) - d : t[i] = s[d + i]
    <3>1. d \in 0 .. Len(s)
      BY <1>1, <1>2
    <3> HIDE DEF d
    <3> QED
      BY <3>1, FromIs
  <2> HIDE DEF t
  <2>6. /\ to \in [0 .. n - 1 -> Int] /\ \A i \in 0 .. n - 1 : to[i] = at[i + 1] - d
    <3>1. \A i \in 0 .. n - 1 : i + 1 \in 0 .. n
      BY <1>1
    <3> QED
      BY <1>1, <2>1, <3>1
  <2> HIDE DEF to, d
  <2>7. to[0] = 0 /\ to[n - 1] = at[n] - d
    BY <1>1, <2>3, <2>6
  <2>8. ASSUME NEW i \in 1 .. n - 1 PROVE to[i] = to[i - 1] + Len(r[i])
    <3>1. i \in 0 .. n - 1 /\ i - 1 \in 0 .. n - 1 /\ i + 1 \in 1 .. n /\ (i + 1) - 1 = i /\ (i - 1) + 1 = i
      BY <1>1
    <3>2. at[i + 1] = at[i] + Len(q[i + 1]) /\ at[i + 1] \in Int /\ at[i] \in Int
      BY <2>2, <3>1
    <3>3. to[i] = at[i + 1] - d /\ to[i - 1] = at[i] - d /\ r[i] = q[i + 1] /\ Len(q[i + 1]) \in Nat
      BY <1>1, <2>6, <3>1
    <3>4. d \in Nat
      BY <1>1
    <3> QED
      BY <3>2, <3>3, <3>4, SMTT(20)
  <2>9. ASSUME NEW i \in 1 .. n - 1, NEW j \in 1 .. Len(r[i]), to[i - 1] + j <= Len(t)
        PROVE  t[to[i - 1] + j] = r[i][j]
    <3>1. i \in 0 .. n - 1 /\ i - 1 \in 0 .. n - 1 /\ i + 1 \in 1 .. n /\ (i + 1) - 1 = i /\ (i - 1) + 1 = i
      BY <1>1
    <3>2. to[i - 1] = at[i] - d /\ at[i] \in Int /\ r[i] = q[i + 1] /\ Len(q[i + 1]) \in Nat
      BY <1>1, <2>2, <2>6, <3>1
    <3>3. d <= at[i]
      <4> DEFINE G == {k \in 0 .. n - 1 : d <= at[k + 1]}
      <4>1. 0 \in G
        BY <1>1, <2>3
      <4>2. ASSUME NEW k \in 1 .. n - 1, k - 1 \in G PROVE k \in G
        <5>1. k + 1 \in 1 .. n /\ (k + 1) - 1 = k /\ (k - 1) + 1 = k /\ k \in 1 .. n
          BY <1>1
        <5>2. d <= at[k]
          BY <4>2, <5>1
        <5>3. at[k + 1] = at[k] + Len(q[k + 1]) /\ at[k + 1] \in Int /\ at[k] \in Int /\ Len(q[k + 1]) \in Nat
          BY <1>1, <2>2, <5>1
        <5>4. d <= at[k + 1]
          <6>1. d \in Nat
            BY <1>1
          <6> QED
            BY <5>2, <5>3, <6>1, SMTT(20)
        <5> QED
          BY <5>1, <5>4
      <4> HIDE DEF G
      <4>3. n - 1 \in Nat
        BY <1>1
      <4> DEFINE m == n - 1
      <4> HIDE DEF m
      <4>4. \A k \in 0 .. m : k \in G
        BY <4>1, <4>2, <4>3, UpTo DEF m
      <4>5. i - 1 \in 0 .. m
        BY <3>1 DEF m
      <4> QED
        BY <3>1, <4>4, <4>5 DEF G
    <3>4. to[i - 1] + j \in 1 .. Len(s) - d /\ d + (to[i - 1] + j) = at[i] + j /\ at[i] + j <= Len(s)
      <4>1. j \in 1 .. Len(q[i + 1]) /\ j \in Int /\ d \in Int /\ Len(s) \in Int /\ Len(t) = Len(s) - d
        BY <1>1, <2>5, <3>2
      <4>2. at[i] - d + j <= Len(t)
        BY <2>9, <3>2
      <4>3. to[i - 1] = at[i] - d /\ at[i] \in Int
        BY <3>2
      <4>4. 1 <= j /\ d <= at[i]
        BY <3>3, <4>1
      <4>5. \A a, b, c, e, l \in Int : 1 <= c /\ b <= a /\ e = a - b /\ a - b + c <= l - b =>
                e + c \in 1 .. l - b /\ b + (e + c) = a + c /\ a + c <= l
        OBVIOUS
      <4>6. at[i] \in Int /\ d \in Int /\ j \in Int /\ to[i - 1] \in Int /\ Len(s) \in Int
        BY <4>1, <4>3
      <4>7. at[i] - d + j <= Len(s) - d
        BY <4>1, <4>2
      <4> QED
        BY <4>3, <4>4, <4>5, <4>6, <4>7, SMTT(20)
    <3>5. s[at[(i + 1) - 1] + j] = q[i + 1][j]
      BY <1>2, <3>1, <3>2, <3>4 DEF LaidOut, n
    <3> QED
      BY <2>5, <3>1, <3>2, <3>4, <3>5
  <2>10. LaidOut(t, r, to) /\ (Len(s) = at[n] => Len(t) = to[Len(r)])
    <3>1. Len(t) <= to[n - 1] /\ (Len(s) = at[n] => Len(t) = to[n - 1])
      BY <1>1, <2>1, <2>5, <2>7
    <3> QED
      BY <1>1, <2>6, <2>7, <2>8, <2>9, <3>1 DEF LaidOut
  <2> QED
    BY <2>4, <2>10 DEF d
<1>3. ASSUME Begins(s, q), Len(s) >= d PROVE SubSeq(s, 1, d) = q[1] /\ Begins(t, r)
  <2>1. PICK at : LaidOut(s, q, at)
    BY <1>3 DEF Begins
  <2> HIDE DEF d, t
  <2> QED
    BY <1>2, <1>3, <2>1 DEF Begins
<1>4. ASSUME Holds(s, q) PROVE Len(s) >= d /\ Holds(t, r)
  <2>1. PICK at : LaidOut(s, q, at) /\ Len(s) = at[n]
    BY <1>4 DEF Holds, n
  <2>2. Len(s) >= d
    <3>1. at[1] = at[1 - 1] + d /\ 0 <= at[1 - 1] /\ at[1] <= at[n] /\ at[1 - 1] \in Int /\ at[1] \in Int
      <4>1. LaidOut(s, q, at)
        BY <2>1
      <4>2. \A i \in 1 .. n : /\ 0 <= at[i - 1] /\ at[i] = at[i - 1] + Len(q[i]) /\ at[i] <= at[n]
                              /\ at[i - 1] \in Int /\ at[i] \in Int
        BY <4>1, LaidUp DEF n
      <4> QED
        BY <1>1, <4>2
    <3> QED
      BY <1>1, <2>1, <3>1
  <2> HIDE DEF d, t
  <2> QED
    BY <1>2, <2>1, <2>2 DEF Holds
<1> QED
  BY <1>3, <1>4 DEF r

\* Flattening joins one sequence after another.
LEMMA FlattenRuns ==
    ASSUME NEW T, NEW q \in Seq(Seq(T))
    PROVE  \E P : /\ P \in [0 .. Len(q) -> Seq(T)] /\ P[0] = <<>>
                  /\ \A i \in 1 .. Len(q) : P[i] = P[i - 1] \o q[i]
                  /\ FlattenSeq(q) = P[Len(q)]
<1> DEFINE n == Len(q)
           step == [p \in (1 .. n) \X Seq(T) |-> p[2] \o q[p[1]]]
           Body(g) == [i \in 1 .. n |-> IF i = 1 THEN q[i] ELSE g[i - 1] \o q[i]]
           flatten == CHOOSE g : g = Body(g)
<1>1. n \in Nat /\ <<>> \in Seq(T) /\ \A i \in 1 .. n : q[i] \in Seq(T)
  BY EmptySeq
<1>2. PICK P : LoopsTo(P, n, Seq(T), <<>>, step)
  <2>1. step \in [(1 .. n) \X Seq(T) -> Seq(T)]
    BY <1>1
  <2> HIDE DEF step, n
  <2> QED
    BY <1>1, <2>1, LoopRuns
<1>3. /\ P \in [0 .. n -> Seq(T)] /\ P[0] = <<>>
      /\ \A i \in 1 .. n : P[i] = P[i - 1] \o q[i]
  <2>1. P \in [0 .. n -> Seq(T)] /\ P[0] = <<>> /\ \A i \in 1 .. n : P[i] = step[<<i, P[i - 1]>>]
    BY <1>2 DEF LoopsTo
  <2>2. \A i \in 1 .. n : i - 1 \in 0 .. n
    BY <1>1
  <2>3. \A i \in 1 .. n : P[i - 1] \in Seq(T)
    BY <2>1, <2>2
  <2>4. \A i \in 1 .. n : step[<<i, P[i - 1]>>] = P[i - 1] \o q[i]
    BY <2>3
  <2> QED
    BY <2>1, <2>4
<1>4. CASE n = 0
  <2>1. q = <<>> /\ FlattenSeq(q) = <<>>
    BY <1>4 DEF FlattenSeq
  <2> QED
    BY <1>3, <1>4, <2>1
<1>5. CASE n # 0
  <2>1. FlattenSeq(q) = flatten[n]
    BY <1>5 DEF FlattenSeq
  <2> HIDE DEF n
  <2>2. \E f : f = Body(f)
    <3> DEFINE f == [i \in 1 .. n |-> P[i]]
    <3>1. P[1] = q[1]
      <4>1. 1 \in 1 .. n /\ 1 - 1 = 0
        BY <1>1, <1>5
      <4>2. P[1] = P[1 - 1] \o q[1] /\ q[1] \in Seq(T)
        BY <1>1, <1>3, <4>1
      <4>3. P[1 - 1] = <<>>
        BY <1>3, <4>1
      <4> QED
        BY <4>2, <4>3, ConcatEmptySeq
    <3>2. ASSUME NEW i \in 1 .. n PROVE f[i] = Body(f)[i]
      <4>1. CASE i = 1
        BY <3>1, <4>1
      <4>2. CASE i # 1
        <5>1. i - 1 \in 1 .. n /\ i \in 1 .. n
          BY <1>1, <4>2
        <5>2. f[i] = P[i] /\ f[i - 1] = P[i - 1] /\ P[i] = P[i - 1] \o q[i]
          BY <1>3, <5>1
        <5> QED
          BY <4>2, <5>1, <5>2
      <4> QED
        BY <4>1, <4>2
    <3>3. f = Body(f)
      BY <3>2
    <3> QED
      BY <3>3
  <2>3. flatten = Body(flatten)
    BY <2>2
  <2> HIDE DEF flatten
  <2>4. \A i \in 1 .. n : flatten[i] = IF i = 1 THEN q[i] ELSE flatten[i - 1] \o q[i]
    BY <2>3
  <2> DEFINE G == {i \in 0 .. n : i # 0 => flatten[i] = P[i]}
  <2>5. 0 \in G
    BY <1>1
  <2>6. ASSUME NEW i \in 1 .. n, i - 1 \in G PROVE i \in G
    <3>1. i \in 0 .. n /\ q[i] \in Seq(T) /\ P[i] = P[i - 1] \o q[i]
      <4> HIDE DEF G
      <4>1. i \in 0 .. n /\ q[i] \in Seq(T)
        BY <1>1
      <4> QED
        BY <1>3, <4>1
    <3>2. CASE i = 1
      <4>1. i - 1 = 0
        BY <3>2
      <4>2. P[i - 1] = <<>>
        BY <1>3, <4>1
      <4>3. <<>> \o q[i] = q[i]
        BY <3>1, ConcatEmptySeq
      <4>4. flatten[i] = P[i]
        BY <2>4, <3>1, <3>2, <4>2, <4>3
      <4> QED
        BY <3>1, <4>4
    <3>3. CASE i # 1
      <4>1. i - 1 # 0 /\ flatten[i - 1] = P[i - 1]
        BY <2>6, <3>3
      <4>2. flatten[i] = P[i]
        BY <2>4, <3>1, <3>3, <4>1
      <4> QED
        BY <3>1, <4>2
    <3> QED
      BY <3>2, <3>3
  <2> HIDE DEF G
  <2>7. n \in G
    <3>1. \A i \in 0 .. n : i \in G
      BY <1>1, <2>5, <2>6, UpTo
    <3> QED
      BY <1>1, <3>1
  <2>8. flatten[n] = P[n]
    BY <1>5, <2>7 DEF G
  <2> QED
    BY <1>3, <2>1, <2>8 DEF n
<1> QED
  BY <1>4, <1>5

\* What is flattened is its pieces, one after the other.
LEMMA FlattenHolds ==
    ASSUME NEW T, NEW q \in Seq(Seq(T))
    PROVE  FlattenSeq(q) \in Seq(T) /\ Holds(FlattenSeq(q), q)
<1> DEFINE n == Len(q)
<1>1. n \in Nat /\ <<>> \in Seq(T) /\ \A i \in 1 .. n : q[i] \in Seq(T)
  BY EmptySeq
<1>2. PICK P : /\ P \in [0 .. n -> Seq(T)] /\ P[0] = <<>>
               /\ \A i \in 1 .. n : P[i] = P[i - 1] \o q[i]
               /\ FlattenSeq(q) = P[n]
  BY FlattenRuns
<1> HIDE DEF n
<1> DEFINE first(i) == SubSeq(q, 1, i)
           G == {i \in 0 .. n : P[i] \in Seq(T) /\ Holds(P[i], first(i))}
<1>3. 0 \in G
  <2>1. first(0) = <<>>
    BY SubSeqEmpty
  <2>2. P[0] = <<>> /\ 0 \in 0 .. n
    BY <1>1, <1>2
  <2> QED
    BY <1>1, <2>1, <2>2, HoldsNone
<1>4. ASSUME NEW i \in 1 .. n, i - 1 \in G PROVE i \in G
  <2>1. P[i - 1] \in Seq(T) /\ Holds(P[i - 1], first(i - 1)) /\ q[i] \in Seq(T) /\ P[i] = P[i - 1] \o q[i]
    BY <1>1, <1>2, <1>4
  <2>2. P[i] \in Seq(T)
    BY <2>1, ConcatProperties
  <2>3. first(i) = Append(first(i - 1), q[i]) /\ first(i - 1) \in Seq(Seq(T))
    <3>1. i \in 0 .. Len(q) /\ i - 1 \in 0 .. Len(q)
      BY <1>1 DEF n
    <3>2. /\ first(i) \in Seq(Seq(T)) /\ Len(first(i)) = i /\ \A k \in 1 .. i : first(i)[k] = q[k]
      BY <3>1, BeginningIs
    <3>3. /\ first(i - 1) \in Seq(Seq(T)) /\ Len(first(i - 1)) = i - 1
          /\ \A k \in 1 .. i - 1 : first(i - 1)[k] = q[k]
      BY <3>1, BeginningIs
    <3> DEFINE x == first(i)
               y == first(i - 1)
               z == Append(y, q[i])
    <3> HIDE DEF first
    <3>4. /\ z \in Seq(Seq(T)) /\ Len(z) = Len(y) + 1
          /\ \A k \in 1 .. Len(y) : z[k] = y[k]
          /\ z[Len(y) + 1] = q[i]
      BY <2>1, <3>3, AppendProperties
    <3> HIDE DEF x, y, z
    <3>5. ASSUME NEW k \in 1 .. i PROVE x[k] = z[k]
      <4>1. x[k] = q[k]
        BY <3>2 DEF x
      <4>2. CASE k = i
        BY <3>3, <3>4, <4>1, <4>2 DEF y
      <4>3. CASE k # i
        <5>1. k \in 1 .. i - 1
          BY <4>3
        <5> QED
          BY <3>3, <3>4, <4>1, <5>1 DEF y
      <4> QED
        BY <4>2, <4>3
    <3>6. Len(x) = i /\ Len(z) = i /\ x \in Seq(Seq(T))
      BY <3>2, <3>3, <3>4 DEF x, y
    <3>7. x = z
      BY <3>4, <3>5, <3>6, SeqEqual
    <3> QED
      BY <3>3, <3>7 DEF x, y, z
  <2> HIDE DEF first
  <2>4. Holds(P[i], first(i))
    BY <2>1, <2>3, HoldsMore
  <2> QED
    BY <1>1, <2>2, <2>4
<1> HIDE DEF G
<1>5. \A i \in 0 .. n : i \in G
  BY <1>1, <1>3, <1>4, UpTo
<1>6. n \in G
  BY <1>1, <1>5
<1>7. first(n) = q
  BY SubSeqFull DEF n
<1> QED
  BY <1>2, <1>6, <1>7 DEF G

\* Cut at the lengths of its pieces, a stream is its pieces again.
LEMMA CutHolds ==
    ASSUME NEW T, NEW s \in Seq(T), NEW q \in Seq(Seq(T)), Holds(s, q),
           NEW lens \in Seq(Nat), Len(lens) = Len(q), \A p \in 1 .. Len(q) : lens[p] = Len(q[p])
    PROVE  Len(s) = Total(lens) /\ Cut(s, lens) = q
<1>1. PICK at : LaidOut(s, q, at) /\ Len(s) = at[Len(q)]
  BY DEF Holds
<1> DEFINE n == Len(q)
           O(i) == Total(SubSeq(lens, 1, i))
<1>2. /\ n \in Nat /\ DOMAIN q = 1 .. n /\ DOMAIN lens = 1 .. n /\ Len(s) \in Nat
      /\ \A i \in 1 .. n : q[i] \in Seq(T) /\ Len(q[i]) \in Nat /\ lens[i] = Len(q[i])
  OBVIOUS
<1>3. \A i \in 1 .. n : /\ 0 <= at[i - 1] /\ at[i] = at[i - 1] + Len(q[i]) /\ at[i] <= at[n]
                        /\ at[i - 1] \in Int /\ at[i] \in Int
  <2>1. LaidOut(s, q, at)
    BY <1>1
  <2> QED
    BY <2>1, LaidUp
<1>4. O(0) = 0 /\ O(n) = Total(lens) /\ \A i \in 1 .. n : O(i) = O(i - 1) + lens[i]
  BY TotalIs
<1> HIDE DEF n, O
<1>5. \A i \in 0 .. n : O(i) = at[i]
  <2> DEFINE G == {i \in 0 .. n : O(i) = at[i]}
  <2>1. 0 \in G
    BY <1>1, <1>2, <1>4 DEF LaidOut
  <2>2. ASSUME NEW i \in 1 .. n, i - 1 \in G PROVE i \in G
    <3>1. O(i - 1) = at[i - 1]
      BY <2>2
    <3>2. O(i) = at[i] /\ i \in 0 .. n
      BY <1>2, <1>3, <1>4, <3>1
    <3> QED
      BY <3>2
  <2> HIDE DEF G
  <2>3. \A i \in 0 .. n : i \in G
    BY <1>2, <2>1, <2>2, UpTo
  <2> QED
    BY <2>3 DEF G
<1>6. Len(s) = Total(lens)
  <2>1. n \in 0 .. n
    BY <1>2
  <2> QED
    BY <1>1, <1>4, <1>5, <2>1 DEF n
<1>7. ASSUME NEW p \in 1 .. n PROVE SubSeq(s, O(p - 1) + 1, O(p)) = q[p]
  <2>1. p \in 0 .. n /\ p - 1 \in 0 .. n
    BY <1>2
  <2> DEFINE a == at[p - 1]
             b == at[p]
             l == Len(q[p])
             u == SubSeq(s, a + 1, b)
  <2>2. a \in Int /\ b \in Int /\ 0 <= a /\ l \in Nat /\ b = a + l /\ b <= Len(s)
    <3>1. at[n] = Len(s)
      BY <1>1 DEF n
    <3> QED
      BY <1>2, <1>3, <3>1
  <2>3. \A j \in 1 .. l : a + j <= Len(s) => s[a + j] = q[p][j]
    BY <1>1 DEF LaidOut, n
  <2>4. O(p - 1) = a /\ O(p) = b
    BY <1>5, <2>1
  <2>5. q[p] \in Seq(T) /\ Len(q[p]) = l
    BY <1>2
  <2> HIDE DEF a, b, l
  <2>6. a + 1 \in Int /\ \A i \in a + 1 .. b : i \in 1 .. Len(s) /\ s[i] \in T
    <3>1. \A i \in a + 1 .. b : i \in 1 .. Len(s)
      BY <1>2, <2>2
    <3> QED
      BY <2>2, <3>1
  <2>7. /\ u \in Seq(T) /\ Len(u) = IF a + 1 <= b THEN b - (a + 1) + 1 ELSE 0
        /\ \A i \in 1 .. b - (a + 1) + 1 : u[i] = s[a + 1 + i - 1]
    BY <2>2, <2>6, SubSeqProperties
  <2> HIDE DEF u
  <2>8. Len(u) = l /\ b - (a + 1) + 1 = l
    BY <2>2, <2>7
  <2>9. ASSUME NEW j \in 1 .. l PROVE u[j] = q[p][j]
    <3>1. a + 1 + j - 1 = a + j /\ a + j <= Len(s)
      BY <1>2, <2>2
    <3> QED
      BY <2>3, <2>7, <2>8, <3>1
  <2>10. u = q[p]
    BY <2>5, <2>7, <2>8, <2>9, SeqEqual
  <2> QED
    BY <2>4, <2>10 DEF u
<1>8. Cut(s, lens) = [p \in 1 .. n |-> SubSeq(s, O(p - 1) + 1, O(p))]
  BY <1>2 DEF Cut, O
<1>9. Cut(s, lens) = q
  BY <1>2, <1>7, <1>8
<1> QED
  BY <1>6, <1>9

-----------------------------------------------------------------------------
(* Messages: a header, the data and the descriptors that follow it.        *)

Message(h, a, b) == <<h>> \o a \o b

Carries(T, w, h, a, b) ==
    /\ w \in Seq(T) /\ Len(w) = 1 + Len(a) + Len(b) /\ w[1] = h
    /\ \A i \in 1 .. Len(a) : w[1 + i] = a[i]
    /\ \A i \in 1 .. Len(b) : w[1 + Len(a) + i] = b[i]

LEMMA MessageIs ==
    ASSUME NEW T, NEW h \in T, NEW a \in Seq(T), NEW b \in Seq(T)
    PROVE  Carries(T, Message(h, a, b), h, a, b)
<1> DEFINE w == Message(h, a, b)
<1> DEFINE x == <<h>>
           y == x \o a
<1>1. x \in Seq(T) /\ Len(x) = 1 /\ x[1] = h /\ Len(a) \in Nat /\ Len(b) \in Nat
  OBVIOUS
<1> HIDE DEF x
<1>2. /\ y \in Seq(T) /\ Len(y) = 1 + Len(a)
      /\ \A i \in 1 .. 1 + Len(a) : y[i] = IF i <= 1 THEN x[i] ELSE a[i - 1]
  <2>1. /\ y \in Seq(T) /\ Len(y) = Len(x) + Len(a)
        /\ \A i \in 1 .. Len(x) + Len(a) : y[i] = IF i <= Len(x) THEN x[i] ELSE a[i - Len(x)]
    BY <1>1, ConcatProperties
  <2> HIDE DEF y
  <2> QED
    BY <1>1, <2>1
<1> HIDE DEF y
<1>3. /\ w \in Seq(T) /\ Len(w) = 1 + Len(a) + Len(b)
      /\ \A i \in 1 .. 1 + Len(a) + Len(b) :
            w[i] = IF i <= 1 + Len(a) THEN y[i] ELSE b[i - (1 + Len(a))]
  <2> DEFINE z == y \o b
  <2>1. w = z
    BY DEF x, y, Message
  <2>2. /\ z \in Seq(T) /\ Len(z) = Len(y) + Len(b)
        /\ \A i \in 1 .. Len(y) + Len(b) : z[i] = IF i <= Len(y) THEN y[i] ELSE b[i - Len(y)]
    BY <1>1, <1>2, ConcatProperties
  <2> HIDE DEF w, z
  <2> QED
    BY <1>2, <2>1, <2>2
<1> HIDE DEF w
<1>4. w[1] = h
  BY <1>1, <1>2, <1>3
<1>5. ASSUME NEW i \in 1 .. Len(a) PROVE w[1 + i] = a[i]
  <2>1. 1 + i \in 1 .. 1 + Len(a) /\ 1 + i \in 1 .. 1 + Len(a) + Len(b) /\ ~(1 + i <= 1) /\ (1 + i) - 1 = i
    BY <1>1
  <2>2. y[1 + i] = a[i]
    BY <1>2, <2>1
  <2>3. w[1 + i] = y[1 + i]
    BY <1>3, <2>1
  <2> QED
    BY <2>2, <2>3
<1>6. ASSUME NEW i \in 1 .. Len(b) PROVE w[1 + Len(a) + i] = b[i]
  <2> DEFINE k == 1 + Len(a) + i
  <2>1. k \in 1 .. 1 + Len(a) + Len(b) /\ ~(k <= 1 + Len(a)) /\ k - (1 + Len(a)) = i
    BY <1>1
  <2> HIDE DEF k
  <2>2. w[k] = b[i]
    BY <1>3, <2>1
  <2> QED
    BY <2>2 DEF k
<1> QED
  BY <1>3, <1>4, <1>5, <1>6 DEF w, Carries

\* What a reader finds at the start of a stream that starts with a message.
Reads(s, h, a, b) ==
    /\ s # <<>> /\ Head(s) = h
    /\ SubSeq(s, 2, 1 + Len(a)) = a
    /\ SubSeq(s, 2 + Len(a), 1 + Len(a) + Len(b)) = b

LEMMA MessageRead ==
    ASSUME NEW T, NEW h \in T, NEW a \in Seq(T), NEW b \in Seq(T),
           NEW s \in Seq(T), Len(s) >= Len(Message(h, a, b)),
           SubSeq(s, 1, Len(Message(h, a, b))) = Message(h, a, b)
    PROVE  Reads(s, h, a, b)
<1> DEFINE w == Message(h, a, b)
<1>1. /\ w \in Seq(T) /\ Len(w) = 1 + Len(a) + Len(b) /\ w[1] = h
      /\ \A i \in 1 .. Len(a) : w[1 + i] = a[i]
      /\ \A i \in 1 .. Len(b) : w[1 + Len(a) + i] = b[i]
  <2>1. Carries(T, w, h, a, b)
    BY MessageIs
  <2> HIDE DEF w
  <2> QED
    BY <2>1 DEF Carries
<1>0. Len(s) >= Len(w) /\ SubSeq(s, 1, Len(w)) = w
  OBVIOUS
<1> HIDE DEF w
<1>2. Len(a) \in Nat /\ Len(b) \in Nat /\ Len(s) \in Nat /\ Len(w) \in Nat
  BY <1>1
<1>3. \A i \in 1 .. Len(w) : s[i] = w[i]
  <2>1. Len(w) \in 0 .. Len(s)
    BY <1>0, <1>2
  <2>2. \A i \in 1 .. Len(w) : SubSeq(s, 1, Len(w))[i] = s[i]
    BY <2>1, BeginningIs
  <2> QED
    BY <1>0, <2>2
<1>4. s # <<>> /\ Head(s) = h
  <2>1. 1 \in 1 .. Len(w) /\ Len(s) # 0
    BY <1>0, <1>1, <1>2
  <2>2. s # <<>> /\ Head(s) = s[1]
    BY <2>1
  <2> QED
    BY <1>1, <1>3, <2>1, <2>2
<1>5. ASSUME NEW c \in Seq(T), NEW m \in Nat, m + Len(c) <= Len(w),
             \A i \in 1 .. Len(c) : w[m + i] = c[i]
      PROVE  SubSeq(s, m + 1, m + Len(c)) = c
  <2> DEFINE n == m + Len(c)
             u == SubSeq(s, m + 1, n)
  <2>1. n \in Int /\ m + 1 \in Int /\ Len(c) \in Nat
    OBVIOUS
  <2>2. \A i \in m + 1 .. n : i \in 1 .. Len(s) /\ s[i] \in T
    <3>1. \A i \in m + 1 .. n : i \in 1 .. Len(s)
      BY <1>0, <1>2, <1>5
    <3> QED
      BY <3>1
  <2>3. n - (m + 1) + 1 = Len(c) /\ (m + 1 <= n <=> Len(c) # 0)
    BY <2>1
  <2> HIDE DEF n
  <2>4. /\ u \in Seq(T) /\ Len(u) = IF m + 1 <= n THEN n - (m + 1) + 1 ELSE 0
        /\ \A i \in 1 .. n - (m + 1) + 1 : u[i] = s[m + 1 + i - 1]
    BY <2>1, <2>2, SubSeqProperties
  <2> HIDE DEF u
  <2>5. Len(u) = Len(c)
    BY <2>1, <2>3, <2>4
  <2>6. ASSUME NEW i \in 1 .. Len(c) PROVE u[i] = c[i]
    <3>1. m + 1 + i - 1 = m + i /\ m + i \in 1 .. Len(w)
      BY <1>2, <1>5, <2>1
    <3>2. u[i] = s[m + i]
      BY <2>3, <2>4, <3>1
    <3> QED
      BY <1>3, <1>5, <3>1, <3>2
  <2>7. u = c
    BY <2>4, <2>5, <2>6, SeqEqual
  <2> QED
    BY <2>7 DEF u, n
<1>6. SubSeq(s, 2, 1 + Len(a)) = a
  <2>1. 1 + Len(a) <= Len(w) /\ 1 \in Nat /\ 1 + 1 = 2
    BY <1>1, <1>2
  <2>2. SubSeq(s, 1 + 1, 1 + Len(a)) = a
    BY <1>1, <1>5, <2>1
  <2> QED
    BY <2>1, <2>2
<1>7. SubSeq(s, 2 + Len(a), 1 + Len(a) + Len(b)) = b
  <2> DEFINE m == 1 + Len(a)
  <2>1. m + Len(b) <= Len(w) /\ m \in Nat /\ m + 1 = 2 + Len(a)
    BY <1>1, <1>2
  <2>2. \A i \in 1 .. Len(b) : w[m + i] = b[i]
    BY <1>1
  <2> HIDE DEF m
  <2>3. SubSeq(s, m + 1, m + Len(b)) = b
    BY <1>5, <2>1, <2>2
  <2> QED
    BY <2>1, <2>3 DEF m
<1> QED
  BY <1>4, <1>6, <1>7 DEF Reads

-----------------------------------------------------------------------------
(* Requests and tokens.                                                    *)

\* What a host sends: packets for an isochronous transfer, as many as it
\* says; one length for another; an unlink has no data.
WellMade ==
    {u \in [cmd : {"submit", "unlink"}, iso : BOOLEAN, dir : {"in", "out"}, lens : Seq(Nat),
            npkts : Nat \cup Counts, victim : Nat] :
        /\ u.lens # <<>>
        /\ u.iso => u.cmd = "submit" /\ u.npkts = Len(u.lens)
        /\ ~u.iso => Len(u.lens) = 1
        /\ u.cmd = "unlink" => u.dir = "out"}

Token ==
    [part : {"header"}, is : Nat \cup [msg : Nat, of : WellMade]
                                 \cup [msg : Nat, actual : Nat, npkts : Nat]]
    \cup [part : {"data"}, is : Nat \X Nat \X Nat]
    \cup [part : {"desc"}, is : Nat]

\* The packets of a request as the host has them in its slots, and the
\* descriptors of packets of these lengths.
Slots(n, u) == [p \in DOMAIN u.lens |-> Data(n, p, u.lens[p])]
Descs(lens) == [p \in DOMAIN lens |-> Desc(lens[p])]

LEMMA MadeIs ==
    ASSUME NEW u \in WellMade
    PROVE  /\ u.cmd \in {"submit", "unlink"} /\ u.iso \in BOOLEAN /\ u.dir \in {"in", "out"}
           /\ u.lens \in Seq(Nat) /\ Len(u.lens) \in Nat \ {0} /\ DOMAIN u.lens = 1 .. Len(u.lens)
           /\ \A p \in 1 .. Len(u.lens) : u.lens[p] \in Nat
           /\ u.iso => u.cmd = "submit" /\ u.npkts = Len(u.lens)
           /\ ~u.iso => Len(u.lens) = 1
           /\ u.cmd = "unlink" => u.dir = "out"
           /\ u.victim \in Nat
<1>1. /\ u.cmd \in {"submit", "unlink"} /\ u.iso \in BOOLEAN /\ u.dir \in {"in", "out"}
      /\ u.lens \in Seq(Nat) /\ u.lens # <<>> /\ u.victim \in Nat
      /\ u.iso => u.cmd = "submit" /\ u.npkts = Len(u.lens)
      /\ ~u.iso => Len(u.lens) = 1
      /\ u.cmd = "unlink" => u.dir = "out"
  BY DEF WellMade
<1> DEFINE l == u.lens
<1>2. l \in Seq(Nat) /\ l # <<>>
  BY <1>1
<1> HIDE DEF l
<1>3. Len(l) \in Nat \ {0} /\ DOMAIN l = 1 .. Len(l) /\ \A p \in 1 .. Len(l) : l[p] \in Nat
  BY <1>2, EmptySeq
<1> QED
  BY <1>1, <1>3 DEF l

LEMMA RequestsMade ==
    ASSUME NEW u \in Requests, sent \in Seq(WellMade)
    PROVE  u \in WellMade
<1>0. Lengths \subseteq Nat
  BY WireAssumption
<1>1. ASSUME NEW dir \in {"in", "out"}, NEW len \in Lengths, NEW count \in Counts,
             u = Transfer(dir, len, count)
      PROVE  u \in WellMade
  <2>1. <<len>> \in Seq(Nat) /\ Len(<<len>>) = 1 /\ <<len>> # <<>>
    BY <1>0
  <2> QED
    BY <1>1, <2>1 DEF Transfer, WellMade
<1>2. ASSUME NEW dir \in {"in", "out"}, NEW a \in Lengths, NEW b \in Lengths,
             u = IsoTransfer(dir, <<a, b>>)
      PROVE  u \in WellMade
  <2>1. <<a, b>> \in Seq(Nat) /\ Len(<<a, b>>) = 2 /\ <<a, b>> # <<>>
    BY <1>0
  <2> QED
    BY <1>2, <2>1 DEF IsoTransfer, WellMade
<1>3. ASSUME NEW n \in DOMAIN sent, u = UnlinkOf(n) PROVE u \in WellMade
  <2>1. <<0>> \in Seq(Nat) /\ Len(<<0>>) = 1 /\ <<0>> # <<>> /\ n \in Nat
    OBVIOUS
  <2> QED
    BY <1>3, <2>1 DEF UnlinkOf, WellMade
<1>4. \/ \E dir \in {"in", "out"}, len \in Lengths, count \in Counts : u = Transfer(dir, len, count)
      \/ \E dir \in {"in", "out"}, a \in Lengths, b \in Lengths : u = IsoTransfer(dir, <<a, b>>)
      \/ \E n \in DOMAIN sent : u = UnlinkOf(n)
  <2> DEFINE A == {Transfer(dir, len, count) : dir \in {"in", "out"}, len \in Lengths, count \in Counts}
             B == {IsoTransfer(dir, <<a, b>>) : dir \in {"in", "out"}, a \in Lengths, b \in Lengths}
             C == {UnlinkOf(n) : n \in {k \in DOMAIN sent \ DOMAIN got : sent[k].cmd = "submit"}}
  <2>1. ASSUME u \in A
        PROVE  \E dir \in {"in", "out"}, len \in Lengths, count \in Counts : u = Transfer(dir, len, count)
    BY <2>1 DEF Transfer
  <2>2. ASSUME u \in B
        PROVE  \E dir \in {"in", "out"}, a \in Lengths, b \in Lengths : u = IsoTransfer(dir, <<a, b>>)
    BY <2>2 DEF IsoTransfer
  <2>3. ASSUME u \in C PROVE \E n \in DOMAIN sent : u = UnlinkOf(n)
    BY <2>3 DEF UnlinkOf
  <2>4. Requests = A \cup B \cup C
    BY DEF Requests
  <2> HIDE DEF A, B, C
  <2>5. u \in A \/ u \in B \/ u \in C
    BY <2>4
  <2> QED
    BY <2>1, <2>2, <2>3, <2>5
<1> QED
  BY <1>1, <1>2, <1>3, <1>4, Zenon

LEMMA DataIs ==
    ASSUME NEW n \in Nat, NEW p \in Nat, NEW size \in Nat
    PROVE  Data(n, p, size) \in Seq(Token) /\ Len(Data(n, p, size)) = size
<1> DEFINE at(i) == [part |-> "data", is |-> <<n, p, i>>]
<1>1. ASSUME NEW i \in 1 .. size PROVE at(i) \in Token
  BY DEF Token
<1> HIDE DEF at
<1>2. [i \in 1 .. size |-> at(i)] \in Seq(Token) /\ Len([i \in 1 .. size |-> at(i)]) = size
  BY <1>1
<1> QED
  BY <1>2 DEF Data, at

LEMMA DescsIs ==
    ASSUME NEW lens \in Seq(Nat)
    PROVE  /\ Descs(lens) \in Seq(Token) /\ Len(Descs(lens)) = Len(lens)
           /\ \A p \in 1 .. Len(lens) : Descs(lens)[p].part = "desc" /\ Descs(lens)[p].is = lens[p]
<1>1. Len(lens) \in Nat /\ DOMAIN lens = 1 .. Len(lens) /\ \A p \in 1 .. Len(lens) : lens[p] \in Nat
  OBVIOUS
<1>2. ASSUME NEW p \in 1 .. Len(lens)
      PROVE  Desc(lens[p]) \in Token /\ Desc(lens[p]).part = "desc" /\ Desc(lens[p]).is = lens[p]
  BY <1>1 DEF Token, Desc
<1>3. Descs(lens) = [p \in 1 .. Len(lens) |-> Desc(lens[p])]
  BY <1>1 DEF Descs
<1> QED
  BY <1>1, <1>2, <1>3

LEMMA SlotsIs ==
    ASSUME NEW n \in Nat, NEW u \in WellMade
    PROVE  /\ Slots(n, u) \in Seq(Seq(Token)) /\ Len(Slots(n, u)) = Len(u.lens)
           /\ \A p \in 1 .. Len(u.lens) : Len(Slots(n, u)[p]) = u.lens[p]
<1>1. /\ Len(u.lens) \in Nat /\ DOMAIN u.lens = 1 .. Len(u.lens)
      /\ \A p \in 1 .. Len(u.lens) : u.lens[p] \in Nat
  BY MadeIs
<1>2. ASSUME NEW p \in 1 .. Len(u.lens)
      PROVE  Data(n, p, u.lens[p]) \in Seq(Token) /\ Len(Data(n, p, u.lens[p])) = u.lens[p]
  <2>1. p \in Nat /\ u.lens[p] \in Nat
    BY <1>1
  <2> QED
    BY <2>1, DataIs
<1>3. Slots(n, u) = [p \in 1 .. Len(u.lens) |-> Data(n, p, u.lens[p])]
  BY <1>1 DEF Slots
<1> QED
  BY <1>1, <1>2, <1>3

\* The bytes of a payload, cut at the lengths, are the slots again.
LEMMA PayloadCut ==
    ASSUME NEW n \in Nat, NEW u \in WellMade
    PROVE  /\ Payload(n, u) \in Seq(Token) /\ Len(Payload(n, u)) = Total(u.lens)
           /\ Total(u.lens) \in Nat
           /\ Cut(Payload(n, u), u.lens) = Slots(n, u)
<1> DEFINE q == Slots(n, u)
           s == FlattenSeq(q)
<1>1. /\ q \in Seq(Seq(Token)) /\ Len(q) = Len(u.lens)
      /\ \A p \in 1 .. Len(u.lens) : Len(q[p]) = u.lens[p]
  BY SlotsIs
<1>2. Payload(n, u) = s
  BY DEF Payload, Slots
<1> HIDE DEF q
<1>3. s \in Seq(Token) /\ Holds(s, q)
  BY <1>1, FlattenHolds
<1> HIDE DEF s
<1>4. u.lens \in Seq(Nat)
  BY MadeIs
<1>5. \A p \in 1 .. Len(q) : u.lens[p] = Len(q[p])
  BY <1>1
<1>6. Len(s) = Total(u.lens) /\ Cut(s, u.lens) = q
  BY <1>1, <1>3, <1>4, <1>5, CutHolds
<1>7. Total(u.lens) \in Nat
  BY <1>4, TotalIs
<1> QED
  BY <1>2, <1>3, <1>6, <1>7 DEF q

-----------------------------------------------------------------------------
(* What read_cmd makes of the bytes of a request.                          *)

DataPart(n, u) == IF u.dir = "out" THEN Payload(n, u) ELSE <<>>
DescPart(u) == IF u.iso THEN Descs(u.lens) ELSE <<>>

LEMMA RequestIs ==
    ASSUME NEW n \in Nat, NEW u \in WellMade
    PROVE  /\ Header([msg |-> n, of |-> u]) \in Token
           /\ DataPart(n, u) \in Seq(Token) /\ Len(DataPart(n, u)) = PayloadLen(u)
           /\ DescPart(u) \in Seq(Token) /\ Len(DescPart(u)) = DescCount(u)
           /\ PayloadLen(u) \in Nat /\ DescCount(u) \in Nat
           /\ RequestBytes(n, u) = Message(Header([msg |-> n, of |-> u]), DataPart(n, u), DescPart(u))
           /\ RequestBytes(n, u) \in Seq(Token)
           /\ Len(RequestBytes(n, u)) = 1 + PayloadLen(u) + DescCount(u)
           /\ RequestBytes(n, u)[1] = Header([msg |-> n, of |-> u])
<1> DEFINE h == Header([msg |-> n, of |-> u])
<1>1. h \in Token
  BY DEF Header, Token
<1>2. DataPart(n, u) \in Seq(Token) /\ Len(DataPart(n, u)) = PayloadLen(u) /\ PayloadLen(u) \in Nat
  BY PayloadCut DEF DataPart, PayloadLen
<1>3. DescPart(u) \in Seq(Token) /\ Len(DescPart(u)) = DescCount(u) /\ DescCount(u) \in Nat
  <2>1. CASE u.iso
    <3>1. DescCount(u) = Len(u.lens) /\ DescPart(u) = Descs(u.lens)
      BY <2>1, MadeIs DEF DescCount, DescPart
    <3> QED
      BY <3>1, MadeIs, DescsIs
  <2>2. CASE ~u.iso
    BY <2>2 DEF DescCount, DescPart
  <2> QED
    BY <2>1, <2>2
<1>4. RequestBytes(n, u) = Message(h, DataPart(n, u), DescPart(u))
  BY DEF RequestBytes, Message, DataPart, DescPart, Descs
<1> HIDE DEF h
<1> DEFINE w == RequestBytes(n, u)
           a == DataPart(n, u)
           b == DescPart(u)
<1> HIDE DEF w, a, b
<1>5. w = Message(h, a, b)
  BY <1>4 DEF w, a, b
<1>6. a \in Seq(Token) /\ b \in Seq(Token)
  BY <1>2, <1>3 DEF a, b
<1>7. w \in Seq(Token) /\ Len(w) = 1 + Len(a) + Len(b) /\ w[1] = h
  <2>1. h \in Token
    BY <1>1
  <2>2. Carries(Token, Message(h, a, b), h, a, b)
    BY <1>6, <2>1, MessageIs
  <2> QED
    BY <1>5, <2>2 DEF Carries
<1> QED
  BY <1>1, <1>2, <1>3, <1>4, <1>7 DEF w, a, b, h

\* It is whole or not.
LEMMA WholeIs ==
    ASSUME NEW s
    PROVE  ReadCmd(s).whole \in BOOLEAN
BY DEF ReadCmd

\* A request whose bytes are all there is read as the host sent it.
LEMMA ReadWhole ==
    ASSUME NEW n \in Nat, NEW u \in WellMade, NEW s \in Seq(Token),
           Len(s) >= Len(RequestBytes(n, u)),
           SubSeq(s, 1, Len(RequestBytes(n, u))) = RequestBytes(n, u)
    PROVE  /\ s # <<>> /\ Head(s) = Header([msg |-> n, of |-> u])
           /\ ReadCmd(s).whole
           /\ ReadCmd(s).rest = From(s, Len(RequestBytes(n, u)))
           /\ ReadCmd(s).packets = IF u.dir = "out" THEN Slots(n, u) ELSE << <<>> >>
<1> DEFINE h == Header([msg |-> n, of |-> u])
           w == RequestBytes(n, u)
           a == DataPart(n, u)
           b == DescPart(u)
           c == PayloadLen(u)
           d == DescCount(u)
           descs == SubSeq(s, 2 + c, 1 + c + d)
           lens == IF d > 0 /\ \A p \in DOMAIN descs : descs[p].part = "desc"
                   THEN [p \in DOMAIN descs |-> descs[p].is] ELSE <<c>>
<1>1. /\ h \in Token /\ a \in Seq(Token) /\ b \in Seq(Token) /\ w = Message(h, a, b)
      /\ Len(a) = c /\ Len(b) = d /\ c \in Nat /\ d \in Nat /\ Len(w) = 1 + c + d
  BY RequestIs
<1>2. Len(s) >= Len(w) /\ SubSeq(s, 1, Len(w)) = w
  OBVIOUS
<1> HIDE DEF h, w, a, b
<1>3. s # <<>> /\ Head(s) = h /\ SubSeq(s, 2, 1 + Len(a)) = a /\ SubSeq(s, 2 + Len(a), 1 + Len(a) + Len(b)) = b
  <2> HIDE DEF c, d
  <2>1. a \in Seq(Token) /\ b \in Seq(Token) /\ h \in Token /\ w = Message(h, a, b)
    BY <1>1
  <2>2. Len(s) >= Len(Message(h, a, b)) /\ SubSeq(s, 1, Len(Message(h, a, b))) = Message(h, a, b)
    BY <1>2, <2>1
  <2>3. Reads(s, h, a, b)
    BY <2>1, <2>2, MessageRead
  <2> QED
    BY <2>3 DEF Reads
<1>4. SubSeq(s, 2, 1 + c) = a /\ descs = b
  BY <1>1, <1>3
<1>5. Head(s).is.of = u
  BY <1>3 DEF h, Header
<1>6. ReadCmd(s) = [whole |-> Len(s) >= 1 + c + d, rest |-> From(s, 1 + c + d),
                    packets |-> IF Len(s) >= 1 + c + d /\ u.dir = "out"
                                THEN Cut(SubSeq(s, 2, 1 + c), lens) ELSE << <<>> >>]
  BY <1>5 DEF ReadCmd
<1>7. ASSUME u.dir = "out" PROVE lens = u.lens
  <2>1. CASE u.iso
    <3>1. b = Descs(u.lens) /\ d = Len(u.lens) /\ d > 0
      BY <2>1, MadeIs DEF b, DescPart, DescCount
    <3>2. /\ DOMAIN b = 1 .. Len(u.lens)
          /\ \A p \in 1 .. Len(u.lens) : b[p].part = "desc" /\ b[p].is = u.lens[p]
      BY <1>1, <3>1, MadeIs, DescsIs
    <3>3. lens = [p \in DOMAIN b |-> b[p].is]
      <4> HIDE DEF descs
      <4> QED
        BY <1>4, <3>1, <3>2
    <3>4. u.lens = [p \in 1 .. Len(u.lens) |-> u.lens[p]]
      BY MadeIs
    <3> QED
      BY <3>2, <3>3, <3>4
  <2>2. CASE ~u.iso
    <3>1. d = 0
      BY <2>2 DEF DescCount
    <3>2. Len(u.lens) = 1 /\ u.lens \in Seq(Nat) /\ u.lens[1] \in Nat
      BY <2>2, MadeIs
    <3>3. u.lens = <<u.lens[1]>>
      BY <3>2
    <3>4. c = u.lens[1]
      BY <1>7, <3>2, <3>3, TotalOfOne DEF PayloadLen
    <3> QED
      BY <3>1, <3>3, <3>4
  <2> QED
    BY <2>1, <2>2
<1>8. u.dir = "out" => a = Payload(n, u)
  BY DEF a, DataPart
<1>9. u.dir = "out" => Cut(SubSeq(s, 2, 1 + c), lens) = Slots(n, u)
  <2> HIDE DEF lens
  <2> QED
    BY <1>4, <1>7, <1>8, PayloadCut
<1> HIDE DEF lens, c, d
<1>10. Len(s) >= 1 + c + d
  BY <1>1, <1>2
<1>11. /\ ReadCmd(s).whole /\ ReadCmd(s).rest = From(s, 1 + c + d)
       /\ ReadCmd(s).packets = IF u.dir = "out" THEN Cut(SubSeq(s, 2, 1 + c), lens) ELSE << <<>> >>
  <2> DEFINE x == Cut(SubSeq(s, 2, 1 + c), lens)
             y == From(s, 1 + c + d)
             r == ReadCmd(s)
  <2> HIDE DEF x, y, r
  <2>1. r = [whole |-> Len(s) >= 1 + c + d, rest |-> y,
             packets |-> IF Len(s) >= 1 + c + d /\ u.dir = "out" THEN x ELSE << <<>> >>]
    BY <1>6 DEF x, y, r
  <2>2. r.whole = (Len(s) >= 1 + c + d)
    BY <2>1
  <2>3. r.rest = y
    BY <2>1
  <2>4. r.packets = IF Len(s) >= 1 + c + d /\ u.dir = "out" THEN x ELSE << <<>> >>
    BY <2>1
  <2> QED
    BY <1>10, <2>2, <2>3, <2>4 DEF x, y, r
<1>12. Len(w) = 1 + c + d
  BY <1>1
<1> QED
  BY <1>3, <1>9, <1>11, <1>12 DEF h, w

\* One that the end of the connection cuts is not.
LEMMA ReadShort ==
    ASSUME NEW n \in Nat, NEW u \in WellMade, NEW s \in Seq(Token),
           Head(s) = Header([msg |-> n, of |-> u]), Len(s) < Len(RequestBytes(n, u))
    PROVE  ~ReadCmd(s).whole /\ ReadCmd(s).rest = <<>> /\ ReadCmd(s).packets = << <<>> >>
<1> DEFINE need == 1 + PayloadLen(u) + DescCount(u)
<1>1. need = Len(RequestBytes(n, u)) /\ need \in Nat /\ Len(s) \in Nat
  <2>1. PayloadLen(u) \in Nat /\ DescCount(u) \in Nat /\ Len(RequestBytes(n, u)) = need
    BY RequestIs
  <2>2. Len(s) \in Nat
    OBVIOUS
  <2> QED
    BY <2>1, <2>2
<1>2. Head(s).is.of = u
  BY DEF Header
<1>3. /\ ReadCmd(s).whole = (Len(s) >= need) /\ ReadCmd(s).rest = From(s, need)
      /\ ReadCmd(s).packets = IF Len(s) >= need /\ u.dir = "out" THEN ReadCmd(s).packets ELSE << <<>> >>
  BY <1>2 DEF ReadCmd
<1> HIDE DEF need
<1>4. From(s, need) = <<>>
  BY <1>1, SubSeqEmpty DEF From
<1>5. ~(Len(s) >= need)
  BY <1>1
<1> QED
  BY <1>3, <1>4, <1>5

-----------------------------------------------------------------------------
(* What a host makes of the bytes of a reply.                              *)

Sizes(pkts) == [p \in DOMAIN pkts |-> Len(pkts[p])]
ReplyHeader(n, u, pkts) ==
    Header([msg |-> n, actual |-> Total(Sizes(pkts)), npkts |-> IF u.iso THEN Len(pkts) ELSE 0])
ReplyData(u, pkts) == IF u.dir = "in" THEN FlattenSeq(pkts) ELSE <<>>
ReplyDescs(u, pkts) == IF u.iso THEN Descs(Sizes(pkts)) ELSE <<>>

LEMMA AnswersAre ==
    ASSUME NEW n \in Nat, NEW u \in WellMade, NEW pkts \in Answers(n, u)
    PROVE  pkts \in Seq(Seq(Token)) /\ Len(pkts) = Len(u.lens)
<1>1. /\ Len(u.lens) \in Nat /\ DOMAIN u.lens = 1 .. Len(u.lens)
      /\ \A p \in 1 .. Len(u.lens) : u.lens[p] \in Nat /\ p \in Nat
  BY MadeIs
<1>2. CASE u.dir = "in"
  <2>1. PICK f \in {g \in [DOMAIN u.lens -> {0, 1}] : \A p \in DOMAIN g : g[p] <= u.lens[p]} :
           pkts = [p \in DOMAIN u.lens |-> Data(n, p, u.lens[p] - f[p])]
    BY <1>2 DEF Answers
  <2>2. ASSUME NEW p \in 1 .. Len(u.lens) PROVE Data(n, p, u.lens[p] - f[p]) \in Seq(Token)
    <3>1. f[p] \in {0, 1} /\ f[p] <= u.lens[p]
      BY <1>1, <2>1
    <3>2. u.lens[p] - f[p] \in Nat /\ p \in Nat
      BY <1>1, <3>1
    <3> QED
      BY <3>2, DataIs
  <2>3. pkts = [p \in 1 .. Len(u.lens) |-> Data(n, p, u.lens[p] - f[p])]
    BY <1>1, <2>1
  <2> QED
    BY <1>1, <2>2, <2>3
<1>3. CASE u.dir # "in"
  <2>1. pkts = Slots(n, u)
    BY <1>3 DEF Answers, Slots
  <2> QED
    BY <2>1, SlotsIs
<1> QED
  BY <1>2, <1>3

LEMMA SizesAre ==
    ASSUME NEW T, NEW pkts \in Seq(Seq(T))
    PROVE  /\ Sizes(pkts) \in Seq(Nat) /\ Len(Sizes(pkts)) = Len(pkts)
           /\ \A p \in 1 .. Len(pkts) : Sizes(pkts)[p] = Len(pkts[p])
           /\ Total(Sizes(pkts)) \in Nat
<1>1. DOMAIN pkts = 1 .. Len(pkts) /\ Len(pkts) \in Nat
      /\ \A p \in 1 .. Len(pkts) : Len(pkts[p]) \in Nat
  OBVIOUS
<1>2. Sizes(pkts) = [p \in 1 .. Len(pkts) |-> Len(pkts[p])]
  BY <1>1 DEF Sizes
<1>3. Sizes(pkts) \in Seq(Nat)
  BY <1>1, <1>2
<1>4. Total(Sizes(pkts)) \in Nat
  BY <1>3, TotalIs
<1> QED
  BY <1>1, <1>2, <1>3, <1>4

LEMMA ReplyIs ==
    ASSUME NEW n \in Nat, NEW u \in WellMade, NEW pkts \in Answers(n, u)
    PROVE  /\ ReplyHeader(n, u, pkts) \in Token
           /\ ReplyData(u, pkts) \in Seq(Token)
           /\ Len(ReplyData(u, pkts)) = IF u.dir = "in" THEN Total(Sizes(pkts)) ELSE 0
           /\ ReplyDescs(u, pkts) \in Seq(Token)
           /\ Len(ReplyDescs(u, pkts)) = IF u.iso THEN Len(pkts) ELSE 0
           /\ u.dir = "in" => Cut(ReplyData(u, pkts), Sizes(pkts)) = pkts
           /\ Reply(n, u, pkts) = Message(ReplyHeader(n, u, pkts), ReplyData(u, pkts), ReplyDescs(u, pkts))
           /\ Reply(n, u, pkts) \in Seq(Token)
           /\ Len(Reply(n, u, pkts)) = 1 + Len(ReplyData(u, pkts)) + Len(ReplyDescs(u, pkts))
<1> DEFINE h == ReplyHeader(n, u, pkts)
           a == ReplyData(u, pkts)
           b == ReplyDescs(u, pkts)
           lens == Sizes(pkts)
<1>1. pkts \in Seq(Seq(Token)) /\ Len(pkts) \in Nat
  BY AnswersAre
<1>2. /\ lens \in Seq(Nat) /\ Len(lens) = Len(pkts) /\ \A p \in 1 .. Len(pkts) : lens[p] = Len(pkts[p])
      /\ Total(lens) \in Nat
  BY <1>1, SizesAre
<1>3. h \in Token
  <2>1. (IF u.iso THEN Len(pkts) ELSE 0) \in Nat
    BY <1>1
  <2> QED
    BY <1>2, <2>1 DEF ReplyHeader, Header, Token
<1>4. /\ a \in Seq(Token) /\ Len(a) = IF u.dir = "in" THEN Total(lens) ELSE 0
      /\ u.dir = "in" => Cut(a, lens) = pkts
  <2>1. CASE u.dir = "in"
    <3> DEFINE s == FlattenSeq(pkts)
    <3>1. s \in Seq(Token) /\ Holds(s, pkts)
      BY <1>1, FlattenHolds
    <3> HIDE DEF s, lens
    <3>2. Len(s) = Total(lens) /\ Cut(s, lens) = pkts
      BY <1>1, <1>2, <3>1, CutHolds
    <3> QED
      BY <2>1, <3>1, <3>2 DEF s, ReplyData
  <2>2. CASE u.dir # "in"
    BY <2>2 DEF ReplyData
  <2> QED
    BY <2>1, <2>2
<1>5. b \in Seq(Token) /\ Len(b) = IF u.iso THEN Len(pkts) ELSE 0
  <2> HIDE DEF lens
  <2>1. Descs(lens) \in Seq(Token) /\ Len(Descs(lens)) = Len(pkts)
    BY <1>2, DescsIs
  <2> QED
    BY <2>1 DEF ReplyDescs, lens
<1>6. Reply(n, u, pkts) = Message(h, a, b)
  <2>1. Descs(lens) = [p \in DOMAIN pkts |-> Desc(Len(pkts[p]))]
    BY DEF Descs, Sizes
  <2> QED
    BY <2>1 DEF Reply, Message, ReplyHeader, ReplyData, ReplyDescs, Sizes
<1> HIDE DEF h, a, b
<1>7. Carries(Token, Message(h, a, b), h, a, b)
  BY <1>3, <1>4, <1>5, MessageIs
<1>8. Reply(n, u, pkts) \in Seq(Token) /\ Len(Reply(n, u, pkts)) = 1 + Len(a) + Len(b)
  BY <1>6, <1>7 DEF Carries
<1> QED
  BY <1>3, <1>4, <1>5, <1>6, <1>8 DEF h, a, b

LEMMA SingleIs ==
    ASSUME NEW l \in Seq(Nat), Len(l) = 1
    PROVE  l = <<l[1]>> /\ l[1] \in Nat
<1>1. l[1] \in Nat
  <2>1. 1 \in 1 .. Len(l)
    OBVIOUS
  <2> QED
    BY <2>1, ElementOfSeq
<1>2. \A i \in 1 .. 1 : i = 1
  OBVIOUS
<1> QED
  BY <1>1, <1>2

\* What ReadReply scatters over the slots of a request.
Scattered(s, u) ==
    LET h     == Head(s).is
        size  == IF u.dir = "in" THEN h.actual ELSE 0
        descs == SubSeq(s, 2 + size, 1 + size + h.npkts)
    IN  IF u.dir = "in"
        THEN Cut(SubSeq(s, 2, 1 + size), IF u.iso THEN [p \in DOMAIN descs |-> descs[p].is] ELSE <<size>>)
        ELSE <<>>

LEMMA ReplyRead ==
    ASSUME NEW n \in Nat, NEW u \in WellMade, NEW pkts \in Answers(n, u), NEW s \in Seq(Token),
           Len(s) >= Len(Reply(n, u, pkts)),
           SubSeq(s, 1, Len(Reply(n, u, pkts))) = Reply(n, u, pkts)
    PROVE  /\ Head(s) = ReplyHeader(n, u, pkts)
           /\ u.dir = "in" => Scattered(s, u) = pkts
<1> DEFINE h == ReplyHeader(n, u, pkts)
           a == ReplyData(u, pkts)
           b == ReplyDescs(u, pkts)
           lens == Sizes(pkts)
           w == Reply(n, u, pkts)
           c == IF u.dir = "in" THEN Total(lens) ELSE 0
           d == IF u.iso THEN Len(pkts) ELSE 0
<1>1. /\ h \in Token /\ a \in Seq(Token) /\ b \in Seq(Token) /\ w = Message(h, a, b)
      /\ Len(a) = c /\ Len(b) = d /\ (u.dir = "in" => Cut(a, lens) = pkts)
  BY ReplyIs
<1>2. Len(s) >= Len(w) /\ SubSeq(s, 1, Len(w)) = w
  OBVIOUS
<1>3. pkts \in Seq(Seq(Token)) /\ Len(pkts) = Len(u.lens)
  BY AnswersAre
<1>4. /\ lens \in Seq(Nat) /\ Len(lens) = Len(pkts) /\ Total(lens) \in Nat
  BY <1>3, SizesAre
<1>5. h.is.actual = Total(lens) /\ h.is.npkts = d
  BY DEF ReplyHeader, Header
<1>6. u.iso => b = Descs(lens)
  BY DEF ReplyDescs
<1>7. ~u.iso => Len(pkts) = 1
  BY <1>3, MadeIs
<1> HIDE DEF h, w, a, b, lens
<1>8. Reads(s, h, a, b)
  <2> HIDE DEF c, d
  <2>1. a \in Seq(Token) /\ b \in Seq(Token) /\ h \in Token /\ w = Message(h, a, b)
    BY <1>1
  <2>2. Len(s) >= Len(Message(h, a, b)) /\ SubSeq(s, 1, Len(Message(h, a, b))) = Message(h, a, b)
    BY <1>2, <2>1
  <2> QED
    BY <2>1, <2>2, MessageRead
<1>9. Head(s) = h
  BY <1>8 DEF Reads
<1>10. ASSUME u.dir = "in" PROVE Scattered(s, u) = pkts
  <2>1. c = Total(lens)
    BY <1>10
  <2> DEFINE size == Total(lens)
             descs == SubSeq(s, 2 + size, 1 + size + d)
             cuts == IF u.iso THEN [p \in DOMAIN descs |-> descs[p].is] ELSE <<size>>
  <2>2. Scattered(s, u) = Cut(SubSeq(s, 2, 1 + size), cuts)
    BY <1>5, <1>9, <1>10 DEF Scattered
  <2> HIDE DEF c, d, size
  <2>3. Len(a) = size /\ Len(b) = d
    BY <1>1, <2>1 DEF size
  <2>4. SubSeq(s, 2, 1 + size) = a /\ descs = b
    BY <1>8, <2>3 DEF Reads
  <2>5. cuts = lens
    <3>1. CASE u.iso
      <4>1. /\ Len(b) = Len(lens) /\ b \in Seq(Token) /\ \A p \in 1 .. Len(lens) : b[p].is = lens[p]
        BY <1>1, <1>4, <1>6, <3>1, DescsIs
      <4>2. lens = [p \in 1 .. Len(lens) |-> lens[p]] /\ DOMAIN b = 1 .. Len(lens)
        BY <1>4, <4>1
      <4>3. cuts = [p \in DOMAIN b |-> b[p].is]
        <5> HIDE DEF descs
        <5> QED
          BY <2>4, <3>1
      <4> HIDE DEF cuts
      <4> QED
        BY <4>1, <4>2, <4>3
    <3>2. CASE ~u.iso
      <4>1. Len(lens) = 1
        BY <1>4, <1>7, <3>2
      <4>2. lens = <<lens[1]>> /\ lens[1] \in Nat
        <5>1. lens \in Seq(Nat)
          BY <1>4
        <5> QED
          BY <4>1, <5>1, SingleIs
      <4>3. Total(<<lens[1]>>) = lens[1]
        BY <4>2, TotalOfOne
      <4>4. size = lens[1]
        BY <4>2, <4>3 DEF size
      <4> QED
        BY <3>2, <4>2, <4>4
    <3> QED
      BY <3>1, <3>2
  <2> HIDE DEF cuts, descs
  <2> QED
    BY <1>1, <1>10, <2>2, <2>4, <2>5
<1> QED
  BY <1>9, <1>10 DEF h

-----------------------------------------------------------------------------
(* The device list.                                                        *)

\* Every exported device has an interface; of one that has none the record
\* says one, and the list cannot be read past it.
HaveInterfaces == \A d \in DOMAIN Exported : Exported[d] > 0

DevicePieces ==
    [d \in DOMAIN Exported |->
        <<Header(IF Exported[d] > 1 THEN Exported[d] ELSE 1)>> \o [i \in 1 .. Exported[d] |-> Desc(d)]]
DeviceList == <<Header(Len(Exported))>> \o FlattenSeq(DevicePieces)

\* One turn of client_devlist's loop.
ReadOne(s, k) ==
    IF s.rest = <<>> \/ ~IsHeader(Head(s.rest)) THEN [s EXCEPT !.list = Append(@, -1)]
    ELSE LET n == Head(s.rest).is
         IN  [rest |-> From(s.rest, 1 + n), list |-> Append(s.list, n)]

LEMMA PiecesAre ==
    ASSUME HaveInterfaces
    PROVE  /\ Exported \in Seq(Nat) /\ Len(Exported) \in Nat
           /\ DevicePieces \in Seq(Seq(Token)) /\ Len(DevicePieces) = Len(Exported)
           /\ \A d \in 1 .. Len(Exported) : /\ Len(DevicePieces[d]) = 1 + Exported[d]
                                            /\ DevicePieces[d][1] = Header(Exported[d])
           /\ FlattenSeq(DevicePieces) \in Seq(Token) /\ Holds(FlattenSeq(DevicePieces), DevicePieces)
<1>1. Exported \in Seq(Nat)
  BY WireAssumption
<1>2. Len(Exported) \in Nat /\ DOMAIN Exported = 1 .. Len(Exported)
      /\ \A d \in 1 .. Len(Exported) : Exported[d] \in Nat /\ Exported[d] > 0
  BY <1>1 DEF HaveInterfaces
<1>3. ASSUME NEW d \in 1 .. Len(Exported)
      PROVE  /\ DevicePieces[d] \in Seq(Token) /\ Len(DevicePieces[d]) = 1 + Exported[d]
             /\ DevicePieces[d][1] = Header(Exported[d])
  <2> DEFINE h == Header(Exported[d])
             a == [i \in 1 .. Exported[d] |-> Desc(d)]
  <2>1. (IF Exported[d] > 1 THEN Exported[d] ELSE 1) = Exported[d]
    BY <1>2
  <2>2. DevicePieces[d] = <<h>> \o a
    BY <1>2, <2>1 DEF DevicePieces
  <2>3. h \in Token /\ Desc(d) \in Token
    BY <1>2 DEF Header, Desc, Token
  <2>4. a \in Seq(Token) /\ Len(a) = Exported[d]
    <3>1. \A i \in 1 .. Exported[d] : Desc(d) \in Token
      BY <2>3
    <3> QED
      BY <1>2, <3>1
  <2> HIDE DEF h, a
  <2>5. <<h>> \in Seq(Token) /\ Len(<<h>>) = 1 /\ <<h>>[1] = h
    BY <2>3
  <2> DEFINE x == <<h>>
  <2> HIDE DEF x
  <2>6. /\ x \o a \in Seq(Token) /\ Len(x \o a) = Len(x) + Len(a)
        /\ \A i \in 1 .. Len(x) + Len(a) : (x \o a)[i] = IF i <= Len(x) THEN x[i] ELSE a[i - Len(x)]
    BY <2>4, <2>5, ConcatProperties DEF x
  <2>7. Len(x) = 1 /\ x[1] = h
    BY <2>5 DEF x
  <2>8. Len(x \o a) = 1 + Exported[d] /\ (x \o a)[1] = h
    BY <1>2, <2>4, <2>6, <2>7
  <2> QED
    BY <2>2, <2>6, <2>8 DEF x, h
<1>4. DOMAIN DevicePieces = 1 .. Len(Exported)
  BY <1>2 DEF DevicePieces
<1>5. DevicePieces \in Seq(Seq(Token)) /\ Len(DevicePieces) = Len(Exported)
  <2>1. DevicePieces = [d \in 1 .. Len(Exported) |-> DevicePieces[d]]
    BY <1>4 DEF DevicePieces
  <2> QED
    BY <1>2, <1>3, <2>1
<1>6. FlattenSeq(DevicePieces) \in Seq(Token) /\ Holds(FlattenSeq(DevicePieces), DevicePieces)
  BY <1>5, FlattenHolds
<1> QED
  BY <1>1, <1>2, <1>3, <1>5, <1>6

LEMMA ListIs ==
    ASSUME HaveInterfaces
    PROVE  /\ DeviceList \in Seq(Token) /\ DeviceList # <<>> /\ Head(DeviceList) = Header(Len(Exported))
           /\ Tail(DeviceList) = FlattenSeq(DevicePieces)
<1> DEFINE h == Header(Len(Exported))
           a == FlattenSeq(DevicePieces)
           x == <<h>>
<1>1. h \in Token /\ a \in Seq(Token)
  BY PiecesAre DEF Header, Token
<1> HIDE DEF h, a
<1>2. x \in Seq(Token) /\ Len(x) = 1 /\ x[1] = h
  BY <1>1
<1> HIDE DEF x
<1>3. DeviceList = x \o a
  BY DEF DeviceList, x, h, a
<1>4. /\ DeviceList \in Seq(Token) /\ Len(DeviceList) = 1 + Len(a)
      /\ \A i \in 1 .. 1 + Len(a) : DeviceList[i] = IF i <= 1 THEN x[i] ELSE a[i - 1]
  <2>1. /\ x \o a \in Seq(Token) /\ Len(x \o a) = Len(x) + Len(a)
        /\ \A i \in 1 .. Len(x) + Len(a) : (x \o a)[i] = IF i <= Len(x) THEN x[i] ELSE a[i - Len(x)]
    BY <1>1, <1>2, ConcatProperties
  <2> QED
    BY <1>2, <1>3, <2>1
<1>5. Len(a) \in Nat /\ DeviceList # <<>>
  BY <1>1, <1>4
<1>6. Head(DeviceList) = h
  BY <1>2, <1>4, <1>5
<1>7. Tail(DeviceList) = a
  <2> DEFINE t == Tail(DeviceList)
  <2>1. /\ t \in Seq(Token) /\ Len(t) = Len(DeviceList) - 1
        /\ \A i \in 1 .. Len(t) : t[i] = DeviceList[i + 1]
    BY <1>4, <1>5, HeadTailProperties
  <2> HIDE DEF t
  <2>2. Len(t) = Len(a)
    BY <1>4, <1>5, <2>1
  <2>3. ASSUME NEW i \in 1 .. Len(a) PROVE t[i] = a[i]
    <3>1. i + 1 \in 1 .. 1 + Len(a) /\ ~(i + 1 <= 1) /\ (i + 1) - 1 = i
      BY <1>5
    <3> QED
      BY <1>4, <2>1, <2>2, <3>1
  <2>4. t = a
    BY <1>1, <2>1, <2>2, <2>3, SeqEqual
  <2> QED
    BY <2>4 DEF t
<1> QED
  BY <1>4, <1>5, <1>6, <1>7 DEF h, a

Loop(base, n) == FoldLeft(ReadOne, base, [k \in 1 .. n |-> k])

\* The loop over the list runs, and each turn reads one device.
LEMMA ListLoops ==
    ASSUME NEW n \in Nat, NEW base
    PROVE  \E P : /\ DOMAIN P = 0 .. n /\ P[0] = base
                  /\ \A i \in 1 .. n : P[i] = ReadOne(P[i - 1], i)
                  /\ Loop(base, n) = P[n]
<1> DEFINE Body(g, m) == [t \in SUBSET (1 .. m) |->
                             IF t = {} THEN base ELSE ReadOne(g[t \ {Max(t)}], Max(t))]
           G == {m \in 0 .. n : \E g : g = Body(g, m)}
<1>1. 0 \in G
  <2> DEFINE f == [t \in SUBSET (1 .. 0) |-> base]
  <2>1. \A t \in SUBSET (1 .. 0) : t = {}
    OBVIOUS
  <2>2. f = Body(f, 0)
    <3>1. DOMAIN Body(f, 0) = SUBSET (1 .. 0) /\ \A t \in SUBSET (1 .. 0) : Body(f, 0)[t] = base
      BY <2>1
    <3> QED
      BY <3>1
  <2> HIDE DEF Body, f
  <2> QED
    BY <2>2
<1>2. ASSUME NEW m \in 1 .. n, m - 1 \in G PROVE m \in G
  <2>1. PICK f : f = Body(f, m - 1)
    BY <1>2
  <2> DEFINE e == [t \in SUBSET (1 .. m) |-> IF m \in t THEN ReadOne(f[t \ {m}], m) ELSE f[t]]
  <2>2. \A t \in SUBSET (1 .. m) : t \ {m} \in SUBSET (1 .. m - 1)
    OBVIOUS
  <2>3. \A t \in SUBSET (1 .. m) : m \notin t => t \in SUBSET (1 .. m - 1)
    OBVIOUS
  <2>4. \A t \in SUBSET (1 .. m - 1) : t \in SUBSET (1 .. m) /\ m \notin t /\ e[t] = f[t]
    <3>1. \A t \in SUBSET (1 .. m - 1) : t \in SUBSET (1 .. m) /\ m \notin t
      OBVIOUS
    <3> QED
      BY <3>1
  <2>5. \A t \in SUBSET (1 .. m - 1) : f[t] = IF t = {} THEN base ELSE ReadOne(f[t \ {Max(t)}], Max(t))
    BY <2>1
  <2>6. ASSUME NEW t \in SUBSET (1 .. m)
        PROVE  e[t] = IF t = {} THEN base ELSE ReadOne(e[t \ {Max(t)}], Max(t))
    <3>1. CASE m \in t
      <4>1. Max(t) = m
        <5>1. t \subseteq Nat /\ \A i \in t : i <= m
          OBVIOUS
        <5> QED
          BY <3>1, <5>1, MaxIs, Zenon
      <4>2. e[t] = ReadOne(f[t \ {m}], m) /\ e[t \ {m}] = f[t \ {m}]
        BY <2>2, <2>4, <3>1
      <4> HIDE DEF e
      <4>3. t # {}
        BY <3>1
      <4> QED
        BY <4>1, <4>2, <4>3
    <3>2. CASE m \notin t
      <4>1. t \in SUBSET (1 .. m - 1) /\ e[t] = f[t]
        BY <2>3, <2>4, <3>2
      <4> DEFINE x == Max(t)
      <4> HIDE DEF x
      <4>2. t \ {x} \in SUBSET (1 .. m - 1)
        BY <4>1
      <4>3. e[t \ {x}] = f[t \ {x}]
        BY <2>4, <4>2
      <4>4. f[t] = IF t = {} THEN base ELSE ReadOne(f[t \ {x}], x)
        BY <2>5, <4>1 DEF x
      <4> HIDE DEF e
      <4>5. e[t] = IF t = {} THEN base ELSE ReadOne(e[t \ {x}], x)
        BY <4>1, <4>3, <4>4
      <4> QED
        BY <4>5 DEF x
    <3> QED
      BY <3>1, <3>2
  <2>7. e = Body(e, m)
    BY <2>6
  <2> HIDE DEF e, Body
  <2> QED
    BY <2>7
<1>3. \E g : g = Body(g, n)
  <2> HIDE DEF G
  <2>1. \A m \in 0 .. n : m \in G
    BY <1>1, <1>2, UpTo
  <2>2. n \in G
    BY <2>1
  <2> QED
    BY <2>2 DEF G
<1> DEFINE seq == [k \in 1 .. n |-> k]
           Turns(g) == [t \in SUBSET (DOMAIN seq) |->
                           IF t = {} THEN base ELSE ReadOne(g[t \ {Max(t)}], seq[Max(t)])]
           iter == CHOOSE g : g = Turns(g)
<1>4. Loop(base, n) = iter[DOMAIN seq]
  BY DEF Loop, FoldLeft, MapThenFoldSet
<1>5. \E g : g = Turns(g)
  <2>1. PICK g : g = Body(g, n)
    BY <1>3
  <2>2. DOMAIN seq = 1 .. n /\ \A k \in 1 .. n : seq[k] = k
    OBVIOUS
  <2>3. \A t \in SUBSET (1 .. n) : t # {} => seq[Max(t)] = Max(t)
    BY <2>2, MaxIn
  <2>4. g = Turns(g)
    <3> HIDE DEF seq
    <3> QED
      BY <2>1, <2>2, <2>3
  <2> QED
    BY <2>4
<1>6. iter = Turns(iter)
  BY <1>5
<1> HIDE DEF iter
<1>7. DOMAIN seq = 1 .. n /\ \A k \in 1 .. n : seq[k] = k
  OBVIOUS
<1> HIDE DEF seq
<1>8. \A t \in SUBSET (1 .. n) : iter[t] = IF t = {} THEN base ELSE ReadOne(iter[t \ {Max(t)}], seq[Max(t)])
  BY <1>6, <1>7
<1> DEFINE P == [i \in 0 .. n |-> iter[1 .. i]]
<1>9. P[0] = base /\ P[n] = iter[1 .. n]
  <2>1. 1 .. 0 = {} /\ {} \in SUBSET (1 .. n)
    OBVIOUS
  <2> QED
    BY <1>8, <2>1
<1>10. ASSUME NEW i \in 1 .. n PROVE P[i] = ReadOne(P[i - 1], i)
  <2>1. /\ 1 .. i \in SUBSET (1 .. n) /\ 1 .. i # {}
        /\ Max(1 .. i) = i /\ (1 .. i) \ {i} = 1 .. (i - 1)
    BY UpToIs
  <2>2. iter[1 .. i] = ReadOne(iter[(1 .. i) \ {Max(1 .. i)}], seq[Max(1 .. i)])
    BY <1>8, <2>1, Zenon
  <2>3. P[i] = iter[1 .. i] /\ P[i - 1] = iter[1 .. (i - 1)]
    OBVIOUS
  <2> HIDE DEF P
  <2> QED
    BY <1>7, <2>1, <2>2, <2>3
<1> QED
  <2>1. DOMAIN P = 0 .. n
    OBVIOUS
  <2>2. Loop(base, n) = P[n]
    BY <1>4, <1>7, <1>9
  <2> HIDE DEF P
  <2> QED
    BY <1>9, <1>10, <2>1, <2>2

\* What is left of a sequence.
LEMMA LeftIs ==
    ASSUME NEW T, NEW s \in Seq(T), NEW i \in 1 .. Len(s)
    PROVE  /\ From(s, i - 1) \in Seq(T) /\ From(s, i - 1) # <<>> /\ From(s, i - 1)[1] = s[i]
           /\ Tail(From(s, i - 1)) = From(s, i)
<1> DEFINE n == Len(s)
           x == From(s, i - 1)
           y == From(s, i)
           t == Tail(x)
<1>1. n \in Nat /\ i - 1 \in 0 .. n /\ i \in 0 .. n /\ i \in 1 .. n
  OBVIOUS
<1>2. x \in Seq(T) /\ Len(x) = n - (i - 1) /\ \A k \in 1 .. n - (i - 1) : x[k] = s[(i - 1) + k]
  BY <1>1, FromIs
<1>3. y \in Seq(T) /\ Len(y) = n - i /\ \A k \in 1 .. n - i : y[k] = s[i + k]
  BY <1>1, FromIs
<1> HIDE DEF n, x, y
<1>4. x # <<>> /\ 1 \in 1 .. n - (i - 1) /\ (i - 1) + 1 = i
  BY <1>1, <1>2
<1>5. x[1] = s[i]
  BY <1>2, <1>4
<1>6. t \in Seq(T) /\ Len(t) = Len(x) - 1 /\ \A k \in 1 .. Len(t) : t[k] = x[k + 1]
  BY <1>2, <1>4, HeadTailProperties
<1> HIDE DEF t
<1>7. Len(t) = n - i
  BY <1>1, <1>2, <1>6
<1>8. ASSUME NEW k \in 1 .. n - i PROVE t[k] = y[k]
  <2>1. k + 1 \in 1 .. n - (i - 1) /\ (i - 1) + (k + 1) = i + k
    BY <1>1
  <2>2. t[k] = x[k + 1]
    BY <1>6, <1>7
  <2>3. x[k + 1] = s[i + k]
    BY <1>2, <2>1
  <2> QED
    BY <1>3, <2>2, <2>3
<1>9. t = y
  BY <1>3, <1>6, <1>7, <1>8, SeqEqual
<1> QED
  BY <1>2, <1>4, <1>5, <1>9 DEF x, y, t

\* The host reads the interface counts of all that is exported.
LEMMA ListRead ==
    ASSUME HaveInterfaces
    PROVE  Loop([rest |-> FlattenSeq(DevicePieces), list |-> <<>>], Len(Exported)).list = Exported
<1> DEFINE n == Len(Exported)
           q == DevicePieces
           base == [rest |-> FlattenSeq(DevicePieces), list |-> <<>>]
<1>1. /\ Exported \in Seq(Nat) /\ n \in Nat /\ q \in Seq(Seq(Token)) /\ Len(q) = n
      /\ \A d \in 1 .. n : Len(q[d]) = 1 + Exported[d] /\ q[d][1] = Header(Exported[d])
      /\ base.rest \in Seq(Token) /\ Holds(base.rest, q) /\ base.list = <<>>
  BY PiecesAre
<1> HIDE DEF n, q, base
<1>2. PICK P : /\ DOMAIN P = 0 .. n /\ P[0] = base
               /\ \A i \in 1 .. n : P[i] = ReadOne(P[i - 1], i)
               /\ Loop(base, n) = P[n]
  <2>1. n \in Nat
    BY <1>1
  <2> QED
    BY <2>1, ListLoops, Zenon
<1> DEFINE Good(i) == /\ P[i].rest \in Seq(Token) /\ Holds(P[i].rest, From(q, i))
                      /\ P[i].list = SubSeq(Exported, 1, i)
           G == {i \in 0 .. n : Good(i)}
<1>3. 0 \in G
  <2>1. From(q, 0) = q
    BY <1>1, SubSeqFull DEF From
  <2>2. SubSeq(Exported, 1, 0) = <<>>
    BY SubSeqEmpty
  <2>3. 0 \in 0 .. n
    BY <1>1
  <2>4. Good(0)
    BY <1>1, <1>2, <2>1, <2>2
  <2> HIDE DEF Good
  <2> QED
    BY <2>3, <2>4
<1>4. ASSUME NEW i \in 1 .. n, i - 1 \in G PROVE i \in G
  <2> DEFINE x == P[i - 1]
             s == x.rest
             r == From(q, i - 1)
             k == Exported[i]
  <2>1. s \in Seq(Token) /\ Holds(s, r) /\ x.list = SubSeq(Exported, 1, i - 1)
    BY <1>4
  <2>2. r \in Seq(Seq(Token)) /\ r # <<>> /\ r[1] = q[i] /\ Tail(r) = From(q, i)
    BY <1>1, LeftIs
  <2>3. k \in Nat /\ Len(r[1]) = 1 + k /\ r[1][1] = Header(k)
    <3>1. k \in Nat /\ Len(q[i]) = 1 + k /\ q[i][1] = Header(k)
      BY <1>1 DEF n
    <3> HIDE DEF r, k
    <3> QED
      BY <2>2, <3>1
  <2>4. P[i] = ReadOne(x, i)
    BY <1>2
  <2> HIDE DEF x, s, r, k
  <2>5. Len(s) >= 1 + k /\ Holds(From(s, 1 + k), Tail(r))
    BY <2>1, <2>2, <2>3, RestOf
  <2>6. Len(s) \in Nat /\ 1 + k \in 0 .. Len(s) /\ s # <<>>
    BY <2>1, <2>3, <2>5
  <2>7. From(s, 1 + k) \in Seq(Token)
    BY <2>1, <2>6, FromIs
  <2>8. Head(s) = Header(k)
    <3>1. SubSeq(s, 1, Len(r[1])) = r[1]
      BY <2>1, <2>2, <2>3, <2>5, RestOf, HoldsBegins
    <3>2. SubSeq(s, 1, 1 + k)[1] = s[1]
      BY <2>1, <2>3, <2>6, BeginningIs
    <3> QED
      BY <2>1, <2>3, <2>6, <3>1, <3>2
  <2>9. P[i] = [rest |-> From(s, 1 + k), list |-> Append(SubSeq(Exported, 1, i - 1), k)]
    <3>1. Head(s).part = "header" /\ Head(s).is = k /\ x.rest = s
      BY <2>8 DEF Header, s
    <3>2. ~(x.rest = <<>> \/ ~IsHeader(Head(x.rest)))
      BY <2>6, <3>1 DEF IsHeader
    <3>3. ReadOne(x, i) = [rest |-> From(x.rest, 1 + Head(x.rest).is), list |-> Append(x.list, Head(x.rest).is)]
      BY <3>2 DEF ReadOne
    <3> QED
      BY <2>1, <2>4, <3>1, <3>3
  <2>10. Append(SubSeq(Exported, 1, i - 1), k) = SubSeq(Exported, 1, i)
    <3>1. 1 \in 1 .. Len(Exported) /\ i \in 1 .. Len(Exported)
      BY <1>1 DEF n
    <3>2. SubSeq(Exported, 1, i) = SubSeq(Exported, 1, i - 1) \o <<Exported[i]>>
      BY <1>1, <3>1, SubSeqRecursiveSecond
    <3>3. SubSeq(Exported, 1, i - 1) \in Seq(Nat)
      <4>1. i - 1 \in 0 .. Len(Exported)
        BY <3>1
      <4> QED
        BY <1>1, <4>1, BeginningIs
    <3> QED
      BY <2>3, <3>2, <3>3, AppendIsConcat DEF k
  <2>11. i \in 0 .. n
    BY <1>1
  <2>12. P[i].rest = From(s, 1 + k) /\ P[i].list = SubSeq(Exported, 1, i)
    BY <2>9, <2>10
  <2>13. Good(i)
    BY <2>2, <2>5, <2>7, <2>12
  <2> HIDE DEF Good
  <2> QED
    BY <2>11, <2>13
<1> HIDE DEF G
<1>5. \A i \in 0 .. n : i \in G
  BY <1>1, <1>3, <1>4, UpTo
<1>6. P[n].list = SubSeq(Exported, 1, n)
  <2>1. n \in G
    BY <1>1, <1>5
  <2> QED
    BY <2>1 DEF G
<1>7. SubSeq(Exported, 1, n) = Exported
  BY <1>1, SubSeqFull DEF n
<1> QED
  BY <1>2, <1>6, <1>7 DEF base, n

-----------------------------------------------------------------------------
(* The two streams of a connection.                                        *)

\* The requests that the device has still to read, after the first k.
Coming(us, k) == [i \in 1 .. Len(us) - k |-> RequestBytes(k + i, us[k + i])]

LEMMA ComingIs ==
    ASSUME NEW us \in Seq(WellMade), NEW k \in 0 .. Len(us)
    PROVE  /\ Coming(us, k) \in Seq(Seq(Token)) /\ Len(Coming(us, k)) = Len(us) - k
           /\ \A i \in 1 .. Len(us) - k : /\ Coming(us, k)[i] = RequestBytes(k + i, us[k + i])
                                          /\ Len(Coming(us, k)[i]) > 0
<1>1. Len(us) \in Nat /\ k \in Nat /\ Len(us) - k \in Nat
  OBVIOUS
<1>2. ASSUME NEW i \in 1 .. Len(us) - k
      PROVE  RequestBytes(k + i, us[k + i]) \in Seq(Token) /\ Len(RequestBytes(k + i, us[k + i])) > 0
  <2>1. k + i \in 1 .. Len(us) /\ k + i \in Nat
    BY <1>1
  <2>2. us[k + i] \in WellMade
    BY <2>1
  <2> DEFINE n == k + i
             u == us[k + i]
             w == RequestBytes(n, u)
  <2>3. w \in Seq(Token) /\ Len(w) = 1 + PayloadLen(u) + DescCount(u)
        /\ PayloadLen(u) \in Nat /\ DescCount(u) \in Nat
    BY <2>1, <2>2, RequestIs
  <2> HIDE DEF w, n, u
  <2>4. w \in Seq(Token) /\ Len(w) > 0
    BY <2>3
  <2> QED
    BY <2>4 DEF w, n, u
<1> DEFINE at(i) == RequestBytes(k + i, us[k + i])
           m == Len(us) - k
<1> HIDE DEF at, m
<1>3. Coming(us, k) = [i \in 1 .. m |-> at(i)]
  BY DEF Coming, at, m
<1>4. m \in Nat /\ \A i \in 1 .. m : at(i) \in Seq(Token) /\ Len(at(i)) > 0
  BY <1>1, <1>2 DEF at, m
<1>5. /\ [i \in 1 .. m |-> at(i)] \in Seq(Seq(Token)) /\ Len([i \in 1 .. m |-> at(i)]) = m
      /\ \A j \in 1 .. m : [i \in 1 .. m |-> at(i)][j] = at(j)
  BY <1>4
<1> QED
  BY <1>3, <1>4, <1>5 DEF at, m

LEMMA ComingTail ==
    ASSUME NEW us \in Seq(WellMade), NEW k \in 0 .. Len(us), k < Len(us)
    PROVE  /\ Coming(us, k) # <<>> /\ Coming(us, k)[1] = RequestBytes(k + 1, us[k + 1])
           /\ Tail(Coming(us, k)) = Coming(us, k + 1)
<1> DEFINE q == Coming(us, k)
           r == Coming(us, k + 1)
           t == Tail(q)
<1>1. Len(us) \in Nat /\ k \in Nat /\ k + 1 \in 0 .. Len(us) /\ 1 \in 1 .. Len(us) - k
  OBVIOUS
<1>2. /\ q \in Seq(Seq(Token)) /\ Len(q) = Len(us) - k
      /\ \A i \in 1 .. Len(us) - k : q[i] = RequestBytes(k + i, us[k + i])
  BY ComingIs
<1>3. /\ r \in Seq(Seq(Token)) /\ Len(r) = Len(us) - (k + 1)
      /\ \A i \in 1 .. Len(us) - (k + 1) : r[i] = RequestBytes((k + 1) + i, us[(k + 1) + i])
  BY <1>1, ComingIs
<1> HIDE DEF q, r
<1>4. q # <<>>
  BY <1>1, <1>2
<1>5. q[1] = RequestBytes(k + 1, us[k + 1])
  BY <1>1, <1>2
<1>6. t \in Seq(Seq(Token)) /\ Len(t) = Len(q) - 1 /\ \A i \in 1 .. Len(t) : t[i] = q[i + 1]
  BY <1>2, <1>4, HeadTailProperties
<1> HIDE DEF t
<1>7. Len(t) = Len(r)
  BY <1>1, <1>2, <1>3, <1>6
<1>8. ASSUME NEW i \in 1 .. Len(r) PROVE t[i] = r[i]
  <2>1. i + 1 \in 1 .. Len(us) - k /\ k + (i + 1) = (k + 1) + i /\ i \in 1 .. Len(us) - (k + 1)
    BY <1>1, <1>3
  <2>2. t[i] = q[i + 1]
    BY <1>6, <1>7
  <2>3. q[i + 1] = RequestBytes(k + (i + 1), us[k + (i + 1)])
    BY <1>2, <2>1
  <2> QED
    BY <1>3, <2>1, <2>2, <2>3
<1>9. t = r
  BY <1>3, <1>6, <1>7, <1>8, SeqEqual
<1> QED
  BY <1>4, <1>5, <1>9 DEF q, r, t

LEMMA ComingMore ==
    ASSUME NEW us \in Seq(WellMade), NEW k \in 0 .. Len(us), NEW u \in WellMade,
           NEW s \in Seq(Token), Holds(s, Coming(us, k))
    PROVE  /\ s \o RequestBytes(Len(us) + 1, u) \in Seq(Token)
           /\ Holds(s \o RequestBytes(Len(us) + 1, u), Coming(Append(us, u), k))
<1> DEFINE vs == Append(us, u)
           n == Len(us) + 1
           w == RequestBytes(n, u)
           q == Coming(us, k)
           r == Coming(vs, k)
           z == Append(q, w)
<1>1. Len(us) \in Nat /\ k \in Nat /\ k <= Len(us) /\ n \in Nat
  OBVIOUS
<1>2. vs \in Seq(WellMade) /\ Len(vs) = n /\ (\A i \in 1 .. Len(us) : vs[i] = us[i]) /\ vs[n] = u
  BY AppendProperties
<1>3. w \in Seq(Token)
  BY <1>1, RequestIs
<1>4. /\ q \in Seq(Seq(Token)) /\ Len(q) = Len(us) - k
      /\ \A i \in 1 .. Len(us) - k : q[i] = RequestBytes(k + i, us[k + i])
  BY ComingIs
<1>5. /\ r \in Seq(Seq(Token)) /\ Len(r) = Len(vs) - k
      /\ \A i \in 1 .. Len(vs) - k : r[i] = RequestBytes(k + i, vs[k + i])
  <2>1. k \in 0 .. Len(vs)
    BY <1>1, <1>2
  <2> HIDE DEF vs
  <2> QED
    BY <1>2, <2>1, ComingIs
<1> HIDE DEF vs, n, w, q, r
<1>6. /\ z \in Seq(Seq(Token)) /\ Len(z) = Len(q) + 1
      /\ \A i \in 1 .. Len(q) : z[i] = q[i]
      /\ z[Len(q) + 1] = w
  BY <1>3, <1>4, AppendProperties
<1> HIDE DEF z
<1>7. Len(z) = Len(r) /\ Len(q) + 1 = n - k /\ k + (n - k) = n
  BY <1>1, <1>2, <1>4, <1>5, <1>6 DEF n
<1>8. ASSUME NEW i \in 1 .. Len(r) PROVE z[i] = r[i]
  <2>0. r[i] = RequestBytes(k + i, vs[k + i])
    BY <1>5
  <2>1. CASE i = n - k
    <3>1. z[i] = w /\ k + i = n
      BY <1>6, <1>7, <2>1
    <3> QED
      BY <1>2, <2>0, <3>1 DEF w
  <2>2. CASE i # n - k
    <3>1. i \in 1 .. Len(us) - k /\ k + i \in 1 .. Len(us)
      <4>1. Len(r) = n - k /\ n = Len(us) + 1
        BY <1>2, <1>5 DEF n
      <4> QED
        BY <1>1, <2>2, <4>1
    <3>2. z[i] = RequestBytes(k + i, us[k + i])
      BY <1>4, <1>6, <3>1
    <3> QED
      BY <1>2, <2>0, <3>1, <3>2
  <2> QED
    BY <2>1, <2>2
<1>9. z = r
  BY <1>5, <1>6, <1>7, <1>8, SeqEqual
<1>10. Holds(s, q)
  BY DEF q
<1>11. Holds(s \o w, z)
  BY <1>3, <1>4, <1>10, HoldsMore DEF z
<1>12. s \o w \in Seq(Token)
  BY <1>3, ConcatProperties
<1> QED
  BY <1>9, <1>11, <1>12 DEF w, n, r, vs

\* What the device puts on the way for the request n, and for requests ns one
\* after the other.
Back(us, g, n) == IF us[n].cmd = "unlink" THEN UnlinkReply(n) ELSE Reply(n, us[n], g[n])
Backs(us, g, ns) == [i \in 1 .. Len(ns) |-> Back(us, g, ns[i])]
Told(us, g, n) ==
    /\ n \in 1 .. Len(us)
    /\ us[n].cmd = "unlink" \/ (n \in DOMAIN g /\ g[n] \in Answers(n, us[n]))
Backed(us, g, ns) == ns \in Seq(Nat) /\ \A i \in 1 .. Len(ns) : Told(us, g, ns[i])

LEMMA UnlinkReplyIs ==
    ASSUME NEW n \in Nat
    PROVE  /\ UnlinkReply(n) \in Seq(Token) /\ Len(UnlinkReply(n)) = 1
           /\ UnlinkReply(n)[1] = Header([msg |-> n, actual |-> 0, npkts |-> 0])
<1> DEFINE h == Header([msg |-> n, actual |-> 0, npkts |-> 0])
<1>1. h \in Token
  BY DEF Header, Token
<1> HIDE DEF h
<1>2. UnlinkReply(n) = <<h>>
  BY DEF UnlinkReply, h
<1> QED
  BY <1>1, <1>2 DEF h

LEMMA BackIs ==
    ASSUME NEW us \in Seq(WellMade), NEW g, NEW n, Told(us, g, n)
    PROVE  n \in Nat /\ Back(us, g, n) \in Seq(Token) /\ Len(Back(us, g, n)) > 0
<1>1. n \in Nat /\ us[n] \in WellMade
  BY DEF Told
<1>2. CASE us[n].cmd = "unlink"
  <2>1. Back(us, g, n) = UnlinkReply(n)
    BY <1>2 DEF Back
  <2>2. n \in Nat
    BY <1>1
  <2>3. UnlinkReply(n) \in Seq(Token) /\ Len(UnlinkReply(n)) = 1
    BY <2>2, UnlinkReplyIs
  <2>4. UnlinkReply(n) \in Seq(Token) /\ Len(UnlinkReply(n)) > 0
    BY <2>3
  <2> QED
    BY <2>1, <2>2, <2>4, Zenon
<1>3. CASE us[n].cmd # "unlink"
  <2> DEFINE u == us[n]
             pkts == g[n]
  <2>1. Back(us, g, n) = Reply(n, u, pkts) /\ pkts \in Answers(n, u)
    BY <1>3 DEF Back, Told
  <2>2. u \in WellMade
    BY <1>1
  <2> HIDE DEF u, pkts
  <2>3. /\ Reply(n, u, pkts) \in Seq(Token)
        /\ ReplyData(u, pkts) \in Seq(Token) /\ ReplyDescs(u, pkts) \in Seq(Token)
        /\ Len(Reply(n, u, pkts)) = 1 + Len(ReplyData(u, pkts)) + Len(ReplyDescs(u, pkts))
    BY <1>1, <2>1, <2>2, ReplyIs
  <2>4. Len(ReplyData(u, pkts)) \in Nat /\ Len(ReplyDescs(u, pkts)) \in Nat
    BY <2>3
  <2>5. Len(Reply(n, u, pkts)) > 0
    BY <2>3, <2>4
  <2> QED
    BY <1>1, <2>1, <2>3, <2>5
<1> QED
  BY <1>2, <1>3

LEMMA BacksAre ==
    ASSUME NEW us \in Seq(WellMade), NEW g, NEW ns, Backed(us, g, ns)
    PROVE  /\ ns \in Seq(Nat) /\ Len(ns) \in Nat
           /\ Backs(us, g, ns) \in Seq(Seq(Token)) /\ Len(Backs(us, g, ns)) = Len(ns)
           /\ \A i \in 1 .. Len(ns) : /\ Backs(us, g, ns)[i] = Back(us, g, ns[i])
                                      /\ Len(Backs(us, g, ns)[i]) > 0
<1> DEFINE at(i) == Back(us, g, ns[i])
           m == Len(ns)
<1>1. ns \in Seq(Nat) /\ m \in Nat
  BY DEF Backed
<1>2. \A i \in 1 .. m : at(i) \in Seq(Token) /\ Len(at(i)) > 0
  BY BackIs DEF Backed
<1> HIDE DEF at, m
<1>3. Backs(us, g, ns) = [i \in 1 .. m |-> at(i)]
  BY DEF Backs, at, m
<1>4. /\ [i \in 1 .. m |-> at(i)] \in Seq(Seq(Token)) /\ Len([i \in 1 .. m |-> at(i)]) = m
      /\ \A j \in 1 .. m : [i \in 1 .. m |-> at(i)][j] = at(j)
  BY <1>1, <1>2
<1> QED
  BY <1>1, <1>2, <1>3, <1>4 DEF at, m

\* One more message on its way.
LEMMA BacksMore ==
    ASSUME NEW us \in Seq(WellMade), NEW g, NEW ns, Backed(us, g, ns), NEW n, Told(us, g, n),
           NEW s \in Seq(Token), Holds(s, Backs(us, g, ns))
    PROVE  /\ s \o Back(us, g, n) \in Seq(Token) /\ Backed(us, g, Append(ns, n))
           /\ Holds(s \o Back(us, g, n), Backs(us, g, Append(ns, n)))
<1> DEFINE q == Backs(us, g, ns)
           ms == Append(ns, n)
           r == Backs(us, g, ms)
           w == Back(us, g, n)
           z == Append(q, w)
<1>1. n \in Nat /\ w \in Seq(Token)
  BY BackIs
<1>2. /\ ns \in Seq(Nat) /\ Len(ns) \in Nat /\ q \in Seq(Seq(Token)) /\ Len(q) = Len(ns)
      /\ \A i \in 1 .. Len(ns) : q[i] = Back(us, g, ns[i])
  BY BacksAre
<1>3. ms \in Seq(Nat) /\ Len(ms) = Len(ns) + 1 /\ (\A i \in 1 .. Len(ns) : ms[i] = ns[i])
      /\ ms[Len(ns) + 1] = n
  BY <1>1, <1>2, AppendProperties
<1> HIDE DEF ms
<1>4. ASSUME NEW i \in 1 .. Len(ms) PROVE Told(us, g, ms[i])
  <2>1. i \in 1 .. Len(ns) \/ i = Len(ns) + 1
    BY <1>2, <1>3
  <2> QED
    BY <1>3, <2>1 DEF Backed
<1>5. Backed(us, g, ms)
  BY <1>3, <1>4 DEF Backed
<1>6. /\ r \in Seq(Seq(Token)) /\ Len(r) = Len(ms)
      /\ \A i \in 1 .. Len(ms) : r[i] = Back(us, g, ms[i])
  BY <1>5, BacksAre
<1> HIDE DEF q, r, w
<1>7. /\ z \in Seq(Seq(Token)) /\ Len(z) = Len(q) + 1
      /\ \A i \in 1 .. Len(q) : z[i] = q[i]
      /\ z[Len(q) + 1] = w
  BY <1>1, <1>2, AppendProperties
<1> HIDE DEF z
<1>8. ASSUME NEW i \in 1 .. Len(r) PROVE z[i] = r[i]
  <2>1. i \in 1 .. Len(ns) \/ i = Len(ns) + 1
    BY <1>2, <1>3, <1>6
  <2>2. i \in 1 .. Len(ms)
    BY <1>6
  <2>3. CASE i \in 1 .. Len(ns)
    BY <1>2, <1>3, <1>6, <1>7, <2>2, <2>3
  <2>4. CASE i = Len(ns) + 1
    BY <1>2, <1>3, <1>6, <1>7, <2>2, <2>4 DEF w
  <2> QED
    BY <2>1, <2>3, <2>4
<1>9. z = r
  <2>1. Len(z) = Len(r)
    BY <1>2, <1>3, <1>6, <1>7
  <2> QED
    BY <1>6, <1>7, <1>8, <2>1, SeqEqual
<1>10. Holds(s, q)
  BY DEF q
<1>11. Holds(s \o w, z)
  BY <1>1, <1>2, <1>10, HoldsMore DEF z
<1>12. s \o w \in Seq(Token)
  BY <1>1, ConcatProperties
<1> QED
  BY <1>5, <1>9, <1>11, <1>12 DEF w, ms, r

\* The first message on its way, and the others.
LEMMA BacksRest ==
    ASSUME NEW us \in Seq(WellMade), NEW g, NEW ns, Backed(us, g, ns),
           NEW s \in Seq(Token), Holds(s, Backs(us, g, ns)), s # <<>>
    PROVE  LET w == Back(us, g, ns[1])
           IN  /\ Told(us, g, ns[1]) /\ w \in Seq(Token)
               /\ Len(s) >= Len(w) /\ SubSeq(s, 1, Len(w)) = w
               /\ Backed(us, g, Tail(ns))
               /\ From(s, Len(w)) \in Seq(Token)
               /\ Holds(From(s, Len(w)), Backs(us, g, Tail(ns)))
<1> DEFINE q == Backs(us, g, ns)
           ms == Tail(ns)
           r == Backs(us, g, ms)
           w == Back(us, g, ns[1])
           z == Tail(q)
<1>1. /\ ns \in Seq(Nat) /\ Len(ns) \in Nat /\ q \in Seq(Seq(Token)) /\ Len(q) = Len(ns)
      /\ \A i \in 1 .. Len(ns) : q[i] = Back(us, g, ns[i])
      /\ \A i \in 1 .. Len(q) : Len(q[i]) > 0
  BY BacksAre
<1> HIDE DEF q
<1>2. Holds(s, q) /\ Begins(s, q)
  BY HoldsBegins DEF q
<1>3. q # <<>>
  BY <1>1, <1>2, HeadOf
<1>4. ns # <<>> /\ 1 \in 1 .. Len(ns)
  BY <1>1, <1>3
<1>5. q[1] = w /\ Told(us, g, ns[1])
  BY <1>1, <1>4 DEF Backed
<1>6. w \in Seq(Token) /\ Len(w) \in Nat
  BY <1>5, BackIs
<1> HIDE DEF w
<1>7. Len(s) >= Len(w) /\ SubSeq(s, 1, Len(w)) = w /\ Holds(From(s, Len(w)), z)
  BY <1>1, <1>2, <1>3, <1>5, RestOf
<1>8. Len(w) \in 0 .. Len(s)
  BY <1>6, <1>7
<1>9. From(s, Len(w)) \in Seq(Token)
  BY <1>8, FromIs
<1>10. /\ ms \in Seq(Nat) /\ Len(ms) = Len(ns) - 1 /\ \A i \in 1 .. Len(ms) : ms[i] = ns[i + 1]
  BY <1>1, <1>4, HeadTailProperties
<1>11. /\ z \in Seq(Seq(Token)) /\ Len(z) = Len(q) - 1 /\ \A i \in 1 .. Len(z) : z[i] = q[i + 1]
  BY <1>1, <1>3, HeadTailProperties
<1> HIDE DEF ms, z
<1>12. \A i \in 1 .. Len(ms) : i + 1 \in 1 .. Len(ns)
  BY <1>1, <1>10
<1>13. Backed(us, g, ms)
  BY <1>10, <1>12 DEF Backed
<1>14. /\ r \in Seq(Seq(Token)) /\ Len(r) = Len(ms)
       /\ \A i \in 1 .. Len(ms) : r[i] = Back(us, g, ms[i])
  BY <1>13, BacksAre
<1> HIDE DEF r
<1>15. \A i \in 1 .. Len(r) : z[i] = r[i]
  BY <1>1, <1>10, <1>11, <1>12, <1>14
<1>16. z = r
  <2>1. Len(z) = Len(r)
    BY <1>1, <1>10, <1>11, <1>14
  <2> QED
    BY <1>11, <1>14, <1>15, <2>1, SeqEqual
<1> QED
  BY <1>5, <1>6, <1>7, <1>9, <1>13, <1>16 DEF w, ms, r

\* What changes nothing that was told changes nothing on its way.
LEMMA BacksSame ==
    ASSUME NEW us \in Seq(WellMade), NEW g, NEW ns, Backed(us, g, ns),
           NEW vs \in Seq(WellMade), NEW h,
           \A n : Told(us, g, n) => Told(vs, h, n) /\ Back(vs, h, n) = Back(us, g, n)
    PROVE  Backed(vs, h, ns) /\ Backs(vs, h, ns) = Backs(us, g, ns)
<1>1. Backed(vs, h, ns)
  BY DEF Backed
<1>2. \A i \in 1 .. Len(ns) : Back(vs, h, ns[i]) = Back(us, g, ns[i])
  BY DEF Backed
<1>3. Backs(vs, h, ns) = Backs(us, g, ns)
  BY <1>2 DEF Backs
<1> QED
  BY <1>1, <1>3

\* One more request.
LEMMA ToldOfMore ==
    ASSUME NEW us \in Seq(WellMade), NEW u \in WellMade, NEW g
    PROVE  \A n : Told(us, g, n) => /\ Told(Append(us, u), g, n)
                                    /\ Back(Append(us, u), g, n) = Back(us, g, n)
<1> DEFINE vs == Append(us, u)
<1>1. Len(vs) = Len(us) + 1 /\ Len(us) \in Nat /\ \A i \in 1 .. Len(us) : vs[i] = us[i]
  BY AppendProperties
<1> HIDE DEF vs
<1>2. ASSUME NEW n, Told(us, g, n) PROVE Told(vs, g, n) /\ Back(vs, g, n) = Back(us, g, n)
  <2>1. n \in 1 .. Len(us) /\ n \in 1 .. Len(vs) /\ vs[n] = us[n]
    BY <1>1, <1>2 DEF Told
  <2>2. Told(vs, g, n)
    BY <1>2, <2>1 DEF Told
  <2>3. Back(vs, g, n) = Back(us, g, n)
    BY <2>1 DEF Back
  <2> QED
    BY <2>2, <2>3
<1> QED
  BY <1>2 DEF vs

\* One more answer, to a request that had none.
LEMMA PutIs ==
    ASSUME NEW g, NEW m, NEW p
    PROVE  /\ DOMAIN Put(g, m, p) = DOMAIN g \cup {m} /\ Put(g, m, p)[m] = p
           /\ \A n \in DOMAIN g : n # m => Put(g, m, p)[n] = g[n]
<1> QED
  BY DEF Put

LEMMA ToldOfAnswer ==
    ASSUME NEW us, NEW g, NEW m, m \notin DOMAIN g, NEW p
    PROVE  \A n : Told(us, g, n) => /\ Told(us, Put(g, m, p), n)
                                    /\ Back(us, Put(g, m, p), n) = Back(us, g, n)
<1> DEFINE h == Put(g, m, p)
<1>1. DOMAIN h = DOMAIN g \cup {m} /\ \A n \in DOMAIN g : h[n] = g[n]
  <2>1. DOMAIN h = DOMAIN g \cup {m} /\ \A n \in DOMAIN g : n # m => h[n] = g[n]
    BY DEF Put
  <2> HIDE DEF h
  <2> QED
    BY <2>1
<1> HIDE DEF h
<1>2. ASSUME NEW n, Told(us, g, n) PROVE Told(us, h, n) /\ Back(us, h, n) = Back(us, g, n)
  <2>1. CASE us[n].cmd = "unlink"
    BY <1>2, <2>1 DEF Told, Back
  <2>2. CASE us[n].cmd # "unlink"
    <3>1. n \in DOMAIN g /\ g[n] \in Answers(n, us[n]) /\ n \in 1 .. Len(us)
      BY <1>2, <2>2 DEF Told
    <3>2. n \in DOMAIN h /\ h[n] = g[n]
      BY <1>1, <3>1
    <3>3. Told(us, h, n)
      BY <3>1, <3>2 DEF Told
    <3> QED
      BY <2>2, <3>2, <3>3 DEF Back
  <2> QED
    BY <2>1, <2>2
<1> QED
  BY <1>2 DEF h

-----------------------------------------------------------------------------
(* The inductive invariant.                                                *)

Typed ==
    /\ conn \in {"fresh", "listed", "imported", "gone", "ended"}
    /\ toDev \in Seq(Token) /\ toHost \in Seq(Token)
    /\ sent \in Seq(WellMade)
    /\ served \in Seq([msg : Nat, packets : Seq(Seq(Token)), whole : BOOLEAN])
    /\ Len(served) <= Len(sent)

\* Before an import there are no requests.
Early ==
    conn \in {"fresh", "listed"} =>
        /\ toDev = <<>> /\ sent = <<>> /\ served = <<>> /\ open = {}
        /\ DOMAIN given = {} /\ DOMAIN got = {}

\* What is on its way to the device are the requests that it has not read, the
\* last of them perhaps cut.
Ahead ==
    /\ conn = "imported" => Holds(toDev, Coming(sent, Len(served)))
    /\ conn = "gone" => toDev = <<>> \/ Begins(toDev, Coming(sent, Len(served)))

\* What the device has read.
HasRead ==
    \A i \in 1 .. Len(served) :
        /\ served[i].msg = i
        /\ served[i].whole \/ (i = Len(served) /\ conn # "imported" /\ toDev = <<>>)
        /\ served[i].whole /\ sent[i].dir = "out" => served[i].packets = Slots(i, sent[i])

\* A request is held until it is answered.
IsHeld ==
    /\ \A n \in open : n \in 1 .. Len(served) /\ sent[n].cmd = "submit" /\ n \notin DOMAIN given
    /\ \A n \in DOMAIN given : n \in 1 .. Len(served)

\* What is on its way to the host are replies.
Behind ==
    conn = "imported" =>
        \E ns : Backed(sent, given, ns) /\ Holds(toHost, Backs(sent, given, ns))

\* What the host has read.
HasGot ==
    \A n \in DOMAIN got :
        /\ n \in 1 .. Len(sent)
        /\ sent[n].dir = "in" => n \in DOMAIN given /\ got[n] = given[n]

HasListed ==
    /\ listed \in {<<>>, Exported}
    /\ conn = "fresh" => toHost = <<>>
    /\ conn = "listed" => toHost \in {<<>>, DeviceList}

WireInv == Typed /\ Early /\ Ahead /\ HasRead /\ IsHeld /\ Behind /\ HasGot /\ HasListed

LEMMA InitStarts == WireInit => WireInv
<1> SUFFICES ASSUME WireInit PROVE WireInv
  OBVIOUS
<1>1. /\ conn = "fresh" /\ toDev = <<>> /\ toHost = <<>> /\ sent = <<>> /\ served = <<>>
      /\ open = {} /\ listed = <<>> /\ DOMAIN given = {} /\ DOMAIN got = {}
  BY DEF WireInit
<1>2. Typed
  <2>1. \A T : <<>> \in Seq(T)
    OBVIOUS
  <2>2. Len(<<>>) = 0
    OBVIOUS
  <2> QED
    BY <1>1, <2>1, <2>2 DEF Typed
<1>3. Early /\ Ahead /\ IsHeld /\ Behind /\ HasGot /\ HasListed
  BY <1>1 DEF Early, Ahead, IsHeld, Behind, HasGot, HasListed
<1>4. HasRead
  <2>1. 1 .. Len(served) = {}
    BY <1>1
  <2> QED
    BY <2>1 DEF HasRead
<1> QED
  BY <1>2, <1>3, <1>4 DEF WireInv

LEMMA SendDevlistKeeps ==
    ASSUME WireInv, HaveInterfaces, SendDevlist
    PROVE  WireInv'
<1>1. /\ conn = "fresh" /\ conn' = "listed" /\ toHost' = DeviceList
      /\ UNCHANGED <<toDev, sent, served, open, given, got, listed>>
  BY DEF SendDevlist, DeviceList, DevicePieces
<1>2. DeviceList \in Seq(Token)
  BY ListIs
<1>3. Typed'
  BY <1>1, <1>2 DEF WireInv, Typed
<1>4. Early' /\ Ahead' /\ IsHeld' /\ Behind' /\ HasGot' /\ HasListed'
  BY <1>1 DEF WireInv, Early, Ahead, IsHeld, Behind, HasGot, HasListed
<1>5. HasRead'
  BY <1>1 DEF WireInv, HasRead, Early
<1> QED
  BY <1>3, <1>4, <1>5 DEF WireInv

\* The host's loop over the list.
LEMMA ListStep ==
    ASSUME ReadDevlist
    PROVE  listed' = Loop([rest |-> Tail(toHost), list |-> <<>>], Head(toHost).is).list
<1> QED
  BY DEF ReadDevlist, Loop, ReadOne

LEMMA ReadDevlistKeeps ==
    ASSUME WireInv, HaveInterfaces, ReadDevlist
    PROVE  WireInv'
<1>1. /\ conn = "listed" /\ toHost # <<>> /\ toHost' = <<>>
      /\ UNCHANGED <<conn, toDev, sent, served, open, given, got>>
  BY DEF ReadDevlist
<1>2. toHost = DeviceList
  BY <1>1 DEF WireInv, HasListed
<1>3. Head(DeviceList).is = Len(Exported) /\ Tail(DeviceList) = FlattenSeq(DevicePieces)
  BY ListIs DEF Header
<1>4. listed' = Exported
  BY <1>2, <1>3, ListStep, ListRead
<1>5. Typed'
  <2>1. <<>> \in Seq(Token)
    OBVIOUS
  <2> QED
    BY <1>1, <2>1 DEF WireInv, Typed
<1>6. Early' /\ Ahead' /\ IsHeld' /\ Behind' /\ HasGot' /\ HasListed'
  BY <1>1, <1>4 DEF WireInv, Early, Ahead, IsHeld, Behind, HasGot, HasListed
<1>7. HasRead'
  BY <1>1 DEF WireInv, HasRead, Early
<1> QED
  BY <1>5, <1>6, <1>7 DEF WireInv

LEMMA ImportKeeps ==
    ASSUME WireInv, Import
    PROVE  WireInv'
<1>1. /\ conn = "fresh" /\ conn' = "imported"
      /\ UNCHANGED <<toDev, toHost, sent, served, open, given, got, listed>>
  BY DEF Import
<1>2. /\ toDev = <<>> /\ sent = <<>> /\ served = <<>> /\ open = {} /\ DOMAIN given = {}
      /\ DOMAIN got = {} /\ toHost = <<>> /\ listed \in {<<>>, Exported}
  BY <1>1 DEF WireInv, Early, HasListed
<1>3. Typed'
  BY <1>1 DEF WireInv, Typed
<1>4. Ahead'
  <2>1. Coming(sent, Len(served)) = <<>>
    BY <1>2 DEF Coming
  <2> QED
    BY <1>1, <1>2, <2>1, HoldsNone DEF Ahead
<1>5. Behind'
  <2>1. Backed(sent, given, <<>>)
    BY DEF Backed
  <2>2. Backs(sent, given, <<>>) = <<>>
    BY DEF Backs
  <2>3. Holds(toHost, Backs(sent, given, <<>>))
    BY <1>2, <2>2, HoldsNone
  <2> QED
    BY <1>1, <2>1, <2>3 DEF Behind
<1>6. Early' /\ IsHeld' /\ HasGot' /\ HasListed'
  BY <1>1, <1>2 DEF Early, IsHeld, HasGot, HasListed
<1>7. HasRead'
  <2>1. 1 .. Len(served) = {}
    BY <1>2
  <2> QED
    BY <1>1, <2>1 DEF HasRead
<1> QED
  BY <1>3, <1>4, <1>5, <1>6, <1>7 DEF WireInv

LEMMA SubmitKeeps ==
    ASSUME WireInv, NEW u \in Requests, Submit(u)
    PROVE  WireInv'
<1> DEFINE vs == Append(sent, u)
           n == Len(sent) + 1
<1>1. /\ conn = "imported" /\ sent' = vs /\ toDev' = toDev \o RequestBytes(n, u)
      /\ UNCHANGED <<conn, toHost, served, open, given, got, listed>>
  BY DEF Submit
<1>2. sent \in Seq(WellMade) /\ toDev \in Seq(Token) /\ Len(served) \in 0 .. Len(sent)
  BY DEF WireInv, Typed
<1>3. u \in WellMade
  BY <1>2, RequestsMade
<1>4. /\ vs \in Seq(WellMade) /\ Len(vs) = n /\ Len(sent) \in Nat
      /\ \A i \in 1 .. Len(sent) : vs[i] = sent[i]
  BY <1>2, <1>3, AppendProperties
<1>5. /\ toDev \o RequestBytes(n, u) \in Seq(Token)
      /\ Holds(toDev \o RequestBytes(n, u), Coming(vs, Len(served)))
  <2>1. Holds(toDev, Coming(sent, Len(served)))
    BY <1>1 DEF WireInv, Ahead
  <2> QED
    BY <1>2, <1>3, <2>1, ComingMore
<1>6. PICK ns : Backed(sent, given, ns) /\ Holds(toHost, Backs(sent, given, ns))
  BY <1>1 DEF WireInv, Behind
<1>7. Backed(vs, given, ns) /\ Backs(vs, given, ns) = Backs(sent, given, ns)
  <2>1. \A m : Told(sent, given, m) => Told(vs, given, m) /\ Back(vs, given, m) = Back(sent, given, m)
    BY <1>2, <1>3, ToldOfMore
  <2> HIDE DEF vs
  <2> QED
    BY <1>2, <1>4, <1>6, <2>1, BacksSame
<1> HIDE DEF vs, n
<1>8. \A i \in 1 .. Len(served) : i \in 1 .. Len(sent) /\ vs[i] = sent[i]
  BY <1>2, <1>4
<1>9. Typed'
  <2>1. Len(served) <= n
    BY <1>2, <1>4 DEF n
  <2> QED
    BY <1>1, <1>4, <1>5, <2>1 DEF WireInv, Typed
<1>10. Ahead' /\ Behind'
  BY <1>1, <1>5, <1>6, <1>7 DEF Ahead, Behind
<1>11. Early' /\ HasListed'
  BY <1>1 DEF WireInv, Early, HasListed
<1>12. HasRead'
  BY <1>1, <1>8 DEF WireInv, HasRead
<1>13. IsHeld'
  BY <1>1, <1>8 DEF WireInv, IsHeld
<1>14. HasGot'
  <2>1. ASSUME NEW m \in DOMAIN got
        PROVE  m \in 1 .. Len(vs) /\ (vs[m].dir = "in" => m \in DOMAIN given /\ got[m] = given[m])
    <3>1. m \in 1 .. Len(sent) /\ (sent[m].dir = "in" => m \in DOMAIN given /\ got[m] = given[m])
      BY DEF WireInv, HasGot
    <3>2. m \in 1 .. n /\ vs[m] = sent[m]
      BY <1>4, <3>1 DEF n
    <3> QED
      BY <1>4, <3>1, <3>2
  <2> QED
    BY <1>1, <2>1 DEF HasGot
<1> QED
  BY <1>9, <1>10, <1>11, <1>12, <1>13, <1>14 DEF WireInv

LEMMA HostGoneKeeps ==
    ASSUME WireInv, NEW k \in 0 .. Len(toDev), HostGone(k)
    PROVE  WireInv'
<1>1. /\ conn = "imported" /\ conn' = "gone" /\ toDev' = SubSeq(toDev, 1, k) /\ toHost' = <<>>
      /\ UNCHANGED <<sent, served, open, given, got, listed>>
  BY DEF HostGone
<1>2. sent \in Seq(WellMade) /\ toDev \in Seq(Token) /\ Len(served) \in 0 .. Len(sent)
  BY DEF WireInv, Typed
<1>3. SubSeq(toDev, 1, k) \in Seq(Token)
  BY <1>2, BeginningIs
<1>4. Begins(SubSeq(toDev, 1, k), Coming(sent, Len(served)))
  <2> DEFINE q == Coming(sent, Len(served))
  <2>1. q \in Seq(Seq(Token))
    BY <1>2, ComingIs
  <2>2. Holds(toDev, q)
    BY <1>1 DEF WireInv, Ahead
  <2> HIDE DEF q
  <2>3. Begins(toDev, q)
    BY <2>2, HoldsBegins
  <2>4. Begins(SubSeq(toDev, 1, k), q)
    BY <1>2, <2>1, <2>3, BeginsLess
  <2> QED
    BY <2>4 DEF q
<1>5. Typed'
  <2>1. <<>> \in Seq(Token)
    OBVIOUS
  <2> QED
    BY <1>1, <1>3, <2>1 DEF WireInv, Typed
<1>6. Ahead' /\ Early' /\ Behind' /\ HasListed'
  BY <1>1, <1>4 DEF WireInv, Ahead, Early, Behind, HasListed
<1>7. HasRead' /\ IsHeld' /\ HasGot'
  BY <1>1 DEF WireInv, HasRead, IsHeld, HasGot
<1> QED
  BY <1>5, <1>6, <1>7 DEF WireInv

\* What stands at the front of the stream, once the invariant holds.
AtFront(n, u) ==
    /\ n = Len(served) + 1 /\ n \in 1 .. Len(sent) /\ u = sent[n] /\ u \in WellMade
    /\ Head(toDev) = Header([msg |-> n, of |-> u])
    /\ Coming(sent, n - 1) \in Seq(Seq(Token)) /\ Coming(sent, n - 1) # <<>>
    /\ Coming(sent, n - 1)[1] = RequestBytes(n, u)
    /\ Tail(Coming(sent, n - 1)) = Coming(sent, n)
    /\ Begins(toDev, Coming(sent, n - 1))

LEMMA FrontIs ==
    ASSUME WireInv, conn \in {"imported", "gone"}, toDev # <<>>
    PROVE  AtFront(Len(served) + 1, sent[Len(served) + 1])
<1> DEFINE k == Len(served)
           q == Coming(sent, k)
<1>1. sent \in Seq(WellMade) /\ toDev \in Seq(Token) /\ k \in 0 .. Len(sent) /\ Len(sent) \in Nat
  BY DEF WireInv, Typed
<1>2. Begins(toDev, q)
  BY HoldsBegins DEF WireInv, Ahead
<1>3. /\ q \in Seq(Seq(Token)) /\ Len(q) = Len(sent) - k
      /\ \A i \in 1 .. Len(sent) - k : Len(q[i]) > 0
  BY <1>1, ComingIs
<1> HIDE DEF q, k
<1>4. q # <<>> /\ Head(toDev) = q[1][1]
  BY <1>1, <1>2, <1>3, HeadOf
<1>5. k < Len(sent)
  BY <1>1, <1>3, <1>4, EmptySeq
<1>6. q[1] = RequestBytes(k + 1, sent[k + 1]) /\ Tail(q) = Coming(sent, k + 1)
  BY <1>1, <1>5, ComingTail DEF q
<1>7. k + 1 \in 1 .. Len(sent) /\ k + 1 \in Nat /\ (k + 1) - 1 = k
  BY <1>1, <1>5
<1>8. sent[k + 1] \in WellMade
  BY <1>1, <1>7
<1>9. RequestBytes(k + 1, sent[k + 1])[1] = Header([msg |-> k + 1, of |-> sent[k + 1]])
  BY <1>7, <1>8, RequestIs
<1> DEFINE n == k + 1
           u == sent[n]
<1>10. AtFront(n, u)
  <2> HIDE DEF n, u
  <2>1. n = Len(served) + 1 /\ u = sent[n] /\ q = Coming(sent, n - 1)
    BY <1>7 DEF n, u, k, q
  <2>2. Head(toDev) = Header([msg |-> n, of |-> u])
    BY <1>4, <1>6, <1>9 DEF n, u
  <2>3. q[1] = RequestBytes(n, u) /\ Tail(q) = Coming(sent, n) /\ n \in 1 .. Len(sent) /\ u \in WellMade
    BY <1>6, <1>7, <1>8 DEF n, u
  <2> QED
    BY <1>2, <1>3, <1>4, <2>1, <2>2, <2>3 DEF AtFront
<1> QED
  BY <1>10 DEF n, u, k

\* The device has read one more request, or what there is of it.
LEMMA ReadingKeeps ==
    ASSUME WireInv, NEW n, NEW u, AtFront(n, u), toDev # <<>>,
           NEW pkts \in Seq(Seq(Token)), NEW whole \in BOOLEAN,
           whole /\ u.dir = "out" => pkts = Slots(n, u),
           served' = Append(served, [msg |-> n, packets |-> pkts, whole |-> whole]),
           toDev' \in Seq(Token), Ahead',
           whole \/ (conn # "imported" /\ toDev' = <<>>),
           conn \in {"imported", "gone"},
           open' = IF u.cmd = "unlink" THEN open \ {u.victim} ELSE open \cup {n},
           toHost' = IF u.cmd = "unlink" /\ conn = "imported" THEN toHost \o UnlinkReply(n) ELSE toHost,
           UNCHANGED <<conn, sent, given, got, listed>>
    PROVE  WireInv'
<1> DEFINE S == [msg : Nat, packets : Seq(Seq(Token)), whole : BOOLEAN]
           e == [msg |-> n, packets |-> pkts, whole |-> whole]
<1>1. /\ sent \in Seq(WellMade) /\ toDev \in Seq(Token) /\ toHost \in Seq(Token)
      /\ served \in Seq(S) /\ Len(served) \in Nat
  BY DEF WireInv, Typed
<1>2. /\ n = Len(served) + 1 /\ n \in 1 .. Len(sent) /\ n \in Nat
      /\ u = sent[n] /\ u \in WellMade
  BY DEF AtFront
<1>3. e \in S
  BY <1>2
<1>4. /\ served' \in Seq(S) /\ Len(served') = n
      /\ (\A i \in 1 .. Len(served) : served'[i] = served[i]) /\ served'[n] = e
  <2> HIDE DEF S, e
  <2>1. served' = Append(served, e)
    BY DEF e
  <2> QED
    BY <1>1, <1>2, <1>3, <2>1, AppendProperties
<1>5. toHost' \in Seq(Token) /\ Behind'
  <2>1. CASE u.cmd = "unlink" /\ conn = "imported"
    <3>1. PICK ns : Backed(sent, given, ns) /\ Holds(toHost, Backs(sent, given, ns))
      BY <2>1 DEF WireInv, Behind
    <3>2. Told(sent, given, n)
      BY <1>2, <2>1 DEF Told
    <3>3. Back(sent, given, n) = UnlinkReply(n)
      BY <1>2, <2>1 DEF Back
    <3> DEFINE ms == Append(ns, n)
    <3>4. /\ toHost \o Back(sent, given, n) \in Seq(Token) /\ Backed(sent, given, ms)
          /\ Holds(toHost \o Back(sent, given, n), Backs(sent, given, ms))
      BY <1>1, <3>1, <3>2, BacksMore
    <3> HIDE DEF ms
    <3>5. toHost' = toHost \o Back(sent, given, n)
      BY <2>1, <3>3
    <3>6. Backed(sent', given', ms) /\ Holds(toHost', Backs(sent', given', ms))
      BY <3>4, <3>5
    <3> QED
      BY <3>4, <3>5, <3>6 DEF Behind
  <2>2. CASE ~(u.cmd = "unlink" /\ conn = "imported")
    BY <1>1, <2>2 DEF WireInv, Behind
  <2> QED
    BY <2>1, <2>2
<1>6. Typed'
  <2>1. Len(served') <= Len(sent')
    BY <1>2, <1>4
  <2> QED
    BY <1>4, <1>5, <2>1 DEF WireInv, Typed
<1>7. Early' /\ HasListed' /\ HasGot'
  BY DEF WireInv, Early, HasListed, HasGot
<1>8. HasRead'
  <2>1. ASSUME NEW i \in 1 .. Len(served')
        PROVE  /\ served'[i].msg = i
               /\ served'[i].whole \/ (i = Len(served') /\ conn' # "imported" /\ toDev' = <<>>)
               /\ served'[i].whole /\ sent'[i].dir = "out" => served'[i].packets = Slots(i, sent'[i])
    <3>1. i \in 1 .. Len(served) \/ i = n
      BY <1>1, <1>2, <1>4
    <3>2. CASE i = n
      BY <1>2, <1>4, <3>2
    <3>3. CASE i \in 1 .. Len(served)
      <4>1. served'[i] = served[i]
        BY <1>4, <3>3
      <4>2. /\ served[i].msg = i /\ served[i].whole
            /\ served[i].whole /\ sent[i].dir = "out" => served[i].packets = Slots(i, sent[i])
        BY <3>3 DEF WireInv, HasRead
      <4> QED
        BY <4>1, <4>2
    <3> QED
      BY <3>1, <3>2, <3>3
  <2> QED
    BY <2>1 DEF HasRead
<1>9. IsHeld'
  <2>1. \A m \in 1 .. Len(served) : m \in 1 .. Len(served')
    BY <1>1, <1>2, <1>4
  <2>2. \A m \in DOMAIN given : m \in 1 .. Len(served)
    BY DEF WireInv, IsHeld
  <2>3. n \notin DOMAIN given
    BY <1>1, <1>2, <2>2
  <2>4. ASSUME NEW m \in open'
        PROVE  m \in 1 .. Len(served') /\ sent'[m].cmd = "submit" /\ m \notin DOMAIN given'
    <3>1. m \in open \/ (m = n /\ u.cmd # "unlink")
      OBVIOUS
    <3>2. CASE m \in open
      BY <2>1, <3>2 DEF WireInv, IsHeld
    <3>3. CASE m = n /\ u.cmd # "unlink"
      <4>1. u.cmd = "submit"
        BY <1>2, <3>3, MadeIs
      <4> QED
        BY <1>1, <1>2, <1>4, <2>3, <3>3, <4>1
    <3> QED
      BY <3>1, <3>2, <3>3
  <2> QED
    BY <2>1, <2>2, <2>4 DEF IsHeld
<1> QED
  BY <1>5, <1>6, <1>7, <1>8, <1>9 DEF WireInv

LEMMA ServeKeeps ==
    ASSUME WireInv, Serve
    PROVE  WireInv'
<1> DEFINE n == Len(served) + 1
           u == sent[n]
           r == ReadCmd(toDev)
           w == RequestBytes(n, u)
<1>1. conn \in {"imported", "gone"} /\ toDev # <<>> /\ UNCHANGED <<sent, given, got, listed>>
  BY DEF Serve
<1>2. AtFront(n, u)
  BY <1>1, FrontIs
<1> HIDE DEF n, u
<1>3. IsHeader(Head(toDev)) /\ Head(toDev).is.of = u /\ Head(toDev).is.msg = n
  BY <1>2 DEF AtFront, Header, IsHeader
<1>4. /\ r.whole \/ conn = "gone"
      /\ toDev' = r.rest
      /\ IF r.whole \/ DescCount(u) = 0
         THEN /\ served' = Append(served, [msg |-> n, packets |-> r.packets, whole |-> r.whole])
              /\ open' = IF u.cmd = "unlink" THEN open \ {u.victim} ELSE open \cup {n}
              /\ toHost' = IF u.cmd = "unlink" /\ conn = "imported"
                           THEN toHost \o UnlinkReply(n) ELSE toHost
              /\ UNCHANGED conn
         ELSE conn' = "ended" /\ UNCHANGED <<served, open, toHost>>
  <2> HIDE DEF r
  <2> QED
    BY <1>3 DEF Serve, r
<1>5. toDev \in Seq(Token) /\ n \in Nat /\ u \in WellMade /\ n = Len(served) + 1 /\ Len(toDev) \in Nat
  BY <1>2 DEF WireInv, Typed, AtFront
<1>6. w \in Seq(Token) /\ Len(w) \in Nat
  <2>1. n \in Nat /\ u \in WellMade
    BY <1>5
  <2>2. w \in Seq(Token)
    BY <2>1, RequestIs
  <2> QED
    BY <2>2
<1>7. /\ Coming(sent, n - 1) \in Seq(Seq(Token)) /\ Coming(sent, n - 1) # <<>>
      /\ Coming(sent, n - 1)[1] = w /\ Tail(Coming(sent, n - 1)) = Coming(sent, n)
      /\ Begins(toDev, Coming(sent, n - 1)) /\ n - 1 = Len(served)
      /\ Head(toDev) = Header([msg |-> n, of |-> u])
  <2>1. n - 1 = Len(served)
    BY DEF n, WireInv, Typed
  <2> QED
    BY <1>2, <2>1 DEF AtFront
<1> HIDE DEF w, r
<1>8. CASE Len(toDev) >= Len(w)
  <2>1. SubSeq(toDev, 1, Len(w)) = w /\ Begins(From(toDev, Len(w)), Coming(sent, n))
    BY <1>5, <1>7, <1>8, RestOf
  <2>2. r.whole /\ r.rest = From(toDev, Len(w)) /\ r.packets = IF u.dir = "out" THEN Slots(n, u) ELSE << <<>> >>
    BY <1>5, <1>8, <2>1, ReadWhole DEF r, w
  <2>3. r.packets \in Seq(Seq(Token))
    <3>1. Slots(n, u) \in Seq(Seq(Token))
      BY <1>5, SlotsIs
    <3>2. << <<>> >> \in Seq(Seq(Token))
      OBVIOUS
    <3> QED
      BY <2>2, <3>1, <3>2
  <2>4. /\ served' = Append(served, [msg |-> n, packets |-> r.packets, whole |-> TRUE])
        /\ toDev' = From(toDev, Len(w)) /\ UNCHANGED conn
        /\ open' = IF u.cmd = "unlink" THEN open \ {u.victim} ELSE open \cup {n}
        /\ toHost' = IF u.cmd = "unlink" /\ conn = "imported" THEN toHost \o UnlinkReply(n) ELSE toHost
    <3>1. r.whole = TRUE
      BY <2>2, WholeIs DEF r
    <3> QED
      BY <1>4, <2>2, <3>1
  <2>5. toDev' \in Seq(Token)
    <3>1. Len(w) \in 0 .. Len(toDev)
      BY <1>5, <1>6, <1>8
    <3> QED
      BY <1>5, <2>4, <3>1, FromIs
  <2>6. Len(served') = n
    BY <1>5, <2>4 DEF WireInv, Typed
  <2>7. Ahead'
    <3>1. conn = "imported" => Holds(From(toDev, Len(w)), Coming(sent, n))
      <4>1. conn = "imported" => Holds(toDev, Coming(sent, n - 1))
        BY <1>7 DEF WireInv, Ahead
      <4> QED
        BY <1>5, <1>7, <4>1, RestOf
    <3> QED
      BY <1>1, <2>1, <2>4, <2>6, <3>1 DEF Ahead
  <2>8. u.dir = "out" => r.packets = Slots(n, u)
    BY <2>2
  <2> QED
    BY <1>1, <1>2, <2>3, <2>4, <2>5, <2>7, <2>8, ReadingKeeps
<1>9. CASE Len(toDev) < Len(w)
  <2>1. ~r.whole /\ r.rest = <<>> /\ r.packets = << <<>> >>
    BY <1>5, <1>7, <1>9, ReadShort DEF r, w
  <2>2. conn = "gone" /\ toDev' = <<>> /\ <<>> \in Seq(Token)
    BY <1>4, <2>1
  <2>3. CASE DescCount(u) = 0
    <3>1. /\ served' = Append(served, [msg |-> n, packets |-> << <<>> >>, whole |-> FALSE])
          /\ UNCHANGED conn
          /\ open' = IF u.cmd = "unlink" THEN open \ {u.victim} ELSE open \cup {n}
          /\ toHost' = IF u.cmd = "unlink" /\ conn = "imported" THEN toHost \o UnlinkReply(n) ELSE toHost
      <4>1. r.whole = FALSE
        BY <2>1, WholeIs DEF r
      <4>2. r.whole \/ DescCount(u) = 0
        BY <2>3
      <4>3. r.packets = << <<>> >>
        BY <2>1
      <4>4. /\ served' = Append(served, [msg |-> n, packets |-> r.packets, whole |-> r.whole])
            /\ open' = IF u.cmd = "unlink" THEN open \ {u.victim} ELSE open \cup {n}
            /\ toHost' = IF u.cmd = "unlink" /\ conn = "imported"
                         THEN toHost \o UnlinkReply(n) ELSE toHost
            /\ UNCHANGED conn
        BY <1>4, <4>2, Zenon
      <4>5. served' = Append(served, [msg |-> n, packets |-> << <<>> >>, whole |-> FALSE])
        BY <4>1, <4>3, <4>4
      <4> QED
        BY <4>4, <4>5
    <3>2. Ahead'
      BY <2>2, <3>1 DEF Ahead
    <3>3. << <<>> >> \in Seq(Seq(Token))
      OBVIOUS
    <3> QED
      BY <1>1, <1>2, <2>2, <3>1, <3>2, <3>3, ReadingKeeps
  <2>4. CASE DescCount(u) # 0
    <3>1. conn' = "ended" /\ UNCHANGED <<served, open, toHost>>
      BY <1>4, <2>1, <2>4
    <3>2. Typed'
      BY <1>1, <2>2, <3>1 DEF WireInv, Typed
    <3>3. Early' /\ Ahead' /\ IsHeld' /\ Behind' /\ HasGot' /\ HasListed'
      BY <1>1, <3>1 DEF WireInv, Early, Ahead, IsHeld, Behind, HasGot, HasListed
    <3>4. HasRead'
      BY <1>1, <2>2, <3>1 DEF WireInv, HasRead
    <3> QED
      BY <3>2, <3>3, <3>4 DEF WireInv
  <2> QED
    BY <2>3, <2>4
<1> QED
  BY <1>5, <1>6, <1>8, <1>9

LEMMA AnswerKeeps ==
    ASSUME WireInv, NEW n \in open, NEW pkts \in Answers(n, sent[n]), Answer(n, pkts)
    PROVE  WireInv'
<1> DEFINE g == Put(given, n, pkts)
<1>1. /\ conn = "imported" /\ open' = open \ {n} /\ toHost' = toHost \o Reply(n, sent[n], pkts)
      /\ given' = g /\ UNCHANGED <<conn, toDev, sent, served, got, listed>>
  BY DEF Answer
<1>2. /\ sent \in Seq(WellMade) /\ toHost \in Seq(Token) /\ Len(served) \in 0 .. Len(sent)
      /\ n \in 1 .. Len(served) /\ n \in 1 .. Len(sent) /\ sent[n].cmd = "submit" /\ n \notin DOMAIN given
  BY DEF WireInv, Typed, IsHeld
<1>3. DOMAIN g = DOMAIN given \cup {n} /\ g[n] = pkts /\ \A m \in DOMAIN given : g[m] = given[m]
  BY <1>2 DEF Put
<1>4. \A m : Told(sent, given, m) => Told(sent, g, m) /\ Back(sent, g, m) = Back(sent, given, m)
  BY <1>2, ToldOfAnswer
<1> HIDE DEF g
<1>5. Told(sent, g, n) /\ Back(sent, g, n) = Reply(n, sent[n], pkts)
  BY <1>2, <1>3 DEF Told, Back
<1>6. PICK ns : Backed(sent, given, ns) /\ Holds(toHost, Backs(sent, given, ns))
  BY <1>1 DEF WireInv, Behind
<1>7. Backed(sent, g, ns) /\ Holds(toHost, Backs(sent, g, ns))
  BY <1>2, <1>4, <1>6, BacksSame
<1> DEFINE ms == Append(ns, n)
<1>8. /\ toHost \o Back(sent, g, n) \in Seq(Token) /\ Backed(sent, g, ms)
      /\ Holds(toHost \o Back(sent, g, n), Backs(sent, g, ms))
  BY <1>2, <1>5, <1>7, BacksMore
<1> HIDE DEF ms
<1>9. Typed' /\ Behind'
  <2>1. toHost' = toHost \o Back(sent, g, n)
    BY <1>1, <1>5
  <2>2. Backed(sent', given', ms) /\ Holds(toHost', Backs(sent', given', ms))
    BY <1>1, <1>8, <2>1
  <2> QED
    BY <1>1, <1>8, <2>1, <2>2 DEF WireInv, Typed, Behind
<1>10. Ahead' /\ Early' /\ HasListed' /\ HasRead'
  BY <1>1 DEF WireInv, Ahead, Early, HasListed, HasRead
<1>11. IsHeld'
  BY <1>1, <1>2, <1>3 DEF WireInv, IsHeld
<1>12. HasGot'
  BY <1>1, <1>3 DEF WireInv, HasGot
<1> QED
  BY <1>9, <1>10, <1>11, <1>12 DEF WireInv

\* The reply at the front of what the host reads.
LEMMA ReplyAtFront ==
    ASSUME NEW us \in Seq(WellMade), NEW g, NEW m, Told(us, g, m), NEW s \in Seq(Token),
           Len(s) >= Len(Back(us, g, m)), SubSeq(s, 1, Len(Back(us, g, m))) = Back(us, g, m)
    PROVE  LET h == Head(s).is
               u == us[m]
           IN  /\ IsHeader(Head(s)) /\ h.msg = m
               /\ Len(Back(us, g, m)) = 1 + (IF u.dir = "in" THEN h.actual ELSE 0) + h.npkts
               /\ u.dir = "in" => m \in DOMAIN g /\ Scattered(s, u) = g[m]
<1> DEFINE u == us[m]
           w == Back(us, g, m)
           pkts == g[m]
<1>1. m \in Nat /\ u \in WellMade /\ w \in Seq(Token) /\ Len(w) > 0
  <2>1. m \in Nat /\ w \in Seq(Token) /\ Len(w) > 0
    BY BackIs
  <2>2. m \in 1 .. Len(us)
    BY DEF Told
  <2> QED
    BY <2>1, <2>2
<1>2. CASE u.cmd = "unlink"
  <2>1. w = UnlinkReply(m)
    BY <1>2 DEF Back
  <2>2. Len(w) = 1 /\ w[1] = Header([msg |-> m, actual |-> 0, npkts |-> 0])
    BY <1>1, <2>1, UnlinkReplyIs
  <2>6. Len(s) >= Len(w) /\ SubSeq(s, 1, Len(w)) = w
    OBVIOUS
  <2> HIDE DEF w
  <2>3. Len(s) \in Nat /\ 1 \in 0 .. Len(s) /\ s # <<>>
    <3>1. Len(s) \in Nat /\ Len(s) >= 1
      BY <2>2, <2>6
    <3> QED
      BY <3>1
  <2>4. Head(s) = w[1]
    <3>1. SubSeq(s, 1, 1)[1] = s[1]
      BY <2>3, BeginningIs
    <3>2. SubSeq(s, 1, 1) = w
      BY <2>2, <2>6
    <3> QED
      BY <2>3, <3>1, <3>2
  <2>5. u.dir = "out"
    BY <1>1, <1>2, MadeIs
  <2> QED
    BY <2>2, <2>4, <2>5 DEF Header, IsHeader, w
<1>3. CASE u.cmd # "unlink"
  <2>1. w = Reply(m, u, pkts) /\ m \in DOMAIN g /\ pkts \in Answers(m, u)
    BY <1>3 DEF Back, Told
  <2>2. Len(s) >= Len(Reply(m, u, pkts)) /\ SubSeq(s, 1, Len(Reply(m, u, pkts))) = Reply(m, u, pkts)
    BY <2>1
  <2> HIDE DEF w, u, pkts
  <2>3. Head(s) = ReplyHeader(m, u, pkts) /\ (u.dir = "in" => Scattered(s, u) = pkts)
    BY <1>1, <2>1, <2>2, ReplyRead
  <2>4. /\ Len(ReplyData(u, pkts)) = IF u.dir = "in" THEN Total(Sizes(pkts)) ELSE 0
        /\ Len(ReplyDescs(u, pkts)) = IF u.iso THEN Len(pkts) ELSE 0
        /\ Len(Reply(m, u, pkts)) = 1 + Len(ReplyData(u, pkts)) + Len(ReplyDescs(u, pkts))
    BY <1>1, <2>1, ReplyIs
  <2>5. /\ IsHeader(Head(s)) /\ Head(s).is.msg = m /\ Head(s).is.actual = Total(Sizes(pkts))
        /\ Head(s).is.npkts = IF u.iso THEN Len(pkts) ELSE 0
    BY <2>3 DEF ReplyHeader, Header, IsHeader
  <2> QED
    BY <2>1, <2>3, <2>4, <2>5 DEF w, u, pkts
<1> QED
  BY <1>2, <1>3

LEMMA ReadReplyKeeps ==
    ASSUME WireInv, ReadReply
    PROVE  WireInv'
<1>1. conn = "imported" /\ toHost # <<>> /\ UNCHANGED <<toDev, sent, served, open, given, listed>>
  BY DEF ReadReply
<1>2. sent \in Seq(WellMade) /\ toHost \in Seq(Token) /\ Len(toHost) \in Nat
  BY DEF WireInv, Typed
<1>3. PICK ns : Backed(sent, given, ns) /\ Holds(toHost, Backs(sent, given, ns))
  BY <1>1 DEF WireInv, Behind
<1> DEFINE m == ns[1]
           ms == Tail(ns)
           u == sent[m]
           w == Back(sent, given, m)
           h == Head(toHost).is
<1>4. /\ Told(sent, given, m) /\ w \in Seq(Token)
      /\ Len(toHost) >= Len(w) /\ SubSeq(toHost, 1, Len(w)) = w
      /\ Backed(sent, given, ms)
      /\ From(toHost, Len(w)) \in Seq(Token)
      /\ Holds(From(toHost, Len(w)), Backs(sent, given, ms))
  BY <1>1, <1>2, <1>3, BacksRest
<1> HIDE DEF m, ms
<1>5. /\ IsHeader(Head(toHost)) /\ h.msg = m
      /\ Len(w) = 1 + (IF u.dir = "in" THEN h.actual ELSE 0) + h.npkts
      /\ u.dir = "in" => m \in DOMAIN given /\ Scattered(toHost, u) = given[m]
  BY <1>2, <1>4, ReplyAtFront
<1> DEFINE v == IF u.dir = "in" THEN Scattered(toHost, u) ELSE <<>>
<1>6. got' = Put(got, m, v) /\ toHost' = From(toHost, Len(w)) /\ UNCHANGED conn
  <2> HIDE DEF w
  <2> QED
    BY <1>5 DEF ReadReply, Scattered
<1> HIDE DEF w, h
<1>7. DOMAIN got' = DOMAIN got \cup {m} /\ got'[m] = v /\ \A k \in DOMAIN got : k # m => got'[k] = got[k]
  <2> HIDE DEF v
  <2> QED
    BY <1>6 DEF Put
<1> HIDE DEF v
<1>8. Typed'
  BY <1>1, <1>4, <1>6 DEF WireInv, Typed
<1>9. Behind'
  <2>1. Backed(sent', given', ms) /\ Holds(toHost', Backs(sent', given', ms))
    BY <1>1, <1>4, <1>6
  <2> QED
    BY <2>1 DEF Behind
<1>10. Ahead' /\ Early' /\ HasListed' /\ HasRead' /\ IsHeld'
  BY <1>1, <1>6 DEF WireInv, Ahead, Early, HasListed, HasRead, IsHeld
<1>11. HasGot'
  <2>1. m \in 1 .. Len(sent)
    BY <1>4 DEF Told
  <2>2. u.dir = "in" => m \in DOMAIN given /\ got'[m] = given[m]
    BY <1>5, <1>7 DEF v
  <2>3. ASSUME NEW k \in DOMAIN got'
        PROVE  k \in 1 .. Len(sent) /\ (sent[k].dir = "in" => k \in DOMAIN given /\ got'[k] = given[k])
    <3>1. CASE k = m
      BY <2>1, <2>2, <3>1
    <3>2. CASE k # m
      BY <1>7, <3>2 DEF WireInv, HasGot
    <3> QED
      BY <3>1, <3>2
  <2> QED
    BY <1>1, <2>3 DEF HasGot
<1> QED
  BY <1>8, <1>9, <1>10, <1>11 DEF WireInv

LEMMA NextKeeps ==
    ASSUME WireInv, HaveInterfaces, [WireNext]_wireVars
    PROVE  WireInv'
<1>1. CASE SendDevlist
  BY <1>1, SendDevlistKeeps
<1>2. CASE ReadDevlist
  BY <1>2, ReadDevlistKeeps
<1>3. CASE Import
  BY <1>3, ImportKeeps
<1>4. ASSUME NEW u \in Requests, Submit(u) PROVE WireInv'
  BY <1>4, SubmitKeeps
<1>5. ASSUME NEW k \in 0 .. Len(toDev), HostGone(k) PROVE WireInv'
  BY <1>5, HostGoneKeeps
<1>6. CASE Serve
  BY <1>6, ServeKeeps
<1>7. ASSUME NEW n \in open, NEW pkts \in Answers(n, sent[n]), Answer(n, pkts) PROVE WireInv'
  BY <1>7, AnswerKeeps
<1>8. CASE ReadReply
  BY <1>8, ReadReplyKeeps
<1>9. CASE UNCHANGED wireVars
  BY <1>9 DEF wireVars, WireInv, Typed, Early, Ahead, HasRead, IsHeld, Behind, HasGot, HasListed
<1> QED
  BY <1>1, <1>2, <1>3, <1>4, <1>5, <1>6, <1>7, <1>8, <1>9 DEF WireNext

\* Host and device stay in step: no byte of one message is ever taken for the
\* start of another, the device serves the host's requests in order with the
\* packets that the host put in its slots, and the host reads the packets that
\* the device gave and, in a device list, what is exported: for every request,
\* split of packets and answer, and wherever the connection breaks.  A device
\* without interfaces is left out: its record says that it has one, and a host
\* that reads the list then looks for a tuple that was not sent.
THEOREM BytesInStep ==
    ASSUME HaveInterfaces
    PROVE  WireSpec => []StaysInStep
<1>1. WireInv /\ [WireNext]_wireVars => WireInv'
  BY NextKeeps
<1>2. WireInv => StaysInStep
  <2> SUFFICES ASSUME WireInv PROVE StaysInStep
    OBVIOUS
  <2>1. DOMAIN served = 1 .. Len(served) /\ DOMAIN sent = 1 .. Len(sent)
    BY DEF WireInv, Typed
  <2> QED
    BY <2>1 DEF WireInv, HasRead, HasGot, HasListed, StaysInStep, Slots
<1> QED
  BY <1>1, <1>2, InitStarts, PTL DEF WireSpec

-----------------------------------------------------------------------------
(* More about sequences.                                                   *)

\* A sequence after another.
LEMMA AfterIs ==
    ASSUME NEW T, NEW a \in Seq(T), NEW b \in Seq(T), NEW n \in 0 .. Len(a)
    PROVE  /\ a \o b \in Seq(T) /\ Len(a \o b) = Len(a) + Len(b)
           /\ SubSeq(a \o b, 1, n) = SubSeq(a, 1, n)
           /\ From(a \o b, n) = From(a, n) \o b
<1> DEFINE s == a \o b
           x == SubSeq(s, 1, n)
           y == SubSeq(a, 1, n)
           v == From(s, n)
           c == From(a, n)
           w == c \o b
<1>1. Len(a) \in Nat /\ Len(b) \in Nat /\ n \in Nat /\ n <= Len(a)
  OBVIOUS
<1>2. /\ s \in Seq(T) /\ Len(s) = Len(a) + Len(b)
      /\ \A i \in 1 .. Len(a) + Len(b) : s[i] = IF i <= Len(a) THEN a[i] ELSE b[i - Len(a)]
  BY ConcatProperties
<1> HIDE DEF s
<1>3. n \in 0 .. Len(s)
  BY <1>1, <1>2
<1>4. x \in Seq(T) /\ Len(x) = n /\ \A i \in 1 .. n : x[i] = s[i]
  BY <1>2, <1>3, BeginningIs
<1>5. y \in Seq(T) /\ Len(y) = n /\ \A i \in 1 .. n : y[i] = a[i]
  BY BeginningIs
<1>6. v \in Seq(T) /\ Len(v) = Len(s) - n /\ \A i \in 1 .. Len(s) - n : v[i] = s[n + i]
  BY <1>2, <1>3, FromIs
<1>7. c \in Seq(T) /\ Len(c) = Len(a) - n /\ \A i \in 1 .. Len(a) - n : c[i] = a[n + i]
  BY FromIs
<1> HIDE DEF x, y, v, c
<1>8. /\ w \in Seq(T) /\ Len(w) = Len(c) + Len(b)
      /\ \A i \in 1 .. Len(c) + Len(b) : w[i] = IF i <= Len(c) THEN c[i] ELSE b[i - Len(c)]
  BY <1>7, ConcatProperties
<1> HIDE DEF w
<1>9. x = y
  <2>1. ASSUME NEW i \in 1 .. n PROVE x[i] = y[i]
    <3>1. i \in 1 .. Len(a) + Len(b) /\ i <= Len(a)
      BY <1>1
    <3> QED
      BY <1>2, <1>4, <1>5, <3>1
  <2> QED
    BY <1>4, <1>5, <2>1, SeqEqual
<1>10. v = w
  <2>1. Len(v) = Len(w)
    BY <1>1, <1>2, <1>6, <1>7, <1>8
  <2>2. ASSUME NEW i \in 1 .. Len(v) PROVE v[i] = w[i]
    <3>1. n + i \in 1 .. Len(a) + Len(b) /\ i \in 1 .. Len(s) - n /\ i \in 1 .. Len(c) + Len(b)
      BY <1>1, <1>2, <1>6, <1>7
    <3>2. v[i] = IF n + i <= Len(a) THEN a[n + i] ELSE b[(n + i) - Len(a)]
      BY <1>2, <1>6, <3>1
    <3>3. w[i] = IF i <= Len(c) THEN c[i] ELSE b[i - Len(c)]
      BY <1>8, <3>1
    <3>4. CASE i <= Len(c)
      <4>1. n + i <= Len(a) /\ i \in 1 .. Len(a) - n
        BY <1>1, <1>7, <3>1, <3>4
      <4> QED
        BY <1>7, <3>2, <3>3, <3>4, <4>1
    <3>5. CASE ~(i <= Len(c))
      <4>1. ~(n + i <= Len(a)) /\ (n + i) - Len(a) = i - Len(c)
        BY <1>1, <1>7, <3>1, <3>5
      <4> QED
        BY <3>2, <3>3, <3>5, <4>1
    <3> QED
      BY <3>4, <3>5
  <2> QED
    BY <1>6, <1>8, <2>1, <2>2, SeqEqual
<1> QED
  BY <1>2, <1>9, <1>10 DEF s, x, y, v, c, w

\* A sequence is its beginning and its rest.
LEMMA SplitIs ==
    ASSUME NEW T, NEW s \in Seq(T), NEW n \in 0 .. Len(s)
    PROVE  SubSeq(s, 1, n) \o From(s, n) = s
<1> DEFINE a == SubSeq(s, 1, n)
           b == From(s, n)
           w == a \o b
<1>1. Len(s) \in Nat /\ n \in Nat /\ n <= Len(s)
  OBVIOUS
<1>2. a \in Seq(T) /\ Len(a) = n /\ \A i \in 1 .. n : a[i] = s[i]
  BY BeginningIs
<1>3. b \in Seq(T) /\ Len(b) = Len(s) - n /\ \A i \in 1 .. Len(s) - n : b[i] = s[n + i]
  BY FromIs
<1> HIDE DEF a, b
<1>4. /\ w \in Seq(T) /\ Len(w) = Len(a) + Len(b)
      /\ \A i \in 1 .. Len(a) + Len(b) : w[i] = IF i <= Len(a) THEN a[i] ELSE b[i - Len(a)]
  BY <1>2, <1>3, ConcatProperties
<1> HIDE DEF w
<1>5. Len(w) = Len(s)
  BY <1>1, <1>2, <1>3, <1>4
<1>6. ASSUME NEW i \in 1 .. Len(w) PROVE w[i] = s[i]
  <2>1. w[i] = IF i <= n THEN a[i] ELSE b[i - n]
    BY <1>2, <1>4
  <2>2. CASE i <= n
    BY <1>2, <2>1, <2>2
  <2>3. CASE ~(i <= n)
    <3>1. i - n \in 1 .. Len(s) - n /\ n + (i - n) = i
      BY <1>1, <1>5, <2>3
    <3> QED
      BY <1>3, <2>1, <2>3, <3>1
  <2> QED
    BY <2>2, <2>3
<1> QED
  BY <1>4, <1>5, <1>6, SeqEqual DEF a, b, w

\* Where the k-th piece of a stream ends.
Ends(q, k) == Len(FlattenSeq(SubSeq(q, 1, k)))

LEMMA FlattenLen ==
    ASSUME NEW T, NEW q \in Seq(Seq(T))
    PROVE  Len(FlattenSeq(q)) = Total(Sizes(q))
<1>1. FlattenSeq(q) \in Seq(T) /\ Holds(FlattenSeq(q), q)
  BY FlattenHolds
<1>2. /\ Sizes(q) \in Seq(Nat) /\ Len(Sizes(q)) = Len(q)
      /\ \A p \in 1 .. Len(q) : Sizes(q)[p] = Len(q[p])
  BY SizesAre
<1> DEFINE s == FlattenSeq(q)
           lens == Sizes(q)
<1> HIDE DEF s, lens
<1>3. Len(s) = Total(lens)
  BY <1>1, <1>2, CutHolds DEF s, lens
<1> QED
  BY <1>3 DEF s, lens

LEMMA EndsAre ==
    ASSUME NEW T, NEW q \in Seq(Seq(T))
    PROVE  /\ \A k \in 0 .. Len(q) : Ends(q, k) \in Nat
           /\ Ends(q, 0) = 0 /\ Ends(q, Len(q)) = Len(FlattenSeq(q))
           /\ \A k \in 1 .. Len(q) : Ends(q, k) = Ends(q, k - 1) + Len(q[k])
<1> DEFINE l == Sizes(q)
<1>1. /\ l \in Seq(Nat) /\ Len(l) = Len(q) /\ Len(q) \in Nat
      /\ \A p \in 1 .. Len(q) : l[p] = Len(q[p])
  BY SizesAre
<1>2. ASSUME NEW k \in 0 .. Len(q) PROVE Ends(q, k) = Total(SubSeq(l, 1, k))
  <2> DEFINE w == SubSeq(q, 1, k)
             m == SubSeq(l, 1, k)
             z == Sizes(w)
  <2>1. w \in Seq(Seq(T)) /\ Len(w) = k /\ \A i \in 1 .. k : w[i] = q[i]
    BY BeginningIs
  <2>2. m \in Seq(Nat) /\ Len(m) = k /\ \A i \in 1 .. k : m[i] = l[i]
    <3>1. k \in 0 .. Len(l)
      BY <1>1
    <3> HIDE DEF l
    <3> QED
      BY <1>1, <3>1, BeginningIs
  <2> HIDE DEF w, m, l
  <2>3. z \in Seq(Nat) /\ Len(z) = k /\ \A i \in 1 .. k : z[i] = Len(w[i])
    BY <2>1, SizesAre
  <2>4. Ends(q, k) = Total(z)
    BY <2>1, FlattenLen DEF Ends, w
  <2> HIDE DEF z
  <2>5. \A i \in 1 .. k : i \in 1 .. Len(q)
    BY <1>1
  <2>6. z = m
    <3>1. \A i \in 1 .. Len(z) : z[i] = m[i]
      BY <1>1, <2>1, <2>2, <2>3, <2>5
    <3> QED
      BY <2>2, <2>3, <3>1, SeqEqual
  <2> QED
    BY <2>4, <2>6 DEF m
<1> HIDE DEF l
<1>3. /\ \A i \in 0 .. Len(l) : Total(SubSeq(l, 1, i)) \in Nat
      /\ Total(SubSeq(l, 1, 0)) = 0
      /\ \A i \in 1 .. Len(l) : Total(SubSeq(l, 1, i)) = Total(SubSeq(l, 1, i - 1)) + l[i]
  BY <1>1, TotalIs
<1>4. 0 \in 0 .. Len(q) /\ \A i \in 1 .. Len(q) : i \in 0 .. Len(q) /\ i - 1 \in 0 .. Len(q)
  BY <1>1
<1>5. SubSeq(q, 1, Len(q)) = q
  BY SubSeqFull
<1>6. \A k \in 0 .. Len(q) : Ends(q, k) \in Nat
  BY <1>1, <1>2, <1>3
<1>7. \A k \in 1 .. Len(q) : Ends(q, k) = Ends(q, k - 1) + Len(q[k])
  BY <1>1, <1>2, <1>3, <1>4
<1>8. Ends(q, 0) = 0
  BY <1>2, <1>3, <1>4
<1>9. Ends(q, Len(q)) = Len(FlattenSeq(q))
  BY <1>5 DEF Ends
<1> QED
  BY <1>6, <1>7, <1>8, <1>9

LEMMA EndsUp ==
    ASSUME NEW T, NEW q \in Seq(Seq(T)), NEW k \in 0 .. Len(q), NEW m \in 0 .. Len(q), k <= m
    PROVE  Ends(q, k) <= Ends(q, m)
<1> DEFINE e(i) == Ends(q, i)
           n == m - k
           G == {j \in 0 .. n : e(k) <= e(k + j)}
<1>1. /\ \A i \in 0 .. Len(q) : e(i) \in Nat
      /\ \A i \in 1 .. Len(q) : e(i) = e(i - 1) + Len(q[i])
  BY EndsAre
<1>2. Len(q) \in Nat /\ n \in Nat /\ k + n = m /\ \A i \in 1 .. Len(q) : Len(q[i]) \in Nat
  OBVIOUS
<1> HIDE DEF e
<1>3. 0 \in G
  <2>1. k + 0 = k /\ 0 \in 0 .. n
    BY <1>2
  <2>2. e(k) <= e(k + 0)
    BY <1>1, <2>1
  <2> QED
    BY <2>1, <2>2
<1>4. ASSUME NEW j \in 1 .. n, j - 1 \in G PROVE j \in G
  <2> DEFINE i == k + j
  <2>1. i \in 1 .. Len(q) /\ i \in 0 .. Len(q) /\ i - 1 \in 0 .. Len(q) /\ k + (j - 1) = i - 1 /\ j \in 0 .. n
    BY <1>2
  <2>2. e(k) <= e(i - 1)
    BY <1>4, <2>1
  <2> HIDE DEF i
  <2>3. e(i) = e(i - 1) + Len(q[i]) /\ e(i) \in Nat /\ e(i - 1) \in Nat /\ e(k) \in Nat /\ Len(q[i]) \in Nat
    BY <1>1, <1>2, <2>1
  <2>4. e(k) <= e(i)
    BY <2>2, <2>3
  <2> QED
    BY <2>1, <2>4 DEF i
<1> HIDE DEF G
<1>5. \A j \in 0 .. n : j \in G
  <2>1. n \in Nat
    BY <1>2
  <2> HIDE DEF n
  <2> QED
    BY <1>3, <1>4, <2>1, UpTo
<1>6. n \in G
  BY <1>2, <1>5
<1>7. e(k) <= e(k + n)
  BY <1>6 DEF G
<1> QED
  BY <1>2, <1>7 DEF e

LEMMA EndsOfMore ==
    ASSUME NEW T, NEW q \in Seq(Seq(T)), NEW x \in Seq(T), NEW k \in 0 .. Len(q)
    PROVE  /\ SubSeq(Append(q, x), 1, k) = SubSeq(q, 1, k)
           /\ From(Append(q, x), k) = Append(From(q, k), x)
           /\ Ends(Append(q, x), k) = Ends(q, k)
<1> DEFINE b == <<x>>
           c == From(q, k)
<1>1. b \in Seq(Seq(T)) /\ c \in Seq(Seq(T))
  BY FromIs
<1>2. Append(q, x) = q \o b /\ Append(c, x) = c \o b
  BY <1>1, AppendIsConcat
<1> HIDE DEF b
<1>3. SubSeq(q \o b, 1, k) = SubSeq(q, 1, k) /\ From(q \o b, k) = c \o b
  BY <1>1, AfterIs
<1>4. SubSeq(Append(q, x), 1, k) = SubSeq(q, 1, k)
  BY <1>2, <1>3
<1>5. From(Append(q, x), k) = Append(c, x)
  BY <1>2, <1>3
<1> QED
  BY <1>4, <1>5 DEF Ends

-----------------------------------------------------------------------------
(* A loop without end, of which some turns are looked at.                  *)

Turns(P, n, Y, base, step) ==
    /\ P \in [0 .. n -> Y] /\ P[0] = base
    /\ \A i \in 1 .. n : P[i] = step[P[i - 1]]

LEMMA TurnsRun ==
    ASSUME NEW n \in Nat, NEW Y, NEW base \in Y, NEW step \in [Y -> Y]
    PROVE  \E P : Turns(P, n, Y, base, step)
<1> DEFINE st == [p \in (1 .. n) \X Y |-> step[p[2]]]
<1>1. st \in [(1 .. n) \X Y -> Y]
  OBVIOUS
<1>2. \A i \in 1 .. n : \A y \in Y : st[<<i, y>>] = step[y]
  OBVIOUS
<1> HIDE DEF st
<1>3. PICK P : LoopsTo(P, n, Y, base, st)
  BY <1>1, LoopRuns
<1>4. \A i \in 1 .. n : i - 1 \in 0 .. n
  OBVIOUS
<1>5. Turns(P, n, Y, base, step)
  BY <1>2, <1>3, <1>4 DEF LoopsTo, Turns
<1> QED
  BY <1>5

LEMMA TurnsAgree ==
    ASSUME NEW n \in Nat, NEW m \in Nat, n <= m, NEW Y, NEW base, NEW step,
           NEW P, Turns(P, n, Y, base, step), NEW Q, Turns(Q, m, Y, base, step)
    PROVE  \A i \in 0 .. n : P[i] = Q[i]
<1> DEFINE G == {i \in 0 .. n : P[i] = Q[i]}
<1>1. 0 \in G
  BY DEF Turns
<1>2. ASSUME NEW i \in 1 .. n, i - 1 \in G PROVE i \in G
  <2>1. i \in 1 .. m /\ i \in 0 .. n /\ P[i - 1] = Q[i - 1]
    BY <1>2
  <2>2. P[i] = Q[i]
    BY <2>1 DEF Turns
  <2> QED
    BY <2>1, <2>2
<1> HIDE DEF G
<1>3. \A i \in 0 .. n : i \in G
  BY <1>1, <1>2, UpTo
<1> QED
  BY <1>3 DEF G

Endless(f, Y, base, step) ==
    /\ f \in [Nat -> Y] /\ f[0] = base
    /\ \A n \in Nat \ {0} : f[n] = step[f[n - 1]]

LEMMA EndlessTurns ==
    ASSUME NEW Y, NEW base \in Y, NEW step \in [Y -> Y]
    PROVE  \E f : Endless(f, Y, base, step)
<1> DEFINE Run(n) == CHOOSE P : Turns(P, n, Y, base, step)
           f == [n \in Nat |-> Run(n)[n]]
<1>1. \A n \in Nat : Turns(Run(n), n, Y, base, step)
  BY TurnsRun
<1> HIDE DEF Run
<1>2. ASSUME NEW n \in Nat PROVE f[n] = Run(n)[n] /\ f[n] \in Y
  <2>1. Turns(Run(n), n, Y, base, step) /\ n \in 0 .. n
    BY <1>1
  <2> QED
    BY <2>1 DEF Turns
<1>3. f[0] = base
  <2>1. Turns(Run(0), 0, Y, base, step) /\ f[0] = Run(0)[0]
    BY <1>1, <1>2
  <2> QED
    BY <2>1 DEF Turns
<1>4. f \in [Nat -> Y]
  BY <1>2
<1> HIDE DEF f
<1>5. ASSUME NEW n \in Nat \ {0} PROVE f[n] = step[f[n - 1]]
  <2>1. n \in Nat /\ n - 1 \in Nat /\ n - 1 <= n /\ n \in 1 .. n /\ n - 1 \in 0 .. n - 1
    OBVIOUS
  <2>2. Turns(Run(n), n, Y, base, step) /\ Turns(Run(n - 1), n - 1, Y, base, step)
    BY <1>1, <2>1
  <2>3. Run(n - 1)[n - 1] = Run(n)[n - 1]
    BY <2>1, <2>2, TurnsAgree
  <2>4. Run(n)[n] = step[Run(n)[n - 1]]
    BY <2>1, <2>2 DEF Turns
  <2> QED
    BY <1>2, <2>1, <2>3, <2>4
<1> QED
  BY <1>3, <1>4, <1>5 DEF Endless

-----------------------------------------------------------------------------
(* The dongle's reassembly.                                                *)

\* One turn of on_out's loop.
Fed == [rx : Seq(Nat), pdus : Seq(Seq(Nat))]
TakeOne(s) ==
    IF HasPdu(s.rx)
    THEN [rx |-> SubSeq(s.rx, PduLength(s.rx) + 1, Len(s.rx)),
          pdus |-> Append(s.pdus, SubSeq(s.rx, 1, PduLength(s.rx)))]
    ELSE s

LEMMA LengthIs ==
    ASSUME NEW rx \in Seq(Nat), HasPdu(rx)
    PROVE  PduLength(rx) \in 4 .. Len(rx) /\ Len(rx) \in Nat
<1>1. Len(rx) \in Nat /\ Len(rx) >= 4
  BY DEF HasPdu, HeaderLen
<1>2. rx[3] \in Nat /\ rx[4] \in Nat /\ ByteMod \in Nat
  BY <1>1, PayloadAssumption
<1>3. ByteMod * rx[4] \in Nat
  BY <1>2
<1> DEFINE a == rx[3]
           b == ByteMod * rx[4]
<1>5. PduLength(rx) = 4 + a + b /\ a \in Nat /\ b \in Nat
  BY <1>2, <1>3 DEF PduLength, HeaderLen
<1> HIDE DEF a, b
<1>4. PduLength(rx) \in Nat /\ PduLength(rx) >= 4
  BY <1>5
<1> QED
  BY <1>1, <1>4 DEF HasPdu

LEMMA TakeOneIs ==
    ASSUME NEW s \in Fed
    PROVE  TakeOne(s) \in Fed
<1>1. CASE HasPdu(s.rx)
  <2> DEFINE rx == s.rx
             n == PduLength(rx)
  <2>1. rx \in Seq(Nat) /\ s.pdus \in Seq(Seq(Nat)) /\ HasPdu(rx)
    BY <1>1 DEF Fed
  <2> HIDE DEF rx
  <2>2. n \in 4 .. Len(rx) /\ Len(rx) \in Nat
    BY <2>1, LengthIs
  <2> HIDE DEF n
  <2>3. n \in 0 .. Len(rx)
    BY <2>2
  <2>4. SubSeq(rx, 1, n) \in Seq(Nat) /\ From(rx, n) \in Seq(Nat)
    BY <2>1, <2>3, BeginningIs, FromIs
  <2>5. TakeOne(s) = [rx |-> From(rx, n), pdus |-> Append(s.pdus, SubSeq(rx, 1, n))]
    BY <1>1 DEF TakeOne, From, rx, n
  <2>6. Append(s.pdus, SubSeq(rx, 1, n)) \in Seq(Seq(Nat))
    BY <2>1, <2>4, AppendProperties
  <2> QED
    BY <2>4, <2>5, <2>6 DEF Fed
<1>2. CASE ~HasPdu(s.rx)
  BY <1>2 DEF TakeOne
<1> QED
  BY <1>1, <1>2

LEMMA DeliverRuns ==
    ASSUME NEW rx \in Seq(Nat), NEW pdus \in Seq(Seq(Nat))
    PROVE  \E f \in [Nat -> Fed] :
              /\ f[0] = [rx |-> rx, pdus |-> pdus]
              /\ \A n \in Nat \ {0} : f[n] = TakeOne(f[n - 1])
              /\ Deliver(rx, pdus) = f[Len(rx) \div HeaderLen]
<1> DEFINE base == [rx |-> rx, pdus |-> pdus]
           step == [s \in Fed |-> TakeOne(s)]
           Body(g) == [n \in Nat |-> IF n = 0 THEN base ELSE TakeOne(g[n - 1])]
           f == CHOOSE g : g = Body(g)
<1>1. base \in Fed
  BY DEF Fed
<1>2. step \in [Fed -> Fed] /\ \A s \in Fed : step[s] = TakeOne(s)
  BY TakeOneIs
<1> HIDE DEF step, base
<1>0. PICK h : Endless(h, Fed, base, step)
  BY <1>1, <1>2, EndlessTurns
<1>3. h \in [Nat -> Fed] /\ h[0] = base /\ \A n \in Nat \ {0} : h[n] = step[h[n - 1]]
  BY <1>0 DEF Endless
<1>4. \A n \in Nat \ {0} : h[n] = TakeOne(h[n - 1]) /\ n - 1 \in Nat
  <2>1. \A n \in Nat \ {0} : n - 1 \in Nat
    OBVIOUS
  <2> QED
    BY <1>2, <1>3, <2>1
<1>5. h = Body(h)
  BY <1>3, <1>4
<1>6. f = Body(f)
  BY <1>5
<1>7. Deliver(rx, pdus) = f[Len(rx) \div HeaderLen]
  BY DEF Deliver, TakeOne, base
<1> HIDE DEF f
<1>8. f[0] = base /\ \A n \in Nat \ {0} : f[n] = TakeOne(f[n - 1])
  BY <1>6
<1>9. DOMAIN f = Nat /\ f = [n \in Nat |-> f[n]]
  BY <1>6
<1>10. \A n \in Nat : f[n] \in Fed
  <2> DEFINE Good == {n \in Nat : f[n] \in Fed}
  <2>1. ASSUME NEW n \in Nat PROVE n \in Good
    <3>1. 0 \in Good
      BY <1>1, <1>8
    <3>2. ASSUME NEW i \in 1 .. n, i - 1 \in Good PROVE i \in Good
      <4>1. i \in Nat \ {0} /\ f[i - 1] \in Fed
        BY <3>2
      <4>2. f[i] \in Fed
        BY <1>8, <4>1, TakeOneIs
      <4> QED
        BY <4>1, <4>2
    <3> HIDE DEF Good
    <3>3. \A i \in 0 .. n : i \in Good
      BY <3>1, <3>2, UpTo
    <3> QED
      BY <3>3
  <2> QED
    BY <2>1
<1>11. f \in [Nat -> Fed]
  BY <1>9, <1>10
<1> QED
  BY <1>7, <1>8, <1>11 DEF base

\* The packets that a host sends, and the length that each says.
Pdus == {Pdu(payload) : payload \in Payloads}

LEMMA ByteSplit ==
    ASSUME NEW m \in Nat, NEW b \in Nat \ {0}
    PROVE  m % b \in Nat /\ m \div b \in Nat /\ (m % b) + b * (m \div b) = m
<1> QED
  OBVIOUS

LEMMA PduIs ==
    ASSUME NEW x \in Pdus
    PROVE  x \in Seq(Nat) /\ Len(x) \in Nat /\ Len(x) >= 4 /\ PduLength(x) = Len(x)
<1>1. PICK payload \in Payloads : x = Pdu(payload)
  BY DEF Pdus
<1> DEFINE m == Len(payload)
           c == m % ByteMod
           d == m \div ByteMod
           h == <<0, 0, c, d>>
           w == h \o payload
<1>2. payload \in Seq(Nat) /\ m \in Nat
  BY PayloadAssumption
<1>3. c \in Nat /\ d \in Nat /\ c + ByteMod * d = m
  BY <1>2, PayloadAssumption, ByteSplit
<1>4. x = w
  BY <1>1 DEF Pdu
<1> HIDE DEF c, d, m
<1>5. h \in Seq(Nat) /\ Len(h) = 4 /\ h[3] = c /\ h[4] = d
  BY <1>3
<1> HIDE DEF h
<1>6. /\ w \in Seq(Nat) /\ Len(w) = Len(h) + Len(payload)
      /\ \A i \in 1 .. Len(h) + Len(payload) : w[i] = IF i <= Len(h) THEN h[i] ELSE payload[i - Len(h)]
  BY <1>2, <1>5, ConcatProperties
<1> HIDE DEF w
<1>7. Len(w) = 4 + m
  BY <1>5, <1>6 DEF m
<1>8. w[3] = c /\ w[4] = d
  BY <1>2, <1>5, <1>6 DEF m
<1> DEFINE b == ByteMod * d
<1>9. PduLength(w) = 4 + c + b /\ c + b = m
  BY <1>3, <1>8 DEF PduLength, HeaderLen
<1>10. b \in Nat
  BY <1>3, PayloadAssumption
<1> HIDE DEF b
<1>11. PduLength(w) = Len(w) /\ Len(w) >= 4 /\ Len(w) \in Nat
  BY <1>2, <1>3, <1>7, <1>9, <1>10
<1> QED
  BY <1>4, <1>6, <1>11

LEMMA PdusAre ==
    ASSUME NEW q \in Seq(Pdus)
    PROVE  q \in Seq(Seq(Nat)) /\ \A i \in 1 .. Len(q) : Len(q[i]) > 0 /\ q[i] \in Pdus
<1>1. \A i \in 1 .. Len(q) : q[i] \in Pdus
  BY ElementOfSeq
<1>2. \A x \in Pdus : x \in Seq(Nat) /\ Len(x) > 0
  BY PduIs
<1>3. Pdus \subseteq Seq(Nat)
  BY <1>2
<1>4. q \in Seq(Seq(Nat))
  BY <1>3
<1> QED
  BY <1>1, <1>2, <1>4

\* The header at the front of what came says how long the packet is.
LEMMA LengthTold ==
    ASSUME NEW rx \in Seq(Nat), NEW rest \in Seq(Nat), NEW q \in Seq(Pdus),
           Holds(rx \o rest, q), Len(rx) >= 4
    PROVE  q # <<>> /\ q[1] \in Pdus /\ PduLength(rx) = Len(q[1])
<1> DEFINE z == rx \o rest
           x == q[1]
<1>1. Len(rx) \in Nat /\ Len(rest) \in Nat
  OBVIOUS
<1>2. /\ z \in Seq(Nat) /\ Len(z) = Len(rx) + Len(rest)
      /\ \A i \in 1 .. Len(rx) + Len(rest) : z[i] = IF i <= Len(rx) THEN rx[i] ELSE rest[i - Len(rx)]
  BY ConcatProperties
<1> HIDE DEF z
<1>3. z # <<>> /\ Len(z) \in Nat /\ Len(z) >= 4
  BY <1>1, <1>2
<1>4. q \in Seq(Seq(Nat)) /\ \A i \in 1 .. Len(q) : Len(q[i]) > 0 /\ q[i] \in Pdus
  BY PdusAre
<1>5. Holds(z, q) /\ Begins(z, q)
  BY HoldsBegins DEF z
<1>6. q # <<>>
  BY <1>2, <1>3, <1>4, <1>5, HeadOf
<1>7. x \in Pdus /\ Len(q) \in Nat
  <2>1. 1 \in 1 .. Len(q)
    BY <1>4, <1>6
  <2> QED
    BY <1>4, <2>1
<1>8. Len(z) >= Len(x) /\ SubSeq(z, 1, Len(x)) = x
  BY <1>2, <1>4, <1>5, <1>6, RestOf
<1> HIDE DEF x
<1>9. x \in Seq(Nat) /\ Len(x) \in Nat /\ Len(x) >= 4 /\ PduLength(x) = Len(x)
  BY <1>7, PduIs
<1>10. z[3] = x[3] /\ z[4] = x[4]
  <2>1. Len(x) \in 0 .. Len(z) /\ 3 \in 1 .. Len(x) /\ 4 \in 1 .. Len(x)
    BY <1>3, <1>8, <1>9
  <2>2. \A i \in 1 .. Len(x) : SubSeq(z, 1, Len(x))[i] = z[i]
    BY <1>2, <2>1, BeginningIs
  <2> QED
    BY <1>8, <2>1, <2>2
<1>11. z[3] = rx[3] /\ z[4] = rx[4]
  BY <1>1, <1>2
<1>12. PduLength(rx) = PduLength(x)
  BY <1>10, <1>11 DEF PduLength
<1> QED
  BY <1>6, <1>7, <1>9, <1>12 DEF x

\* How far the reassembly has come in the packets ps, of which rest has still
\* to come: what is delivered are the first of them, and what is kept begins
\* the next.
FedTo(ps, rest, total, s) ==
    \E e \in 0 .. Len(ps) :
        /\ s.pdus = SubSeq(ps, 1, e)
        /\ Holds(s.rx \o rest, From(ps, e))
        /\ Len(s.rx) + Ends(ps, e) = total

LEMMA OneMoreOf ==
    ASSUME NEW T, NEW q \in Seq(T), NEW i \in 1 .. Len(q)
    PROVE  Append(SubSeq(q, 1, i - 1), q[i]) = SubSeq(q, 1, i)
<1>1. i - 1 \in 0 .. Len(q) /\ 1 \in 1 .. Len(q)
  OBVIOUS
<1>2. SubSeq(q, 1, i) = SubSeq(q, 1, i - 1) \o <<q[i]>>
  BY <1>1, SubSeqRecursiveSecond
<1>3. SubSeq(q, 1, i - 1) \in Seq(T) /\ q[i] \in T
  <2>1. SubSeq(q, 1, i - 1) \in Seq(T)
    BY <1>1, BeginningIs
  <2> QED
    BY <2>1
<1> QED
  BY <1>2, <1>3, AppendIsConcat

LEMMA TakeOneKeeps ==
    ASSUME NEW ps \in Seq(Pdus), NEW rest \in Seq(Nat), NEW total, NEW s \in Fed,
           FedTo(ps, rest, total, s)
    PROVE  /\ FedTo(ps, rest, total, TakeOne(s))
           /\ HasPdu(s.rx) => Len(TakeOne(s).rx) + 4 <= Len(s.rx)
<1>1. CASE ~HasPdu(s.rx)
  BY <1>1 DEF TakeOne
<1>2. CASE HasPdu(s.rx)
  <2> DEFINE rx == s.rx
             n == PduLength(rx)
             z == rx \o rest
  <2>1. PICK e \in 0 .. Len(ps) :
            s.pdus = SubSeq(ps, 1, e) /\ Holds(z, From(ps, e)) /\ Len(rx) + Ends(ps, e) = total
    BY DEF FedTo
  <2> DEFINE q == From(ps, e)
             x == q[1]
  <2>2. rx \in Seq(Nat) /\ HasPdu(rx) /\ Len(rx) \in Nat
    BY <1>2 DEF Fed
  <2>3. q \in Seq(Pdus) /\ Len(q) = Len(ps) - e /\ Len(ps) \in Nat /\ e \in Nat
    BY FromIs
  <2>4. Holds(z, q)
    BY <2>1
  <2>5. n \in 4 .. Len(rx) /\ Len(rx) >= 4
    <3> HIDE DEF rx
    <3>1. n \in 4 .. Len(rx)
      BY <2>2, LengthIs
    <3>2. Len(rx) >= 4
      BY <2>2 DEF HasPdu, HeaderLen
    <3> QED
      BY <3>1, <3>2
  <2> HIDE DEF rx, q
  <2>6. q # <<>> /\ x \in Pdus /\ n = Len(x)
    BY <2>2, <2>3, <2>4, <2>5, LengthTold
  <2> HIDE DEF n
  <2>7. ps \in Seq(Seq(Nat)) /\ q \in Seq(Seq(Nat)) /\ n \in 0 .. Len(rx)
    BY <2>3, <2>5, PdusAre
  <2> DEFINE i == e + 1
  <2>8. i \in 1 .. Len(ps) /\ i - 1 = e /\ i \in 0 .. Len(ps)
    <3>1. Len(q) # 0
      BY <2>3, <2>6, EmptySeq
    <3> QED
      BY <2>3, <3>1
  <2> HIDE DEF i
  <2>9. x = ps[i] /\ Tail(q) = From(ps, i)
    <3>1. From(ps, i - 1)[1] = ps[i] /\ Tail(From(ps, i - 1)) = From(ps, i)
      BY <2>8, LeftIs
    <3> QED
      BY <2>8, <3>1 DEF q
  <2> HIDE DEF x
  <2>10. z \in Seq(Nat) /\ SubSeq(z, 1, n) = SubSeq(rx, 1, n) /\ From(z, n) = From(rx, n) \o rest
    BY <2>2, <2>7, AfterIs
  <2> HIDE DEF z
  <2>11. SubSeq(z, 1, n) = x /\ Holds(From(z, n), Tail(q))
    <3>1. Len(z) >= Len(q[1]) /\ Holds(From(z, Len(q[1])), Tail(q))
      BY <2>4, <2>6, <2>7, <2>10, RestOf
    <3>2. Begins(z, q)
      BY <2>4, HoldsBegins
    <3>3. SubSeq(z, 1, Len(q[1])) = q[1]
      BY <2>6, <2>7, <2>10, <3>1, <3>2, RestOf
    <3> QED
      BY <2>6, <3>1, <3>3 DEF x
  <2> DEFINE t == TakeOne(s)
  <2>12. t.rx = From(rx, n) /\ t.pdus = Append(s.pdus, SubSeq(rx, 1, n))
    BY <1>2 DEF TakeOne, From, rx, n
  <2> HIDE DEF t
  <2>13. t.pdus = SubSeq(ps, 1, i)
    <3>1. Append(SubSeq(ps, 1, i - 1), ps[i]) = SubSeq(ps, 1, i)
      BY <2>8, OneMoreOf
    <3> QED
      BY <2>1, <2>8, <2>9, <2>10, <2>11, <2>12, <3>1
  <2>14. Holds(t.rx \o rest, From(ps, i))
    BY <2>9, <2>10, <2>11, <2>12
  <2>15. Len(t.rx) = Len(rx) - n
    BY <2>2, <2>7, <2>12, FromIs
  <2>16. Ends(ps, i) = Ends(ps, e) + n /\ Ends(ps, e) \in Nat
    <3>1. /\ \A k \in 0 .. Len(ps) : Ends(ps, k) \in Nat
          /\ \A k \in 1 .. Len(ps) : Ends(ps, k) = Ends(ps, k - 1) + Len(ps[k])
      BY <2>7, EndsAre
    <3> QED
      BY <2>6, <2>8, <2>9, <3>1
  <2>17. Len(t.rx) + Ends(ps, i) = total /\ Len(t.rx) + 4 <= Len(rx)
    BY <2>1, <2>2, <2>5, <2>15, <2>16
  <2>18. FedTo(ps, rest, total, t)
    BY <2>8, <2>13, <2>14, <2>17 DEF FedTo
  <2> QED
    BY <2>17, <2>18 DEF t, rx
<1> QED
  BY <1>1, <1>2

\* All packets that are whole are delivered.
LEMMA DeliverIs ==
    ASSUME NEW ps \in Seq(Pdus), NEW rest \in Seq(Nat), NEW total,
           NEW rx \in Seq(Nat), NEW pdus \in Seq(Seq(Nat)),
           FedTo(ps, rest, total, [rx |-> rx, pdus |-> pdus])
    PROVE  /\ Deliver(rx, pdus) \in Fed
           /\ FedTo(ps, rest, total, Deliver(rx, pdus))
           /\ ~HasPdu(Deliver(rx, pdus).rx)
<1> DEFINE n == Len(rx) \div HeaderLen
           left(s) == Len(s.rx)
<1>1. PICK f \in [Nat -> Fed] :
              /\ f[0] = [rx |-> rx, pdus |-> pdus]
              /\ \A i \in Nat \ {0} : f[i] = TakeOne(f[i - 1])
              /\ Deliver(rx, pdus) = f[n]
  BY DeliverRuns
<1>2. Len(rx) \in Nat /\ n \in Nat /\ Len(rx) < 4 * (n + 1)
  BY DEF HeaderLen
<1> DEFINE G == {i \in 0 .. n : /\ FedTo(ps, rest, total, f[i])
                                /\ HasPdu(f[i].rx) => left(f[i]) + 4 * i <= Len(rx)}
<1>3. \A i \in Nat : f[i] \in Fed /\ f[i].rx \in Seq(Nat) /\ left(f[i]) \in Nat
  <2>1. \A i \in Nat : f[i] \in Fed
    BY <1>1
  <2>2. \A s \in Fed : s.rx \in Seq(Nat) /\ left(s) \in Nat
    BY DEF Fed
  <2> HIDE DEF left
  <2> QED
    BY <2>1, <2>2
<1> HIDE DEF n
<1>4. 0 \in G
  <2>1. 0 \in 0 .. n /\ f[0].rx = rx
    BY <1>1, <1>2
  <2>2. left(f[0]) + 4 * 0 <= Len(rx)
    BY <1>2, <2>1
  <2> QED
    BY <1>1, <2>1, <2>2
<1> HIDE DEF left
<1>5. ASSUME NEW i \in 1 .. n, i - 1 \in G PROVE i \in G
  <2> DEFINE s == f[i - 1]
             t == f[i]
  <2>1. i \in Nat \ {0} /\ i - 1 \in Nat /\ i \in 0 .. n /\ i \in Nat
    BY <1>2
  <2>2. t = TakeOne(s) /\ s \in Fed
    BY <1>1, <2>1
  <2>3. FedTo(ps, rest, total, s) /\ (HasPdu(s.rx) => left(s) + 4 * (i - 1) <= Len(rx))
    BY <1>5
  <2>4. left(s) \in Nat /\ left(t) \in Nat
    BY <1>3, <2>1
  <2> HIDE DEF s, t
  <2>5. FedTo(ps, rest, total, t)
    BY <2>2, <2>3, TakeOneKeeps
  <2>6. HasPdu(s.rx) => left(t) + 4 <= left(s)
    BY <2>2, <2>3, TakeOneKeeps DEF left
  <2>7. HasPdu(t.rx) => HasPdu(s.rx)
    BY <2>2 DEF TakeOne
  <2>8. HasPdu(t.rx) => left(t) + 4 * i <= Len(rx)
    BY <1>2, <2>1, <2>3, <2>4, <2>6, <2>7
  <2> QED
    BY <2>1, <2>5, <2>8 DEF t
<1>6. n \in G
  <2> HIDE DEF G
  <2>1. \A i \in 0 .. n : i \in G
    BY <1>2, <1>4, <1>5, UpTo
  <2> QED
    BY <1>2, <2>1
<1>7. FedTo(ps, rest, total, f[n])
  BY <1>6
<1>8. ~HasPdu(f[n].rx)
  <2> SUFFICES ASSUME HasPdu(f[n].rx) PROVE FALSE
    OBVIOUS
  <2>1. left(f[n]) + 4 * n <= Len(rx)
    BY <1>6
  <2>2. left(f[n]) >= 4 /\ left(f[n]) \in Nat
    BY <1>2, <1>3 DEF left, HasPdu, HeaderLen
  <2> QED
    BY <1>2, <2>1, <2>2
<1> QED
  BY <1>1, <1>2, <1>3, <1>7, <1>8

LEMMA Grouped ==
    ASSUME NEW a \in Seq(Nat), NEW b \in Seq(Nat), NEW c \in Seq(Nat)
    PROVE  (a \o b) \o c = a \o (b \o c)
<1> QED
  BY ConcatAssociative

LEMMA Moved ==
    ASSUME NEW a \in Int, NEW b \in Int, NEW f \in Int, NEW e \in Int, NEW n \in Int, a + e = f - b
    PROVE  (a + n) + e = f - (b - n)
<1> QED
  OBVIOUS

BtInv ==
    /\ aclRx \in Seq(Nat) /\ sending \in Seq(Nat) /\ packets \in Seq(Pdus)
    /\ delivered \in Seq(Seq(Nat))
    /\ ~HasPdu(aclRx)
    /\ FedTo(packets, sending, Len(FlattenSeq(packets)) - Len(sending),
             [rx |-> aclRx, pdus |-> delivered])

LEMMA NothingFed ==
    /\ ~HasPdu(<<>>)
    /\ FedTo(<<>>, <<>>, Len(FlattenSeq(<<>>)) - Len(<<>>), [rx |-> <<>>, pdus |-> <<>>])
<1> DEFINE none == <<>>
           s == [rx |-> none, pdus |-> none]
<1>1. none \in Seq(Seq(Nat)) /\ none \in Seq(Nat) /\ Len(none) = 0
  OBVIOUS
<1>2. none \o none = none /\ SubSeq(none, 1, 0) = none /\ From(none, 0) = none
  BY DEF From
<1>3. Holds(none, none)
  BY HoldsNone
<1>4. s.rx = none /\ s.pdus = none
  OBVIOUS
<1> HIDE DEF none, s
<1>5. Ends(none, 0) = 0 /\ Ends(none, Len(none)) = Len(FlattenSeq(none))
  BY <1>1, EndsAre
<1>6. ~HasPdu(none)
  BY <1>1 DEF HasPdu, HeaderLen
<1>7. FedTo(none, none, Len(FlattenSeq(none)) - Len(none), s)
  <2>1. 0 \in 0 .. Len(none)
    BY <1>1
  <2>2. Len(s.rx) + Ends(none, 0) = Len(FlattenSeq(none)) - Len(none)
    BY <1>1, <1>4, <1>5
  <2>3. s.pdus = SubSeq(none, 1, 0) /\ Holds(s.rx \o none, From(none, 0))
    BY <1>2, <1>3, <1>4
  <2> QED
    BY <2>1, <2>2, <2>3 DEF FedTo
<1> QED
  BY <1>6, <1>7 DEF none, s

LEMMA ResetEmpties ==
    ASSUME aclRx' = <<>>, delivered' = <<>>, sending' = <<>>, packets' = <<>>
    PROVE  BtInv'
<1>1. \A T : <<>> \in Seq(T)
  OBVIOUS
<1>2. ~HasPdu(<<>>)
  BY NothingFed
<1>3. FedTo(<<>>, <<>>, Len(FlattenSeq(<<>>)) - Len(<<>>), [rx |-> <<>>, pdus |-> <<>>])
  BY NothingFed
<1>4. aclRx' \in Seq(Nat) /\ sending' \in Seq(Nat) /\ packets' \in Seq(Pdus) /\ delivered' \in Seq(Seq(Nat))
  BY <1>1
<1>5. ~HasPdu(aclRx')
  BY <1>2
<1>6. FedTo(packets', sending', Len(FlattenSeq(packets')) - Len(sending'), [rx |-> aclRx', pdus |-> delivered'])
  BY <1>3
<1> QED
  BY <1>4, <1>5, <1>6 DEF BtInv

LEMMA SendAclKeeps ==
    ASSUME BtInv, NEW payload \in Payloads, SendAcl(payload)
    PROVE  BtInv'
<1> DEFINE x == Pdu(payload)
           qs == Append(packets, x)
           more == sending \o x
<1>1. /\ aclRx \in Seq(Nat) /\ sending \in Seq(Nat) /\ packets \in Seq(Pdus)
      /\ delivered \in Seq(Seq(Nat)) /\ ~HasPdu(aclRx)
  BY DEF BtInv
<1>2. sending' = more /\ packets' = qs /\ UNCHANGED <<aclRx, delivered>>
  BY DEF SendAcl
<1>3. x \in Pdus
  BY DEF Pdus
<1> HIDE DEF x
<1>4. x \in Seq(Nat) /\ packets \in Seq(Seq(Nat)) /\ Len(packets) \in Nat
  BY <1>1, <1>3, PduIs, PdusAre
<1>5. PICK e \in 0 .. Len(packets) :
          /\ delivered = SubSeq(packets, 1, e)
          /\ Holds(aclRx \o sending, From(packets, e))
          /\ Len(aclRx) + Ends(packets, e) = Len(FlattenSeq(packets)) - Len(sending)
  BY DEF BtInv, FedTo
<1>6. qs \in Seq(Pdus) /\ qs \in Seq(Seq(Nat)) /\ Len(qs) = Len(packets) + 1 /\ qs[Len(packets) + 1] = x
  BY <1>1, <1>3, <1>4, AppendProperties
<1>7. /\ SubSeq(qs, 1, e) = SubSeq(packets, 1, e)
      /\ From(qs, e) = Append(From(packets, e), x)
      /\ Ends(qs, e) = Ends(packets, e)
  BY <1>4, EndsOfMore
<1>8. Ends(qs, Len(packets)) = Ends(packets, Len(packets))
  <2>1. Len(packets) \in 0 .. Len(packets)
    BY <1>4
  <2> QED
    BY <1>4, <2>1, EndsOfMore
<1> HIDE DEF qs
<1>9. more \in Seq(Nat) /\ Len(more) = Len(sending) + Len(x)
  BY <1>1, <1>4, ConcatProperties
<1>10. aclRx \o more = (aclRx \o sending) \o x /\ aclRx \o sending \in Seq(Nat)
  <2>1. (aclRx \o sending) \o x = aclRx \o (sending \o x)
    BY <1>1, <1>4, Grouped, Zenon
  <2>2. aclRx \o sending \in Seq(Nat)
    BY <1>1, ConcatProperties
  <2> QED
    BY <2>1, <2>2
<1> HIDE DEF more
<1>11. Holds(aclRx \o more, From(qs, e))
  <2> DEFINE z == aclRx \o sending
             q == From(packets, e)
  <2>1. q \in Seq(Seq(Nat))
    BY <1>4, FromIs
  <2>2. z \in Seq(Nat) /\ Holds(z, q)
    BY <1>5, <1>10
  <2> HIDE DEF z, q
  <2>3. Holds(z \o x, Append(q, x))
    BY <1>4, <2>1, <2>2, HoldsMore
  <2> QED
    BY <1>7, <1>10, <2>3 DEF z, q
<1>12. Len(FlattenSeq(qs)) = Len(FlattenSeq(packets)) + Len(x)
  <2>1. Ends(packets, Len(packets)) = Len(FlattenSeq(packets))
    BY <1>4, EndsAre
  <2>2. /\ Ends(qs, Len(qs)) = Len(FlattenSeq(qs))
        /\ \A k \in 1 .. Len(qs) : Ends(qs, k) = Ends(qs, k - 1) + Len(qs[k])
    BY <1>6, EndsAre
  <2>3. Len(qs) \in 1 .. Len(qs) /\ Len(qs) - 1 = Len(packets)
    BY <1>4, <1>6
  <2> QED
    BY <1>6, <1>8, <2>1, <2>2, <2>3
<1>13. Len(aclRx) + Ends(qs, e) = Len(FlattenSeq(qs)) - Len(more)
  <2>1. Len(x) \in Nat /\ Len(sending) \in Nat /\ Len(aclRx) \in Nat
    BY <1>1, <1>4
  <2>2. Len(FlattenSeq(packets)) \in Nat
    <3>1. FlattenSeq(packets) \in Seq(Nat)
      BY <1>4, FlattenHolds
    <3> QED
      BY <3>1
  <2> QED
    BY <1>5, <1>7, <1>9, <1>12, <2>1, <2>2
<1>14. FedTo(qs, more, Len(FlattenSeq(qs)) - Len(more), [rx |-> aclRx, pdus |-> delivered])
  <2> DEFINE s == [rx |-> aclRx, pdus |-> delivered]
             total == Len(FlattenSeq(qs)) - Len(more)
  <2>1. s.rx = aclRx /\ s.pdus = delivered /\ e \in 0 .. Len(qs)
    BY <1>4, <1>6
  <2>2. Len(aclRx) + Ends(qs, e) = total
    BY <1>13
  <2> HIDE DEF s, total
  <2>3. FedTo(qs, more, total, s)
    BY <1>5, <1>7, <1>11, <2>1, <2>2 DEF FedTo
  <2> QED
    BY <2>3 DEF s, total
<1> QED
  BY <1>1, <1>2, <1>6, <1>9, <1>14 DEF BtInv

LEMMA OnOutKeeps ==
    ASSUME BtInv, NEW n \in 1 .. MaxTransfer, OnOut(n)
    PROVE  BtInv'
<1> DEFINE part == SubSeq(sending, 1, n)
           rest == From(sending, n)
           rx == aclRx \o part
           total == Len(FlattenSeq(packets)) - Len(rest)
           s == Deliver(rx, delivered)
<1>1. /\ aclRx \in Seq(Nat) /\ sending \in Seq(Nat) /\ packets \in Seq(Pdus)
      /\ delivered \in Seq(Seq(Nat))
  BY DEF BtInv
<1>2. /\ n <= Len(sending) /\ sending' = rest /\ aclRx' = s.rx /\ delivered' = s.pdus
      /\ UNCHANGED packets
  BY DEF OnOut, From
<1>3. n \in 0 .. Len(sending) /\ n \in Nat /\ Len(sending) \in Nat /\ Len(aclRx) \in Nat
  BY <1>1, <1>2
<1>4. part \in Seq(Nat) /\ Len(part) = n /\ rest \in Seq(Nat) /\ Len(rest) = Len(sending) - n
  BY <1>1, <1>3, BeginningIs, FromIs
<1>5. part \o rest = sending
  BY <1>1, <1>3, SplitIs
<1>6. PICK e \in 0 .. Len(packets) :
          /\ delivered = SubSeq(packets, 1, e)
          /\ Holds(aclRx \o sending, From(packets, e))
          /\ Len(aclRx) + Ends(packets, e) = Len(FlattenSeq(packets)) - Len(sending)
  BY DEF BtInv, FedTo
<1> HIDE DEF part, rest
<1>7. rx \in Seq(Nat) /\ Len(rx) = Len(aclRx) + n
  BY <1>1, <1>4, ConcatProperties
<1>8. rx \o rest = aclRx \o sending
  <2>1. (aclRx \o part) \o rest = aclRx \o (part \o rest)
    BY <1>1, <1>4, Grouped, Zenon
  <2> QED
    BY <1>5, <2>1
<1> HIDE DEF rx
<1>9. Len(rx) + Ends(packets, e) = total
  <2>1. Len(FlattenSeq(packets)) \in Nat /\ Ends(packets, e) \in Nat
    <3>1. packets \in Seq(Seq(Nat))
      BY <1>1, PdusAre
    <3>2. FlattenSeq(packets) \in Seq(Nat) /\ Ends(packets, e) \in Nat
      BY <3>1, FlattenHolds, EndsAre
    <3> QED
      BY <3>2
  <2>2. Len(aclRx) \in Int /\ Len(sending) \in Int /\ n \in Int
        /\ Len(FlattenSeq(packets)) \in Int /\ Ends(packets, e) \in Int
    BY <1>3, <2>1
  <2>3. (Len(aclRx) + n) + Ends(packets, e) = Len(FlattenSeq(packets)) - (Len(sending) - n)
    <3> DEFINE f == Len(FlattenSeq(packets))
               at == Ends(packets, e)
    <3>1. Len(aclRx) \in Int /\ Len(sending) \in Int /\ f \in Int /\ at \in Int /\ n \in Int
      BY <2>2
    <3>2. Len(aclRx) + at = f - Len(sending)
      BY <1>6
    <3> HIDE DEF f, at
    <3>3. (Len(aclRx) + n) + at = f - (Len(sending) - n)
      BY <3>1, <3>2, Moved
    <3> QED
      BY <3>3 DEF f, at
  <2> QED
    BY <1>4, <1>7, <2>3, Zenon
<1> HIDE DEF total
<1>10. FedTo(packets, rest, total, [rx |-> rx, pdus |-> delivered])
  BY <1>6, <1>8, <1>9 DEF FedTo
<1>11. s \in Fed /\ FedTo(packets, rest, total, s) /\ ~HasPdu(s.rx)
  BY <1>1, <1>4, <1>7, <1>10, DeliverIs
<1> HIDE DEF s
<1>12. s.rx \in Seq(Nat) /\ s.pdus \in Seq(Seq(Nat)) /\ s = [rx |-> s.rx, pdus |-> s.pdus]
  BY <1>11 DEF Fed
<1>13. FedTo(packets', sending', Len(FlattenSeq(packets')) - Len(sending'), [rx |-> aclRx', pdus |-> delivered'])
  <2>1. packets' = packets /\ sending' = rest /\ [rx |-> aclRx', pdus |-> delivered'] = s
    BY <1>2, <1>12
  <2> QED
    BY <1>11, <2>1 DEF total
<1> QED
  BY <1>1, <1>2, <1>4, <1>11, <1>12, <1>13 DEF BtInv

\* What is kept is less than the next packet.
LEMMA KeptIsShort ==
    ASSUME NEW ps \in Seq(Pdus), NEW rx \in Seq(Nat), NEW rest \in Seq(Nat), ~HasPdu(rx),
           NEW e \in 0 .. Len(ps), Holds(rx \o rest, From(ps, e)), e + 1 <= Len(ps)
    PROVE  Len(rx) < Len(ps[e + 1])
<1> DEFINE i == e + 1
           q == From(ps, e)
           x == ps[i]
<1>1. i \in 1 .. Len(ps) /\ i - 1 = e /\ Len(rx) \in Nat
  OBVIOUS
<1>2. q \in Seq(Pdus)
  BY FromIs
<1>3. q[1] = x /\ x \in Pdus
  <2>1. From(ps, i - 1)[1] = ps[i]
    BY <1>1, LeftIs
  <2>2. ps[i] \in Pdus
    BY <1>1
  <2> QED
    BY <1>1, <2>1, <2>2
<1> HIDE DEF i, q, x
<1>4. Len(x) \in Nat /\ Len(x) >= 4
  BY <1>3, PduIs
<1>5. CASE Len(rx) < 4
  BY <1>1, <1>4, <1>5 DEF x, i
<1>6. CASE Len(rx) >= 4
  <2>1. Holds(rx \o rest, q)
    BY DEF q
  <2>2. PduLength(rx) = Len(q[1])
    BY <1>2, <1>6, <2>1, LengthTold
  <2>3. ~(Len(rx) >= Len(x))
    BY <1>3, <1>6, <2>2 DEF HasPdu, HeaderLen
  <2> QED
    BY <1>1, <1>4, <2>3 DEF x, i
<1> QED
  BY <1>1, <1>5, <1>6

LEMMA LargestIs ==
    ASSUME NEW W, W \subseteq Nat, NEW e \in W, \A k \in W : k <= e
    PROVE  (CHOOSE k \in W : \A j \in W : j <= k) = e
<1>1. \A k \in W : k \in Nat
  OBVIOUS
<1>2. \A k \in W : (\A j \in W : j <= k) => k = e
  BY <1>1
<1> QED
  BY <1>2

LEMMA ReassembledIfFed == BtInv => PacketsReassembled
<1> SUFFICES ASSUME BtInv PROVE PacketsReassembled
  OBVIOUS
<1> DEFINE n == Len(packets)
           arrived == Len(FlattenSeq(packets)) - Len(sending)
           whole == {k \in 0 .. n : Ends(packets, k) <= arrived}
<1>1. /\ aclRx \in Seq(Nat) /\ sending \in Seq(Nat) /\ packets \in Seq(Pdus) /\ ~HasPdu(aclRx)
      /\ n \in Nat
  BY DEF BtInv
<1>2. PICK e \in 0 .. n :
          /\ delivered = SubSeq(packets, 1, e)
          /\ Holds(aclRx \o sending, From(packets, e))
          /\ Len(aclRx) + Ends(packets, e) = arrived
  BY DEF BtInv, FedTo
<1>3. packets \in Seq(Seq(Nat)) /\ Len(aclRx) \in Nat
  BY <1>1, PdusAre
<1>4. /\ \A k \in 0 .. n : Ends(packets, k) \in Nat
      /\ \A k \in 1 .. n : Ends(packets, k) = Ends(packets, k - 1) + Len(packets[k])
  BY <1>3, EndsAre
<1>5. e \in whole
  BY <1>2, <1>3, <1>4
<1>6. ASSUME NEW k \in whole PROVE k <= e
  <2> SUFFICES ASSUME e + 1 <= k PROVE FALSE
    BY <1>1
  <2> DEFINE i == e + 1
  <2>1. i \in 1 .. n /\ i \in 0 .. n /\ i - 1 = e /\ k \in 0 .. n /\ i <= k
    BY <1>1
  <2>2. Len(aclRx) < Len(packets[i])
    <3>1. e + 1 <= Len(packets)
      BY <2>1
    <3> QED
      BY <1>1, <1>2, <3>1, KeptIsShort
  <2>3. Ends(packets, i) <= Ends(packets, k)
    BY <1>3, <2>1, EndsUp
  <2>4. Ends(packets, k) <= arrived
    OBVIOUS
  <2> DEFINE l == Len(packets[i])
  <2>5. Ends(packets, i) = Ends(packets, e) + l /\ Ends(packets, e) \in Nat
        /\ Ends(packets, i) \in Nat /\ Ends(packets, k) \in Nat
    BY <1>4, <2>1
  <2>6. l \in Nat
    BY <1>3, <2>1
  <2> HIDE DEF l, arrived, i
  <2>7. Len(aclRx) < l
    BY <2>2 DEF l
  <2> QED
    BY <1>2, <1>3, <2>3, <2>4, <2>5, <2>6, <2>7
<1> DEFINE d == CHOOSE k \in whole : \A j \in whole : j <= k
<1>7. PacketsReassembled <=> delivered = SubSeq(packets, 1, d)
  BY DEF PacketsReassembled, Ends
<1>8. d = e
  <2>1. whole \subseteq Nat
    OBVIOUS
  <2> HIDE DEF whole
  <2> QED
    BY <1>5, <1>6, <2>1, LargestIs
<1> QED
  BY <1>2, <1>7, <1>8

\* The dongle's controller is given the packets of its host in order and
\* unchanged, each as soon as its last byte has come, however the transfers cut
\* them and whatever an earlier host left in the pipe: for all packets whose
\* length fits its two bytes.
THEOREM ReassembledInOrder == BtSpec => []PacketsReassembled
<1>1. BtInit => BtInv
  <2> SUFFICES ASSUME BtInit PROVE BtInv
    OBVIOUS
  <2>1. aclRx = <<>> /\ delivered = <<>> /\ sending = <<>> /\ packets = <<>>
    BY DEF BtInit
  <2>2. \A T : <<>> \in Seq(T)
    OBVIOUS
  <2>3. ~HasPdu(aclRx)
    BY <2>1, NothingFed
  <2>4. FedTo(packets, sending, Len(FlattenSeq(packets)) - Len(sending), [rx |-> aclRx, pdus |-> delivered])
    BY <2>1, NothingFed
  <2> QED
    BY <2>1, <2>2, <2>3, <2>4 DEF BtInv
<1>2. BtInv /\ [BtNext]_btVars => BtInv'
  <2> SUFFICES ASSUME BtInv, [BtNext]_btVars PROVE BtInv'
    OBVIOUS
  <2>1. ASSUME NEW payload \in Payloads, SendAcl(payload) PROVE BtInv'
    BY <2>1, SendAclKeeps
  <2>2. ASSUME NEW n \in 1 .. MaxTransfer, OnOut(n) PROVE BtInv'
    BY <2>2, OnOutKeeps
  <2>3. CASE OnReset
    BY <2>3, ResetEmpties DEF OnReset
  <2>4. CASE UNCHANGED btVars
    BY <2>4 DEF btVars, BtInv
  <2> QED
    BY <2>1, <2>2, <2>3, <2>4 DEF BtNext
<1> QED
  BY <1>1, <1>2, ReassembledIfFed, PTL DEF BtSpec

-----------------------------------------------------------------------------
(* The echo.                                                               *)

Byte == Nat \X Nat
Queue == Seq(Seq(Byte))

\* Runs of bytes, one after another.
LEMMA BytesJoined ==
    ASSUME NEW x \in Seq(Byte), NEW y \in Seq(Byte)
    PROVE  x \o y \in Seq(Byte)
<1> QED
  BY ConcatProperties

LEMMA BytesGrouped ==
    ASSUME NEW x \in Seq(Byte), NEW y \in Seq(Byte), NEW z \in Seq(Byte)
    PROVE  (x \o y) \o z = x \o (y \o z)
<1> QED
  BY ConcatAssociative

\* A piece before the others.
LEMMA HoldsFirst ==
    ASSUME NEW T, NEW x \in Seq(T), NEW r \in Seq(T), NEW q \in Seq(Seq(T)), Holds(r, q)
    PROVE  <<x>> \o q \in Seq(Seq(T)) /\ x \o r \in Seq(T) /\ Holds(x \o r, <<x>> \o q)
<1> DEFINE s == x \o r
           c == <<x>>
           w == c \o q
           n == Len(q)
           l == Len(x)
<1>1. n \in Nat /\ l \in Nat /\ Len(r) \in Nat /\ \A i \in 1 .. n : Len(q[i]) \in Nat
  OBVIOUS
<1>2. s \in Seq(T) /\ Len(s) = l + Len(r)
      /\ \A i \in 1 .. l + Len(r) : s[i] = IF i <= l THEN x[i] ELSE r[i - l]
  BY ConcatProperties
<1>3. c \in Seq(Seq(T)) /\ Len(c) = 1 /\ c[1] = x
  OBVIOUS
<1> HIDE DEF s, c
<1>4. /\ w \in Seq(Seq(T)) /\ Len(w) = Len(c) + Len(q)
      /\ \A i \in 1 .. Len(c) + Len(q) : w[i] = IF i <= Len(c) THEN c[i] ELSE q[i - Len(c)]
  BY <1>3, ConcatProperties
<1> HIDE DEF w
<1>5. Len(w) = n + 1 /\ w[1] = x /\ \A i \in 1 .. n : w[i + 1] = q[i]
  <2>1. ASSUME NEW i \in 1 .. n PROVE w[i + 1] = q[i]
    <3>1. i + 1 \in 1 .. 1 + n /\ ~(i + 1 <= 1) /\ (i + 1) - 1 = i
      BY <1>1
    <3> QED
      BY <1>3, <1>4, <3>1
  <2> QED
    BY <1>1, <1>3, <1>4, <2>1
<1>6. PICK at : LaidOut(r, q, at) /\ Len(r) = at[n]
  BY DEF Holds
<1>7. /\ at \in [0 .. n -> Int] /\ at[0] = 0 /\ \A i \in 1 .. n : at[i] = at[i - 1] + Len(q[i])
      /\ \A i \in 1 .. n : \A j \in 1 .. Len(q[i]) :
            at[i - 1] + j <= Len(r) => r[at[i - 1] + j] = q[i][j]
  BY <1>6 DEF LaidOut
<1>8. \A i \in 1 .. n : 0 <= at[i - 1] /\ at[i] <= at[n] /\ at[i - 1] \in Int /\ at[i] \in Int
  BY <1>6, LaidUp
<1> HIDE DEF n, l
<1> DEFINE to == [i \in 0 .. n + 1 |-> IF i = 0 THEN 0 ELSE l + at[i - 1]]
<1>9. to[0] = 0 /\ \A i \in 0 .. n : to[i + 1] = l + at[i]
  <2>1. 0 \in 0 .. n + 1 /\ \A i \in 0 .. n : i + 1 \in 0 .. n + 1 /\ i + 1 # 0 /\ (i + 1) - 1 = i
    BY <1>1
  <2> QED
    BY <2>1
<1>10. to \in [0 .. n + 1 -> Int]
  <2>1. \A i \in 0 .. n + 1 : i # 0 => i - 1 \in 0 .. n
    BY <1>1
  <2>2. \A i \in 0 .. n : l + at[i] \in Int
    BY <1>1, <1>7
  <2> QED
    BY <2>1, <2>2
<1> HIDE DEF to
<1>11. ASSUME NEW i \in 1 .. n + 1
       PROVE  /\ to[i] = to[i - 1] + Len(w[i])
              /\ \A j \in 1 .. Len(w[i]) : to[i - 1] + j <= Len(s) => s[to[i - 1] + j] = w[i][j]
  <2>1. CASE i = 1
    <3>1. to[1] = l /\ to[0] = 0
      <4>1. 0 \in 0 .. n /\ 0 + 1 = 1
        BY <1>1
      <4>2. to[1] = l + at[0]
        BY <1>9, <4>1
      <4> QED
        BY <1>1, <1>7, <1>9, <4>2
    <3>2. \A j \in 1 .. l : 0 + j = j /\ j \in 1 .. l + Len(r) /\ j <= l
      BY <1>1
    <3>3. \A j \in 1 .. l : s[0 + j] = x[j]
      BY <1>2, <3>2
    <3> QED
      BY <1>1, <1>5, <2>1, <3>1, <3>3 DEF l
  <2>2. CASE i # 1
    <3> DEFINE k == i - 1
    <3>1. k \in 1 .. n /\ k - 1 \in 0 .. n /\ k \in 0 .. n /\ i = k + 1 /\ (k - 1) + 1 = k
      BY <1>1, <2>2
    <3> HIDE DEF k
    <3>2. w[i] = q[k] /\ to[i] = l + at[k] /\ to[k] = l + at[k - 1]
      BY <1>5, <1>9, <3>1
    <3>3. at[k] = at[k - 1] + Len(q[k]) /\ at[k - 1] \in Int /\ Len(q[k]) \in Nat
          /\ 0 <= at[k - 1] /\ at[k] \in Int /\ at[k] <= Len(r)
      BY <1>1, <1>6, <1>7, <1>8, <3>1
    <3>4. to[i] = to[k] + Len(w[i])
      BY <1>1, <3>2, <3>3
    <3>5. ASSUME NEW j \in 1 .. Len(q[k]) PROVE s[to[k] + j] = q[k][j]
      <4> DEFINE m == at[k - 1] + j
      <4>1. m \in 1 .. Len(r)
        BY <1>1, <3>3
      <4>2. r[m] = q[k][j]
        BY <1>7, <3>1, <4>1
      <4>3. to[k] + j = l + m
        BY <1>1, <3>2, <3>3
      <4> HIDE DEF m
      <4>4. l + m \in 1 .. l + Len(r) /\ ~(l + m <= l) /\ (l + m) - l = m
        BY <1>1, <4>1
      <4> QED
        BY <1>2, <4>2, <4>3, <4>4
    <3>6. i - 1 = k
      BY <3>1
    <3> QED
      BY <3>2, <3>4, <3>5, <3>6
  <2> QED
    BY <2>1, <2>2
<1>12. Len(s) = to[n + 1]
  <2>1. to[n + 1] = l + at[n]
    BY <1>1, <1>9
  <2> QED
    BY <1>2, <1>6, <2>1 DEF n
<1>13. LaidOut(s, w, to)
  <2>1. Len(s) <= to[n + 1]
    BY <1>1, <1>2, <1>12
  <2> QED
    BY <1>5, <1>9, <1>10, <1>11, <2>1 DEF LaidOut
<1>14. Holds(s, w)
  BY <1>5, <1>12, <1>13 DEF Holds
<1> QED
  BY <1>2, <1>4, <1>14 DEF s, w, c

\* What a URB is given, and what is left.
LEMMA GivenIs ==
    ASSUME NEW a \in Seq(Byte), NEW q \in Queue, q # <<>>, Holds(a, q), NEW length \in Nat
    PROVE  /\ Given(q, length) \in Seq(Byte) /\ Left(q, length) \in Queue
           /\ \E c \in Seq(Byte) : Given(q, length) \o c = a /\ Holds(c, Left(q, length))
<1> DEFINE x == Head(q)
           n == Len(x)
           r == From(a, n)
           t == Tail(q)
<1>1. q \in Seq(Seq(Byte)) /\ x = q[1] /\ x \in Seq(Byte) /\ n \in Nat /\ t \in Queue
  <2>1. x = q[1] /\ x \in Seq(Byte) /\ t \in Seq(Seq(Byte))
    BY HeadTailProperties DEF Queue
  <2> QED
    BY <2>1 DEF Queue
<1>2. Len(a) >= n /\ Holds(r, t)
  BY <1>1, RestOf
<1>3. SubSeq(a, 1, n) = x
  BY <1>1, <1>2, RestOf, HoldsBegins
<1>4. n \in 0 .. Len(a)
  BY <1>1, <1>2
<1>5. r \in Seq(Byte) /\ x \o r = a
  <2>1. r \in Seq(Byte)
    BY <1>4, FromIs
  <2>2. SubSeq(a, 1, n) \o From(a, n) = a
    BY <1>4, SplitIs
  <2> QED
    BY <1>3, <2>1, <2>2
<1> HIDE DEF r
<1>6. CASE ~(length > 0 /\ Len(Head(q)) > length)
  <2>1. Given(q, length) = x /\ Left(q, length) = t
    BY <1>6 DEF Given, Left
  <2> QED
    BY <1>1, <1>2, <1>5, <2>1
<1>7. CASE length > 0 /\ Len(Head(q)) > length
  <2> DEFINE g == SubSeq(x, 1, length)
             y == From(x, length)
             c == y \o r
  <2>1. Given(q, length) = g /\ Left(q, length) = <<y>> \o t
    BY <1>7 DEF Given, Left, From
  <2>2. length \in 0 .. n
    BY <1>1, <1>7
  <2> HIDE DEF x, t
  <2>3. g \in Seq(Byte) /\ y \in Seq(Byte) /\ g \o y = x
    BY <1>1, <2>2, BeginningIs, FromIs, SplitIs
  <2> HIDE DEF g, y
  <2>4. <<y>> \o t \in Queue /\ c \in Seq(Byte) /\ Holds(c, <<y>> \o t)
    BY <1>1, <1>2, <1>5, <2>3, HoldsFirst DEF Queue
  <2>5. (g \o y) \o r = g \o (y \o r)
    <3>1. g \in Seq(Byte)
      BY <2>3
    <3>2. y \in Seq(Byte)
      BY <2>3
    <3>3. r \in Seq(Byte)
      BY <1>5
    <3> HIDE DEF c
    <3> QED
      BY <3>1, <3>2, <3>3, BytesGrouped, Zenon
  <2>6. g \o c = a
    BY <1>5, <2>3, <2>5
  <2> QED
    BY <2>1, <2>3, <2>4, <2>6
<1> QED
  BY <1>6, <1>7

\* The loop of a write, between two turns: what it gave and what is left.
Matching(z) ==
    {s \in [q : Queue, got : Seq(Byte), parked : Seq(Nat)] :
        \E a \in Seq(Byte) : Holds(a, s.q) /\ s.got \o a = z}

MatchAll(base, urbs) == FoldLeft(MatchIn, base, urbs)

LEMMA MatchInKeeps ==
    ASSUME NEW z, NEW s \in Matching(z), NEW length \in Nat
    PROVE  MatchIn(s, length) \in Matching(z)
<1>1. /\ s \in [q : Queue, got : Seq(Byte), parked : Seq(Nat)]
      /\ s.q \in Queue /\ s.got \in Seq(Byte) /\ s.parked \in Seq(Nat)
  BY DEF Matching
<1>2. PICK a \in Seq(Byte) : Holds(a, s.q) /\ s.got \o a = z
  BY DEF Matching
<1>3. CASE s.q = <<>>
  <2> DEFINE w == [s EXCEPT !.parked = Append(@, length)]
  <2>1. MatchIn(s, length) = w
    BY <1>3 DEF MatchIn
  <2>2. Append(s.parked, length) \in Seq(Nat)
    BY <1>1, AppendProperties
  <2>3. /\ w \in [q : Queue, got : Seq(Byte), parked : Seq(Nat)]
        /\ w.q = s.q /\ w.got = s.got
    BY <1>1, <2>2
  <2> HIDE DEF w
  <2>4. w \in Matching(z)
    BY <1>2, <2>3 DEF Matching
  <2> QED
    BY <2>1, <2>4
<1>4. CASE s.q # <<>>
  <2> DEFINE g == Given(s.q, length)
             p == Left(s.q, length)
             w == [q |-> p, got |-> s.got \o g, parked |-> s.parked]
  <2>1. MatchIn(s, length) = w
    BY <1>4 DEF MatchIn
  <2>2. /\ g \in Seq(Byte) /\ p \in Queue
        /\ \E c \in Seq(Byte) : g \o c = a /\ Holds(c, p)
    BY <1>1, <1>2, <1>4, GivenIs
  <2> HIDE DEF g, p
  <2>3. PICK c \in Seq(Byte) : g \o c = a /\ Holds(c, p)
    BY <2>2
  <2> DEFINE h == s.got
  <2>4. h \in Seq(Byte) /\ g \in Seq(Byte) /\ c \in Seq(Byte)
    BY <1>1, <2>2
  <2> HIDE DEF h
  <2>5. (h \o g) \o c = h \o (g \o c) /\ h \o g \in Seq(Byte)
    <3>1. (h \o g) \o c = h \o (g \o c)
      BY <2>4, BytesGrouped, Zenon
    <3>2. h \o g \in Seq(Byte)
      BY <2>4, BytesJoined, Zenon
    <3> QED
      BY <3>1, <3>2
  <2>6. (h \o g) \o c = z
    BY <1>2, <2>3, <2>5 DEF h
  <2>7. /\ w.q = p /\ w.got = h \o g
        /\ w \in [q : Queue, got : Seq(Byte), parked : Seq(Nat)]
    BY <1>1, <2>2, <2>5 DEF h
  <2> HIDE DEF w
  <2>8. w \in Matching(z)
    BY <2>3, <2>6, <2>7 DEF Matching
  <2> QED
    BY <2>1, <2>8
<1> QED
  BY <1>3, <1>4

LEMMA MatchAllKeeps ==
    ASSUME NEW z, NEW base \in Matching(z), NEW urbs \in Seq(Nat)
    PROVE  MatchAll(base, urbs) \in Matching(z)
<1> DEFINE n == Len(urbs)
           Y == Matching(z)
           step == [p \in (1 .. n) \X Y |-> MatchIn(p[2], urbs[p[1]])]
           Body(g) == [t \in SUBSET (DOMAIN urbs) |->
                          IF t = {} THEN base ELSE MatchIn(g[t \ {Max(t)}], urbs[Max(t)])]
           iter == CHOOSE g : g = Body(g)
<1>1. n \in Nat /\ DOMAIN urbs = 1 .. n /\ \A i \in 1 .. n : urbs[i] \in Nat
  OBVIOUS
<1>2. MatchAll(base, urbs) = iter[DOMAIN urbs]
  BY DEF MatchAll, FoldLeft, MapThenFoldSet
<1> HIDE DEF Y
<1>3. PICK f : FoldsTo(f, n, Y, base, step)
  <2>1. \A p \in (1 .. n) \X Y : MatchIn(p[2], urbs[p[1]]) \in Y
    <3> SUFFICES ASSUME NEW p \in (1 .. n) \X Y PROVE MatchIn(p[2], urbs[p[1]]) \in Y
      OBVIOUS
    <3>1. p[1] \in 1 .. n /\ p[2] \in Y
      OBVIOUS
    <3>2. urbs[p[1]] \in Nat
      BY <1>1, <3>1
    <3> QED
      BY <3>1, <3>2, MatchInKeeps DEF Y
  <2>2. step \in [(1 .. n) \X Y -> Y]
    BY <2>1
  <2>3. n \in Nat /\ base \in Y
    BY <1>1 DEF Y
  <2> HIDE DEF step, n
  <2> QED
    BY <2>2, <2>3, FoldRuns
<1>4. f = Body(f)
  <2>1. ASSUME NEW t \in SUBSET (1 .. n), t # {}
        PROVE  f[t] = MatchIn(f[t \ {Max(t)}], urbs[Max(t)])
    <3> DEFINE m == Max(t)
    <3>1. m \in 1 .. n
      BY <2>1, <1>1, MaxIn
    <3>2. f[t] = step[<<m, f[t \ {m}]>>]
      BY <1>3, <2>1 DEF FoldsTo
    <3> HIDE DEF m
    <3>3. f[t \ {m}] \in Y
      <4>1. t \ {m} \in SUBSET (1 .. n)
        OBVIOUS
      <4> QED
        BY <1>3, <4>1 DEF FoldsTo
    <3>4. <<m, f[t \ {m}]>> \in (1 .. n) \X Y
      BY <3>1, <3>3
    <3>5. step[<<m, f[t \ {m}]>>] = MatchIn(f[t \ {m}], urbs[m])
      BY <3>4
    <3> QED
      BY <3>2, <3>5 DEF m
  <2>2. f[{}] = base /\ f \in [SUBSET (1 .. n) -> Y]
    BY <1>3 DEF FoldsTo
  <2> QED
    BY <1>1, <2>1, <2>2
<1>5. iter = Body(iter)
  BY <1>4
<1> DEFINE P == [i \in 0 .. n |-> iter[1 .. i]]
<1>6. \A t \in SUBSET (1 .. n) : iter[t] = IF t = {} THEN base ELSE MatchIn(iter[t \ {Max(t)}], urbs[Max(t)])
  BY <1>1, <1>5
<1> HIDE DEF iter
<1>7. P[0] = base /\ P[n] = iter[DOMAIN urbs]
  <2>1. 1 .. 0 = {} /\ {} \in SUBSET (1 .. n)
    OBVIOUS
  <2>2. iter[{}] = base
    BY <1>6, <2>1
  <2> QED
    BY <1>1, <2>1, <2>2
<1>8. ASSUME NEW i \in 1 .. n PROVE P[i] = MatchIn(P[i - 1], urbs[i])
  <2>1. /\ 1 .. i \in SUBSET (1 .. n) /\ 1 .. i # {} /\ 1 .. (i - 1) \in SUBSET (1 .. n)
        /\ Max(1 .. i) = i /\ (1 .. i) \ {i} = 1 .. (i - 1)
    BY <1>1, UpToIs
  <2>2. iter[1 .. i] = MatchIn(iter[(1 .. i) \ {Max(1 .. i)}], urbs[Max(1 .. i)])
    BY <1>6, <2>1, Zenon
  <2>3. P[i] = iter[1 .. i] /\ P[i - 1] = iter[1 .. (i - 1)]
    BY <1>1
  <2>4. iter[1 .. i] = MatchIn(iter[1 .. (i - 1)], urbs[i])
    BY <2>1, <2>2
  <2> QED
    BY <2>3, <2>4
<1> HIDE DEF P
<1>9. P[n] \in Y
  <2> DEFINE G == {i \in 0 .. n : P[i] \in Y}
  <2>1. 0 \in G
    BY <1>1, <1>7 DEF Y
  <2>2. ASSUME NEW i \in 1 .. n, i - 1 \in G PROVE i \in G
    <3>1. P[i - 1] \in Y /\ urbs[i] \in Nat /\ i \in 0 .. n
      BY <1>1, <2>2
    <3>2. MatchIn(P[i - 1], urbs[i]) \in Y
      BY <3>1, MatchInKeeps DEF Y
    <3> QED
      BY <1>8, <3>1, <3>2
  <2> HIDE DEF G
  <2>3. n \in G
    <3>1. \A i \in 0 .. n : i \in G
      BY <1>1, <2>1, <2>2, UpTo
    <3> QED
      BY <1>1, <3>1
  <2> QED
    BY <2>3 DEF G
<1> QED
  BY <1>2, <1>7, <1>9 DEF Y

LEMMA NothingAdded ==
    ASSUME NEW x \in Seq(Byte)
    PROVE  <<>> \o x = x /\ x \o <<>> = x
BY ConcatEmptySeq

LEMMA NoBytes == <<>> \in Seq(Byte) /\ <<>> \in Queue /\ <<>> \in Seq(Nat)
BY DEF Queue

\* What the host received, what is written, what the application holds and what
\* it has to read, in this order, are what there is to echo.
InOrder(iq, h, oq, e, z) ==
    \E a, b \in Seq(Byte) : Holds(a, iq) /\ Holds(b, oq) /\ e \o (a \o (h \o b)) = z

EchoInv ==
    /\ outQ \in Queue /\ inQ \in Queue /\ parked \in Seq(Nat)
    /\ held \in Seq(Byte) /\ fromHost \in Seq(Byte) /\ echoed \in Seq(Byte) /\ stale \in Seq(Byte)
    /\ sentNo \in Nat
    /\ InOrder(inQ, held, outQ, echoed, stale \o fromHost)

\* Nothing but what the application holds.
LEMMA HeldAlone ==
    ASSUME NEW h \in Seq(Byte)
    PROVE  InOrder(<<>>, h, <<>>, <<>>, h \o <<>>)
<1> DEFINE none == <<>>
<1>1. none \in Seq(Byte) /\ Holds(none, none)
  BY NoBytes, HoldsNone
<1>2. h \o none = h /\ none \o h = h
  BY NothingAdded
<1> HIDE DEF none
<1>3. none \o (none \o (h \o none)) = h \o none
  BY <1>2
<1>4. InOrder(none, h, none, none, h \o none)
  BY <1>1, <1>3 DEF InOrder
<1> QED
  BY <1>4 DEF none

LEMMA NothingToEcho == EchoInit => EchoInv
<1> SUFFICES ASSUME EchoInit PROVE EchoInv
  OBVIOUS
<1>1. /\ outQ = <<>> /\ inQ = <<>> /\ parked = <<>> /\ held = <<>>
      /\ fromHost = <<>> /\ echoed = <<>> /\ stale = <<>> /\ sentNo = 0
  BY DEF EchoInit
<1>2. held \in Seq(Byte)
  BY <1>1, NoBytes
<1>3. InOrder(<<>>, held, <<>>, <<>>, held \o <<>>)
  BY <1>2, HeldAlone
<1>4. InOrder(inQ, held, outQ, echoed, stale \o fromHost)
  BY <1>1, <1>3
<1> QED
  BY <1>1, <1>4, NoBytes DEF EchoInv

LEMMA EchoResetKeeps == ASSUME EchoInv, EchoReset PROVE EchoInv'
<1>1. /\ outQ' = <<>> /\ inQ' = <<>> /\ parked' = <<>> /\ stale' = held
      /\ fromHost' = <<>> /\ echoed' = <<>> /\ held' = held /\ sentNo' = sentNo
  BY DEF EchoReset, Flushed
<1>2. held \in Seq(Byte) /\ sentNo \in Nat
  BY DEF EchoInv
<1>3. InOrder(<<>>, held, <<>>, <<>>, held \o <<>>)
  BY <1>2, HeldAlone
<1>4. InOrder(inQ, held, outQ, echoed, stale \o fromHost)'
  BY <1>1, <1>3
<1> QED
  BY <1>1, <1>2, <1>4, NoBytes DEF EchoInv

LEMMA PutOutKeeps ==
    ASSUME EchoInv, NEW n \in EchoLengths, PutOut(n)
    PROVE  EchoInv'
<1> DEFINE x == PacketOf(n)
<1>1. /\ outQ \in Queue /\ inQ \in Queue /\ parked \in Seq(Nat)
      /\ held \in Seq(Byte) /\ fromHost \in Seq(Byte) /\ echoed \in Seq(Byte) /\ stale \in Seq(Byte)
      /\ sentNo \in Nat
  BY DEF EchoInv
<1>2. x \in Seq(Byte)
  <2>1. n \in Nat
    BY EchoAssumption
  <2>2. \A i \in 1 .. n : <<sentNo, i>> \in Byte
    BY <1>1, <2>1 DEF Byte
  <2> QED
    BY <2>1, <2>2 DEF PacketOf
<1>3. /\ outQ' = Append(outQ, x) /\ fromHost' = fromHost \o x /\ sentNo' = sentNo + 1
      /\ UNCHANGED <<inQ, parked, held, echoed, stale>>
  BY DEF PutOut
<1> HIDE DEF x
<1>4. PICK a \in Seq(Byte), b \in Seq(Byte) :
         Holds(a, inQ) /\ Holds(b, outQ) /\ echoed \o (a \o (held \o b)) = stale \o fromHost
  BY DEF EchoInv, InOrder
<1> DEFINE d == b \o x
           oq == Append(outQ, x)
           more == fromHost \o x
<1>5. outQ \in Seq(Seq(Byte))
  BY <1>1 DEF Queue
<1>6. Holds(d, oq)
  BY <1>2, <1>4, <1>5, HoldsMore
<1>7. oq \in Queue
  BY <1>2, <1>5, AppendProperties DEF Queue
<1>8. d \in Seq(Byte) /\ more \in Seq(Byte) /\ stale \o more = (stale \o fromHost) \o x
  <2>1. fromHost \in Seq(Byte)
    BY <1>1
  <2>2. stale \in Seq(Byte)
    BY <1>1
  <2>3. d \in Seq(Byte)
    BY <1>2, BytesJoined, Zenon
  <2>4. more \in Seq(Byte)
    BY <1>2, <2>1, BytesJoined, Zenon
  <2>5. (stale \o fromHost) \o x = stale \o (fromHost \o x)
    BY <1>2, <2>1, <2>2, BytesGrouped, Zenon
  <2> QED
    BY <2>3, <2>4, <2>5
<1>9. echoed \o (a \o (held \o d)) = stale \o more
  <2>1. echoed \in Seq(Byte)
    BY <1>1
  <2>2. held \in Seq(Byte)
    BY <1>1
  <2> DEFINE hb == held \o b
             ahb == a \o hb
  <2>3. hb \in Seq(Byte)
    BY <2>2, BytesJoined, Zenon
  <2>4. hb \o x = held \o (b \o x)
    BY <1>2, <2>2, BytesGrouped, Zenon
  <2> HIDE DEF hb
  <2>5. ahb \in Seq(Byte)
    BY <2>3, BytesJoined, Zenon
  <2>6. ahb \o x = a \o (hb \o x)
    BY <1>2, <2>3, BytesGrouped, Zenon
  <2> HIDE DEF ahb
  <2>7. (echoed \o ahb) \o x = echoed \o (ahb \o x)
    BY <1>2, <2>1, <2>5, BytesGrouped, Zenon
  <2>8. echoed \o ahb = stale \o fromHost
    BY <1>4 DEF ahb, hb
  <2> QED
    BY <1>8, <2>4, <2>6, <2>7, <2>8
<1> HIDE DEF d, oq, more
<1>10. InOrder(inQ, held, oq, echoed, stale \o more)
  BY <1>4, <1>6, <1>8, <1>9 DEF InOrder
<1>11. outQ' = oq /\ fromHost' = more
  BY <1>3 DEF oq, more
<1>12. sentNo' \in Nat
  BY <1>1, <1>3
<1>13. InOrder(inQ, held, outQ, echoed, stale \o fromHost)'
  BY <1>3, <1>10, <1>11
<1> QED
  BY <1>1, <1>3, <1>7, <1>8, <1>11, <1>12, <1>13 DEF EchoInv

LEMMA AskInKeeps ==
    ASSUME EchoInv, NEW n \in EchoLengths, AskIn(n)
    PROVE  EchoInv'
<1>1. /\ outQ \in Queue /\ inQ \in Queue /\ parked \in Seq(Nat)
      /\ held \in Seq(Byte) /\ fromHost \in Seq(Byte) /\ echoed \in Seq(Byte) /\ stale \in Seq(Byte)
      /\ sentNo \in Nat /\ n \in Nat
  BY EchoAssumption DEF EchoInv
<1>2. UNCHANGED <<outQ, held, fromHost, stale, sentNo>>
  BY DEF AskIn
<1>3. CASE inQ = <<>>
  <2>1. parked' = Append(parked, n) /\ UNCHANGED <<echoed, inQ>>
    BY <1>3 DEF AskIn
  <2>2. Append(parked, n) \in Seq(Nat)
    BY <1>1, AppendProperties
  <2>3. parked' \in Seq(Nat)
    BY <2>1, <2>2
  <2> QED
    BY <1>1, <1>2, <2>1, <2>3 DEF EchoInv
<1>4. CASE inQ # <<>>
  <2> DEFINE g == Given(inQ, n)
             p == Left(inQ, n)
  <2>1. echoed' = echoed \o g /\ inQ' = p /\ parked' = parked
    BY <1>4 DEF AskIn
  <2>2. PICK a \in Seq(Byte), b \in Seq(Byte) :
           Holds(a, inQ) /\ Holds(b, outQ) /\ echoed \o (a \o (held \o b)) = stale \o fromHost
    BY DEF EchoInv, InOrder
  <2>3. /\ g \in Seq(Byte) /\ p \in Queue
        /\ \E c \in Seq(Byte) : g \o c = a /\ Holds(c, p)
    BY <1>1, <1>4, <2>2, GivenIs
  <2> HIDE DEF g, p
  <2>4. PICK c \in Seq(Byte) : g \o c = a /\ Holds(c, p)
    BY <2>3
  <2> DEFINE r == held \o b
             eg == echoed \o g
  <2>5. r \in Seq(Byte)
    BY <1>1, <2>2, BytesJoined, Zenon
  <2> HIDE DEF r
  <2>6. eg \o (c \o r) = echoed \o ((g \o c) \o r) /\ eg \in Seq(Byte)
    <3>1. echoed \in Seq(Byte)
      BY <1>1
    <3>2. g \in Seq(Byte)
      BY <2>3
    <3> DEFINE cr == c \o r
    <3>3. cr \in Seq(Byte)
      BY <2>5, BytesJoined, Zenon
    <3>4. (g \o c) \o r = g \o cr
      BY <2>5, <3>2, BytesGrouped, Zenon
    <3> HIDE DEF cr
    <3>5. (echoed \o g) \o cr = echoed \o (g \o cr)
      BY <3>1, <3>2, <3>3, BytesGrouped, ZenonT(30)
    <3>6. echoed \o g \in Seq(Byte)
      BY <3>1, <3>2, BytesJoined, Zenon
    <3> QED
      BY <3>4, <3>5, <3>6 DEF cr
  <2>7. eg \o (c \o r) = stale \o fromHost
    BY <2>2, <2>4, <2>6 DEF r
  <2> HIDE DEF eg
  <2>8. InOrder(p, held, outQ, eg, stale \o fromHost)
    BY <2>2, <2>4, <2>7 DEF InOrder, r
  <2>9. echoed' = eg
    BY <2>1 DEF eg
  <2> QED
    BY <1>1, <1>2, <2>1, <2>3, <2>6, <2>8, <2>9 DEF EchoInv
<1> QED
  BY <1>3, <1>4

LEMMA EchoReadKeeps == ASSUME EchoInv, EchoRead PROVE EchoInv'
<1> DEFINE x == Head(outQ)
           t == Tail(outQ)
<1>1. /\ outQ \in Queue /\ inQ \in Queue /\ parked \in Seq(Nat)
      /\ held \in Seq(Byte) /\ fromHost \in Seq(Byte) /\ echoed \in Seq(Byte) /\ stale \in Seq(Byte)
      /\ sentNo \in Nat
  BY DEF EchoInv
<1>2. /\ held = <<>> /\ outQ # <<>> /\ held' = x /\ outQ' = t
      /\ UNCHANGED <<inQ, parked, fromHost, echoed, stale, sentNo>>
  BY DEF EchoRead, OldestOf
<1>3. PICK a \in Seq(Byte), b \in Seq(Byte) :
         Holds(a, inQ) /\ Holds(b, outQ) /\ echoed \o (a \o (held \o b)) = stale \o fromHost
  BY DEF EchoInv, InOrder
<1>4. outQ \in Seq(Seq(Byte)) /\ x = outQ[1] /\ x \in Seq(Byte) /\ t \in Queue
  <2>1. x = outQ[1] /\ x \in Seq(Byte) /\ t \in Seq(Seq(Byte))
    BY <1>1, <1>2, HeadTailProperties DEF Queue
  <2> QED
    BY <1>1, <2>1 DEF Queue
<1> DEFINE n == Len(x)
           r == From(b, n)
<1>5. Len(b) >= n /\ Holds(r, t)
  BY <1>2, <1>3, <1>4, RestOf
<1>6. SubSeq(b, 1, n) = x
  BY <1>2, <1>3, <1>4, <1>5, RestOf, HoldsBegins
<1>7. n \in 0 .. Len(b)
  BY <1>4, <1>5
<1>8. r \in Seq(Byte) /\ x \o r = b
  <2>1. r \in Seq(Byte)
    BY <1>7, FromIs
  <2>2. SubSeq(b, 1, n) \o From(b, n) = b
    BY <1>7, SplitIs
  <2> QED
    BY <1>6, <2>1, <2>2
<1> HIDE DEF x, t, n, r
<1>9. held \o b = x \o r
  BY <1>2, <1>8, NothingAdded
<1>10. echoed \o (a \o (x \o r)) = stale \o fromHost
  BY <1>3, <1>9
<1>11. InOrder(inQ, x, t, echoed, stale \o fromHost)
  BY <1>3, <1>5, <1>8, <1>10 DEF InOrder
<1> QED
  BY <1>1, <1>2, <1>4, <1>11 DEF EchoInv

LEMMA EchoWriteKeeps == ASSUME EchoInv, EchoWrite PROVE EchoInv'
<1> DEFINE iq == Append(inQ, held)
           base == [q |-> iq, got |-> echoed, parked |-> <<>>]
           s == MatchAll(base, parked)
<1>1. /\ outQ \in Queue /\ inQ \in Queue /\ parked \in Seq(Nat)
      /\ held \in Seq(Byte) /\ fromHost \in Seq(Byte) /\ echoed \in Seq(Byte) /\ stale \in Seq(Byte)
      /\ sentNo \in Nat
  BY DEF EchoInv
<1>2. /\ inQ' = s.q /\ echoed' = s.got /\ parked' = s.parked /\ held' = <<>>
      /\ UNCHANGED <<outQ, fromHost, stale, sentNo>>
  BY DEF EchoWrite, MatchAll
<1>3. PICK a \in Seq(Byte), b \in Seq(Byte) :
         Holds(a, inQ) /\ Holds(b, outQ) /\ echoed \o (a \o (held \o b)) = stale \o fromHost
  BY DEF EchoInv, InOrder
<1> HIDE DEF s
<1> DEFINE ah == a \o held
           z == echoed \o ah
<1>4. inQ \in Seq(Seq(Byte))
  BY <1>1 DEF Queue
<1>5. Holds(ah, iq)
  BY <1>1, <1>3, <1>4, HoldsMore
<1>6. iq \in Queue
  BY <1>1, <1>4, AppendProperties DEF Queue
<1>7. ah \in Seq(Byte) /\ ah \o b = a \o (held \o b)
  <2>1. held \in Seq(Byte)
    BY <1>1
  <2>2. ah \in Seq(Byte)
    BY <2>1, BytesJoined, Zenon
  <2>3. ah \o b = a \o (held \o b)
    BY <2>1, BytesGrouped, Zenon
  <2> QED
    BY <2>2, <2>3
<1> HIDE DEF iq, ah
<1>8. z \in Seq(Byte) /\ z \o b = echoed \o (ah \o b)
  <2>1. echoed \in Seq(Byte)
    BY <1>1
  <2>2. ah \in Seq(Byte)
    BY <1>7
  <2>3. z \in Seq(Byte)
    BY <2>1, <2>2, BytesJoined, Zenon
  <2>4. z \o b = echoed \o (ah \o b)
    BY <2>1, <2>2, BytesGrouped, Zenon
  <2> QED
    BY <2>3, <2>4
<1>9. base \in Matching(z)
  BY <1>1, <1>5, <1>6, <1>7, NoBytes DEF Matching
<1> HIDE DEF z, base
<1>10. s \in Matching(z)
  BY <1>1, <1>9, MatchAllKeeps DEF s
<1>11. s.q \in Queue /\ s.got \in Seq(Byte) /\ s.parked \in Seq(Nat)
  BY <1>10 DEF Matching
<1>12. PICK c \in Seq(Byte) : Holds(c, s.q) /\ s.got \o c = z
  BY <1>10 DEF Matching
<1> DEFINE told == s.got
<1>13. told \in Seq(Byte)
  BY <1>11
<1> HIDE DEF told
<1>14. (told \o c) \o b = told \o (c \o b)
  BY <1>3, <1>12, <1>13, BytesGrouped, Zenon
<1>15. <<>> \o b = b
  BY <1>3, NothingAdded
<1>16. told \o (c \o (<<>> \o b)) = stale \o fromHost
  BY <1>3, <1>7, <1>8, <1>12, <1>14, <1>15 DEF told
<1>17. InOrder(s.q, <<>>, outQ, s.got, stale \o fromHost)
  BY <1>3, <1>12, <1>16 DEF InOrder, told
<1> QED
  BY <1>1, <1>2, <1>11, <1>17, NoBytes DEF EchoInv

LEMMA InOrderIsPrefix == EchoInv => EchoedInOrder
<1> SUFFICES ASSUME EchoInv PROVE EchoedInOrder
  OBVIOUS
<1>1. held \in Seq(Byte) /\ echoed \in Seq(Byte)
  BY DEF EchoInv
<1>2. PICK a \in Seq(Byte), b \in Seq(Byte) : echoed \o (a \o (held \o b)) = stale \o fromHost
  BY DEF EchoInv, InOrder
<1> DEFINE r == held \o b
           w == a \o r
<1>3. r \in Seq(Byte)
  BY <1>1, BytesJoined, Zenon
<1> HIDE DEF r
<1>4. w \in Seq(Byte)
  BY <1>3, BytesJoined, Zenon
<1> HIDE DEF w
<1>5. Len(echoed) \in 0 .. Len(echoed) /\ Len(w) \in Nat /\ Len(echoed) \in Nat
  BY <1>1, <1>4
<1>6. /\ Len(echoed \o w) = Len(echoed) + Len(w)
      /\ SubSeq(echoed \o w, 1, Len(echoed)) = SubSeq(echoed, 1, Len(echoed))
  BY <1>1, <1>4, <1>5, AfterIs
<1>7. Len(echoed) <= Len(echoed \o w)
  BY <1>5, <1>6
<1>8. echoed \o w = stale \o fromHost
  BY <1>2 DEF w, r
<1> QED
  BY <1>6, <1>7, <1>8 DEF EchoedInOrder, IsPrefix

\* A host of the echo gets back what the hosts sent, each byte once and in
\* order, after nothing but what the application held when it attached: for all
\* lengths of packets and of reads, and any number of IN URBs that wait.
THEOREM EchoIsInOrder == EchoSpec => []EchoedInOrder
<1>1. EchoInit => EchoInv
  BY NothingToEcho
<1>2. EchoInv /\ [EchoNext]_echoVars => EchoInv'
  <2> SUFFICES ASSUME EchoInv, [EchoNext]_echoVars PROVE EchoInv'
    OBVIOUS
  <2>1. ASSUME NEW n \in EchoLengths, PutOut(n) PROVE EchoInv'
    BY <2>1, PutOutKeeps
  <2>2. ASSUME NEW n \in EchoLengths, AskIn(n) PROVE EchoInv'
    BY <2>2, AskInKeeps
  <2>3. CASE EchoRead
    BY <2>3, EchoReadKeeps
  <2>4. CASE EchoWrite
    BY <2>4, EchoWriteKeeps
  <2>5. CASE EchoReset
    BY <2>5, EchoResetKeeps
  <2>6. CASE UNCHANGED echoVars
    BY <2>6 DEF echoVars, EchoInv
  <2> QED
    BY <2>1, <2>2, <2>3, <2>4, <2>5, <2>6 DEF EchoNext
<1> QED
  BY <1>1, <1>2, InOrderIsPrefix, PTL DEF EchoSpec
=============================================================================
