----------------------------- MODULE Mtp_proofs -----------------------------
(***************************************************************************)
(* Proofs about the MTP interface and its object model, for every set of   *)
(* stores, of names and of trees in them, every depth and any number of    *)
(* transactions, with stores that fail and files that appear: the types,   *)
(* that handles and objects name each other, and that handles are stable.  *)
(***************************************************************************)
EXTENDS Mtp, SequenceTheorems, FiniteSetTheorems, TLAPS

-----------------------------------------------------------------------------
(* Paths.                                                                  *)

AnyPath == Seq(Names)

LEMMA PathIs ==
    /\ \A p \in Paths : p \in AnyPath /\ Len(p) \in 1 .. MaxDepth /\ p # Root
    /\ \A p \in AnyPath : Len(p) \in 1 .. MaxDepth => p \in Paths
<1>1. \A p \in Paths : p \in AnyPath /\ Len(p) \in 1 .. MaxDepth /\ p # Root
  <2> SUFFICES ASSUME NEW p \in Paths PROVE p \in AnyPath /\ Len(p) \in 1 .. MaxDepth /\ p # Root
    OBVIOUS
  <2>1. PICK n \in 1 .. MaxDepth : p \in [1 .. n -> Names]
    BY DEF Paths
  <2>2. MaxDepth \in Nat /\ n \in Nat
    BY <2>1, StorageAssumption
  <2> QED
    BY <2>1, <2>2 DEF AnyPath, Root
<1>2. ASSUME NEW p \in AnyPath, Len(p) \in 1 .. MaxDepth PROVE p \in Paths
  <2>1. p \in [1 .. Len(p) -> Names]
    BY DEF AnyPath
  <2> QED
    BY <1>2, <2>1 DEF Paths
<1> QED
  BY <1>1, <1>2

\* A beginning of a path.
LEMMA BeginningIs ==
    ASSUME NEW p \in AnyPath, NEW n \in 0 .. Len(p)
    PROVE  /\ SubSeq(p, 1, n) \in AnyPath /\ Len(SubSeq(p, 1, n)) = n
           /\ \A i \in 1 .. n : SubSeq(p, 1, n)[i] = p[i]
<1>1. Len(p) \in Nat /\ n \in Nat /\ n <= Len(p)
  BY DEF AnyPath
<1>2. \A i \in 1 .. n : p[i] \in Names
  BY <1>1, ElementOfSeq DEF AnyPath
<1> QED
  BY <1>1, <1>2, SubSeqProperties DEF AnyPath

\* Two paths of the same names are one path.
LEMMA SamePath ==
    ASSUME NEW p \in AnyPath, NEW q \in AnyPath, Len(p) = Len(q),
           \A i \in 1 .. Len(p) : p[i] = q[i]
    PROVE  p = q
  BY SeqEqual, Zenon DEF AnyPath

LEMMA FrontIs ==
    ASSUME NEW p \in AnyPath, p # Root
    PROVE  /\ Front(p) \in AnyPath /\ Len(p) \in Nat \ {0} /\ Len(Front(p)) = Len(p) - 1
           /\ \A i \in 1 .. Len(p) - 1 : Front(p)[i] = p[i]
<1>1. Len(p) \in Nat \ {0}
  BY EmptySeq DEF AnyPath, Root
<1>2. Len(p) - 1 \in 0 .. Len(p)
  BY <1>1
<1>3. /\ SubSeq(p, 1, Len(p) - 1) \in AnyPath /\ Len(SubSeq(p, 1, Len(p) - 1)) = Len(p) - 1
      /\ \A i \in 1 .. Len(p) - 1 : SubSeq(p, 1, Len(p) - 1)[i] = p[i]
  BY <1>2, BeginningIs, Zenon
<1> QED
  BY <1>1, <1>3 DEF Front

LEMMA UnderIs ==
    ASSUME NEW p \in AnyPath, NEW q \in AnyPath
    PROVE  Under(p, q) <=> Len(p) <= Len(q) /\ \A i \in 1 .. Len(p) : p[i] = q[i]
<1>1. Len(p) \in Nat /\ Len(q) \in Nat
  BY DEF AnyPath
<1>2. SubSeq(p, 1, Len(p)) = p
  BY SubSeqFull DEF AnyPath
<1>3. CASE Len(p) <= Len(q)
  <2>1. /\ SubSeq(q, 1, Len(p)) \in AnyPath /\ Len(SubSeq(q, 1, Len(p))) = Len(p)
        /\ \A i \in 1 .. Len(p) : SubSeq(q, 1, Len(p))[i] = q[i]
    <3>1. Len(p) \in 0 .. Len(q)
      BY <1>1, <1>3
    <3> QED
      BY <3>1, BeginningIs
  <2>2. (\A i \in 1 .. Len(p) : p[i] = q[i]) => p = SubSeq(q, 1, Len(p))
    BY <2>1, SamePath
  <2> QED
    BY <1>2, <1>3, <2>1, <2>2 DEF Under, IsPrefix
<1>4. CASE ~(Len(p) <= Len(q))
  BY <1>4 DEF Under, IsPrefix
<1> QED
  BY <1>3, <1>4

LEMMA UnderOrder ==
    /\ \A p \in AnyPath : Under(p, p) /\ Under(Root, p)
    /\ \A p, q, r \in AnyPath : Under(p, q) /\ Under(q, r) => Under(p, r)
    /\ \A p, q \in AnyPath : Under(p, q) /\ Under(q, p) => p = q
    /\ \A p, q \in AnyPath : Under(p, q) /\ p # q => Len(p) < Len(q)
<1>0. \A p \in AnyPath : Len(p) \in Nat
  BY DEF AnyPath
<1>1. \A p \in AnyPath : Under(p, p) /\ Under(Root, p)
  <2>1. Root \in AnyPath /\ Len(Root) = 0
    BY EmptySeq DEF AnyPath, Root
  <2> QED
    BY <1>0, <2>1, UnderIs
<1>2. ASSUME NEW p \in AnyPath, NEW q \in AnyPath, NEW r \in AnyPath, Under(p, q), Under(q, r)
      PROVE  Under(p, r)
  <2>1. Len(p) \in Nat /\ Len(q) \in Nat /\ Len(r) \in Nat
    BY <1>0
  <2>2. Len(p) <= Len(q) /\ \A i \in 1 .. Len(p) : p[i] = q[i]
    BY <1>2, UnderIs
  <2>3. Len(q) <= Len(r) /\ \A i \in 1 .. Len(q) : q[i] = r[i]
    BY <1>2, UnderIs
  <2>4. Len(p) <= Len(r) /\ \A i \in 1 .. Len(p) : p[i] = r[i]
    BY <2>1, <2>2, <2>3
  <2> QED
    BY <2>4, UnderIs
<1>3. ASSUME NEW p \in AnyPath, NEW q \in AnyPath, Under(p, q), Len(q) <= Len(p)
      PROVE  p = q
  <2>1. Len(p) <= Len(q) /\ \A i \in 1 .. Len(p) : p[i] = q[i]
    BY <1>3, UnderIs
  <2>2. Len(p) = Len(q)
    BY <1>0, <1>3, <2>1
  <2> QED
    BY <2>1, <2>2, SamePath
<1>4. \A p, q \in AnyPath : Under(p, q) => Len(p) <= Len(q)
  BY UnderIs
<1>5. \A p, q \in AnyPath : Under(p, q) /\ p # q => Len(p) < Len(q)
  BY <1>0, <1>3, <1>4
<1> QED
  BY <1>1, <1>2, <1>3, <1>4, <1>5

\* What is below a path has its parent there.
LEMMA UnderFront ==
    ASSUME NEW p \in AnyPath, NEW q \in AnyPath, q # Root
    PROVE  /\ Under(Front(q), q) /\ Front(q) # q
           /\ Under(p, q) /\ p # q => Under(p, Front(q))
           /\ Under(p, Front(q)) => Under(p, q) /\ p # q
<1>0. /\ Front(q) \in AnyPath /\ Len(q) \in Nat \ {0} /\ Len(Front(q)) = Len(q) - 1
      /\ \A i \in 1 .. Len(q) - 1 : Front(q)[i] = q[i]
  BY FrontIs
<1>1. Under(Front(q), q) /\ Front(q) # q
  <2>1. Len(Front(q)) <= Len(q) /\ \A i \in 1 .. Len(Front(q)) : Front(q)[i] = q[i]
    BY <1>0
  <2>2. Front(q) # q
    BY <1>0
  <2> QED
    BY <1>0, <2>1, <2>2, UnderIs
<1>2. ASSUME Under(p, q), p # q PROVE Under(p, Front(q))
  <2>1. Len(p) < Len(q)
    BY <1>2, UnderOrder
  <2>2. Len(p) \in Nat /\ \A i \in 1 .. Len(p) : p[i] = q[i]
    BY <1>2, UnderIs DEF AnyPath
  <2>3. Len(p) <= Len(Front(q)) /\ \A i \in 1 .. Len(p) : p[i] = Front(q)[i]
    BY <1>0, <2>1, <2>2
  <2> QED
    BY <1>0, <2>3, UnderIs
<1>3. ASSUME Under(p, Front(q)) PROVE Under(p, q) /\ p # q
  <2>1. Under(p, q)
    BY <1>0, <1>1, <1>3, UnderOrder
  <2>2. Len(p) <= Len(Front(q))
    BY <1>0, <1>3, UnderIs
  <2> QED
    BY <1>0, <2>1, <2>2
<1> QED
  BY <1>1, <1>2, <1>3

\* The path q below p, moved below r.
LEMMA MovedIs ==
    ASSUME NEW p \in AnyPath, NEW q \in AnyPath, NEW r \in AnyPath, Under(p, q)
    PROVE  /\ Moved(q, p, r) \in AnyPath
           /\ Len(Moved(q, p, r)) = Len(r) + (Len(q) - Len(p))
           /\ \A i \in 1 .. Len(r) : Moved(q, p, r)[i] = r[i]
           /\ \A i \in Len(p) + 1 .. Len(q) : Moved(q, p, r)[Len(r) + (i - Len(p))] = q[i]
<1> DEFINE rest == SubSeq(q, Len(p) + 1, Len(q))
<1>1. Len(p) \in Nat /\ Len(q) \in Nat /\ Len(r) \in Nat /\ Len(p) <= Len(q)
  BY UnderIs DEF AnyPath
<1>2. \A i \in Len(p) + 1 .. Len(q) : q[i] \in Names
  <2>1. \A i \in Len(p) + 1 .. Len(q) : i \in 1 .. Len(q)
    BY <1>1
  <2> QED
    BY <2>1, ElementOfSeq DEF AnyPath
<1>3. /\ rest \in AnyPath
      /\ Len(rest) = IF Len(p) + 1 <= Len(q) THEN Len(q) - (Len(p) + 1) + 1 ELSE 0
      /\ \A i \in 1 .. Len(q) - (Len(p) + 1) + 1 : rest[i] = q[Len(p) + 1 + i - 1]
  <2>1. Len(p) + 1 \in Int /\ Len(q) \in Int
    BY <1>1
  <2> QED
    BY <1>2, <2>1, SubSeqProperties DEF AnyPath
<1>4. Len(rest) = Len(q) - Len(p)
  BY <1>1, <1>3
<1> HIDE DEF rest
<1>5. \A i \in Len(p) + 1 .. Len(q) : i - Len(p) \in 1 .. Len(rest) /\ rest[i - Len(p)] = q[i]
  <2> SUFFICES ASSUME NEW i \in Len(p) + 1 .. Len(q)
               PROVE  i - Len(p) \in 1 .. Len(rest) /\ rest[i - Len(p)] = q[i]
    OBVIOUS
  <2>1. i \in Int /\ i - Len(p) \in 1 .. Len(q) - (Len(p) + 1) + 1 /\ Len(p) + 1 + (i - Len(p)) - 1 = i
    BY <1>1
  <2> QED
    BY <1>1, <1>3, <1>4, <2>1
<1>6. /\ r \o rest \in AnyPath /\ Len(r \o rest) = Len(r) + Len(rest)
      /\ \A i \in 1 .. Len(r) + Len(rest) :
            (r \o rest)[i] = IF i <= Len(r) THEN r[i] ELSE rest[i - Len(r)]
  BY <1>3, ConcatProperties DEF AnyPath
<1>7. Moved(q, p, r) = r \o rest
  BY DEF Moved, rest
<1> DEFINE m == r \o rest
<1>8. m \in AnyPath /\ Len(m) = Len(r) + Len(rest)
      /\ \A i \in 1 .. Len(r) + Len(rest) : m[i] = IF i <= Len(r) THEN r[i] ELSE rest[i - Len(r)]
  BY <1>6
<1> HIDE DEF m
<1>9. \A i \in 1 .. Len(r) : m[i] = r[i]
  BY <1>1, <1>4, <1>8
<1>10. ASSUME NEW i \in Len(p) + 1 .. Len(q) PROVE m[Len(r) + (i - Len(p))] = q[i]
  <2>1. i - Len(p) \in 1 .. Len(rest) /\ rest[i - Len(p)] = q[i]
    BY <1>5, <1>10
  <2> DEFINE j == i - Len(p)
  <2>2. j \in 1 .. Len(rest) /\ rest[j] = q[i] /\ j = i - Len(p)
    BY <2>1
  <2> HIDE DEF j
  <2>3. Len(rest) \in Nat /\ Len(r) \in Nat
    BY <1>1, <1>4
  <2>4. Len(r) + j \in 1 .. Len(r) + Len(rest) /\ ~(Len(r) + j <= Len(r)) /\ (Len(r) + j) - Len(r) = j
    BY <2>2, <2>3
  <2>5. m[Len(r) + j] = rest[j]
    BY <1>8, <2>4
  <2> QED
    BY <2>2, <2>5
<1> QED
  BY <1>4, <1>7, <1>8, <1>9, <1>10 DEF m

\* It lies below r as it lay below p: what moves back is what has moved.
LEMMA MovedUnder ==
    ASSUME NEW p \in AnyPath, NEW q \in AnyPath, NEW r \in AnyPath, Under(p, q)
    PROVE  /\ Moved(q, p, r) \in AnyPath /\ Under(r, Moved(q, p, r))
           /\ Moved(Moved(q, p, r), r, p) = q
           /\ q = p => Moved(q, p, r) = r
           /\ q # p => Moved(q, p, r) # r
<1> DEFINE m == Moved(q, p, r)
<1>1. /\ m \in AnyPath
      /\ Len(m) = Len(r) + (Len(q) - Len(p))
      /\ \A i \in 1 .. Len(r) : m[i] = r[i]
      /\ \A i \in Len(p) + 1 .. Len(q) : m[Len(r) + (i - Len(p))] = q[i]
  BY MovedIs, Zenon
<1> HIDE DEF m
<1>2. Len(p) \in Nat /\ Len(q) \in Nat /\ Len(r) \in Nat /\ Len(p) <= Len(q)
      /\ \A i \in 1 .. Len(p) : p[i] = q[i]
  BY UnderIs DEF AnyPath
<1>3. Under(r, m)
  BY <1>1, <1>2, UnderIs
<1> DEFINE b == Moved(m, r, p)
<1>4. /\ b \in AnyPath
      /\ Len(b) = Len(p) + (Len(m) - Len(r))
      /\ \A i \in 1 .. Len(p) : b[i] = p[i]
      /\ \A i \in Len(r) + 1 .. Len(m) : b[Len(p) + (i - Len(r))] = m[i]
  BY <1>1, <1>3, MovedIs, Zenon
<1> HIDE DEF b
<1>5. Len(b) = Len(q)
  BY <1>1, <1>2, <1>4
<1>6. ASSUME NEW i \in 1 .. Len(b) PROVE b[i] = q[i]
  <2>1. CASE i <= Len(p)
    BY <1>2, <1>4, <2>1
  <2>2. CASE ~(i <= Len(p))
    <3> DEFINE j == Len(r) + (i - Len(p))
    <3>1. /\ i \in Len(p) + 1 .. Len(q) /\ j \in Len(r) + 1 .. Len(m) /\ Len(p) + (j - Len(r)) = i
      BY <1>1, <1>2, <1>5, <2>2
    <3>2. m[j] = q[i]
      BY <1>1, <3>1
    <3> HIDE DEF j
    <3>3. b[Len(p) + (j - Len(r))] = m[j]
      BY <1>4, <3>1
    <3> QED
      BY <3>1, <3>2, <3>3
  <2> QED
    BY <2>1, <2>2
<1>7. b = q
  BY <1>4, <1>5, <1>6, SamePath
<1>8. q = p => m = r
  <2> SUFFICES ASSUME q = p PROVE m = r
    OBVIOUS
  <2>1. Len(m) = Len(r)
    BY <1>1, <1>2
  <2> QED
    BY <1>1, <2>1, SamePath
<1>9. q # p => m # r
  <2> SUFFICES ASSUME q # p PROVE m # r
    OBVIOUS
  <2>1. Len(p) < Len(q)
    BY UnderOrder
  <2> QED
    BY <1>1, <1>2, <2>1
<1> QED
  BY <1>1, <1>3, <1>7, <1>8, <1>9 DEF m, b

\* A path's parent moves along.
LEMMA MovedFront ==
    ASSUME NEW p \in AnyPath, NEW q \in AnyPath, NEW r \in AnyPath, Under(p, q), q # p, q # Root
    PROVE  Front(Moved(q, p, r)) = Moved(Front(q), p, r)
<1> DEFINE m == Moved(q, p, r)
           f == Front(q)
           n == Moved(f, p, r)
<1>1. /\ m \in AnyPath
      /\ Len(m) = Len(r) + (Len(q) - Len(p))
      /\ \A i \in 1 .. Len(r) : m[i] = r[i]
      /\ \A i \in Len(p) + 1 .. Len(q) : m[Len(r) + (i - Len(p))] = q[i]
  BY MovedIs, Zenon
<1>2. /\ f \in AnyPath /\ Len(q) \in Nat \ {0} /\ Len(f) = Len(q) - 1
      /\ \A i \in 1 .. Len(q) - 1 : f[i] = q[i]
  BY FrontIs, Zenon
<1>3. Under(p, f)
  BY UnderFront
<1>4. /\ n \in AnyPath
      /\ Len(n) = Len(r) + (Len(f) - Len(p))
      /\ \A i \in 1 .. Len(r) : n[i] = r[i]
      /\ \A i \in Len(p) + 1 .. Len(f) : n[Len(r) + (i - Len(p))] = f[i]
  BY <1>2, <1>3, MovedIs, Zenon
<1> HIDE DEF m, f, n
<1>5. Len(p) \in Nat /\ Len(r) \in Nat /\ Len(p) < Len(q)
  BY UnderOrder DEF AnyPath
<1>6. m # Root
  BY <1>1, <1>2, <1>5, EmptySeq DEF Root
<1>7. /\ Front(m) \in AnyPath /\ Len(Front(m)) = Len(m) - 1
      /\ \A i \in 1 .. Len(m) - 1 : Front(m)[i] = m[i]
  BY <1>1, <1>6, FrontIs
<1>8. Len(Front(m)) = Len(n)
  BY <1>1, <1>2, <1>4, <1>5, <1>7
<1>9. ASSUME NEW i \in 1 .. Len(n) PROVE n[i] = Front(m)[i]
  <2>1. i \in 1 .. Len(m) - 1 /\ Front(m)[i] = m[i]
    BY <1>7, <1>8
  <2>2. CASE i <= Len(r)
    BY <1>1, <1>4, <1>5, <2>1, <2>2
  <2>3. CASE ~(i <= Len(r))
    <3> DEFINE j == Len(p) + (i - Len(r))
    <3>1. /\ j \in Len(p) + 1 .. Len(f) /\ j \in Len(p) + 1 .. Len(q) /\ j \in 1 .. Len(q) - 1
          /\ Len(r) + (j - Len(p)) = i
      BY <1>2, <1>4, <1>5, <2>3
    <3> HIDE DEF j
    <3>2. n[Len(r) + (j - Len(p))] = f[j] /\ m[Len(r) + (j - Len(p))] = q[j] /\ f[j] = q[j]
      BY <1>1, <1>2, <1>4, <3>1
    <3> QED
      BY <2>1, <3>1, <3>2
  <2> QED
    BY <2>2, <2>3
<1>10. n = Front(m)
  BY <1>4, <1>7, <1>8, <1>9, SamePath
<1> QED
  BY <1>10 DEF m, n, f

\* The least of some natural numbers.
LEMMA LeastIs ==
    ASSUME NEW T, T \subseteq Nat, T # {}
    PROVE  \E n \in T : \A m \in T : n <= m
<1> DEFINE R == OpToRel(<, Nat)
<1>1. IsWellFoundedOn(R, Nat)
  BY NatLessThanWellFounded
<1> HIDE DEF R
<1>2. PICK n \in T : \A m \in T : ~(<<m, n>> \in R)
  BY <1>1, WFMin
<1>3. \A m \in T : ~(m < n)
  BY <1>2 DEF R, OpToRel
<1> QED
  BY <1>2, <1>3

\* A tree holds all that is above what it holds, short of the root.
LEMMA TreeClosed ==
    ASSUME NEW D, D \subseteq AnyPath, \A p \in D : Front(p) = Root \/ Front(p) \in D,
           NEW q \in D, NEW p \in AnyPath, p # Root, Under(p, q)
    PROVE  p \in D
<1> DEFINE T == {n \in Len(p) .. Len(q) : SubSeq(q, 1, n) \in D}
<1>1. /\ q \in AnyPath /\ Len(p) \in Nat \ {0} /\ Len(q) \in Nat /\ Len(p) <= Len(q)
      /\ \A i \in 1 .. Len(p) : p[i] = q[i]
  BY FrontIs, UnderIs DEF AnyPath
<1>2. SubSeq(q, 1, Len(q)) = q
  BY <1>1, SubSeqFull DEF AnyPath
<1>3. T \subseteq Nat /\ Len(q) \in T
  <2>1. Len(p) .. Len(q) \subseteq Nat /\ Len(q) \in Len(p) .. Len(q)
    BY <1>1
  <2>2. SubSeq(q, 1, Len(q)) \in D
    BY <1>2
  <2> QED
    BY <2>1, <2>2, Zenon
<1>4. PICK n \in T : \A m \in T : n <= m
  BY <1>3, LeastIs
<1>5. n \in Nat /\ n \in 0 .. Len(q) /\ Len(p) <= n /\ SubSeq(q, 1, n) \in D
  BY <1>1, <1>4
<1> DEFINE b == SubSeq(q, 1, n)
<1>6. b \in AnyPath /\ Len(b) = n /\ \A i \in 1 .. n : b[i] = q[i]
  BY <1>1, <1>5, BeginningIs, Zenon
<1>7. CASE n = Len(p)
  <2> HIDE DEF b
  <2>1. b = p
    BY <1>1, <1>6, <1>7, SamePath
  <2> QED
    BY <1>5, <2>1 DEF b
<1>8. CASE n # Len(p)
  <2>1. n - 1 \in 0 .. Len(q) /\ n - 1 \in Len(p) .. Len(q) /\ n - 1 # 0 /\ n - 1 \in Nat
    BY <1>1, <1>5, <1>8
  <2> DEFINE c == SubSeq(q, 1, n - 1)
  <2>2. c \in AnyPath /\ Len(c) = n - 1 /\ \A i \in 1 .. n - 1 : c[i] = q[i]
    BY <1>1, <2>1, BeginningIs, Zenon
  <2>3. b # Root
    BY <1>1, <1>5, <1>6, EmptySeq DEF Root
  <2>4. Front(b) \in AnyPath /\ Len(Front(b)) = n - 1 /\ \A i \in 1 .. n - 1 : Front(b)[i] = b[i]
    BY <1>6, <2>3, FrontIs
  <2> HIDE DEF b, c
  <2>5. Front(b) = c
    <3>1. \A i \in 1 .. n - 1 : c[i] = Front(b)[i]
      BY <1>5, <1>6, <2>1, <2>2, <2>4
    <3> QED
      BY <2>2, <2>4, <3>1, SamePath
  <2>6. c # Root
    BY <2>1, <2>2, EmptySeq DEF Root
  <2>7. c \in D
    BY <1>5, <2>5, <2>6 DEF b
  <2>8. n - 1 \in T
    BY <2>1, <2>7 DEF c
  <2>9. n <= n - 1
    BY <1>4, <2>8
  <2> QED
    BY <1>5, <2>9
<1> QED
  BY <1>7, <1>8

-----------------------------------------------------------------------------
(* The order of the walk is strict and total, so ranks number its keys.    *)

\* The name at place i, and 0, which is no name, past the end.
NameAt(p, i) == IF i \in 1 .. Len(p) THEN p[i] ELSE 0

\* They agree up to i, where p has the lesser name.
PartAt(p, q, i) ==
    NameAt(p, i) < NameAt(q, i) /\ \A j \in 1 .. i - 1 : NameAt(p, j) = NameAt(q, j)

LEMMA NameAtIs ==
    ASSUME NEW p \in AnyPath
    PROVE  /\ Len(p) \in Nat
           /\ \A i \in Nat \ {0} : /\ NameAt(p, i) \in Nat
                                   /\ NameAt(p, i) # 0 <=> i <= Len(p)
                                   /\ i <= Len(p) => NameAt(p, i) = p[i]
<1>1. Len(p) \in Nat /\ \A i \in 1 .. Len(p) : p[i] \in Names
  BY ElementOfSeq DEF AnyPath
<1>2. \A n \in Names : n \in Nat /\ n # 0
  BY StorageAssumption
<1> QED
  BY <1>1, <1>2 DEF NameAt

LEMMA WalkedIs ==
    ASSUME NEW p \in AnyPath, NEW q \in AnyPath
    PROVE  WalkedBefore(p, q) <=> \E i \in Nat \ {0} : PartAt(p, q, i)
<1>1. /\ Len(p) \in Nat
      /\ \A i \in Nat \ {0} : /\ NameAt(p, i) \in Nat
                              /\ NameAt(p, i) # 0 <=> i <= Len(p)
                              /\ i <= Len(p) => NameAt(p, i) = p[i]
  BY NameAtIs
<1>2. /\ Len(q) \in Nat
      /\ \A i \in Nat \ {0} : /\ NameAt(q, i) \in Nat
                              /\ NameAt(q, i) # 0 <=> i <= Len(q)
                              /\ i <= Len(q) => NameAt(q, i) = q[i]
  BY NameAtIs
<1>3. ASSUME NEW i \in 1 .. Len(p), i <= Len(q)
      PROVE  SubSeq(p, 1, i - 1) = SubSeq(q, 1, i - 1) <=> \A j \in 1 .. i - 1 : p[j] = q[j]
  <2>1. i - 1 \in 0 .. Len(p) /\ i - 1 \in 0 .. Len(q) /\ i - 1 \in Nat
    BY <1>1, <1>2, <1>3
  <2> DEFINE a == SubSeq(p, 1, i - 1)
             b == SubSeq(q, 1, i - 1)
  <2>2. a \in AnyPath /\ Len(a) = i - 1 /\ \A j \in 1 .. i - 1 : a[j] = p[j]
    BY <2>1, BeginningIs, Zenon
  <2>3. b \in AnyPath /\ Len(b) = i - 1 /\ \A j \in 1 .. i - 1 : b[j] = q[j]
    BY <2>1, BeginningIs, Zenon
  <2> HIDE DEF a, b
  <2>4. (\A j \in 1 .. i - 1 : p[j] = q[j]) => a = b
    BY <2>2, <2>3, SamePath
  <2>5. a = b => \A j \in 1 .. i - 1 : p[j] = q[j]
    BY <2>2, <2>3
  <2> QED
    BY <2>4, <2>5 DEF a, b
<1>4. ASSUME IsStrictPrefix(p, q) PROVE \E i \in Nat \ {0} : PartAt(p, q, i)
  <2>1. Under(p, q) /\ p # q
    BY <1>4 DEF IsStrictPrefix, Under
  <2>2. Len(p) < Len(q) /\ \A i \in 1 .. Len(p) : p[i] = q[i]
    BY <2>1, UnderOrder, UnderIs
  <2>3. NameAt(p, Len(p) + 1) < NameAt(q, Len(p) + 1)
    <3>1. Len(p) + 1 \in Nat \ {0} /\ Len(p) + 1 <= Len(q) /\ ~(Len(p) + 1 <= Len(p))
      BY <1>1, <1>2, <2>2
    <3>2. NameAt(p, Len(p) + 1) = 0 /\ NameAt(q, Len(p) + 1) \in Nat \ {0}
      BY <1>1, <1>2, <3>1
    <3> QED
      BY <3>2
  <2>4. \A j \in 1 .. Len(p) + 1 - 1 : NameAt(p, j) = NameAt(q, j)
    BY <1>1, <1>2, <2>2, SMTT(30)
  <2>5. PartAt(p, q, Len(p) + 1) /\ Len(p) + 1 \in Nat \ {0}
    BY <1>1, <2>3, <2>4 DEF PartAt
  <2> QED
    BY <2>5
<1>5. ASSUME NEW i \in 1 .. Len(p), i <= Len(q), p[i] < q[i],
             SubSeq(p, 1, i - 1) = SubSeq(q, 1, i - 1)
      PROVE  PartAt(p, q, i)
  <2>1. \A j \in 1 .. i - 1 : p[j] = q[j]
    BY <1>3, <1>5
  <2>2. i \in Nat \ {0} /\ i <= Len(p) /\ i <= Len(q)
    BY <1>1, <1>5
  <2>3. NameAt(p, i) < NameAt(q, i)
    <3>1. NameAt(p, i) = p[i] /\ NameAt(q, i) = q[i]
      BY <1>1, <1>2, <2>2
    <3> QED
      BY <1>5, <3>1
  <2>4. ASSUME NEW j \in 1 .. i - 1 PROVE NameAt(p, j) = NameAt(q, j)
    <3>1. j \in Nat \ {0} /\ j <= Len(p) /\ j <= Len(q) /\ p[j] = q[j]
      BY <1>1, <1>2, <2>1, <2>2
    <3> QED
      BY <1>1, <1>2, <3>1
  <2> QED
    BY <2>3, <2>4 DEF PartAt
<1>6. ASSUME NEW i \in Nat \ {0}, PartAt(p, q, i) PROVE WalkedBefore(p, q)
  <2>1. /\ NameAt(p, i) < NameAt(q, i)
        /\ \A j \in 1 .. i - 1 : NameAt(p, j) = NameAt(q, j)
    BY <1>6 DEF PartAt
  <2>2. i <= Len(q)
    BY <1>1, <1>2, <2>1
  <2>3. CASE i <= Len(p)
    <3>1. i \in 1 .. Len(p) /\ p[i] < q[i] /\ \A j \in 1 .. i - 1 : p[j] = q[j]
      BY <1>1, <1>2, <2>1, <2>2, <2>3
    <3>2. SubSeq(p, 1, i - 1) = SubSeq(q, 1, i - 1)
      BY <1>3, <2>2, <3>1
    <3> QED
      BY <2>2, <3>1, <3>2 DEF WalkedBefore
  <2>4. CASE ~(i <= Len(p))
    <3>1. Len(p) < Len(q) /\ \A j \in 1 .. Len(p) : p[j] = q[j]
      BY <1>1, <1>2, <2>1, <2>2, <2>4
    <3>2. Under(p, q) /\ p # q
      BY <1>1, <1>2, <3>1, UnderIs
    <3> QED
      BY <3>2 DEF WalkedBefore, IsStrictPrefix, Under
  <2> QED
    BY <2>3, <2>4
<1>7. ASSUME NEW i \in 1 .. Len(p), i <= Len(q), p[i] < q[i],
             SubSeq(p, 1, i - 1) = SubSeq(q, 1, i - 1)
      PROVE  \E n \in Nat \ {0} : PartAt(p, q, n)
  <2>1. i \in Nat \ {0} /\ PartAt(p, q, i)
    BY <1>1, <1>5, <1>7
  <2> QED
    BY <2>1
<1> QED
  BY <1>4, <1>6, <1>7 DEF WalkedBefore

AnyKey == Stores \X AnyPath

LEMMA KeyOrder ==
    /\ \A k \in AnyKey : ~KeyBefore(k, k)
    /\ \A i, j, k \in AnyKey : KeyBefore(i, j) /\ KeyBefore(j, k) => KeyBefore(i, k)
    /\ \A j, k \in AnyKey : j = k \/ KeyBefore(j, k) \/ KeyBefore(k, j)
<1>1. \A p \in AnyPath : ~WalkedBefore(p, p)
  <2> SUFFICES ASSUME NEW p \in AnyPath, NEW i \in Nat \ {0}, PartAt(p, p, i) PROVE FALSE
    BY WalkedIs
  <2> QED
    BY NameAtIs DEF PartAt
<1>2. ASSUME NEW p \in AnyPath, NEW q \in AnyPath, NEW r \in AnyPath,
             WalkedBefore(p, q), WalkedBefore(q, r)
      PROVE  WalkedBefore(p, r)
  <2>1. PICK i \in Nat \ {0} : PartAt(p, q, i)
    BY <1>2, WalkedIs
  <2>2. PICK j \in Nat \ {0} : PartAt(q, r, j)
    BY <1>2, WalkedIs
  <2>3. \A n \in Nat \ {0} : NameAt(p, n) \in Nat /\ NameAt(q, n) \in Nat /\ NameAt(r, n) \in Nat
    BY NameAtIs
  <2>4. CASE i <= j
    <3>0. i \in Nat \ {0} /\ j \in Nat \ {0}
      OBVIOUS
    <3>1. NameAt(p, i) < NameAt(r, i)
      BY <2>1, <2>2, <2>3, <2>4, <3>0 DEF PartAt
    <3>2. \A n \in 1 .. i - 1 : NameAt(p, n) = NameAt(r, n)
      BY <2>1, <2>2, <2>4, <3>0 DEF PartAt
    <3>3. PartAt(p, r, i)
      BY <3>1, <3>2 DEF PartAt
    <3> QED
      BY <3>3, WalkedIs
  <2>5. CASE j < i
    <3>0. i \in Nat \ {0} /\ j \in Nat \ {0}
      OBVIOUS
    <3>1. NameAt(p, j) < NameAt(r, j)
      BY <2>1, <2>2, <2>3, <2>5, <3>0 DEF PartAt
    <3>2. \A n \in 1 .. j - 1 : NameAt(p, n) = NameAt(r, n)
      BY <2>1, <2>2, <2>5, <3>0 DEF PartAt
    <3>3. PartAt(p, r, j)
      BY <3>1, <3>2 DEF PartAt
    <3> QED
      BY <3>3, WalkedIs
  <2> QED
    BY <2>4, <2>5
<1>3. ASSUME NEW p \in AnyPath, NEW q \in AnyPath, p # q
      PROVE  WalkedBefore(p, q) \/ WalkedBefore(q, p)
  <2> DEFINE T == {i \in Nat \ {0} : NameAt(p, i) # NameAt(q, i)}
  <2>0. Len(p) \in Nat /\ Len(q) \in Nat
    BY NameAtIs
  <2>1. T # {}
    <3>1. SUFFICES ASSUME \A i \in Nat \ {0} : NameAt(p, i) = NameAt(q, i) PROVE FALSE
      BY Zenon
    <3>2. \A i \in Nat \ {0} : i <= Len(p) <=> i <= Len(q)
      BY <3>1, NameAtIs
    <3>3. Len(p) = Len(q)
      BY <2>0, <3>2
    <3>4. \A i \in 1 .. Len(p) : p[i] = q[i]
      BY <2>0, <3>1, <3>3, NameAtIs
    <3> QED
      BY <1>3, <3>3, <3>4, SamePath
  <2>2. T \subseteq Nat
    OBVIOUS
  <2>3. PICK i \in T : \A j \in T : i <= j
    BY <2>1, <2>2, LeastIs
  <2>4. i \in Nat \ {0} /\ NameAt(p, i) # NameAt(q, i)
    OBVIOUS
  <2>5. \A j \in 1 .. i - 1 : NameAt(p, j) = NameAt(q, j)
    <3> SUFFICES ASSUME NEW j \in 1 .. i - 1 PROVE NameAt(p, j) = NameAt(q, j)
      OBVIOUS
    <3>1. j \in Nat \ {0} /\ ~(i <= j)
      BY <2>4
    <3> QED
      BY <2>3, <3>1
  <2>6. NameAt(p, i) \in Nat /\ NameAt(q, i) \in Nat
    BY <2>4, NameAtIs
  <2>7. PartAt(p, q, i) \/ PartAt(q, p, i)
    BY <2>4, <2>5, <2>6 DEF PartAt
  <2>8. (\E n \in Nat \ {0} : PartAt(p, q, n)) \/ (\E n \in Nat \ {0} : PartAt(q, p, n))
    BY <2>4, <2>7, Zenon
  <2> QED
    BY <2>8, WalkedIs
<1>4. \A k \in AnyKey : k[1] \in Nat /\ k[2] \in AnyPath /\ k = <<k[1], k[2]>>
  <2>1. \A k \in Stores \X AnyPath : k[1] \in Stores /\ k[2] \in AnyPath /\ k = <<k[1], k[2]>>
    OBVIOUS
  <2>2. \A s \in Stores : s \in Nat
    BY StorageAssumption
  <2> QED
    BY <2>1, <2>2 DEF AnyKey
<1>5. \A k \in AnyKey : ~KeyBefore(k, k)
  BY <1>1, <1>4 DEF KeyBefore
<1>6. \A i, j, k \in AnyKey : KeyBefore(i, j) /\ KeyBefore(j, k) => KeyBefore(i, k)
  BY <1>2, <1>4 DEF KeyBefore
<1>7. \A j, k \in AnyKey : j = k \/ KeyBefore(j, k) \/ KeyBefore(k, j)
  BY <1>3, <1>4 DEF KeyBefore
<1> QED
  BY <1>5, <1>6, <1>7

\* Ranks number a finite set from 0, each of its keys once.
LEMMA RankIs ==
    ASSUME NEW K, K \subseteq AnyKey, IsFiniteSet(K)
    PROVE  /\ \A k \in K : Rank(K, k) \in Nat /\ Rank(K, k) < Cardinality(K)
           /\ \A j, k \in K : KeyBefore(j, k) => Rank(K, j) < Rank(K, k)
           /\ \A j, k \in K : Rank(K, j) = Rank(K, k) => j = k
<1> DEFINE Before(k) == {j \in K : KeyBefore(j, k)}
<1>0. Cardinality(K) \in Nat
  BY FS_CardinalityType
<1>1. ASSUME NEW S, NEW T, S \subseteq T, T \subseteq K, S # T
      PROVE  Cardinality(S) \in Nat /\ Cardinality(S) < Cardinality(T)
  <2>1. IsFiniteSet(T) /\ IsFiniteSet(S)
    BY <1>1, FS_Subset
  <2>2. Cardinality(T) \in Nat /\ Cardinality(S) \in Nat
    BY <2>1, FS_CardinalityType
  <2>3. Cardinality(S) <= Cardinality(T) /\ (Cardinality(S) = Cardinality(T) => S = T)
    BY <1>1, <2>1, FS_Subset
  <2> QED
    BY <1>1, <2>2, <2>3
<1>2. ASSUME NEW k \in K PROVE Rank(K, k) \in Nat /\ Rank(K, k) < Cardinality(K)
  <2>1. Before(k) \subseteq K /\ k \notin Before(k)
    BY KeyOrder
  <2>2. Cardinality(Before(k)) \in Nat /\ Cardinality(Before(k)) < Cardinality(K)
    BY <1>1, <2>1
  <2> QED
    BY <2>2 DEF Rank
<1>3. ASSUME NEW j \in K, NEW k \in K, KeyBefore(j, k) PROVE Rank(K, j) < Rank(K, k)
  <2>1. Before(j) \subseteq Before(k) /\ Before(k) \subseteq K
    BY <1>3, KeyOrder
  <2>2. j \in Before(k) /\ j \notin Before(j)
    BY <1>3, KeyOrder
  <2>3. Cardinality(Before(j)) < Cardinality(Before(k))
    BY <1>1, <2>1, <2>2
  <2> QED
    BY <2>3 DEF Rank
<1>4. ASSUME NEW j \in K, NEW k \in K, Rank(K, j) = Rank(K, k) PROVE j = k
  <2>1. j = k \/ KeyBefore(j, k) \/ KeyBefore(k, j)
    BY KeyOrder
  <2> QED
    BY <1>2, <1>3, <1>4, <2>1
<1> QED
  BY <1>2, <1>3, <1>4

\* Each rank is taken.
LEMMA RankTaken ==
    ASSUME NEW K, K \subseteq AnyKey, IsFiniteSet(K), NEW n \in 0 .. Cardinality(K) - 1
    PROVE  \E k \in K : Rank(K, k) = n
<1> DEFINE N == 0 .. Cardinality(K) - 1
           f == [k \in K |-> Rank(K, k)]
<1>1. Cardinality(K) \in Nat
  BY FS_CardinalityType
<1>2. IsFiniteSet(N) /\ Cardinality(N) = Cardinality(K)
  <2>1. 0 \in Int /\ Cardinality(K) - 1 \in Int
    BY <1>1
  <2>2. IsFiniteSet(N) /\ Cardinality(N) = IF 0 > Cardinality(K) - 1 THEN 0 ELSE Cardinality(K) - 1 - 0 + 1
    BY <2>1, FS_Interval
  <2> QED
    BY <1>1, <2>2
<1>3. f \in Injection(K, N)
  <2>1. f \in [K -> N]
    BY <1>1, RankIs
  <2>2. \A j, k \in K : f[j] = f[k] => j = k
    BY RankIs
  <2> QED
    BY <2>1, <2>2 DEF Injection, IsInjective
<1>4. f \in Surjection(K, N)
  BY <1>2, <1>3, FS_Injection
<1>5. \E k \in K : f[k] = n
  BY <1>4 DEF Surjection
<1> QED
  BY <1>5

-----------------------------------------------------------------------------
(* The stores.  Every operation is described by what is alive after it and *)
(* what is there: At.                                                      *)

Keys == Stores \X Paths
NodeMaps == UNION {[D -> Node] : D \in SUBSET Paths}
ObjectType == [si : Stores, path : Paths, dir : BOOLEAN]

StateType ==
    [fs : [Stores -> NodeMaps], handleOf : UNION {[K -> Nat] : K \in SUBSET Keys},
     objects : UNION {[H -> ObjectType] : H \in SUBSET Nat},
     next : Nat \ {0}, born : Nat, raised : BOOLEAN]

At(x, k) == x.fs[k[1]][k[2]]
Up(k)    == <<k[1], Front(k[2])>>

\* Each node lies in the root or in a directory, and has an id of its own.
FsInv(x) ==
    /\ x \in StateType
    /\ IsFiniteSet(Alive(x))
    /\ \A k \in Alive(x) : Front(k[2]) = Root \/ (Up(k) \in Alive(x) /\ At(x, Up(k)).dir)
    /\ \A k \in Alive(x) : At(x, k).id < x.born
    /\ \A j, k \in Alive(x) : At(x, j).id = At(x, k).id => j = k

LEMMA KeyIs ==
    /\ \A k \in Keys : k[1] \in Stores /\ k[2] \in Paths /\ k = <<k[1], k[2]>> /\ k \in AnyKey
    /\ \A s \in Stores : \A p \in Paths : <<s, p>> \in Keys
<1>1. \A k \in Keys : k[1] \in Stores /\ k[2] \in Paths /\ k = <<k[1], k[2]>>
  BY DEF Keys
<1>2. \A k \in Keys : <<k[1], k[2]>> \in AnyKey
  BY <1>1, PathIs DEF AnyKey
<1> QED
  BY <1>1, <1>2 DEF Keys

LEMMA MapIs ==
    /\ \A f \in NodeMaps : DOMAIN f \subseteq Paths /\ \A p \in DOMAIN f : f[p] \in Node
    /\ \A D \in SUBSET Paths : [D -> Node] \subseteq NodeMaps
  BY DEF NodeMaps

LEMMA AliveIs ==
    ASSUME NEW x \in StateType
    PROVE  /\ Alive(x) \subseteq Keys
           /\ \A s, p : <<s, p>> \in Alive(x) <=> s \in Stores /\ p \in DOMAIN x.fs[s]
           /\ \A k \in Alive(x) : /\ k[1] \in Stores /\ k[2] \in Paths /\ k = <<k[1], k[2]>>
                                  /\ k[2] \in DOMAIN x.fs[k[1]]
                                  /\ At(x, k) \in Node
           /\ \A s \in Stores : x.fs[s] \in NodeMaps
<1>1. \A s \in Stores : x.fs[s] \in NodeMaps
  BY DEF StateType
<1>2. \A s \in Stores : \A p \in DOMAIN x.fs[s] : p \in Paths /\ x.fs[s][p] \in Node
  BY <1>1, MapIs
<1>3. \A k : k \in Alive(x) <=> \E s \in Stores : \E p \in DOMAIN x.fs[s] : k = <<s, p>>
  BY DEF Alive, KeysOf
<1>4. \A s, p : <<s, p>> \in Alive(x) <=> s \in Stores /\ p \in DOMAIN x.fs[s]
  BY <1>3
<1>5. ASSUME NEW k \in Alive(x)
      PROVE  /\ k[1] \in Stores /\ k[2] \in Paths /\ k = <<k[1], k[2]>>
             /\ k[2] \in DOMAIN x.fs[k[1]] /\ At(x, k) \in Node /\ k \in Keys
  <2>1. PICK s \in Stores : \E p \in DOMAIN x.fs[s] : k = <<s, p>>
    BY <1>3, <1>5
  <2>2. PICK p \in DOMAIN x.fs[s] : k = <<s, p>>
    BY <2>1
  <2>3. k[1] = s /\ k[2] = p
    BY <2>2
  <2> QED
    BY <1>2, <2>2, <2>3, KeyIs DEF At
<1> QED
  BY <1>1, <1>4, <1>5

\* What the operators on a store say of a key.
LEMMA StoreIs ==
    ASSUME NEW x \in StateType, NEW s \in Stores, NEW p
    PROVE  /\ Exists(x, s, p) <=> <<s, p>> \in Alive(x)
           /\ IsDir(x, s, p) <=> p = Root \/ (<<s, p>> \in Alive(x) /\ At(x, <<s, p>>).dir)
           /\ IsFile(x, s, p) <=> <<s, p>> \in Alive(x) /\ ~At(x, <<s, p>>).dir
<1>1. <<s, p>> \in Alive(x) <=> p \in DOMAIN x.fs[s]
  BY AliveIs
<1>2. At(x, <<s, p>>) = x.fs[s][p]
  BY DEF At
<1> QED
  BY <1>1, <1>2 DEF Exists, IsDir, IsFile

\* The rest of a state is as it was.
SameBook(x, y) == y.handleOf = x.handleOf /\ y.objects = x.objects /\ y.next = x.next

LEMMA PutIs ==
    ASSUME NEW x \in StateType, NEW s \in Stores, NEW p \in Paths, NEW node \in Node
    PROVE  LET y == Put(x, s, p, node)
           IN  /\ y \in StateType /\ SameBook(x, y) /\ y.born = x.born /\ y.raised = x.raised
               /\ Alive(y) = Alive(x) \cup {<<s, p>>}
               /\ At(y, <<s, p>>) = node
               /\ \A k \in Alive(x) : k # <<s, p>> => At(y, k) = At(x, k)
<1> DEFINE y == Put(x, s, p, node)
           f == [q \in DOMAIN x.fs[s] \cup {p} |-> IF q = p THEN node ELSE x.fs[s][q]]
<1>1. x.fs[s] \in NodeMaps /\ x.fs \in [Stores -> NodeMaps]
  BY DEF StateType
<1>2. DOMAIN x.fs[s] \subseteq Paths /\ \A q \in DOMAIN x.fs[s] : x.fs[s][q] \in Node
  BY <1>1, MapIs
<1>3. f \in NodeMaps
  <2>1. DOMAIN x.fs[s] \cup {p} \in SUBSET Paths
    BY <1>2
  <2>2. f \in [DOMAIN x.fs[s] \cup {p} -> Node]
    BY <1>2
  <2> QED
    BY <2>1, <2>2, MapIs
<1>4. DOMAIN f = DOMAIN x.fs[s] \cup {p} /\ f[p] = node
      /\ \A q \in DOMAIN x.fs[s] : q # p => f[q] = x.fs[s][q]
  OBVIOUS
<1>5. y = [x EXCEPT !.fs = [x.fs EXCEPT ![s] = f]]
  BY DEF Put
<1> HIDE DEF f
<1> DEFINE g == [x.fs EXCEPT ![s] = f]
<1>6. g \in [Stores -> NodeMaps] /\ g[s] = f /\ \A t \in Stores : t # s => g[t] = x.fs[t]
  BY <1>1, <1>3
<1>7. y = [x EXCEPT !.fs = g]
  BY <1>5
<1> HIDE DEF g, y
<1>8. y \in StateType /\ y.fs = g /\ SameBook(x, y) /\ y.born = x.born /\ y.raised = x.raised
  BY <1>6, <1>7 DEF StateType, SameBook
<1>9. \A t \in Stores : \A q : <<t, q>> \in Alive(y) <=> <<t, q>> \in Alive(x) \/ (t = s /\ q = p)
  <2>1. \A t \in Stores : \A q : <<t, q>> \in Alive(y) <=> q \in DOMAIN g[t]
    BY <1>8, AliveIs
  <2>2. \A t \in Stores : \A q : <<t, q>> \in Alive(x) <=> q \in DOMAIN x.fs[t]
    BY AliveIs
  <2>3. \A t \in Stores : \A q : q \in DOMAIN g[t] <=> q \in DOMAIN x.fs[t] \/ (t = s /\ q = p)
    BY <1>4, <1>6
  <2> QED
    BY <2>1, <2>2, <2>3
<1>10. Alive(y) = Alive(x) \cup {<<s, p>>}
  <2>1. \A k \in Alive(y) : k \in Alive(x) \cup {<<s, p>>}
    BY <1>8, <1>9, AliveIs
  <2>2. \A k \in Alive(x) \cup {<<s, p>>} : k \in Alive(y)
    BY <1>8, <1>9, AliveIs
  <2> QED
    BY <2>1, <2>2
<1>11. At(y, <<s, p>>) = node
  BY <1>4, <1>6, <1>8 DEF At
<1>12. ASSUME NEW k \in Alive(x), k # <<s, p>> PROVE At(y, k) = At(x, k)
  <2>1. k[1] \in Stores /\ k[2] \in DOMAIN x.fs[k[1]] /\ (k[1] # s \/ k[2] # p)
    BY <1>12, AliveIs
  <2> QED
    BY <1>4, <1>6, <1>8, <2>1 DEF At
<1> QED
  BY <1>8, <1>10, <1>11, <1>12 DEF y

-----------------------------------------------------------------------------
(* Operations that add to the stores.                                      *)

\* What is there stays what it is, and what is new has a new id.
Grew(x, y) ==
    /\ FsInv(y) /\ SameBook(x, y) /\ x.born <= y.born
    /\ Alive(x) \subseteq Alive(y)
    /\ \A k \in Alive(x) : At(y, k).id = At(x, k).id /\ At(y, k).dir = At(x, k).dir
    /\ \A k \in Alive(y) : k \in Alive(x) \/ At(y, k).id >= x.born

\* Nothing but what is at s, p is touched.
Elsewhere(x, y, s, p) == \A k \in Alive(x) : k # <<s, p>> => At(y, k) = At(x, k)

LEMMA GrewSame == ASSUME NEW x, FsInv(x) PROVE Grew(x, x) /\ \A s, p : Elsewhere(x, x, s, p)
<1>1. x.born \in Nat
  BY DEF FsInv, StateType
<1> QED
  BY <1>1 DEF Grew, SameBook, Elsewhere

LEMMA GrewOn ==
    ASSUME NEW x, NEW y, NEW z, FsInv(x), Grew(x, y), Grew(y, z)
    PROVE  Grew(x, z)
<1>1. x.born \in Nat /\ y.born \in Nat /\ z.born \in Nat
  BY DEF Grew, FsInv, StateType
<1>2. FsInv(z) /\ SameBook(x, z) /\ x.born <= z.born /\ Alive(x) \subseteq Alive(z)
  BY <1>1 DEF Grew, SameBook
<1>3. \A k \in Alive(x) : At(z, k).id = At(x, k).id /\ At(z, k).dir = At(x, k).dir
  BY DEF Grew
<1>4. ASSUME NEW k \in Alive(z), k \notin Alive(x) PROVE At(z, k).id >= x.born
  <2>1. CASE k \in Alive(y)
    BY <1>4, <2>1 DEF Grew
  <2>2. CASE k \notin Alive(y)
    <3>1. At(z, k).id >= y.born
      BY <1>4, <2>2 DEF Grew
    <3>2. At(z, k).id \in Nat
      BY <1>2, AliveIs DEF FsInv, Node
    <3> QED
      BY <1>1, <3>1, <3>2 DEF Grew
  <2> QED
    BY <2>1, <2>2
<1> QED
  BY <1>2, <1>3, <1>4 DEF Grew

LEMMA RaiseIs ==
    ASSUME NEW x, FsInv(x), NEW b \in BOOLEAN
    PROVE  LET y == [x EXCEPT !.raised = b]
           IN  /\ Grew(x, y) /\ y.raised = b /\ y.born = x.born /\ y.fs = x.fs
               /\ Alive(y) = Alive(x) /\ \A k : At(y, k) = At(x, k)
<1> DEFINE y == [x EXCEPT !.raised = b]
<1>1. x \in StateType
  BY DEF FsInv
<1>2. /\ y \in StateType /\ y.fs = x.fs /\ SameBook(x, y) /\ y.born = x.born /\ y.raised = b
  BY <1>1 DEF StateType, SameBook
<1> HIDE DEF y
<1>3. Alive(y) = Alive(x) /\ \A k : At(y, k) = At(x, k)
  BY <1>2 DEF Alive, At
<1>4. FsInv(y) /\ x.born <= y.born
  <2>1. x.born \in Nat
    BY <1>1 DEF StateType
  <2> QED
    BY <1>2, <1>3, <2>1 DEF FsInv
<1> QED
  BY <1>2, <1>3, <1>4 DEF Grew, y

\* A new file or directory has its parent and the next id.
LEMMA NewIs ==
    ASSUME NEW x, FsInv(x), NEW s \in Stores, NEW p \in Paths, NEW dir \in BOOLEAN,
           NEW data \in Contents, ~Exists(x, s, p), IsDir(x, s, Front(p))
    PROVE  LET y == New(x, s, p, dir, data)
           IN  /\ Grew(x, y) /\ y.raised = x.raised /\ Alive(y) = Alive(x) \cup {<<s, p>>}
               /\ At(y, <<s, p>>).dir = dir /\ At(y, <<s, p>>).data = data
               /\ \A k \in Alive(x) : At(y, k) = At(x, k)
<1> DEFINE node == [dir |-> dir, data |-> data, id |-> x.born]
           w == Put(x, s, p, node)
           y == [w EXCEPT !.born = @ + 1]
<1>0. x \in StateType /\ x.born \in Nat /\ node \in Node
  BY DEF FsInv, StateType, Node
<1>00. node.dir = dir /\ node.data = data /\ node.id = x.born
  OBVIOUS
<1> HIDE DEF node
<1>1. /\ w \in StateType /\ SameBook(x, w) /\ w.born = x.born /\ w.raised = x.raised
      /\ Alive(w) = Alive(x) \cup {<<s, p>>} /\ At(w, <<s, p>>) = node
      /\ \A k \in Alive(x) : k # <<s, p>> => At(w, k) = At(x, k)
  BY <1>0, PutIs
<1> HIDE DEF w
<1>2. /\ y \in StateType /\ SameBook(x, y) /\ y.born = x.born + 1 /\ y.raised = x.raised
      /\ y.fs = w.fs
  BY <1>0, <1>1 DEF StateType, SameBook
<1>3. New(x, s, p, dir, data) = y
  BY DEF New, y, w, node
<1> HIDE DEF y
<1>4. Alive(y) = Alive(w) /\ \A k : At(y, k) = At(w, k)
  BY <1>2 DEF Alive, At
<1>5. <<s, p>> \notin Alive(x)
  BY <1>0, StoreIs
<1>6. /\ Alive(y) = Alive(x) \cup {<<s, p>>} /\ At(y, <<s, p>>) = node
      /\ \A k \in Alive(x) : At(y, k) = At(x, k)
  BY <1>1, <1>4, <1>5
<1>7. FsInv(y)
  <2>1. IsFiniteSet(Alive(y))
    BY <1>6, FS_AddElement DEF FsInv
  <2>2. ASSUME NEW k \in Alive(y)
        PROVE  Front(k[2]) = Root \/ (Up(k) \in Alive(y) /\ At(y, Up(k)).dir)
    <3>1. CASE k \in Alive(x)
      BY <1>6, <3>1 DEF FsInv
    <3>2. CASE k = <<s, p>>
      <4>1. Up(k) = <<s, Front(p)>> /\ k[2] = p
        BY <3>2 DEF Up
      <4>2. Front(p) = Root \/ (<<s, Front(p)>> \in Alive(x) /\ At(x, <<s, Front(p)>>).dir)
        BY <1>0, StoreIs
      <4> QED
        BY <1>6, <4>1, <4>2
    <3> QED
      BY <1>6, <3>1, <3>2
  <2>3. \A k \in Alive(x) : At(x, k).id < x.born /\ At(x, k).id \in Nat
    BY <1>0, AliveIs DEF FsInv, Node
  <2>4. \A k \in Alive(y) : At(y, k).id < y.born
    BY <1>0, <1>00, <1>2, <1>6, <2>3
  <2>5. \A j, k \in Alive(y) : At(y, j).id = At(y, k).id => j = k
    BY <1>0, <1>00, <1>6, <2>3 DEF FsInv
  <2> QED
    BY <1>2, <2>1, <2>2, <2>4, <2>5 DEF FsInv
<1>8. Grew(x, y)
  BY <1>0, <1>00, <1>2, <1>6, <1>7 DEF Grew
<1> QED
  BY <1>00, <1>2, <1>3, <1>6, <1>8

LEMMA WriteIs ==
    ASSUME NEW x, FsInv(x), NEW s \in Stores, NEW p \in Paths, NEW data \in Contents
    PROVE  LET y == Write(x, s, p, data)
           IN  /\ Grew(x, y) /\ Elsewhere(x, y, s, p)
               /\ x.raised => y.raised
               /\ y.raised \/ (/\ <<s, p>> \in Alive(y) /\ ~At(y, <<s, p>>).dir
                               /\ At(y, <<s, p>>).data = data)
<1> DEFINE y == Write(x, s, p, data)
           k0 == <<s, p>>
<1>0. x \in StateType
  BY DEF FsInv
<1>1. CASE IsFile(x, s, p)
  <2> DEFINE node == [x.fs[s][p] EXCEPT !.data = data]
             w == Put(x, s, p, node)
  <2>1. k0 \in Alive(x) /\ ~At(x, k0).dir /\ p \in DOMAIN x.fs[s] /\ x.fs[s] \in NodeMaps
    BY <1>0, <1>1, StoreIs, AliveIs
  <2>2. x.fs[s][p] \in Node /\ At(x, k0) = x.fs[s][p]
    BY <2>1, MapIs DEF At
  <2>3. /\ node \in Node /\ node.id = At(x, k0).id /\ node.dir = At(x, k0).dir
        /\ node.data = data
    BY <2>2 DEF Node
  <2>4. y = w
    <3> DEFINE f == [x.fs[s] EXCEPT ![p] = node]
               g == [q \in DOMAIN x.fs[s] \cup {p} |-> IF q = p THEN node ELSE x.fs[s][q]]
    <3>1. y = [x EXCEPT !.fs = [x.fs EXCEPT ![s] = f]]
      BY <1>1 DEF Write
    <3>2. w = [x EXCEPT !.fs = [x.fs EXCEPT ![s] = g]]
      BY DEF Put
    <3>3. f = g
      <4> HIDE DEF node
      <4>1. x.fs[s] = [q \in DOMAIN x.fs[s] |-> x.fs[s][q]]
        BY <2>1 DEF NodeMaps
      <4>2. DOMAIN x.fs[s] \cup {p} = DOMAIN x.fs[s]
        BY <2>1
      <4> QED
        BY <2>1, <4>1, <4>2
    <3> QED
      BY <3>1, <3>2, <3>3
  <2> HIDE DEF node, y
  <2>5. /\ w \in StateType /\ SameBook(x, w) /\ w.born = x.born /\ w.raised = x.raised
        /\ Alive(w) = Alive(x) \cup {k0} /\ At(w, k0) = node
        /\ \A k \in Alive(x) : k # k0 => At(w, k) = At(x, k)
    BY <1>0, <2>3, PutIs
  <2> HIDE DEF w
  <2>6. Alive(w) = Alive(x)
    BY <2>1, <2>5
  <2>7. \A k \in Alive(x) : At(w, k).id = At(x, k).id /\ At(w, k).dir = At(x, k).dir
    BY <2>3, <2>5
  <2>8. FsInv(w)
    <3>1. IsFiniteSet(Alive(w))
      BY <2>6 DEF FsInv
    <3>2. ASSUME NEW k \in Alive(w)
          PROVE  Front(k[2]) = Root \/ (Up(k) \in Alive(w) /\ At(w, Up(k)).dir)
      BY <2>6, <2>7 DEF FsInv
    <3>3. \A k \in Alive(w) : At(w, k).id < w.born
      BY <2>5, <2>6, <2>7 DEF FsInv
    <3>4. \A j, k \in Alive(w) : At(w, j).id = At(w, k).id => j = k
      BY <2>6, <2>7 DEF FsInv
    <3> QED
      BY <2>5, <3>1, <3>2, <3>3, <3>4 DEF FsInv
  <2>9. Grew(x, w)
    <3>1. x.born <= w.born
      BY <1>0, <2>5 DEF StateType
    <3> QED
      BY <2>5, <2>6, <2>7, <2>8, <3>1 DEF Grew
  <2>10. Elsewhere(x, w, s, p)
    BY <2>5 DEF Elsewhere
  <2> QED
    BY <2>1, <2>3, <2>4, <2>5, <2>9, <2>10 DEF y
<1>2. CASE ~IsFile(x, s, p) /\ ~Exists(x, s, p) /\ IsDir(x, s, Front(p))
  <2>0. PICK dir \in BOOLEAN : dir = FALSE
    OBVIOUS
  <2>1. y = New(x, s, p, dir, data)
    BY <1>2, <2>0 DEF Write
  <2> HIDE DEF y
  <2>2. /\ Grew(x, y) /\ y.raised = x.raised /\ Alive(y) = Alive(x) \cup {k0}
        /\ At(y, k0).dir = dir /\ At(y, k0).data = data
        /\ \A k \in Alive(x) : At(y, k) = At(x, k)
    BY <1>2, <2>1, NewIs
  <2> QED
    BY <2>0, <2>2 DEF Elsewhere, y
<1>3. CASE ~IsFile(x, s, p) /\ ~(~Exists(x, s, p) /\ IsDir(x, s, Front(p)))
  <2>1. y = [x EXCEPT !.raised = TRUE]
    BY <1>3 DEF Write, Raise
  <2> HIDE DEF y
  <2>2. Grew(x, y) /\ y.raised /\ \A k : At(y, k) = At(x, k)
    BY <2>1, RaiseIs
  <2> QED
    BY <2>2 DEF Elsewhere, y
<1> QED
  BY <1>1, <1>2, <1>3

LEMMA MkdirIs ==
    ASSUME NEW x, FsInv(x), NEW s \in Stores, NEW p \in Paths
    PROVE  LET y == Mkdir(x, s, p)
           IN  /\ Grew(x, y) /\ \A k \in Alive(x) : At(y, k) = At(x, k)
               /\ x.raised => y.raised
<1> DEFINE y == Mkdir(x, s, p)
<1>1. CASE IsDir(x, s, p)
  <2>1. y = x
    BY <1>1 DEF Mkdir
  <2> QED
    BY <2>1, GrewSame
<1>2. CASE ~IsDir(x, s, p) /\ ~Exists(x, s, p) /\ IsDir(x, s, Front(p))
  <2>0. PICK dir \in BOOLEAN : dir = TRUE
    OBVIOUS
  <2>00. PICK data \in Contents : data = "none"
    BY DEF Contents
  <2>1. y = New(x, s, p, dir, data)
    BY <1>2, <2>0, <2>00 DEF Mkdir
  <2> HIDE DEF y
  <2>2. /\ Grew(x, y) /\ y.raised = x.raised /\ Alive(y) = Alive(x) \cup {<<s, p>>}
        /\ At(y, <<s, p>>).dir = dir /\ At(y, <<s, p>>).data = data
        /\ \A k \in Alive(x) : At(y, k) = At(x, k)
    BY <1>2, <2>1, NewIs
  <2> QED
    BY <2>2 DEF y
<1>3. CASE ~IsDir(x, s, p) /\ ~(~Exists(x, s, p) /\ IsDir(x, s, Front(p)))
  <2>1. y = [x EXCEPT !.raised = TRUE]
    BY <1>3 DEF Mkdir, Raise
  <2> HIDE DEF y
  <2> QED
    BY <2>1, RaiseIs, ZenonT(40) DEF y
<1> QED
  BY <1>1, <1>2, <1>3

-----------------------------------------------------------------------------
(* The snapshot: handles number the paths, objects are the other way round.*)

\* Handles that have been given are apart.
HandlesInv(x) ==
    /\ \A k \in DOMAIN x.handleOf : x.handleOf[k] \in 1 .. x.next - 1
    /\ \A j, k \in DOMAIN x.handleOf : x.handleOf[j] = x.handleOf[k] => j = k

\* Each handle has its object, which says where it is and what it was.
ObjectsInv(x) ==
    /\ DOMAIN x.objects = {x.handleOf[k] : k \in DOMAIN x.handleOf}
    /\ \A k \in DOMAIN x.handleOf :
          /\ x.objects[x.handleOf[k]].si = k[1] /\ x.objects[x.handleOf[k]].path = k[2]
          /\ k \in Alive(x) /\ x.objects[x.handleOf[k]].dir = At(x, k).dir
          /\ Front(k[2]) = Root \/ (/\ Up(k) \in DOMAIN x.handleOf
                                    /\ x.objects[x.handleOf[Up(k)]].dir)

StoreInv(x) == FsInv(x) /\ HandlesInv(x) /\ ObjectsInv(x)

\* A snapshot outlives what is added to the stores behind it.
LEMMA GrewKeeps ==
    ASSUME NEW x, NEW y, StoreInv(x), Grew(x, y)
    PROVE  StoreInv(y)
<1>1. HandlesInv(y)
  BY DEF StoreInv, HandlesInv, Grew, SameBook
<1>2. ObjectsInv(y)
  <2>1. y.handleOf = x.handleOf /\ y.objects = x.objects
    BY DEF Grew, SameBook
  <2>2. \A k \in DOMAIN x.handleOf : k \in Alive(y) /\ At(y, k).dir = At(x, k).dir
    BY DEF StoreInv, ObjectsInv, Grew
  <2> QED
    BY <2>1, <2>2 DEF StoreInv, ObjectsInv
<1> QED
  BY <1>1, <1>2 DEF StoreInv, Grew

\* What an object says.
LEMMA ObjectIs ==
    ASSUME NEW x, StoreInv(x), NEW h \in DOMAIN x.objects
    PROVE  LET o == x.objects[h]
               k == <<o.si, o.path>>
           IN  /\ o.si \in Stores /\ o.path \in Paths /\ o.dir \in BOOLEAN
               /\ k \in DOMAIN x.handleOf /\ x.handleOf[k] = h
               /\ k \in Alive(x) /\ o.dir = At(x, k).dir
               /\ h \in 1 .. x.next - 1
<1>1. PICK k \in DOMAIN x.handleOf : h = x.handleOf[k]
  BY DEF StoreInv, ObjectsInv
<1>2. k \in Alive(x) /\ x.objects[h].si = k[1] /\ x.objects[h].path = k[2]
      /\ x.objects[h].dir = At(x, k).dir
  BY <1>1 DEF StoreInv, ObjectsInv
<1>3. k = <<k[1], k[2]>> /\ k[1] \in Stores /\ k[2] \in Paths /\ At(x, k).dir \in BOOLEAN
  BY <1>2, AliveIs DEF StoreInv, FsInv, Node
<1>4. h \in 1 .. x.next - 1
  BY <1>1 DEF StoreInv, HandlesInv
<1> QED
  BY <1>1, <1>2, <1>3, <1>4

-----------------------------------------------------------------------------
(* Copies.                                                                 *)

LEMMA BelowIs ==
    ASSUME NEW x, StoreInv(x), NEW s, NEW p
    PROVE  /\ Below(x, s, p) \subseteq DOMAIN x.handleOf
           /\ Below(x, s, p) \subseteq Keys /\ Below(x, s, p) \subseteq AnyKey
           /\ IsFiniteSet(Below(x, s, p))
<1>1. Below(x, s, p) \subseteq DOMAIN x.handleOf
  BY DEF Below
<1>2. DOMAIN x.handleOf \subseteq Alive(x)
  BY DEF StoreInv, ObjectsInv
<1>3. IsFiniteSet(Alive(x)) /\ Alive(x) \subseteq Keys
  BY AliveIs DEF StoreInv, FsInv
<1>4. IsFiniteSet(Below(x, s, p))
  BY <1>1, <1>2, <1>3, FS_Subset
<1> QED
  BY <1>1, <1>2, <1>3, <1>4, KeyIs

\* A copy goes through the objects of the tree, each in its turn.
CopyRun(x, h, s, new, f) ==
    LET o    == x.objects[h]
        tree == Below(x, o.si, o.path)
    IN  /\ f[0] = x
        /\ \A i \in 1 .. Cardinality(tree) : \E k \in tree :
              /\ Rank(tree, k) = i - 1
              /\ f[i] = CopyOne(x, f[i - 1], k, o.path, s, new)
        /\ CopyTree(x, h, s, new) = f[Cardinality(tree)]

LEMMA CopyRuns ==
    ASSUME NEW x, StoreInv(x), NEW h \in DOMAIN x.objects, NEW s, NEW new
    PROVE  \E f : CopyRun(x, h, s, new, f)
<1> DEFINE o == x.objects[h]
           tree == Below(x, o.si, o.path)
           n == Cardinality(tree)
           Nth(i) == CHOOSE k \in tree : Rank(tree, k) = i - 1
           Body(f, m) == [i \in 0 .. m |-> IF i = 0 THEN x
                                           ELSE CopyOne(x, f[i - 1], Nth(i), o.path, s, new)]
           g == CHOOSE f : f = Body(f, n)
<1>1. CopyTree(x, h, s, new) = g[n]
  BY DEF CopyTree
<1>2. tree \subseteq AnyKey /\ IsFiniteSet(tree) /\ n \in Nat
  BY BelowIs, FS_CardinalityType
<1>3. ASSUME NEW i \in 1 .. n PROVE Nth(i) \in tree /\ Rank(tree, Nth(i)) = i - 1
  <2>1. i - 1 \in 0 .. n - 1
    BY <1>2
  <2>2. \E k \in tree : Rank(tree, k) = i - 1
    BY <1>2, <2>1, RankTaken
  <2> QED
    BY <2>2
<1> HIDE DEF tree, n, Nth
<1> DEFINE Runs(m) == \E f : f = Body(f, m)
           No == {m \in 0 .. n : ~Runs(m)}
<1> HIDE DEF Runs
<1>4. No = {}
  <2> SUFFICES ASSUME No # {} PROVE FALSE
    OBVIOUS
  <2>1. No \subseteq Nat
    BY <1>2
  <2>2. PICK m \in No : \A l \in No : m <= l
    BY <2>1, LeastIs
  <2>3. m \in 0 .. n /\ m \in Nat /\ ~Runs(m)
    BY <1>2
  <2>4. CASE m = 0
    <3> DEFINE f == [i \in 0 .. 0 |-> x]
    <3>1. \A i \in 0 .. 0 : i = 0
      OBVIOUS
    <3>2. f = Body(f, 0)
      <4> HIDE DEF Nth
      <4>1. DOMAIN Body(f, 0) = 0 .. 0 /\ \A i \in 0 .. 0 : Body(f, 0)[i] = x
        BY <3>1
      <4> QED
        BY <4>1
    <3> HIDE DEF Body, f
    <3>3. Runs(0)
      BY <3>2, Zenon DEF Runs
    <3> QED
      BY <2>3, <2>4, <3>3
  <2>5. CASE m # 0
    <3>1. m - 1 \in 0 .. n /\ m - 1 \in Nat /\ ~(m <= m - 1)
      <4>1. n \in Nat /\ m \in 0 .. n /\ m # 0
        BY <1>2, <2>3, <2>5
      <4> HIDE DEF No
      <4> QED
        BY <4>1
    <3>2. m - 1 \notin No
      BY <2>2, <3>1
    <3>3. PICK f : f = Body(f, m - 1)
      BY <3>1, <3>2 DEF Runs
    <3> DEFINE e == [i \in 0 .. m |-> IF i = m THEN CopyOne(x, f[m - 1], Nth(m), o.path, s, new)
                                      ELSE f[i]]
    <3>4. \A i \in 0 .. m - 1 : i # m /\ e[i] = f[i] /\ i \in 0 .. m
      BY <2>3
    <3>5. \A i \in 0 .. m : i # 0 => i - 1 \in 0 .. m - 1 /\ e[i - 1] = f[i - 1]
      BY <2>3, <3>4
    <3>6. ASSUME NEW i \in 0 .. m PROVE e[i] = Body(e, m)[i]
      <4>1. CASE i = m
        BY <2>5, <3>5, <4>1
      <4>2. CASE i # m
        <5>1. i \in 0 .. m - 1 /\ e[i] = f[i]
          BY <2>3, <3>4, <4>2
        <5>2. f[i] = Body(f, m - 1)[i]
          BY <3>3
        <5> QED
          BY <3>5, <5>1, <5>2
      <4> QED
        BY <4>1, <4>2
    <3>7. e = Body(e, m)
      BY <3>6
    <3> QED
      BY <2>3, <3>7 DEF Runs
  <2> QED
    BY <2>4, <2>5
<1>5. \E f : f = Body(f, n)
  <2>1. n \in 0 .. n
    BY <1>2
  <2>2. Runs(n)
    BY <1>4, <2>1
  <2> QED
    BY <2>2 DEF Runs
<1>6. g = Body(g, n)
  BY <1>5
<1> HIDE DEF g
<1>7. g[0] = x
  BY <1>2, <1>6
<1>8. ASSUME NEW i \in 1 .. n
      PROVE  g[i] = CopyOne(x, g[i - 1], Nth(i), o.path, s, new)
  <2>1. i \in 0 .. n /\ i # 0
    BY <1>2
  <2>2. Body(g, n)[i] = CopyOne(x, g[i - 1], Nth(i), o.path, s, new)
    BY <2>1
  <2> QED
    BY <1>6, <2>2
<1>9. \A i \in 1 .. n : \E k \in tree :
        Rank(tree, k) = i - 1 /\ g[i] = CopyOne(x, g[i - 1], k, o.path, s, new)
  BY <1>3, <1>8
<1>10. CopyRun(x, h, s, new, g)
  BY <1>1, <1>7, <1>9 DEF CopyRun, n, tree
<1> QED
  BY <1>10

\* A copy of one object adds to what is there, and changes nothing but its place.
LEMMA CopyOneIs ==
    ASSUME NEW x, StoreInv(x), NEW cur, Grew(x, cur), NEW k \in DOMAIN x.handleOf,
           NEW old, NEW s \in Stores, NEW new, Moved(k[2], old, new) \in Paths
    PROVE  LET y  == CopyOne(x, cur, k, old, s, new)
               to == Moved(k[2], old, new)
           IN  /\ Grew(x, y) /\ Grew(cur, y) /\ Elsewhere(cur, y, s, to)
               /\ cur.raised => y.raised
               /\ \/ y.raised
                  \/ At(x, k).dir
                  \/ /\ <<s, to>> \in Alive(y) /\ ~At(y, <<s, to>>).dir
                     /\ At(y, <<s, to>>).data = At(cur, k).data
<1> DEFINE y == CopyOne(x, cur, k, old, s, new)
           to == Moved(k[2], old, new)
           data == At(cur, k).data
           there == <<s, to>> \in Alive(y) /\ ~At(y, <<s, to>>).dir
                    /\ At(y, <<s, to>>).data = data
<1>0. to \in Paths
  OBVIOUS
<1> HIDE DEF to
<1>1. /\ k \in Alive(x) /\ x.objects[x.handleOf[k]].dir = At(x, k).dir
      /\ FsInv(cur) /\ FsInv(x) /\ k \in Alive(cur)
  BY DEF StoreInv, ObjectsInv, Grew
<1>2. k[1] \in Stores /\ k = <<k[1], k[2]>> /\ At(cur, k) \in Node /\ At(cur, k) = cur.fs[k[1]][k[2]]
  BY <1>1, AliveIs DEF FsInv, At
<1>3. SUFFICES /\ Grew(cur, y) /\ Elsewhere(cur, y, s, to)
               /\ cur.raised => y.raised
               /\ y.raised \/ At(x, k).dir \/ there
  <2> HIDE DEF y
  <2> QED
    BY <1>1, <1>3, GrewOn DEF to, y
<1>4. CASE cur.raised
  <2>1. y = cur
    BY <1>4 DEF CopyOne
  <2> QED
    BY <1>1, <1>4, <2>1, GrewSame
<1>5. CASE ~cur.raised /\ At(x, k).dir
  <2>1. y = Mkdir(cur, s, to)
    BY <1>1, <1>5 DEF CopyOne, to
  <2>2. Grew(cur, y) /\ \A j \in Alive(cur) : At(y, j) = At(cur, j)
    BY <1>0, <1>1, <2>1, MkdirIs
  <2> QED
    BY <1>5, <2>2 DEF Elsewhere
<1>6. CASE ~cur.raised /\ ~At(x, k).dir /\ IsFile(cur, k[1], k[2])
  <2>1. y = Write(cur, s, to, data)
    BY <1>1, <1>2, <1>6 DEF CopyOne, to
  <2>2. data \in Contents
    BY <1>2 DEF Node
  <2> HIDE DEF y, data
  <2>3. /\ Grew(cur, y) /\ Elsewhere(cur, y, s, to)
        /\ y.raised \/ (/\ <<s, to>> \in Alive(y) /\ ~At(y, <<s, to>>).dir
                        /\ At(y, <<s, to>>).data = data)
    BY <1>0, <1>1, <2>1, <2>2, WriteIs
  <2> QED
    BY <1>6, <2>3
<1>7. CASE ~cur.raised /\ ~At(x, k).dir /\ ~IsFile(cur, k[1], k[2])
  <2>1. y = [cur EXCEPT !.raised = TRUE]
    BY <1>1, <1>7 DEF CopyOne, Raise
  <2> HIDE DEF y
  <2>2. Grew(cur, y) /\ y.raised /\ \A j : At(y, j) = At(cur, j)
    BY <1>1, <2>1, RaiseIs
  <2> QED
    BY <2>2 DEF Elsewhere
<1> QED
  BY <1>4, <1>5, <1>6, <1>7

\* The tree at h fits below new.
Fits(x, h, new) ==
    LET o == x.objects[h]
    IN  \A k \in Below(x, o.si, o.path) : Moved(k[2], o.path, new) \in Paths

\* The file at k has its copy, or the copying has failed.
HasCopy(x, y, k, old, s, new) ==
    LET l == <<s, Moved(k[2], old, new)>>
    IN  y.raised \/ (l \in Alive(y) /\ ~At(y, l).dir /\ At(y, l).data = At(x, k).data)

LEMMA CopyIs ==
    ASSUME NEW x, StoreInv(x), NEW h \in DOMAIN x.objects, NEW s \in Stores,
           NEW new \in AnyPath, Fits(x, h, new)
    PROVE  LET o == x.objects[h]
               y == CopyTree(x, h, s, new)
           IN  /\ Grew(x, y)
               /\ s # o.si => /\ \A k \in Alive(x) : k[1] # s => At(y, k) = At(x, k)
                              /\ \A k \in Below(x, o.si, o.path) :
                                    At(x, k).dir \/ HasCopy(x, y, k, o.path, s, new)
<1> DEFINE o == x.objects[h]
           tree == Below(x, o.si, o.path)
           n == Cardinality(tree)
           y == CopyTree(x, h, s, new)
           old == o.path
<1>1. PICK f : CopyRun(x, h, s, new, f)
  BY CopyRuns
<1>2. /\ f[0] = x
      /\ \A i \in 1 .. n : \E k \in tree :
              Rank(tree, k) = i - 1 /\ f[i] = CopyOne(x, f[i - 1], k, old, s, new)
      /\ y = f[n]
  BY <1>1 DEF CopyRun
<1>3. tree \subseteq AnyKey /\ IsFiniteSet(tree) /\ n \in Nat /\ tree \subseteq DOMAIN x.handleOf
  BY BelowIs, FS_CardinalityType
<1>4. \A k \in tree : k[1] = o.si /\ Under(old, k[2]) /\ Moved(k[2], old, new) \in Paths
  BY DEF Fits, Below
<1>5. old \in AnyPath /\ \A k \in tree : k[2] \in AnyPath /\ k = <<k[1], k[2]>> /\ k \in Alive(x)
  <2>1. old \in AnyPath
    BY ObjectIs, PathIs
  <2>2. \A k \in tree : k \in Alive(x)
    BY <1>3 DEF StoreInv, ObjectsInv
  <2> QED
    BY <1>3, <2>1, <2>2, AliveIs, PathIs DEF StoreInv, FsInv
\* Different objects have different copies.
<1>6. ASSUME NEW j \in tree, NEW k \in tree, Moved(j[2], old, new) = Moved(k[2], old, new)
      PROVE  j = k
  <2>1. Moved(Moved(j[2], old, new), new, old) = j[2]
    BY <1>4, <1>5, MovedUnder
  <2>2. Moved(Moved(k[2], old, new), new, old) = k[2]
    BY <1>4, <1>5, MovedUnder
  <2>3. j[2] = k[2] /\ j[1] = k[1]
    BY <1>4, <1>6, <2>1, <2>2
  <2> QED
    BY <1>5, <2>3
<1> DEFINE Apart(i) == \A k \in Alive(x) : k[1] # s => At(f[i], k) = At(x, k)
           Up2(i) == \A k \in tree : Rank(tree, k) < i => At(x, k).dir \/ HasCopy(x, f[i], k, old, s, new)
           Good(i) == Grew(x, f[i]) /\ (s # o.si => Apart(i) /\ Up2(i))
<1>7. Good(0)
  <2>1. Grew(x, x)
    BY GrewSame DEF StoreInv
  <2>2. \A k \in tree : ~(Rank(tree, k) < 0)
    BY <1>3, RankIs
  <2> QED
    BY <1>2, <2>1, <2>2
<1>8. ASSUME NEW i \in 1 .. n, Good(i - 1) PROVE Good(i)
  <2>0. i \in Nat /\ i - 1 \in Nat
    BY <1>3
  <2>1. PICK k \in tree : Rank(tree, k) = i - 1 /\ f[i] = CopyOne(x, f[i - 1], k, old, s, new)
    BY <1>2
  <2> DEFINE to == Moved(k[2], old, new)
             cur == f[i - 1]
             z == f[i]
  <2>2. /\ Grew(x, z) /\ Grew(cur, z) /\ Elsewhere(cur, z, s, to) /\ (cur.raised => z.raised)
        /\ \/ z.raised
           \/ At(x, k).dir
           \/ /\ <<s, to>> \in Alive(z) /\ ~At(z, <<s, to>>).dir
              /\ At(z, <<s, to>>).data = At(cur, k).data
    <3>1. k \in DOMAIN x.handleOf /\ to \in Paths /\ Grew(x, cur)
      BY <1>3, <1>4, <1>8
    <3> HIDE DEF to, tree
    <3>2. z = CopyOne(x, cur, k, old, s, new)
      BY <2>1
    <3> HIDE DEF cur, z, old
    <3> QED
      BY <3>1, <3>2, CopyOneIs DEF to
  <2>3. Alive(x) \subseteq Alive(cur) /\ Alive(cur) \subseteq Alive(z)
    <3> HIDE DEF cur, z
    <3>1. Grew(x, cur)
      BY <1>8 DEF cur
    <3> QED
      BY <2>2, <3>1 DEF Grew
  <2>4. ASSUME s # o.si PROVE Apart(i)
    <3> SUFFICES ASSUME NEW j \in Alive(x), j[1] # s PROVE At(z, j) = At(x, j)
      OBVIOUS
    <3>1. At(cur, j) = At(x, j)
      BY <1>8, <2>4
    <3>2. j \in Alive(cur) /\ j # <<s, to>>
      BY <2>3
    <3> QED
      BY <2>2, <3>1, <3>2 DEF Elsewhere
  <2>5. ASSUME s # o.si PROVE Up2(i)
    <3> SUFFICES ASSUME NEW j \in tree, Rank(tree, j) < i, ~At(x, j).dir, ~z.raised
                 PROVE  HasCopy(x, z, j, old, s, new)
      BY DEF HasCopy
    <3> DEFINE l == <<s, Moved(j[2], old, new)>>
    <3>1. CASE j = k
      <4>1. At(cur, k) = At(x, k)
        BY <1>4, <1>5, <1>8, <2>5
      <4> QED
        BY <2>2, <3>1, <4>1 DEF HasCopy
    <3>2. CASE j # k
      <4>1. Rank(tree, j) < i - 1
        <5>1. Rank(tree, j) # i - 1 /\ Rank(tree, j) \in Nat
          BY <1>3, <2>1, <3>2, RankIs
        <5> QED
          BY <2>0, <5>1
      <4>2. HasCopy(x, cur, j, old, s, new)
        BY <1>8, <2>5, <4>1
      <4>3. ~cur.raised
        BY <2>2
      <4>4. l \in Alive(cur) /\ ~At(cur, l).dir /\ At(cur, l).data = At(x, j).data
        BY <4>2, <4>3 DEF HasCopy
      <4>5. Moved(j[2], old, new) # to
        BY <1>6, <3>2
      <4>6. At(z, l) = At(cur, l)
        <5>1. l # <<s, to>>
          BY <4>5
        <5> QED
          BY <2>2, <4>4, <5>1 DEF Elsewhere
      <4>7. l \in Alive(z)
        BY <2>3, <4>4
      <4> QED
        BY <4>4, <4>6, <4>7 DEF HasCopy
    <3> QED
      BY <3>1, <3>2
  <2> QED
    BY <2>2, <2>4, <2>5
<1> HIDE DEF Good
<1> DEFINE No == {i \in 0 .. n : ~Good(i)}
<1>9. No = {}
  <2> SUFFICES ASSUME No # {} PROVE FALSE
    OBVIOUS
  <2>1. No \subseteq Nat
    BY <1>3
  <2>2. PICK i \in No : \A l \in No : i <= l
    BY <2>1, LeastIs
  <2>3. i \in 0 .. n /\ i \in Nat /\ ~Good(i) /\ i # 0
    BY <1>3, <1>7
  <2>4. i - 1 \in 0 .. n /\ ~(i <= i - 1) /\ i \in 1 .. n
    <3> HIDE DEF No
    <3> QED
      BY <1>3, <2>3
  <2>5. i - 1 \notin No
    BY <2>2, <2>4
  <2>6. Good(i - 1)
    BY <2>4, <2>5
  <2> QED
    BY <1>8, <2>3, <2>4, <2>6
<1>10. Good(n)
  <2>1. n \in 0 .. n
    BY <1>3
  <2> QED
    BY <1>9, <2>1
<1>11. \A k \in tree : Rank(tree, k) < n
  BY <1>3, RankIs
<1> QED
  BY <1>2, <1>10, <1>11 DEF Good

-----------------------------------------------------------------------------
(* Removals and renames.                                                   *)

\* A state with another tree in a store.
LEMMA TreeSwapped ==
    ASSUME NEW x \in StateType, NEW s \in Stores, NEW f \in NodeMaps
    PROVE  LET y == [x EXCEPT !.fs[s] = f]
           IN  /\ y \in StateType /\ SameBook(x, y) /\ y.born = x.born /\ y.raised = x.raised
               /\ y.fs[s] = f
               /\ \A k : <<k[1], k[2]>> = k /\ k[1] \in Stores /\ k[1] # s =>
                     (k \in Alive(y) <=> k \in Alive(x)) /\ At(y, k) = At(x, k)
<1> DEFINE g == [x.fs EXCEPT ![s] = f]
           y == [x EXCEPT !.fs = g]
<1>1. x.fs \in [Stores -> NodeMaps]
  BY DEF StateType
<1>2. g \in [Stores -> NodeMaps] /\ g[s] = f /\ \A t \in Stores : t # s => g[t] = x.fs[t]
  BY <1>1
<1> HIDE DEF g
<1>3. y \in StateType /\ y.fs = g /\ SameBook(x, y) /\ y.born = x.born /\ y.raised = x.raised
  BY <1>2 DEF StateType, SameBook
<1>4. [x EXCEPT !.fs[s] = f] = y
  BY DEF y, g
<1> HIDE DEF y
<1>5. ASSUME NEW k, <<k[1], k[2]>> = k, k[1] \in Stores, k[1] # s
      PROVE  (k \in Alive(y) <=> k \in Alive(x)) /\ At(y, k) = At(x, k)
  <2>1. y.fs[k[1]] = x.fs[k[1]]
    BY <1>2, <1>3, <1>5
  <2>2. <<k[1], k[2]>> \in Alive(y) <=> k[2] \in DOMAIN y.fs[k[1]]
    BY <1>3, <1>5, AliveIs
  <2>3. <<k[1], k[2]>> \in Alive(x) <=> k[2] \in DOMAIN x.fs[k[1]]
    BY <1>5, AliveIs
  <2> QED
    BY <1>5, <2>1, <2>2, <2>3 DEF At
<1> QED
  BY <1>2, <1>3, <1>4, <1>5

LEMMA RemovedIs ==
    ASSUME NEW x, FsInv(x), NEW s \in Stores, NEW p \in AnyPath
    PROVE  LET y == Removed(x, s, p)
           IN  /\ FsInv(y) /\ SameBook(x, y) /\ y.born = x.born /\ y.raised = x.raised
               /\ \A k \in Alive(x) : k[1] # s \/ ~Under(p, k[2]) => k \in Alive(y)
               /\ \A k \in Alive(y) : /\ k \in Alive(x) /\ At(y, k) = At(x, k)
                                      /\ k[1] # s \/ ~Under(p, k[2])
<1> DEFINE f == [q \in {r \in DOMAIN x.fs[s] : ~Under(p, r)} |-> x.fs[s][q]]
           y == Removed(x, s, p)
<1>0. x \in StateType
  BY DEF FsInv
<1>1. x.fs[s] \in NodeMaps /\ DOMAIN x.fs[s] \subseteq Paths
      /\ \A q \in DOMAIN x.fs[s] : x.fs[s][q] \in Node
  BY <1>0, AliveIs, MapIs
<1>2. f \in NodeMaps
  <2>1. {r \in DOMAIN x.fs[s] : ~Under(p, r)} \in SUBSET Paths
    BY <1>1
  <2>2. f \in [{r \in DOMAIN x.fs[s] : ~Under(p, r)} -> Node]
    BY <1>1
  <2> QED
    BY <2>1, <2>2, MapIs
<1>3. DOMAIN f = {r \in DOMAIN x.fs[s] : ~Under(p, r)} /\ \A q \in DOMAIN f : f[q] = x.fs[s][q]
  OBVIOUS
<1>4. y = [x EXCEPT !.fs[s] = f]
  BY DEF Removed
<1> HIDE DEF f, y
<1>5. /\ y \in StateType /\ SameBook(x, y) /\ y.born = x.born /\ y.raised = x.raised
      /\ y.fs[s] = f
      /\ \A k : <<k[1], k[2]>> = k /\ k[1] \in Stores /\ k[1] # s =>
            (k \in Alive(y) <=> k \in Alive(x)) /\ At(y, k) = At(x, k)
  BY <1>0, <1>2, <1>4, TreeSwapped
<1>6. \A k \in Alive(x) \cup Alive(y) : k[1] \in Stores /\ k[2] \in Paths /\ k = <<k[1], k[2]>>
  BY <1>0, <1>5, AliveIs
<1>7. \A q : /\ <<s, q>> \in Alive(y) <=> q \in DOMAIN f
             /\ <<s, q>> \in Alive(x) <=> q \in DOMAIN x.fs[s]
             /\ q \in DOMAIN f => At(y, <<s, q>>) = At(x, <<s, q>>)
  BY <1>0, <1>3, <1>5, AliveIs DEF At
<1>8. ASSUME NEW k \in Alive(x), k[1] # s \/ ~Under(p, k[2]) PROVE k \in Alive(y)
  <2>1. CASE k[1] # s
    BY <1>5, <1>6, <2>1
  <2>2. CASE k[1] = s
    BY <1>3, <1>6, <1>7, <1>8, <2>2
  <2> QED
    BY <2>1, <2>2
<1>9. ASSUME NEW k \in Alive(y)
      PROVE  k \in Alive(x) /\ At(y, k) = At(x, k) /\ (k[1] # s \/ ~Under(p, k[2]))
  <2>1. CASE k[1] # s
    BY <1>5, <1>6, <2>1
  <2>2. CASE k[1] = s
    BY <1>3, <1>6, <1>7, <2>2
  <2> QED
    BY <2>1, <2>2
<1>10. FsInv(y)
  <2>1. IsFiniteSet(Alive(y))
    <3>1. Alive(y) \subseteq Alive(x)
      BY <1>9
    <3> QED
      BY <3>1, FS_Subset DEF FsInv
  <2>2. ASSUME NEW k \in Alive(y)
        PROVE  Front(k[2]) = Root \/ (Up(k) \in Alive(y) /\ At(y, Up(k)).dir)
    <3>1. k \in Alive(x)
      BY <1>9
    <3>2. CASE Front(k[2]) # Root
      <4>1. Up(k) \in Alive(x) /\ At(x, Up(k)).dir
        BY <3>1, <3>2 DEF FsInv
      <4>2. Up(k)[1] = k[1] /\ Up(k)[2] = Front(k[2])
        BY DEF Up
      <4>3. k[2] \in AnyPath /\ k[2] # Root
        BY <1>6, PathIs
      <4>4. Under(p, Front(k[2])) => Under(p, k[2])
        BY <4>3, UnderFront
      <4>5. Up(k) \in Alive(y)
        BY <1>8, <1>9, <4>1, <4>2, <4>4
      <4> QED
        BY <1>9, <4>1, <4>5
    <3> QED
      BY <3>2
  <2>3. \A k \in Alive(y) : At(y, k).id < y.born
    BY <1>5, <1>9 DEF FsInv
  <2>4. \A j, k \in Alive(y) : At(y, j).id = At(y, k).id => j = k
    BY <1>9 DEF FsInv
  <2> QED
    BY <1>5, <2>1, <2>2, <2>3, <2>4 DEF FsInv
<1> QED
  BY <1>5, <1>8, <1>9, <1>10 DEF y

\* What a rename leaves where it is, and what it moves, and where to.
Stays(k, s, old, new) == k[1] # s \/ (~Under(old, k[2]) /\ k[2] # new)
Goes(k, s, old)       == k[1] = s /\ Under(old, k[2])
Land(k, s, old, new)  == <<s, Moved(k[2], old, new)>>

\* Where a path may be renamed to, and all below it fits.
Renames(x, s, old, new) ==
    /\ FsInv(x) /\ s \in Stores /\ old \in Paths /\ new \in Paths /\ old # new
    /\ MayRename(x, s, old, new)
    /\ \A k \in Alive(x) : Goes(k, s, old) => Moved(k[2], old, new) \in Paths

\* Nothing but what is overwritten lies at or below the new path.
LEMMA NewIsFree ==
    ASSUME NEW x, NEW s, NEW old, NEW new, Renames(x, s, old, new),
           NEW k \in Alive(x), k[1] = s, Under(new, k[2])
    PROVE  k[2] = new
<1>1. x \in StateType /\ s \in Stores /\ new \in AnyPath /\ new # Root
  BY PathIs DEF Renames, FsInv
<1> DEFINE D == DOMAIN x.fs[s]
<1>2. D \subseteq AnyPath /\ k[2] \in D
  BY <1>1, AliveIs, MapIs, PathIs
<1>3. \A p \in D : Front(p) = Root \/ Front(p) \in D
  <2> SUFFICES ASSUME NEW p \in D PROVE Front(p) = Root \/ Front(p) \in D
    OBVIOUS
  <2>1. <<s, p>> \in Alive(x)
    BY <1>1, AliveIs
  <2>2. Front(p) = Root \/ <<s, Front(p)>> \in Alive(x)
    BY <2>1 DEF Renames, FsInv, Up
  <2> QED
    BY <1>1, <2>2, AliveIs
<1>4. new \in D
  <2> HIDE DEF D
  <2> QED
    BY <1>1, <1>2, <1>3, TreeClosed
<1>5. ~IsStrictPrefix(new, k[2])
  BY <1>2, <1>4 DEF Renames, MayRename, Exists
<1> QED
  BY <1>5 DEF IsStrictPrefix, Under

LEMMA RenamedMap ==
    ASSUME NEW x, NEW s, NEW old, NEW new, Renames(x, s, old, new)
    PROVE  LET y == Renamed(x, s, old, new)
           IN  /\ y \in StateType /\ SameBook(x, y) /\ y.born = x.born /\ y.raised = x.raised
               /\ \A k \in Alive(x) : Stays(k, s, old, new) => k \in Alive(y) /\ At(y, k) = At(x, k)
               /\ \A k \in Alive(x) : Goes(k, s, old) =>
                     /\ Land(k, s, old, new) \in Alive(y)
                     /\ At(y, Land(k, s, old, new)) = At(x, k)
               /\ \A l \in Alive(y) :
                     \/ l \in Alive(x) /\ Stays(l, s, old, new)
                     \/ \E k \in Alive(x) : Goes(k, s, old) /\ l = Land(k, s, old, new)
<1> DEFINE was  == DOMAIN x.fs[s]
           kept == {q \in was : ~Under(old, q) /\ q # new}
           now  == {Moved(q, old, new) : q \in {r \in was : Under(old, r)}}
           f == [q \in kept \cup now |-> IF q \in now THEN x.fs[s][Moved(q, new, old)]
                                                      ELSE x.fs[s][q]]
           y == Renamed(x, s, old, new)
<1>1. x \in StateType /\ s \in Stores /\ old \in AnyPath /\ new \in AnyPath
  BY PathIs DEF Renames, FsInv
<1>2. was \subseteq Paths /\ was \subseteq AnyPath /\ \A q \in was : x.fs[s][q] \in Node
  BY <1>1, AliveIs, MapIs, PathIs
<1>3. \A q : q \in was <=> <<s, q>> \in Alive(x)
  BY <1>1, AliveIs
<1>4. ASSUME NEW q \in was, Under(old, q)
      PROVE  Moved(q, old, new) \in Paths /\ Moved(Moved(q, old, new), new, old) = q
             /\ Under(new, Moved(q, old, new))
  <2>1. <<s, q>> \in Alive(x) /\ Goes(<<s, q>>, s, old)
    BY <1>3, <1>4 DEF Goes
  <2>2. Moved(q, old, new) \in Paths
    BY <2>1 DEF Renames
  <2> QED
    BY <1>1, <1>2, <1>4, <2>2, MovedUnder
<1>5. \A q \in was : ~Under(old, q) /\ q # new => ~Under(new, q)
  <2> SUFFICES ASSUME NEW q \in was, Under(new, q), q # new PROVE FALSE
    OBVIOUS
  <2>1. <<s, q>> \in Alive(x)
    BY <1>3
  <2> QED
    BY <2>1, NewIsFree
<1>6. \A q \in now : q \in Paths /\ Moved(q, new, old) \in was /\ Under(new, q)
  BY <1>4
<1>7. kept \cap now = {}
  BY <1>5, <1>6
<1> HIDE DEF was
<1>8. kept \subseteq was /\ \A q : q \in kept <=> q \in was /\ ~Under(old, q) /\ q # new
  OBVIOUS
<1>9. \A q \in was : Under(old, q) => Moved(q, old, new) \in now
  OBVIOUS
<1>10. \A l \in now : \E q \in was : Under(old, q) /\ l = Moved(q, old, new)
  OBVIOUS
<1> HIDE DEF kept, now
<1>11. DOMAIN f = kept \cup now /\ (\A q \in kept : f[q] = x.fs[s][q])
       /\ (\A q \in now : f[q] = x.fs[s][Moved(q, new, old)])
  BY <1>7
<1>12. f \in NodeMaps
  <2>1. kept \cup now \in SUBSET Paths
    BY <1>2, <1>6, <1>8
  <2>2. f \in [kept \cup now -> Node]
    BY <1>2, <1>6, <1>8
  <2> QED
    BY <2>1, <2>2, MapIs
<1>13. y = [x EXCEPT !.fs[s] = f]
  BY DEF Renamed, was, kept, now
<1> HIDE DEF f, y
<1>14. /\ y \in StateType /\ SameBook(x, y) /\ y.born = x.born /\ y.raised = x.raised
       /\ y.fs[s] = f
       /\ \A k : <<k[1], k[2]>> = k /\ k[1] \in Stores /\ k[1] # s =>
             (k \in Alive(y) <=> k \in Alive(x)) /\ At(y, k) = At(x, k)
  BY <1>1, <1>12, <1>13, TreeSwapped
<1>15. \A k \in Alive(x) \cup Alive(y) : k[1] \in Stores /\ k[2] \in Paths /\ k = <<k[1], k[2]>>
  BY <1>1, <1>14, AliveIs
<1>16. \A q : <<s, q>> \in Alive(y) <=> q \in kept \cup now
  BY <1>1, <1>11, <1>14, AliveIs
<1>17. \A q : At(y, <<s, q>>) = f[q] /\ At(x, <<s, q>>) = x.fs[s][q]
  BY <1>14 DEF At
<1>18. ASSUME NEW k \in Alive(x), Stays(k, s, old, new) PROVE k \in Alive(y) /\ At(y, k) = At(x, k)
  <2>1. CASE k[1] # s
    BY <1>14, <1>15, <2>1
  <2>2. CASE k[1] = s
    <3>1. k = <<s, k[2]>> /\ k[2] \in kept
      BY <1>3, <1>8, <1>15, <1>18, <2>2 DEF Stays
    <3> QED
      BY <1>11, <1>16, <1>17, <3>1
  <2> QED
    BY <2>1, <2>2
<1>19. ASSUME NEW k \in Alive(x), Goes(k, s, old)
       PROVE  /\ Land(k, s, old, new) \in Alive(y)
              /\ At(y, Land(k, s, old, new)) = At(x, k)
  <2>1. k = <<s, k[2]>> /\ k[2] \in was /\ Under(old, k[2])
    BY <1>3, <1>15, <1>19 DEF Goes
  <2> DEFINE m == Moved(k[2], old, new)
  <2>2. m \in now /\ Moved(m, new, old) = k[2]
    BY <1>4, <1>9, <2>1
  <2> HIDE DEF m
  <2>3. f[m] = x.fs[s][k[2]] /\ At(y, <<s, m>>) = f[m] /\ <<s, m>> \in Alive(y)
    BY <1>11, <1>16, <1>17, <2>2
  <2>4. At(x, k) = x.fs[s][k[2]]
    BY <1>17, <2>1
  <2> QED
    BY <2>3, <2>4 DEF Land, m
<1>20. ASSUME NEW l \in Alive(y)
       PROVE  \/ l \in Alive(x) /\ Stays(l, s, old, new)
              \/ \E k \in Alive(x) : Goes(k, s, old) /\ l = Land(k, s, old, new)
  <2>1. CASE l[1] # s
    BY <1>14, <1>15, <2>1 DEF Stays
  <2>2. CASE l[1] = s
    <3>1. l = <<s, l[2]>> /\ l[2] \in kept \cup now
      BY <1>15, <1>16, <2>2
    <3>2. CASE l[2] \in kept
      BY <1>3, <1>8, <3>1, <3>2 DEF Stays
    <3>3. CASE l[2] \in now
      <4>1. PICK q \in was : Under(old, q) /\ l[2] = Moved(q, old, new)
        BY <1>10, <3>3
      <4>2. <<s, q>> \in Alive(x) /\ Goes(<<s, q>>, s, old) /\ l = Land(<<s, q>>, s, old, new)
        BY <1>3, <3>1, <4>1 DEF Goes, Land
      <4> QED
        BY <4>2
    <3> QED
      BY <3>1, <3>2, <3>3
  <2> QED
    BY <2>1, <2>2
<1> QED
  BY <1>14, <1>18, <1>19, <1>20 DEF y

\* Where a node of the renamed store comes from.
From(k, l, s, old, new) ==
    \/ Stays(k, s, old, new) /\ l = k
    \/ Goes(k, s, old) /\ l = Land(k, s, old, new)

\* It comes from one, and goes to one.
LEMMA FromIs ==
    ASSUME NEW x, NEW s, NEW old, NEW new, Renames(x, s, old, new)
    PROVE  LET y == Renamed(x, s, old, new)
           IN  /\ \A l \in Alive(y) : \E k \in Alive(x) : From(k, l, s, old, new)
               /\ \A k \in Alive(x) : \A l : From(k, l, s, old, new) => l \in Alive(y) /\ At(y, l) = At(x, k)
               /\ \A j, k \in Alive(x) : \A l :
                     From(j, l, s, old, new) /\ From(k, l, s, old, new) => j = k
               /\ \A k \in Alive(x) : \A l, m :
                     From(k, l, s, old, new) /\ From(k, m, s, old, new) => l = m
               /\ IsFiniteSet(Alive(y))
<1> DEFINE y == Renamed(x, s, old, new)
<1>1. /\ \A k \in Alive(x) : Stays(k, s, old, new) => k \in Alive(y) /\ At(y, k) = At(x, k)
      /\ \A k \in Alive(x) : Goes(k, s, old) =>
            /\ Land(k, s, old, new) \in Alive(y)
            /\ At(y, Land(k, s, old, new)) = At(x, k)
      /\ \A l \in Alive(y) :
            \/ l \in Alive(x) /\ Stays(l, s, old, new)
            \/ \E k \in Alive(x) : Goes(k, s, old) /\ l = Land(k, s, old, new)
  BY RenamedMap
<1> HIDE DEF y
<1>2. \A l \in Alive(y) : \E k \in Alive(x) : From(k, l, s, old, new)
  BY <1>1 DEF From
<1>3. \A k \in Alive(x) : \A l : From(k, l, s, old, new) => l \in Alive(y) /\ At(y, l) = At(x, k)
  BY <1>1 DEF From
<1>4. x \in StateType /\ old \in AnyPath /\ new \in AnyPath
  BY PathIs DEF Renames, FsInv
<1>5. \A k \in Alive(x) : k[2] \in AnyPath /\ k = <<k[1], k[2]>>
  BY <1>4, AliveIs, PathIs
<1>6. ASSUME NEW j \in Alive(x), NEW k \in Alive(x), NEW l, From(j, l, s, old, new), From(k, l, s, old, new)
      PROVE  j = k
  <2>1. \A i \in Alive(x) : Goes(i, s, old) =>
            /\ Moved(Moved(i[2], old, new), new, old) = i[2] /\ Under(new, Moved(i[2], old, new))
            /\ Land(i, s, old, new)[1] = s /\ Land(i, s, old, new)[2] = Moved(i[2], old, new)
    BY <1>4, <1>5, MovedUnder DEF Goes, Land
  <2>2. CASE Goes(j, s, old) /\ Goes(k, s, old) /\ Land(j, s, old, new) = Land(k, s, old, new)
    BY <1>5, <2>1, <2>2 DEF Goes
  <2>3. ASSUME NEW a \in Alive(x), NEW b \in Alive(x), Stays(a, s, old, new), Goes(b, s, old),
               a = Land(b, s, old, new)
        PROVE  FALSE
    <3>1. a[1] = s /\ Under(new, a[2])
      BY <2>1, <2>3
    <3>2. a[2] = new
      BY <3>1, NewIsFree
    <3> QED
      BY <2>3, <3>1, <3>2 DEF Stays
  <2> QED
    BY <1>6, <2>2, <2>3 DEF From
<1>7. \A k \in Alive(x) : \A l, m : From(k, l, s, old, new) /\ From(k, m, s, old, new) => l = m
  BY DEF From, Stays, Goes
<1>8. IsFiniteSet(Alive(y))
  <2> DEFINE f == [l \in Alive(y) |-> CHOOSE k \in Alive(x) : From(k, l, s, old, new)]
  <2>1. \A l \in Alive(y) : f[l] \in Alive(x) /\ From(f[l], l, s, old, new)
    BY <1>2
  <2>2. f \in [Alive(y) -> Alive(x)] /\ \A l, m \in Alive(y) : f[l] = f[m] => l = m
    BY <1>7, <2>1
  <2> HIDE DEF f
  <2>3. f \in Injection(Alive(y), Alive(x))
    BY <2>2 DEF Injection, IsInjective
  <2> QED
    BY <2>3, FS_Injection DEF Renames, FsInv
<1> QED
  BY <1>2, <1>3, <1>6, <1>7, <1>8 DEF y

\* What lies in a directory goes with it; all that stays is where it was.
LEMMA FromUp ==
    ASSUME NEW x, NEW s, NEW old, NEW new, Renames(x, s, old, new),
           NEW k \in Alive(x), NEW l, From(k, l, s, old, new), Front(l[2]) # Root
    PROVE  \E j \in Alive(x) : /\ At(x, j).dir /\ From(j, Up(l), s, old, new)
                               /\ j = Up(k) \/ k = <<s, old>>
<1>1. /\ x \in StateType /\ s \in Stores /\ old \in AnyPath /\ new \in AnyPath
      /\ old # Root /\ new # Root /\ old # new
  BY PathIs DEF Renames, FsInv
<1>2. k[2] \in AnyPath /\ k[2] # Root /\ k = <<k[1], k[2]>>
  BY <1>1, AliveIs, PathIs
<1>3. Up(k)[1] = k[1] /\ Up(k)[2] = Front(k[2])
  BY DEF Up
<1>4. /\ Under(Front(k[2]), k[2]) /\ Front(k[2]) # k[2]
      /\ Under(old, k[2]) /\ old # k[2] => Under(old, Front(k[2]))
      /\ Under(old, Front(k[2])) => Under(old, k[2]) /\ old # k[2]
  BY <1>1, <1>2, UnderFront
<1>5. Front(k[2]) # Root => Up(k) \in Alive(x) /\ At(x, Up(k)).dir
  BY DEF Renames, FsInv
<1>6. CASE Stays(k, s, old, new) /\ l = k
  <2>1. Up(k) \in Alive(x) /\ At(x, Up(k)).dir
    BY <1>5, <1>6
  <2>2. k[1] = s => Front(k[2]) # new
    <3> SUFFICES ASSUME k[1] = s, Front(k[2]) = new PROVE FALSE
      OBVIOUS
    <3>1. k[2] = new
      BY <1>4, NewIsFree
    <3> QED
      BY <1>4, <3>1
  <2>3. Stays(Up(k), s, old, new)
    BY <1>3, <1>4, <1>6, <2>2 DEF Stays
  <2> QED
    BY <1>6, <2>1, <2>3 DEF From
<1>7. CASE k = <<s, old>> /\ l = Land(k, s, old, new)
  <2>0. k[2] = old /\ Under(old, old)
    BY <1>1, <1>7, UnderOrder
  <2>1. l = <<s, new>> /\ l[1] = s /\ l[2] = new
    BY <1>1, <1>7, <2>0, MovedUnder DEF Land
  <2> DEFINE j == <<s, Front(new)>>
  <2>2. j \in Alive(x) /\ At(x, j).dir
    BY <1>1, <2>1, StoreIs DEF Renames, MayRename
  <2>3. ~Under(old, Front(new)) /\ Front(new) # new
    <3>1. Under(old, Front(new)) => Under(old, new)
      BY <1>1, UnderFront
    <3>2. ~IsStrictPrefix(old, new)
      BY DEF Renames, MayRename
    <3> QED
      BY <1>1, <3>1, <3>2, UnderFront DEF IsStrictPrefix, Under
  <2>4. Stays(j, s, old, new) /\ Up(l) = j
    BY <2>1, <2>3 DEF Stays, Up
  <2> QED
    BY <1>7, <2>2, <2>4 DEF From
<1>8. CASE Goes(k, s, old) /\ k # <<s, old>> /\ l = Land(k, s, old, new)
  <2>1. k[1] = s /\ Under(old, k[2]) /\ k[2] # old
    BY <1>2, <1>8 DEF Goes
  <2>2. Front(k[2]) # Root
    <3>1. Under(old, Front(k[2]))
      BY <1>4, <2>1
    <3>2. Front(k[2]) = Root => Front(k[2]) \in AnyPath /\ Under(Root, old)
      BY <1>1, <1>2, FrontIs, UnderOrder
    <3> QED
      BY <1>1, <3>1, <3>2, UnderOrder
  <2>3. Up(k) \in Alive(x) /\ At(x, Up(k)).dir /\ Goes(Up(k), s, old)
    BY <1>3, <1>4, <1>5, <2>1, <2>2 DEF Goes
  <2>4. l[1] = s /\ l[2] = Moved(k[2], old, new)
    BY <1>8 DEF Land
  <2>5. Up(l) = Land(Up(k), s, old, new)
    BY <1>1, <1>2, <1>3, <2>1, <2>4, MovedFront DEF Up, Land
  <2> QED
    BY <2>3, <2>5 DEF From
<1> QED
  BY <1>2, <1>6, <1>7, <1>8 DEF From

LEMMA RenamedIs ==
    ASSUME NEW x, NEW s, NEW old, NEW new, Renames(x, s, old, new)
    PROVE  FsInv(Renamed(x, s, old, new))
<1> DEFINE y == Renamed(x, s, old, new)
<1>1. y \in StateType /\ y.born = x.born
  BY RenamedMap
<1>2. /\ \A l \in Alive(y) : \E k \in Alive(x) : From(k, l, s, old, new)
      /\ \A k \in Alive(x) : \A l : From(k, l, s, old, new) => l \in Alive(y) /\ At(y, l) = At(x, k)
      /\ \A k \in Alive(x) : \A l, m : From(k, l, s, old, new) /\ From(k, m, s, old, new) => l = m
      /\ IsFiniteSet(Alive(y))
  BY FromIs
<1> HIDE DEF y
<1>3. ASSUME NEW l \in Alive(y)
      PROVE  Front(l[2]) = Root \/ (Up(l) \in Alive(y) /\ At(y, Up(l)).dir)
  <2> SUFFICES ASSUME Front(l[2]) # Root PROVE Up(l) \in Alive(y) /\ At(y, Up(l)).dir
    OBVIOUS
  <2>1. PICK k \in Alive(x) : From(k, l, s, old, new)
    BY <1>2
  <2>2. PICK j \in Alive(x) : At(x, j).dir /\ From(j, Up(l), s, old, new)
    BY <2>1, FromUp
  <2> QED
    BY <1>2, <2>2
<1>4. ASSUME NEW l \in Alive(y) PROVE At(y, l).id < y.born
  <2>1. PICK k \in Alive(x) : From(k, l, s, old, new)
    BY <1>2
  <2> QED
    BY <1>1, <1>2, <2>1 DEF Renames, FsInv
<1>5. ASSUME NEW l \in Alive(y), NEW m \in Alive(y), At(y, l).id = At(y, m).id PROVE l = m
  <2>1. PICK j \in Alive(x) : From(j, l, s, old, new)
    BY <1>2
  <2>2. PICK k \in Alive(x) : From(k, m, s, old, new)
    BY <1>2
  <2>3. j = k
    BY <1>2, <1>5, <2>1, <2>2 DEF Renames, FsInv
  <2> QED
    BY <1>2, <2>1, <2>2, <2>3
<1>6. FsInv(y)
  BY <1>1, <1>2, <1>3, <1>4, <1>5 DEF FsInv
<1> QED
  BY <1>6 DEF y

-----------------------------------------------------------------------------
(* A rescan.                                                               *)

\* Paths that have a handle keep it, new ones get new ones, and the objects
\* are what is in the stores.
LEMMA RescanIs ==
    ASSUME NEW w, FsInv(w), HandlesInv(w)
    PROVE  LET y == Rescan(w)
           IN  /\ StoreInv(y) /\ y.fs = w.fs /\ y.born = w.born /\ y.raised = w.raised
               /\ w.next <= y.next
               /\ DOMAIN y.handleOf = Alive(y) /\ Alive(y) = Alive(w) /\ \A k : At(y, k) = At(w, k)
               /\ \A k \in Alive(w) : IF k \in DOMAIN w.handleOf
                                      THEN y.handleOf[k] = w.handleOf[k]
                                      ELSE y.handleOf[k] >= w.next
<1> DEFINE fresh == Alive(w) \ DOMAIN w.handleOf
           given == [k \in Alive(w) |-> IF k \in fresh THEN HandleFor(w, Rank(fresh, k))
                                                       ELSE w.handleOf[k]]
           KeyWith(h) == CHOOSE k \in Alive(w) : given[k] = h
           ObjectOf(h) == [si |-> KeyWith(h)[1], path |-> KeyWith(h)[2],
                           dir |-> w.fs[KeyWith(h)[1]][KeyWith(h)[2]].dir]
           objects == [h \in {given[k] : k \in Alive(w)} |-> ObjectOf(h)]
           next == w.next + Cardinality(fresh)
           y == Rescan(w)
<1>1. y = [w EXCEPT !.handleOf = given, !.objects = objects, !.next = next]
  BY DEF Rescan, ForgetHandles
<1>2. w \in StateType /\ w.next \in Nat \ {0} /\ IsFiniteSet(Alive(w)) /\ Alive(w) \subseteq Keys
  BY AliveIs DEF FsInv, StateType
<1>3. /\ fresh \subseteq AnyKey /\ IsFiniteSet(fresh) /\ Cardinality(fresh) \in Nat
      /\ \A k : k \in fresh <=> k \in Alive(w) /\ k \notin DOMAIN w.handleOf
  <2>1. fresh \subseteq Alive(w) /\ fresh \subseteq AnyKey
    BY <1>2, KeyIs
  <2> QED
    BY <1>2, <2>1, FS_Subset, FS_CardinalityType
<1>4. next \in Nat \ {0} /\ w.next <= next
  BY <1>2, <1>3
<1>5. /\ \A k \in fresh : given[k] = w.next + Rank(fresh, k)
      /\ \A k \in Alive(w) : k \notin fresh => given[k] = w.handleOf[k] /\ k \in DOMAIN w.handleOf
  BY <1>3 DEF HandleFor
<1>6. DOMAIN given = Alive(w)
  OBVIOUS
<1> HIDE DEF given, fresh
<1>7. \A k \in fresh : given[k] \in Nat /\ w.next <= given[k] /\ given[k] < next
  BY <1>2, <1>3, <1>5, RankIs
<1>8. \A k \in Alive(w) : k \notin fresh => given[k] \in 1 .. w.next - 1
  BY <1>5 DEF HandlesInv
<1>9. \A k \in Alive(w) : given[k] \in 1 .. next - 1
  BY <1>2, <1>4, <1>7, <1>8
<1>10. ASSUME NEW j \in Alive(w), NEW k \in Alive(w), given[j] = given[k] PROVE j = k
  <2>1. CASE j \in fresh /\ k \in fresh
    <3>1. Rank(fresh, j) \in Nat /\ Rank(fresh, k) \in Nat
      BY <1>3, <2>1, RankIs
    <3>2. Rank(fresh, j) = Rank(fresh, k)
      BY <1>2, <1>5, <1>10, <2>1, <3>1
    <3> QED
      BY <1>3, <2>1, <3>2, RankIs
  <2>2. CASE j \notin fresh /\ k \notin fresh
    BY <1>5, <1>10, <2>2 DEF HandlesInv
  <2>3. CASE j \in fresh /\ k \notin fresh
    BY <1>2, <1>7, <1>8, <1>10, <2>3
  <2>4. CASE j \notin fresh /\ k \in fresh
    BY <1>2, <1>7, <1>8, <1>10, <2>4
  <2> QED
    BY <2>1, <2>2, <2>3, <2>4
<1>11. \A k \in Alive(w) : KeyWith(given[k]) = k
  BY <1>10
<1> HIDE DEF KeyWith
<1>12. /\ DOMAIN objects = {given[k] : k \in Alive(w)}
       /\ \A k \in Alive(w) : objects[given[k]] = [si |-> k[1], path |-> k[2], dir |-> At(w, k).dir]
       /\ objects = [h \in DOMAIN objects |-> objects[h]]
  BY <1>11 DEF At
<1> HIDE DEF ObjectOf, objects
<1>13. objects \in UNION {[H -> ObjectType] : H \in SUBSET Nat}
  <2> DEFINE H == {given[k] : k \in Alive(w)}
  <2>1. H \in SUBSET Nat
    BY <1>4, <1>9
  <2>2. ASSUME NEW h \in H PROVE objects[h] \in ObjectType
    <3>1. PICK k \in Alive(w) : h = given[k]
      OBVIOUS
    <3>2. k[1] \in Stores /\ k[2] \in Paths /\ At(w, k).dir \in BOOLEAN
      BY <1>2, AliveIs DEF Node
    <3>3. objects[h] = [si |-> k[1], path |-> k[2], dir |-> At(w, k).dir]
      BY <1>12, <3>1
    <3> QED
      BY <3>2, <3>3 DEF ObjectType
  <2>3. objects \in [H -> ObjectType]
    BY <1>12, <2>2
  <2> HIDE DEF H
  <2> QED
    BY <2>1, <2>3
<1>14. given \in UNION {[K -> Nat] : K \in SUBSET Keys}
  <2>1. given = [k \in Alive(w) |-> given[k]]
    BY DEF given
  <2>2. given \in [Alive(w) -> Nat]
    BY <1>4, <1>9, <2>1
  <2> QED
    BY <1>2, <2>2
<1> HIDE DEF next, y
<1>15. /\ y \in StateType /\ y.fs = w.fs /\ y.born = w.born /\ y.raised = w.raised
       /\ y.handleOf = given /\ y.objects = objects /\ y.next = next
  BY <1>1, <1>2, <1>4, <1>13, <1>14 DEF StateType
<1>16. Alive(y) = Alive(w) /\ \A k : At(y, k) = At(w, k)
  BY <1>15 DEF Alive, At
<1>17. FsInv(y)
  BY <1>15, <1>16 DEF FsInv
<1>18. HandlesInv(y)
  BY <1>6, <1>9, <1>10, <1>15 DEF HandlesInv
<1>19. ObjectsInv(y)
  <2>1. \A k \in Alive(w) : /\ objects[given[k]].si = k[1] /\ objects[given[k]].path = k[2]
                            /\ objects[given[k]].dir = At(w, k).dir
    <3> SUFFICES ASSUME NEW k \in Alive(w)
                 PROVE  /\ objects[given[k]].si = k[1] /\ objects[given[k]].path = k[2]
                        /\ objects[given[k]].dir = At(w, k).dir
      OBVIOUS
    <3>1. objects[given[k]] = [si |-> k[1], path |-> k[2], dir |-> At(w, k).dir]
      BY <1>12
    <3> QED
      BY <3>1
  <2>2. \A k \in Alive(w) : Front(k[2]) = Root \/ (Up(k) \in Alive(w) /\ objects[given[Up(k)]].dir)
    BY <2>1 DEF FsInv
  <2> QED
    BY <1>6, <1>12, <1>15, <1>16, <2>1, <2>2 DEF ObjectsInv
<1>20. \A k \in Alive(w) : IF k \in DOMAIN w.handleOf THEN y.handleOf[k] = w.handleOf[k]
                                                    ELSE y.handleOf[k] >= w.next
  BY <1>3, <1>5, <1>7, <1>15
<1> QED
  BY <1>4, <1>6, <1>15, <1>16, <1>17, <1>18, <1>19, <1>20 DEF StoreInv, y

-----------------------------------------------------------------------------
(* Handles are stable.                                                     *)

\* What a handle named it names, as long as it is there; new handles are new.
Stable(x, y) ==
    /\ x.next <= y.next /\ x.born <= y.born
    /\ \A h \in Named(x) : /\ Identity(x, h) \in Ids(y) => h \in Named(y)
                           /\ h \in Named(y) => Identity(y, h) = Identity(x, h)
    /\ \A h \in DOMAIN y.objects : h \in DOMAIN x.objects \/ h >= x.next

\* The node at l was at k, under the handle it has.
Was(x, w, k, l) ==
    /\ At(w, l).id = At(x, k).id
    /\ l \in DOMAIN w.handleOf <=> k \in DOMAIN x.handleOf
    /\ k \in DOMAIN x.handleOf => w.handleOf[l] = x.handleOf[k]

\* w, of which a rescan makes the next snapshot after x: what is there was
\* there, under the same handle, or is new and has none.
Carried(x, w) ==
    /\ FsInv(w) /\ HandlesInv(w) /\ w.next = x.next /\ x.born <= w.born
    /\ \A l \in Alive(w) : \/ \E k \in Alive(x) : Was(x, w, k, l)
                           \/ At(w, l).id >= x.born /\ l \notin DOMAIN w.handleOf

\* With a snapshot that is in order, handles name what their keys do.
LEMMA NamedIs ==
    ASSUME NEW x, StoreInv(x)
    PROVE  /\ Named(x) = DOMAIN x.objects
           /\ \A h \in Named(x) : \E k \in DOMAIN x.handleOf : x.handleOf[k] = h
           /\ \A k \in DOMAIN x.handleOf : /\ x.handleOf[k] \in Named(x) /\ k \in Alive(x)
                                           /\ Identity(x, x.handleOf[k]) = At(x, k).id
           /\ \A i : i \in Ids(x) <=> \E k \in Alive(x) : i = At(x, k).id
<1>1. x \in StateType
  BY DEF StoreInv, FsInv
<1>2. ASSUME NEW k \in DOMAIN x.handleOf
      PROVE  /\ x.handleOf[k] \in Named(x) /\ k \in Alive(x)
             /\ Identity(x, x.handleOf[k]) = At(x, k).id
  <2>1. /\ x.handleOf[k] \in DOMAIN x.objects /\ k \in Alive(x)
        /\ x.objects[x.handleOf[k]].si = k[1] /\ x.objects[x.handleOf[k]].path = k[2]
    BY DEF StoreInv, ObjectsInv
  <2>2. k[2] \in DOMAIN x.fs[k[1]]
    BY <1>1, <2>1, AliveIs
  <2> QED
    BY <2>1, <2>2 DEF Named, Identity, At, Exists
<1>3. \A h \in DOMAIN x.objects : \E k \in DOMAIN x.handleOf : x.handleOf[k] = h
  BY DEF StoreInv, ObjectsInv
<1>4. Named(x) = DOMAIN x.objects
  BY <1>2, <1>3 DEF Named
<1>5. ASSUME NEW i PROVE i \in Ids(x) <=> \E k \in Alive(x) : i = At(x, k).id
  <2>1. i \in Ids(x) <=> \E s \in Stores : \E p \in DOMAIN x.fs[s] : i = x.fs[s][p].id
    BY DEF Ids
  <2>2. ASSUME NEW s \in Stores, NEW p \in DOMAIN x.fs[s]
        PROVE  <<s, p>> \in Alive(x) /\ At(x, <<s, p>>) = x.fs[s][p]
    BY <1>1, AliveIs DEF At
  <2>3. \A k \in Alive(x) : k[1] \in Stores /\ k[2] \in DOMAIN x.fs[k[1]]
    BY <1>1, AliveIs
  <2> QED
    BY <2>1, <2>2, <2>3 DEF At
<1> QED
  BY <1>2, <1>3, <1>4, <1>5

LEMMA CarriedStable ==
    ASSUME NEW x, StoreInv(x), NEW w, Carried(x, w)
    PROVE  LET y == Rescan(w)
           IN  StoreInv(y) /\ DOMAIN y.handleOf = Alive(y) /\ y.raised = w.raised /\ Stable(x, y)
<1> DEFINE y == Rescan(w)
<1>1. /\ StoreInv(y) /\ y.born = w.born /\ y.raised = w.raised /\ w.next <= y.next
      /\ DOMAIN y.handleOf = Alive(y) /\ Alive(y) = Alive(w) /\ \A k : At(y, k) = At(w, k)
      /\ \A k \in Alive(w) : IF k \in DOMAIN w.handleOf THEN y.handleOf[k] = w.handleOf[k]
                                                       ELSE y.handleOf[k] >= w.next
  BY RescanIs DEF Carried
<1> HIDE DEF y
<1>2. /\ w.next = x.next /\ x.born <= w.born /\ x.next \in Nat /\ x.born \in Nat
      /\ \A k \in Alive(x) : At(x, k).id < x.born /\ At(x, k).id \in Nat
      /\ \A k \in DOMAIN x.handleOf : x.handleOf[k] \in Nat /\ x.handleOf[k] < x.next /\ k \in Alive(x)
  <2>1. x \in StateType
    BY DEF StoreInv, FsInv
  <2>2. \A k \in Alive(x) : At(x, k).id \in Nat
    BY <2>1, AliveIs DEF Node
  <2> QED
    BY <2>1, <2>2 DEF StoreInv, FsInv, HandlesInv, ObjectsInv, Carried, StateType
<1>3. /\ DOMAIN x.objects = Named(x)
      /\ \A h \in Named(x) : \E k \in DOMAIN x.handleOf : x.handleOf[k] = h
      /\ \A k \in DOMAIN x.handleOf : x.handleOf[k] \in Named(x) /\ Identity(x, x.handleOf[k]) = At(x, k).id
  BY NamedIs
<1>4. /\ DOMAIN y.objects = Named(y)
      /\ \A h \in Named(y) : \E k \in DOMAIN y.handleOf : y.handleOf[k] = h
      /\ \A k \in DOMAIN y.handleOf : y.handleOf[k] \in Named(y) /\ Identity(y, y.handleOf[k]) = At(y, k).id
      /\ \A i : i \in Ids(y) <=> \E k \in Alive(y) : i = At(y, k).id
  BY <1>1, NamedIs
\* A handle of the new snapshot that is not new was there before.
<1>5. ASSUME NEW l \in Alive(w), y.handleOf[l] < x.next
      PROVE  \E k \in DOMAIN x.handleOf : x.handleOf[k] = y.handleOf[l] /\ At(x, k).id = At(y, l).id
  <2>1. l \in DOMAIN w.handleOf /\ y.handleOf[l] = w.handleOf[l]
    <3>1. y.handleOf[l] \in Nat
      BY <1>1 DEF StoreInv, HandlesInv
    <3> QED
      BY <1>1, <1>2, <1>5, <3>1
  <2>2. PICK k \in Alive(x) : Was(x, w, k, l)
    BY <2>1 DEF Carried
  <2> QED
    BY <1>1, <2>1, <2>2 DEF Was
<1>6. ASSUME NEW h \in Named(x) 
      PROVE  /\ Identity(x, h) \in Ids(y) => h \in Named(y)
             /\ h \in Named(y) => Identity(y, h) = Identity(x, h)
  <2>1. PICK k \in DOMAIN x.handleOf : x.handleOf[k] = h
    BY <1>3
  <2>2. Identity(x, h) = At(x, k).id /\ k \in Alive(x) /\ h < x.next
    BY <1>2, <1>3, <2>1
  <2>3. ASSUME Identity(x, h) \in Ids(y) PROVE h \in Named(y)
    <3>1. PICK l \in Alive(w) : At(w, l).id = At(x, k).id
      BY <1>1, <1>4, <2>2, <2>3
    <3>2. PICK j \in Alive(x) : Was(x, w, j, l)
      BY <1>2, <2>2, <3>1 DEF Carried
    <3>3. j = k
      BY <2>2, <3>1, <3>2 DEF Was, StoreInv, FsInv
    <3>4. l \in DOMAIN w.handleOf /\ w.handleOf[l] = h
      BY <2>1, <3>2, <3>3 DEF Was
    <3>5. y.handleOf[l] = h /\ l \in DOMAIN y.handleOf
      BY <1>1, <3>4
    <3> QED
      BY <1>4, <3>5
  <2>4. ASSUME h \in Named(y) PROVE Identity(y, h) = Identity(x, h)
    <3>1. PICK l \in DOMAIN y.handleOf : y.handleOf[l] = h
      BY <1>4, <2>4
    <3>2. PICK j \in DOMAIN x.handleOf : x.handleOf[j] = h /\ At(x, j).id = At(y, l).id
      BY <1>1, <1>5, <2>2, <3>1
    <3>3. j = k
      BY <2>1, <3>2 DEF StoreInv, HandlesInv
    <3> QED
      BY <1>4, <2>2, <3>1, <3>2, <3>3
  <2> QED
    BY <2>3, <2>4
<1>7. ASSUME NEW h \in DOMAIN y.objects PROVE h \in DOMAIN x.objects \/ h >= x.next
  <2>1. PICK l \in DOMAIN y.handleOf : y.handleOf[l] = h
    BY <1>4
  <2>2. CASE h < x.next
    <3>1. PICK k \in DOMAIN x.handleOf : x.handleOf[k] = h
      BY <1>1, <1>5, <2>1, <2>2
    <3> QED
      BY <1>3, <3>1
  <2>3. h \in Nat
    BY <1>1, <2>1 DEF StoreInv, HandlesInv
  <2> QED
    BY <1>2, <2>2, <2>3
<1>8. x.next <= y.next /\ x.born <= y.born
  BY <1>1, <1>2
<1> QED
  BY <1>1, <1>6, <1>7, <1>8 DEF Stable, y

LEMMA GrewCarried ==
    ASSUME NEW x, NEW w, StoreInv(x), Grew(x, w)
    PROVE  Carried(x, w)
<1>1. FsInv(w) /\ SameBook(x, w) /\ x.born <= w.born
  BY DEF Grew
<1>2. HandlesInv(w)
  BY GrewKeeps DEF StoreInv
<1>3. ASSUME NEW l \in Alive(w)
      PROVE  (\E k \in Alive(x) : Was(x, w, k, l)) \/ (At(w, l).id >= x.born /\ l \notin DOMAIN w.handleOf)
  <2>1. CASE l \in Alive(x)
    <3>1. Was(x, w, l, l)
      BY <1>1, <2>1 DEF Was, Grew, SameBook
    <3> QED
      BY <2>1, <3>1
  <2>2. CASE l \notin Alive(x)
    BY <1>1, <2>2 DEF Grew, SameBook, StoreInv, ObjectsInv
  <2> QED
    BY <2>1, <2>2
<1> QED
  BY <1>1, <1>2, <1>3 DEF Carried, SameBook

\* Removing something, after a copy or without one.
LEMMA RemovedCarried ==
    ASSUME NEW x, NEW c, StoreInv(x), Grew(x, c), NEW s \in Stores, NEW p \in AnyPath
    PROVE  Carried(x, Removed(c, s, p)) /\ Removed(c, s, p).raised = c.raised
<1> DEFINE w == Removed(c, s, p)
<1>0. FsInv(c)
  BY DEF Grew
<1>1. /\ FsInv(w) /\ SameBook(c, w) /\ w.born = c.born /\ w.raised = c.raised
      /\ \A k \in Alive(w) : k \in Alive(c) /\ At(w, k) = At(c, k)
  BY <1>0, RemovedIs
<1> HIDE DEF w
<1>2. Carried(x, c)
  BY GrewCarried
<1>3. HandlesInv(w)
  BY <1>1, <1>2 DEF Carried, HandlesInv, SameBook
<1>4. ASSUME NEW l \in Alive(w)
      PROVE  (\E k \in Alive(x) : Was(x, w, k, l)) \/ (At(w, l).id >= x.born /\ l \notin DOMAIN w.handleOf)
  <2>1. l \in Alive(c) /\ At(w, l) = At(c, l) /\ w.handleOf = c.handleOf
    BY <1>1 DEF SameBook
  <2> QED
    BY <1>2, <2>1 DEF Carried, Was
<1> QED
  BY <1>1, <1>2, <1>3, <1>4 DEF Carried, SameBook, w

\* The handles move with their objects.
LEMMA HandlesMoveIs ==
    ASSUME NEW x, NEW s, NEW old, NEW new, StoreInv(x), Renames(x, s, old, new),
           <<s, old>> \in DOMAIN x.handleOf
    PROVE  LET g == HandlesMove(x, s, old, new)
           IN  /\ \A k \in Alive(x) : \A l : From(k, l, s, old, new) =>
                     /\ l \in DOMAIN g <=> k \in DOMAIN x.handleOf
                     /\ k \in DOMAIN x.handleOf => g[l] = x.handleOf[k]
               /\ \A l \in DOMAIN g : \E k \in DOMAIN x.handleOf :
                     From(k, l, s, old, new) /\ g[l] = x.handleOf[k]
<1> DEFINE below  == Below(x, s, old)
           landed == {<<s, Moved(k[2], old, new)>> : k \in below}
           back(l) == x.handleOf[<<s, Moved(l[2], new, old)>>]
           g == HandlesMove(x, s, old, new)
<1>1. g = [l \in (DOMAIN x.handleOf \ below) \cup landed |-> IF l \in landed THEN back(l) ELSE x.handleOf[l]]
  BY DEF HandlesMove
<1>2. DOMAIN g = (DOMAIN x.handleOf \ below) \cup landed
      /\ (\A l \in landed : g[l] = back(l))
      /\ (\A l \in DOMAIN x.handleOf \ below : l \notin landed => g[l] = x.handleOf[l])
  BY <1>1
<1>3. x \in StateType /\ old \in AnyPath /\ new \in AnyPath /\ DOMAIN x.handleOf \subseteq Alive(x)
  BY PathIs DEF Renames, FsInv, StoreInv, ObjectsInv
<1>4. \A k \in Alive(x) : k[2] \in AnyPath /\ k = <<k[1], k[2]>>
  BY <1>3, AliveIs, PathIs
<1>5. \A k \in DOMAIN x.handleOf : k \in below <=> Goes(k, s, old)
  BY DEF Below, Goes
<1>6. below \subseteq DOMAIN x.handleOf /\ \A l : l \in landed <=> \E k \in below : l = Land(k, s, old, new)
  BY DEF Below, Land
<1> HIDE DEF g, below, landed
<1>7. \A k \in below : Goes(k, s, old) /\ From(k, Land(k, s, old, new), s, old, new) /\ k \in Alive(x)
  BY <1>3, <1>5, <1>6 DEF From
<1>8. ASSUME NEW k \in Alive(x), Goes(k, s, old), NEW l, l = Land(k, s, old, new), k \in DOMAIN x.handleOf
      PROVE  l \in landed /\ g[l] = x.handleOf[k]
  <2>1. l \in landed
    BY <1>5, <1>6, <1>8
  <2>2. l[2] = Moved(k[2], old, new)
    BY <1>8 DEF Land
  <2>3. Moved(l[2], new, old) = k[2] /\ k[1] = s /\ k = <<k[1], k[2]>>
    BY <1>3, <1>4, <1>8, <2>2, MovedUnder DEF Goes
  <2> QED
    BY <1>2, <2>1, <2>3
\* Only what lands lies at or below the new path, but for what is overwritten.
<1>9. ASSUME NEW l \in Alive(x), Stays(l, s, old, new) PROVE l \notin landed /\ l \notin below
  <2>1. l \notin below
    BY <1>7, <1>9 DEF Stays, Goes
  <2>2. ASSUME NEW k \in below, l = Land(k, s, old, new) PROVE FALSE
    <3>1. From(k, l, s, old, new) /\ From(l, l, s, old, new) /\ k \in Alive(x)
      BY <1>7, <1>9, <2>2 DEF From
    <3>2. k = l
      BY <3>1, FromIs
    <3> QED
      BY <2>1, <2>2, <3>2
  <2> QED
    BY <1>6, <2>1, <2>2
<1>10. /\ <<s, old>> \in below /\ <<s, new>> \in landed
       /\ \A k \in Alive(x) : Goes(k, s, old) /\ Moved(k[2], old, new) = new => k = <<s, old>>
  <2>1. Under(old, old) /\ Goes(<<s, old>>, s, old)
    BY <1>3, UnderOrder DEF Goes
  <2>2. <<s, old>> \in below
    BY <1>5, <2>1
  <2>3. Land(<<s, old>>, s, old, new) = <<s, new>>
    BY <1>3, <2>1, MovedUnder DEF Land
  <2>4. <<s, new>> \in landed
    BY <1>6, <2>2, <2>3
  <2>5. ASSUME NEW k \in Alive(x), Goes(k, s, old), Moved(k[2], old, new) = new PROVE k = <<s, old>>
    BY <1>3, <1>4, <2>5, MovedUnder DEF Goes
  <2> QED
    BY <2>2, <2>4, <2>5
<1>11. ASSUME NEW k \in Alive(x), NEW l, From(k, l, s, old, new)
       PROVE  /\ l \in DOMAIN g <=> k \in DOMAIN x.handleOf
              /\ k \in DOMAIN x.handleOf => g[l] = x.handleOf[k]
  <2>1. CASE Stays(k, s, old, new) /\ l = k
    BY <1>2, <1>9, <2>1
  <2>2. CASE Goes(k, s, old) /\ l = Land(k, s, old, new)
    <3>1. ASSUME k \notin DOMAIN x.handleOf PROVE l \notin DOMAIN g
      <4>1. l \notin landed
        <5> SUFFICES ASSUME NEW j \in below, l = Land(j, s, old, new) PROVE FALSE
          BY <1>6
        <5>1. j = k
          BY <1>7, <1>11, FromIs
        <5> QED
          BY <1>6, <3>1, <5>1
      <4>2. l \notin DOMAIN x.handleOf
        <5> SUFFICES ASSUME l \in DOMAIN x.handleOf PROVE FALSE
          OBVIOUS
        <5>1. l[1] = s /\ l[2] = Moved(k[2], old, new) /\ Under(new, l[2])
          BY <1>3, <1>4, <2>2, MovedUnder DEF Goes, Land
        <5>2. l[2] = new
          BY <1>3, <5>1, NewIsFree
        <5> QED
          BY <1>10, <2>2, <3>1, <5>1, <5>2
      <4> QED
        BY <1>2, <4>1, <4>2
    <3> QED
      BY <1>2, <1>8, <2>2, <3>1
  <2> QED
    BY <1>11, <2>1, <2>2 DEF From
<1>12. ASSUME NEW l \in DOMAIN g
       PROVE  \E k \in DOMAIN x.handleOf : From(k, l, s, old, new) /\ g[l] = x.handleOf[k]
  <2>1. CASE l \in landed
    <3>1. PICK k \in below : l = Land(k, s, old, new)
      BY <1>6, <2>1
    <3> QED
      BY <1>6, <1>7, <1>8, <3>1
  <2>2. CASE l \in DOMAIN x.handleOf \ below /\ l \notin landed
    <3>1. l # <<s, new>> /\ l = <<l[1], l[2]>> /\ ~Goes(l, s, old)
      BY <1>3, <1>4, <1>5, <1>10, <2>2
    <3>2. Stays(l, s, old, new)
      BY <3>1 DEF Stays, Goes
    <3> QED
      BY <1>2, <2>2, <3>2 DEF From
  <2> QED
    BY <1>2, <2>1, <2>2
<1> QED
  BY <1>11, <1>12 DEF g

LEMMA MoveCarried ==
    ASSUME NEW x, NEW s, NEW old, NEW new, StoreInv(x), Renames(x, s, old, new),
           <<s, old>> \in DOMAIN x.handleOf
    PROVE  LET w == [Renamed(x, s, old, new) EXCEPT !.handleOf = HandlesMove(x, s, old, new)]
           IN  /\ Carried(x, w) /\ w.raised = x.raised /\ w.fs = Renamed(x, s, old, new).fs
<1> DEFINE y == Renamed(x, s, old, new)
           g == HandlesMove(x, s, old, new)
           w == [y EXCEPT !.handleOf = g]
<1>1. y \in StateType /\ SameBook(x, y) /\ y.born = x.born /\ y.raised = x.raised
  BY RenamedMap
<1>2. /\ \A l \in Alive(y) : \E k \in Alive(x) : From(k, l, s, old, new)
      /\ \A k \in Alive(x) : \A l : From(k, l, s, old, new) => l \in Alive(y) /\ At(y, l) = At(x, k)
      /\ \A k \in Alive(x) : \A l, m : From(k, l, s, old, new) /\ From(k, m, s, old, new) => l = m
  BY FromIs
<1>3. FsInv(y)
  BY RenamedIs
<1>4. /\ \A k \in Alive(x) : \A l : From(k, l, s, old, new) =>
            /\ l \in DOMAIN g <=> k \in DOMAIN x.handleOf
            /\ k \in DOMAIN x.handleOf => g[l] = x.handleOf[k]
      /\ \A l \in DOMAIN g : \E k \in DOMAIN x.handleOf :
            From(k, l, s, old, new) /\ g[l] = x.handleOf[k]
  BY HandlesMoveIs
<1>5. DOMAIN x.handleOf \subseteq Alive(x)
  BY DEF StoreInv, ObjectsInv
<1>6. g = [l \in DOMAIN g |-> g[l]]
  BY DEF HandlesMove
<1> HIDE DEF g, y
<1>7. g \in UNION {[K -> Nat] : K \in SUBSET Keys}
  <2>1. DOMAIN g \in SUBSET Keys
    <3>1. DOMAIN g \subseteq Alive(y)
      BY <1>2, <1>4, <1>5
    <3> QED
      BY <1>1, <3>1, AliveIs
  <2>2. \A l \in DOMAIN g : g[l] \in Nat
    <3>1. \A k \in DOMAIN x.handleOf : x.handleOf[k] \in Nat
      BY DEF StoreInv, HandlesInv
    <3> QED
      BY <1>4, <3>1
  <2>3. g \in [DOMAIN g -> Nat]
    BY <1>6, <2>2
  <2> QED
    BY <2>1, <2>3
<1>8. /\ w \in StateType /\ w.fs = y.fs /\ w.handleOf = g /\ w.next = x.next /\ w.born = x.born
      /\ w.raised = x.raised
  BY <1>1, <1>7 DEF StateType, SameBook
<1> HIDE DEF w
<1>9. Alive(w) = Alive(y) /\ \A k : At(w, k) = At(y, k)
  BY <1>8 DEF Alive, At
<1>10. FsInv(w)
  BY <1>1, <1>3, <1>8, <1>9 DEF FsInv
<1>11. HandlesInv(w)
  <2>1. \A l \in DOMAIN g : g[l] \in 1 .. x.next - 1
    BY <1>4 DEF StoreInv, HandlesInv
  <2>2. ASSUME NEW l \in DOMAIN g, NEW m \in DOMAIN g, g[l] = g[m] PROVE l = m
    <3>1. PICK j \in DOMAIN x.handleOf : From(j, l, s, old, new) /\ g[l] = x.handleOf[j]
      BY <1>4
    <3>2. PICK k \in DOMAIN x.handleOf : From(k, m, s, old, new) /\ g[m] = x.handleOf[k]
      BY <1>4
    <3>3. j = k
      BY <2>2, <3>1, <3>2 DEF StoreInv, HandlesInv
    <3> QED
      BY <1>2, <1>5, <3>1, <3>2, <3>3
  <2> QED
    BY <1>8, <2>1, <2>2 DEF HandlesInv
<1>12. ASSUME NEW l \in Alive(w) PROVE \E k \in Alive(x) : Was(x, w, k, l)
  <2>1. PICK k \in Alive(x) : From(k, l, s, old, new)
    BY <1>2, <1>9
  <2> QED
    BY <1>2, <1>4, <1>8, <1>9, <2>1 DEF Was
<1>13. x.born \in Nat
  BY DEF StoreInv, FsInv, StateType
<1>14. Carried(x, w)
  BY <1>8, <1>10, <1>11, <1>12, <1>13 DEF Carried
<1> QED
  BY <1>8, <1>14 DEF w, y, g

-----------------------------------------------------------------------------
(* What each operation leaves.                                             *)

\* A state that an operation may leave: in order, with the handles it was
\* given, and objects that are what is in the stores if they were.
Follows(x, y) ==
    /\ StoreInv(y) /\ Stable(x, y)
    /\ DOMAIN x.handleOf = Alive(x) => y.raised \/ DOMAIN y.handleOf = Alive(y)

LEMMA GrewStable ==
    ASSUME NEW x, NEW y, StoreInv(x), Grew(x, y)
    PROVE  StoreInv(y) /\ Stable(x, y)
<1>1. StoreInv(y)
  BY GrewKeeps
<1>2. y.handleOf = x.handleOf /\ y.objects = x.objects /\ y.next = x.next /\ x.born <= y.born
  BY DEF Grew, SameBook
<1>3. x.next \in Nat
  BY DEF StoreInv, FsInv, StateType
<1>4. Named(x) = DOMAIN x.objects /\ Named(y) = DOMAIN y.objects
  BY <1>1, NamedIs
<1>5. ASSUME NEW h \in Named(x) PROVE h \in Named(y) /\ Identity(y, h) = Identity(x, h)
  <2>1. PICK k \in DOMAIN x.handleOf : x.handleOf[k] = h
    BY NamedIs
  <2>2. k \in Alive(x) /\ Identity(x, h) = At(x, k).id
    BY <2>1, NamedIs
  <2>3. Identity(y, h) = At(y, k).id
    BY <1>1, <1>2, <2>1, NamedIs
  <2> QED
    BY <1>2, <1>4, <2>2, <2>3 DEF Grew
<1> QED
  BY <1>1, <1>2, <1>3, <1>4, <1>5 DEF Stable

LEMMA GrewFollows ==
    ASSUME NEW x, NEW w, StoreInv(x), Grew(x, w)
    PROVE  Follows(x, Rescanned(w))
<1>1. CASE w.raised
  <2>1. Rescanned(w) = w
    BY <1>1 DEF Rescanned
  <2> QED
    BY <1>1, <2>1, GrewStable DEF Follows
<1>2. CASE ~w.raised
  <2>1. Rescanned(w) = Rescan(w)
    BY <1>2 DEF Rescanned
  <2>2. Carried(x, w)
    BY GrewCarried
  <2> HIDE DEF Carried
  <2> QED
    BY <2>1, <2>2, CarriedStable DEF Follows
<1> QED
  BY <1>1, <1>2

LEMMA CarriedFollows ==
    ASSUME NEW x, NEW w, StoreInv(x), Carried(x, w)
    PROVE  Follows(x, Rescan(w)) /\ Rescan(w).raised = w.raised
  BY CarriedStable DEF Follows

LEMMA SameFollows ==
    ASSUME NEW x, StoreInv(x)
    PROVE  Follows(x, x)
<1>1. Grew(x, x)
  BY GrewSame DEF StoreInv
<1> QED
  BY <1>1, GrewStable DEF Follows

LEMMA RaiseFollows ==
    ASSUME NEW x, StoreInv(x)
    PROVE  Follows(x, Raise(x))
<1>0. PICK b \in BOOLEAN : b = TRUE
  OBVIOUS
<1>1. Raise(x) = [x EXCEPT !.raised = b]
  BY <1>0 DEF Raise
<1>2. Grew(x, Raise(x)) /\ Raise(x).raised
  BY <1>0, <1>1, RaiseIs DEF StoreInv
<1> QED
  BY <1>2, GrewStable DEF Follows

LEMMA WriteFollows ==
    ASSUME NEW x, StoreInv(x), NEW s \in Stores, NEW p \in Paths, NEW data \in Contents
    PROVE  Follows(x, Rescanned(Write(x, s, p, data)))
<1>1. Grew(x, Write(x, s, p, data))
  BY WriteIs DEF StoreInv
<1> QED
  BY <1>1, GrewFollows

LEMMA MkdirFollows ==
    ASSUME NEW x, StoreInv(x), NEW s \in Stores, NEW p \in Paths
    PROVE  Follows(x, Rescanned(Mkdir(x, s, p)))
<1>1. Grew(x, Mkdir(x, s, p))
  BY MkdirIs DEF StoreInv
<1> QED
  BY <1>1, GrewFollows

LEMMA DeleteFollows ==
    ASSUME NEW x, StoreInv(x), NEW h \in DOMAIN x.objects
    PROVE  Follows(x, Delete(x, h))
<1>1. x.objects[h].si \in Stores /\ x.objects[h].path \in AnyPath
  BY ObjectIs, PathIs
<1>2. Grew(x, x)
  BY GrewSame DEF StoreInv
<1>3. Carried(x, Removed(x, x.objects[h].si, x.objects[h].path))
  BY <1>1, <1>2, RemovedCarried
<1> QED
  BY <1>3, CarriedFollows DEF Delete

\* All that is at and below the object at h fits below new.
AllFits(x, h, new) ==
    LET o == x.objects[h]
    IN  \A k \in Alive(x) : Goes(k, o.si, o.path) => Moved(k[2], o.path, new) \in Paths

LEMMA AllFitsIs ==
    ASSUME NEW x, StoreInv(x), NEW h, NEW new, AllFits(x, h, new)
    PROVE  Fits(x, h, new)
<1>1. DOMAIN x.handleOf \subseteq Alive(x)
  BY DEF StoreInv, ObjectsInv
<1> QED
  BY <1>1 DEF AllFits, Fits, Goes, Below

LEMMA CopyFollows ==
    ASSUME NEW x, StoreInv(x), NEW h \in DOMAIN x.objects, NEW s \in Stores,
           NEW new \in AnyPath, AllFits(x, h, new)
    PROVE  Follows(x, Copy(x, h, s, new))
<1>1. Fits(x, h, new)
  BY AllFitsIs
<1>2. Grew(x, CopyTree(x, h, s, new))
  BY <1>1, CopyIs
<1> QED
  BY <1>2, GrewFollows DEF Copy

\* A move within a store is a rename.
LEMMA MoveRenames ==
    ASSUME NEW x, StoreInv(x), NEW h \in DOMAIN x.objects, NEW new \in Paths,
           new # x.objects[h].path, CanMove(x, h, x.objects[h].si, new), AllFits(x, h, new)
    PROVE  LET o == x.objects[h]
           IN  Renames(x, o.si, o.path, new) /\ <<o.si, o.path>> \in DOMAIN x.handleOf
<1>1. /\ x.objects[h].si \in Stores /\ x.objects[h].path \in Paths
      /\ <<x.objects[h].si, x.objects[h].path>> \in DOMAIN x.handleOf
  BY ObjectIs
<1> QED
  BY <1>1 DEF Renames, StoreInv, CanMove, AllFits

LEMMA MoveFollows ==
    ASSUME NEW x, StoreInv(x), NEW h \in DOMAIN x.objects, NEW s \in Stores,
           NEW new \in Paths, CanMove(x, h, s, new), AllFits(x, h, new)
    PROVE  Follows(x, Move(x, h, s, new))
<1> DEFINE o == x.objects[h]
           c == CopyTree(x, h, s, new)
<1>1. o.si \in Stores /\ o.path \in AnyPath /\ new \in AnyPath
  BY ObjectIs, PathIs
<1>2. CASE s # o.si
  <2>1. Grew(x, c)
    BY <1>1, AllFitsIs, CopyIs
  <2>2. CASE CopyIsDone(c)
    <3>1. Move(x, h, s, new) = Rescan(Removed(c, o.si, o.path))
      BY <1>2, <2>2 DEF Move
    <3> HIDE DEF c, o
    <3>2. Carried(x, Removed(c, o.si, o.path))
      BY <1>1, <2>1, RemovedCarried
    <3> QED
      BY <3>1, <3>2, CarriedFollows
  <2>3. CASE ~CopyIsDone(c)
    <3>1. Move(x, h, s, new) = c
      BY <1>2, <2>3 DEF Move
    <3> QED
      BY <2>1, <2>3, <3>1, GrewStable DEF Follows, CopyIsDone
  <2> QED
    BY <2>2, <2>3
<1>3. CASE s = o.si /\ new = o.path
  <2>1. Move(x, h, s, new) = x
    BY <1>3 DEF Move
  <2> QED
    BY <2>1, SameFollows
<1>4. CASE s = o.si /\ new # o.path
  <2> DEFINE w == [Renamed(x, s, o.path, new) EXCEPT !.handleOf = HandlesMove(x, s, o.path, new)]
  <2>1. Move(x, h, s, new) = Rescan(w)
    BY <1>4 DEF Move
  <2>2. Renames(x, s, o.path, new) /\ <<s, o.path>> \in DOMAIN x.handleOf
    BY <1>4, MoveRenames
  <2>3. Carried(x, w)
    BY <2>2, MoveCarried
  <2> HIDE DEF w
  <2> QED
    BY <2>1, <2>3, CarriedFollows
<1> QED
  BY <1>2, <1>3, <1>4

-----------------------------------------------------------------------------
(* What a host names.                                                      *)

\* A place is a directory of the snapshot, or the root of a store.
LEMMA TargetIs ==
    ASSUME NEW x, StoreInv(x), NEW storage, NEW parent
    PROVE  LET w == Target(x, storage, parent)
           IN  w = NoDir \/ (w.si \in Stores /\ w.path \in AnyPath /\ w # NoDir)
<1> DEFINE w == Target(x, storage, parent)
<1>0. 0 \notin Stores /\ 1 \in Stores /\ NoDir.si = 0
  BY StorageAssumption DEF NoDir
<1>1. CASE parent = 0
  <2>1. w = [si |-> IF storage \in Stores THEN storage ELSE 1, path |-> Root]
    BY <1>1 DEF Target
  <2>2. w.si \in Stores /\ w.path = Root
    BY <1>0, <2>1
  <2>3. Root \in AnyPath
    BY EmptySeq DEF Root, AnyPath
  <2> QED
    BY <1>0, <2>2, <2>3
<1>2. CASE parent # 0 /\ Known(x, parent) /\ x.objects[parent].dir
  <2>1. w = [si |-> x.objects[parent].si, path |-> x.objects[parent].path]
    BY <1>2 DEF Target
  <2>2. x.objects[parent].si \in Stores /\ x.objects[parent].path \in Paths
    BY <1>2, ObjectIs DEF Known
  <2>3. w.si \in Stores /\ w.path \in AnyPath
    BY <2>1, <2>2, PathIs
  <2> QED
    BY <1>0, <2>3
<1>3. CASE parent # 0 /\ ~(Known(x, parent) /\ x.objects[parent].dir)
  BY <1>3 DEF Target
<1> QED
  BY <1>1, <1>2, <1>3

\* A name below a directory, and the last name of a path.
LEMMA NameBelow ==
    ASSUME NEW p \in AnyPath, NEW n \in Names
    PROVE  /\ Append(p, n) \in AnyPath /\ Len(Append(p, n)) = Len(p) + 1
           /\ Len(p) < MaxDepth => Append(p, n) \in Paths
<1>1. Append(p, n) \in AnyPath /\ Len(Append(p, n)) = Len(p) + 1 /\ Len(p) \in Nat
  BY AppendProperties DEF AnyPath
<1>2. Len(p) < MaxDepth => Len(Append(p, n)) \in 1 .. MaxDepth
  BY <1>1, StorageAssumption
<1> QED
  BY <1>1, <1>2, PathIs

LEMMA LastName == ASSUME NEW p \in Paths PROVE Last(p) \in Names
<1>1. p \in Seq(Names) /\ Len(p) \in 1 .. Len(p)
  BY PathIs DEF AnyPath
<1> QED
  BY <1>1, ElementOfSeq DEF Last

\* Below an object lie paths of each length up to the longest.
LEMMA HeightIs ==
    ASSUME StoreInv(st), NEW h \in DOMAIN st.objects, NEW k \in Alive(st),
           Goes(k, st.objects[h].si, st.objects[h].path)
    PROVE  /\ Height(h) \in Nat
           /\ Len(k[2]) - Len(st.objects[h].path) + 1 <= Height(h)
<1> DEFINE s == st.objects[h].si
           p == st.objects[h].path
           q == k[2]
           D == DOMAIN st.fs[s]
           L == {Len(r) : r \in {r \in D : Under(p, r)}}
<1>1. st \in StateType /\ s \in Stores /\ p \in Paths /\ p \in AnyPath /\ p # Root /\ Len(p) \in Nat \ {0}
  <2>1. st \in StateType /\ s \in Stores /\ p \in Paths
    BY ObjectIs DEF StoreInv, FsInv
  <2> QED
    BY <2>1, PathIs
<1>2. D \subseteq Paths /\ D \subseteq AnyPath /\ \A r \in D : Len(r) \in 0 .. MaxDepth
  BY <1>1, AliveIs, MapIs, PathIs
<1>3. \A r \in D : Front(r) = Root \/ Front(r) \in D
  <2> SUFFICES ASSUME NEW r \in D PROVE Front(r) = Root \/ Front(r) \in D
    OBVIOUS
  <2>1. <<s, r>> \in Alive(st)
    BY <1>1, AliveIs
  <2>2. Front(r) = Root \/ <<s, Front(r)>> \in Alive(st)
    BY <2>1 DEF StoreInv, FsInv, Up
  <2> QED
    BY <1>1, <2>2, AliveIs
<1>4. q \in D /\ Under(p, q)
  BY <1>1, AliveIs DEF Goes
<1> HIDE DEF s, p, q, D
<1>5. Len(p) <= Len(q) /\ (\A i \in 1 .. Len(p) : p[i] = q[i]) /\ Len(q) \in Nat
  BY <1>1, <1>2, <1>4, UnderIs
<1>6. ASSUME NEW n \in Len(p) .. Len(q) PROVE n \in L
  <2> DEFINE r == SubSeq(q, 1, n)
  <2>1. q \in AnyPath /\ n \in 0 .. Len(q)
    BY <1>1, <1>2, <1>4, <1>5
  <2>2. r \in AnyPath /\ Len(r) = n /\ \A i \in 1 .. n : r[i] = q[i]
    BY <2>1, BeginningIs
  <2> HIDE DEF r
  <2>3. n \in Nat \ {0} /\ Len(p) <= n /\ n <= Len(q)
    BY <1>1, <1>5
  <2>4. Under(p, r)
    <3>1. Len(p) <= Len(r) /\ \A i \in 1 .. Len(p) : p[i] = r[i]
      BY <1>5, <2>2, <2>3
    <3> QED
      BY <1>1, <2>2, <3>1, UnderIs
  <2>5. Under(r, q)
    <3>1. Len(r) <= Len(q) /\ \A i \in 1 .. Len(r) : r[i] = q[i]
      BY <2>2, <2>3
    <3> QED
      BY <2>1, <2>2, <3>1, UnderIs
  <2>6. r # Root
    BY <2>2, <2>3, EmptySeq DEF Root
  <2>7. r \in D
    BY <1>2, <1>3, <1>4, <2>2, <2>5, <2>6, TreeClosed
  <2> QED
    BY <2>2, <2>4, <2>7
<1>7. IsFiniteSet(L) /\ Cardinality(L) \in Nat
  <2>1. L \subseteq 0 .. MaxDepth
    BY <1>2
  <2>2. IsFiniteSet(0 .. MaxDepth)
    BY StorageAssumption, FS_Interval
  <2> QED
    BY <2>1, <2>2, FS_Subset, FS_CardinalityType
<1>8. Cardinality(Len(p) .. Len(q)) = Len(q) - Len(p) + 1
  <2>1. Len(p) \in Int /\ Len(q) \in Int /\ ~(Len(p) > Len(q))
    BY <1>1, <1>5
  <2> QED
    BY <2>1, FS_Interval
<1>9. Len(p) .. Len(q) \subseteq L
  BY <1>6
<1>10. Cardinality(Len(p) .. Len(q)) <= Cardinality(L)
  BY <1>7, <1>9, FS_Subset
<1>11. Height(h) = Cardinality(L)
  BY DEF Height, L, D, s, p
<1> QED
  BY <1>7, <1>8, <1>10, <1>11 DEF p, q

\* What is not too deep fits.
LEMMA RoomFor ==
    ASSUME StoreInv(st), NEW h \in DOMAIN st.objects, NEW dir \in AnyPath, NEW n \in Names,
           Len(dir) + Height(h) <= MaxDepth
    PROVE  Append(dir, n) \in Paths /\ AllFits(st, h, Append(dir, n))
<1> DEFINE p == st.objects[h].path
           new == Append(dir, n)
<1>1. st \in StateType /\ p \in AnyPath /\ Len(p) \in Nat \ {0} /\ Len(dir) \in Nat
      /\ <<st.objects[h].si, p>> \in Alive(st)
  <2>1. st \in StateType /\ p \in Paths /\ <<st.objects[h].si, p>> \in Alive(st)
    BY ObjectIs DEF StoreInv, FsInv
  <2> QED
    BY <2>1, PathIs DEF AnyPath
<1>2. new \in AnyPath /\ Len(new) = Len(dir) + 1
  BY NameBelow
<1>3. ASSUME NEW k \in Alive(st), Goes(k, st.objects[h].si, p) PROVE Moved(k[2], p, new) \in Paths
  <2>1. k[2] \in AnyPath /\ Under(p, k[2]) /\ Len(k[2]) \in Nat
    BY <1>1, <1>3, AliveIs, PathIs DEF Goes
  <2>2. Height(h) \in Nat /\ Len(k[2]) - Len(p) + 1 <= Height(h)
    BY <1>3, HeightIs
  <2>3. Moved(k[2], p, new) \in AnyPath /\ Len(Moved(k[2], p, new)) = Len(new) + (Len(k[2]) - Len(p))
    BY <1>1, <1>2, <2>1, MovedIs
  <2>4. Len(p) <= Len(k[2])
    BY <1>1, <2>1, UnderIs
  <2>5. Len(Moved(k[2], p, new)) \in 1 .. MaxDepth
    <3> HIDE DEF p, new
    <3>1. MaxDepth \in Nat
      BY StorageAssumption
    <3>2. Len(Moved(k[2], p, new)) = Len(dir) + 1 + (Len(k[2]) - Len(p))
      BY <1>2, <2>3
    <3>3. \A a, b, c, e, m \in Nat :
            a + e <= m /\ b - c + 1 <= e /\ c <= b => a + 1 + (b - c) \in 1 .. m
      OBVIOUS
    <3>4. Len(dir) \in Nat /\ Len(k[2]) \in Nat /\ Len(p) \in Nat /\ Height(h) \in Nat
      BY <1>1, <2>1, <2>2
    <3>5. Len(dir) + 1 + (Len(k[2]) - Len(p)) \in 1 .. MaxDepth
      BY <2>2, <2>4, <3>1, <3>3, <3>4
    <3> QED
      BY <3>2, <3>5
  <2> QED
    BY <2>3, <2>5, PathIs
<1>4. new \in Paths
  <2>1. Goes(<<st.objects[h].si, p>>, st.objects[h].si, p)
    BY <1>1, UnderOrder DEF Goes
  <2>2. Moved(p, p, new) \in Paths
    BY <1>1, <1>3, <2>1
  <2>3. Moved(p, p, new) = new
    <3> HIDE DEF p, new
    <3>1. Under(p, p)
      BY <1>1, UnderOrder
    <3> QED
      BY <1>1, <1>2, <3>1, MovedUnder
  <2> QED
    BY <2>2, <2>3
<1> QED
  BY <1>3, <1>4 DEF AllFits

\* A new name for an object lies where the old one did.
LEMMA RenameFits ==
    ASSUME NEW x, StoreInv(x), NEW h \in DOMAIN x.objects, NEW n \in Names
    PROVE  LET new == Append(Front(x.objects[h].path), n)
           IN  new \in Paths /\ AllFits(x, h, new)
<1> DEFINE p == x.objects[h].path
           new == Append(Front(p), n)
<1>1. x \in StateType /\ p \in AnyPath /\ p # Root /\ Len(p) \in 1 .. MaxDepth
  <2>1. x \in StateType /\ p \in Paths
    BY ObjectIs DEF StoreInv, FsInv
  <2> QED
    BY <2>1, PathIs
<1>2. Front(p) \in AnyPath /\ Len(Front(p)) = Len(p) - 1
  BY <1>1, FrontIs
<1>3. new \in AnyPath /\ Len(new) = Len(p)
  <2>1. new \in AnyPath /\ Len(new) = Len(Front(p)) + 1
    BY <1>2, NameBelow
  <2> QED
    BY <1>1, <1>2, <2>1
<1>4. ASSUME NEW k \in Alive(x), Goes(k, x.objects[h].si, p) PROVE Moved(k[2], p, new) \in Paths
  <2>1. k[2] \in AnyPath /\ Under(p, k[2]) /\ Len(k[2]) \in 1 .. MaxDepth
    BY <1>1, <1>4, AliveIs, PathIs DEF Goes
  <2>2. Moved(k[2], p, new) \in AnyPath /\ Len(Moved(k[2], p, new)) = Len(new) + (Len(k[2]) - Len(p))
    BY <1>1, <1>3, <2>1, MovedIs
  <2>3. Len(Moved(k[2], p, new)) \in 1 .. MaxDepth
    BY <1>1, <1>3, <2>1, <2>2
  <2> QED
    BY <2>2, <2>3, PathIs
<1>5. new \in Paths
  BY <1>1, <1>3, PathIs
<1> QED
  BY <1>4, <1>5 DEF AllFits

-----------------------------------------------------------------------------
(* The interface.                                                          *)

Kinds == {"info", "open", "close", "list", "setprop", "sendobject", "delete", "partial",
          "truncate", "rename", "move", "copy", "sendinfo"}

DataKinds == {"sendinfo", "sendobject", "setprop", "rename", "partial"}

OpType ==
    {o \in [kind : Kinds, h : Nat, s : Stores \cup {0}, parent : Nat, name : Nat, dir : BOOLEAN] :
        o.kind \in {"sendinfo", "rename"} => o.name \in Names}

RxType ==
    {r \in [op : OpType, tx : 0 .. MaxOps, on : BOOLEAN] : r.on => r.op.kind \in DataKinds}

Codes == {"ok", "already open", "read only", "invalid handle", "no object info",
          "invalid parent", "general error", "no session"}

Responses == [tx : 0 .. MaxOps, rc : Codes]

\* The state of the interface but for its stores.
Device(d) ==
    /\ d = [st |-> d.st, session |-> d.session, rx |-> d.rx, target |-> d.target, inq |-> d.inq]
    /\ d.session \in BOOLEAN /\ d.rx \in RxType /\ d.target \in Nat /\ d.inq \in Seq(Responses)

LEMMA NoRxIs == NoRx \in RxType /\ ~NoRx.on /\ Simple("info") \in OpType
<1>1. MaxOps \in Nat
  BY MtpAssumption
<1>2. Simple("info") \in OpType
  BY DEF Simple, Op, OpType, Kinds
<1> QED
  BY <1>1, <1>2 DEF NoRx, RxType

LEMMA RespIs ==
    ASSUME NEW d, Device(d), NEW t \in 0 .. MaxOps, NEW rc \in Codes
    PROVE  LET r == Resp(d, t, rc)
           IN  /\ Device(r) /\ r.st = d.st /\ r.session = d.session /\ r.rx = d.rx
               /\ r.target = d.target /\ Last(r.inq).rc = rc
<1> DEFINE e == [tx |-> t, rc |-> rc]
           q == Append(d.inq, e)
           r == Resp(d, t, rc)
<1>1. e \in Responses /\ e.rc = rc /\ d.inq \in Seq(Responses)
  BY DEF Responses, Device
<1>2. q \in Seq(Responses) /\ q[Len(q)] = e
  <2> HIDE DEF e
  <2>1. /\ q \in Seq(Responses) /\ Len(q) = Len(d.inq) + 1 /\ q[Len(d.inq) + 1] = e
    BY <1>1, AppendProperties
  <2> QED
    BY <2>1
<1> HIDE DEF q, e
<1>3. r = [d EXCEPT !.inq = q]
  BY DEF Resp, q, e
<1>4. d = [st |-> d.st, session |-> d.session, rx |-> d.rx, target |-> d.target, inq |-> d.inq]
  BY DEF Device
<1> HIDE DEF r
<1>5. r = [st |-> d.st, session |-> d.session, rx |-> d.rx, target |-> d.target, inq |-> q]
  BY <1>3, <1>4
<1>6. /\ r.st = d.st /\ r.session = d.session /\ r.rx = d.rx /\ r.target = d.target /\ r.inq = q
  BY <1>5
<1>7. Device(r)
  BY <1>2, <1>5, <1>6 DEF Device
<1> QED
  BY <1>1, <1>2, <1>6, <1>7 DEF Last, r

\* A field of the device is set.
LEMMA SetIs ==
    ASSUME NEW d, Device(d)
    PROVE  /\ \A x : LET r == [d EXCEPT !.st = x]
                     IN  /\ Device(r) /\ r.st = x /\ r.session = d.session /\ r.rx = d.rx
                         /\ r.target = d.target /\ r.inq = d.inq
           /\ \A b \in BOOLEAN : LET r == [d EXCEPT !.session = b]
                     IN  /\ Device(r) /\ r.st = d.st /\ r.session = b /\ r.rx = d.rx
                         /\ r.target = d.target /\ r.inq = d.inq
           /\ \A x \in RxType : LET r == [d EXCEPT !.rx = x]
                     IN  /\ Device(r) /\ r.st = d.st /\ r.session = d.session /\ r.rx = x
                         /\ r.target = d.target /\ r.inq = d.inq
           /\ \A h \in Nat : LET r == [d EXCEPT !.target = h]
                     IN  /\ Device(r) /\ r.st = d.st /\ r.session = d.session /\ r.rx = d.rx
                         /\ r.target = h /\ r.inq = d.inq
<1>1. d = [st |-> d.st, session |-> d.session, rx |-> d.rx, target |-> d.target, inq |-> d.inq]
  BY DEF Device
<1>2. ASSUME NEW x
      PROVE  LET r == [d EXCEPT !.st = x]
             IN  /\ Device(r) /\ r.st = x /\ r.session = d.session /\ r.rx = d.rx
                 /\ r.target = d.target /\ r.inq = d.inq
  <2> DEFINE r == [d EXCEPT !.st = x]
  <2>1. r = [st |-> x, session |-> d.session, rx |-> d.rx, target |-> d.target, inq |-> d.inq]
    BY <1>1
  <2> HIDE DEF r
  <2>2. /\ r.st = x /\ r.session = d.session /\ r.rx = d.rx /\ r.target = d.target /\ r.inq = d.inq
    BY <2>1
  <2>3. Device(r)
    BY <2>1, <2>2 DEF Device
  <2> QED
    BY <2>2, <2>3 DEF r
<1>3. ASSUME NEW x \in BOOLEAN
      PROVE  LET r == [d EXCEPT !.session = x]
             IN  /\ Device(r) /\ r.st = d.st /\ r.session = x /\ r.rx = d.rx
                 /\ r.target = d.target /\ r.inq = d.inq
  <2> DEFINE r == [d EXCEPT !.session = x]
  <2>1. r = [st |-> d.st, session |-> x, rx |-> d.rx, target |-> d.target, inq |-> d.inq]
    BY <1>1
  <2> HIDE DEF r
  <2>2. /\ r.st = d.st /\ r.session = x /\ r.rx = d.rx /\ r.target = d.target /\ r.inq = d.inq
    BY <2>1
  <2>3. Device(r)
    BY <2>1, <2>2 DEF Device
  <2> QED
    BY <2>2, <2>3 DEF r
<1>4. ASSUME NEW x \in RxType
      PROVE  LET r == [d EXCEPT !.rx = x]
             IN  /\ Device(r) /\ r.st = d.st /\ r.session = d.session /\ r.rx = x
                 /\ r.target = d.target /\ r.inq = d.inq
  <2> DEFINE r == [d EXCEPT !.rx = x]
  <2>1. r = [st |-> d.st, session |-> d.session, rx |-> x, target |-> d.target, inq |-> d.inq]
    BY <1>1
  <2> HIDE DEF r
  <2>2. /\ r.st = d.st /\ r.session = d.session /\ r.rx = x /\ r.target = d.target /\ r.inq = d.inq
    BY <2>1
  <2>3. Device(r)
    BY <2>1, <2>2 DEF Device
  <2> QED
    BY <2>2, <2>3 DEF r
<1>5. ASSUME NEW x \in Nat
      PROVE  LET r == [d EXCEPT !.target = x]
             IN  /\ Device(r) /\ r.st = d.st /\ r.session = d.session /\ r.rx = d.rx
                 /\ r.target = x /\ r.inq = d.inq
  <2> DEFINE r == [d EXCEPT !.target = x]
  <2>1. r = [st |-> d.st, session |-> d.session, rx |-> d.rx, target |-> x, inq |-> d.inq]
    BY <1>1
  <2> HIDE DEF r
  <2>2. /\ r.st = d.st /\ r.session = d.session /\ r.rx = d.rx /\ r.target = x /\ r.inq = d.inq
    BY <2>1
  <2>3. Device(r)
    BY <2>1, <2>2 DEF Device
  <2> QED
    BY <2>2, <2>3 DEF r
<1> QED
  BY <1>2, <1>3, <1>4, <1>5

\* The response comes unless the store has raised.
LEMMA DoneIs ==
    ASSUME NEW d, Device(d), NEW t \in 0 .. MaxOps, NEW after
    PROVE  LET r == Done(d, t, after)
           IN  /\ Device(r) /\ r.st = after /\ r.session = d.session /\ r.rx = d.rx
               /\ r.target = d.target
               /\ after.raised \/ Last(r.inq).rc = "ok"
<1> DEFINE e == [d EXCEPT !.st = after]
           r == Done(d, t, after)
<1>1. /\ Device(e) /\ e.st = after /\ e.session = d.session /\ e.rx = d.rx
      /\ e.target = d.target
  BY SetIs
<1>2. r = IF after.raised THEN e ELSE Resp(e, t, "ok")
  BY DEF Done
<1>3. PICK rc \in Codes : rc = "ok"
  BY DEF Codes
<1> HIDE DEF e, r
<1>4. CASE after.raised
  BY <1>1, <1>2, <1>4 DEF r
<1>5. CASE ~after.raised
  <2>1. r = Resp(e, t, rc)
    BY <1>2, <1>3, <1>5
  <2>2. /\ Device(r) /\ r.st = e.st /\ r.session = e.session /\ r.rx = e.rx
        /\ r.target = e.target /\ Last(r.inq).rc = rc
    BY <1>1, <1>3, <2>1, RespIs
  <2> QED
    BY <1>1, <1>3, <2>2 DEF r
<1> QED
  BY <1>4, <1>5

\* A command: it leaves the stores in order, and its data may be awaited.
Dispatched(d, o, r) ==
    /\ Device(r) /\ Follows(d.st, r.st) /\ r.target = d.target
    /\ r.rx = d.rx \/ (r.st = d.st /\ r.rx.op = o)

\* A move or a copy of a known object, to a place that there is, has room.
HasRoom(d, o) ==
    o.kind \in {"move", "copy"} /\ Known(d.st, o.h) /\ Target(d.st, o.s, o.parent) # NoDir =>
        Landing(d, o) \in Paths /\ AllFits(d.st, o.h, Landing(d, o))

LEMMA EditFollows ==
    ASSUME NEW x, StoreInv(x), NEW h \in DOMAIN x.objects, NEW data \in Contents
    PROVE  Follows(x, EditFile(x, h, data))
<1> DEFINE o == x.objects[h]
<1>1. o.si \in Stores /\ o.path \in Paths
  BY ObjectIs
<1>2. CASE IsFile(x, o.si, o.path)
  <2>1. EditFile(x, h, data) = Rescanned(Write(x, o.si, o.path, data))
    BY <1>2 DEF EditFile, WriteFile
  <2> HIDE DEF o
  <2> QED
    BY <1>1, <2>1, WriteFollows
<1>3. CASE ~IsFile(x, o.si, o.path)
  <2>1. EditFile(x, h, data) = Raise(x)
    BY <1>3 DEF EditFile
  <2> QED
    BY <2>1, RaiseFollows
<1> QED
  BY <1>2, <1>3

LEMMA BeginIs ==
    ASSUME NEW d, Device(d), NEW t \in 0 .. MaxOps, NEW o \in OpType, o.kind \in DataKinds
    PROVE  LET r == BeginRx(d, t, o)
           IN  /\ Device(r) /\ r.st = d.st /\ r.session = d.session /\ r.target = d.target
               /\ r.rx.op = o
<1>1. PICK b \in BOOLEAN : b = TRUE
  OBVIOUS
<1> DEFINE x == [op |-> o, tx |-> t, on |-> b]
<1>2. x \in RxType /\ x.op = o
  BY DEF RxType
<1>3. BeginRx(d, t, o) = [d EXCEPT !.rx = x]
  BY <1>1 DEF BeginRx
<1> HIDE DEF x
<1> QED
  BY <1>2, <1>3, SetIs

LEMMA DispatchIs ==
    ASSUME NEW d, Device(d), StoreInv(d.st), NEW t \in 0 .. MaxOps, NEW o \in OpType,
           HasRoom(d, o)
    PROVE  Dispatched(d, o, Dispatch(d, t, o))
<1> DEFINE r == Dispatch(d, t, o)
           where == Target(d.st, o.s, o.parent)
<1>1. Follows(d.st, d.st)
  BY SameFollows
<1>2. ASSUME NEW rc \in Codes PROVE Dispatched(d, o, Resp(d, t, rc))
  BY <1>1, RespIs DEF Dispatched
<1>3. ASSUME NEW after, Follows(d.st, after) PROVE Dispatched(d, o, Done(d, t, after))
  <2> DEFINE q == Done(d, t, after)
  <2>1. Device(q) /\ q.st = after /\ q.rx = d.rx /\ q.target = d.target
    BY DoneIs, ZenonT(40)
  <2> HIDE DEF q
  <2>2. Dispatched(d, o, q)
    BY <1>3, <2>1 DEF Dispatched
  <2> QED
    BY <2>2 DEF q
<1>4. ASSUME o.kind \in DataKinds PROVE Dispatched(d, o, BeginRx(d, t, o))
  BY <1>1, <1>4, BeginIs DEF Dispatched
<1>5. ASSUME NEW b \in BOOLEAN PROVE Dispatched(d, o, Resp([d EXCEPT !.session = b], t, "ok"))
  <2> DEFINE e == [d EXCEPT !.session = b]
  <2>1. Device(e) /\ e.st = d.st /\ e.rx = d.rx /\ e.target = d.target
    BY SetIs
  <2>2. PICK rc \in Codes : rc = "ok"
    BY DEF Codes
  <2> HIDE DEF e
  <2>3. LET q == Resp(e, t, rc) IN Device(q) /\ q.st = e.st /\ q.rx = e.rx /\ q.target = e.target
    BY <2>1, RespIs
  <2> QED
    BY <1>1, <2>1, <2>2, <2>3 DEF Dispatched, e
<1>6. /\ Dispatched(d, o, Resp(d, t, "ok")) /\ Dispatched(d, o, Resp(d, t, "already open"))
      /\ Dispatched(d, o, Resp(d, t, "read only")) /\ Dispatched(d, o, Resp(d, t, "invalid handle"))
      /\ Dispatched(d, o, Resp(d, t, "no object info"))
      /\ Dispatched(d, o, Resp(d, t, "invalid parent"))
      /\ Dispatched(d, o, Resp(d, t, "general error")) /\ Dispatched(d, o, Resp(d, t, "no session"))
  BY <1>2 DEF Codes
<1>7. /\ Dispatched(d, o, Resp([d EXCEPT !.session = FALSE], t, "ok"))
      /\ Dispatched(d, o, Resp([d EXCEPT !.session = TRUE], t, "ok"))
  <2>1. PICK b \in BOOLEAN : b = TRUE
    OBVIOUS
  <2>2. PICK c \in BOOLEAN : c = FALSE
    OBVIOUS
  <2>3. Dispatched(d, o, Resp([d EXCEPT !.session = b], t, "ok"))
        /\ Dispatched(d, o, Resp([d EXCEPT !.session = c], t, "ok"))
    BY <1>5
  <2> QED
    BY <2>1, <2>2, <2>3
<1>8. ASSUME o.kind \in {"move", "copy"} PROVE Dispatched(d, o, DispatchInSession(d, t, o))
  <2> DEFINE to == Landing(d, o)
  <2>1. CASE IsReadOnly \/ ~Known(d.st, o.h) \/ where = NoDir
    BY <1>6, <1>8, <2>1 DEF DispatchInSession
  <2>2. CASE ~IsReadOnly /\ Known(d.st, o.h) /\ where # NoDir
    <3>1. where.si \in Stores /\ o.h \in DOMAIN d.st.objects
      BY <2>2, TargetIs DEF Known
    <3>2. to \in Paths /\ AllFits(d.st, o.h, to) /\ to \in AnyPath
      BY <1>8, <2>2, PathIs DEF HasRoom
    <3> HIDE DEF to, where
    <3>3. CASE o.kind = "copy"
      <4>1. DispatchInSession(d, t, o) = Done(d, t, Copy(d.st, o.h, where.si, to))
        BY <2>2, <3>3 DEF DispatchInSession, where, to
      <4>2. Follows(d.st, Copy(d.st, o.h, where.si, to))
        BY <3>1, <3>2, CopyFollows
      <4> QED
        BY <1>3, <4>1, <4>2
    <3>4. CASE o.kind = "move" /\ CanMove(d.st, o.h, where.si, to)
      <4>1. DispatchInSession(d, t, o) = Done(d, t, Move(d.st, o.h, where.si, to))
        BY <2>2, <3>4 DEF DispatchInSession, where, to
      <4>2. Follows(d.st, Move(d.st, o.h, where.si, to))
        BY <3>1, <3>2, <3>4, MoveFollows
      <4> QED
        BY <1>3, <4>1, <4>2
    <3>5. CASE o.kind = "move" /\ ~CanMove(d.st, o.h, where.si, to)
      <4>1. DispatchInSession(d, t, o) = Resp(d, t, "general error")
        BY <2>2, <3>5 DEF DispatchInSession, where, to
      <4> QED
        BY <1>6, <4>1
    <3> QED
      BY <1>8, <3>3, <3>4, <3>5
  <2> QED
    BY <2>1, <2>2
<1>9. ASSUME o.kind = "delete" PROVE Dispatched(d, o, DispatchInSession(d, t, o))
  <2>1. CASE ~IsReadOnly /\ MayDelete(d.st, o.h)
    <3>1. DispatchInSession(d, t, o) = Done(d, t, Delete(d.st, o.h))
      BY <1>9, <2>1 DEF DispatchInSession
    <3>2. Follows(d.st, Delete(d.st, o.h))
      BY <2>1, DeleteFollows DEF MayDelete, Known
    <3> QED
      BY <1>3, <3>1, <3>2
  <2>2. CASE IsReadOnly \/ ~MayDelete(d.st, o.h)
    BY <1>6, <1>9, <2>2 DEF DispatchInSession
  <2> QED
    BY <2>1, <2>2
<1>10. ASSUME o.kind = "truncate" PROVE Dispatched(d, o, DispatchInSession(d, t, o))
  <2>1. CASE ~IsReadOnly /\ KnownFile(d.st, o.h)
    <3>1. DispatchInSession(d, t, o) = Done(d, t, EditFile(d.st, o.h, "cut"))
      BY <1>10, <2>1 DEF DispatchInSession
    <3>2. PICK data \in Contents : data = "cut"
      BY DEF Contents
    <3>3. Follows(d.st, EditFile(d.st, o.h, data))
      BY <2>1, EditFollows DEF KnownFile, Known
    <3> QED
      BY <1>3, <3>1, <3>2, <3>3
  <2>2. CASE IsReadOnly \/ ~KnownFile(d.st, o.h)
    BY <1>6, <1>10, <2>2 DEF DispatchInSession
  <2> QED
    BY <2>1, <2>2
<1>11. ASSUME o.kind \in DataKinds PROVE Dispatched(d, o, DispatchInSession(d, t, o))
  <2>1. Dispatched(d, o, BeginRx(d, t, o))
    BY <1>4, <1>11
  <2>2. CASE o.kind = "setprop"
    BY <2>1, <2>2 DEF DispatchInSession
  <2>3. CASE o.kind # "setprop" /\ IsReadOnly
    BY <1>6, <1>11, <2>3 DEF DispatchInSession, DataKinds
  <2>4. CASE o.kind \in {"sendinfo", "rename"} /\ ~IsReadOnly
    BY <2>1, <2>4 DEF DispatchInSession
  <2>5. CASE o.kind = "sendobject" /\ ~IsReadOnly
    BY <1>6, <2>1, <2>5 DEF DispatchInSession
  <2>6. CASE o.kind = "partial" /\ ~IsReadOnly
    BY <1>6, <2>1, <2>6 DEF DispatchInSession
  <2> QED
    BY <1>11, <2>2, <2>3, <2>4, <2>5, <2>6 DEF DataKinds
<1>12. ASSUME o.kind \in {"open", "close", "info", "list"}
       PROVE  Dispatched(d, o, DispatchInSession(d, t, o))
  BY <1>6, <1>7, <1>12 DEF DispatchInSession
<1>13. o.kind \in Kinds
  BY DEF OpType
<1>14. Dispatched(d, o, DispatchInSession(d, t, o))
  BY <1>8, <1>9, <1>10, <1>11, <1>12, <1>13 DEF Kinds, DataKinds
<1>15. CASE d.session
  BY <1>14, <1>15 DEF Dispatch
<1>16. CASE ~d.session
  BY <1>6, <1>7, <1>16 DEF Dispatch
<1> QED
  BY <1>15, <1>16

LEMMA DoneSaysSo ==
    ASSUME NEW d, Device(d), NEW t \in 0 .. MaxOps, NEW after
    PROVE  after.raised \/ Last(Done(d, t, after).inq).rc = "ok"
  BY DoneIs

\* Data: what was awaited is done, and the reservation is used up, kept, or new.
Completed(d, r) ==
    /\ Device(r) /\ Follows(d.st, r.st) /\ r.rx = NoRx
    /\ \/ r.target \in {0, d.target}
       \/ /\ d.rx.op.kind = "sendinfo" /\ ~r.st.raised /\ Last(r.inq).rc = "ok"
          /\ r.target < r.st.next
    /\ d.rx.op.kind = "sendobject" =>
          \A k \in Alive(d.st) \cap Alive(r.st) :
              At(r.st, k).data # At(d.st, k).data =>
                  Known(d.st, d.target) /\ At(d.st, k).id = Identity(d.st, d.target)

LEMMA RescannedIs ==
    ASSUME NEW x, NEW w, StoreInv(x), Grew(x, w)
    PROVE  Alive(Rescanned(w)) = Alive(w) /\ \A k : At(Rescanned(w), k) = At(w, k)
<1>1. CASE w.raised
  BY <1>1 DEF Rescanned
<1>2. CASE ~w.raised
  <2>1. Rescanned(w) = Rescan(w)
    BY <1>2 DEF Rescanned
  <2>2. FsInv(w) /\ HandlesInv(w)
    BY GrewKeeps DEF StoreInv
  <2> QED
    BY <2>1, <2>2, RescanIs
<1> QED
  BY <1>1, <1>2

LEMMA CompletedIs ==
    ASSUME NEW d, Device(d), StoreInv(d.st), d.rx.on, NEW payload,
           d.rx.op.kind = "sendinfo" /\ payload = "data" =>
               Len(Target(d.st, d.rx.op.s, d.rx.op.parent).path) < MaxDepth
    PROVE  Completed(d, CompleteRx(d, payload))
<1> DEFINE o  == d.rx.op
           t  == d.rx.tx
           d1 == [d EXCEPT !.rx = NoRx]
           r  == CompleteRx(d, payload)
<1>1. o \in OpType /\ t \in 0 .. MaxOps /\ o.kind \in DataKinds
  BY DEF Device, RxType
<1>2. /\ Device(d1) /\ d1.st = d.st /\ d1.rx = NoRx /\ d1.target = d.target
  BY NoRxIs, SetIs
<1>3. Follows(d.st, d.st)
  BY SameFollows
<1>4. ASSUME NEW e, Device(e), e.st = d.st, e.rx = NoRx, e.target \in {0, d.target}, NEW rc \in Codes
      PROVE  Completed(d, Resp(e, t, rc))
  <2> DEFINE q == Resp(e, t, rc)
  <2>1. Device(q) /\ q.st = d.st /\ q.rx = NoRx /\ q.target = e.target
    BY <1>1, <1>4, RespIs
  <2> HIDE DEF q
  <2> QED
    BY <1>3, <1>4, <2>1 DEF Completed, q
<1>12. ASSUME NEW e, Device(e), NEW after
       PROVE  LET z == Done(e, t, after)
              IN  /\ Device(z) /\ z.st = after /\ z.rx = e.rx /\ z.target = e.target
                  /\ after.raised \/ Last(z.inq).rc = "ok"
  <2>1. t \in 0 .. MaxOps
    BY <1>1
  <2> HIDE DEF t
  <2>2. Device(e)
    BY <1>12
  <2>3. LET z == Done(e, t, after)
        IN  Device(z) /\ z.st = after /\ z.rx = e.rx /\ z.target = e.target
    BY <2>1, <2>2, DoneIs, ZenonT(40)
  <2>4. after.raised \/ Last(Done(e, t, after).inq).rc = "ok"
    BY <2>1, <2>2, DoneSaysSo, Zenon
  <2> QED
    BY <2>3, <2>4
<1>5. ASSUME NEW e, Device(e), e.rx = NoRx, e.target \in {0, d.target},
             NEW after, Follows(d.st, after), o.kind # "sendobject"
      PROVE  Completed(d, Done(e, t, after))
  <2> DEFINE q == Done(e, t, after)
  <2>1. Device(q) /\ q.st = after /\ q.rx = e.rx /\ q.target = e.target
    BY <1>5, <1>12
  <2> HIDE DEF q
  <2>2. Completed(d, q)
    BY <1>5, <2>1 DEF Completed
  <2> QED
    BY <2>2 DEF q
<1>6. /\ "ok" \in Codes /\ "general error" \in Codes /\ "invalid parent" \in Codes
      /\ "invalid handle" \in Codes /\ "no object info" \in Codes
  BY DEF Codes
<1> HIDE DEF d1, o, t, r
<1>7. CASE o.kind = "sendinfo"
  <2> DEFINE where == Target(d.st, o.s, o.parent)
             p == Append(where.path, o.name)
             made == IF o.dir THEN MakeDir(d.st, where.si, where.path, o.name)
                              ELSE MakeFile(d.st, where.si, where.path, o.name)
             h == IF o.dir THEN 0 ELSE HandleAt(made, where.si, p)
             e == [d1 EXCEPT !.target = h]
  <2>1. r = RecvObjectInfo(d1, t, o, payload)
    BY <1>7 DEF r, CompleteRx, d1, t, o
  <2>2. CASE payload # "data" \/ where = NoDir
    <3>1. r \in {Resp(d1, t, "general error"), Resp(d1, t, "invalid parent")}
      BY <1>2, <2>1, <2>2 DEF RecvObjectInfo
    <3> QED
      BY <1>2, <1>4, <1>6, <3>1 DEF r
  <2>3. CASE payload = "data" /\ where # NoDir
    <3>1. r = IF made.raised THEN Done(d1, t, made) ELSE Done(e, t, made)
      BY <1>2, <2>1, <2>3 DEF RecvObjectInfo
    <3>2. where.si \in Stores /\ where.path \in AnyPath /\ Len(where.path) < MaxDepth /\ o.name \in Names
      BY <1>1, <1>7, <2>3, TargetIs DEF OpType, o
    <3> HIDE DEF where
    <3>3. p \in Paths
      BY <3>2, NameBelow
    <3>4. Follows(d.st, made)
      <4>1. PICK data \in Contents : data = "empty"
        BY DEF Contents
      <4>2. made = IF o.dir THEN Rescanned(Mkdir(d.st, where.si, p))
                            ELSE Rescanned(Write(d.st, where.si, p, data))
        BY <4>1 DEF MakeDir, MakeFile
      <4> HIDE DEF p, made
      <4>3. Follows(d.st, Rescanned(Mkdir(d.st, where.si, p)))
        BY <3>2, <3>3, MkdirFollows
      <4>4. Follows(d.st, Rescanned(Write(d.st, where.si, p, data)))
        BY <3>2, <3>3, <4>1, WriteFollows
      <4> QED
        BY <4>2, <4>3, <4>4
    <3>5. h \in Nat /\ h < made.next
      <4> HIDE DEF made, p
      <4>1. made.next \in Nat \ {0} /\ \A k \in DOMAIN made.handleOf : made.handleOf[k] \in 1 .. made.next - 1
        BY <3>4 DEF Follows, StoreInv, HandlesInv, FsInv, StateType
      <4> QED
        BY <4>1 DEF HandleAt
    <3> HIDE DEF made, h, p
    <3>6. CASE made.raised
      <4>1. r = Done(d1, t, made)
        BY <3>1, <3>6
      <4> QED
        BY <1>2, <1>5, <1>7, <3>4, <4>1 DEF r
    <3>7. CASE ~made.raised
      <4>1. r = Done(e, t, made)
        BY <3>1, <3>7
      <4>2. Device(e) /\ e.st = d.st /\ e.rx = NoRx /\ e.target = h
        BY <1>2, <3>5, SetIs
      <4> HIDE DEF e
      <4>3. /\ Device(r) /\ r.st = made /\ r.rx = NoRx /\ r.target = h
            /\ made.raised \/ Last(r.inq).rc = "ok"
        <5>1. Device(e)
          BY <4>2
        <5>2. LET z == Done(e, t, made)
              IN  /\ Device(z) /\ z.st = made /\ z.rx = e.rx /\ z.target = e.target
                  /\ made.raised \/ Last(z.inq).rc = "ok"
          BY <1>12, <5>1, ZenonT(40)
        <5> QED
          BY <4>1, <4>2, <5>2
      <4>4. Completed(d, r)
        BY <1>7, <3>4, <3>5, <3>7, <4>3 DEF Completed, o
      <4> QED
        BY <4>4 DEF r
    <3> QED
      BY <3>6, <3>7
  <2> QED
    BY <2>2, <2>3
<1>8. CASE o.kind = "sendobject"
  <2> DEFINE e == [d1 EXCEPT !.target = 0]
             data == Content(payload)
             w == Write(d.st, d.st.objects[d.target].si, d.st.objects[d.target].path, data)
  <2>1. r = IF ~Known(d.st, d.target) THEN Resp(e, t, "no object info") ELSE Done(e, t, Rescanned(w))
    <3>1. r = RecvObject(d1, t, payload)
      BY <1>8 DEF r, CompleteRx, d1, t, o
    <3> HIDE DEF r, e, w
    <3>2. r = IF ~Known(d1.st, d1.target) THEN Resp(TargetTaken(d1), t, "no object info")
              ELSE Done(TargetTaken(d1), t, WriteFile(d1.st, d1.target, data))
      BY <3>1 DEF RecvObject, data
    <3>3. TargetTaken(d1) = e /\ WriteFile(d.st, d.target, data) = Rescanned(w)
      BY DEF TargetTaken, WriteFile, e, w
    <3> HIDE DEF data
    <3>4. d1.st = d.st /\ d1.target = d.target
      BY <1>2
    <3>5. r = IF ~Known(d.st, d.target) THEN Resp(e, t, "no object info")
              ELSE Done(e, t, Rescanned(w))
      BY <3>2, <3>3, <3>4
    <3> QED
      BY <3>5 DEF e, w, data, r
  <2>2. Device(e) /\ e.st = d.st /\ e.rx = NoRx /\ e.target = 0
    <3>1. PICK h \in Nat : h = 0
      OBVIOUS
    <3>2. LET q == [d1 EXCEPT !.target = h]
          IN  Device(q) /\ q.st = d1.st /\ q.rx = d1.rx /\ q.target = h
      BY <1>2, <3>1, SetIs
    <3> QED
      BY <1>2, <3>1, <3>2
  <2> HIDE DEF e
  <2>3. CASE ~Known(d.st, d.target)
    BY <1>4, <1>6, <2>1, <2>2, <2>3 DEF r
  <2>4. CASE Known(d.st, d.target)
    <3> DEFINE s == d.st.objects[d.target].si
               p == d.st.objects[d.target].path
               after == Rescanned(w)
    <3>1. data \in Contents
      BY DEF Content, Contents
    <3>2. /\ s \in Stores /\ p \in Paths /\ <<s, p>> \in DOMAIN d.st.handleOf
          /\ d.st.handleOf[<<s, p>>] = d.target
      BY <2>4, ObjectIs DEF Known
    <3>3. Identity(d.st, d.target) = At(d.st, <<s, p>>).id
      BY DEF Identity, At
    <3>4. w = Write(d.st, s, p, data)
      OBVIOUS
    <3> HIDE DEF s, p, data, w
    <3>5. Grew(d.st, w) /\ Elsewhere(d.st, w, s, p)
      BY <3>1, <3>2, <3>4, WriteIs DEF StoreInv
    <3>6. Follows(d.st, after) /\ \A k : At(after, k) = At(w, k)
      BY <3>5, GrewFollows, RescannedIs
    <3>7. r = Done(e, t, after)
      BY <2>1, <2>4
    <3> HIDE DEF after
    <3>8. /\ Device(r) /\ r.st = after /\ r.rx = NoRx /\ r.target = 0
      <4>1. Device(e)
        BY <2>2
      <4>2. LET z == Done(e, t, after)
            IN  /\ Device(z) /\ z.st = after /\ z.rx = e.rx /\ z.target = e.target
        BY <1>12, <4>1
      <4> QED
        BY <2>2, <3>7, <4>2
    <3>9. ASSUME NEW k \in Alive(d.st), At(after, k).data # At(d.st, k).data
          PROVE  At(d.st, k).id = Identity(d.st, d.target)
      <4>1. k = <<s, p>>
        BY <3>5, <3>6, <3>9 DEF Elsewhere
      <4> QED
        BY <3>3, <4>1
    <3>10. Completed(d, r)
      BY <2>4, <3>6, <3>8, <3>9 DEF Completed
    <3> QED
      BY <3>10 DEF r
  <2> QED
    BY <2>3, <2>4
<1>9. CASE o.kind = "setprop"
  <2>1. r = Resp(d1, t, "ok")
    BY <1>9 DEF r, CompleteRx, d1, t, o
  <2> QED
    BY <1>2, <1>4, <1>6, <2>1 DEF r
<1>10. CASE o.kind = "rename"
  <2> DEFINE name == IF payload = "a name" THEN CHOOSE n \in Names : \A m \in Names : m <= n
                                          ELSE o.name
             to == Append(Front(d.st.objects[o.h].path), name)
             si == d.st.objects[o.h].si
  <2>1. r = IF ~Known(d.st, o.h) THEN Resp(d1, t, "invalid handle")
            ELSE IF payload = "nothing" THEN Done(d1, t, Raise(d.st))
            ELSE IF payload # "no name" /\ CanMove(d.st, o.h, si, to)
            THEN Done(d1, t, Move(d.st, o.h, si, to))
            ELSE Resp(d1, t, "general error")
    BY <1>2, <1>10 DEF r, CompleteRx, d1, t, o, RecvName
  <2>2. name \in Names
    BY <1>1, <1>10, StorageAssumption DEF OpType
  <2> HIDE DEF name
  <2>3. Known(d.st, o.h) => si \in Stores /\ to \in Paths /\ AllFits(d.st, o.h, to)
    BY <2>2, ObjectIs, RenameFits DEF Known
  <2> HIDE DEF si, to
  <2>4. CASE Known(d.st, o.h) /\ CanMove(d.st, o.h, si, to)
    <3>1. Follows(d.st, Move(d.st, o.h, si, to)) /\ Follows(d.st, Raise(d.st))
      BY <2>3, <2>4, MoveFollows, RaiseFollows DEF Known
    <3>2. Completed(d, Done(d1, t, Move(d.st, o.h, si, to))) /\ Completed(d, Done(d1, t, Raise(d.st)))
      BY <1>2, <1>5, <1>10, <3>1
    <3>3. Completed(d, Resp(d1, t, "general error"))
      BY <1>2, <1>4, <1>6
    <3> QED
      BY <2>1, <2>4, <3>2, <3>3 DEF r
  <2>5. CASE ~(Known(d.st, o.h) /\ CanMove(d.st, o.h, si, to))
    <3>1. Follows(d.st, Raise(d.st))
      BY RaiseFollows
    <3>2. Completed(d, Done(d1, t, Raise(d.st)))
      BY <1>2, <1>5, <1>10, <3>1
    <3>3. Completed(d, Resp(d1, t, "general error")) /\ Completed(d, Resp(d1, t, "invalid handle"))
      BY <1>2, <1>4, <1>6
    <3> QED
      BY <2>1, <2>5, <3>2, <3>3 DEF r
  <2> QED
    BY <2>4, <2>5
<1>11. CASE o.kind = "partial"
  <2> DEFINE f == d.st.objects[o.h]
             was == IF IsFile(d.st, f.si, f.path) THEN d.st.fs[f.si][f.path].data ELSE "none"
             data == CASE payload = "data" -> "patched" [] payload = "nothing" -> was
                       [] OTHER -> "garbage"
  <2>1. r = IF ~KnownFile(d.st, o.h) THEN Resp(d1, t, "invalid handle")
            ELSE Done(d1, t, EditFile(d.st, o.h, data))
    <3>1. r = RecvPartial(d1, t, o, payload)
      BY <1>11 DEF r, CompleteRx, d1, t, o
    <3> HIDE DEF r
    <3> QED
      BY <1>2, <3>1 DEF RecvPartial
  <2>2. CASE ~KnownFile(d.st, o.h)
    BY <1>2, <1>4, <1>6, <2>1, <2>2 DEF r
  <2>3. CASE KnownFile(d.st, o.h)
    <3>1. o.h \in DOMAIN d.st.objects /\ f.si \in Stores
      BY <2>3, ObjectIs DEF KnownFile, Known
    <3>2. was \in Contents
      <4>1. CASE IsFile(d.st, f.si, f.path)
        <5> HIDE DEF f
        <5>1. <<f.si, f.path>> \in Alive(d.st) /\ d.st \in StateType
          BY <3>1, <4>1, StoreIs DEF StoreInv, FsInv
        <5>2. At(d.st, <<f.si, f.path>>) \in Node
          BY <5>1, AliveIs
        <5> QED
          BY <4>1, <5>2 DEF At, Node
      <4>2. CASE ~IsFile(d.st, f.si, f.path)
        BY <4>2 DEF Contents
      <4> QED
        BY <4>1, <4>2
    <3> HIDE DEF was, f
    <3>3. data \in Contents
      <4>1. "patched" \in Contents /\ "garbage" \in Contents
        BY DEF Contents
      <4> QED
        BY <3>2, <4>1
    <3> HIDE DEF data
    <3>4. Follows(d.st, EditFile(d.st, o.h, data))
      BY <3>1, <3>3, EditFollows
    <3>5. r = Done(d1, t, EditFile(d.st, o.h, data))
      BY <2>1, <2>3
    <3> QED
      BY <1>2, <1>5, <1>11, <3>4, <3>5 DEF r
  <2> QED
    BY <2>2, <2>3
<1> QED
  BY <1>1, <1>7, <1>8, <1>9, <1>10, <1>11 DEF DataKinds

-----------------------------------------------------------------------------
(* The inductive invariant.                                                *)

\* What is reserved for SendObject, if it is still there, is what the last
\* SendObjectInfo made.
Reservation == target # 0 /\ Known(st, target) => Identity(st, target) = reserved

\* The stores and the snapshot are in order; the reservation holds; what is
\* awaited is data of an operation that has some and, as long as its host is
\* about to send it, that fits.
IInv ==
    /\ StoreInv(st) /\ ~st.raised
    /\ escaped \/ added \/ DOMAIN st.handleOf = Alive(st)
    /\ session \in BOOLEAN /\ escaped \in BOOLEAN /\ added \in BOOLEAN
    /\ target \in 0 .. st.next - 1 /\ Reservation
    /\ rx \in RxType /\ op \in OpType /\ inq \in Seq(Responses)
    /\ host = "data" /\ rx.on /\ rx.op.kind = "sendinfo" =>
          Len(Target(st, rx.op.s, rx.op.parent).path) < MaxDepth
    /\ host \in {"idle", "data", "response", "gone"}
    /\ tx \in 0 .. MaxOps /\ answered \in 0 .. MaxOps

LEMMA PlantIs ==
    ASSUME NEW tree \in Trees
    PROVE  LET x == Plant(tree) IN FsInv(x) /\ HandlesInv(x) /\ ~x.raised
<1> DEFINE K == KeysOf(tree)
           N(k) == Rank(K, k) + 1
           fs == [s \in Stores |-> [p \in DOMAIN tree[s] |->
                    [dir |-> tree[s][p] = "dir", data |-> tree[s][p], id |-> N(<<s, p>>)]]]
           x == Plant(tree)
<1>1. /\ IsFiniteSet(K)
      /\ \A s \in Stores : \A p \in DOMAIN tree[s] :
            /\ p \in Paths
            /\ Front(p) # Root => Front(p) \in DOMAIN tree[s] /\ tree[s][Front(p)] = "dir"
  BY MtpAssumption
<1>2. \A k : k \in K <=> \E s \in Stores : \E p \in DOMAIN tree[s] : k = <<s, p>>
  BY DEF KeysOf
<1>3. K \subseteq AnyKey /\ Cardinality(K) \in Nat
  BY <1>1, <1>2, KeyIs, FS_CardinalityType
<1>4. /\ \A k \in K : N(k) \in Nat /\ N(k) < Cardinality(K) + 1
      /\ \A j, k \in K : N(j) = N(k) => j = k
  <2>1. /\ \A k \in K : Rank(K, k) \in Nat /\ Rank(K, k) < Cardinality(K)
        /\ \A j, k \in K : Rank(K, j) = Rank(K, k) => j = k
    BY <1>1, <1>3, RankIs
  <2> HIDE DEF K
  <2> QED
    BY <1>3, <2>1
<1>5. x = [fs |-> fs, handleOf |-> <<>>, objects |-> <<>>, next |-> 1,
           born |-> Cardinality(K) + 1, raised |-> FALSE]
  BY DEF Plant
<1>6. /\ x.fs = fs /\ x.handleOf = <<>> /\ x.objects = <<>> /\ x.next = 1
      /\ x.born = Cardinality(K) + 1 /\ x.raised = FALSE
  BY <1>5
<1>7. \A s \in Stores : \A p \in DOMAIN tree[s] : tree[s][p] \in Contents
  <2> SUFFICES ASSUME NEW s \in Stores, NEW p \in DOMAIN tree[s] PROVE tree[s][p] \in Contents
    OBVIOUS
  <2>1. <<s, p>> \in K /\ tree[<<s, p>>[1]][<<s, p>>[2]] = tree[s][p]
    BY <1>2
  <2>2. tree[s][p] \in {tree[k[1]][k[2]] : k \in KeysOf(tree)}
    BY <2>1
  <2> QED
    BY <2>2 DEF Contents
<1> HIDE DEF K, N
<1>8. ASSUME NEW s \in Stores
      PROVE  /\ fs[s] \in NodeMaps /\ DOMAIN fs[s] = DOMAIN tree[s]
             /\ \A p \in DOMAIN tree[s] : fs[s][p].dir = (tree[s][p] = "dir") /\ fs[s][p].id = N(<<s, p>>)
  <2>1. DOMAIN fs[s] = DOMAIN tree[s]
        /\ \A p \in DOMAIN tree[s] : fs[s][p] = [dir |-> tree[s][p] = "dir", data |-> tree[s][p], id |-> N(<<s, p>>)]
    OBVIOUS
  <2>2. \A p \in DOMAIN tree[s] : N(<<s, p>>) \in Nat /\ tree[s][p] \in Contents
    BY <1>2, <1>4, <1>7
  <2>3. \A p \in DOMAIN tree[s] : fs[s][p] \in Node
    BY <2>1, <2>2 DEF Node
  <2>4. fs[s] \in [DOMAIN tree[s] -> Node]
    BY <2>1, <2>3
  <2>5. DOMAIN tree[s] \in SUBSET Paths
    BY <1>1
  <2>6. fs[s] \in NodeMaps
    BY <2>4, <2>5, MapIs
  <2> QED
    BY <2>1, <2>6
<1>9. fs \in [Stores -> NodeMaps]
  <2>1. fs = [s \in Stores |-> fs[s]]
    OBVIOUS
  <2> HIDE DEF fs
  <2> QED
    BY <1>8, <2>1
<1> HIDE DEF fs
<1>10. /\ <<>> \in UNION {[L -> Nat] : L \in SUBSET Keys}
       /\ <<>> \in UNION {[H -> ObjectType] : H \in SUBSET Nat}
  <2>1. <<>> \in [{} -> Nat] /\ <<>> \in [{} -> ObjectType]
    OBVIOUS
  <2> QED
    BY <2>1
<1>11. x \in StateType
  <2>1. Cardinality(K) + 1 \in Nat /\ 1 \in Nat \ {0} /\ FALSE \in BOOLEAN
    BY <1>3 DEF K
  <2> HIDE DEF x
  <2> QED
    BY <1>5, <1>9, <1>10, <2>1 DEF StateType
<1> HIDE DEF x
<1>12. Alive(x) = K
  <2>1. \A k : k \in Alive(x) <=> \E s \in Stores : \E p \in DOMAIN x.fs[s] : k = <<s, p>>
    BY DEF Alive, KeysOf
  <2>2. \A s \in Stores : DOMAIN x.fs[s] = DOMAIN tree[s]
    BY <1>6, <1>8
  <2>3. \A k : k \in Alive(x) <=> \E s \in Stores : \E p \in DOMAIN tree[s] : k = <<s, p>>
    BY <2>1, <2>2
  <2>4. \A k : k \in Alive(x) <=> k \in K
    BY <1>2, <2>3, Zenon
  <2> QED
    BY <2>4
<1>13. \A s \in Stores : \A p \in DOMAIN tree[s] :
          At(x, <<s, p>>).dir = (tree[s][p] = "dir") /\ At(x, <<s, p>>).id = N(<<s, p>>)
  BY <1>6, <1>8 DEF At
<1>14. \A k \in Alive(x) : At(x, k).id = N(k)
  BY <1>2, <1>12, <1>13
<1>15. ASSUME NEW k \in Alive(x)
       PROVE  Front(k[2]) = Root \/ (Up(k) \in Alive(x) /\ At(x, Up(k)).dir)
  <2>1. PICK s \in Stores : \E p \in DOMAIN tree[s] : k = <<s, p>>
    BY <1>2, <1>12
  <2>2. PICK p \in DOMAIN tree[s] : k = <<s, p>>
    BY <2>1
  <2>3. k[2] = p /\ Up(k) = <<s, Front(p)>>
    BY <2>2 DEF Up
  <2>4. CASE Front(p) # Root
    BY <1>1, <1>2, <1>12, <1>13, <2>3, <2>4
  <2> QED
    BY <2>3, <2>4
<1>16. FsInv(x)
  BY <1>1, <1>4, <1>6, <1>11, <1>12, <1>14, <1>15 DEF FsInv, K
<1>17. HandlesInv(x)
  BY <1>6 DEF HandlesInv
<1> QED
  BY <1>6, <1>16, <1>17 DEF x

LEMMA InitInv == Init => IInv
<1> SUFFICES ASSUME Init PROVE IInv
  OBVIOUS
<1>1. PICK tree \in Trees : st = Rescan(Plant(tree))
  BY DEF Init
<1> DEFINE x == Plant(tree)
<1>2. FsInv(x) /\ HandlesInv(x) /\ ~x.raised
  BY PlantIs
<1> HIDE DEF x
<1>3. st = Rescan(x)
  BY <1>1 DEF x
<1>4. StoreInv(st) /\ st.raised = x.raised /\ DOMAIN st.handleOf = Alive(st)
  BY <1>2, <1>3, RescanIs
<1>5. st.next \in Nat \ {0} /\ MaxOps \in Nat
  BY <1>4, MtpAssumption DEF StoreInv, FsInv, StateType
<1>6. /\ session = FALSE /\ rx = NoRx /\ target = 0 /\ inq = <<>> /\ host = "idle"
      /\ op = Simple("info") /\ tx = 0 /\ answered = 0 /\ escaped = FALSE /\ added = FALSE
  BY DEF Init
<1>7. rx \in RxType /\ op \in OpType
  BY <1>6, NoRxIs
<1>8. inq \in Seq(Responses)
  BY <1>6, EmptySeq
<1>9. ~st.raised
  BY <1>2, <1>4
<1>10. /\ session \in BOOLEAN /\ escaped \in BOOLEAN /\ added \in BOOLEAN
       /\ host \in {"idle", "data", "response", "gone"} /\ host # "data"
  BY <1>6
<1>11. target \in 0 .. st.next - 1 /\ tx \in 0 .. MaxOps /\ answered \in 0 .. MaxOps
  BY <1>5, <1>6
<1>12. Reservation
  BY <1>6 DEF Reservation
<1> QED
  BY <1>4, <1>7, <1>8, <1>9, <1>10, <1>11, <1>12 DEF IInv

-----------------------------------------------------------------------------
(* The steps.                                                              *)

\* What a handler leaves to Becomes.
Answered(r) ==
    /\ Device(r) /\ Follows(st, r.st)
    /\ \/ r.target \in {0, target}
       \/ /\ rx.on /\ rx.op.kind = "sendinfo" /\ ~r.st.raised /\ Last(r.inq).rc = "ok"
          /\ r.target < r.st.next
    /\ rx.on /\ rx.op.kind = "sendobject" =>
          \A k \in Alive(st) \cap Alive(r.st) :
              At(r.st, k).data # At(st, k).data =>
                  Known(st, target) /\ At(st, k).id = Identity(st, target)

LEMMA InterfaceIs ==
    ASSUME IInv
    PROVE  /\ Device(Interface) /\ Interface.st = st /\ Interface.session = session
           /\ Interface.rx = rx /\ Interface.target = target /\ Interface.inq = inq
<1>1. st.next \in Nat
  BY DEF IInv, StoreInv, FsInv, StateType
<1>2. target \in Nat
  BY <1>1 DEF IInv
<1> QED
  BY <1>2 DEF IInv, Interface, Device

LEMMA OpIs ==
    ASSUME NEW kind \in Kinds, NEW h \in Nat, NEW s \in Stores \cup {0}, NEW parent \in Nat,
           NEW name \in Nat, NEW dir \in BOOLEAN, kind \in {"sendinfo", "rename"} => name \in Names
    PROVE  Op(kind, h, s, parent, name, dir) \in OpType
  BY DEF Op, OpType

LEMMA OperationIs ==
    ASSUME IInv, NEW o \in Operations
    PROVE  o \in OpType
<1>1. st.next \in Nat
  BY DEF IInv, StoreInv, FsInv, StateType
<1>2. Handles \subseteq Nat /\ Names \subseteq Nat /\ 0 \in Nat /\ FALSE \in BOOLEAN
      /\ 0 \in Stores \cup {0} /\ 1 \in Stores
  BY <1>1, StorageAssumption DEF Handles
<1>3. ASSUME NEW w \in Places PROVE w[1] \in Stores \cup {0} /\ w[2] \in Nat
  BY <1>2 DEF Places
<1>4. CASE o \in {Simple(k) : k \in {"info", "open", "close", "list", "setprop", "sendobject"}}
  <2>1. PICK k \in {"info", "open", "close", "list", "setprop", "sendobject"} : o = Simple(k)
    BY <1>4
  <2>2. o = Op(k, 0, 0, 0, 0, FALSE)
    BY <2>1 DEF Simple
  <2>3. k \in Kinds /\ k \notin {"sendinfo", "rename"}
    BY <2>1 DEF Kinds
  <2> QED
    BY <1>2, <2>2, <2>3, OpIs
<1>5. CASE o \in {Op(k, h, 0, 0, 0, FALSE) : k \in {"delete", "partial", "truncate"}, h \in Handles}
  <2>1. PICK k \in {"delete", "partial", "truncate"}, h \in Handles : o = Op(k, h, 0, 0, 0, FALSE)
    BY <1>5 DEF Op
  <2>2. k \in Kinds /\ k \notin {"sendinfo", "rename"} /\ h \in Nat
    BY <1>2, <2>1 DEF Kinds
  <2> QED
    BY <1>2, <2>1, <2>2, OpIs
<1>6. CASE o \in {Op("rename", h, 0, 0, n, FALSE) : h \in Handles, n \in Names}
  <2>1. PICK h \in Handles, n \in Names : o = Op("rename", h, 0, 0, n, FALSE)
    BY <1>6 DEF Op
  <2>2. "rename" \in Kinds /\ h \in Nat /\ n \in Nat
    BY <1>2, <2>1 DEF Kinds
  <2> QED
    BY <1>2, <2>1, <2>2, OpIs
<1>7. CASE o \in {Op(k, h, w[1], w[2], 0, FALSE) : k \in {"move", "copy"}, h \in Handles, w \in Places}
  <2>1. PICK k \in {"move", "copy"}, h \in Handles, w \in Places : o = Op(k, h, w[1], w[2], 0, FALSE)
    BY <1>7 DEF Op
  <2>2. k \in Kinds /\ k \notin {"sendinfo", "rename"} /\ h \in Nat
    BY <1>2, <2>1 DEF Kinds
  <2>3. w[1] \in Stores \cup {0} /\ w[2] \in Nat
    BY <1>3, <2>1
  <2> QED
    BY <1>2, <2>1, <2>2, <2>3, OpIs
<1>8. CASE o \in {Op("sendinfo", 0, w[1], w[2], n, d) : w \in Places, n \in Names, d \in BOOLEAN}
  <2>1. PICK w \in Places, n \in Names, d \in BOOLEAN : o = Op("sendinfo", 0, w[1], w[2], n, d)
    BY <1>8 DEF Op
  <2>2. "sendinfo" \in Kinds /\ n \in Nat /\ w[1] \in Stores \cup {0} /\ w[2] \in Nat
    BY <1>2, <1>3, <2>1 DEF Kinds
  <2> QED
    BY <1>2, <2>1, <2>2, OpIs
<1> QED
  BY <1>4, <1>5, <1>6, <1>7, <1>8, SMTT(20) DEF Operations, Op

\* The bound leaves room.
LEMMA OperationFits ==
    ASSUME IInv, NEW o \in Operations, NotTooDeep(o)
    PROVE  HasRoom(Interface, o)
<1> SUFFICES ASSUME o.kind \in {"move", "copy"}, Known(st, o.h), Target(st, o.s, o.parent) # NoDir
             PROVE  Landing(Interface, o) \in Paths /\ AllFits(st, o.h, Landing(Interface, o))
  BY InterfaceIs DEF HasRoom
<1> DEFINE dir == Target(st, o.s, o.parent).path
           n == Last(st.objects[o.h].path)
<1>1. StoreInv(st)
  BY DEF IInv
<1>2. o.h \in DOMAIN st.objects
  BY DEF Known
<1>3. n \in Names
  BY <1>1, <1>2, ObjectIs, LastName
<1>4. dir \in AnyPath
  BY <1>1, TargetIs
<1>5. Len(dir) + Height(o.h) <= MaxDepth
  BY DEF NotTooDeep
<1>6. Landing(Interface, o) = Append(dir, n)
  BY InterfaceIs DEF Landing
<1> HIDE DEF dir, n
<1> QED
  BY <1>1, <1>2, <1>3, <1>4, <1>5, <1>6, RoomFor

LEMMA DispatchAnswers ==
    ASSUME IInv, ~rx.on, NEW t \in 0 .. MaxOps, NEW o \in OpType, HasRoom(Interface, o)
    PROVE  LET r == Dispatch(Interface, t, o)
           IN  Answered(r) /\ (~r.rx.on \/ (r.st = st /\ r.rx.op = o))
<1> DEFINE r == Dispatch(Interface, t, o)
<1>1. Device(Interface) /\ Interface.st = st /\ Interface.rx = rx /\ Interface.target = target
  BY InterfaceIs
<1>2. StoreInv(Interface.st)
  BY <1>1 DEF IInv
<1>3. Dispatched(Interface, o, r)
  BY <1>1, <1>2, DispatchIs
<1> HIDE DEF r
<1>4. /\ Device(r) /\ Follows(st, r.st) /\ r.target = target
      /\ r.rx = rx \/ (r.st = st /\ r.rx.op = o)
  BY <1>1, <1>3 DEF Dispatched
<1> QED
  BY <1>4 DEF Answered, r

LEMMA CompleteAnswers ==
    ASSUME IInv, rx.on, NEW payload,
           rx.op.kind = "sendinfo" /\ payload = "data" =>
               Len(Target(st, rx.op.s, rx.op.parent).path) < MaxDepth
    PROVE  LET r == CompleteRx(Interface, payload)
           IN  Answered(r) /\ ~r.rx.on
<1> DEFINE r == CompleteRx(Interface, payload)
<1>1. Device(Interface) /\ Interface.st = st /\ Interface.rx = rx /\ Interface.target = target
  BY InterfaceIs
<1>2. StoreInv(Interface.st)
  BY <1>1 DEF IInv
<1>3. Completed(Interface, r)
  BY <1>1, <1>2, CompletedIs
<1> HIDE DEF r
<1>4. r.rx = NoRx
  BY <1>3 DEF Completed
<1>5. ~r.rx.on
  BY <1>4, NoRxIs
<1>6. Answered(r)
  BY <1>1, <1>3 DEF Completed, Answered
<1> QED
  BY <1>5, <1>6 DEF r

LEMMA CommandAnswers ==
    ASSUME IInv, NEW t \in 0 .. MaxOps, NEW o \in Operations, NotTooDeep(o)
    PROVE  LET r == OnCommand(Interface, t, o)
           IN  Answered(r) /\ (~r.rx.on \/ (r.st = st /\ r.rx.op = o))
<1>1. Interface.rx = rx
  BY InterfaceIs
<1>2. CASE rx.on
  <2>1. Params(o) # "data"
    BY DEF Params
  <2>2. OnCommand(Interface, t, o) = CompleteRx(Interface, Params(o))
    BY <1>1, <1>2 DEF OnCommand
  <2> QED
    BY <1>2, <2>1, <2>2, CompleteAnswers
<1>3. CASE ~rx.on
  <2>1. OnCommand(Interface, t, o) = Dispatch(Interface, t, o)
    BY <1>1, <1>3 DEF OnCommand
  <2>2. o \in OpType /\ HasRoom(Interface, o)
    BY OperationIs, OperationFits
  <2> QED
    BY <1>3, <2>1, <2>2, DispatchAnswers
<1> QED
  BY <1>2, <1>3

LEMMA DataAnswers ==
    ASSUME IInv, host = "data"
    PROVE  Answered(OnData(Interface, tx, op))
<1>1. Interface.rx = rx /\ Interface.st = st
  BY InterfaceIs
<1>2. CASE rx.on
  <2>1. PICK payload \in {"data"} : payload = "data"
    OBVIOUS
  <2>2. OnData(Interface, tx, op) = CompleteRx(Interface, payload)
    BY <1>1, <1>2, <2>1 DEF OnData
  <2>3. rx.op.kind = "sendinfo" => Len(Target(st, rx.op.s, rx.op.parent).path) < MaxDepth
    BY <1>2 DEF IInv
  <2>4. LET r == CompleteRx(Interface, payload) IN Answered(r) /\ ~r.rx.on
    BY <1>2, <2>3, CompleteAnswers
  <2> QED
    BY <2>2, <2>4
<1>3. CASE ~rx.on
  <2> DEFINE o == [op EXCEPT !.h = 0]
  <2>1. OnData(Interface, tx, op) = Dispatch(Interface, tx, o)
    BY <1>1, <1>3 DEF OnData
  <2>2. op \in OpType /\ tx \in 0 .. MaxOps
    BY DEF IInv
  <2>3. o \in OpType /\ o.h = 0
    BY <2>2 DEF OpType
  <2> HIDE DEF o
  <2>4. 0 \notin DOMAIN st.objects
    <3>1. StoreInv(st)
      BY DEF IInv
    <3>2. \A h \in DOMAIN st.objects : h \in 1 .. st.next - 1
      BY <3>1, ObjectIs
    <3> QED
      BY <3>2
  <2>5. HasRoom(Interface, o)
    BY <1>1, <2>3, <2>4 DEF HasRoom, Known
  <2>6. Answered(Dispatch(Interface, tx, o))
    BY <1>3, <2>2, <2>3, <2>5, DispatchAnswers
  <2> QED
    BY <2>1, <2>6
<1> QED
  BY <1>2, <1>3

\* Handles are stable, and a SendObject fills in what is reserved.
Kept ==
    /\ Stable(st, st')
    /\ rx.on /\ rx.op.kind = "sendobject" =>
          \A k \in Alive(st) \cap Alive(st') :
              At(st', k).data # At(st, k).data => At(st, k).id = reserved

\* What Becomes makes of it.
LEMMA BecomesInv ==
    ASSUME IInv, NEW r, Answered(r), NEW next, Becomes(r, next), added' = added
    PROVE  /\ StoreInv(st') /\ ~st'.raised /\ Kept
           /\ st'.fs = r.st.fs /\ st'.objects = r.st.objects
           /\ Alive(st') = Alive(r.st) /\ \A k : At(st', k) = At(r.st, k)
           /\ (escaped \/ added \/ DOMAIN st.handleOf = Alive(st))'
           /\ session' \in BOOLEAN /\ escaped' \in BOOLEAN /\ added' \in BOOLEAN
           /\ target' \in 0 .. st'.next - 1 /\ Reservation'
           /\ rx' = r.rx /\ rx' \in RxType /\ inq' \in Seq(Responses)
           /\ host' \in {"gone", next}
<1>1. Device(r) /\ StoreInv(r.st) /\ Stable(st, r.st)
  BY DEF Answered, Follows
<1>2. /\ st' = [r.st EXCEPT !.raised = FALSE]
      /\ session' = r.session /\ rx' = r.rx /\ target' = r.target
      /\ inq' = IF r.st.raised THEN <<>> ELSE r.inq
      /\ host' = IF r.st.raised THEN "gone" ELSE next
      /\ escaped' = (escaped \/ r.st.raised)
      /\ reserved' = MadeBy(r)
  BY DEF Becomes
<1>3. /\ Grew(r.st, st') /\ st'.raised = FALSE /\ st'.born = r.st.born /\ st'.fs = r.st.fs
      /\ Alive(st') = Alive(r.st) /\ \A k : At(st', k) = At(r.st, k)
  <2>1. PICK b \in BOOLEAN : b = FALSE
    OBVIOUS
  <2>2. st' = [r.st EXCEPT !.raised = b]
    BY <1>2, <2>1
  <2> QED
    BY <1>1, <2>1, <2>2, RaiseIs DEF StoreInv
<1>4. StoreInv(st')
  BY <1>1, <1>3, GrewKeeps
<1>5. st'.handleOf = r.st.handleOf /\ st'.objects = r.st.objects /\ st'.next = r.st.next
  BY <1>3 DEF Grew, SameBook
<1>6. /\ Named(st') = Named(r.st) /\ Ids(st') = Ids(r.st)
      /\ \A h : Identity(st', h) = Identity(r.st, h)
  BY <1>3, <1>5 DEF Named, Ids, Identity, Exists
<1>7. Stable(st, st')
  BY <1>1, <1>3, <1>5, <1>6 DEF Stable
<1>8. (escaped \/ added \/ DOMAIN st.handleOf = Alive(st))'
  <2>1. escaped \/ added \/ r.st.raised \/ DOMAIN r.st.handleOf = Alive(r.st)
    BY DEF IInv, Answered, Follows
  <2> QED
    BY <1>2, <1>3, <1>5, <2>1
<1>9. session' \in BOOLEAN /\ escaped' \in BOOLEAN /\ added' \in BOOLEAN
  <2>1. r.st.raised \in BOOLEAN
    BY <1>1 DEF StoreInv, FsInv, StateType
  <2>2. r.session \in BOOLEAN
    BY <1>1 DEF Device
  <2>3. escaped \in BOOLEAN /\ added \in BOOLEAN
    BY DEF IInv
  <2>4. escaped' \in BOOLEAN
    BY <1>2, <2>1, <2>3
  <2> QED
    BY <1>2, <2>2, <2>3, <2>4
<1>10. r.rx \in RxType /\ inq' \in Seq(Responses)
  <2>1. r.rx \in RxType /\ r.inq \in Seq(Responses)
    BY <1>1 DEF Device
  <2>2. <<>> \in Seq(Responses)
    OBVIOUS
  <2> QED
    BY <1>2, <2>1, <2>2
<1>11. r.target \in Nat /\ st.next \in Nat /\ r.st.next \in Nat \ {0} /\ st.next <= r.st.next
       /\ target \in 0 .. st.next - 1
  BY <1>1 DEF Device, IInv, StoreInv, FsInv, StateType, Stable
<1>12. target' \in 0 .. st'.next - 1
  <2>1. r.target < r.st.next
    BY <1>11 DEF Answered
  <2> QED
    BY <1>2, <1>5, <1>11, <2>1
<1>13. Reservation'
  <2> SUFFICES ASSUME target' # 0, Known(st', target') PROVE Identity(st', target') = reserved'
    BY DEF Reservation
  <2>1. CASE rx.on /\ rx.op.kind = "sendinfo" /\ ~r.st.raised /\ Last(r.inq).rc = "ok"
    <3>1. MadeBy(r) = Identity(r.st, r.target)
      BY <1>2, <2>1 DEF MadeBy, Identity
    <3> QED
      BY <1>2, <1>6, <3>1
  <2>2. CASE ~(rx.on /\ rx.op.kind = "sendinfo" /\ ~r.st.raised /\ Last(r.inq).rc = "ok")
    <3>1. r.target = target
      BY <1>2, <2>2 DEF Answered
    <3>2. reserved' = reserved
      BY <1>2, <2>2 DEF MadeBy
    <3>3. target \in DOMAIN st'.objects /\ target # 0
      BY <1>2, <3>1 DEF Known
    <3>4. target \in DOMAIN st.objects
      BY <1>7, <1>11, <3>3 DEF Stable
    <3>5. target \in Named(st) /\ target \in Named(st')
      BY <1>4, <3>3, <3>4, NamedIs DEF IInv
    <3>6. Identity(st', target) = Identity(st, target)
      BY <1>7, <3>5 DEF Stable
    <3>7. Identity(st, target) = reserved
      BY <3>3, <3>4 DEF IInv, Reservation, Known
    <3> QED
      BY <1>2, <3>1, <3>2, <3>6, <3>7
  <2> QED
    BY <2>1, <2>2
<1>14. Kept
  <2> SUFFICES ASSUME rx.on, rx.op.kind = "sendobject", NEW k \in Alive(st), k \in Alive(st'),
                      At(st', k).data # At(st, k).data
               PROVE  At(st, k).id = reserved
    BY <1>7 DEF Kept
  <2>1. Known(st, target) /\ At(st, k).id = Identity(st, target)
    BY <1>3 DEF Answered
  <2>2. StoreInv(st) /\ target \in DOMAIN st.objects
    BY <2>1 DEF IInv, Known
  <2>3. target # 0
    <3>1. \A h \in DOMAIN st.objects : h \in 1 .. st.next - 1
      BY <2>2, ObjectIs
    <3> QED
      BY <2>2, <3>1
  <2> QED
    BY <2>1, <2>3 DEF IInv, Reservation
<1> QED
  BY <1>2, <1>3, <1>4, <1>5, <1>14, <1>8, <1>9, <1>10, <1>12, <1>13

LEMMA SendCommandInv == ASSUME IInv, NEW o \in Operations, SendCommand(o) PROVE IInv' /\ Kept
<1>1. tx' = tx + 1 /\ tx < MaxOps /\ tx \in 0 .. MaxOps /\ MaxOps \in Nat /\ op' = o
      /\ answered' = answered /\ added' = added /\ NotTooDeep(o)
  BY MtpAssumption DEF SendCommand, IInv
<1>2. PICK t \in 0 .. MaxOps : t = tx'
  BY <1>1
<1>3. PICK r : r = OnCommand(Interface, t, o)
  OBVIOUS
<1>4. PICK next \in {"data", "response"} : next = IF HasData(o) THEN "data" ELSE "response"
  OBVIOUS
<1>5. Becomes(r, next)
  BY <1>2, <1>3, <1>4 DEF SendCommand
<1>6. Answered(r) /\ (~r.rx.on \/ (r.st = st /\ r.rx.op = o))
  BY <1>1, <1>3, CommandAnswers
<1>7. /\ StoreInv(st') /\ ~st'.raised /\ Kept /\ st'.objects = r.st.objects
      /\ (escaped \/ added \/ DOMAIN st.handleOf = Alive(st))'
      /\ session' \in BOOLEAN /\ escaped' \in BOOLEAN /\ added' \in BOOLEAN
      /\ target' \in 0 .. st'.next - 1 /\ Reservation'
      /\ rx' = r.rx /\ rx' \in RxType /\ inq' \in Seq(Responses)
      /\ host' \in {"gone", next}
  BY <1>1, <1>5, <1>6, BecomesInv
<1>8. ASSUME rx'.on, rx'.op.kind = "sendinfo"
      PROVE  Len(Target(st, rx.op.s, rx.op.parent).path)' < MaxDepth
  <2>1. st'.objects = st.objects /\ rx'.op = o /\ o.kind = "sendinfo"
    BY <1>6, <1>7, <1>8
  <2>2. Target(st', o.s, o.parent) = Target(st, o.s, o.parent)
    BY <2>1 DEF Target, Known
  <2>3. Len(Target(st, o.s, o.parent).path) < MaxDepth
    BY <1>1, <2>1 DEF NotTooDeep
  <2> QED
    BY <2>1, <2>2, <2>3
<1>9. op' \in OpType
  BY <1>1, OperationIs
<1>10. tx' \in 0 .. MaxOps /\ answered' \in 0 .. MaxOps
  BY <1>1, <1>2 DEF IInv
<1> QED
  BY <1>7, <1>8, <1>9, <1>10 DEF IInv

LEMMA SendDataInv == ASSUME IInv, SendData PROVE IInv' /\ Kept
<1>1. /\ host = "data" /\ op' = op /\ tx' = tx /\ answered' = answered /\ added' = added
      /\ op \in OpType /\ tx \in 0 .. MaxOps /\ answered \in 0 .. MaxOps
  BY DEF SendData, IInv
<1>2. PICK r : r = OnData(Interface, tx, op)
  OBVIOUS
<1>3. PICK next \in {"response"} : next = "response"
  OBVIOUS
<1>4. Becomes(r, next)
  BY <1>2, <1>3 DEF SendData
<1>5. Answered(r)
  BY <1>1, <1>2, DataAnswers
<1>6. /\ StoreInv(st') /\ ~st'.raised /\ Kept
      /\ (escaped \/ added \/ DOMAIN st.handleOf = Alive(st))'
      /\ session' \in BOOLEAN /\ escaped' \in BOOLEAN /\ added' \in BOOLEAN
      /\ target' \in 0 .. st'.next - 1 /\ Reservation'
      /\ rx' \in RxType /\ inq' \in Seq(Responses)
      /\ host' \in {"gone", next}
  BY <1>1, <1>4, <1>5, BecomesInv
<1>7. host' # "data" /\ host' \in {"gone", "response"}
  BY <1>3, <1>6
<1> QED
  BY <1>1, <1>6, <1>7 DEF IInv

\* Steps that leave the stores and the interface alone.
LEMMA StoresSame ==
    ASSUME IInv, UNCHANGED <<st, session, rx, target, reserved, escaped, added>>
    PROVE  /\ StoreInv(st') /\ ~st'.raised /\ Kept
           /\ (escaped \/ added \/ DOMAIN st.handleOf = Alive(st))'
           /\ session' \in BOOLEAN /\ escaped' \in BOOLEAN /\ added' \in BOOLEAN
           /\ target' \in 0 .. st'.next - 1 /\ Reservation' /\ rx' \in RxType
<1>1. Stable(st, st)
  BY SameFollows DEF IInv, Follows
<1>2. Kept
  BY <1>1 DEF Kept
<1>3. Alive(st') = Alive(st)
  BY DEF Alive
<1>4. Reservation'
  BY DEF IInv, Reservation, Known, Identity
<1> QED
  BY <1>2, <1>3, <1>4 DEF IInv

LEMMA ReceiveInv == ASSUME IInv, Receive PROVE IInv' /\ Kept
<1>1. UNCHANGED <<st, session, rx, target, tx, reserved, escaped, added>>
  BY DEF Receive
<1>2. inq \in Seq(Responses) /\ inq # <<>>
  BY DEF IInv, Receive
<1>3. Head(inq) \in Responses /\ Tail(inq) \in Seq(Responses)
  BY <1>2, HeadTailProperties
<1>4. inq' \in Seq(Responses) /\ answered' \in 0 .. MaxOps
  BY <1>3 DEF Receive, Responses
<1>5. op' \in OpType
  BY NoRxIs DEF Receive
<1>6. host' = "idle" /\ tx' \in 0 .. MaxOps
  BY DEF Receive, IInv
<1> QED
  BY <1>1, <1>4, <1>5, <1>6, StoresSame DEF IInv

LEMMA LeaveInv == ASSUME IInv, Leave PROVE IInv' /\ Kept
<1>1. UNCHANGED <<st, session, rx, target, tx, reserved, escaped, added>>
  BY DEF Leave
<1>2. inq' \in Seq(Responses) /\ answered' \in 0 .. MaxOps
  BY DEF Leave, IInv
<1>3. op' \in OpType
  BY NoRxIs DEF Leave
<1>4. host' = "gone" /\ tx' \in 0 .. MaxOps
  BY DEF Leave, IInv
<1> QED
  BY <1>1, <1>2, <1>3, <1>4, StoresSame DEF IInv

LEMMA AttachInv == ASSUME IInv, Attach PROVE IInv' /\ Kept
<1>1. UNCHANGED <<st, session, rx, target, reserved, escaped, added>>
  BY DEF Attach
<1>2. /\ host' = "idle" /\ inq' \in Seq(Responses) /\ op' \in OpType
      /\ tx' \in 0 .. MaxOps /\ answered' \in 0 .. MaxOps
  BY DEF Attach, IInv
<1> QED
  BY <1>1, <1>2, StoresSame DEF IInv

LEMMA SilentInv == ASSUME IInv, UNCHANGED vars PROVE IInv' /\ Kept
<1>1. UNCHANGED <<st, session, rx, target, reserved, escaped, added>>
  BY DEF vars
<1>2. /\ inq' \in Seq(Responses) /\ op' \in OpType /\ host' = host
      /\ tx' \in 0 .. MaxOps /\ answered' \in 0 .. MaxOps
  BY DEF vars, IInv
<1>3. (host = "data" /\ rx.on /\ rx.op.kind = "sendinfo" =>
          Len(Target(st, rx.op.s, rx.op.parent).path) < MaxDepth)'
  BY <1>1, <1>2 DEF IInv
<1>4. host' \in {"idle", "data", "response", "gone"}
  BY <1>2 DEF IInv
<1> QED
  BY <1>1, <1>2, <1>3, <1>4, StoresSame DEF IInv

LEMMA AppAddsInv == ASSUME IInv, NEW f \in AppFiles, AppAdds(f[1], f[2]) PROVE IInv' /\ Kept
<1>1. PICK s \in Stores, p \in Paths : s = f[1] /\ p = f[2]
  BY MtpAssumption
<1>2. FALSE \in BOOLEAN /\ "added" \in Contents /\ StoreInv(st)
  BY DEF Contents, IInv
<1>3. ~Exists(st, s, p) /\ IsDir(st, s, Front(p)) /\ st' = New(st, s, p, FALSE, "added")
  BY <1>1 DEF AppAdds
<1>4. PICK data \in Contents : data = "added"
  BY <1>2
<1>5. PICK dir \in BOOLEAN : dir = FALSE
  BY <1>2
<1>6. Grew(st, st') /\ st'.raised = st.raised /\ \A k \in Alive(st) : At(st', k) = At(st, k)
  <2> DEFINE y == New(st, s, p, dir, data)
  <2>1. y = New(st, s, p, dir, data)
    OBVIOUS
  <2>2. FsInv(st)
    BY <1>2 DEF StoreInv
  <2>3. ~Exists(st, s, p) /\ IsDir(st, s, Front(p)) /\ st' = y
    BY <1>3, <1>4, <1>5
  <2> HIDE DEF y
  <2>4. /\ Grew(st, y) /\ y.raised = st.raised /\ Alive(y) = Alive(st) \cup {<<s, p>>}
        /\ At(y, <<s, p>>).dir = dir /\ At(y, <<s, p>>).data = data
        /\ \A k \in Alive(st) : At(y, k) = At(st, k)
    BY <1>1, <1>4, <1>5, <2>1, <2>2, <2>3, NewIs
  <2> QED
    BY <2>3, <2>4
<1>7. StoreInv(st') /\ Stable(st, st')
  BY <1>2, <1>6, GrewStable
<1>14. Kept
  BY <1>6, <1>7 DEF Kept
<1>8. st'.objects = st.objects /\ st'.next = st.next
  BY <1>6 DEF Grew, SameBook
<1>9. UNCHANGED <<session, rx, target, inq, host, op, tx, answered, reserved, escaped>> /\ added' = TRUE
  BY DEF AppAdds
<1>10. Reservation'
  <2> SUFFICES ASSUME target # 0, Known(st, target) PROVE Identity(st', target) = reserved
    BY <1>8, <1>9 DEF Reservation, Known
  <2>1. target \in Named(st) /\ target \in Named(st')
    BY <1>2, <1>7, <1>8, NamedIs DEF Known
  <2>2. Identity(st', target) = Identity(st, target)
    BY <1>7, <2>1 DEF Stable
  <2> QED
    BY <2>2 DEF IInv, Reservation
<1>11. (host = "data" /\ rx.on /\ rx.op.kind = "sendinfo" =>
          Len(Target(st, rx.op.s, rx.op.parent).path) < MaxDepth)'
  <2>1. Target(st', rx.op.s, rx.op.parent) = Target(st, rx.op.s, rx.op.parent)
    BY <1>8 DEF Target, Known
  <2> QED
    BY <1>9, <2>1 DEF IInv
<1>12. target' \in 0 .. st'.next - 1 /\ ~st'.raised
  BY <1>6, <1>8, <1>9 DEF IInv
<1>13. /\ session' \in BOOLEAN /\ escaped' \in BOOLEAN /\ added' \in BOOLEAN
       /\ rx' \in RxType /\ inq' \in Seq(Responses) /\ op' \in OpType
       /\ host' \in {"idle", "data", "response", "gone"}
       /\ tx' \in 0 .. MaxOps /\ answered' \in 0 .. MaxOps
  BY <1>9 DEF IInv
<1> QED
  BY <1>7, <1>9, <1>10, <1>11, <1>12, <1>13, <1>14 DEF IInv

LEMMA NextInv == IInv /\ [Next]_vars => IInv' /\ Kept
<1> SUFFICES ASSUME IInv, [Next]_vars PROVE IInv' /\ Kept
  OBVIOUS
<1>1. ASSUME NEW o \in Operations, SendCommand(o) PROVE IInv' /\ Kept
  BY <1>1, SendCommandInv
<1>2. CASE SendData
  BY <1>2, SendDataInv
<1>3. CASE Receive
  BY <1>3, ReceiveInv
<1>4. CASE Leave
  BY <1>4, LeaveInv
<1>5. CASE Attach
  BY <1>5, AttachInv
<1>6. ASSUME NEW f \in AppFiles, AppAdds(f[1], f[2]) PROVE IInv' /\ Kept
  BY <1>6, AppAddsInv
<1>7. CASE UNCHANGED vars
  BY <1>7, SilentInv
<1> QED
  BY <1>1, <1>2, <1>3, <1>4, <1>5, <1>6, <1>7 DEF Next

-----------------------------------------------------------------------------
(* The theorems.                                                           *)

LEMMA Invariance == Spec => []IInv
<1>1. Init => IInv
  BY InitInv
<1>2. IInv /\ [Next]_vars => IInv'
  BY NextInv
<1> QED
  BY <1>1, <1>2, PTL DEF Spec

LEMMA InvTyped == IInv => TypeOK
<1> SUFFICES ASSUME IInv PROVE TypeOK
  OBVIOUS
<1>1. StoreInv(st) /\ FsInv(st) /\ st \in StateType
  BY DEF IInv, StoreInv, FsInv
<1>2. DOMAIN st.fs = Stores
  BY <1>1 DEF StateType
<1>3. ASSUME NEW s \in Stores, NEW p \in DOMAIN st.fs[s]
      PROVE  p \in Paths /\ st.fs[s][p] \in Node /\ IsDir(st, s, Front(p))
  <2>1. p \in Paths /\ st.fs[s][p] \in Node
    BY <1>1, AliveIs, MapIs
  <2> DEFINE k == <<s, p>>
  <2>2. k \in Alive(st) /\ k[2] = p /\ Up(k) = <<s, Front(p)>>
    BY <1>1, AliveIs DEF Up
  <2>3. Front(p) = Root \/ (Up(k) \in Alive(st) /\ At(st, Up(k)).dir)
    BY <1>1, <2>2 DEF FsInv
  <2>4. IsDir(st, s, Front(p))
    BY <1>1, <2>2, <2>3, StoreIs
  <2> QED
    BY <2>1, <2>4
<1>4. \A k \in DOMAIN st.handleOf : st.handleOf[k] \in 1 .. (st.next - 1)
  BY <1>1 DEF StoreInv, HandlesInv
<1> QED
  BY <1>2, <1>3, <1>4 DEF IInv, TypeOK

\* Whatever the host and the application do, every variable has its type and
\* each store stays a tree: a file or directory lies in a directory
\* (MtpStorage and FilesystemStore: make, write, delete, copy, rename).
THEOREM MtpTyped == Spec => []TypeOK
  BY Invariance, InvTyped, PTL

LEMMA InvMatch == IInv => HandlesMatchObjects
<1> SUFFICES ASSUME IInv PROVE HandlesMatchObjects
  OBVIOUS
<1>1. StoreInv(st)
  BY DEF IInv
<1>2. ASSUME NEW h \in DOMAIN st.objects
      PROVE  /\ <<st.objects[h].si, st.objects[h].path>> \in DOMAIN st.handleOf
             /\ st.handleOf[<<st.objects[h].si, st.objects[h].path>>] = h
             /\ st.objects[h].path \in Paths
  BY <1>1, ObjectIs
<1>3. ASSUME NEW k \in DOMAIN st.handleOf
      PROVE  \E h \in DOMAIN st.objects : k = <<st.objects[h].si, st.objects[h].path>>
  <2>1. /\ st.handleOf[k] \in DOMAIN st.objects
        /\ st.objects[st.handleOf[k]].si = k[1] /\ st.objects[st.handleOf[k]].path = k[2]
        /\ k \in Alive(st)
    BY <1>1 DEF StoreInv, ObjectsInv
  <2>2. k = <<k[1], k[2]>>
    BY <1>1, <2>1, AliveIs DEF StoreInv, FsInv
  <2> QED
    BY <2>1, <2>2
<1>4. DOMAIN st.handleOf = {<<st.objects[h].si, st.objects[h].path>> : h \in DOMAIN st.objects}
  BY <1>2, <1>3
<1>5. ASSUME NEW h \in DOMAIN st.objects, Len(st.objects[h].path) > 1
      PROVE  /\ <<st.objects[h].si, Front(st.objects[h].path)>> \in DOMAIN st.handleOf
             /\ st.objects[st.handleOf[<<st.objects[h].si, Front(st.objects[h].path)>>]].dir
  <2> DEFINE k == <<st.objects[h].si, st.objects[h].path>>
  <2>1. k \in DOMAIN st.handleOf /\ k[1] = st.objects[h].si /\ k[2] = st.objects[h].path /\ k[2] \in Paths
    BY <1>2
  <2>2. Front(k[2]) # Root
    <3>1. k[2] \in AnyPath /\ k[2] # Root /\ Len(k[2]) > 1 /\ Len(k[2]) \in Nat
      BY <1>5, <2>1, PathIs
    <3> HIDE DEF k
    <3>2. Len(Front(k[2])) = Len(k[2]) - 1
      BY <3>1, FrontIs
    <3> QED
      BY <3>1, <3>2 DEF Root
  <2>3. Up(k) \in DOMAIN st.handleOf /\ st.objects[st.handleOf[Up(k)]].dir
    BY <1>1, <2>1, <2>2 DEF StoreInv, ObjectsInv
  <2> QED
    BY <2>1, <2>3 DEF Up
<1> QED
  BY <1>2, <1>4, <1>5 DEF IInv, HandlesMatchObjects

\* The handles MtpStorage has given out and the objects of its snapshot name
\* each other, one to one, parents included, and unless a store has failed or
\* the application has added a file the snapshot is what the stores hold:
\* every operation that changes a store leaves no handle behind
\* (MtpStorage.rescan, _handle_for, rename).
THEOREM HandlesMatch == Spec => []HandlesMatchObjects
  BY Invariance, InvMatch, PTL

\* As long as a file or directory exists its handle names it, through every
\* rename and move within a store; handles are not given twice; and
\* SendObject fills in what the last SendObjectInfo made, or nothing
\* (MtpStorage.rename, rescan; MTP._recv_object).
THEOREM HandlesAreStable == Spec => HandlesStable
<1> DEFINE Step ==
       /\ \A h \in Named(st) :
             /\ Identity(st, h) \in Ids(st') => h \in Named(st')
             /\ h \in Named(st') => Identity(st', h) = Identity(st, h)
       /\ \A h \in DOMAIN st'.objects : h \in DOMAIN st.objects \/ h >= st.next
       /\ rx.on /\ rx.op.kind = "sendobject" =>
             \A s \in Stores : \A p \in DOMAIN st.fs[s] \cap DOMAIN st'.fs[s] :
                 st'.fs[s][p].data # st.fs[s][p].data => st.fs[s][p].id = reserved
<1>1. IInv /\ [Next]_vars => Step
  <2> SUFFICES ASSUME IInv, [Next]_vars PROVE Step
    OBVIOUS
  <2>1. IInv' /\ Kept
    BY NextInv
  <2>2. st \in StateType /\ st' \in StateType
    BY <2>1 DEF IInv, StoreInv, FsInv
  <2>3. ASSUME rx.on, rx.op.kind = "sendobject", NEW s \in Stores,
               NEW p \in DOMAIN st.fs[s] \cap DOMAIN st'.fs[s],
               st'.fs[s][p].data # st.fs[s][p].data
        PROVE  st.fs[s][p].id = reserved
    <3>1. <<s, p>> \in Alive(st) /\ <<s, p>> \in Alive(st')
      BY <2>2, AliveIs
    <3>2. At(st, <<s, p>>) = st.fs[s][p] /\ At(st', <<s, p>>) = st'.fs[s][p]
      BY DEF At
    <3> QED
      BY <2>1, <2>3, <3>1, <3>2 DEF Kept
  <2> QED
    BY <2>1, <2>3 DEF Kept, Stable
<1>2. HandlesStable <=> [][Step]_vars
  BY DEF HandlesStable
<1> HIDE DEF Step
<1>3. IInv /\ [Next]_vars => [Step]_vars
  BY <1>1
<1> QED
  BY <1>2, <1>3, Invariance, PTL DEF Spec

\* Of a file that a move takes along, one copy at least is left, if the
\* snapshot has it or the move is within a store.
LEMMA FileSurvives ==
    ASSUME NEW x, StoreInv(x), NEW h \in DOMAIN x.objects,
           NEW s \in Stores, NEW new \in Paths, CanMove(x, h, s, new), AllFits(x, h, new),
           NEW k \in Alive(x), Goes(k, x.objects[h].si, x.objects[h].path), ~At(x, k).dir,
           k \in DOMAIN x.handleOf \/ s = x.objects[h].si
    PROVE  LET y == Move(x, h, s, new)
               l == Land(k, s, x.objects[h].path, new)
           IN  \/ k \in Alive(y) /\ At(y, k) = At(x, k)
               \/ l \in Alive(y) /\ ~At(y, l).dir /\ At(y, l).data = At(x, k).data
<1> DEFINE si == x.objects[h].si
           old == x.objects[h].path
           l == Land(k, s, old, new)
           c == CopyTree(x, h, s, new)
           y == Move(x, h, s, new)
<1>1. si \in Stores /\ old \in AnyPath /\ new \in AnyPath /\ FsInv(x)
  BY ObjectIs, PathIs DEF StoreInv
<1>2. k[1] = si /\ Under(old, k[2])
  BY DEF Goes
<1>3. CASE s # si
  <2>1. Fits(x, h, new)
    BY AllFitsIs
  <2>2. k \in Below(x, si, old)
    BY <1>2, <1>3 DEF Below
  <2>3. /\ Grew(x, c) /\ \A j \in Alive(x) : j[1] # s => At(c, j) = At(x, j)
        /\ \A j \in Below(x, si, old) : At(x, j).dir \/ HasCopy(x, c, j, old, s, new)
    BY <1>1, <1>3, <2>1, CopyIs
  <2>4. HasCopy(x, c, k, old, s, new)
    BY <2>2, <2>3
  <2>5. y = IF ~c.raised THEN Rescan(Removed(c, si, old)) ELSE c
    BY <1>3 DEF Move, CopyIsDone
  <2> DEFINE w == Removed(c, si, old)
  <2> HIDE DEF c, y
  <2>6. CASE c.raised
    <3>1. k \in Alive(c) /\ At(c, k) = At(x, k)
      BY <1>2, <1>3, <2>3 DEF Grew
    <3> QED
      BY <2>5, <2>6, <3>1 DEF y
  <2>7. CASE ~c.raised
    <3>1. l \in Alive(c) /\ ~At(c, l).dir /\ At(c, l).data = At(x, k).data
      BY <2>4, <2>7 DEF HasCopy, Land
    <3>2. l[1] # si
      BY <1>3 DEF Land
    <3>3. FsInv(c)
      BY <2>3 DEF Grew
    <3> HIDE DEF l
    <3>4. l \in Alive(w) /\ At(w, l) = At(c, l)
      BY <1>1, <3>1, <3>2, <3>3, RemovedIs
    <3>5. Carried(x, w)
      BY <1>1, <2>3, RemovedCarried
    <3> HIDE DEF w
    <3>6. FsInv(w) /\ HandlesInv(w)
      BY <3>5 DEF Carried
    <3>7. Alive(Rescan(w)) = Alive(w) /\ \A j : At(Rescan(w), j) = At(w, j)
      BY <3>6, RescanIs
    <3>8. y = Rescan(w)
      BY <2>5, <2>7 DEF w
    <3>9. l \in Alive(y) /\ ~At(y, l).dir /\ At(y, l).data = At(x, k).data
      BY <3>1, <3>4, <3>7, <3>8
    <3> QED
      BY <3>9 DEF y, l
  <2> QED
    BY <2>6, <2>7
<1>4. CASE s = si /\ new = old
  <2>1. y = x
    BY <1>4 DEF Move
  <2> QED
    BY <2>1
<1>5. CASE s = si /\ new # old
  <2> DEFINE z == Renamed(x, s, old, new)
             w == [z EXCEPT !.handleOf = HandlesMove(x, s, old, new)]
  <2>1. Renames(x, s, old, new) /\ <<s, old>> \in DOMAIN x.handleOf
    BY <1>5, MoveRenames
  <2>2. y = Rescan(w)
    BY <1>5 DEF Move
  <2>3. Carried(x, w) /\ w.fs = z.fs
    BY <2>1, MoveCarried
  <2>4. From(k, l, s, old, new)
    BY <1>2, <1>5 DEF From, Goes
  <2>5. l \in Alive(z) /\ At(z, l) = At(x, k)
    BY <2>1, <2>4, FromIs
  <2> HIDE DEF z, w, y, l
  <2>6. l \in Alive(w) /\ At(w, l) = At(x, k)
    BY <2>3, <2>5 DEF Alive, At
  <2>7. FsInv(w) /\ HandlesInv(w)
    BY <2>3 DEF Carried
  <2>8. Alive(Rescan(w)) = Alive(w) /\ \A j : At(Rescan(w), j) = At(w, j)
    BY <2>7, RescanIs
  <2>9. l \in Alive(y) /\ ~At(y, l).dir /\ At(y, l).data = At(x, k).data
    BY <2>2, <2>6, <2>8
  <2> QED
    BY <2>9 DEF y, l
<1> QED
  BY <1>3, <1>4, <1>5

\* A move is done, or nothing is.
LEMMA MoveDispatched ==
    ASSUME IInv, NEW t \in 0 .. MaxOps, NEW o, o.kind = "move"
    PROVE  LET r == Dispatch(Interface, t, o)
               where == Target(st, o.s, o.parent)
               to == Landing(Interface, o)
           IN  \/ r.st = st
               \/ /\ where # NoDir /\ CanMove(st, o.h, where.si, to)
                  /\ r.st = Move(st, o.h, where.si, to)
<1> DEFINE d == Interface
           where == Target(st, o.s, o.parent)
           to == Landing(Interface, o)
           r == Dispatch(d, t, o)
           moved == Move(st, o.h, where.si, to)
<1>1. Device(d) /\ d.st = st
  BY InterfaceIs
<1> HIDE DEF d
<1>2. ASSUME NEW rc \in Codes PROVE Resp(d, t, rc).st = st
  BY <1>1, RespIs
<1>3. ASSUME NEW after PROVE Done(d, t, after).st = after
  BY <1>1, DoneIs
<1>4. /\ "read only" \in Codes /\ "invalid handle" \in Codes /\ "invalid parent" \in Codes
      /\ "general error" \in Codes /\ "no session" \in Codes
  BY DEF Codes
<1>5. \/ r = Resp(d, t, "no session") \/ r = Resp(d, t, "read only")
      \/ r = Resp(d, t, "invalid handle") \/ r = Resp(d, t, "invalid parent")
      \/ r = Resp(d, t, "general error")
      \/ where # NoDir /\ CanMove(st, o.h, where.si, to) /\ r = Done(d, t, moved)
  BY <1>1 DEF Dispatch, DispatchInSession, d
<1> HIDE DEF moved, r
<1>6. r.st = st \/ (where # NoDir /\ CanMove(st, o.h, where.si, to) /\ r.st = moved)
  BY <1>2, <1>3, <1>4, <1>5
<1> QED
  BY <1>6 DEF r, moved, d

LEMMA MoveStep ==
    ASSUME IInv, NEW o \in Operations, SendCommand(o), o.kind = "move", Known(st, o.h), ~rx.on,
           NEW q \in FilesBelow(st.objects[o.h]),
           \/ <<st.objects[o.h].si, q>> \in DOMAIN st.handleOf
           \/ Target(st, o.s, o.parent).si = st.objects[o.h].si
    PROVE  StaysOrLands(st.objects[o.h], q, Target(st, o.s, o.parent).si, Landing(Interface, o))
<1> DEFINE src   == st.objects[o.h]
           where == Target(st, o.s, o.parent)
           new   == Landing(Interface, o)
           k     == <<src.si, q>>
           l     == Land(k, where.si, src.path, new)
<1>1. tx' \in 0 .. MaxOps /\ NotTooDeep(o) /\ added' = added
  BY MtpAssumption DEF SendCommand, IInv
<1>2. PICK t \in 0 .. MaxOps : t = tx'
  BY <1>1
<1>3. PICK r : r = OnCommand(Interface, t, o)
  OBVIOUS
<1>4. PICK next \in {"data", "response"} : next = IF HasData(o) THEN "data" ELSE "response"
  OBVIOUS
<1>5. Becomes(r, next)
  BY <1>2, <1>3, <1>4 DEF SendCommand
<1>6. Answered(r)
  BY <1>1, <1>3, CommandAnswers
<1>7. StoreInv(st') /\ st'.fs = r.st.fs
  BY <1>1, <1>5, <1>6, BecomesInv
<1>8. StoreInv(st) /\ st \in StateType /\ st' \in StateType /\ o.h \in DOMAIN st.objects
  BY <1>7 DEF IInv, StoreInv, FsInv, Known
<1>9. src.si \in Stores /\ src.path \in Paths
  BY <1>8, ObjectIs
<1>10. /\ k \in Alive(st) /\ ~At(st, k).dir /\ At(st, k) = st.fs[src.si][q]
       /\ k[1] = src.si /\ k[2] = q /\ Under(src.path, q)
  BY <1>8, <1>9, StoreIs DEF At, FilesBelow
<1>11. k \in DOMAIN st.handleOf \/ where.si = src.si
  OBVIOUS
<1>12. r.st = st \/ (/\ where # NoDir /\ CanMove(st, o.h, where.si, new)
                     /\ r.st = Move(st, o.h, where.si, new))
  <2>1. r = Dispatch(Interface, t, o)
    BY <1>3, InterfaceIs DEF OnCommand
  <2> QED
    BY <2>1, MoveDispatched
<1>13. CASE r.st = st
  <2>1. IsFile(st', src.si, q) /\ st'.fs[src.si][q].data = st.fs[src.si][q].data
    BY <1>7, <1>13 DEF IsFile, Exists, FilesBelow
  <2> QED
    BY <2>1 DEF StaysOrLands
<1>14. CASE /\ where # NoDir /\ CanMove(st, o.h, where.si, new)
            /\ r.st = Move(st, o.h, where.si, new)
  <2>1. where.si \in Stores
    BY <1>8, <1>14, TargetIs
  <2>2. new \in Paths /\ AllFits(st, o.h, new)
    <3>1. HasRoom(Interface, o)
      BY <1>1, OperationFits
    <3>2. Interface.st = st
      BY InterfaceIs
    <3> QED
      BY <1>14, <3>1, <3>2 DEF HasRoom
  <2>3. Goes(k, src.si, src.path)
    BY <1>10 DEF Goes
  <2> HIDE DEF k, l, new, where, src
  <2>4. \/ k \in Alive(r.st) /\ At(r.st, k) = At(st, k)
        \/ l \in Alive(r.st) /\ ~At(r.st, l).dir /\ At(r.st, l).data = At(st, k).data
    BY <1>8, <1>10, <1>11, <1>14, <2>1, <2>2, <2>3, FileSurvives, ZenonT(40) DEF src, l
  <2>5. \A j : (j \in Alive(r.st) <=> j \in Alive(st')) /\ At(r.st, j) = At(st', j)
    BY <1>7 DEF Alive, At
  <2>6. CASE k \in Alive(st') /\ At(st', k) = At(st, k)
    <3>1. IsFile(st', src.si, q) /\ At(st', k) = st'.fs[src.si][q]
      BY <1>8, <1>9, <1>10, <2>6, StoreIs DEF At, k
    <3> QED
      BY <1>10, <2>6, <3>1 DEF src, StaysOrLands
  <2>7. CASE l \in Alive(st') /\ ~At(st', l).dir /\ At(st', l).data = At(st, k).data
    <3> DEFINE to == Moved(q, src.path, new)
    <3>1. l = <<where.si, to>>
      BY <1>10 DEF Land, l
    <3> HIDE DEF to
    <3>2. IsFile(st', where.si, to) /\ At(st', l) = st'.fs[where.si][to]
      BY <1>8, <2>1, <2>7, <3>1, StoreIs DEF At
    <3> QED
      BY <1>10, <2>7, <3>2 DEF to, src, where, new, StaysOrLands
  <2> QED
    BY <2>4, <2>5, <2>6, <2>7
<1> QED
  BY <1>12, <1>13, <1>14

\* A move loses no file that the snapshot has, and within a store no file at
\* all, whatever has been added and whatever has failed before, even when the
\* copy fails half way: it is where it was or where it should land, with its
\* content (MtpStorage.rename, _copy_tree; examples' FilesystemStore.rename).
\* Files that the snapshot does not have are lost by a move to another store.
THEOREM MovesKeep == Spec => MoveKeepsListed
<1> DEFINE Step == \A o \in {op'} : Moves(o) =>
          LET src   == st.objects[o.h]
              where == Target(st, o.s, o.parent)
          IN  \A q \in FilesBelow(src) :
                  <<src.si, q>> \in DOMAIN st.handleOf \/ where.si = src.si =>
                      StaysOrLands(src, q, where.si, Landing(Interface, o))
<1>1. IInv /\ [Next]_vars => Step
  <2> SUFFICES ASSUME IInv, [Next]_vars, tx' # tx,
                      NEW o, o = op', o.kind = "move", Known(st, o.h), ~rx.on,
                      NEW q \in FilesBelow(st.objects[o.h]),
                      \/ <<st.objects[o.h].si, q>> \in DOMAIN st.handleOf
                      \/ Target(st, o.s, o.parent).si = st.objects[o.h].si
               PROVE  StaysOrLands(st.objects[o.h], q, Target(st, o.s, o.parent).si,
                                   Landing(Interface, o))
    BY DEF Moves
  <2>1. \E c \in Operations : SendCommand(c)
    BY DEF Next, SendData, Receive, Leave, Attach, AppAdds, vars
  <2>2. PICK c \in Operations : SendCommand(c)
    BY <2>1
  <2>3. c = o
    BY <2>2 DEF SendCommand
  <2> QED
    BY <2>2, <2>3, MoveStep
<1>2. MoveKeepsListed <=> [][Step]_vars
  BY DEF MoveKeepsListed
<1> HIDE DEF Step
<1>3. IInv /\ [Next]_vars => [Step]_vars
  BY <1>1
<1> QED
  BY <1>2, <1>3, Invariance, PTL DEF Spec
=============================================================================
