---------------------------- MODULE BuddyProofs ----------------------------
(***************************************************************************)
(* Proofs about the physical page allocator, for every pool, number of     *)
(* orders and set of request sizes: no page is in two blocks (NoOverlap),  *)
(* the bitmap and the page flags are exact (BitmapExact, FlagsAgree), no   *)
(* page is lost but the ones that initialize() loses (PagesKept), and      *)
(* merging is complete (FullyMerged).                                      *)
(*                                                                         *)
(* The argument follows the pages that the listed blocks cover.            *)
(* allocateBlock() splits them into a block and the rest, releaseBlock()   *)
(* adds a block to them, and both keep the listed blocks aligned, apart    *)
(* and merged.  There is one such set of blocks for the pages covered.     *)
(* Only two partners of the largest order, of which releaseBlock() lists   *)
(* one, lose pages; after initialize() no page of a second one is left, so *)
(* it cannot happen again.                                                 *)
(***************************************************************************)
EXTENDS Buddy, Counting, SequenceTheorems, TLAPS

USE MaxOrderAssumption, TotalPagesAssumption, CountsAssumption

(***************************************************************************)
(* The powers of two.  The recursive definition of Pow2 defines a          *)
(* function: its beginnings exist and agree with each other.               *)
(***************************************************************************)
IsBeginning(r, n) ==
  r = [k \in 0 .. n |-> IF k = 0 THEN 1 ELSE 2 * r[k - 1]]

IsPow2(r) == r = [n \in Nat |-> IF n = 0 THEN 1 ELSE 2 * r[n - 1]]

LEMMA BeginningExists ==
  \A n \in Nat : \E r : IsBeginning(r, n)
  <1>1. PICK S : S = {n \in Nat : \E r : IsBeginning(r, n)}
    OBVIOUS
  <1>2. 0 \in S
    <2>1. PICK r : r = [k \in 0 .. 0 |-> 1]
      OBVIOUS
    <2>2. IsBeginning(r, 0)
      BY <2>1 DEF IsBeginning
    <2> QED BY <1>1, <2>2
  <1>3. ASSUME NEW n \in Nat, n \in S PROVE n + 1 \in S
    <2>1. PICK q : IsBeginning(q, n)
      BY <1>1, <1>3
    <2>2. PICK r : r = [k \in 0 .. n + 1 |-> IF k = n + 1 THEN 2 * q[n] ELSE q[k]]
      OBVIOUS
    <2>3. ASSUME NEW k \in 0 .. n + 1
          PROVE  r[k] = IF k = 0 THEN 1 ELSE 2 * r[k - 1]
      <3>1. CASE k = n + 1
        BY <2>2, <3>1
      <3>2. CASE k \in 0 .. n
        <4>1. q[k] = IF k = 0 THEN 1 ELSE 2 * q[k - 1]
          BY <2>1, <3>2 DEF IsBeginning
        <4> QED BY <2>2, <3>2, <4>1
      <3> QED BY <3>1, <3>2
    <2>4. IsBeginning(r, n + 1)
      BY <2>2, <2>3 DEF IsBeginning
    <2> QED BY <1>1, <2>4
  <1>4. \A n \in Nat : n \in S
    BY <1>2, <1>3, NatInduct
  <1> QED BY <1>1, <1>4

LEMMA BeginningsAgree ==
  ASSUME NEW n \in Nat, NEW m \in Nat, n <= m,
         NEW r, IsBeginning(r, n), NEW q, IsBeginning(q, m)
  PROVE  r[n] = q[n]
  <1>1. PICK S : S = {k \in 0 .. n : r[k] = q[k]}
    OBVIOUS
  <1>2. /\ r[0] = 1 /\ \A k \in 1 .. n : r[k] = 2 * r[k - 1]
        /\ q[0] = 1 /\ \A k \in 1 .. m : q[k] = 2 * q[k - 1]
    BY DEF IsBeginning
  <1>3. 0 \in S
    BY <1>1, <1>2
  <1>4. ASSUME NEW k \in 0 .. n - 1, k \in S PROVE k + 1 \in S
    <2>1. r[k + 1] = 2 * r[k] /\ q[k + 1] = 2 * q[k]
      BY <1>2
    <2> QED BY <1>1, <1>4, <2>1
  <1>5. \A k \in 0 .. n : k \in S
    BY <1>3, <1>4, UpInduction
  <1> QED BY <1>1, <1>5

LEMMA Pow2Exists ==
  \E r : IsPow2(r)
  <1>1. PICK B : B = [n \in Nat |-> CHOOSE r : IsBeginning(r, n)]
    OBVIOUS
  <1>2. \A n \in Nat : IsBeginning(B[n], n)
    BY <1>1, BeginningExists, Zenon
  <1>3. PICK r : r = [n \in Nat |-> B[n][n]]
    OBVIOUS
  <1>4. ASSUME NEW n \in Nat PROVE r[n] = IF n = 0 THEN 1 ELSE 2 * r[n - 1]
    <2>1. CASE n = 0
      <3>1. IsBeginning(B[0], 0)
        BY <1>2
      <3> QED BY <1>3, <2>1, <3>1 DEF IsBeginning
    <2>2. CASE n # 0
      <3>1. PICK m \in Nat : m = n - 1
        BY <2>2
      <3>2. IsBeginning(B[n], n) /\ IsBeginning(B[m], m) /\ m <= n
        BY <1>2, <3>1
      <3>3. B[m][m] = B[n][m]
        BY <3>2, BeginningsAgree
      <3>4. B[n][n] = 2 * B[n][m]
        BY <2>2, <3>1, <3>2 DEF IsBeginning
      <3> QED BY <1>3, <2>2, <3>1, <3>3, <3>4
    <2> QED BY <2>1, <2>2
  <1>5. IsPow2(r)
    BY <1>3, <1>4 DEF IsPow2
  <1> QED BY <1>5

LEMMA Pow2Rec ==
  Pow2[0] = 1 /\ \A n \in Nat : Pow2[n + 1] = 2 * Pow2[n]
  <1>1. IsPow2(Pow2)
    <2>1. PICK f : f = CHOOSE r : IsPow2(r)
      OBVIOUS
    <2>2. IsPow2(f)
      BY <2>1, Pow2Exists, Zenon
    <2>3. f = Pow2
      BY <2>1, Zenon DEF Pow2, IsPow2
    <2> QED BY <2>2, <2>3
  <1>2. \A n \in Nat : Pow2[n] = IF n = 0 THEN 1 ELSE 2 * Pow2[n - 1]
    BY <1>1 DEF IsPow2
  <1> QED BY <1>2

LEMMA Pow2Facts ==
  \A n \in Nat : Pow2[n] \in Nat /\ n < Pow2[n]
  <1>1. PICK S : S = {n \in Nat : Pow2[n] \in Nat /\ n < Pow2[n]}
    OBVIOUS
  <1>2. 0 \in S
    BY <1>1, Pow2Rec
  <1>3. ASSUME NEW n \in Nat, n \in S PROVE n + 1 \in S
    <2>1. Pow2[n + 1] = 2 * Pow2[n]
      BY Pow2Rec
    <2> QED BY <1>1, <1>3, <2>1
  <1>4. \A n \in Nat : n \in S
    BY <1>2, <1>3, NatInduct
  <1> QED BY <1>1, <1>4

LEMMA Pow2Nat ==
  ASSUME NEW n \in Nat
  PROVE  Pow2[n] \in Nat \ {0} /\ Pow2[n + 1] = 2 * Pow2[n]
  <1>1. Pow2[n] \in Nat /\ n < Pow2[n]
    BY Pow2Facts
  <1>2. Pow2[n + 1] = 2 * Pow2[n]
    BY Pow2Rec
  <1> QED BY <1>1, <1>2

(***************************************************************************)
(* A larger power of two is a multiple of a smaller one, by an even factor *)
(* if they differ.                                                         *)
(***************************************************************************)
Divides(d, n) == \E h \in Nat \ {0} : n = h * d

LEMMA Pow2Divides ==
  ASSUME NEW m \in Nat, NEW n \in Nat, m <= n
  PROVE  Divides(Pow2[m], Pow2[n])
  <1>1. PICK S : S = {k \in Nat : Divides(Pow2[m], Pow2[k])}
    OBVIOUS
  <1>2. m \in S
    <2>1. Pow2[m] \in Nat
      BY Pow2Nat
    <2>2. Pow2[m] = 1 * Pow2[m] /\ 1 \in Nat \ {0}
      BY <2>1
    <2>3. Divides(Pow2[m], Pow2[m])
      BY <2>2 DEF Divides
    <2> QED BY <1>1, <2>3
  <1>3. ASSUME NEW k \in m .. n - 1, k \in S PROVE k + 1 \in S
    <2>0. k \in Nat /\ k + 1 \in Nat
      OBVIOUS
    <2>1. PICK h \in Nat \ {0} : Pow2[k] = h * Pow2[m]
      BY <1>1, <1>3 DEF Divides
    <2>2. Pow2[k + 1] = 2 * Pow2[k] /\ Pow2[m] \in Nat
      BY <2>0, Pow2Nat
    <2>3. Pow2[k + 1] = (2 * h) * Pow2[m] /\ 2 * h \in Nat \ {0}
      BY <2>1, <2>2
    <2>4. Divides(Pow2[m], Pow2[k + 1])
      BY <2>3 DEF Divides
    <2> QED BY <1>1, <2>0, <2>4
  <1>4. \A k \in m .. n : k \in S
    BY <1>2, <1>3, UpInduction
  <1> QED BY <1>1, <1>4

LEMMA Pow2Mono ==
  ASSUME NEW m \in Nat, NEW n \in Nat, m < n
  PROVE  /\ 2 * Pow2[m] <= Pow2[n]
         /\ \E h \in Nat \ {0} : Pow2[n] = (2 * h) * Pow2[m]
  <1>1. m + 1 \in Nat /\ m + 1 <= n
    OBVIOUS
  <1>2. PICK h \in Nat \ {0} : Pow2[n] = h * Pow2[m + 1]
    BY <1>1, Pow2Divides DEF Divides
  <1>3. PICK s \in Nat \ {0} : s = Pow2[m] /\ Pow2[m + 1] = 2 * s
    BY Pow2Nat
  <1>4. h * (2 * s) = (2 * h) * s /\ 2 * s <= h * (2 * s)
    OBVIOUS
  <1> QED BY <1>2, <1>3, <1>4

(***************************************************************************)
(* log2() rounds down, and the block of count2order() holds the pages.     *)
(***************************************************************************)
LEMMA Log2Facts ==
  ASSUME NEW n \in Nat \ {0}
  PROVE  /\ Log2(n) \in Nat
         /\ Pow2[Log2(n)] <= n /\ n < Pow2[Log2(n) + 1]
  <1>1. \E k \in 0 .. n : Pow2[k] <= n /\ n < Pow2[k + 1]
    <2> SUFFICES ASSUME ~ \E k \in 0 .. n : Pow2[k] <= n /\ n < Pow2[k + 1]
                 PROVE  FALSE
      OBVIOUS
    <2>1. PICK S : S = {k \in Nat : Pow2[k] <= n}
      OBVIOUS
    <2>2. 0 \in S
      BY <2>1, Pow2Rec
    <2>3. ASSUME NEW k \in 0 .. n - 1, k \in S PROVE k + 1 \in S
      <3>1. ~ (n < Pow2[k + 1]) /\ k \in Nat
        BY <2>1, <2>3
      <3>2. Pow2[k + 1] \in Nat
        BY <3>1, Pow2Facts
      <3> QED BY <2>1, <3>1, <3>2
    <2>4. \A k \in 0 .. n : k \in S
      BY <2>2, <2>3, UpInduction
    <2>5. Pow2[n] <= n
      BY <2>1, <2>4
    <2> QED BY <2>5, Pow2Facts
  <1>2. Log2(n) = CHOOSE k \in 0 .. n : Pow2[k] <= n /\ n < Pow2[k + 1]
    BY DEF Log2
  <1>3. PICK l : l = Log2(n)
    OBVIOUS
  <1>4. l \in 0 .. n /\ Pow2[l] <= n /\ n < Pow2[l + 1]
    BY <1>1, <1>2, <1>3, Zenon
  <1> QED BY <1>3, <1>4

LEMMA Count2OrderFacts ==
  ASSUME NEW count \in Nat \ {0}
  PROVE  Count2Order(count) \in Nat /\ count <= Pow2[Count2Order(count)]
  <1>1. CASE count = 1
    BY <1>1, Pow2Rec DEF Count2Order, Log2
  <1>2. CASE count # 1
    <2>1. count - 1 \in Nat \ {0}
      BY <1>2
    <2>2. PICK l : l = Log2(count - 1)
      OBVIOUS
    <2>3. l \in Nat /\ count - 1 < Pow2[l + 1]
      BY <2>1, <2>2, Log2Facts
    <2>4. Pow2[l + 1] \in Nat
      BY <2>3, Pow2Facts
    <2> QED BY <2>2, <2>3, <2>4 DEF Count2Order
  <1> QED BY <1>1, <1>2

-----------------------------------------------------------------------------
(***************************************************************************)
(* A free list holds pages, none of them twice.  Inserting at the head     *)
(* adds one page; unlinking the node that findNode() returns drops one.    *)
(***************************************************************************)
IsList(s) ==
  /\ s \in Seq(Pages)
  /\ \A j, k \in 1 .. Len(s) : s[j] = s[k] => j = k

LEMMA PushList ==
  ASSUME NEW s, IsList(s), NEW i \in Pages, ~ Contains(s, i)
  PROVE  /\ IsList(<<i>> \o s)
         /\ \A j : Contains(<<i>> \o s, j) <=> (j = i \/ Contains(s, j))
  <1>1. PICK n \in Nat : n = Len(s)
    BY LenProperties DEF IsList
  <1>2. PICK t : t = <<i>> \o s
    OBVIOUS
  <1>3. <<i>> \in Seq(Pages) /\ Len(<<i>>) = 1 /\ <<i>>[1] = i
    OBVIOUS
  <1>4. /\ t \in Seq(Pages) /\ Len(t) = n + 1
        /\ \A k \in 1 .. n + 1 : t[k] = IF k <= 1 THEN i ELSE s[k - 1]
    <2>1. PICK u \in Seq(Pages) : u = <<i>> /\ Len(u) = 1 /\ u[1] = i
      BY <1>3
    <2>2. /\ u \o s \in Seq(Pages) /\ Len(u \o s) = Len(u) + Len(s)
          /\ \A k \in 1 .. Len(u) + Len(s) :
               (u \o s)[k] = IF k <= Len(u) THEN u[k] ELSE s[k - Len(u)]
      BY ConcatProperties DEF IsList
    <2> QED BY <1>1, <1>2, <2>1, <2>2
  <1>5. t[1] = i /\ \A k \in 1 .. n : t[k + 1] = s[k]
    BY <1>4
  <1>6. \A k \in 1 .. n : s[k] # i
    BY <1>1 DEF Contains
  <1>7. ASSUME NEW j \in 1 .. n + 1, NEW k \in 1 .. n + 1, t[j] = t[k] PROVE j = k
    <2>1. CASE j = 1 /\ k # 1
      BY <1>4, <1>6, <1>7, <2>1
    <2>2. CASE j # 1 /\ k = 1
      BY <1>4, <1>6, <1>7, <2>2
    <2>3. CASE j # 1 /\ k # 1
      <3>1. PICK x \in 1 .. n, y \in 1 .. n : x = j - 1 /\ y = k - 1
        BY <2>3
      <3>2. s[x] = s[y]
        BY <1>4, <1>7, <2>3, <3>1
      <3>3. x = y
        BY <1>1, <3>2 DEF IsList
      <3> QED BY <3>1, <3>3
    <2> QED BY <2>1, <2>2, <2>3
  <1>8. IsList(t)
    BY <1>4, <1>7 DEF IsList
  <1>9. ASSUME NEW j PROVE Contains(t, j) <=> (j = i \/ Contains(s, j))
    <2>1. ASSUME Contains(t, j) PROVE j = i \/ Contains(s, j)
      <3>1. PICK k \in 1 .. n + 1 : t[k] = j
        BY <1>4, <2>1 DEF Contains
      <3>2. CASE k = 1
        BY <1>5, <3>1, <3>2
      <3>3. CASE k # 1
        <4>1. k - 1 \in 1 .. n /\ s[k - 1] = j
          BY <1>4, <3>1, <3>3
        <4> QED BY <1>1, <4>1 DEF Contains
      <3> QED BY <3>2, <3>3
    <2>2. ASSUME j = i PROVE Contains(t, j)
      <3>1. 1 \in 1 .. Len(t) /\ t[1] = j
        BY <1>4, <1>5, <2>2
      <3> QED BY <3>1 DEF Contains
    <2>3. ASSUME Contains(s, j) PROVE Contains(t, j)
      <3>1. PICK k \in 1 .. n : s[k] = j
        BY <1>1, <2>3 DEF Contains
      <3>2. k + 1 \in 1 .. Len(t) /\ t[k + 1] = j
        BY <1>4, <1>5, <3>1
      <3> QED BY <3>2 DEF Contains
    <2> QED BY <2>1, <2>2, <2>3
  <1> QED BY <1>2, <1>8, <1>9

LEMMA FindNodeFinds ==
  ASSUME NEW s, IsList(s), NEW i, Contains(s, i)
  PROVE  FindNode(s, i) \in 1 .. Len(s) /\ s[FindNode(s, i)] = i
  <1>1. PICK k \in 1 .. Len(s) : s[k] = i
    BY DEF Contains
  <1>2. Len(s) \in Nat
    BY LenProperties DEF IsList
  <1>3. \A j \in 1 .. k - 1 : s[j] # i
    <2>1. ASSUME NEW j \in 1 .. k - 1, s[j] = i PROVE FALSE
      <3>1. j \in 1 .. Len(s) /\ j # k
        BY <1>2
      <3> QED BY <1>1, <2>1, <3>1 DEF IsList
    <2> QED BY <2>1
  <1> QED BY <1>1, <1>3, Zenon DEF FindNode

LEMMA DropList ==
  ASSUME NEW s, IsList(s), NEW i, Contains(s, i)
  PROVE  /\ IsList(RemoveAt(s, FindNode(s, i)))
         /\ \A j : Contains(RemoveAt(s, FindNode(s, i)), j)
                     <=> (Contains(s, j) /\ j # i)
  <1>1. PICK m \in 1 .. Len(s) : m = FindNode(s, i) /\ s[m] = i
    BY FindNodeFinds
  <1>2. PICK n \in Nat : n = Len(s)
    BY LenProperties DEF IsList
  <1>3. PICK t : t = RemoveAt(s, m)
    OBVIOUS
  <1>4. \A k \in 1 .. n : s[k] \in Pages
    BY <1>2, ElementOfSeq DEF IsList
  <1>5. PICK a : a = SubSeq(s, 1, m - 1)
    OBVIOUS
  <1>6. PICK b : b = SubSeq(s, m + 1, n)
    OBVIOUS
  <1>7. /\ a \in Seq(Pages) /\ Len(a) = m - 1
        /\ \A k \in 1 .. m - 1 : a[k] = s[k]
    <2>1. PICK h \in Int : h = m - 1
      BY <1>1, <1>2
    <2>2. \A k \in 1 .. h : s[k] \in Pages
      BY <1>1, <1>2, <1>4, <2>1
    <2>3. /\ SubSeq(s, 1, h) \in Seq(Pages)
          /\ Len(SubSeq(s, 1, h)) = IF 1 <= h THEN h - 1 + 1 ELSE 0
          /\ \A k \in 1 .. h - 1 + 1 : SubSeq(s, 1, h)[k] = s[1 + k - 1]
      BY <2>2, SubSeqProperties
    <2> QED BY <1>1, <1>2, <1>5, <2>1, <2>3
  <1>8. /\ b \in Seq(Pages) /\ Len(b) = n - m
        /\ \A k \in 1 .. n - m : b[k] = s[m + k]
    <2>1. PICK l \in Int : l = m + 1
      BY <1>1, <1>2
    <2>2. \A k \in l .. n : s[k] \in Pages
      BY <1>1, <1>2, <1>4, <2>1
    <2>3. /\ SubSeq(s, l, n) \in Seq(Pages)
          /\ Len(SubSeq(s, l, n)) = IF l <= n THEN n - l + 1 ELSE 0
          /\ \A k \in 1 .. n - l + 1 : SubSeq(s, l, n)[k] = s[l + k - 1]
      BY <2>2, SubSeqProperties
    <2> QED BY <1>1, <1>2, <1>6, <2>1, <2>3
  <1>9. t = a \o b
    BY <1>2, <1>3, <1>5, <1>6 DEF RemoveAt
  <1>10. /\ t \in Seq(Pages) /\ Len(t) = n - 1
         /\ \A k \in 1 .. n - 1 : t[k] = IF k < m THEN s[k] ELSE s[k + 1]
    <2>1. /\ a \o b \in Seq(Pages) /\ Len(a \o b) = Len(a) + Len(b)
          /\ \A k \in 1 .. Len(a) + Len(b) :
               (a \o b)[k] = IF k <= Len(a) THEN a[k] ELSE b[k - Len(a)]
      BY <1>7, <1>8, ConcatProperties
    <2>2. Len(a) = m - 1 /\ Len(b) = n - m /\ m \in 1 .. n
      BY <1>1, <1>2, <1>7, <1>8
    <2>3. ASSUME NEW k \in 1 .. n - 1 PROVE t[k] = IF k < m THEN s[k] ELSE s[k + 1]
      <3>1. CASE k < m
        BY <1>7, <1>9, <2>1, <2>2, <3>1
      <3>2. CASE ~ (k < m)
        <4>1. k - (m - 1) \in 1 .. n - m /\ m + (k - (m - 1)) = k + 1
          BY <2>2, <3>2
        <4>2. t[k] = b[k - (m - 1)]
          BY <1>9, <2>1, <2>2, <3>2
        <4> QED BY <1>8, <3>2, <4>1, <4>2
      <3> QED BY <3>1, <3>2
    <2> QED BY <1>9, <2>1, <2>2, <2>3
  <1>11. m \in 1 .. n
    BY <1>1, <1>2
  <1>12. ASSUME NEW j \in 1 .. n - 1, NEW k \in 1 .. n - 1, t[j] = t[k] PROVE j = k
    <2>1. PICK x \in 1 .. n : x = IF j < m THEN j ELSE j + 1
      BY <1>11
    <2>2. PICK y \in 1 .. n : y = IF k < m THEN k ELSE k + 1
      BY <1>11
    <2>3. t[j] = s[x] /\ t[k] = s[y]
      BY <1>10, <2>1, <2>2
    <2>4. x = y
      BY <1>2, <1>12, <2>3 DEF IsList
    <2> QED BY <1>11, <2>1, <2>2, <2>4
  <1>13. IsList(t)
    BY <1>10, <1>12 DEF IsList
  <1>14. ASSUME NEW j PROVE Contains(t, j) <=> (Contains(s, j) /\ j # i)
    <2>1. ASSUME Contains(t, j) PROVE Contains(s, j) /\ j # i
      <3>1. PICK k \in 1 .. n - 1 : t[k] = j
        BY <1>10, <2>1 DEF Contains
      <3>2. PICK x \in 1 .. n : x = (IF k < m THEN k ELSE k + 1) /\ x # m
        BY <1>11
      <3>3. s[x] = j
        BY <1>10, <3>1, <3>2
      <3>4. s[x] # s[m]
        BY <1>2, <1>11, <3>2 DEF IsList
      <3> QED BY <1>1, <1>2, <3>2, <3>3, <3>4 DEF Contains
    <2>2. ASSUME Contains(s, j), j # i PROVE Contains(t, j)
      <3>1. PICK x \in 1 .. n : s[x] = j
        BY <1>2, <2>2 DEF Contains
      <3>2. x # m
        BY <1>1, <2>2, <3>1
      <3>3. PICK k \in 1 .. n - 1 : k = IF x < m THEN x ELSE x - 1
        BY <1>11, <3>2
      <3>4. t[k] = j
        BY <1>10, <1>11, <3>1, <3>2, <3>3
      <3> QED BY <1>10, <3>4 DEF Contains
    <2> QED BY <2>1, <2>2
  <1> QED BY <1>1, <1>3, <1>13, <1>14

LEMMA HeadOfList ==
  ASSUME NEW s, IsList(s), s # <<>>
  PROVE  Contains(s, Head(s))
  <1>1. Len(s) \in Nat \ {0}
    BY EmptySeq DEF IsList
  <1>2. Head(s) = s[1]
    BY DEF IsList
  <1> QED BY <1>1, <1>2 DEF Contains

LEMMA ListElements ==
  ASSUME NEW s, IsList(s)
  PROVE  /\ \A i : Contains(s, i) => i \in Pages
         /\ ToSet(s) = {i \in Pages : Contains(s, i)}
         /\ (s = <<>>) => \A i : ~ Contains(s, i)
  <1>1. Len(s) \in Nat /\ DOMAIN s = 1 .. Len(s) /\ \A k \in 1 .. Len(s) : s[k] \in Pages
    BY LenProperties DEF IsList
  <1>2. ToSet(s) = {i \in Pages : Contains(s, i)}
    <2>1. ASSUME NEW i PROVE i \in ToSet(s) <=> (i \in Pages /\ Contains(s, i))
      BY <1>1 DEF ToSet, Contains
    <2> QED BY <2>1
  <1>3. (s = <<>>) => Len(s) = 0
    OBVIOUS
  <1> QED BY <1>1, <1>2, <1>3 DEF Contains

-----------------------------------------------------------------------------
(***************************************************************************)
(* The free lists as a set of blocks: <<i, o>> is listed.  A good block is *)
(* aligned and lies in the pool; in a sound area the blocks are good and   *)
(* no page is in two of them.                                              *)
(***************************************************************************)
IsArea(fa) ==
  /\ fa = [o \in Orders |-> fa[o]]
  /\ \A o \in Orders : IsList(fa[o])

Block(fa, i, o) == o \in Orders /\ Contains(fa[o], i)

Over(q, i, o) == i <= q /\ q < i + Pow2[o]

Covered(fa, q) == \E i, o : Block(fa, i, o) /\ Over(q, i, o)

Multiple(i, d) == \E h \in Nat : i = h * d

GoodBlock(i, o) ==
  /\ o \in Orders
  /\ i \in Pages
  /\ i + Pow2[o] <= TotalPages
  /\ Multiple(i, Pow2[o])

AllGood(fa) == \A i, o : Block(fa, i, o) => GoodBlock(i, o)

Apart(fa) ==
  \A q \in Pages : \A i, o, j, p :
    Block(fa, i, o) /\ Block(fa, j, p) /\ Over(q, i, o) /\ Over(q, j, p)
      => i = j /\ o = p

Sound(fa) == IsArea(fa) /\ AllGood(fa) /\ Apart(fa)

Plus(fa, ga, i, o) ==
  \A j, p : Block(ga, j, p) <=> (Block(fa, j, p) \/ (j = i /\ p = o))

Minus(fa, ga, i, o) ==
  \A j, p : Block(ga, j, p) <=> (Block(fa, j, p) /\ ~ (j = i /\ p = o))

LEMMA OrderSize ==
  ASSUME NEW o \in Orders
  PROVE  o \in Nat /\ Pow2[o] \in Nat \ {0} /\ Pow2[o + 1] = 2 * Pow2[o]
  BY Pow2Nat DEF Orders

LEMMA OverFirst ==
  ASSUME NEW i \in Pages, NEW o \in Orders
  PROVE  Over(i, i, o)
  BY OrderSize DEF Over, Pages

(***************************************************************************)
(* As long as one page is in no free block, insert_freeNode() finds a      *)
(* node: the listed blocks start at different pages.                       *)
(***************************************************************************)
LEMMA NodeThere ==
  ASSUME NEW fa, Sound(fa), NEW q \in Pages, ~ Covered(fa, q)
  PROVE  NodesUsed(fa) < TotalPages
  <1>1. PICK N : N = UNION {{o} \X DOMAIN fa[o] : o \in Orders}
    OBVIOUS
  <1>2. ASSUME NEW n \in N
        PROVE  /\ n[1] \in Orders /\ n[2] \in 1 .. Len(fa[n[1]])
               /\ n = <<n[1], n[2]>>
               /\ Block(fa, fa[n[1]][n[2]], n[1])
    <2>1. PICK o \in Orders : n \in {o} \X DOMAIN fa[o]
      BY <1>1
    <2>2. n[1] = o /\ n[2] \in DOMAIN fa[o] /\ n = <<n[1], n[2]>>
      BY <2>1
    <2>3. DOMAIN fa[o] = 1 .. Len(fa[o])
      BY LenProperties DEF Sound, IsArea, IsList
    <2> QED BY <2>2, <2>3 DEF Block, Contains
  <1>3. PICK f : f = [n \in N |-> fa[n[1]][n[2]]]
    OBVIOUS
  <1>4. PICK P : P = Pages \ {q}
    OBVIOUS
  <1>5. ASSUME NEW n \in N
        PROVE  f[n] \in P /\ Over(f[n], f[n], n[1]) /\ Block(fa, f[n], n[1])
    <2>1. Block(fa, f[n], n[1]) /\ n[1] \in Orders
      BY <1>2, <1>3
    <2>2. f[n] \in Pages
      BY <2>1 DEF Sound, AllGood, GoodBlock
    <2>3. Over(f[n], f[n], n[1])
      BY <2>1, <2>2, OverFirst
    <2>4. f[n] # q
      BY <2>1, <2>3 DEF Covered
    <2> QED BY <1>4, <2>1, <2>2, <2>3, <2>4
  <1>6. ASSUME NEW n \in N, NEW m \in N, f[n] = f[m] PROVE n = m
    <2>1. f[n] \in Pages
      BY <1>4, <1>5
    <2>2. n[1] = m[1]
      BY <1>5, <1>6, <2>1 DEF Sound, Apart
    <2>3. n[1] \in Orders /\ n[2] \in 1 .. Len(fa[n[1]]) /\ m[2] \in 1 .. Len(fa[n[1]])
      BY <1>2, <2>2
    <2>4. fa[n[1]][n[2]] = fa[n[1]][m[2]]
      BY <1>3, <1>6, <2>2
    <2>5. n[2] = m[2]
      BY <2>3, <2>4 DEF Sound, IsArea, IsList
    <2> QED BY <1>2, <2>2, <2>5
  <1>7. f \in [N -> P]
    BY <1>3, <1>5
  <1>8. f \in Injection(N, P)
    BY <1>6, <1>7 DEF Injection, IsInjective
  <1>9. IsFiniteSet(Pages) /\ Cardinality(Pages) = TotalPages
    <2>1. TotalPages - 1 \in Int /\ 0 <= TotalPages - 1
      OBVIOUS
    <2> QED BY <2>1, FS_Interval DEF Pages
  <1>10. IsFiniteSet(P) /\ Cardinality(P) = TotalPages - 1
    BY <1>4, <1>9, FS_RemoveElement
  <1>11. Cardinality(N) <= Cardinality(P) /\ IsFiniteSet(N)
    BY <1>8, <1>10, FS_Injection
  <1>12. Cardinality(N) \in Nat
    BY <1>11, FS_CardinalityType
  <1>13. NodesUsed(fa) = Cardinality(N)
    BY <1>1 DEF NodesUsed
  <1> QED BY <1>10, <1>11, <1>12, <1>13

LEMMA InsertAdds ==
  ASSUME NEW fa, Sound(fa), NEW i, NEW o, GoodBlock(i, o),
         \A q \in Pages : Over(q, i, o) => ~ Covered(fa, q)
  PROVE  /\ Sound(InsertFreeNode(fa, i, o))
         /\ Plus(fa, InsertFreeNode(fa, i, o), i, o)
  <1>1. PICK ga : ga = InsertFreeNode(fa, i, o)
    OBVIOUS
  <1>2. i \in Pages /\ o \in Orders /\ Over(i, i, o)
    BY OverFirst DEF GoodBlock
  <1>3. ~ Covered(fa, i)
    BY <1>2
  <1>4. ga = [fa EXCEPT ![o] = <<i>> \o fa[o]]
    BY <1>1, <1>2, <1>3, NodeThere DEF InsertFreeNode
  <1>5. IsList(fa[o]) /\ ~ Contains(fa[o], i)
    BY <1>2, <1>3 DEF Sound, IsArea, Covered, Block
  <1>6. PICK t : t = <<i>> \o fa[o]
    OBVIOUS
  <1>7. IsList(t) /\ \A j : Contains(t, j) <=> (j = i \/ Contains(fa[o], j))
    BY <1>2, <1>5, <1>6, PushList
  <1>8. ga = [p \in Orders |-> IF p = o THEN t ELSE fa[p]]
    BY <1>4, <1>6 DEF Sound, IsArea
  <1>9. IsArea(ga)
    BY <1>7, <1>8 DEF Sound, IsArea
  <1>10. Plus(fa, ga, i, o)
    <2>1. ASSUME NEW j, NEW p
          PROVE  Block(ga, j, p) <=> (Block(fa, j, p) \/ (j = i /\ p = o))
      BY <1>2, <1>7, <1>8 DEF Block
    <2> QED BY <2>1 DEF Plus
  <1>11. AllGood(ga)
    BY <1>10 DEF Plus, AllGood, Sound
  <1>12. Apart(ga)
    <2> SUFFICES ASSUME NEW q \in Pages, NEW j, NEW p, NEW k, NEW r,
                        Block(ga, j, p), Block(ga, k, r), Over(q, j, p), Over(q, k, r)
                 PROVE  j = k /\ p = r
      BY DEF Apart
    <2>1. CASE Block(fa, j, p) /\ Block(fa, k, r)
      BY <2>1 DEF Sound, Apart
    <2>2. CASE Block(fa, j, p) /\ k = i /\ r = o
      BY <2>2 DEF Covered
    <2>3. CASE Block(fa, k, r) /\ j = i /\ p = o
      BY <2>3 DEF Covered
    <2>4. CASE j = i /\ p = o /\ k = i /\ r = o
      BY <2>4
    <2> QED BY <1>10, <2>1, <2>2, <2>3, <2>4 DEF Plus
  <1> QED BY <1>1, <1>9, <1>10, <1>11, <1>12 DEF Sound

LEMMA RemoveDrops ==
  ASSUME NEW fa, Sound(fa), NEW i, NEW o, Block(fa, i, o)
  PROVE  /\ Sound(RemoveFreeNode(fa, i, o))
         /\ Minus(fa, RemoveFreeNode(fa, i, o), i, o)
  <1>1. PICK ga : ga = RemoveFreeNode(fa, i, o)
    OBVIOUS
  <1>2. o \in Orders /\ Contains(fa[o], i) /\ IsList(fa[o])
    BY DEF Block, Sound, IsArea
  <1>3. PICK t : t = RemoveAt(fa[o], FindNode(fa[o], i))
    OBVIOUS
  <1>4. IsList(t) /\ \A j : Contains(t, j) <=> (Contains(fa[o], j) /\ j # i)
    BY <1>2, <1>3, DropList
  <1>5. ga = [p \in Orders |-> IF p = o THEN t ELSE fa[p]]
    BY <1>1, <1>3 DEF RemoveFreeNode, Sound, IsArea
  <1>6. IsArea(ga)
    BY <1>4, <1>5 DEF Sound, IsArea
  <1>7. Minus(fa, ga, i, o)
    <2>1. ASSUME NEW j, NEW p
          PROVE  Block(ga, j, p) <=> (Block(fa, j, p) /\ ~ (j = i /\ p = o))
      BY <1>2, <1>4, <1>5 DEF Block
    <2> QED BY <2>1 DEF Minus
  <1>8. AllGood(ga) /\ Apart(ga)
    BY <1>7 DEF Minus, AllGood, Apart, Sound
  <1> QED BY <1>1, <1>6, <1>7, <1>8 DEF Sound

LEMMA PlusCovers ==
  ASSUME NEW fa, NEW ga, NEW i, NEW o, o \in Orders, Plus(fa, ga, i, o), NEW q
  PROVE  Covered(ga, q) <=> (Covered(fa, q) \/ Over(q, i, o))
  BY DEF Plus, Covered

LEMMA MinusCovers ==
  ASSUME NEW fa, Sound(fa), NEW ga, NEW i, NEW o, Block(fa, i, o),
         Minus(fa, ga, i, o), NEW q \in Pages
  PROVE  Covered(ga, q) <=> (Covered(fa, q) /\ ~ Over(q, i, o))
  <1>1. ASSUME Covered(ga, q) PROVE Covered(fa, q) /\ ~ Over(q, i, o)
    <2>1. PICK j, p : Block(ga, j, p) /\ Over(q, j, p)
      BY <1>1 DEF Covered
    <2>2. Block(fa, j, p) /\ ~ (j = i /\ p = o)
      BY <2>1 DEF Minus
    <2> QED BY <2>1, <2>2 DEF Sound, Apart, Covered
  <1>2. ASSUME Covered(fa, q), ~ Over(q, i, o) PROVE Covered(ga, q)
    <2>1. PICK j, p : Block(fa, j, p) /\ Over(q, j, p)
      BY <1>2 DEF Covered
    <2>2. Block(ga, j, p)
      BY <1>2, <2>1 DEF Minus
    <2> QED BY <2>1, <2>2 DEF Covered
  <1> QED BY <1>1, <1>2

-----------------------------------------------------------------------------
(***************************************************************************)
(* Two blocks of one order are partners when they are the halves of an     *)
(* aligned block of the next order: index ^ (1 << order) is the partner of *)
(* index and nothing else is.  In a merged area no two partners are        *)
(* listed.                                                                 *)
(***************************************************************************)
FirstHalf(i, o) == Multiple(i, Pow2[o + 1])

Partner(i, j, o) ==
  \/ FirstHalf(i, o) /\ j = i + Pow2[o]
  \/ FirstHalf(j, o) /\ i = j + Pow2[o]

Merged(fa) ==
  \A i, j, o : Partner(i, j, o) => ~ (Block(fa, i, o) /\ Block(fa, j, o))

LEMMA BuddyIsPartner ==
  ASSUME NEW o \in Nat, NEW i, Multiple(i, Pow2[o])
  PROVE  /\ Partner(i, BuddyOf(i, o), o)
         /\ \A j : Partner(i, j, o) => j = BuddyOf(i, o)
         /\ ~ Partner(i, i, o)
  <1>1. PICK P \in Nat \ {0} : P = Pow2[o] /\ Pow2[o + 1] = 2 * P
    BY Pow2Nat
  <1>2. PICK h \in Nat : i = h * P
    BY <1>1 DEF Multiple
  <1>3. i \div P = h /\ i \in Nat
    BY <1>2
  <1>4. CASE h % 2 = 0
    <2>1. PICK g \in Nat : h = 2 * g
      BY <1>4
    <2>2. i = g * (2 * P)
      BY <1>2, <2>1
    <2>3. FirstHalf(i, o)
      BY <1>1, <2>2 DEF FirstHalf, Multiple
    <2>4. BuddyOf(i, o) = i + P
      BY <1>1, <1>3, <1>4 DEF BuddyOf
    <2>5. ASSUME NEW j, FirstHalf(j, o), i = j + P PROVE FALSE
      <3>1. PICK x \in Nat : j = x * (2 * P)
        BY <1>1, <2>5 DEF FirstHalf, Multiple
      <3>2. x * (2 * P) = (2 * x) * P
        OBVIOUS
      <3>3. h * P = (2 * x + 1) * P
        BY <1>2, <2>5, <3>1, <3>2
      <3>4. h = 2 * x + 1
        BY <3>3
      <3> QED BY <2>1, <3>4
    <2> QED BY <1>1, <1>3, <2>3, <2>4, <2>5 DEF Partner
  <1>5. CASE h % 2 # 0
    <2>1. PICK g \in Nat : h = 2 * g + 1
      BY <1>5
    <2>2. g * (2 * P) = (2 * g) * P
      OBVIOUS
    <2>3. i = g * (2 * P) + P
      BY <1>2, <2>1, <2>2
    <2>4. BuddyOf(i, o) = i - P
      BY <1>1, <1>3, <1>5 DEF BuddyOf
    <2>5. i - P = g * (2 * P)
      BY <2>3
    <2>6. FirstHalf(i - P, o) /\ i = (i - P) + P
      BY <1>1, <1>3, <2>5 DEF FirstHalf, Multiple
    <2>7. ASSUME FirstHalf(i, o) PROVE FALSE
      <3>1. PICK x \in Nat : i = x * (2 * P)
        BY <1>1, <2>7 DEF FirstHalf, Multiple
      <3>2. x * (2 * P) = (2 * x) * P
        OBVIOUS
      <3>3. h * P = (2 * x) * P
        BY <1>2, <3>1, <3>2
      <3>4. h = 2 * x
        BY <3>3
      <3> QED BY <2>1, <3>4
    <2>8. ASSUME NEW j, FirstHalf(j, o), i = j + P PROVE j = i - P
      <3>1. PICK x \in Nat : j = x * (2 * P)
        BY <1>1, <2>8 DEF FirstHalf, Multiple
      <3>2. j \in Int
        BY <3>1
      <3> QED BY <2>8, <3>2
    <2> QED BY <1>1, <1>3, <2>4, <2>6, <2>7, <2>8 DEF Partner
  <1> QED BY <1>4, <1>5

LEMMA InsertMerged ==
  ASSUME NEW fa, Merged(fa), NEW ga, NEW i, NEW o \in Orders, Plus(fa, ga, i, o),
         Multiple(i, Pow2[o]),
         \A j : Partner(i, j, o) => ~ Block(fa, j, o)
  PROVE  Merged(ga)
  <1> SUFFICES ASSUME NEW j, NEW k, NEW p, Partner(j, k, p),
                      Block(ga, j, p), Block(ga, k, p)
               PROVE  FALSE
    BY DEF Merged
  <1>1. Partner(k, j, p)
    BY DEF Partner
  <1>2. ~ Partner(i, i, o)
    BY OrderSize, BuddyIsPartner
  <1>3. CASE Block(fa, j, p) /\ Block(fa, k, p)
    BY <1>3 DEF Merged
  <1>4. CASE Block(fa, j, p) /\ k = i /\ p = o
    BY <1>1, <1>4
  <1>5. CASE Block(fa, k, p) /\ j = i /\ p = o
    BY <1>5
  <1>6. CASE j = i /\ k = i /\ p = o
    BY <1>2, <1>6
  <1> QED BY <1>3, <1>4, <1>5, <1>6 DEF Plus

LEMMA RemoveMerged ==
  ASSUME NEW fa, Merged(fa), NEW ga, NEW i, NEW o, Minus(fa, ga, i, o)
  PROVE  Merged(ga)
  BY DEF Merged, Minus

(***************************************************************************)
(* The halves of a block.                                                  *)
(***************************************************************************)
LEMMA Halves ==
  ASSUME NEW o \in Nat, NEW i \in Pages
  PROVE  \A q \in Pages : /\ Over(q, i, o + 1) <=> (Over(q, i, o) \/ Over(q, i + Pow2[o], o))
                          /\ ~ (Over(q, i, o) /\ Over(q, i + Pow2[o], o))
  <1>1. PICK P \in Nat \ {0} : P = Pow2[o] /\ Pow2[o + 1] = 2 * P
    BY Pow2Nat
  <1> QED BY <1>1 DEF Over, Pages

LEMMA GoodHalves ==
  ASSUME NEW o \in Orders, o + 1 \in Orders, NEW i, GoodBlock(i, o + 1)
  PROVE  /\ GoodBlock(i, o) /\ GoodBlock(i + Pow2[o], o)
         /\ FirstHalf(i, o)
         /\ i \in Pages
  <1>1. PICK P \in Nat \ {0} : P = Pow2[o] /\ Pow2[o + 1] = 2 * P
    BY OrderSize
  <1>2. PICK h \in Nat : i = h * (2 * P)
    BY <1>1 DEF GoodBlock, Multiple
  <1>3. i = (2 * h) * P /\ 2 * h \in Nat
    BY <1>2
  <1>4. i + P = (2 * h + 1) * P /\ 2 * h + 1 \in Nat
    BY <1>3
  <1>5. Multiple(i, P) /\ Multiple(i + P, P) /\ Multiple(i, 2 * P)
    BY <1>2, <1>3, <1>4 DEF Multiple
  <1>6. i \in Nat /\ i + 2 * P <= TotalPages
    BY <1>1 DEF GoodBlock, Pages
  <1> QED BY <1>1, <1>5, <1>6 DEF GoodBlock, FirstHalf, Pages

-----------------------------------------------------------------------------
(***************************************************************************)
(* allocateBlock() splits the free pages: the block it returns and what    *)
(* stays in the lists.                                                     *)
(***************************************************************************)
Splits(fa, b, o) ==
  /\ Sound(b.area) /\ Merged(b.area)
  /\ GoodBlock(b.index, o)
  /\ \A q \in Pages : /\ Covered(fa, q) <=> (Covered(b.area, q) \/ Over(q, b.index, o))
                      /\ ~ (Covered(b.area, q) /\ Over(q, b.index, o))

SplitsOrFails(fa, b, o) == b.index = -1 \/ Splits(fa, b, o)

LEMMA HeadSplits ==
  ASSUME NEW fa, Sound(fa), Merged(fa), NEW o \in Orders, fa[o] # <<>>
  PROVE  Splits(fa, HeadBlock(fa, o), o)
  <1>1. PICK i : i = Head(fa[o])
    OBVIOUS
  <1>2. Block(fa, i, o)
    BY <1>1, HeadOfList DEF Block, Sound, IsArea
  <1>3. PICK ga : ga = RemoveFreeNode(fa, i, o)
    OBVIOUS
  <1>4. Sound(ga) /\ Minus(fa, ga, i, o)
    BY <1>2, <1>3, RemoveDrops
  <1>5. Merged(ga)
    BY <1>4, RemoveMerged
  <1>6. \A q \in Pages : Covered(ga, q) <=> (Covered(fa, q) /\ ~ Over(q, i, o))
    BY <1>2, <1>4, MinusCovers
  <1>7. \A q \in Pages : Over(q, i, o) => Covered(fa, q)
    BY <1>2 DEF Covered
  <1>8. GoodBlock(i, o)
    BY <1>2 DEF Sound, AllGood
  <1>9. HeadBlock(fa, o).index = i /\ HeadBlock(fa, o).area = ga
    BY <1>1, <1>3 DEF HeadBlock
  <1> QED BY <1>4, <1>5, <1>6, <1>7, <1>8, <1>9 DEF Splits

LEMMA FrontSplits ==
  ASSUME NEW fa, NEW o \in Orders, o + 1 \in Orders, NEW b, Splits(fa, b, o + 1)
  PROVE  Splits(fa, FrontHalf(b, o), o)
  <1>1. PICK i : i = b.index
    OBVIOUS
  <1>2. /\ GoodBlock(i, o) /\ GoodBlock(i + Pow2[o], o)
        /\ FirstHalf(i, o) /\ i \in Pages
    BY <1>1, GoodHalves DEF Splits
  <1>3. PICK k : k = i + Pow2[o]
    OBVIOUS
  <1>4. \A q \in Pages : /\ Over(q, i, o + 1) <=> (Over(q, i, o) \/ Over(q, k, o))
                         /\ ~ (Over(q, i, o) /\ Over(q, k, o))
    BY <1>2, <1>3, Halves DEF Orders
  <1>5. PICK ga : ga = b.area
    OBVIOUS
  <1>6. \A q \in Pages : /\ Covered(fa, q) <=> (Covered(ga, q) \/ Over(q, i, o + 1))
                         /\ ~ (Covered(ga, q) /\ Over(q, i, o + 1))
    BY <1>1, <1>5 DEF Splits
  <1>7. \A q \in Pages : Over(q, k, o) => ~ Covered(ga, q)
    BY <1>4, <1>6
  <1>8. PICK na : na = InsertFreeNode(ga, k, o)
    OBVIOUS
  <1>9. Sound(na) /\ Plus(ga, na, k, o)
    BY <1>2, <1>3, <1>5, <1>7, <1>8, InsertAdds DEF Splits
  <1>10. \A q \in Pages : Covered(na, q) <=> (Covered(ga, q) \/ Over(q, k, o))
    BY <1>9, PlusCovers
  <1>11. \A j : Partner(k, j, o) => ~ Block(ga, j, o)
    <2> SUFFICES ASSUME NEW j, Partner(k, j, o), Block(ga, j, o) PROVE FALSE
      OBVIOUS
    <2>1. Partner(k, i, o)
      BY <1>2, <1>3 DEF Partner
    <2>2. Multiple(k, Pow2[o]) /\ o \in Nat
      BY <1>2, <1>3 DEF GoodBlock, Orders
    <2>3. j = i
      BY <2>1, <2>2, BuddyIsPartner
    <2>4. Over(i, i, o)
      BY <1>2, OverFirst
    <2>5. Covered(ga, i)
      BY <2>3, <2>4 DEF Covered
    <2> QED BY <1>2, <1>4, <1>6, <2>4, <2>5
  <1>12. Merged(na)
    <2>1. Multiple(k, Pow2[o]) /\ Merged(ga)
      BY <1>2, <1>3, <1>5 DEF GoodBlock, Splits
    <2> QED BY <1>9, <1>11, <2>1, InsertMerged
  <1>13. b.index # -1
    BY <1>1, <1>2 DEF Pages
  <1>14. FrontHalf(b, o).index = i /\ FrontHalf(b, o).area = na
    BY <1>1, <1>3, <1>5, <1>8, <1>13 DEF FrontHalf
  <1> QED BY <1>2, <1>4, <1>6, <1>9, <1>10, <1>12, <1>14 DEF Splits

(***************************************************************************)
(* The recursive definition of allocateBlock() defines a function: the     *)
(* calls go up to MaxOrder + 1.                                            *)
(***************************************************************************)
GotStep(fa, bigger, o) ==
  IF o > MaxOrder THEN NoBlock(fa)
  ELSE IF fa[o] # <<>> THEN HeadBlock(fa, o)
  ELSE FrontHalf(bigger, o)

IsGot(r, fa, order) ==
  r = [o \in order .. MaxOrder + 1 |->
         IF o > MaxOrder THEN NoBlock(fa)
         ELSE IF fa[o] # <<>> THEN HeadBlock(fa, o)
         ELSE FrontHalf(r[o + 1], o)]

LEMMA GotExists ==
  ASSUME NEW fa
  PROVE  \A order \in 0 .. MaxOrder + 1 : \E r : IsGot(r, fa, order)
  <1>1. PICK S : S = {o \in 0 .. MaxOrder + 1 : \E r : IsGot(r, fa, o)}
    OBVIOUS
  <1>2. MaxOrder + 1 \in S
    <2>1. PICK r : r = [o \in MaxOrder + 1 .. MaxOrder + 1 |-> NoBlock(fa)]
      OBVIOUS
    <2>2. \A o \in MaxOrder + 1 .. MaxOrder + 1 : o > MaxOrder
      OBVIOUS
    <2>3. IsGot(r, fa, MaxOrder + 1)
      BY <2>1, <2>2 DEF IsGot
    <2> QED BY <1>1, <2>3
  <1>3. ASSUME NEW n \in 0 .. MaxOrder, n + 1 \in S PROVE n \in S
    <2>1. PICK q : IsGot(q, fa, n + 1)
      BY <1>1, <1>3
    <2>2. PICK r : r = [o \in n .. MaxOrder + 1 |->
                          IF o = n THEN GotStep(fa, q[n + 1], n) ELSE q[o]]
      OBVIOUS
    <2>3. ASSUME NEW o \in n .. MaxOrder + 1 PROVE r[o] = GotStep(fa, r[o + 1], o)
      <3>1. CASE o = n
        <4>1. r[o] = GotStep(fa, q[n + 1], n) /\ r[n + 1] = q[n + 1]
          BY <2>2, <3>1
        <4> QED BY <3>1, <4>1
      <3>2. CASE o \in n + 1 .. MaxOrder
        <4>1. q[o] = GotStep(fa, q[o + 1], o)
          BY <2>1, <3>2 DEF IsGot, GotStep
        <4>2. r[o] = q[o] /\ r[o + 1] = q[o + 1]
          BY <2>2, <3>2
        <4> QED BY <4>1, <4>2
      <3>3. CASE o = MaxOrder + 1
        <4>1. q[o] = NoBlock(fa) /\ r[o] = q[o]
          BY <2>1, <2>2, <3>3 DEF IsGot
        <4> QED BY <3>3, <4>1 DEF GotStep
      <3> QED BY <3>1, <3>2, <3>3
    <2>4. r = [o \in n .. MaxOrder + 1 |-> GotStep(fa, r[o + 1], o)]
      BY <2>2, <2>3
    <2>5. IsGot(r, fa, n)
      BY <2>4, Zenon DEF IsGot, GotStep
    <2> QED BY <1>1, <2>5
  <1>4. \A n \in 0 .. MaxOrder + 1 : n \in S
    <2>1. \A n \in 0 .. (MaxOrder + 1) - 1 : n + 1 \in S => n \in S
      BY <1>3
    <2>2. PICK m \in Int : m = MaxOrder + 1
      OBVIOUS
    <2> QED BY <1>2, <2>1, <2>2, DownInduction
  <1> QED BY <1>1, <1>4

LEMMA AllocateBlockSplits ==
  ASSUME NEW fa, Sound(fa), Merged(fa), NEW order \in Nat
  PROVE  SplitsOrFails(fa, AllocateBlock(fa, order), order)
  <1>1. CASE order > MaxOrder
    BY <1>1 DEF AllocateBlock, NoBlock, SplitsOrFails
  <1>2. CASE order <= MaxOrder
    <2>1. PICK r : r = CHOOSE x : IsGot(x, fa, order)
      OBVIOUS
    <2>2. IsGot(r, fa, order)
      <3>1. \E x : IsGot(x, fa, order)
        BY <1>2, GotExists
      <3> QED BY <2>1, <3>1, Zenon
    <2>3. AllocateBlock(fa, order) = r[order]
      <3>1. ~ (order > MaxOrder)
        BY <1>2
      <3> QED BY <2>1, <3>1, Zenon DEF AllocateBlock, IsGot
    <2>4. PICK S : S = {o \in order .. MaxOrder + 1 : SplitsOrFails(fa, r[o], o)}
      OBVIOUS
    <2>5. MaxOrder + 1 \in S
      <3>1. MaxOrder + 1 \in order .. MaxOrder + 1 /\ MaxOrder + 1 > MaxOrder
        BY <1>2
      <3>2. r[MaxOrder + 1] = NoBlock(fa)
        BY <2>2, <3>1 DEF IsGot
      <3>3. r[MaxOrder + 1].index = -1
        BY <3>2 DEF NoBlock
      <3> QED BY <2>4, <3>1, <3>3 DEF SplitsOrFails
    <2>6. ASSUME NEW o \in order .. MaxOrder, o + 1 \in S PROVE o \in S
      <3>1. o \in Orders /\ o \in order .. MaxOrder + 1 /\ ~ (o > MaxOrder)
        BY DEF Orders
      <3>2. r[o] = IF fa[o] # <<>> THEN HeadBlock(fa, o) ELSE FrontHalf(r[o + 1], o)
        BY <2>2, <3>1 DEF IsGot
      <3>3. CASE fa[o] # <<>>
        <4>1. Splits(fa, r[o], o)
          BY <3>1, <3>2, <3>3, HeadSplits
        <4> QED BY <2>4, <3>1, <4>1 DEF SplitsOrFails
      <3>4. CASE fa[o] = <<>>
        <4>1. r[o] = FrontHalf(r[o + 1], o)
          BY <3>2, <3>4
        <4>2. SplitsOrFails(fa, r[o + 1], o + 1)
          BY <2>4, <2>6
        <4>3. CASE r[o + 1].index = -1
          <5>1. r[o].index = -1
            BY <4>1, <4>3 DEF FrontHalf
          <5> QED BY <2>4, <3>1, <5>1 DEF SplitsOrFails
        <4>4. CASE Splits(fa, r[o + 1], o + 1)
          <5>1. o + 1 \in Orders
            BY <4>4 DEF Splits, GoodBlock
          <5>2. Splits(fa, r[o], o)
            BY <3>1, <4>1, <4>4, <5>1, FrontSplits
          <5> QED BY <2>4, <3>1, <5>2 DEF SplitsOrFails
        <4> QED BY <4>2, <4>3, <4>4 DEF SplitsOrFails
      <3> QED BY <3>3, <3>4
    <2>7. \A o \in order .. MaxOrder + 1 : o \in S
      <3>1. \A o \in order .. (MaxOrder + 1) - 1 : o + 1 \in S => o \in S
        BY <2>6
      <3>2. PICK m \in Int : m = MaxOrder + 1
        OBVIOUS
      <3> QED BY <2>5, <3>1, <3>2, DownInduction
    <2>8. SplitsOrFails(fa, r[order], order)
      BY <1>2, <2>4, <2>7
    <2> QED BY <2>3, <2>8
  <1> QED BY <1>1, <1>2

-----------------------------------------------------------------------------
(***************************************************************************)
(* Two aligned blocks that share a page are nested.                        *)
(***************************************************************************)
Inside(i, o, j, p) == \A q \in Nat : Over(q, i, o) => Over(q, j, p)

LEMMA Nested ==
  ASSUME NEW o \in Nat, NEW p \in Nat, o <= p, NEW i, NEW j,
         Multiple(i, Pow2[o]), Multiple(j, Pow2[p]),
         NEW q \in Nat, Over(q, i, o), Over(q, j, p)
  PROVE  Inside(i, o, j, p)
  <1>1. PICK D \in Nat \ {0} : D = Pow2[o]
    BY Pow2Nat
  <1>2. PICK h \in Nat \ {0} : Pow2[p] = h * D
    BY <1>1, Pow2Divides DEF Divides
  <1>3. PICK a \in Nat : i = a * D
    BY <1>1 DEF Multiple
  <1>4. PICK g \in Nat : j = g * (h * D)
    BY <1>2 DEF Multiple
  <1>5. PICK c \in Nat : c = g * h
    OBVIOUS
  <1>6. j = c * D /\ j + h * D = (c + h) * D /\ i + D = (a + 1) * D
    BY <1>3, <1>4, <1>5
  <1>7. PICK e \in Nat, f \in Nat, u \in Nat, v \in Nat :
          e = c * D /\ f = (c + h) * D /\ u = a * D /\ v = (a + 1) * D
    OBVIOUS
  <1>8. /\ j = e /\ j + Pow2[p] = f /\ i = u /\ i + Pow2[o] = v
        /\ e <= q /\ q < f /\ u <= q /\ q < v
    BY <1>1, <1>2, <1>3, <1>6, <1>7 DEF Over
  <1>9. c * D < (a + 1) * D /\ a * D < (c + h) * D
    BY <1>7, <1>8
  <1>10. c < a + 1 /\ a < c + h
    BY <1>9
  <1>11. c <= a /\ a + 1 <= c + h
    BY <1>10
  <1>12. c * D <= a * D /\ (a + 1) * D <= (c + h) * D
    BY <1>11
  <1>13. e <= u /\ v <= f
    BY <1>7, <1>12
  <1> QED BY <1>8, <1>13 DEF Inside, Over

(***************************************************************************)
(* When the listed blocks cover an aligned block and no two partners are   *)
(* listed, the block is not cut into smaller ones: the smallest of them    *)
(* would have its partner listed.                                          *)
(***************************************************************************)
FullOn(fa, j, p) == \A q \in Pages : Over(q, j, p) => Covered(fa, q)

LEMMA BlockFacts ==
  ASSUME NEW fa, Sound(fa), NEW i, NEW o, Block(fa, i, o)
  PROVE  /\ o \in Orders /\ o \in Nat /\ i \in Pages /\ i \in Nat
         /\ Multiple(i, Pow2[o])
         /\ GoodBlock(i, o)
         /\ Over(i, i, o)
  <1>1. GoodBlock(i, o)
    BY DEF Sound, AllGood
  <1>2. o \in Orders /\ i \in Pages
    BY <1>1 DEF GoodBlock
  <1> QED BY <1>1, <1>2, OverFirst DEF GoodBlock, Orders, Pages

LEMMA NoSmaller ==
  ASSUME NEW fa, Sound(fa), Merged(fa),
         NEW j, NEW p, GoodBlock(j, p), FullOn(fa, j, p),
         NEW i, NEW o, Block(fa, i, o), o < p, Over(i, j, p)
  PROVE  FALSE
  <1>1. p \in Nat /\ p \in Orders /\ j \in Nat /\ Multiple(j, Pow2[p])
    BY DEF GoodBlock, Orders, Pages
  <1>2. PICK S : S = {y \in 0 .. p - 1 : \E x : Block(fa, x, y) /\ Inside(x, y, j, p)}
    OBVIOUS
  <1>3. o \in S
    <2>1. o \in Nat /\ i \in Nat /\ Multiple(i, Pow2[o]) /\ Over(i, i, o) /\ o <= p
      BY <1>1, BlockFacts
    <2>2. Inside(i, o, j, p)
      BY <1>1, <2>1, Nested
    <2> QED BY <1>1, <1>2, <2>1, <2>2
  <1>4. PICK m \in S : \A y \in S : m <= y
    <2>1. S \subseteq Int /\ S # {} /\ S \in SUBSET (0 .. p - 1)
      BY <1>2, <1>3
    <2>2. p - 1 \in Int
      BY <1>1
    <2>3. IsFiniteSet(0 .. p - 1)
      BY <2>2, FS_Interval
    <2>4. IsFiniteSet(S)
      BY <2>1, <2>3, FS_Subset
    <2> QED BY <2>1, <2>4, SmallestElement
  <1>5. PICK x : Block(fa, x, m) /\ Inside(x, m, j, p)
    BY <1>2, <1>4
  <1>6. /\ m \in Nat /\ m \in Orders /\ x \in Nat /\ x \in Pages
        /\ Multiple(x, Pow2[m]) /\ Over(x, x, m) /\ m + 1 <= p /\ m + 1 \in Nat
    <2>1. m \in 0 .. p - 1
      BY <1>2, <1>4
    <2> QED BY <1>1, <1>5, <2>1, BlockFacts
  <1>7. PICK k : k = BuddyOf(x, m) /\ Partner(x, k, m)
    BY <1>6, BuddyIsPartner
  <1>8. PICK M \in Nat \ {0} : M = Pow2[m] /\ Pow2[m + 1] = 2 * M
    BY <1>6, Pow2Nat
  <1>9. PICK z \in Nat : /\ FirstHalf(z, m) /\ Over(x, z, m + 1) /\ Over(k, z, m + 1)
                         /\ k \in Nat /\ Multiple(k, M) /\ Over(k, k, m)
    <2>1. CASE FirstHalf(x, m) /\ k = x + M
      <3>1. PICK a \in Nat : x = a * M
        BY <1>6, <1>8 DEF Multiple
      <3>2. k = (a + 1) * M /\ a + 1 \in Nat
        BY <2>1, <3>1
      <3>3. Multiple(k, M)
        BY <3>2 DEF Multiple
      <3>4. k \in Nat /\ Over(x, x, m + 1) /\ Over(k, x, m + 1) /\ Over(k, k, m)
        BY <1>6, <1>8, <2>1 DEF Over
      <3> QED BY <1>6, <2>1, <3>3, <3>4
    <2>2. CASE FirstHalf(k, m) /\ x = k + M
      <3>1. PICK a \in Nat : k = a * (2 * M)
        BY <1>8, <2>2 DEF FirstHalf, Multiple
      <3>2. k = (2 * a) * M /\ 2 * a \in Nat /\ k \in Nat
        BY <3>1
      <3>3. Multiple(k, M)
        BY <3>2 DEF Multiple
      <3>4. Over(x, k, m + 1) /\ Over(k, k, m + 1) /\ Over(k, k, m)
        BY <1>8, <2>2, <3>2 DEF Over
      <3> QED BY <2>2, <3>2, <3>3, <3>4
    <2> QED BY <1>7, <1>8, <2>1, <2>2 DEF Partner
  <1>10. Multiple(z, Pow2[m + 1])
    BY <1>9 DEF FirstHalf
  <1>11. Over(x, j, p)
    BY <1>5, <1>6 DEF Inside
  <1>12. Inside(z, m + 1, j, p)
    BY <1>1, <1>6, <1>9, <1>10, <1>11, Nested
  <1>13. Over(k, j, p) /\ k \in Pages
    <2>1. Over(k, j, p)
      BY <1>9, <1>12 DEF Inside
    <2>2. PICK P \in Nat \ {0} : P = Pow2[p]
      BY <1>1, Pow2Nat
    <2> QED BY <1>1, <1>9, <2>1, <2>2 DEF Over, GoodBlock, Pages
  <1>14. PICK u, y : Block(fa, u, y) /\ Over(k, u, y)
    BY <1>13 DEF FullOn, Covered
  <1>15. y \in Nat /\ y \in Orders /\ u \in Nat /\ Multiple(u, Pow2[y])
    BY <1>14, BlockFacts
  <1>16. ASSUME Over(x, u, y) PROVE y = m
    BY <1>5, <1>6, <1>14, <1>16 DEF Sound, Apart
  <1>17. CASE y >= p
    <2>1. Inside(j, p, u, y)
      BY <1>1, <1>9, <1>13, <1>14, <1>15, <1>17, Nested
    <2>2. Over(x, u, y)
      BY <1>6, <1>11, <2>1 DEF Inside
    <2> QED BY <1>1, <1>6, <1>16, <1>17, <2>2
  <1>18. CASE y < p
    <2>1. y <= p
      BY <1>1, <1>15, <1>18
    <2>2. Inside(u, y, j, p)
      BY <1>1, <1>9, <1>13, <1>14, <1>15, <2>1, Nested
    <2>3. y \in S
      BY <1>1, <1>2, <1>14, <1>15, <1>18, <2>2
    <2>4. m <= y
      BY <1>4, <2>3
    <2>5. CASE y = m
      <3>1. Multiple(k, Pow2[m]) /\ Multiple(u, Pow2[m]) /\ Over(k, u, m) /\ m <= m
        BY <1>6, <1>8, <1>9, <1>14, <1>15, <2>5
      <3>2. Inside(u, m, k, m)
        BY <1>6, <1>9, <3>1, Nested
      <3>3. Over(u, u, m)
        BY <1>14, <2>5, BlockFacts
      <3>4. Over(u, k, m)
        BY <1>15, <3>2, <3>3 DEF Inside
      <3>5. u = k
        BY <1>9, <1>15, <3>1, <3>4 DEF Over
      <3> QED BY <1>5, <1>7, <1>14, <2>5, <3>5 DEF Merged
    <2>6. CASE y # m
      <3>1. m + 1 <= y
        BY <1>6, <1>15, <2>4, <2>6
      <3>2. Inside(z, m + 1, u, y)
        BY <1>6, <1>9, <1>10, <1>14, <1>15, <3>1, Nested
      <3>3. Over(x, u, y)
        BY <1>6, <1>9, <3>2 DEF Inside
      <3> QED BY <1>16, <2>6, <3>3
    <2> QED BY <2>5, <2>6
  <1> QED BY <1>1, <1>15, <1>17, <1>18

(***************************************************************************)
(* So the pages that are listed determine the blocks.                      *)
(***************************************************************************)
SameCover(fa, ga) == \A q \in Pages : Covered(fa, q) <=> Covered(ga, q)

LEMMA BlockIsFull ==
  ASSUME NEW fa, NEW i, NEW o, Block(fa, i, o)
  PROVE  FullOn(fa, i, o)
  BY DEF FullOn, Covered

LEMMA SameStart ==
  ASSUME NEW p \in Nat, NEW i \in Nat, NEW j \in Nat,
         Multiple(i, Pow2[p]), Multiple(j, Pow2[p]),
         NEW q \in Nat, Over(q, i, p), Over(q, j, p)
  PROVE  i = j
  <1>1. Inside(i, p, j, p) /\ Inside(j, p, i, p)
    BY Nested
  <1>2. PICK P \in Nat \ {0} : P = Pow2[p]
    BY Pow2Nat
  <1>3. Over(i, i, p) /\ Over(j, j, p)
    BY <1>2 DEF Over
  <1>4. Over(i, j, p) /\ Over(j, i, p)
    BY <1>1, <1>3 DEF Inside
  <1> QED BY <1>4 DEF Over

LEMMA SameBlock ==
  ASSUME NEW fa, Sound(fa), Merged(fa),
         NEW ga, Sound(ga), Merged(ga), SameCover(fa, ga),
         NEW i, NEW o, Block(fa, i, o)
  PROVE  Block(ga, i, o)
  <1>1. /\ o \in Orders /\ o \in Nat /\ i \in Pages /\ i \in Nat
        /\ Multiple(i, Pow2[o]) /\ GoodBlock(i, o) /\ Over(i, i, o)
    BY BlockFacts
  <1>2. PICK j, p : Block(ga, j, p) /\ Over(i, j, p)
    BY <1>1 DEF SameCover, Covered
  <1>3. /\ p \in Orders /\ p \in Nat /\ j \in Pages /\ j \in Nat
        /\ Multiple(j, Pow2[p]) /\ GoodBlock(j, p) /\ Over(j, j, p)
    BY <1>2, BlockFacts
  <1>4. FullOn(fa, j, p) /\ FullOn(ga, i, o)
    BY <1>2, BlockIsFull DEF SameCover, FullOn
  <1>5. ~ (o < p)
    BY <1>2, <1>3, <1>4, NoSmaller
  <1>6. p <= o
    BY <1>1, <1>3, <1>5
  <1>7. Inside(j, p, i, o)
    BY <1>1, <1>2, <1>3, <1>6, Nested
  <1>8. Over(j, i, o)
    BY <1>3, <1>7 DEF Inside
  <1>9. ~ (p < o)
    BY <1>1, <1>2, <1>4, <1>8, NoSmaller
  <1>10. p = o
    BY <1>1, <1>3, <1>6, <1>9
  <1>11. i = j
    BY <1>1, <1>2, <1>3, <1>8, <1>10, SameStart
  <1> QED BY <1>2, <1>10, <1>11

LEMMA SameLists ==
  ASSUME NEW fa, Sound(fa), Merged(fa),
         NEW ga, Sound(ga), Merged(ga), SameCover(fa, ga), NEW o \in Orders
  PROVE  ToSet(fa[o]) = ToSet(ga[o])
  <1>1. IsList(fa[o]) /\ IsList(ga[o])
    BY DEF Sound, IsArea
  <1>2. /\ ToSet(fa[o]) = {i \in Pages : Contains(fa[o], i)}
        /\ ToSet(ga[o]) = {i \in Pages : Contains(ga[o], i)}
    BY <1>1, ListElements
  <1>3. SameCover(ga, fa)
    BY DEF SameCover
  <1>4. \A i : Block(fa, i, o) <=> Block(ga, i, o)
    BY <1>3, SameBlock
  <1>5. \A i : Contains(fa[o], i) <=> Contains(ga[o], i)
    BY <1>4 DEF Block
  <1> QED BY <1>2, <1>5

(***************************************************************************)
(* A block of the largest order that is listed page by page is listed as   *)
(* one block, so not together with its partner.                            *)
(***************************************************************************)
TopBlock(j) == GoodBlock(j, MaxOrder)

SecondTop(j) == TopBlock(j) /\ ~ FirstHalf(j, MaxOrder)

LEMMA TopFacts ==
  ASSUME NEW j, TopBlock(j)
  PROVE  /\ MaxOrder \in Orders /\ MaxOrder \in Nat /\ j \in Pages /\ j \in Nat
         /\ Multiple(j, Pow2[MaxOrder]) /\ j + Pow2[MaxOrder] <= TotalPages
         /\ Over(j, j, MaxOrder)
  BY OverFirst DEF TopBlock, GoodBlock, Orders, Pages

LEMMA TopListed ==
  ASSUME NEW fa, Sound(fa), Merged(fa), NEW j, TopBlock(j), FullOn(fa, j, MaxOrder)
  PROVE  Block(fa, j, MaxOrder)
  <1>1. /\ MaxOrder \in Nat /\ j \in Pages /\ j \in Nat
        /\ Multiple(j, Pow2[MaxOrder]) /\ Over(j, j, MaxOrder)
    BY TopFacts
  <1>2. PICK i, o : Block(fa, i, o) /\ Over(j, i, o)
    BY <1>1 DEF FullOn, Covered
  <1>3. /\ o \in Orders /\ o \in Nat /\ i \in Nat /\ Multiple(i, Pow2[o])
        /\ Over(i, i, o) /\ o <= MaxOrder
    BY <1>2, BlockFacts DEF Orders
  <1>4. Inside(i, o, j, MaxOrder)
    BY <1>1, <1>2, <1>3, Nested
  <1>5. Over(i, j, MaxOrder)
    BY <1>3, <1>4 DEF Inside
  <1>6. ~ (o < MaxOrder)
    BY <1>2, <1>5, NoSmaller DEF TopBlock
  <1>7. o = MaxOrder
    BY <1>3, <1>6
  <1>8. i = j
    BY <1>1, <1>2, <1>3, <1>7, SameStart
  <1> QED BY <1>2, <1>7, <1>8

LEMMA SecondHasFirst ==
  ASSUME NEW j, SecondTop(j)
  PROVE  \E k \in Nat : /\ TopBlock(k) /\ FirstHalf(k, MaxOrder)
                        /\ Partner(k, j, MaxOrder) /\ j = k + Pow2[MaxOrder]
  <1>1. PICK P \in Nat \ {0} : P = Pow2[MaxOrder] /\ Pow2[MaxOrder + 1] = 2 * P
    BY Pow2Nat
  <1>2. /\ j \in Nat /\ MaxOrder \in Nat /\ MaxOrder \in Orders
        /\ Multiple(j, P) /\ j + P <= TotalPages
    BY <1>1, TopFacts DEF SecondTop
  <1>3. PICK h \in Nat : j = h * P
    BY <1>2 DEF Multiple
  <1>4. h % 2 # 0
    <2> SUFFICES ASSUME h % 2 = 0 PROVE FALSE
      OBVIOUS
    <2>1. PICK g \in Nat : h = 2 * g
      OBVIOUS
    <2>2. j = g * (2 * P)
      BY <1>3, <2>1
    <2> QED BY <1>1, <2>2 DEF SecondTop, FirstHalf, Multiple
  <1>5. PICK g \in Nat : h = 2 * g + 1
    BY <1>4
  <1>6. PICK k \in Nat : k = (2 * g) * P
    BY <1>1
  <1>7. j = k + P /\ k = g * (2 * P) /\ 2 * g \in Nat
    BY <1>1, <1>3, <1>5, <1>6
  <1>8. Multiple(k, P) /\ Multiple(k, 2 * P)
    BY <1>6, <1>7 DEF Multiple
  <1>9. k \in Pages /\ k + P <= TotalPages
    BY <1>1, <1>2, <1>7 DEF Pages
  <1> QED BY <1>1, <1>2, <1>7, <1>8, <1>9 DEF TopBlock, GoodBlock, FirstHalf, Partner

(***************************************************************************)
(* The pages lost at boot are those of the second blocks of the largest    *)
(* order.                                                                  *)
(***************************************************************************)
IsLost(q) == \E j : SecondTop(j) /\ Over(q, j, MaxOrder)

LEMMA LostAtBootIs ==
  ASSUME NEW q \in Pages
  PROVE  q \in LostAtBoot <=> IsLost(q)
  <1>1. PICK P \in Nat \ {0} : P = Pow2[MaxOrder] /\ Pow2[MaxOrder + 1] = 2 * P
    BY Pow2Nat
  <1>2. q \in Nat /\ MaxOrder \in Nat /\ MaxOrder \in Orders
    BY DEF Pages, Orders
  <1>3. PICK b \in Nat : b = q \div P
    BY <1>1, <1>2
  <1>4. PICK e \in Nat, f \in Nat : e = b * P /\ f = (b + 1) * P
    BY <1>1
  <1>5. f = e + P
    BY <1>1, <1>4
  <1>6. e <= q /\ q < f
    BY <1>1, <1>2, <1>3, <1>4
  <1>7. ASSUME q \in LostAtBoot PROVE IsLost(q)
    <2>1. b % 2 = 1 /\ f <= TotalPages
      BY <1>1, <1>3, <1>4, <1>7 DEF LostAtBoot
    <2>2. Multiple(e, P) /\ e \in Pages
      BY <1>1, <1>4, <1>5, <2>1 DEF Multiple, Pages
    <2>3. ~ Multiple(e, 2 * P)
      <3> SUFFICES ASSUME NEW x \in Nat, e = x * (2 * P) PROVE FALSE
        BY DEF Multiple
      <3>1. b * P = (2 * x) * P
        BY <1>4
      <3>2. b = 2 * x
        BY <1>1, <3>1
      <3> QED BY <2>1, <3>2
    <2>4. SecondTop(e) /\ Over(q, e, MaxOrder)
      BY <1>1, <1>2, <1>5, <1>6, <2>1, <2>2, <2>3
      DEF SecondTop, TopBlock, GoodBlock, FirstHalf, Over
    <2> QED BY <2>4 DEF IsLost
  <1>8. ASSUME IsLost(q) PROVE q \in LostAtBoot
    <2>1. PICK j : SecondTop(j) /\ Over(q, j, MaxOrder)
      BY <1>8 DEF IsLost
    <2>2. PICK k \in Nat : FirstHalf(k, MaxOrder) /\ j = k + P /\ TopBlock(j)
      BY <1>1, <2>1, SecondHasFirst DEF SecondTop
    <2>3. PICK g \in Nat : k = g * (2 * P)
      BY <1>1, <2>2 DEF FirstHalf, Multiple
    <2>4. PICK h \in Nat : h = 2 * g + 1
      OBVIOUS
    <2>5. j = h * P /\ j + P = (h + 1) * P
      BY <1>1, <2>2, <2>3, <2>4
    <2>6. j <= q /\ q < j + P /\ j + P <= TotalPages
      BY <1>1, <2>1, <2>2, TopFacts DEF Over
    <2>7. h * P < (b + 1) * P /\ b * P < (h + 1) * P
      BY <1>1, <1>2, <1>4, <1>6, <2>5, <2>6
    <2>8. h < b + 1 /\ b < h + 1
      BY <1>1, <2>7
    <2>9. h = b
      BY <2>8
    <2>10. b % 2 = 1
      BY <2>4, <2>9
    <2>11. (b + 1) * P <= TotalPages
      BY <2>5, <2>6, <2>9
    <2> QED BY <1>1, <1>3, <2>10, <2>11 DEF LostAtBoot
  <1> QED BY <1>7, <1>8

-----------------------------------------------------------------------------
(***************************************************************************)
(* The loop of releaseBlock().  The block in hand grows by its buddy; the  *)
(* pages in hand or listed stay the same, and no listed page is in hand.   *)
(***************************************************************************)
InPool(i, o) ==
  /\ i \in Pages
  /\ i + Pow2[o] <= TotalPages
  /\ Multiple(i, Pow2[o])

InHand(b, fa, i, o) ==
  /\ Sound(b.area) /\ Merged(b.area)
  /\ b.order \in 0 .. MaxOrder + 1
  /\ InPool(b.index, b.order)
  /\ \A q \in Pages :
       /\ (Covered(b.area, q) \/ Over(q, b.index, b.order))
            <=> (Covered(fa, q) \/ Over(q, i, o))
       /\ ~ (Covered(b.area, q) /\ Over(q, b.index, b.order))
       /\ Covered(b.area, q) => Covered(fa, q)

LEMMA MergeHalves ==
  ASSUME NEW o \in Orders, NEW i, NEW j, InPool(i, o), InPool(j, o), Partner(i, j, o),
         NEW m, m = IF i < j THEN i ELSE j
  PROVE  /\ InPool(m, o + 1)
         /\ \A q \in Pages : Over(q, m, o + 1) <=> (Over(q, i, o) \/ Over(q, j, o))
  <1>1. PICK P \in Nat \ {0} : P = Pow2[o] /\ Pow2[o + 1] = 2 * P
    BY OrderSize
  <1>2. i \in Nat /\ j \in Nat /\ o \in Nat
    BY DEF InPool, Pages, Orders
  <1>3. CASE FirstHalf(i, o) /\ j = i + P
    <2>1. m = i
      BY <1>2, <1>3
    <2>2. InPool(i, o + 1)
      BY <1>1, <1>2, <1>3 DEF InPool, FirstHalf
    <2>3. \A q \in Pages : Over(q, i, o + 1) <=> (Over(q, i, o) \/ Over(q, j, o))
      BY <1>1, <1>2, <1>3, Halves DEF InPool
    <2> QED BY <2>1, <2>2, <2>3
  <1>4. CASE FirstHalf(j, o) /\ i = j + P
    <2>1. m = j
      BY <1>2, <1>4
    <2>2. InPool(j, o + 1)
      BY <1>1, <1>2, <1>4 DEF InPool, FirstHalf
    <2>3. \A q \in Pages : Over(q, j, o + 1) <=> (Over(q, j, o) \/ Over(q, i, o))
      BY <1>1, <1>2, <1>4, Halves DEF InPool
    <2> QED BY <2>1, <2>2, <2>3
  <1> QED BY <1>1, <1>3, <1>4 DEF Partner

LEMMA MergeStepInHand ==
  ASSUME NEW fa, NEW i, NEW o, NEW b, InHand(b, fa, i, o), NEW marked
  PROVE  InHand(MergeStep(b, marked), fa, i, o)
  <1>1. CASE ~ CanMerge(b, marked)
    BY <1>1 DEF MergeStep
  <1>2. CASE CanMerge(b, marked)
    <2>1. PICK x, p, ga : x = b.index /\ p = b.order /\ ga = b.area
      OBVIOUS
    <2>2. PICK y : y = BuddyOf(x, p)
      OBVIOUS
    <2>3. p \in Orders /\ Block(ga, y, p)
      BY <1>2, <2>1, <2>2 DEF CanMerge, InHand, Orders, Block
    <2>4. InPool(x, p) /\ InPool(y, p)
      BY <2>1, <2>3 DEF InHand, Sound, AllGood, GoodBlock, InPool
    <2>5. Partner(x, y, p)
      <3>1. p \in Nat /\ Multiple(x, Pow2[p])
        BY <2>3, <2>4 DEF Orders, InPool
      <3> QED BY <2>2, <3>1, BuddyIsPartner
    <2>6. PICK m : m = IF x < y THEN x ELSE y
      OBVIOUS
    <2>7. /\ InPool(m, p + 1)
          /\ \A q \in Pages : Over(q, m, p + 1) <=> (Over(q, x, p) \/ Over(q, y, p))
      BY <2>3, <2>4, <2>5, <2>6, MergeHalves
    <2>8. PICK na : na = RemoveFreeNode(ga, y, p)
      OBVIOUS
    <2>9. Sound(ga) /\ Merged(ga)
      BY <2>1 DEF InHand
    <2>10. Sound(na) /\ Minus(ga, na, y, p)
      BY <2>3, <2>8, <2>9, RemoveDrops
    <2>11. Merged(na)
      BY <2>9, <2>10, RemoveMerged
    <2>12. \A q \in Pages : Covered(na, q) <=> (Covered(ga, q) /\ ~ Over(q, y, p))
      BY <2>3, <2>9, <2>10, MinusCovers
    <2>13. \A q \in Pages : Over(q, y, p) => Covered(ga, q)
      BY <2>3 DEF Covered
    <2>14. \A q \in Pages :
             /\ (Covered(ga, q) \/ Over(q, x, p)) <=> (Covered(fa, q) \/ Over(q, i, o))
             /\ ~ (Covered(ga, q) /\ Over(q, x, p))
             /\ Covered(ga, q) => Covered(fa, q)
      BY <2>1 DEF InHand
    <2>15. PICK c : c = MergeStep(b, marked)
      OBVIOUS
    <2>16. c.area = na /\ c.index = m /\ c.order = p + 1
      BY <1>2, <2>1, <2>2, <2>6, <2>8, <2>15 DEF MergeStep
    <2>17. \A q \in Pages :
             /\ (Covered(na, q) \/ Over(q, m, p + 1)) <=> (Covered(fa, q) \/ Over(q, i, o))
             /\ ~ (Covered(na, q) /\ Over(q, m, p + 1))
             /\ Covered(na, q) => Covered(fa, q)
      BY <2>7, <2>12, <2>13, <2>14
    <2>18. p + 1 \in 0 .. MaxOrder + 1
      BY <2>3 DEF Orders
    <2>19. InHand(c, fa, i, o)
      BY <2>7, <2>10, <2>11, <2>16, <2>17, <2>18 DEF InHand
    <2> QED BY <2>15, <2>19
  <1> QED BY <1>1, <1>2

(***************************************************************************)
(* The loop ends with a block that cannot be merged: every round raises    *)
(* the order.                                                              *)
(***************************************************************************)
InFirst(fa, index, order) == [area |-> fa, index |-> index, order |-> order]

IsMerge(r, fa, marked, index, order, n) ==
  r = [k \in 0 .. n |-> IF k = 0 THEN [area |-> fa, index |-> index, order |-> order]
                        ELSE MergeStep(r[k - 1], marked)]

LEMMA MergeExists ==
  ASSUME NEW fa, NEW marked, NEW index, NEW order
  PROVE  \A n \in Nat : \E r : IsMerge(r, fa, marked, index, order, n)
  <1>1. PICK S : S = {n \in Nat : \E r : IsMerge(r, fa, marked, index, order, n)}
    OBVIOUS
  <1>2. 0 \in S
    <2>1. PICK r : r = [k \in 0 .. 0 |-> InFirst(fa, index, order)]
      OBVIOUS
    <2>2. IsMerge(r, fa, marked, index, order, 0)
      BY <2>1 DEF IsMerge, InFirst
    <2> QED BY <1>1, <2>2
  <1>3. ASSUME NEW n \in Nat, n \in S PROVE n + 1 \in S
    <2>1. PICK q : IsMerge(q, fa, marked, index, order, n)
      BY <1>1, <1>3
    <2>2. PICK r : r = [k \in 0 .. n + 1 |->
                          IF k = n + 1 THEN MergeStep(q[n], marked) ELSE q[k]]
      OBVIOUS
    <2>3. ASSUME NEW k \in 0 .. n + 1
          PROVE  r[k] = IF k = 0 THEN InFirst(fa, index, order)
                        ELSE MergeStep(r[k - 1], marked)
      <3>1. CASE k = n + 1
        <4>1. r[k] = MergeStep(q[n], marked) /\ r[n] = q[n] /\ k - 1 = n /\ k # 0
          BY <2>2, <3>1
        <4> QED BY <4>1
      <3>2. CASE k = 0
        <4>1. q[0] = InFirst(fa, index, order) /\ r[0] = q[0]
          BY <2>1, <2>2 DEF IsMerge, InFirst
        <4> QED BY <3>2, <4>1
      <3>3. CASE k \in 1 .. n
        <4>1. q[k] = MergeStep(q[k - 1], marked)
          BY <2>1, <3>3 DEF IsMerge
        <4>2. r[k] = q[k] /\ r[k - 1] = q[k - 1] /\ k # 0
          BY <2>2, <3>3
        <4> QED BY <4>1, <4>2
      <3> QED BY <3>1, <3>2, <3>3
    <2>4. r = [k \in 0 .. n + 1 |-> IF k = 0 THEN InFirst(fa, index, order)
                                    ELSE MergeStep(r[k - 1], marked)]
      BY <2>2, <2>3
    <2>5. IsMerge(r, fa, marked, index, order, n + 1)
      BY <2>4, Zenon DEF IsMerge, InFirst
    <2> QED BY <1>1, <2>5
  <1>4. \A n \in Nat : n \in S
    BY <1>2, <1>3, NatInduct
  <1> QED BY <1>1, <1>4

LEMMA MergeEnds ==
  ASSUME NEW fa, Sound(fa), Merged(fa), NEW marked,
         NEW i, NEW o \in Orders, InPool(i, o),
         \A q \in Pages : Over(q, i, o) => ~ Covered(fa, q)
  PROVE  /\ InHand(Merge(fa, marked, i, o), fa, i, o)
         /\ ~ CanMerge(Merge(fa, marked, i, o), marked)
  <1>1. PICK r : r = CHOOSE x : IsMerge(x, fa, marked, i, o, MaxOrder + 1)
    OBVIOUS
  <1>2. IsMerge(r, fa, marked, i, o, MaxOrder + 1)
    <2>1. \E x : IsMerge(x, fa, marked, i, o, MaxOrder + 1)
      BY MergeExists
    <2> QED BY <1>1, <2>1, Zenon
  <1>3. Merge(fa, marked, i, o) = r[MaxOrder + 1]
    BY <1>1, Zenon DEF Merge, IsMerge
  <1>4. /\ r[0] = InFirst(fa, i, o)
        /\ \A k \in 0 .. MaxOrder : r[k + 1] = MergeStep(r[k], marked)
    <2>1. r[0] = InFirst(fa, i, o)
      BY <1>2 DEF IsMerge, InFirst
    <2>2. ASSUME NEW k \in 0 .. MaxOrder PROVE r[k + 1] = MergeStep(r[k], marked)
      <3>1. k + 1 \in 0 .. MaxOrder + 1 /\ k + 1 # 0 /\ (k + 1) - 1 = k
        OBVIOUS
      <3> QED BY <1>2, <3>1 DEF IsMerge
    <2> QED BY <2>1, <2>2
  <1>5. PICK S : S = {k \in 0 .. MaxOrder + 1 :
                        /\ InHand(r[k], fa, i, o)
                        /\ CanMerge(r[k], marked) => k <= r[k].order}
    OBVIOUS
  <1>6. 0 \in S
    <2>1. PICK b : b = InFirst(fa, i, o)
      OBVIOUS
    <2>2. b.area = fa /\ b.index = i /\ b.order = o
      BY <2>1 DEF InFirst
    <2>3. o \in 0 .. MaxOrder + 1 /\ 0 <= o
      BY DEF Orders
    <2>4. InHand(b, fa, i, o)
      BY <2>2, <2>3 DEF InHand
    <2> QED BY <1>4, <1>5, <2>1, <2>2, <2>3, <2>4
  <1>7. ASSUME NEW k \in 0 .. MaxOrder, k \in S PROVE k + 1 \in S
    <2>1. PICK b, c : b = r[k] /\ c = r[k + 1] /\ c = MergeStep(b, marked)
      BY <1>4
    <2>2. InHand(b, fa, i, o) /\ (CanMerge(b, marked) => k <= b.order)
      BY <1>5, <1>7, <2>1
    <2>3. InHand(c, fa, i, o)
      BY <2>1, <2>2, MergeStepInHand
    <2>4. CanMerge(c, marked) => k + 1 <= c.order
      <3>1. CASE ~ CanMerge(b, marked)
        BY <2>1, <3>1 DEF MergeStep
      <3>2. CASE CanMerge(b, marked)
        <4>1. c.order = b.order + 1
          BY <2>1, <3>2 DEF MergeStep
        <4>2. b.order \in Int
          BY <2>2 DEF InHand
        <4> QED BY <2>2, <3>2, <4>1, <4>2
      <3> QED BY <3>1, <3>2
    <2>5. PICK l \in 0 .. MaxOrder + 1 : l = k + 1
      OBVIOUS
    <2> QED BY <1>5, <2>1, <2>3, <2>4, <2>5
  <1>8. \A k \in 0 .. MaxOrder + 1 : k \in S
    <2>1. \A k \in 0 .. (MaxOrder + 1) - 1 : k \in S => k + 1 \in S
      BY <1>7
    <2>2. PICK m \in Int : m = MaxOrder + 1
      OBVIOUS
    <2> QED BY <1>6, <2>1, <2>2, UpInduction
  <1>9. MaxOrder + 1 \in S
    BY <1>8
  <1>10. PICK b : b = r[MaxOrder + 1]
    OBVIOUS
  <1>11. InHand(b, fa, i, o) /\ (CanMerge(b, marked) => MaxOrder + 1 <= b.order)
    BY <1>5, <1>9, <1>10
  <1>12. ~ CanMerge(b, marked)
    BY <1>11 DEF CanMerge, InHand
  <1> QED BY <1>3, <1>10, <1>11, <1>12

(***************************************************************************)
(* releaseBlock() adds the pages of the block to the lists.  When they     *)
(* complete two partners of the largest order, the second of them, y, is   *)
(* dropped.                                                                *)
(***************************************************************************)
Adds(fa, ga, i, o) ==
  \A q \in Pages : Covered(ga, q) <=> (Covered(fa, q) \/ Over(q, i, o))

Drops(fa, ga, i, o, y) ==
  /\ SecondTop(y)
  /\ \A q \in Pages : Over(q, y, MaxOrder) => (Covered(fa, q) \/ Over(q, i, o))
  /\ \A q \in Pages :
       Covered(ga, q) <=> ((Covered(fa, q) \/ Over(q, i, o)) /\ ~ Over(q, y, MaxOrder))

Released(fa, ga, i, o) ==
  /\ Sound(ga) /\ Merged(ga)
  /\ Adds(fa, ga, i, o) \/ \E y : Drops(fa, ga, i, o, y)

LEMMA ReleaseBlockFrees ==
  ASSUME NEW fa, Sound(fa), Merged(fa), NEW marked,
         NEW i, NEW o \in Orders, InPool(i, o),
         \A q \in Pages : Over(q, i, o) => ~ Covered(fa, q),
         \A q \in Pages : Covered(fa, q) => q \notin marked
  PROVE  Released(fa, ReleaseBlock(fa, marked, i, o), i, o)
  <1>1. PICK b : b = Merge(fa, marked, i, o)
    OBVIOUS
  <1>2. InHand(b, fa, i, o) /\ ~ CanMerge(b, marked)
    BY <1>1, MergeEnds
  <1>3. PICK x, p, ga : x = b.index /\ p = b.order /\ ga = b.area
    OBVIOUS
  <1>4. /\ Sound(ga) /\ Merged(ga) /\ InPool(x, p) /\ p \in 0 .. MaxOrder + 1
        /\ \A q \in Pages :
             /\ (Covered(ga, q) \/ Over(q, x, p)) <=> (Covered(fa, q) \/ Over(q, i, o))
             /\ ~ (Covered(ga, q) /\ Over(q, x, p))
             /\ Covered(ga, q) => Covered(fa, q)
    BY <1>2, <1>3 DEF InHand
  <1>5. PICK na : na = ReleaseBlock(fa, marked, i, o)
    OBVIOUS
  <1>6. CASE p \in Orders
    <2>1. na = InsertFreeNode(ga, x, p)
      <3>1. p = IF p < MaxOrder THEN p ELSE MaxOrder
        BY <1>6 DEF Orders
      <3> QED BY <1>1, <1>3, <1>5, <3>1 DEF ReleaseBlock, InsertBlock
    <2>2. GoodBlock(x, p)
      BY <1>4, <1>6 DEF GoodBlock, InPool
    <2>3. Sound(na) /\ Plus(ga, na, x, p)
      BY <1>4, <2>1, <2>2, InsertAdds
    <2>4. \A j : Partner(x, j, p) => ~ Block(ga, j, p)
      <3> SUFFICES ASSUME NEW j, Partner(x, j, p), Block(ga, j, p) PROVE FALSE
        OBVIOUS
      <3>1. j = BuddyOf(x, p)
        BY <1>6, <2>2, BuddyIsPartner DEF Orders, GoodBlock
      <3>2. j \in Pages
        BY <1>4 DEF Sound, AllGood, GoodBlock
      <3>3. Over(j, j, p)
        BY <1>6, <3>2, OverFirst
      <3>4. Covered(ga, j)
        BY <3>3 DEF Covered
      <3>5. j \notin marked
        BY <1>4, <3>2, <3>4
      <3> QED BY <1>2, <1>3, <1>6, <3>1, <3>5 DEF CanMerge, Block, Orders
    <2>5. Merged(na)
      BY <1>4, <1>6, <2>2, <2>3, <2>4, InsertMerged DEF GoodBlock
    <2>6. \A q \in Pages : Covered(na, q) <=> (Covered(ga, q) \/ Over(q, x, p))
      BY <1>6, <2>3, PlusCovers
    <2>7. Adds(fa, na, i, o)
      BY <1>4, <2>6 DEF Adds
    <2> QED BY <1>5, <2>3, <2>5, <2>7 DEF Released
  <1>7. CASE p = MaxOrder + 1
    <2>1. PICK m \in Orders : m = MaxOrder /\ p = m + 1 /\ m \in Nat
      BY <1>7 DEF Orders
    <2>2. na = InsertFreeNode(ga, x, m)
      <3>1. m = IF p < MaxOrder THEN p ELSE MaxOrder
        BY <2>1
      <3> QED BY <1>1, <1>3, <1>5, <3>1 DEF ReleaseBlock, InsertBlock
    <2>3. PICK P \in Nat \ {0} : P = Pow2[m] /\ Pow2[p] = 2 * P
      BY <2>1, Pow2Nat
    <2>4. GoodBlock(x, m) /\ FirstHalf(x, m)
      <3>1. PICK h \in Nat : x = h * (2 * P)
        BY <1>4, <2>3 DEF InPool, Multiple
      <3>2. x = (2 * h) * P /\ 2 * h \in Nat
        BY <3>1
      <3>3. Multiple(x, P) /\ Multiple(x, 2 * P)
        BY <3>1, <3>2 DEF Multiple
      <3>4. x \in Nat /\ x + P <= TotalPages /\ x \in Pages
        BY <1>4, <2>3 DEF InPool, Pages
      <3> QED BY <2>1, <2>3, <3>3, <3>4 DEF GoodBlock, FirstHalf
    <2>5. PICK y : y = x + P
      OBVIOUS
    <2>6. \A q \in Pages : Over(q, x, p) <=> (Over(q, x, m) \/ Over(q, y, m))
      BY <1>4, <2>1, <2>3, <2>5, Halves DEF InPool
    <2>7. \A q \in Pages : Over(q, x, m) => ~ Covered(ga, q)
      BY <1>4, <2>6
    <2>8. Sound(na) /\ Plus(ga, na, x, m)
      BY <1>4, <2>2, <2>4, <2>7, InsertAdds
    <2>9. \A j : Partner(x, j, m) => ~ Block(ga, j, m)
      <3> SUFFICES ASSUME NEW j, Partner(x, j, m), Block(ga, j, m) PROVE FALSE
        OBVIOUS
      <3>1. Partner(x, y, m)
        BY <2>3, <2>4, <2>5 DEF Partner
      <3>2. j = y
        BY <2>1, <2>4, <3>1, BuddyIsPartner DEF GoodBlock
      <3>3. y \in Pages
        BY <1>4, <3>2 DEF Sound, AllGood, GoodBlock
      <3>4. Over(y, y, m)
        BY <2>1, <3>3, OverFirst
      <3>5. Covered(ga, y)
        BY <3>2, <3>4 DEF Covered
      <3> QED BY <1>4, <2>6, <3>3, <3>4, <3>5
    <2>10. Merged(na)
      BY <1>4, <2>1, <2>4, <2>8, <2>9, InsertMerged DEF GoodBlock
    <2>11. \A q \in Pages : Covered(na, q) <=> (Covered(ga, q) \/ Over(q, x, m))
      BY <2>1, <2>8, PlusCovers
    <2>12. \A q \in Pages : ~ (Over(q, x, m) /\ Over(q, y, m))
      BY <1>4, <2>1, <2>3, <2>5, Halves DEF InPool
    <2>13. SecondTop(y)
      <3>1. PICK h \in Nat : x = h * (2 * P)
        BY <1>4, <2>3 DEF InPool, Multiple
      <3>2. y = (2 * h + 1) * P /\ 2 * h + 1 \in Nat
        BY <2>3, <2>5, <3>1
      <3>3. Multiple(y, P)
        BY <3>2 DEF Multiple
      <3>4. y \in Pages /\ y + P <= TotalPages
        BY <1>4, <2>3, <2>5 DEF InPool, Pages
      <3>5. ~ Multiple(y, 2 * P)
        <4> SUFFICES ASSUME NEW g \in Nat, y = g * (2 * P) PROVE FALSE
          BY DEF Multiple
        <4>1. (2 * h + 1) * P = (2 * g) * P
          BY <3>2
        <4>2. 2 * h + 1 = 2 * g
          BY <4>1
        <4> QED BY <4>2
      <3> QED BY <2>1, <2>3, <3>3, <3>4, <3>5 DEF SecondTop, TopBlock, GoodBlock, FirstHalf
    <2>14. Drops(fa, na, i, o, y)
      <3>1. ASSUME NEW q \in Pages, Over(q, y, MaxOrder)
            PROVE  Covered(fa, q) \/ Over(q, i, o)
        BY <1>4, <2>1, <2>6, <3>1
      <3>2. ASSUME NEW q \in Pages
            PROVE  Covered(na, q) <=> ((Covered(fa, q) \/ Over(q, i, o))
                                         /\ ~ Over(q, y, MaxOrder))
        <4>1. Over(q, y, MaxOrder) <=> Over(q, y, m)
          BY <2>1
        <4> QED BY <1>4, <2>6, <2>11, <2>12, <4>1
      <3> QED BY <2>13, <3>1, <3>2 DEF Drops
    <2> QED BY <1>5, <2>8, <2>10, <2>14 DEF Released
  <1> QED BY <1>4, <1>6, <1>7 DEF Orders

(***************************************************************************)
(* Among pages that are not lost at boot nothing is dropped.               *)
(***************************************************************************)
LEMMA ReleasedAdds ==
  ASSUME NEW fa, NEW ga, NEW i, NEW o, Released(fa, ga, i, o),
         \A q \in Pages : (Covered(fa, q) \/ Over(q, i, o)) => ~ IsLost(q)
  PROVE  Adds(fa, ga, i, o)
  <1> SUFFICES ASSUME NEW y, Drops(fa, ga, i, o, y) PROVE FALSE
    BY DEF Released
  <1>1. SecondTop(y) /\ y \in Pages /\ Over(y, y, MaxOrder)
    BY TopFacts DEF Drops, SecondTop
  <1>2. Covered(fa, y) \/ Over(y, i, o)
    BY <1>1 DEF Drops
  <1> QED BY <1>1, <1>2 DEF IsLost

-----------------------------------------------------------------------------
(***************************************************************************)
(* Buddy::initialize().  The order it finds for a start index gives an     *)
(* aligned block inside the pool.                                          *)
(***************************************************************************)
LowBitsClear(i, k) == \A j \in 0 .. k - 1 : (i \div Pow2[j]) % 2 = 0

LEMMA NextMultiple ==
  ASSUME NEW i, NEW k \in Nat, Multiple(i, Pow2[k]), (i \div Pow2[k]) % 2 = 0
  PROVE  Multiple(i, Pow2[k + 1])
  <1>1. PICK P \in Nat \ {0} : P = Pow2[k] /\ Pow2[k + 1] = 2 * P
    BY Pow2Nat
  <1>2. PICK h \in Nat : i = h * P
    BY <1>1 DEF Multiple
  <1>3. i \div P = h
    BY <1>2
  <1>4. PICK g \in Nat : h = 2 * g
    BY <1>1, <1>3
  <1>5. i = g * (2 * P)
    BY <1>2, <1>4
  <1> QED BY <1>1, <1>5 DEF Multiple

LEMMA ClearIsMultiple ==
  ASSUME NEW i \in Nat, NEW k \in Nat, LowBitsClear(i, k)
  PROVE  Multiple(i, Pow2[k])
  <1>1. PICK S : S = {j \in Nat : Multiple(i, Pow2[j])}
    OBVIOUS
  <1>2. 0 \in S
    <2>1. Pow2[0] = 1 /\ i = i * 1
      BY Pow2Rec
    <2> QED BY <1>1, <2>1 DEF Multiple
  <1>3. ASSUME NEW j \in 0 .. k - 1, j \in S PROVE j + 1 \in S
    <2>1. j \in Nat /\ (i \div Pow2[j]) % 2 = 0 /\ Multiple(i, Pow2[j])
      BY <1>1, <1>3 DEF LowBitsClear
    <2>2. Multiple(i, Pow2[j + 1])
      BY <2>1, NextMultiple
    <2> QED BY <1>1, <2>2
  <1>4. \A j \in 0 .. k : j \in S
    BY <1>2, <1>3, UpInduction
  <1> QED BY <1>1, <1>4

LEMMA AlignedOrderFacts ==
  ASSUME NEW i \in Nat
  PROVE  /\ AlignedOrder(i) \in Orders /\ Multiple(i, Pow2[AlignedOrder(i)])
         /\ AlignedOrder(i) = MaxOrder \/ (i \div Pow2[AlignedOrder(i)]) % 2 = 1
  <1>1. \E k \in Orders : /\ LowBitsClear(i, k)
                          /\ k = MaxOrder \/ (i \div Pow2[k]) % 2 = 1
    <2> SUFFICES ASSUME ~ \E k \in Orders : /\ LowBitsClear(i, k)
                                            /\ k = MaxOrder \/ (i \div Pow2[k]) % 2 = 1
                 PROVE  FALSE
      OBVIOUS
    <2>1. PICK S : S = {k \in Orders : LowBitsClear(i, k)}
      OBVIOUS
    <2>2. 0 \in S
      BY <2>1 DEF LowBitsClear, Orders
    <2>3. ASSUME NEW k \in 0 .. MaxOrder - 1, k \in S PROVE k + 1 \in S
      <3>1. k \in Orders /\ LowBitsClear(i, k) /\ (i \div Pow2[k]) % 2 # 1
        BY <2>1, <2>3
      <3>2. Pow2[k] \in Nat \ {0}
        BY <3>1, OrderSize
      <3>3. (i \div Pow2[k]) % 2 = 0
        <4>1. i \div Pow2[k] \in Int
          BY <3>2
        <4> QED BY <3>1, <4>1
      <3>4. LowBitsClear(i, k + 1)
        <4>1. ASSUME NEW j \in 0 .. (k + 1) - 1 PROVE (i \div Pow2[j]) % 2 = 0
          <5>1. j = k \/ j \in 0 .. k - 1
            OBVIOUS
          <5> QED BY <3>1, <3>3, <5>1 DEF LowBitsClear
        <4> QED BY <4>1 DEF LowBitsClear
      <3>5. k + 1 \in Orders
        BY DEF Orders
      <3> QED BY <2>1, <3>4, <3>5
    <2>4. \A k \in 0 .. MaxOrder : k \in S
      BY <2>2, <2>3, UpInduction
    <2>5. MaxOrder \in Orders /\ LowBitsClear(i, MaxOrder)
      BY <2>1, <2>4 DEF Orders
    <2> QED BY <2>5
  <1>2. PICK a : a = AlignedOrder(i)
    OBVIOUS
  <1>3. /\ a \in Orders /\ LowBitsClear(i, a)
        /\ a = MaxOrder \/ (i \div Pow2[a]) % 2 = 1
    BY <1>1, <1>2, Zenon DEF AlignedOrder, LowBitsClear
  <1>4. Multiple(i, Pow2[a])
    BY <1>3, ClearIsMultiple DEF Orders
  <1> QED BY <1>2, <1>3, <1>4

LEMMA InitialOrderFacts ==
  ASSUME NEW i \in Pages
  PROVE  InitialOrder(i) \in Orders /\ InPool(i, InitialOrder(i))
  <1>1. PICK a \in Orders : a = AlignedOrder(i) /\ Multiple(i, Pow2[a])
    BY AlignedOrderFacts DEF Pages
  <1>2. PICK P \in Nat \ {0} : P = Pow2[a]
    BY OrderSize
  <1>3. PICK length : length = IF P < TotalPages - i THEN P ELSE TotalPages - i
    OBVIOUS
  <1>4. length \in Nat \ {0} /\ length <= P /\ i + length <= TotalPages
    BY <1>2, <1>3 DEF Pages
  <1>5. PICK l : l = InitialOrder(i)
    OBVIOUS
  <1>6. l = Log2(length)
    BY <1>1, <1>2, <1>3, <1>5 DEF InitialOrder
  <1>7. l \in Nat /\ Pow2[l] <= length
    BY <1>4, <1>6, Log2Facts
  <1>8. Pow2[l] \in Nat \ {0}
    BY <1>7, Pow2Nat
  <1>9. l <= a
    <2> SUFFICES ASSUME a < l PROVE FALSE
      BY <1>7 DEF Orders
    <2>1. 2 * Pow2[a] <= Pow2[l]
      BY <1>7, Pow2Mono DEF Orders
    <2> QED BY <1>2, <1>4, <1>7, <1>8, <2>1
  <1>10. Multiple(i, Pow2[l])
    <2>1. PICK g \in Nat : i = g * P
      BY <1>1, <1>2 DEF Multiple
    <2>2. PICK h \in Nat \ {0} : P = h * Pow2[l]
      BY <1>2, <1>7, <1>9, Pow2Divides DEF Divides, Orders
    <2>3. i = (g * h) * Pow2[l] /\ g * h \in Nat
      BY <1>8, <2>1, <2>2
    <2> QED BY <2>3 DEF Multiple
  <1>11. l \in Orders /\ i + Pow2[l] <= TotalPages
    BY <1>4, <1>7, <1>8, <1>9 DEF Orders, Pages
  <1> QED BY <1>5, <1>10, <1>11 DEF InPool

(***************************************************************************)
(* Where a whole block of the largest order starts, that order is found.   *)
(***************************************************************************)
LEMMA TopOrder ==
  ASSUME NEW i, TopBlock(i)
  PROVE  InitialOrder(i) = MaxOrder
  <1>1. /\ MaxOrder \in Orders /\ MaxOrder \in Nat /\ i \in Pages /\ i \in Nat
        /\ Multiple(i, Pow2[MaxOrder]) /\ i + Pow2[MaxOrder] <= TotalPages
    BY TopFacts
  <1>2. PICK T \in Nat \ {0} : T = Pow2[MaxOrder]
    BY <1>1, Pow2Nat
  <1>3. PICK a : a = AlignedOrder(i)
    OBVIOUS
  <1>4. a \in Orders /\ (a = MaxOrder \/ (i \div Pow2[a]) % 2 = 1)
    BY <1>1, <1>3, AlignedOrderFacts
  <1>5. a = MaxOrder
    <2> SUFFICES ASSUME a # MaxOrder PROVE FALSE
      OBVIOUS
    <2>1. a \in Nat /\ a + 1 \in Nat /\ a + 1 <= MaxOrder
      BY <1>4 DEF Orders
    <2>2. PICK A \in Nat \ {0} : A = Pow2[a] /\ Pow2[a + 1] = 2 * A
      BY <2>1, Pow2Nat
    <2>3. PICK d \in Nat \ {0} : T = d * (2 * A)
      BY <1>1, <1>2, <2>1, <2>2, Pow2Divides DEF Divides
    <2>4. PICK h \in Nat : i = h * T
      BY <1>1, <1>2 DEF Multiple
    <2>5. PICK c \in Nat : c = h * d
      OBVIOUS
    <2>6. i = c * (2 * A)
      BY <2>3, <2>4, <2>5
    <2>7. i = (2 * c) * A
      BY <2>6
    <2>8. i \div A = 2 * c
      BY <2>7
    <2> QED BY <1>4, <2>2, <2>8
  <1>6. PICK l : l = Log2(T)
    OBVIOUS
  <1>7. InitialOrder(i) = l
    <2>1. T <= TotalPages - i
      BY <1>1, <1>2 DEF Pages
    <2>2. T = IF T < TotalPages - i THEN T ELSE TotalPages - i
      BY <1>1, <2>1 DEF Pages
    <2> QED BY <1>2, <1>3, <1>5, <1>6, <2>2 DEF InitialOrder
  <1>8. l \in Nat /\ Pow2[l] <= T /\ T < Pow2[l + 1]
    BY <1>6, Log2Facts
  <1>9. PICK L \in Nat \ {0} : L = Pow2[l] /\ Pow2[l + 1] = 2 * L
    BY <1>8, Pow2Nat
  <1>10. ~ (l < MaxOrder)
    <2> SUFFICES ASSUME l < MaxOrder PROVE FALSE
      OBVIOUS
    <2>1. 2 * Pow2[l] <= Pow2[MaxOrder]
      BY <1>1, <1>8, Pow2Mono
    <2> QED BY <1>2, <1>8, <1>9, <2>1
  <1>11. ~ (MaxOrder < l)
    <2> SUFFICES ASSUME MaxOrder < l PROVE FALSE
      OBVIOUS
    <2>1. 2 * Pow2[MaxOrder] <= Pow2[l]
      BY <1>1, <1>8, Pow2Mono
    <2> QED BY <1>2, <1>8, <1>9, <2>1
  <1> QED BY <1>1, <1>7, <1>8, <1>10, <1>11

(***************************************************************************)
(* The loop over the pool: the blocks released so far cover the pages      *)
(* before the index that are not lost, and the index is not inside a whole *)
(* block of the largest order.                                             *)
(***************************************************************************)
Before(fa, i) == \A q \in Pages : Covered(fa, q) <=> (q < i /\ ~ IsLost(q))

Boundary(i) == \A j : TopBlock(j) => (i <= j \/ j + Pow2[MaxOrder] <= i)

Filling(b) ==
  /\ b.index \in 0 .. TotalPages
  /\ Sound(b.area) /\ Merged(b.area)
  /\ Before(b.area, b.index)
  /\ Boundary(b.index)

Start == [area |-> [o \in Orders |-> <<>>], index |-> 0]

LEMMA StartFilling ==
  Filling(Start)
  <1>1. PICK fa : fa = [o \in Orders |-> <<>>]
    OBVIOUS
  <1>2. IsList(<<>>)
    BY DEF IsList
  <1>3. \A i, o : ~ Block(fa, i, o)
    BY <1>1, <1>2, ListElements DEF Block
  <1>4. IsArea(fa)
    BY <1>1, <1>2 DEF IsArea
  <1>5. Sound(fa) /\ Merged(fa) /\ \A q : ~ Covered(fa, q)
    BY <1>3, <1>4 DEF Sound, AllGood, Apart, Merged, Covered
  <1>6. Start.area = fa /\ Start.index = 0
    BY <1>1 DEF Start
  <1>7. Before(fa, 0)
    BY <1>5 DEF Before, Pages
  <1>8. Boundary(0)
    BY TopFacts DEF Boundary
  <1> QED BY <1>5, <1>6, <1>7, <1>8 DEF Filling

(***************************************************************************)
(* A block of the loop that reaches into a whole block of the largest      *)
(* order is that block.                                                    *)
(***************************************************************************)
LEMMA FillsTop ==
  ASSUME NEW i \in Pages, Boundary(i), NEW o, o = InitialOrder(i),
         NEW j, TopBlock(j), NEW q \in Pages, Over(q, i, o), Over(q, j, MaxOrder)
  PROVE  i = j /\ o = MaxOrder
  <1>1. /\ MaxOrder \in Nat /\ j \in Nat /\ i \in Nat /\ q \in Nat
        /\ Multiple(j, Pow2[MaxOrder])
    BY TopFacts DEF Pages
  <1>2. o \in Orders /\ InPool(i, o)
    BY InitialOrderFacts
  <1>3. PICK T \in Nat \ {0} : T = Pow2[MaxOrder]
    BY <1>1, Pow2Nat
  <1>4. PICK P \in Nat \ {0} : P = Pow2[o]
    BY <1>2, OrderSize
  <1>5. o \in Nat /\ o <= MaxOrder /\ Multiple(i, Pow2[o])
    BY <1>2 DEF Orders, InPool
  <1>6. Inside(i, o, j, MaxOrder)
    BY <1>1, <1>5, Nested
  <1>7. Over(i, i, o)
    BY <1>1, <1>4 DEF Over
  <1>8. j <= i /\ i < j + T
    BY <1>1, <1>3, <1>6, <1>7 DEF Inside, Over
  <1>9. i <= j \/ j + T <= i
    BY <1>3 DEF Boundary
  <1>10. i = j
    BY <1>1, <1>3, <1>8, <1>9
  <1> QED BY <1>10, TopOrder

LEMMA NextBoundary ==
  ASSUME NEW i \in Pages, Boundary(i), NEW o, o = InitialOrder(i)
  PROVE  Boundary(i + Pow2[o])
  <1> SUFFICES ASSUME NEW j, TopBlock(j)
               PROVE  i + Pow2[o] <= j \/ j + Pow2[MaxOrder] <= i + Pow2[o]
    BY DEF Boundary
  <1>1. /\ MaxOrder \in Nat /\ j \in Pages /\ j \in Nat /\ i \in Nat
        /\ Over(j, j, MaxOrder)
    BY TopFacts DEF Pages
  <1>2. PICK T \in Nat \ {0} : T = Pow2[MaxOrder]
    BY <1>1, Pow2Nat
  <1>3. PICK P \in Nat \ {0} : P = Pow2[o]
    BY InitialOrderFacts, OrderSize
  <1>4. i <= j \/ j + T <= i
    BY <1>2 DEF Boundary
  <1>5. CASE j + T <= i
    BY <1>1, <1>2, <1>3, <1>5
  <1>6. CASE i + P <= j
    BY <1>3, <1>6
  <1>7. CASE i <= j /\ j < i + P
    <2>1. Over(j, i, o)
      BY <1>3, <1>7 DEF Over
    <2>2. i = j /\ o = MaxOrder
      BY <1>1, <2>1, FillsTop
    <2> QED BY <1>1, <1>2, <2>2
  <1> QED BY <1>1, <1>3, <1>4, <1>5, <1>6, <1>7

(***************************************************************************)
(* The first block of a pair of the largest order is covered before the    *)
(* second is released, so the second is not listed beside it.              *)
(***************************************************************************)
LEMMA FirstCovered ==
  ASSUME NEW fa, NEW j, SecondTop(j), Before(fa, j)
  PROVE  \E k : TopBlock(k) /\ Partner(k, j, MaxOrder) /\ FullOn(fa, k, MaxOrder)
  <1>1. PICK k \in Nat : /\ TopBlock(k) /\ FirstHalf(k, MaxOrder)
                         /\ Partner(k, j, MaxOrder) /\ j = k + Pow2[MaxOrder]
    BY SecondHasFirst
  <1>2. ASSUME NEW q \in Pages, Over(q, k, MaxOrder) PROVE Covered(fa, q)
    <2>1. q < j
      BY <1>1, <1>2 DEF Over
    <2>2. ~ IsLost(q)
      <3> SUFFICES ASSUME NEW e, SecondTop(e), Over(q, e, MaxOrder) PROVE FALSE
        BY DEF IsLost
      <3>1. /\ MaxOrder \in Nat /\ e \in Nat /\ q \in Nat
            /\ Multiple(e, Pow2[MaxOrder]) /\ Multiple(k, Pow2[MaxOrder])
        BY <1>1, TopFacts DEF SecondTop, Pages
      <3>2. e = k
        BY <1>1, <1>2, <3>1, SameStart
      <3> QED BY <1>1, <3>2 DEF SecondTop
    <2> QED BY <2>1, <2>2 DEF Before
  <1> QED BY <1>1, <1>2 DEF FullOn

LEMMA BeforeNext ==
  ASSUME NEW fa, NEW i \in Pages, Before(fa, i), Boundary(i),
         NEW o, o = InitialOrder(i), NEW ga, Released(fa, ga, i, o)
  PROVE  Before(ga, i + Pow2[o])
  <1>1. o \in Orders /\ InPool(i, o) /\ i \in Nat
    BY InitialOrderFacts DEF Pages
  <1>2. PICK P \in Nat \ {0} : P = Pow2[o]
    BY <1>1, OrderSize
  <1>3. Sound(ga) /\ Merged(ga)
    BY DEF Released
  <1>4. ASSUME NEW q \in Pages
        PROVE  /\ q < i + P <=> (q < i \/ Over(q, i, o))
               /\ ~ (q < i /\ Over(q, i, o))
    BY <1>1, <1>2 DEF Over, Pages
  <1>5. CASE Adds(fa, ga, i, o)
    <2>1. ASSUME NEW q \in Pages, Over(q, i, o), IsLost(q) PROVE FALSE
      <3>1. PICK j : SecondTop(j) /\ Over(q, j, MaxOrder)
        BY <2>1 DEF IsLost
      <3>2. i = j /\ o = MaxOrder
        BY <2>1, <3>1, FillsTop DEF SecondTop
      <3>3. PICK k : /\ TopBlock(k) /\ Partner(k, j, MaxOrder)
                     /\ FullOn(fa, k, MaxOrder)
        BY <3>1, <3>2, FirstCovered
      <3>4. FullOn(ga, k, MaxOrder) /\ FullOn(ga, j, MaxOrder)
        BY <1>5, <3>2, <3>3 DEF Adds, FullOn
      <3>5. Block(ga, k, MaxOrder) /\ Block(ga, j, MaxOrder)
        BY <1>3, <3>1, <3>3, <3>4, TopListed DEF SecondTop
      <3> QED BY <1>3, <3>3, <3>5 DEF Merged
    <2>2. ASSUME NEW q \in Pages
          PROVE  Covered(ga, q) <=> (q < i + P /\ ~ IsLost(q))
      BY <1>4, <1>5, <2>1 DEF Adds, Before
    <2> QED BY <1>2, <2>2 DEF Before
  <1>6. ASSUME NEW y, Drops(fa, ga, i, o, y) PROVE Before(ga, i + Pow2[o])
    <2>1. SecondTop(y) /\ TopBlock(y) /\ y \in Pages /\ Over(y, y, MaxOrder)
      BY <1>6, TopFacts DEF Drops, SecondTop
    <2>2. ~ Covered(fa, y)
      BY <2>1 DEF Before, IsLost
    <2>3. Over(y, i, o)
      BY <1>6, <2>1, <2>2 DEF Drops
    <2>4. i = y /\ o = MaxOrder
      BY <2>1, <2>3, FillsTop
    <2>5. ASSUME NEW q \in Pages
          PROVE  Covered(ga, q) <=> (q < i + P /\ ~ IsLost(q))
      <3>1. Over(q, y, MaxOrder) <=> Over(q, i, o)
        BY <2>4
      <3>2. Over(q, i, o) => IsLost(q)
        BY <2>1, <3>1 DEF IsLost
      <3>3. Covered(ga, q)
              <=> ((Covered(fa, q) \/ Over(q, i, o)) /\ ~ Over(q, y, MaxOrder))
        BY <1>6 DEF Drops
      <3>4. Covered(fa, q) <=> (q < i /\ ~ IsLost(q))
        BY DEF Before
      <3> QED BY <1>4, <3>1, <3>2, <3>3, <3>4
    <2> QED BY <1>2, <2>5 DEF Before
  <1> QED BY <1>5, <1>6 DEF Released

LEMMA StepFilling ==
  ASSUME NEW b, Filling(b)
  PROVE  /\ Filling(InitializeStep(b))
         /\ \/ InitializeStep(b).index >= b.index + 1
            \/ InitializeStep(b).index = TotalPages
  <1>1. CASE b.index >= TotalPages
    BY <1>1 DEF InitializeStep, Filling
  <1>2. CASE ~ (b.index >= TotalPages)
    <2>1. PICK i, fa : i = b.index /\ fa = b.area
      OBVIOUS
    <2>2. i \in Pages
      BY <1>2, <2>1 DEF Filling, Pages
    <2>3. PICK o \in Orders : o = InitialOrder(i) /\ InPool(i, o)
      BY <2>2, InitialOrderFacts
    <2>4. Sound(fa) /\ Merged(fa) /\ Before(fa, i) /\ Boundary(i)
      BY <2>1 DEF Filling
    <2>5. PICK P \in Nat \ {0} : P = Pow2[o]
      BY OrderSize
    <2>6. \A q \in Pages : Over(q, i, o) => ~ Covered(fa, q)
      BY <2>2, <2>4 DEF Before, Over, Pages
    <2>7. PICK ga : ga = ReleaseBlock(fa, {}, i, o)
      OBVIOUS
    <2>8. Released(fa, ga, i, o)
      <3>1. \A q \in Pages : Covered(fa, q) => q \notin {}
        OBVIOUS
      <3> QED BY <2>3, <2>4, <2>6, <2>7, <3>1, ReleaseBlockFrees
    <2>9. PICK c : c = InitializeStep(b)
      OBVIOUS
    <2>10. c.area = ga /\ c.index = i + P
      BY <1>2, <2>1, <2>3, <2>5, <2>7, <2>9 DEF InitializeStep
    <2>11. i + P \in 0 .. TotalPages
      BY <2>2, <2>3, <2>5 DEF InPool, Pages
    <2>12. Before(ga, i + P) /\ Boundary(i + P)
      BY <2>2, <2>3, <2>4, <2>5, <2>8, BeforeNext, NextBoundary
    <2>13. Filling(c)
      BY <2>8, <2>10, <2>11, <2>12 DEF Filling, Released
    <2>14. c.index >= b.index + 1
      BY <2>1, <2>2, <2>5, <2>10 DEF Pages
    <2> QED BY <2>9, <2>13, <2>14
  <1> QED BY <1>1, <1>2

IsFilled(r, n) ==
  r = [k \in 0 .. n |-> IF k = 0 THEN [area |-> [o \in Orders |-> <<>>], index |-> 0]
                        ELSE InitializeStep(r[k - 1])]

LEMMA FilledExists ==
  \A n \in Nat : \E r : IsFilled(r, n)
  <1>1. PICK S : S = {n \in Nat : \E r : IsFilled(r, n)}
    OBVIOUS
  <1>2. 0 \in S
    <2>1. PICK r : r = [k \in 0 .. 0 |-> Start]
      OBVIOUS
    <2>2. IsFilled(r, 0)
      BY <2>1 DEF IsFilled, Start
    <2> QED BY <1>1, <2>2
  <1>3. ASSUME NEW n \in Nat, n \in S PROVE n + 1 \in S
    <2>1. PICK q : IsFilled(q, n)
      BY <1>1, <1>3
    <2>2. PICK r : r = [k \in 0 .. n + 1 |->
                          IF k = n + 1 THEN InitializeStep(q[n]) ELSE q[k]]
      OBVIOUS
    <2>3. ASSUME NEW k \in 0 .. n + 1
          PROVE  r[k] = IF k = 0 THEN Start ELSE InitializeStep(r[k - 1])
      <3>1. CASE k = n + 1
        <4>1. r[k] = InitializeStep(q[n]) /\ r[n] = q[n] /\ k - 1 = n /\ k # 0
          BY <2>2, <3>1
        <4> QED BY <4>1
      <3>2. CASE k = 0
        <4>1. q[0] = Start /\ r[0] = q[0]
          BY <2>1, <2>2 DEF IsFilled, Start
        <4> QED BY <3>2, <4>1
      <3>3. CASE k \in 1 .. n
        <4>1. q[k] = InitializeStep(q[k - 1])
          BY <2>1, <3>3 DEF IsFilled
        <4>2. r[k] = q[k] /\ r[k - 1] = q[k - 1] /\ k # 0
          BY <2>2, <3>3
        <4> QED BY <4>1, <4>2
      <3> QED BY <3>1, <3>2, <3>3
    <2>4. r = [k \in 0 .. n + 1 |-> IF k = 0 THEN Start ELSE InitializeStep(r[k - 1])]
      BY <2>2, <2>3
    <2>5. IsFilled(r, n + 1)
      BY <2>4, Zenon DEF IsFilled, Start
    <2> QED BY <1>1, <2>5
  <1>4. \A n \in Nat : n \in S
    BY <1>2, <1>3, NatInduct
  <1> QED BY <1>1, <1>4

LEMMA InitialAreaFacts ==
  /\ Sound(InitialArea) /\ Merged(InitialArea)
  /\ \A q \in Pages : Covered(InitialArea, q) <=> ~ IsLost(q)
  <1>1. PICK r : r = CHOOSE x : IsFilled(x, TotalPages)
    OBVIOUS
  <1>2. IsFilled(r, TotalPages)
    <2>1. \E x : IsFilled(x, TotalPages)
      BY FilledExists
    <2> QED BY <1>1, <2>1, Zenon
  <1>3. InitialArea = r[TotalPages].area
    BY <1>1, Zenon DEF InitialArea, IsFilled
  <1>4. /\ r[0] = Start
        /\ \A k \in 0 .. TotalPages - 1 : r[k + 1] = InitializeStep(r[k])
    <2>1. r[0] = Start
      BY <1>2 DEF IsFilled, Start
    <2>2. ASSUME NEW k \in 0 .. TotalPages - 1 PROVE r[k + 1] = InitializeStep(r[k])
      <3>1. k + 1 \in 0 .. TotalPages /\ k + 1 # 0 /\ (k + 1) - 1 = k
        OBVIOUS
      <3> QED BY <1>2, <3>1 DEF IsFilled
    <2> QED BY <2>1, <2>2
  <1>5. PICK S : S = {k \in 0 .. TotalPages : Filling(r[k]) /\ r[k].index >= k}
    OBVIOUS
  <1>6. 0 \in S
    <2>1. Start.index = 0
      BY DEF Start
    <2> QED BY <1>4, <1>5, <2>1, StartFilling
  <1>7. ASSUME NEW k \in 0 .. TotalPages - 1, k \in S PROVE k + 1 \in S
    <2>1. PICK b, c : b = r[k] /\ c = r[k + 1] /\ c = InitializeStep(b)
      BY <1>4
    <2>2. Filling(b) /\ b.index >= k
      BY <1>5, <1>7, <2>1
    <2>3. Filling(c) /\ (c.index >= b.index + 1 \/ c.index = TotalPages)
      BY <2>1, <2>2, StepFilling
    <2>4. b.index \in Int /\ c.index \in Int
      BY <2>2, <2>3 DEF Filling
    <2>5. c.index >= k + 1
      BY <2>2, <2>3, <2>4
    <2>6. PICK l \in 0 .. TotalPages : l = k + 1
      OBVIOUS
    <2> QED BY <1>5, <2>1, <2>3, <2>5, <2>6
  <1>8. \A k \in 0 .. TotalPages : k \in S
    BY <1>6, <1>7, UpInduction
  <1>9. PICK b : b = r[TotalPages]
    OBVIOUS
  <1>10. Filling(b) /\ b.index >= TotalPages
    BY <1>5, <1>8, <1>9
  <1>11. \A q \in Pages : q < b.index
    BY <1>10 DEF Filling, Pages
  <1>12. \A q \in Pages : Covered(b.area, q) <=> ~ IsLost(q)
    BY <1>10, <1>11 DEF Filling, Before
  <1> QED BY <1>3, <1>9, <1>10, <1>12 DEF Filling

-----------------------------------------------------------------------------
(***************************************************************************)
(* The inductive invariant.  The blocks held lie in the pool and share no  *)
(* page; the bitmap marks their pages and no listed page; a page whose     *)
(* flag is not PG_FREE was asked for by the caller that holds its block.   *)
(***************************************************************************)
HeldOver(q, b) == Over(q, b[1], Count2Order(b[2]))

InUse(q, b) == q \in b[1] .. b[1] + b[2] - 1

FlagOf(b) == IF b[2] = 1 THEN "SINGLE" ELSE "MULTI"

HeldGood(h) ==
  /\ h \subseteq Pages \X Counts
  /\ IsFiniteSet(h)
  /\ \A b \in h : GoodBlock(b[1], Count2Order(b[2]))

HeldApart(h) ==
  \A q \in Pages : \A b, c \in h : HeldOver(q, b) /\ HeldOver(q, c) => b = c

Marks(m, h) ==
  /\ m \subseteq Pages
  /\ \A q \in Pages : q \in m <=> \E b \in h : HeldOver(q, b)

AreaMarks(fa, m) ==
  \A q \in Pages : /\ Covered(fa, q) => q \notin m
                   /\ (Covered(fa, q) \/ q \in m) <=> ~ IsLost(q)

FlagsInv(f, h) ==
  /\ f \in [Pages -> {"FREE", "SINGLE", "MULTI"}]
  /\ \A q \in Pages : f[q] # "FREE" => \E b \in h : InUse(q, b)
  /\ \A b \in h : \A q \in Pages : InUse(q, b) => f[q] = FlagOf(b)

BuddyInv ==
  /\ Sound(freeArea) /\ Merged(freeArea)
  /\ HeldGood(held) /\ HeldApart(held)
  /\ Marks(bitmap, held)
  /\ AreaMarks(freeArea, bitmap)
  /\ FlagsInv(flags, held)

LEMMA CountFacts ==
  ASSUME NEW count \in Counts
  PROVE  /\ count \in Nat \ {0}
         /\ Count2Order(count) \in Nat
         /\ count <= Pow2[Count2Order(count)]
         /\ Pow2[Count2Order(count)] \in Nat \ {0}
  <1>1. count \in Nat \ {0}
    OBVIOUS
  <1>2. Count2Order(count) \in Nat /\ count <= Pow2[Count2Order(count)]
    BY <1>1, Count2OrderFacts
  <1> QED BY <1>1, <1>2, Pow2Nat

LEMMA SpanIsOver ==
  ASSUME NEW i \in Int, NEW o \in Nat, NEW q \in Int
  PROVE  q \in Span(i, o) <=> Over(q, i, o)
  BY Pow2Nat DEF Span, Over

(***************************************************************************)
(* The pages of a good block are pages of the pool, and so are those in    *)
(* use.                                                                    *)
(***************************************************************************)
LEMMA GoodPages ==
  ASSUME NEW i, NEW o, GoodBlock(i, o)
  PROVE  /\ Span(i, o) \subseteq Pages
         /\ \A q : q \in Span(i, o) <=> (q \in Pages /\ Over(q, i, o))
  <1>1. PICK P \in Nat \ {0} : P = Pow2[o]
    BY OrderSize DEF GoodBlock
  <1>2. i \in Nat /\ i + P <= TotalPages
    BY <1>1 DEF GoodBlock, Pages
  <1>3. Span(i, o) \subseteq Pages
    BY <1>1, <1>2 DEF Span, Pages
  <1>4. \A q \in Pages : q \in Span(i, o) <=> Over(q, i, o)
    BY <1>1, <1>2 DEF Span, Over, Pages
  <1> QED BY <1>3, <1>4

LEMMA UseIsHeld ==
  ASSUME NEW b, b[2] \in Counts, GoodBlock(b[1], Count2Order(b[2])), NEW q
  PROVE  InUse(q, b) => q \in Pages /\ HeldOver(q, b)
  <1>1. PICK i, c : i = b[1] /\ c = b[2]
    OBVIOUS
  <1>2. PICK P \in Nat \ {0} : P = Pow2[Count2Order(c)] /\ c <= P /\ c \in Nat \ {0}
    BY <1>1, CountFacts
  <1>3. i \in Nat /\ i + P <= TotalPages
    BY <1>1, <1>2 DEF GoodBlock, Pages
  <1> QED BY <1>1, <1>2, <1>3 DEF InUse, HeldOver, Over, Pages

LEMMA InitInv ==
  Init => BuddyInv
  <1> SUFFICES ASSUME Init PROVE BuddyInv
    OBVIOUS
  <1>1. /\ freeArea = InitialArea /\ bitmap = {} /\ held = {}
        /\ flags = [p \in Pages |-> "FREE"]
    BY DEF Init
  <1>2. Sound(freeArea) /\ Merged(freeArea) /\ AreaMarks(freeArea, bitmap)
    BY <1>1, InitialAreaFacts DEF AreaMarks
  <1>3. HeldGood(held) /\ HeldApart(held)
    BY <1>1, FS_EmptySet DEF HeldGood, HeldApart
  <1>4. Marks(bitmap, held)
    BY <1>1 DEF Marks
  <1>5. FlagsInv(flags, held)
    BY <1>1 DEF FlagsInv
  <1> QED BY <1>2, <1>3, <1>4, <1>5 DEF BuddyInv

LEMMA AllocateInv ==
  ASSUME BuddyInv, NEW count \in Counts, Allocate(count)
  PROVE  BuddyInv'
  <1>1. PICK o : o = Count2Order(count)
    OBVIOUS
  <1>2. PICK got : got = AllocateBlock(freeArea, o)
    OBVIOUS
  <1>3. PICK i, ga : i = got.index /\ ga = got.area
    OBVIOUS
  <1>4. PICK n : n = <<i, count>>
    OBVIOUS
  <1>5. /\ i # -1
        /\ freeArea' = ga
        /\ bitmap' = bitmap \cup Span(i, o)
        /\ flags' = [p \in Pages |-> IF p \in i .. i + count - 1
                                     THEN IF count = 1 THEN "SINGLE" ELSE "MULTI"
                                     ELSE flags[p]]
        /\ held' = held \cup {n}
    BY <1>1, <1>2, <1>3, <1>4 DEF Allocate, MarkBlock, PageFlags
  <1>6. Splits(freeArea, got, o)
    <2>1. o \in Nat /\ Sound(freeArea) /\ Merged(freeArea)
      BY <1>1, CountFacts DEF BuddyInv
    <2>2. SplitsOrFails(freeArea, got, o)
      BY <1>2, <2>1, AllocateBlockSplits
    <2> QED BY <1>3, <1>5, <2>2 DEF SplitsOrFails
  <1>7. /\ Sound(ga) /\ Merged(ga) /\ GoodBlock(i, o)
        /\ \A q \in Pages : /\ Covered(freeArea, q) <=> (Covered(ga, q) \/ Over(q, i, o))
                            /\ ~ (Covered(ga, q) /\ Over(q, i, o))
    BY <1>3, <1>6 DEF Splits
  <1>8. /\ n[1] = i /\ n[2] = count /\ Count2Order(n[2]) = o
        /\ \A q : HeldOver(q, n) <=> Over(q, i, o)
    BY <1>1, <1>4 DEF HeldOver
  <1>9. \A q : q \in Span(i, o) <=> (q \in Pages /\ Over(q, i, o))
    BY <1>7, GoodPages
  <1>10. \A q \in Pages : Over(q, i, o) => q \notin bitmap
    BY <1>7 DEF BuddyInv, AreaMarks
  <1>11. \A q \in Pages : \A b \in held : HeldOver(q, b) => ~ Over(q, i, o)
    BY <1>10 DEF BuddyInv, Marks
  <1>12. HeldGood(held')
    <2>1. i \in Pages
      BY <1>7 DEF GoodBlock
    <2>2. n \in Pages \X Counts
      BY <1>4, <2>1
    <2>3. IsFiniteSet(held')
      BY <1>5, FS_AddElement DEF BuddyInv, HeldGood
    <2>4. ASSUME NEW b \in held' PROVE GoodBlock(b[1], Count2Order(b[2]))
      <3>1. CASE b = n
        BY <1>7, <1>8, <3>1
      <3>2. CASE b \in held
        BY <3>2 DEF BuddyInv, HeldGood
      <3> QED BY <1>5, <3>1, <3>2
    <2> QED BY <1>5, <2>2, <2>3, <2>4 DEF BuddyInv, HeldGood
  <1>13. HeldApart(held')
    <2> SUFFICES ASSUME NEW q \in Pages, NEW b \in held', NEW c \in held',
                        HeldOver(q, b), HeldOver(q, c)
                 PROVE  b = c
      BY DEF HeldApart
    <2>1. CASE b \in held /\ c \in held
      BY <2>1 DEF BuddyInv, HeldApart
    <2>2. CASE b \in held /\ c = n
      BY <1>8, <1>11, <2>2
    <2>3. CASE b = n /\ c \in held
      BY <1>8, <1>11, <2>3
    <2> QED BY <1>5, <2>1, <2>2, <2>3
  <1>14. Marks(bitmap', held')
    <2>1. bitmap' \subseteq Pages
      BY <1>5, <1>9 DEF BuddyInv, Marks
    <2>2. ASSUME NEW q \in Pages PROVE q \in bitmap' <=> \E b \in held' : HeldOver(q, b)
      <3>1. q \in bitmap' <=> (q \in bitmap \/ Over(q, i, o))
        BY <1>5, <1>9
      <3>2. (\E b \in held' : HeldOver(q, b))
              <=> ((\E b \in held : HeldOver(q, b)) \/ HeldOver(q, n))
        BY <1>5
      <3> QED BY <1>8, <3>1, <3>2 DEF BuddyInv, Marks
    <2> QED BY <2>1, <2>2 DEF Marks
  <1>15. AreaMarks(ga, bitmap')
    BY <1>5, <1>7, <1>9 DEF BuddyInv, AreaMarks
  <1>16. FlagsInv(flags', held')
    <2>1. PICK g : g = flags'
      OBVIOUS
    <2>2. \A q : InUse(q, n) <=> q \in i .. i + count - 1
      BY <1>8 DEF InUse
    <2>3. \A q \in Pages : g[q] = IF InUse(q, n) THEN FlagOf(n) ELSE flags[q]
      BY <1>5, <1>8, <2>1, <2>2 DEF FlagOf
    <2>4. g = [q \in Pages |-> g[q]]
      BY <1>5, <2>1
    <2>5. FlagOf(n) \in {"FREE", "SINGLE", "MULTI"}
      BY DEF FlagOf
    <2>6. g \in [Pages -> {"FREE", "SINGLE", "MULTI"}]
      BY <2>3, <2>4, <2>5 DEF BuddyInv, FlagsInv
    <2>7. ASSUME NEW q \in Pages, g[q] # "FREE" PROVE \E b \in held' : InUse(q, b)
      <3>1. CASE InUse(q, n)
        BY <1>5, <3>1
      <3>2. CASE ~ InUse(q, n)
        <4>1. \E b \in held : InUse(q, b)
          BY <2>3, <2>7, <3>2 DEF BuddyInv, FlagsInv
        <4> QED BY <1>5, <4>1
      <3> QED BY <3>1, <3>2
    <2>8. ASSUME NEW b \in held', NEW q \in Pages, InUse(q, b) PROVE g[q] = FlagOf(b)
      <3>1. CASE b = n
        BY <2>3, <2>8, <3>1
      <3>2. CASE b \in held
        <4>1. b[2] \in Counts /\ GoodBlock(b[1], Count2Order(b[2]))
          BY <3>2 DEF BuddyInv, HeldGood
        <4>2. HeldOver(q, b)
          BY <2>8, <4>1, UseIsHeld
        <4>3. ~ InUse(q, n)
          BY <1>7, <1>8, <1>11, <3>2, <4>2, UseIsHeld
        <4> QED BY <2>3, <2>8, <3>2, <4>3 DEF BuddyInv, FlagsInv
      <3> QED BY <1>5, <3>1, <3>2
    <2> QED BY <2>1, <2>6, <2>7, <2>8 DEF FlagsInv
  <1> QED BY <1>5, <1>7, <1>12, <1>13, <1>14, <1>15, <1>16 DEF BuddyInv

LEMMA ReleaseInv ==
  ASSUME BuddyInv, NEW n \in held, Release(n[1], n[2])
  PROVE  BuddyInv'
  <1>1. PICK i, count : i = n[1] /\ count = n[2]
    OBVIOUS
  <1>2. PICK o : o = Count2Order(count)
    OBVIOUS
  <1>3. n \in Pages \X Counts /\ count \in Counts /\ n = <<i, count>>
    BY <1>1 DEF BuddyInv, HeldGood
  <1>4. PICK ga : ga = ReleaseBlock(freeArea, bitmap, i, o)
    OBVIOUS
  <1>5. /\ freeArea' = ga
        /\ bitmap' = bitmap \ Span(i, o)
        /\ flags' = [p \in Pages |-> IF p \in i .. i + count - 1 THEN "FREE" ELSE flags[p]]
        /\ held' = held \ {n}
    BY <1>1, <1>2, <1>3, <1>4 DEF Release, UnmarkBlock
  <1>6. GoodBlock(i, o)
    BY <1>1, <1>2 DEF BuddyInv, HeldGood
  <1>7. \A q : HeldOver(q, n) <=> Over(q, i, o)
    BY <1>1, <1>2 DEF HeldOver
  <1>8. \A q : q \in Span(i, o) <=> (q \in Pages /\ Over(q, i, o))
    BY <1>6, GoodPages
  <1>9. \A q \in Pages : Over(q, i, o) => q \in bitmap
    BY <1>7 DEF BuddyInv, Marks
  <1>10. \A q \in Pages : \A b \in held : HeldOver(q, b) /\ Over(q, i, o) => b = n
    BY <1>7 DEF BuddyInv, HeldApart
  <1>11. Released(freeArea, ga, i, o)
    <2>1. o \in Orders /\ InPool(i, o)
      BY <1>6 DEF GoodBlock, InPool
    <2>2. \A q \in Pages : Over(q, i, o) => ~ Covered(freeArea, q)
      BY <1>9 DEF BuddyInv, AreaMarks
    <2>3. \A q \in Pages : Covered(freeArea, q) => q \notin bitmap
      BY DEF BuddyInv, AreaMarks
    <2>4. Sound(freeArea) /\ Merged(freeArea)
      BY DEF BuddyInv
    <2> QED BY <1>4, <2>1, <2>2, <2>3, <2>4, ReleaseBlockFrees
  <1>12. HeldGood(held') /\ HeldApart(held')
    <2>1. IsFiniteSet(held')
      BY <1>5, FS_RemoveElement DEF BuddyInv, HeldGood
    <2> QED BY <1>5, <2>1 DEF BuddyInv, HeldGood, HeldApart
  <1>13. Marks(bitmap', held')
    <2>1. bitmap' \subseteq Pages
      BY <1>5 DEF BuddyInv, Marks
    <2>2. ASSUME NEW q \in Pages PROVE q \in bitmap' <=> \E b \in held' : HeldOver(q, b)
      <3>1. q \in bitmap' <=> (q \in bitmap /\ ~ Over(q, i, o))
        BY <1>5, <1>8
      <3>2. q \in bitmap <=> \E b \in held : HeldOver(q, b)
        BY DEF BuddyInv, Marks
      <3>3. ASSUME NEW b \in held, HeldOver(q, b), ~ Over(q, i, o)
            PROVE  \E c \in held' : HeldOver(q, c)
        <4>1. b # n
          BY <1>7, <3>3
        <4> QED BY <1>5, <3>3, <4>1
      <3>4. ASSUME NEW b \in held', HeldOver(q, b) PROVE q \in bitmap /\ ~ Over(q, i, o)
        BY <1>5, <1>10, <3>2, <3>4
      <3> QED BY <3>1, <3>2, <3>3, <3>4
    <2> QED BY <2>1, <2>2 DEF Marks
  <1>14. AreaMarks(ga, bitmap')
    <2>1. \A q \in Pages : (Covered(freeArea, q) \/ Over(q, i, o)) => ~ IsLost(q)
      BY <1>9 DEF BuddyInv, AreaMarks
    <2>2. Adds(freeArea, ga, i, o)
      BY <1>11, <2>1, ReleasedAdds
    <2> QED BY <1>5, <1>8, <1>9, <2>2 DEF BuddyInv, AreaMarks, Adds
  <1>15. FlagsInv(flags', held')
    <2>1. PICK g : g = flags'
      OBVIOUS
    <2>2. \A q : InUse(q, n) <=> q \in i .. i + count - 1
      BY <1>1 DEF InUse
    <2>3. \A q \in Pages : g[q] = IF InUse(q, n) THEN "FREE" ELSE flags[q]
      BY <1>5, <2>1, <2>2
    <2>4. g = [q \in Pages |-> g[q]]
      BY <1>5, <2>1
    <2>5. g \in [Pages -> {"FREE", "SINGLE", "MULTI"}]
      BY <2>3, <2>4 DEF BuddyInv, FlagsInv
    <2>6. ASSUME NEW q \in Pages, g[q] # "FREE" PROVE \E b \in held' : InUse(q, b)
      <3>1. ~ InUse(q, n) /\ flags[q] # "FREE"
        BY <2>3, <2>6
      <3>2. PICK b \in held : InUse(q, b)
        BY <3>1 DEF BuddyInv, FlagsInv
      <3>3. b \in held'
        BY <1>5, <3>1, <3>2
      <3> QED BY <3>2, <3>3
    <2>7. ASSUME NEW b \in held', NEW q \in Pages, InUse(q, b) PROVE g[q] = FlagOf(b)
      <3>1. b \in held /\ b # n
        BY <1>5
      <3>2. b[2] \in Counts /\ GoodBlock(b[1], Count2Order(b[2]))
        BY <3>1 DEF BuddyInv, HeldGood
      <3>3. HeldOver(q, b)
        BY <2>7, <3>2, UseIsHeld
      <3>4. ~ InUse(q, n)
        <4>1. ASSUME InUse(q, n) PROVE FALSE
          <5>1. HeldOver(q, n)
            BY <1>1, <1>2, <1>3, <1>6, <4>1, UseIsHeld
          <5> QED BY <1>7, <1>10, <3>1, <3>3, <5>1
        <4> QED BY <4>1
      <3> QED BY <2>3, <2>7, <3>1, <3>4 DEF BuddyInv, FlagsInv
    <2> QED BY <2>1, <2>5, <2>6, <2>7 DEF FlagsInv
  <1>16. Sound(ga) /\ Merged(ga)
    BY <1>11 DEF Released
  <1> QED BY <1>5, <1>12, <1>13, <1>14, <1>15, <1>16 DEF BuddyInv

LEMMA NextInv ==
  BuddyInv /\ [Next]_vars => BuddyInv'
  <1> SUFFICES ASSUME BuddyInv, [Next]_vars PROVE BuddyInv'
    OBVIOUS
  <1>1. ASSUME NEW count \in Counts, Allocate(count) PROVE BuddyInv'
    BY <1>1, AllocateInv
  <1>2. ASSUME NEW count \in Counts, AllocateFails(count) PROVE BuddyInv'
    BY <1>2 DEF AllocateFails, vars, BuddyInv
  <1>3. ASSUME NEW b \in held, Release(b[1], b[2]) PROVE BuddyInv'
    BY <1>3, ReleaseInv
  <1>4. CASE UNCHANGED vars
    BY <1>4 DEF vars, BuddyInv
  <1> QED BY <1>1, <1>2, <1>3, <1>4 DEF Next

LEMMA InvHolds ==
  Spec => []BuddyInv
  BY InitInv, NextInv, PTL DEF Spec

-----------------------------------------------------------------------------
(***************************************************************************)
(* What the invariant says of the blocks.                                  *)
(***************************************************************************)
LEMMA FreeBlocksAre ==
  ASSUME BuddyInv, NEW b \in FreeBlocks
  PROVE  /\ Block(freeArea, b[1], b[2]) /\ GoodBlock(b[1], b[2])
         /\ b = <<b[1], b[2]>>
         /\ \A q : q \in Span(b[1], b[2]) => q \in Pages /\ Over(q, b[1], b[2])
                                             /\ Covered(freeArea, q) /\ q \notin bitmap
  <1>1. b \in Pages \X Orders /\ Contains(freeArea[b[2]], b[1])
    BY DEF FreeBlocks
  <1>2. Block(freeArea, b[1], b[2]) /\ b = <<b[1], b[2]>>
    BY <1>1 DEF Block
  <1>3. GoodBlock(b[1], b[2])
    BY <1>2 DEF BuddyInv, Sound, AllGood
  <1>4. \A q : q \in Span(b[1], b[2]) => q \in Pages /\ Over(q, b[1], b[2])
    BY <1>3, GoodPages
  <1>5. \A q : Over(q, b[1], b[2]) => Covered(freeArea, q)
    BY <1>2 DEF Covered
  <1> QED BY <1>2, <1>3, <1>4, <1>5 DEF BuddyInv, AreaMarks

LEMMA HeldBlocksAre ==
  ASSUME BuddyInv, NEW c \in held, NEW b, b = <<c[1], Count2Order(c[2])>>
  PROVE  /\ GoodBlock(b[1], b[2])
         /\ \A q : q \in Span(b[1], b[2]) <=> (q \in Pages /\ HeldOver(q, c))
         /\ \A q : q \in Span(b[1], b[2]) => q \in bitmap
  <1>1. b[1] = c[1] /\ b[2] = Count2Order(c[2])
    OBVIOUS
  <1>2. GoodBlock(b[1], b[2])
    BY <1>1 DEF BuddyInv, HeldGood
  <1>3. \A q : q \in Span(b[1], b[2]) <=> (q \in Pages /\ Over(q, b[1], b[2]))
    BY <1>2, GoodPages
  <1>4. \A q : HeldOver(q, c) <=> Over(q, b[1], b[2])
    BY <1>1 DEF HeldOver
  <1> QED BY <1>2, <1>3, <1>4 DEF BuddyInv, Marks

LEMMA FirstInSpan ==
  ASSUME NEW i, NEW o, GoodBlock(i, o)
  PROVE  i \in Span(i, o)
  BY GoodPages, OverFirst DEF GoodBlock

LEMMA InvTypeOK ==
  ASSUME BuddyInv PROVE TypeOK
  <1>1. freeArea \in [Orders -> Seq(Pages)]
    BY DEF BuddyInv, Sound, IsArea, IsList
  <1> QED BY <1>1 DEF BuddyInv, Marks, FlagsInv, HeldGood, TypeOK

LEMMA InvNoOverlap ==
  ASSUME BuddyInv PROVE NoOverlap
  <1>1. ASSUME NEW b \in FreeBlocks, NEW c \in FreeBlocks, b # c
        PROVE  Span(b[1], b[2]) \cap Span(c[1], c[2]) = {}
    <2> SUFFICES ASSUME NEW q \in Span(b[1], b[2]), q \in Span(c[1], c[2]) PROVE FALSE
      OBVIOUS
    <2>1. /\ Block(freeArea, b[1], b[2]) /\ Block(freeArea, c[1], c[2]) /\ q \in Pages
          /\ Over(q, b[1], b[2]) /\ Over(q, c[1], c[2])
          /\ b = <<b[1], b[2]>> /\ c = <<c[1], c[2]>>
      BY FreeBlocksAre
    <2>2. b[1] = c[1] /\ b[2] = c[2]
      BY <2>1 DEF BuddyInv, Sound, Apart
    <2> QED BY <1>1, <2>1, <2>2
  <1>2. ASSUME NEW b \in FreeBlocks, NEW c \in HeldBlocks
        PROVE  /\ Span(b[1], b[2]) \cap Span(c[1], c[2]) = {}
               /\ Span(c[1], c[2]) \cap Span(b[1], b[2]) = {}
               /\ b # c
    <2>1. PICK d \in held : c = <<d[1], Count2Order(d[2])>>
      BY DEF HeldBlocks
    <2>2. \A q : q \in Span(c[1], c[2]) => q \in bitmap
      BY <2>1, HeldBlocksAre
    <2>3. \A q : q \in Span(b[1], b[2]) => q \notin bitmap
      BY FreeBlocksAre
    <2>4. b[1] \in Span(b[1], b[2])
      BY FreeBlocksAre, FirstInSpan
    <2>5. b # c
      BY <2>2, <2>3, <2>4
    <2>6. \A q : ~ (q \in Span(b[1], b[2]) /\ q \in Span(c[1], c[2]))
      BY <2>2, <2>3
    <2> QED BY <2>5, <2>6
  <1>3. ASSUME NEW b \in HeldBlocks, NEW c \in HeldBlocks, b # c
        PROVE  Span(b[1], b[2]) \cap Span(c[1], c[2]) = {}
    <2> SUFFICES ASSUME NEW q \in Span(b[1], b[2]), q \in Span(c[1], c[2]) PROVE FALSE
      OBVIOUS
    <2>1. PICK d \in held : b = <<d[1], Count2Order(d[2])>>
      BY DEF HeldBlocks
    <2>2. PICK e \in held : c = <<e[1], Count2Order(e[2])>>
      BY DEF HeldBlocks
    <2>3. q \in Pages /\ HeldOver(q, d) /\ HeldOver(q, e)
      BY <2>1, <2>2, HeldBlocksAre
    <2>4. d = e
      BY <2>3 DEF BuddyInv, HeldApart
    <2> QED BY <1>3, <2>1, <2>2, <2>4
  <1>4. \A b, c \in FreeBlocks \cup HeldBlocks :
          b # c => Span(b[1], b[2]) \cap Span(c[1], c[2]) = {}
    BY <1>1, <1>2, <1>3
  <1>5. FreeBlocks \cap HeldBlocks = {}
    BY <1>2
  <1>6. Cardinality(HeldBlocks) = Cardinality(held)
    <2>1. PICK f : f = [b \in held |-> <<b[1], Count2Order(b[2])>>]
      OBVIOUS
    <2>2. f \in Surjection(held, HeldBlocks)
      BY <2>1 DEF Surjection, HeldBlocks
    <2>3. ASSUME NEW b \in held, NEW c \in held, f[b] = f[c] PROVE b = c
      <3>1. PICK d : d = <<b[1], Count2Order(b[2])>>
        OBVIOUS
      <3>2. d = <<c[1], Count2Order(c[2])>>
        BY <2>1, <2>3, <3>1
      <3>3. d[1] \in Span(d[1], d[2])
        BY <3>1, HeldBlocksAre, FirstInSpan
      <3>4. d[1] \in Pages /\ HeldOver(d[1], b) /\ HeldOver(d[1], c)
        BY <3>1, <3>2, <3>3, HeldBlocksAre
      <3> QED BY <3>4 DEF BuddyInv, HeldApart
    <2>4. f \in [held -> HeldBlocks]
      BY <2>2 DEF Surjection
    <2>5. f \in Injection(held, HeldBlocks)
      BY <2>3, <2>4 DEF Injection, IsInjective
    <2> QED BY <2>2, <2>5, FS_Surjection DEF BuddyInv, HeldGood
  <1>7. ASSUME NEW o \in Orders PROVE IsInjective(freeArea[o])
    <2>1. IsList(freeArea[o])
      BY DEF BuddyInv, Sound, IsArea
    <2>2. DOMAIN freeArea[o] = 1 .. Len(freeArea[o])
      BY <2>1, LenProperties DEF IsList
    <2> QED BY <2>1, <2>2 DEF IsList, IsInjective
  <1> QED BY <1>4, <1>5, <1>6, <1>7 DEF NoOverlap

LEMMA InvBitmapExact ==
  ASSUME BuddyInv PROVE BitmapExact
  <1>1. ASSUME NEW q \in bitmap
        PROVE  q \in UNION {Span(b[1], b[2]) : b \in HeldBlocks}
    <2>1. PICK c \in held : HeldOver(q, c) /\ q \in Pages
      BY DEF BuddyInv, Marks
    <2>2. PICK b : b = <<c[1], Count2Order(c[2])>> /\ b \in HeldBlocks
      BY DEF HeldBlocks
    <2>3. q \in Span(b[1], b[2])
      BY <2>1, <2>2, HeldBlocksAre
    <2> QED BY <2>2, <2>3
  <1>2. ASSUME NEW q, q \in UNION {Span(b[1], b[2]) : b \in HeldBlocks}
        PROVE  q \in bitmap
    <2>1. PICK b \in HeldBlocks : q \in Span(b[1], b[2])
      BY <1>2
    <2>2. PICK c \in held : b = <<c[1], Count2Order(c[2])>>
      BY DEF HeldBlocks
    <2> QED BY <2>1, <2>2, HeldBlocksAre
  <1> QED BY <1>1, <1>2 DEF BitmapExact

LEMMA InvFlagsAgree ==
  ASSUME BuddyInv PROVE FlagsAgree
  <1>1. ASSUME NEW b \in held, NEW q PROVE InUse(q, b) => q \in Pages /\ HeldOver(q, b)
    <2>1. b[2] \in Counts /\ GoodBlock(b[1], Count2Order(b[2]))
      BY DEF BuddyInv, HeldGood
    <2> QED BY <2>1, UseIsHeld
  <1>2. ASSUME NEW b \in FreeBlocks, NEW q \in Span(b[1], b[2]) \cap Pages
        PROVE  flags[q] = "FREE"
    <2>1. q \in Pages /\ q \notin bitmap
      BY FreeBlocksAre
    <2>2. \A c \in held : ~ HeldOver(q, c)
      BY <2>1 DEF BuddyInv, Marks
    <2>3. \A c \in held : ~ InUse(q, c)
      BY <1>1, <2>2
    <2> QED BY <2>1, <2>3 DEF BuddyInv, FlagsInv
  <1>3. ASSUME NEW b \in held, NEW q \in b[1] .. b[1] + b[2] - 1
        PROVE  flags[q] = IF b[2] = 1 THEN "SINGLE" ELSE "MULTI"
    <2>1. InUse(q, b)
      BY DEF InUse
    <2>2. q \in Pages
      BY <1>1, <2>1
    <2> QED BY <2>1, <2>2 DEF BuddyInv, FlagsInv, FlagOf
  <1> QED BY <1>2, <1>3 DEF FlagsAgree

LEMMA InvPagesKept ==
  ASSUME BuddyInv PROVE PagesKept
  <1> SUFFICES ASSUME NEW q \in Pages
               PROVE  q \in PagesPresent <=> ~ IsLost(q)
    BY LostAtBootIs DEF PagesKept
  <1>1. ASSUME q \in bitmap PROVE q \in PagesPresent
    BY <1>1, InvBitmapExact DEF BitmapExact, PagesPresent
  <1>2. ASSUME Covered(freeArea, q) PROVE q \in PagesPresent
    <2>1. PICK i, o : Block(freeArea, i, o) /\ Over(q, i, o)
      BY <1>2 DEF Covered
    <2>2. GoodBlock(i, o)
      BY <2>1 DEF BuddyInv, Sound, AllGood
    <2>3. q \in Span(i, o)
      BY <2>1, <2>2, GoodPages
    <2>4. PICK b : b = <<i, o>>
      OBVIOUS
    <2>5. b[1] = i /\ b[2] = o
      BY <2>4
    <2>6. b \in FreeBlocks
      BY <2>1, <2>2, <2>4, <2>5 DEF FreeBlocks, Block, GoodBlock
    <2> QED BY <2>3, <2>5, <2>6 DEF PagesPresent
  <1>3. ASSUME q \in PagesPresent PROVE Covered(freeArea, q) \/ q \in bitmap
    <2>1. PICK b \in FreeBlocks \cup HeldBlocks : q \in Span(b[1], b[2])
      BY <1>3 DEF PagesPresent
    <2>2. CASE b \in FreeBlocks
      BY <2>1, <2>2, FreeBlocksAre
    <2>3. CASE b \in HeldBlocks
      <3>1. PICK c \in held : b = <<c[1], Count2Order(c[2])>>
        BY <2>3 DEF HeldBlocks
      <3> QED BY <2>1, <3>1, HeldBlocksAre
    <2> QED BY <2>1, <2>2, <2>3
  <1> QED BY <1>1, <1>2, <1>3 DEF BuddyInv, AreaMarks

LEMMA InvFullyMerged ==
  ASSUME BuddyInv PROVE FullyMerged
  <1> SUFFICES ASSUME held = {}, NEW o \in Orders
               PROVE  ToSet(freeArea[o]) = ToSet(InitialArea[o])
    BY DEF FullyMerged
  <1>1. \A q \in Pages : q \notin bitmap
    BY DEF BuddyInv, Marks
  <1>2. \A q \in Pages : Covered(freeArea, q) <=> ~ IsLost(q)
    BY <1>1 DEF BuddyInv, AreaMarks
  <1>3. SameCover(freeArea, InitialArea)
    BY <1>2, InitialAreaFacts DEF SameCover
  <1>4. /\ Sound(freeArea) /\ Merged(freeArea)
        /\ Sound(InitialArea) /\ Merged(InitialArea)
    BY InitialAreaFacts DEF BuddyInv
  <1> QED BY <1>3, <1>4, SameLists

-----------------------------------------------------------------------------
(***************************************************************************)
(* Type correctness: the lists hold pages of the pool, the bitmap marks    *)
(* pages of the pool, and what callers hold starts in the pool.            *)
(***************************************************************************)
THEOREM TypeCorrect ==
  Spec => []TypeOK
  BY InvHolds, InvTypeOK, PTL

(***************************************************************************)
(* allocate() never hands out a page that a caller holds or that a list    *)
(* still offers, and no list offers a page twice, after any sequence of    *)
(* allocate() and release().                                               *)
(***************************************************************************)
THEOREM BlocksNeverOverlap ==
  Spec => []NoOverlap
  BY InvHolds, InvNoOverlap, PTL

(***************************************************************************)
(* The bitmap that releaseBlock() tests marks exactly the pages of the     *)
(* blocks held.                                                            *)
(***************************************************************************)
THEOREM BitmapIsExact ==
  Spec => []BitmapExact
  BY InvHolds, InvBitmapExact, PTL

(***************************************************************************)
(* The assertions on the page flags in allocatePhysicalPages() and         *)
(* releasePhysicalPages() never fail.                                      *)
(***************************************************************************)
THEOREM FlagsAlwaysAgree ==
  Spec => []FlagsAgree
  BY InvHolds, InvFlagsAgree, PTL

(***************************************************************************)
(* Boot alone loses pages, in a pool of any size: initialize() drops the   *)
(* second block of every pair of whole blocks of the largest order, and    *)
(* after it no allocate() or release() loses a page or brings one back.    *)
(***************************************************************************)
THEOREM OnlyBootLosesPages ==
  Spec => []PagesKept
  BY InvHolds, InvPagesKept, PTL

(***************************************************************************)
(* The free lists hold the blocks of the boot state again whenever every   *)
(* block has been released, in a pool of any size and in whatever order    *)
(* the blocks were released.                                               *)
(***************************************************************************)
THEOREM MergingIsComplete ==
  Spec => []FullyMerged
  BY InvHolds, InvFullyMerged, PTL
=============================================================================
